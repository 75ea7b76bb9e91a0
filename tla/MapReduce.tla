------------------------------ MODULE MapReduce ------------------------------
(***************************************************************************)
(* The map-reduce framework of Ex03 (MapReduceFramework.cpp), run by a     *)
(* client that maps and reduces like Sample_Client/SampleClient.cpp.       *)
(*                                                                         *)
(* A thread's steps are its accesses to shared memory: one action per      *)
(* atomic operation, per half of an unprotected vector append and per step *)
(* of the barrier, whose condition variable has no spurious wakeups here.  *)
(* Work on a thread's own data is part of the step before or after it.     *)
(* Keys are positive numbers, 0 is a null key pointer.                     *)
(***************************************************************************)
EXTENDS Naturals, Sequences, SequencesExt, FiniteSets

CONSTANTS
  ThreadLevel,   \* multiThreadLevel
  NoThread,      \* what holds a free mutex
  Inputs,        \* the input vectors: Inputs[i][n] is the n-th key map(i) emits
  Patient        \* whether the client polls until it has seen 100% (SampleClient)

ASSUME MapReduceAssumption ==
  /\ ThreadLevel \in Nat \ {0}
  /\ NoThread \notin 0 .. ThreadLevel - 1
  /\ \A input \in Inputs :
       input \in Seq(Seq(Nat)) /\ \A i \in DOMAIN input : 0 \notin Range(input[i])
  /\ Patient \in BOOLEAN

Threads == 0 .. ThreadLevel - 1

UNDEFINED_STAGE == 0
MAP_STAGE       == 1
SHUFFLE_STAGE   == 2
REDUCE_STAGE    == 3

VARIABLES
  inputVec,
  atomic_state,            \* stage (2 bits), total and count (31 bits each)
  atomic_next_to_process,
  intermediateVec,         \* per thread
  beforeShuffle, afterShuffle,
  outputVec,
  mutex,                   \* the job's mutex: its holder, or NoThread
  barrier_mutex, barrier_count, barrier_at,
  pc, x, old_val, slot,    \* per thread: next step and the locals of its calls
  maxKey, temp,            \* locals of shuffle_phase
  main, created, thread_join, State

inputs   == <<inputVec>>
progress == <<atomic_state, atomic_next_to_process>>
shuffle  == <<beforeShuffle, afterShuffle, maxKey, temp>>
barrier  == <<barrier_mutex, barrier_count, barrier_at>>
locals   == <<pc, x, old_val, slot>>
client   == <<main, created, thread_join, State>>
vars == <<inputs, progress, intermediateVec, shuffle, outputVec, mutex, barrier,
          locals, client>>

B == INSTANCE Barrier
       WITH mutex <- barrier_mutex, count <- barrier_count, at <- barrier_at

Goto(t, label) == pc' = [pc EXCEPT ![t] = label]

-----------------------------------------------------------------------------
(***************************************************************************)
(* create_job up to its loop.                                              *)
(***************************************************************************)
Init ==
  /\ inputVec \in Inputs
  /\ atomic_state = [stage |-> MAP_STAGE, total |-> Len(inputVec), count |-> 0]
  /\ atomic_next_to_process = 0
  /\ intermediateVec = [t \in Threads |-> <<>>]
  /\ beforeShuffle = <<>> /\ afterShuffle = <<>> /\ outputVec = <<>>
  /\ mutex = NoThread
  /\ B!Init
  /\ pc = [t \in Threads |-> "start"]
  /\ x = [t \in Threads |-> atomic_state]
  /\ old_val = [t \in Threads |-> 0] /\ slot = [t \in Threads |-> 0]
  /\ maxKey = 0 /\ temp = <<>>
  /\ main = "create" /\ created = 0 /\ thread_join = FALSE
  /\ State = [stage |-> UNDEFINED_STAGE, percentage |-> "part"]

(***************************************************************************)
(* atomic_state.load and fetch_add return the value before the addition.   *)
(***************************************************************************)
Load(t) == x' = [x EXCEPT ![t] = atomic_state]

Add(n) == atomic_state' = [atomic_state EXCEPT !.count = @ + n]

FetchAdd(t, n) == Load(t) /\ Add(n)

\* The loop condition of map_phase and reduce_phase, on the state last read.
Unfinished(t) == x[t].count < x[t].total

\* old_val = atomic_next_to_process.fetch_add(1)
Claim(t) ==
  /\ old_val' = [old_val EXCEPT ![t] = atomic_next_to_process]
  /\ atomic_next_to_process' = atomic_next_to_process + 1

-----------------------------------------------------------------------------
(***************************************************************************)
(* map_phase and sort_phase.                                               *)
(***************************************************************************)
MapStart(t) ==
  /\ pc[t] = "start" /\ t < created
  /\ Load(t)
  /\ Goto(t, "map")
  /\ UNCHANGED <<inputs, progress, intermediateVec, shuffle, outputVec, mutex, barrier,
                 old_val, slot, client>>

\* Mutant of MapClaim: > for >=, so one item past the end is mapped.
MapOnePast(t) ==
  /\ pc[t] = "map" /\ Unfinished(t)
  /\ Claim(t)
  /\ Goto(t, IF atomic_next_to_process > Len(inputVec) THEN "sort" ELSE "mapping")
  /\ UNCHANGED <<inputs, atomic_state, intermediateVec, shuffle, outputVec, mutex, barrier,
                 x, slot, client>>

\* Mutant of MapClaim: continue for break.
ClaimAgain(t) ==
  /\ pc[t] = "map" /\ Unfinished(t)
  /\ Claim(t)
  /\ Goto(t, IF atomic_next_to_process >= Len(inputVec) THEN "map" ELSE "mapping")
  /\ UNCHANGED <<inputs, atomic_state, intermediateVec, shuffle, outputVec, mutex, barrier,
                 x, slot, client>>

MapClaim(t) ==
  /\ pc[t] = "map" /\ Unfinished(t)
  /\ Claim(t)
  /\ Goto(t, IF atomic_next_to_process >= Len(inputVec) THEN "sort" ELSE "mapping")
  /\ UNCHANGED <<inputs, atomic_state, intermediateVec, shuffle, outputVec, mutex, barrier,
                 x, slot, client>>

\* The pairs that map emits for the item claimed, by emit2.
Emitted(t) ==
  LET i == old_val[t] + 1
  IN  [n \in DOMAIN inputVec[i] |-> [key |-> inputVec[i][n], item |-> i, nth |-> n]]

MapItem(t) ==
  /\ pc[t] = "mapping"
  /\ intermediateVec' = [intermediateVec EXCEPT ![t] = @ \o Emitted(t)]
  /\ FetchAdd(t, 1)
  /\ Goto(t, "map")
  /\ UNCHANGED <<inputs, atomic_next_to_process, shuffle, outputVec, mutex, barrier,
                 old_val, slot, client>>

MapDone(t) ==
  /\ pc[t] = "map" /\ ~Unfinished(t)
  /\ Goto(t, "sort")
  /\ UNCHANGED <<inputs, progress, intermediateVec, shuffle, outputVec, mutex, barrier,
                 x, old_val, slot, client>>

ByKey(a, b) == a.key < b.key

Sorted(vec) == \A m, n \in DOMAIN vec : m < n => ~ByKey(vec[n], vec[m])

\* What std::sort may leave: it does not keep pairs with equal keys in order.
Sorts(vec) ==
  {v \in {[n \in DOMAIN vec |-> vec[p[n]]] : p \in Bijection(DOMAIN vec, DOMAIN vec)} :
     Sorted(v)}

SortVector(t) ==
  \E v \in Sorts(intermediateVec[t]) :
    intermediateVec' = [intermediateVec EXCEPT ![t] = v]

\* Mutant of SortAndLock: the vector is pushed without the mutex.
SortWithoutLock(t) ==
  /\ pc[t] = "sort"
  /\ SortVector(t)
  /\ Goto(t, "push")
  /\ UNCHANGED <<inputs, progress, shuffle, outputVec, mutex, barrier, x, old_val, slot,
                 client>>

\* Mutant of SortAndLock: the vector is not sorted.
LockWithoutSort(t) ==
  /\ pc[t] = "sort" /\ mutex = NoThread
  /\ mutex' = t
  /\ Goto(t, "push")
  /\ UNCHANGED <<inputs, progress, intermediateVec, shuffle, outputVec, barrier,
                 x, old_val, slot, client>>

\* std::sort of the thread's own vector, then the job's mutex.
SortAndLock(t) ==
  /\ pc[t] = "sort" /\ mutex = NoThread
  /\ mutex' = t
  /\ SortVector(t)
  /\ Goto(t, "push")
  /\ UNCHANGED <<inputs, progress, shuffle, outputVec, barrier, x, old_val, slot, client>>

\* push_back in two halves: the place of the new element is read, then it is
\* written there and becomes the last one.
Slot(t, vec) == slot' = [slot EXCEPT ![t] = Len(vec) + 1]
Placed(t, vec, elem) == Append(SubSeq(vec, 1, slot[t] - 1), elem)

PushSlot(t) ==
  /\ pc[t] = "push"
  /\ Slot(t, beforeShuffle)
  /\ Goto(t, "pushing")
  /\ UNCHANGED <<inputs, progress, intermediateVec, shuffle, outputVec, mutex, barrier,
                 x, old_val, client>>

PushAndUnlock(t) ==
  /\ pc[t] = "pushing"
  /\ beforeShuffle' = Placed(t, beforeShuffle, intermediateVec[t])
  /\ mutex' = NoThread
  /\ Goto(t, "barrier1")
  /\ UNCHANGED <<inputs, progress, intermediateVec, afterShuffle, maxKey, temp, outputVec,
                 barrier, x, old_val, slot, client>>

-----------------------------------------------------------------------------
(***************************************************************************)
(* thread_flow between the phases: two barriers, and thread 0 shuffles in  *)
(* between.                                                                *)
(***************************************************************************)
\* Mutant of AfterBarrier: every thread shuffles, not only thread 0.
AllShuffle(t) == IF pc[t] = "barrier2" THEN "reduce_start" ELSE "reset_to_shuffle"

AfterBarrier(t) ==
  IF pc[t] = "barrier2" THEN "reduce_start"
  ELSE IF t = 0 THEN "reset_to_shuffle" ELSE "barrier2"

BarrierStep(t) ==
  /\ pc[t] \in {"barrier1", "barrier2"}
  /\ \/ B!Call(t) /\ UNCHANGED pc
     \/ B!Inside(t) /\ UNCHANGED pc
     \/ B!Return(t) /\ Goto(t, AfterBarrier(t))
  /\ UNCHANGED <<inputs, progress, intermediateVec, shuffle, outputVec, mutex,
                 x, old_val, slot, client>>

count_elements(vecs) == Cardinality(UNION {{v} \X DOMAIN vecs[v] : v \in DOMAIN vecs})

\* The largest key at the back of a vector, 0 if all are empty.
max_key(vecs) ==
  LET backs == {Last(v).key : v \in {w \in Range(vecs) : w # <<>>}}
  IN  IF backs = {} THEN 0 ELSE CHOOSE k \in backs : \A j \in backs : j <= k

\* Mutant of ResetState: the count of the last stage is kept.
ResetKeepingCount(t, label, next, stage, vecs) ==
  /\ pc[t] = label
  /\ atomic_state' = [atomic_state EXCEPT !.stage = stage, !.total = count_elements(vecs)]
  /\ Goto(t, next)
  /\ UNCHANGED <<inputs, atomic_next_to_process, intermediateVec, shuffle, outputVec, mutex,
                 barrier, x, old_val, slot, client>>

\* reset_counter stores the new state first and the claim counter after it.
ResetState(t, label, next, stage, vecs) ==
  /\ pc[t] = label
  /\ atomic_state' = [stage |-> stage, total |-> count_elements(vecs), count |-> 0]
  /\ Goto(t, next)
  /\ UNCHANGED <<inputs, atomic_next_to_process, intermediateVec, shuffle, outputVec, mutex,
                 barrier, x, old_val, slot, client>>

\* Mutant of ResetClaims: the claim counter goes on from the last stage.
KeepClaims(t) ==
  UNCHANGED <<inputs, progress, intermediateVec, beforeShuffle, afterShuffle, temp,
              outputVec, mutex, barrier, x, old_val, slot, client>>

ResetClaims(t) ==
  /\ atomic_next_to_process' = 0
  /\ UNCHANGED <<inputs, atomic_state, intermediateVec, beforeShuffle, afterShuffle, temp,
                 outputVec, mutex, barrier, x, old_val, slot, client>>

StartShuffle(t) ==
  /\ pc[t] = "reset_shuffle_claims"
  /\ ResetClaims(t)
  /\ maxKey' = max_key(beforeShuffle)
  /\ Goto(t, "shuffle")

\* One pair of the current key moves from the back of the first vector that ends
\* with that key to the group.
ShufflePair(t) ==
  /\ pc[t] = "shuffle" /\ maxKey # 0
  /\ \E v \in DOMAIN beforeShuffle :
       LET Ends(w) == beforeShuffle[w] # <<>> /\ Last(beforeShuffle[w]).key = maxKey
       IN  /\ Ends(v) /\ \A w \in 1 .. v-1 : ~Ends(w)
           /\ temp' = Append(temp, Last(beforeShuffle[v]))
           /\ beforeShuffle' = [beforeShuffle EXCEPT ![v] = Front(@)]
  /\ Add(1)
  /\ UNCHANGED <<inputs, atomic_next_to_process, intermediateVec, afterShuffle, maxKey,
                 outputVec, mutex, barrier, locals, client>>

EndGroup(t) ==
  /\ pc[t] = "shuffle" /\ maxKey # 0
  /\ \A v \in DOMAIN beforeShuffle :
       beforeShuffle[v] # <<>> => Last(beforeShuffle[v]).key # maxKey
  /\ afterShuffle' = Append(afterShuffle, temp)
  /\ temp' = <<>>
  /\ maxKey' = max_key(beforeShuffle)
  /\ UNCHANGED <<inputs, progress, intermediateVec, beforeShuffle, outputVec, mutex, barrier,
                 pc, x, old_val, slot, client>>

ShuffleDone(t) ==
  /\ maxKey = 0
  /\ ResetState(t, "shuffle", "reset_reduce_claims", REDUCE_STAGE, afterShuffle)

StartReduce(t) ==
  /\ pc[t] = "reset_reduce_claims"
  /\ ResetClaims(t)
  /\ UNCHANGED maxKey
  /\ Goto(t, "barrier2")

Shuffling(t) ==
  \/ ResetState(t, "reset_to_shuffle", "reset_shuffle_claims", SHUFFLE_STAGE, beforeShuffle)
  \/ StartShuffle(t) \/ ShufflePair(t) \/ EndGroup(t) \/ ShuffleDone(t) \/ StartReduce(t)

-----------------------------------------------------------------------------
(***************************************************************************)
(* reduce_phase; reduce makes one output pair and hands it to emit3.       *)
(***************************************************************************)
ReduceStart(t) ==
  /\ pc[t] = "reduce_start"
  /\ Load(t)
  /\ Goto(t, "reduce")
  /\ UNCHANGED <<inputs, progress, intermediateVec, shuffle, outputVec, mutex, barrier,
                 old_val, slot, client>>

\* Mutant of ReduceClaim: a group counts as finished when it is claimed.
CountWhenClaimed(t) ==
  /\ pc[t] = "reduce" /\ Unfinished(t)
  /\ Claim(t)
  /\ IF atomic_next_to_process >= Len(afterShuffle)
       THEN Goto(t, "done") /\ UNCHANGED atomic_state
       ELSE Goto(t, "reducing") /\ Add(Len(afterShuffle[atomic_next_to_process + 1]))
  /\ UNCHANGED <<inputs, intermediateVec, shuffle, outputVec, mutex, barrier,
                 x, slot, client>>

ReduceClaim(t) ==
  /\ pc[t] = "reduce" /\ Unfinished(t)
  /\ Claim(t)
  /\ Goto(t, IF atomic_next_to_process >= Len(afterShuffle) THEN "done" ELSE "reducing")
  /\ UNCHANGED <<inputs, atomic_state, intermediateVec, shuffle, outputVec, mutex, barrier,
                 x, slot, client>>

Claimed(t) == afterShuffle[old_val[t] + 1]

EmitLock(t) ==
  /\ pc[t] = "reducing" /\ mutex = NoThread
  /\ mutex' = t
  /\ Goto(t, "emit")
  /\ UNCHANGED <<inputs, progress, intermediateVec, shuffle, outputVec, barrier,
                 x, old_val, slot, client>>

EmitSlot(t) ==
  /\ pc[t] = "emit"
  /\ Slot(t, outputVec)
  /\ Goto(t, "emitting")
  /\ UNCHANGED <<inputs, progress, intermediateVec, shuffle, outputVec, mutex, barrier,
                 x, old_val, client>>

EmitAndUnlock(t) ==
  /\ pc[t] = "emitting"
  /\ outputVec' = Placed(t, outputVec, Range(Claimed(t)))
  /\ mutex' = NoThread
  /\ Goto(t, "reduced")
  /\ UNCHANGED <<inputs, progress, intermediateVec, shuffle, barrier, x, old_val, slot,
                 client>>

ReduceCount(t) ==
  /\ pc[t] = "reduced"
  /\ FetchAdd(t, Len(Claimed(t)))
  /\ Goto(t, "reduce")
  /\ UNCHANGED <<inputs, atomic_next_to_process, intermediateVec, shuffle, outputVec, mutex,
                 barrier, old_val, slot, client>>

ReduceDone(t) ==
  /\ pc[t] = "reduce" /\ ~Unfinished(t)
  /\ Goto(t, "done")
  /\ UNCHANGED <<inputs, progress, intermediateVec, shuffle, outputVec, mutex, barrier,
                 x, old_val, slot, client>>

thread_flow(t) ==
  \/ MapStart(t) \/ MapClaim(t) \/ MapItem(t) \/ MapDone(t)
  \/ SortAndLock(t) \/ PushSlot(t) \/ PushAndUnlock(t)
  \/ BarrierStep(t)
  \/ Shuffling(t)
  \/ ReduceStart(t) \/ ReduceClaim(t) \/ ReduceDone(t)
  \/ EmitLock(t) \/ EmitSlot(t) \/ EmitAndUnlock(t) \/ ReduceCount(t)

-----------------------------------------------------------------------------
(***************************************************************************)
(* The client's thread.                                                    *)
(***************************************************************************)
jobVars == <<inputs, progress, intermediateVec, shuffle, outputVec, mutex, barrier, locals>>

\* pthread_create in the loop of create_job.
CreateThread ==
  /\ main = "create"
  /\ created' = created + 1
  /\ main' = IF created' = ThreadLevel THEN "running" ELSE main
  /\ UNCHANGED <<jobVars, thread_join, State>>

\* 100.0f * count / total: 0/0 is not a number, and differs from 100.0.
getJobState ==
  /\ main \in {"running", "joined"}
  /\ State' = [stage |-> atomic_state.stage,
               percentage |-> IF atomic_state.total = 0 THEN "nan"
                              ELSE IF atomic_state.count = atomic_state.total THEN "full"
                              ELSE "part"]
  /\ UNCHANGED <<jobVars, main, created, thread_join>>

SeenDone == State.stage = REDUCE_STAGE /\ State.percentage = "full"

waitForJob ==
  /\ main = "running" /\ ~thread_join
  /\ Patient => SeenDone
  /\ thread_join' = TRUE
  /\ main' = "joining"
  /\ UNCHANGED <<jobVars, created, State>>

\* The last pthread_join returns.
Joined ==
  /\ main = "joining"
  /\ \A t \in Threads : pc[t] = "done"
  /\ main' = "joined"
  /\ UNCHANGED <<jobVars, created, thread_join, State>>

\* closeJobHandle; a call that comes before waitForJob runs it first.
closeJobHandle ==
  /\ main = "joined" /\ thread_join
  /\ main' = "closed"
  /\ UNCHANGED <<jobVars, created, thread_join, State>>

Ended == main = "closed" /\ UNCHANGED vars

Client == CreateThread \/ getJobState \/ waitForJob \/ Joined \/ closeJobHandle

Next == (\E t \in Threads : thread_flow(t)) \/ Client \/ Ended

Spec == Init /\ [][Next]_vars

(***************************************************************************)
(* Every thread keeps being scheduled; so is the client, which polls as    *)
(* long as it likes.  The mutexes are taken a bounded number of times.     *)
(***************************************************************************)
FairSpec ==
  /\ Spec
  /\ \A t \in Threads : WF_vars(thread_flow(t))
  /\ WF_vars(CreateThread) /\ WF_vars(getJobState)

-----------------------------------------------------------------------------
(* Properties. *)

Abstract == INSTANCE AbstractMapReduce WITH closed <- main = "closed"

\* Types and ranges of the job's fields (MapReduceFramework.cpp:19-44).  A thread
\* at work has an index of the vector its stage claims from: at() never throws
\* (lines 176, 257).
JobTypeOK ==
  /\ atomic_state.stage \in MAP_STAGE .. REDUCE_STAGE
  /\ mutex \in Threads \cup {NoThread}
  /\ B!BarrierTypeOK
  /\ created \in 0..ThreadLevel
  /\ Len(beforeShuffle) <= ThreadLevel
  /\ \A t \in Threads :
       /\ pc[t] = "mapping" => old_val[t] < Len(inputVec)
       /\ pc[t] \in {"reducing", "emit", "emitting", "reduced"} =>
            old_val[t] < Len(afterShuffle)
  /\ State.percentage \in {"nan", "part", "full"}

\* The claims of a stage run past the end of its vector at most once per thread,
\* however long the loop condition lags behind them, so the int they are counted
\* in does not run away (fetch_add and break, MapReduceFramework.cpp:171-175,
\* 252-256).
ClaimsBounded ==
  LET claimed == IF atomic_state.stage = REDUCE_STAGE THEN afterShuffle ELSE inputVec
  IN  atomic_next_to_process <= Len(claimed) + ThreadLevel

\* The counter never runs past the total, so it never carries into the bits of
\* the total or of the stage (the macros of MapReduceFramework.cpp:9-13).
CountWithinTotal == atomic_state.count <= atomic_state.total

Elements(vecs) == UNION {Range(vecs[v]) : v \in DOMAIN vecs}

NoneTwice(vecs) ==
  \A v, w \in DOMAIN vecs : \A m \in DOMAIN vecs[v], n \in DOMAIN vecs[w] :
    vecs[v][m] = vecs[w][n] => v = w /\ m = n

\* From the first barrier on, every pair emitted for every input item is in
\* exactly one place: a sorted vector, the group being built or a finished group.
\* No item is mapped twice or skipped, no push_back is lost to another, and the
\* shuffle neither drops nor doubles a pair.
ShuffleConserves ==
  atomic_state.stage # MAP_STAGE =>
    LET places == beforeShuffle \o <<temp>> \o afterShuffle
    IN  NoneTwice(places) /\ Elements(places) = Abstract!PairsOf(inputVec)

\* A client that reads REDUCE_STAGE and 100% may use the output: every key has
\* been reduced and its result is in the output vector.
FullMeansComplete ==
  SeenDone => Range(outputVec) = Abstract!Groups(inputVec)

\* What getJobState reports never goes back: stages only advance, and within a
\* stage the total is fixed and the count only grows.
ProgressMonotone ==
  [][\/ atomic_state'.stage > atomic_state.stage
     \/ /\ atomic_state'.stage = atomic_state.stage
        /\ atomic_state'.total = atomic_state.total
        /\ atomic_state'.count >= atomic_state.count]_vars

\* The framework computes a map-reduce: each key is reduced exactly once, with
\* all its pairs, and closeJobHandle returns only when the output is complete.
ImplementsMapReduce == Abstract!Spec

\* Every thread ends, and the progress then stands at the end of the last stage.
JobEnds ==
  <>[](/\ \A t \in Threads : pc[t] = "done"
       /\ atomic_state.stage = REDUCE_STAGE
       /\ atomic_state.count = atomic_state.total)

\* SampleClient.cpp:85: a client that polls until REDUCE_STAGE and 100.0 stops.
PollingEnds == <>SeenDone
=============================================================================

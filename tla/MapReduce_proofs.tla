--------------------------- MODULE MapReduce_proofs ---------------------------
(***************************************************************************)
(* Proofs about MapReduce: for any number of threads and any inputs the    *)
(* job keeps its types and its progress in range, loses and doubles no     *)
(* pair, and implements AbstractMapReduce.                                 *)
(*                                                                         *)
(* The invariant IInv has a part for the types, for where the threads are, *)
(* for the mutex, for each stage and for the client.  After the lemmas     *)
(* about pairs, vectors and barriers there is a section for each part, in  *)
(* that order, with a lemma for each group of actions; the theorems are at *)
(* the end.                                                                *)
(***************************************************************************)
EXTENDS MapReduce, FiniteSetTheorems, SequenceTheorems, TLAPS

Pairs  == Abstract!PairsOf(inputVec)
Groups == Abstract!Groups(inputVec)

(***************************************************************************)
(* The inductive invariant, in the parts the phases of the job give it.    *)
(***************************************************************************)
MapWork     == {"start", "map", "mapping", "sort", "push", "pushing"}
ShuffleWork == {"reset_to_shuffle", "reset_shuffle_claims", "shuffle", "reset_reduce_claims"}
ReduceWork  == {"reduce_start", "reduce", "reducing", "emit", "emitting", "reduced", "done"}
AtBarrier   == {"barrier1", "barrier2"}
Labels      == MapWork \cup ShuffleWork \cup ReduceWork \cup AtBarrier

Progress == [stage : MAP_STAGE .. REDUCE_STAGE, total : Nat, count : Nat]

TypeInv ==
  /\ inputVec \in Inputs
  /\ atomic_state \in Progress
  /\ atomic_next_to_process \in Nat
  /\ intermediateVec \in [Threads -> Seq(Pairs)]
  /\ beforeShuffle \in Seq(Seq(Pairs))
  /\ afterShuffle \in Seq(Seq(Pairs))
  /\ temp \in Seq(Pairs)
  /\ outputVec \in Seq(SUBSET Pairs)
  /\ mutex \in Threads \cup {NoThread}
  /\ pc \in [Threads -> Labels]
  /\ x \in [Threads -> Progress]
  /\ old_val \in [Threads -> Nat]
  /\ slot \in [Threads -> Nat]
  /\ maxKey \in Nat
  /\ main \in {"create", "running", "joining", "joined", "closed"}
  /\ created \in 0..ThreadLevel
  /\ thread_join \in BOOLEAN
  /\ State \in [stage : UNDEFINED_STAGE .. REDUCE_STAGE, percentage : {"nan", "part", "full"}]

\* How many barriers a thread has returned from.
Passed ==
  [t \in Threads |-> IF pc[t] \in MapWork \cup {"barrier1"} THEN 0
                     ELSE IF pc[t] \in ShuffleWork \cup {"barrier2"} THEN 1 ELSE 2]

\* The two calls of barrier() in thread_flow are those of a barrier demo of two
\* rounds, so what Barrier_proofs shows of it holds here.
Round == INSTANCE Barrier_proofs
           WITH mutex <- barrier_mutex, count <- barrier_count, at <- barrier_at,
                passed <- Passed, Rounds <- 2

StageAt(label) ==
  IF label \in MapWork \cup {"barrier1", "reset_to_shuffle"} THEN MAP_STAGE
  ELSE IF label \in {"reset_shuffle_claims", "shuffle"} THEN SHUFFLE_STAGE
  ELSE REDUCE_STAGE

\* Thread 0 alone shuffles, and where it is tells the stage.
ControlInv ==
  /\ \A t \in Threads : pc[t] \in ShuffleWork => t = 0
  /\ \A t \in Threads : pc[t] \notin AtBarrier => barrier_at[t] = "out"
  /\ atomic_state.stage = StageAt(pc[0])
  /\ Round!IInv

\* The mutex of the job: nobody else appends between the halves of a push_back.
Locked == {"push", "pushing", "emit", "emitting"}

MutexInv ==
  /\ \A t \in Threads : pc[t] \in Locked <=> mutex = t
  /\ \A t \in Threads : pc[t] = "pushing" => slot[t] = Len(beforeShuffle) + 1
  /\ \A t \in Threads : pc[t] = "emitting" => slot[t] = Len(outputVec) + 1

\* The items whose pairs are in the vectors: claimed, and not being mapped.
Mapped ==
  {i \in DOMAIN inputVec :
     /\ i <= atomic_next_to_process
     /\ \A t \in Threads : pc[t] = "mapping" => old_val[t] + 1 # i}

Pushed == {t \in Threads : pc[t] \notin MapWork}

ClaimInv ==
  /\ atomic_state.total = Len(inputVec)
  /\ atomic_state.count = Cardinality(Mapped)
  /\ \A t \in Threads : pc[t] = "mapping" =>
       old_val[t] < atomic_next_to_process /\ old_val[t] < Len(inputVec)
  /\ \A t, u \in Threads :
       pc[t] = "mapping" /\ pc[u] = "mapping" /\ old_val[t] = old_val[u] => t = u
  /\ \A t \in Threads : pc[t] \in {"map", "mapping"} =>
       x[t].total = atomic_state.total /\ x[t].count <= atomic_state.count
  /\ \A t \in Threads : pc[t] \notin {"start", "map", "mapping"} =>
       atomic_next_to_process >= Len(inputVec) \/ atomic_state.count >= atomic_state.total

VectorInv ==
  /\ NoneTwice(intermediateVec)
  /\ Elements(intermediateVec) = {p \in Pairs : p.item \in Mapped}
  /\ \A t \in Threads : pc[t] \notin {"start", "map", "mapping", "sort"} =>
       Sorted(intermediateVec[t])

PushInv ==
  /\ Len(beforeShuffle) = Cardinality(Pushed)
  /\ NoneTwice(beforeShuffle)
  /\ Elements(beforeShuffle) = UNION {Range(intermediateVec[t]) : t \in Pushed}
  /\ \A v \in DOMAIN beforeShuffle : Sorted(beforeShuffle[v])
  /\ temp = <<>> /\ afterShuffle = <<>> /\ outputVec = <<>>

MapInv == ClaimInv /\ VectorInv /\ PushInv

\* From the first barrier on: the places the pairs are in.
PlacesInv ==
  /\ NoneTwice(beforeShuffle) /\ IsInjective(temp) /\ NoneTwice(afterShuffle)
  /\ Elements(beforeShuffle) \cap Range(temp) = {}
  /\ Elements(beforeShuffle) \cap Elements(afterShuffle) = {}
  /\ Range(temp) \cap Elements(afterShuffle) = {}
  /\ Elements(beforeShuffle) \cup Range(temp) \cup Elements(afterShuffle) = Pairs
  /\ \A g \in DOMAIN afterShuffle : Range(afterShuffle[g]) \in Groups
  /\ atomic_state.total = Cardinality(Pairs)
  /\ Len(beforeShuffle) <= ThreadLevel

\* Groups are finished in the order of falling keys.
KeyInv ==
  /\ maxKey = 0 => Elements(beforeShuffle) = {} /\ temp = <<>>
  /\ maxKey # 0 =>
       /\ \A p \in Range(temp) : p.key = maxKey
       /\ \A p \in Elements(beforeShuffle) : p.key <= maxKey
       /\ \A p \in Elements(afterShuffle) : maxKey < p.key
       /\ \E p \in Elements(beforeShuffle) \cup Range(temp) : p.key = maxKey

ShuffleInv ==
  /\ outputVec = <<>>
  /\ \A v \in DOMAIN beforeShuffle : Sorted(beforeShuffle[v])
  /\ atomic_state.count = Cardinality(Range(temp) \cup Elements(afterShuffle))
  /\ pc[0] = "reset_shuffle_claims" => temp = <<>> /\ afterShuffle = <<>>
  /\ pc[0] = "shuffle" => KeyInv

\* In the last stage the counter is reset a step after the state.
Claims == IF pc[0] = "reset_reduce_claims" THEN 0 ELSE atomic_next_to_process

Reducing == {"reducing", "emit", "emitting"}

ClaimedGroups == {g \in DOMAIN afterShuffle : g <= Claims}

\* The groups whose result is in the output, and those counted as finished.
EmittedGroups ==
  {g \in ClaimedGroups : \A t \in Threads : pc[t] \in Reducing => old_val[t] + 1 # g}
FinishedGroups ==
  {g \in ClaimedGroups :
     \A t \in Threads : pc[t] \in Reducing \cup {"reduced"} => old_val[t] + 1 # g}

PairsIn(groups) == UNION {Range(afterShuffle[g]) : g \in groups}

ReduceInv ==
  /\ Elements(beforeShuffle) = {} /\ temp = <<>>
  /\ atomic_state.count = Cardinality(PairsIn(FinishedGroups))
  /\ Range(outputVec) = {Range(afterShuffle[g]) : g \in EmittedGroups}
  /\ \A t \in Threads : pc[t] \in Reducing \cup {"reduced"} =>
       old_val[t] < Claims /\ old_val[t] < Len(afterShuffle)
  /\ \A t, u \in Threads :
       /\ pc[t] \in Reducing \cup {"reduced"} /\ pc[u] \in Reducing \cup {"reduced"}
       /\ old_val[t] = old_val[u]
       => t = u
  /\ \A t \in Threads : pc[t] \in {"reduce", "reduced"} \cup Reducing =>
       x[t].total = atomic_state.total /\ x[t].count <= atomic_state.count
  /\ \A t \in Threads : pc[t] = "done" =>
       Claims >= Len(afterShuffle) \/ atomic_state.count >= atomic_state.total

StageInv ==
  /\ atomic_state.stage = MAP_STAGE => MapInv
  /\ atomic_state.stage # MAP_STAGE => PlacesInv
  /\ atomic_state.stage = SHUFFLE_STAGE => ShuffleInv
  /\ atomic_state.stage = REDUCE_STAGE => ReduceInv

ClientInv ==
  /\ main = "create" => created < ThreadLevel
  /\ \A t \in Threads : pc[t] # "start" => t < created
  /\ main \in {"joined", "closed"} => \A t \in Threads : pc[t] = "done"
  /\ SeenDone => atomic_state.stage = REDUCE_STAGE
  /\ FullMeansComplete

IInv == TypeInv /\ ControlInv /\ MutexInv /\ StageInv /\ ClientInv

-----------------------------------------------------------------------------
(* The pairs of a job. *)

LEMMA ThreadFacts ==
  /\ 0 \in Threads /\ Threads \subseteq Nat /\ NoThread \notin Threads
  /\ IsFiniteSet(Threads) /\ Cardinality(Threads) = ThreadLevel
<1>1. ThreadLevel - 1 \in Int /\ 0 \in Int /\ ThreadLevel \in Nat \ {0}
  BY MapReduceAssumption
<1>2. IsFiniteSet(Threads) /\ Cardinality(Threads) = ThreadLevel
  BY <1>1, FS_Interval DEF Threads
<1> QED
  BY <1>1, <1>2, MapReduceAssumption DEF Threads

LEMMA InputFacts ==
  ASSUME inputVec \in Inputs
  PROVE  /\ inputVec \in Seq(Seq(Nat)) /\ Len(inputVec) \in Nat
         /\ DOMAIN inputVec = 1..Len(inputVec)
         /\ \A i \in DOMAIN inputVec :
              /\ inputVec[i] \in Seq(Nat)
              /\ DOMAIN inputVec[i] = 1..Len(inputVec[i])
              /\ \A n \in DOMAIN inputVec[i] : inputVec[i][n] \in Nat \ {0}
<1>1. inputVec \in Seq(Seq(Nat)) /\ \A i \in DOMAIN inputVec : 0 \notin Range(inputVec[i])
  BY MapReduceAssumption
<1>2. DOMAIN inputVec = 1..Len(inputVec) /\ Len(inputVec) \in Nat
  BY <1>1
<1> SUFFICES ASSUME NEW i \in DOMAIN inputVec
             PROVE  /\ inputVec[i] \in Seq(Nat)
                    /\ DOMAIN inputVec[i] = 1..Len(inputVec[i])
                    /\ \A n \in DOMAIN inputVec[i] : inputVec[i][n] \in Nat \ {0}
  BY <1>1, <1>2
<1>3. inputVec[i] \in Seq(Nat)
  BY <1>1, <1>2
<1>4. DOMAIN inputVec[i] = 1..Len(inputVec[i])
  BY <1>3
<1> QED
  BY <1>1, <1>3, <1>4 DEF Range

\* A pair is determined by its item and its place there.
LEMMA PairFacts ==
  ASSUME inputVec \in Inputs, NEW p \in Pairs
  PROVE  /\ p.item \in DOMAIN inputVec /\ p.key \in Nat \ {0}
         /\ p.nth \in DOMAIN inputVec[p.item]
         /\ p = [key |-> inputVec[p.item][p.nth], item |-> p.item, nth |-> p.nth]
<1>1. PICK i \in DOMAIN inputVec :
        \E n \in DOMAIN inputVec[i] : p = [key |-> inputVec[i][n], item |-> i, nth |-> n]
  BY DEF Pairs, Abstract!PairsOf
<1> QED
  BY <1>1, InputFacts

LEMMA PairExists ==
  ASSUME NEW i \in DOMAIN inputVec, NEW n \in DOMAIN inputVec[i]
  PROVE  [key |-> inputVec[i][n], item |-> i, nth |-> n] \in Pairs
BY DEF Pairs, Abstract!PairsOf

LEMMA PairsFinite ==
  ASSUME inputVec \in Inputs
  PROVE  IsFiniteSet(Pairs) /\ Cardinality(Pairs) \in Nat
<1> DEFINE Of(i)  == {[key |-> inputVec[i][n], item |-> i, nth |-> n] : n \in DOMAIN inputVec[i]}
           all    == {Of(i) : i \in DOMAIN inputVec}
<1>1. ASSUME NEW i \in DOMAIN inputVec PROVE IsFiniteSet(Of(i))
  <2> DEFINE f == [n \in DOMAIN inputVec[i] |->
                     [key |-> inputVec[i][n], item |-> i, nth |-> n]]
  <2>1. f \in Surjection(DOMAIN inputVec[i], Of(i))
    BY DEF Surjection
  <2>2. IsFiniteSet(DOMAIN inputVec[i])
    <3>1. Len(inputVec[i]) \in Nat
      BY InputFacts, <1>1
    <3> QED
      BY <3>1, InputFacts, <1>1, FS_Interval
  <2> HIDE DEF f
  <2> QED
    BY <2>1, <2>2, FS_Surjection
<1>2. IsFiniteSet(all)
  <2> DEFINE f == [i \in DOMAIN inputVec |-> Of(i)]
  <2>1. f \in Surjection(DOMAIN inputVec, all)
    BY DEF Surjection
  <2>2. IsFiniteSet(DOMAIN inputVec)
    BY InputFacts, FS_Interval
  <2> HIDE DEF f, all
  <2> QED
    BY <2>1, <2>2, FS_Surjection
<1>3. \A T \in all : IsFiniteSet(T)
  BY <1>1
<1>4. Pairs = UNION all
  BY DEF Pairs, Abstract!PairsOf
<1> HIDE DEF all
<1>5. IsFiniteSet(Pairs)
  BY <1>2, <1>3, <1>4, FS_UNION
<1> QED
  BY <1>5, FS_CardinalityType

LEMMA GroupFacts ==
  ASSUME NEW g \in Groups
  PROVE  \E p \in Pairs : g = {q \in Pairs : q.key = p.key} /\ p \in g
<1>1. PICK p \in Pairs : g = Abstract!Group(inputVec, p.key)
  BY DEF Groups, Abstract!Groups, Pairs
<1>2. g = {q \in Pairs : q.key = p.key}
  BY <1>1 DEF Abstract!Group, Pairs
<1> QED
  BY <1>2

LEMMA GroupExists ==
  ASSUME NEW p \in Pairs
  PROVE  {q \in Pairs : q.key = p.key} \in Groups
BY DEF Groups, Abstract!Groups, Abstract!Group, Pairs

LEMMA SameInput ==
  ASSUME inputVec' = inputVec
  PROVE  Pairs' = Pairs /\ Groups' = Groups
<1>1. Pairs' = Pairs
  BY DEF Pairs, Abstract!PairsOf
<1>2. Groups' = Groups
  BY DEF Groups, Abstract!Groups, Abstract!Group, Abstract!PairsOf
<1> QED
  BY <1>1, <1>2

\* What map emits for an item.
LEMMA EmittedPairs ==
  ASSUME inputVec \in Inputs, NEW t \in Threads, old_val[t] \in Nat,
         old_val[t] < Len(inputVec)
  PROVE  /\ Emitted(t) \in Seq(Pairs) /\ IsInjective(Emitted(t))
         /\ Range(Emitted(t)) = {p \in Pairs : p.item = old_val[t] + 1}
<1> DEFINE i == old_val[t] + 1
           e == Emitted(t)
<1>1. i \in DOMAIN inputVec
  BY InputFacts
<1>2. e = [n \in DOMAIN inputVec[i] |-> [key |-> inputVec[i][n], item |-> i, nth |-> n]]
  BY DEF Emitted
<1> HIDE DEF i, e
<1>3. \A n \in DOMAIN inputVec[i] : e[n] \in Pairs
  BY <1>1, <1>2, PairExists
<1>4. DOMAIN e = 1..Len(inputVec[i]) /\ Len(inputVec[i]) \in Nat
  BY <1>1, <1>2, InputFacts
<1>5. e \in Seq(Pairs)
  <2> DEFINE k == Len(inputVec[i])
  <2>1. e \in [1..k -> Pairs] /\ k \in Nat
    BY <1>2, <1>3, <1>4
  <2> HIDE DEF k
  <2> QED
    BY <2>1
<1>6. IsInjective(e)
  BY <1>2 DEF IsInjective
<1>7. Range(e) = {p \in Pairs : p.item = i}
  <2>1. ASSUME NEW p \in Range(e) PROVE p \in Pairs /\ p.item = i
    BY <1>2, <1>3 DEF Range
  <2>2. ASSUME NEW p \in Pairs, p.item = i PROVE p \in Range(e)
    BY <1>2, <2>2, PairFacts DEF Range
  <2> QED
    BY <2>1, <2>2
<1> QED
  BY <1>5, <1>6, <1>7 DEF i, e

-----------------------------------------------------------------------------
(* Finite sets and vectors. *)

LEMMA FiniteMax ==
  ASSUME NEW S \in SUBSET Nat, IsFiniteSet(S), S # {}
  PROVE  \E k \in S : \A j \in S : j <= k
<1> DEFINE Up(k) == {j \in S : k <= j}
           T     == {Up(k) : k \in S}
<1>1. IsWellFoundedOn(StrictSubsetOrdering(S), FiniteSubsetsOf(S))
  BY FS_StrictSubsetOrderingWellFounded
<1>2. T \subseteq FiniteSubsetsOf(S) /\ T # {}
  <2>1. ASSUME NEW k \in S PROVE Up(k) \in SUBSET S /\ IsFiniteSet(Up(k))
    <3>1. Up(k) \in SUBSET S
      OBVIOUS
    <3> HIDE DEF Up
    <3> QED
      BY <3>1, FS_Subset
  <2> QED
    BY <2>1 DEF FiniteSubsetsOf
<1>3. PICK m \in T : \A u \in T : <<u, m>> \notin StrictSubsetOrdering(S)
  <2> HIDE DEF T
  <2> QED
    BY <1>1, <1>2, WFMin
<1>4. PICK k \in S : m = Up(k)
  OBVIOUS
<1>5. ASSUME NEW j \in S, ~(j <= k) PROVE FALSE
  <2>1. Up(j) \subseteq Up(k) /\ k \in Up(k) /\ k \notin Up(j)
    <3>1. k < j /\ k <= k /\ \A i \in S : j <= i => k <= i
      BY <1>5
    <3> QED
      BY <1>5, <3>1
  <2>2. <<Up(j), Up(k)>> \in StrictSubsetOrdering(S)
    BY <2>1 DEF StrictSubsetOrdering
  <2>3. Up(j) \in T
    OBVIOUS
  <2> HIDE DEF T, Up
  <2> QED
    BY <1>3, <1>4, <2>2, <2>3
<1> QED
  BY <1>5

\* An element of a vector of vectors is in one of them; none is there twice when
\* no vector holds one twice and no two vectors share one.
LEMMA NoneTwiceParts ==
  ASSUME NEW vecs
  PROVE  NoneTwice(vecs) <=>
           /\ \A v \in DOMAIN vecs : IsInjective(vecs[v])
           /\ \A v, w \in DOMAIN vecs : v # w => Range(vecs[v]) \cap Range(vecs[w]) = {}
<1>1. ASSUME NoneTwice(vecs), NEW v \in DOMAIN vecs PROVE IsInjective(vecs[v])
  BY <1>1 DEF NoneTwice, IsInjective
<1>2. ASSUME NoneTwice(vecs), NEW v \in DOMAIN vecs, NEW w \in DOMAIN vecs, v # w
      PROVE  Range(vecs[v]) \cap Range(vecs[w]) = {}
  BY <1>2 DEF NoneTwice, Range
<1>3. ASSUME \A v \in DOMAIN vecs : IsInjective(vecs[v]),
             \A v, w \in DOMAIN vecs : v # w => Range(vecs[v]) \cap Range(vecs[w]) = {},
             NEW v \in DOMAIN vecs, NEW w \in DOMAIN vecs,
             NEW m \in DOMAIN vecs[v], NEW n \in DOMAIN vecs[w], vecs[v][m] = vecs[w][n]
      PROVE  v = w /\ m = n
  <2>1. vecs[v][m] \in Range(vecs[v]) \cap Range(vecs[w])
    BY <1>3 DEF Range
  <2>2. v = w
    BY <1>3, <2>1
  <2> QED
    BY <1>3, <2>2 DEF IsInjective
<1> QED
  BY <1>1, <1>2, <1>3 DEF NoneTwice

LEMMA ElementsOf ==
  ASSUME NEW S, NEW vecs \in Seq(Seq(S))
  PROVE  /\ Elements(vecs) \subseteq S
         /\ \A v \in DOMAIN vecs : vecs[v] \in Seq(S) /\ Range(vecs[v]) \subseteq Elements(vecs)
<1>1. \A v \in DOMAIN vecs : vecs[v] \in Seq(S) /\ Range(vecs[v]) \subseteq S
  BY DEF Range
<1> QED
  BY <1>1 DEF Elements

LEMMA RangeIsImage ==
  ASSUME NEW S, NEW s \in Seq(S)
  PROVE  Range(s) \subseteq S /\ IsFiniteSet(Range(s)) /\ s \in Surjection(1..Len(s), Range(s))
<1>1. s \in Surjection(1..Len(s), Range(s))
  BY DEF Surjection, Range
<1>2. Len(s) \in Nat /\ IsFiniteSet(1..Len(s))
  BY FS_Interval
<1>3. Range(s) \subseteq S
  BY DEF Range
<1> QED
  BY <1>1, <1>2, <1>3, FS_Surjection

LEMMA LenIsCardinality ==
  ASSUME NEW S, NEW s \in Seq(S), IsInjective(s)
  PROVE  Len(s) = Cardinality(Range(s))
<1>1. s \in Injection(1..Len(s), Range(s)) /\ s \in Surjection(1..Len(s), Range(s))
  BY RangeIsImage DEF Injection, Surjection
<1>2. Len(s) \in Nat /\ IsFiniteSet(1..Len(s)) /\ Cardinality(1..Len(s)) = Len(s)
  <2> DEFINE k == Len(s)
  <2>1. k \in Nat
    OBVIOUS
  <2> HIDE DEF k
  <2>2. IsFiniteSet(1..k) /\ Cardinality(1..k) = k
    BY <2>1, FS_Interval
  <2> QED
    BY <2>1, <2>2 DEF k
<1> QED
  BY <1>1, <1>2, FS_Surjection

\* count_elements is the number of different elements.
LEMMA CountElements ==
  ASSUME NEW vecs, NoneTwice(vecs), IsFiniteSet(Elements(vecs))
  PROVE  count_elements(vecs) = Cardinality(Elements(vecs))
<1> DEFINE places == UNION {{v} \X DOMAIN vecs[v] : v \in DOMAIN vecs}
           f      == [p \in places |-> vecs[p[1]][p[2]]]
<1>1. ASSUME NEW p \in places
      PROVE  p[1] \in DOMAIN vecs /\ p[2] \in DOMAIN vecs[p[1]] /\ p = <<p[1], p[2]>>
  OBVIOUS
<1>2. ASSUME NEW v \in DOMAIN vecs, NEW n \in DOMAIN vecs[v]
      PROVE  <<v, n>> \in places
  OBVIOUS
<1> HIDE DEF places
<1>3. f \in [places -> Elements(vecs)]
  BY <1>1 DEF Elements, Range
<1>4. IsInjective(f)
  <2> SUFFICES ASSUME NEW p \in places, NEW q \in places, f[p] = f[q]
               PROVE  p = q
    BY DEF IsInjective
  <2>1. vecs[p[1]][p[2]] = vecs[q[1]][q[2]]
    OBVIOUS
  <2>2. p[1] = q[1] /\ p[2] = q[2]
    BY <1>1, <2>1 DEF NoneTwice
  <2> QED
    BY <1>1, <2>2
<1>5. \A e \in Elements(vecs) : \E p \in places : f[p] = e
  <2> SUFFICES ASSUME NEW v \in DOMAIN vecs, NEW n \in DOMAIN vecs[v]
               PROVE  \E p \in places : f[p] = vecs[v][n]
    BY DEF Elements, Range
  <2> QED
    BY <1>2
<1>6. f \in Injection(places, Elements(vecs)) /\ f \in Surjection(places, Elements(vecs))
  BY <1>3, <1>4, <1>5 DEF Injection, Surjection
<1> HIDE DEF f
<1>7. Cardinality(places) = Cardinality(Elements(vecs))
  BY <1>6, FS_Injection
<1> QED
  BY <1>7 DEF count_elements, places

\* push_back on a vector.
LEMMA AppendElement ==
  ASSUME NEW S, NEW s \in Seq(S), NEW e \in S
  PROVE  /\ Append(s, e) \in Seq(S) /\ Len(Append(s, e)) = Len(s) + 1
         /\ Range(Append(s, e)) = Range(s) \cup {e}
         /\ IsInjective(s) /\ e \notin Range(s) => IsInjective(Append(s, e))
<1> DEFINE r == Append(s, e)
<1>1. /\ r \in Seq(S) /\ Len(r) = Len(s) + 1 /\ Len(s) \in Nat
      /\ DOMAIN s = 1..Len(s) /\ DOMAIN r = 1..Len(r)
      /\ \A i \in 1..Len(s) : r[i] = s[i]
      /\ r[Len(r)] = e
  OBVIOUS
<1> HIDE DEF r
<1>2. Range(r) = Range(s) \cup {e}
  <2>1. \A i \in DOMAIN r : r[i] \in Range(s) \cup {e}
    BY <1>1 DEF Range
  <2>2. \A i \in DOMAIN s : i \in DOMAIN r /\ s[i] = r[i]
    BY <1>1
  <2>3. Len(r) \in DOMAIN r
    BY <1>1
  <2> QED
    BY <1>1, <2>1, <2>2, <2>3 DEF Range
<1>3. ASSUME IsInjective(s), e \notin Range(s) PROVE IsInjective(r)
  <2>1. ASSUME NEW i \in DOMAIN r, NEW j \in DOMAIN r, r[i] = r[j], i # j PROVE FALSE
    <3>1. CASE i \in DOMAIN s /\ j \in DOMAIN s
      BY <1>1, <1>3, <2>1, <3>1 DEF IsInjective
    <3>2. CASE i \in DOMAIN s /\ j \notin DOMAIN s
      <4>1. j = Len(r) /\ s[i] = e
        BY <1>1, <2>1, <3>2
      <4> QED
        BY <1>3, <3>2, <4>1 DEF Range
    <3>3. CASE i \notin DOMAIN s
      <4>1. i = Len(r) /\ j \in DOMAIN s
        BY <1>1, <2>1, <3>3
      <4>2. s[j] = e
        BY <1>1, <2>1, <4>1
      <4> QED
        BY <1>3, <4>1, <4>2 DEF Range
    <3> QED
      BY <3>1, <3>2, <3>3
  <2> QED
    BY <2>1 DEF IsInjective
<1> QED
  BY <1>1, <1>2, <1>3 DEF r

\* pop_back.
LEMMA DropLast ==
  ASSUME NEW S, NEW s \in Seq(S), s # <<>>
  PROVE  /\ Front(s) \in Seq(S) /\ Last(s) \in Range(s)
         /\ IsInjective(s) => /\ IsInjective(Front(s))
                              /\ Range(Front(s)) = Range(s) \ {Last(s)}
         /\ Sorted(s) => Sorted(Front(s))
<1> DEFINE r == Front(s)
           k == Len(s)
<1>1. /\ k \in Nat \ {0} /\ r \in Seq(S) /\ DOMAIN r = 1..k-1 /\ DOMAIN s = 1..k
      /\ \A i \in 1..k-1 : r[i] = s[i]
  BY DEF Front
<1>2. Last(s) = s[k]
  BY DEF Last
<1> HIDE DEF r, k
<1>3. Last(s) \in Range(s)
  BY <1>1, <1>2 DEF Range
<1>4. IsInjective(s) => IsInjective(r)
  BY <1>1 DEF IsInjective
<1>5. ASSUME IsInjective(s) PROVE Range(r) = Range(s) \ {Last(s)}
  <2>1. ASSUME NEW i \in DOMAIN r PROVE r[i] \in Range(s) /\ r[i] # s[k]
    <3>1. i \in DOMAIN s /\ k \in DOMAIN s /\ i # k /\ r[i] = s[i]
      BY <1>1
    <3> QED
      BY <1>5, <3>1 DEF IsInjective, Range
  <2>2. ASSUME NEW i \in DOMAIN s, s[i] # s[k] PROVE s[i] \in Range(r)
    <3>1. i \in DOMAIN r /\ r[i] = s[i]
      BY <1>1, <2>2
    <3> QED
      BY <3>1 DEF Range
  <2> QED
    BY <1>2, <2>1, <2>2 DEF Range
<1>6. Sorted(s) => Sorted(r)
  BY <1>1 DEF Sorted
<1> QED
  BY <1>1, <1>3, <1>4, <1>5, <1>6 DEF r

LEMMA ConcatElements ==
  ASSUME NEW S, NEW s \in Seq(S), NEW e \in Seq(S)
  PROVE  /\ s \o e \in Seq(S)
         /\ Range(s \o e) = Range(s) \cup Range(e)
         /\ IsInjective(s) /\ IsInjective(e) /\ Range(s) \cap Range(e) = {}
              => IsInjective(s \o e)
<1> DEFINE r == s \o e
           m == Len(s)
           n == Len(e)
<1>1. /\ r \in Seq(S) /\ m \in Nat /\ n \in Nat
      /\ DOMAIN r = 1..m+n /\ DOMAIN s = 1..m /\ DOMAIN e = 1..n
      /\ \A i \in 1..m : r[i] = s[i]
      /\ \A i \in m+1..m+n : r[i] = e[i-m]
  BY ConcatProperties
<1> HIDE DEF r, m, n
<1>2. \A i \in DOMAIN r : \/ i \in DOMAIN s /\ r[i] = s[i]
                          \/ i \notin DOMAIN s /\ i - m \in DOMAIN e /\ r[i] = e[i-m]
  BY <1>1
<1>3. Range(r) = Range(s) \cup Range(e)
  <2>1. \A i \in DOMAIN s : i \in DOMAIN r /\ r[i] = s[i]
    BY <1>1
  <2>2. \A j \in DOMAIN e : j + m \in DOMAIN r /\ r[j+m] = e[j]
    BY <1>1
  <2> QED
    BY <1>2, <2>1, <2>2 DEF Range
<1>4. ASSUME IsInjective(s), IsInjective(e), Range(s) \cap Range(e) = {} PROVE IsInjective(r)
  <2> SUFFICES ASSUME NEW i \in DOMAIN r, NEW j \in DOMAIN r, r[i] = r[j] PROVE i = j
    BY DEF IsInjective
  <2>1. CASE i \in DOMAIN s /\ j \in DOMAIN s
    BY <1>2, <1>4, <2>1 DEF IsInjective
  <2>2. CASE i \notin DOMAIN s /\ j \notin DOMAIN s
    <3>1. i - m = j - m
      BY <1>2, <1>4, <2>2 DEF IsInjective
    <3> QED
      BY <1>1, <3>1
  <2>3. CASE i \in DOMAIN s /\ j \notin DOMAIN s
    BY <1>2, <1>4, <2>3 DEF Range
  <2>4. CASE i \notin DOMAIN s /\ j \in DOMAIN s
    BY <1>2, <1>4, <2>4 DEF Range
  <2> QED
    BY <2>1, <2>2, <2>3, <2>4
<1> QED
  BY <1>1, <1>3, <1>4 DEF r

LEMMA AppendVector ==
  ASSUME NEW S, NEW vecs \in Seq(Seq(S)), NEW e \in Seq(S)
  PROVE  /\ Append(vecs, e) \in Seq(Seq(S)) /\ Len(Append(vecs, e)) = Len(vecs) + 1
         /\ Elements(Append(vecs, e)) = Elements(vecs) \cup Range(e)
         /\ NoneTwice(vecs) /\ IsInjective(e) /\ Elements(vecs) \cap Range(e) = {}
              => NoneTwice(Append(vecs, e))
         /\ \A v \in DOMAIN Append(vecs, e) : \/ Append(vecs, e)[v] = e
                                              \/ v \in DOMAIN vecs /\ Append(vecs, e)[v] = vecs[v]
<1> DEFINE r == Append(vecs, e)
           k == Len(vecs)
<1>1. /\ r \in Seq(Seq(S)) /\ k \in Nat /\ Len(r) = k + 1
      /\ DOMAIN r = 1..k+1 /\ DOMAIN vecs = 1..k
      /\ \A v \in 1..k : r[v] = vecs[v]
      /\ r[k+1] = e
  OBVIOUS
<1> HIDE DEF r, k
<1>2. \A v \in DOMAIN r : \/ v = k+1 /\ r[v] = e
                          \/ v \in DOMAIN vecs /\ r[v] = vecs[v]
  BY <1>1
<1>3. DOMAIN vecs \subseteq DOMAIN r /\ k+1 \in DOMAIN r /\ k+1 \notin DOMAIN vecs
  BY <1>1
<1>4. Elements(r) = Elements(vecs) \cup Range(e)
  <2>1. ASSUME NEW v \in DOMAIN r PROVE Range(r[v]) \subseteq Elements(vecs) \cup Range(e)
    BY <1>2 DEF Elements
  <2>2. ASSUME NEW v \in DOMAIN vecs PROVE Range(vecs[v]) \subseteq Elements(r)
    BY <1>1, <1>3 DEF Elements
  <2>3. Range(e) \subseteq Elements(r)
    BY <1>1, <1>3 DEF Elements
  <2> QED
    BY <2>1, <2>2, <2>3 DEF Elements
<1>5. ASSUME NoneTwice(vecs), IsInjective(e), Elements(vecs) \cap Range(e) = {}
      PROVE  NoneTwice(r)
  <2>1. \A v \in DOMAIN r : IsInjective(r[v])
    BY <1>2, <1>5, NoneTwiceParts
  <2>2. ASSUME NEW v \in DOMAIN r, NEW w \in DOMAIN r, v # w
        PROVE  Range(r[v]) \cap Range(r[w]) = {}
    <3>1. CASE v \in DOMAIN vecs /\ w \in DOMAIN vecs
      BY <1>1, <1>5, <2>2, <3>1, NoneTwiceParts
    <3>2. CASE v \in DOMAIN vecs /\ w = k+1
      BY <1>1, <1>5, <3>2 DEF Elements
    <3>3. CASE v = k+1 /\ w \in DOMAIN vecs
      BY <1>1, <1>5, <3>3 DEF Elements
    <3> QED
      BY <1>2, <2>2, <3>1, <3>2, <3>3
  <2> QED
    BY <2>1, <2>2, NoneTwiceParts
<1> QED
  BY <1>1, <1>2, <1>4, <1>5 DEF r, k

\* Replacing an element keeps the length of a sequence.
LEMMA SameLength ==
  ASSUME NEW S, NEW s \in Seq(S), NEW i \in DOMAIN s, NEW e
  PROVE  Len([s EXCEPT ![i] = e]) = Len(s)
<1>1. s \in Seq(S \cup {e})
  OBVIOUS
<1>2. [s EXCEPT ![i] = e] \in Seq(S \cup {e})
  BY <1>1
<1> QED
  BY <1>1, <1>2

\* One vector is replaced by another.
LEMMA ReplaceVector ==
  ASSUME NEW vecs, NEW u \in DOMAIN vecs, NEW e
  PROVE  LET r == [vecs EXCEPT ![u] = e]
         IN  /\ DOMAIN r = DOMAIN vecs /\ r[u] = e
             /\ \A v \in DOMAIN vecs \ {u} : r[v] = vecs[v]
             /\ Elements(r) = Range(e) \cup UNION {Range(vecs[v]) : v \in DOMAIN vecs \ {u}}
             /\ (/\ NoneTwice(vecs) /\ IsInjective(e)
                 /\ \A v \in DOMAIN vecs \ {u} : Range(vecs[v]) \cap Range(e) = {})
                => NoneTwice(r)
<1> DEFINE r == [vecs EXCEPT ![u] = e]
<1>1. DOMAIN r = DOMAIN vecs /\ r[u] = e /\ \A v \in DOMAIN vecs \ {u} : r[v] = vecs[v]
  OBVIOUS
<1> HIDE DEF r
<1>2. Elements(r) = Range(e) \cup UNION {Range(vecs[v]) : v \in DOMAIN vecs \ {u}}
  BY <1>1 DEF Elements
<1>3. ASSUME NoneTwice(vecs), IsInjective(e),
             \A v \in DOMAIN vecs \ {u} : Range(vecs[v]) \cap Range(e) = {}
      PROVE  NoneTwice(r)
  <2>1. \A v \in DOMAIN r : IsInjective(r[v])
    BY <1>1, <1>3, NoneTwiceParts
  <2>2. ASSUME NEW v \in DOMAIN r, NEW w \in DOMAIN r, v # w
        PROVE  Range(r[v]) \cap Range(r[w]) = {}
    <3>1. CASE v # u /\ w # u
      BY <1>1, <1>3, <2>2, <3>1, NoneTwiceParts
    <3>2. CASE v = u \/ w = u
      BY <1>1, <1>3, <2>2, <3>2
    <3> QED
      BY <3>1, <3>2
  <2> QED
    BY <2>1, <2>2, NoneTwiceParts
<1> QED
  BY <1>1, <1>2, <1>3 DEF r

\* The elements of one vector are not in the others.
LEMMA WithoutVector ==
  ASSUME NEW vecs, NoneTwice(vecs), NEW u \in DOMAIN vecs
  PROVE  UNION {Range(vecs[v]) : v \in DOMAIN vecs \ {u}} = Elements(vecs) \ Range(vecs[u])
<1>1. \A v \in DOMAIN vecs \ {u} : Range(vecs[v]) \cap Range(vecs[u]) = {}
  BY NoneTwiceParts
<1> QED
  BY <1>1 DEF Elements

\* std::sort permutes.
LEMMA SortPermutes ==
  ASSUME NEW S, NEW s \in Seq(S), NEW v \in Sorts(s)
  PROVE  /\ v \in Seq(S) /\ Len(v) = Len(s) /\ Range(v) = Range(s) /\ Sorted(v)
         /\ IsInjective(s) => IsInjective(v)
<1>1. PICK p \in Bijection(DOMAIN s, DOMAIN s) : v = [n \in DOMAIN s |-> s[p[n]]]
  BY DEF Sorts
<1>2. /\ p \in [DOMAIN s -> DOMAIN s] /\ \A a, b \in DOMAIN s : p[a] = p[b] => a = b
      /\ \A n \in DOMAIN s : \E a \in DOMAIN s : p[a] = n
  BY DEF Bijection, Injection, Surjection, IsInjective
<1>3. DOMAIN s = 1..Len(s) /\ Len(s) \in Nat /\ \A n \in DOMAIN s : s[n] \in S
  OBVIOUS
<1>4. v \in [1..Len(s) -> S] /\ DOMAIN v = DOMAIN s
  BY <1>1, <1>2, <1>3
<1>5. v \in Seq(S) /\ Len(v) = Len(s)
  BY <1>3, <1>4
<1>6. Range(v) = Range(s)
  BY <1>1, <1>2, <1>4 DEF Range
<1>7. IsInjective(s) => IsInjective(v)
  BY <1>1, <1>2, <1>4 DEF IsInjective
<1>8. Sorted(v)
  BY DEF Sorts
<1> QED
  BY <1>5, <1>6, <1>7, <1>8

\* The largest key of a sorted vector is the last.
LEMMA SortedLast ==
  ASSUME NEW S, \A p \in S : p.key \in Nat, NEW s \in Seq(S), Sorted(s), s # <<>>
  PROVE  Last(s) \in Range(s) /\ \A p \in Range(s) : p.key <= Last(s).key
<1>1. Len(s) \in DOMAIN s /\ DOMAIN s = 1..Len(s) /\ Len(s) \in Nat
  OBVIOUS
<1>2. ASSUME NEW n \in DOMAIN s PROVE s[n].key <= s[Len(s)].key
  <2>1. s[n].key \in Nat /\ s[Len(s)].key \in Nat
    BY <1>1
  <2>2. CASE n < Len(s)
    BY <1>1, <2>1, <2>2 DEF Sorted, ByKey
  <2>3. CASE n = Len(s)
    BY <2>1, <2>3
  <2> QED
    BY <1>1, <2>2, <2>3
<1> QED
  BY <1>1, <1>2 DEF Last, Range

LEMMA MaxKey ==
  ASSUME NEW S, \A p \in S : p.key \in Nat \ {0}, NEW vecs \in Seq(Seq(S)),
         \A v \in DOMAIN vecs : Sorted(vecs[v])
  PROVE  /\ max_key(vecs) \in Nat
         /\ max_key(vecs) = 0 <=> Elements(vecs) = {}
         /\ max_key(vecs) # 0 =>
              /\ \A p \in Elements(vecs) : p.key <= max_key(vecs)
              /\ \E p \in Elements(vecs) : p.key = max_key(vecs)
<1> DEFINE full  == {w \in Range(vecs) : w # <<>>}
           backs == {Last(v).key : v \in full}
           max   == CHOOSE k \in backs : \A j \in backs : j <= k
<1>1. ASSUME NEW w \in full
      PROVE  /\ w \in Seq(S) /\ w # <<>> /\ Sorted(w) /\ Range(w) \subseteq Elements(vecs)
             /\ \E v \in DOMAIN vecs : w = vecs[v]
  <2>1. PICK v \in DOMAIN vecs : w = vecs[v]
    BY DEF Range
  <2> QED
    BY <2>1, ElementsOf
<1>2. ASSUME NEW w \in full
      PROVE  /\ Last(w) \in Elements(vecs) /\ Last(w).key \in Nat \ {0}
             /\ \A p \in Range(w) : p.key <= Last(w).key
  <2>1. Last(w) \in Range(w) /\ \A p \in Range(w) : p.key <= Last(w).key
    BY <1>1, SortedLast
  <2>2. Last(w) \in Elements(vecs) /\ Elements(vecs) \subseteq S
    BY <1>1, <2>1, ElementsOf
  <2> QED
    BY <2>1, <2>2
<1>3. ASSUME NEW p \in Elements(vecs) PROVE \E w \in full : p \in Range(w)
  <2>1. PICK v \in DOMAIN vecs : p \in Range(vecs[v])
    BY DEF Elements
  <2>2. vecs[v] \in full
    BY <2>1 DEF Range
  <2> QED
    BY <2>1, <2>2
<1>4. IsFiniteSet(full)
  <2>1. IsFiniteSet(Range(vecs)) /\ full \subseteq Range(vecs)
    BY RangeIsImage
  <2> QED
    BY <2>1, FS_Subset
<1>5. max_key(vecs) = IF backs = {} THEN 0 ELSE max
  BY DEF max_key
<1> HIDE DEF full
<1>6. backs \subseteq Nat \ {0} /\ IsFiniteSet(backs)
  <2> DEFINE f == [w \in full |-> Last(w).key]
  <2>1. f \in Surjection(full, backs)
    BY DEF Surjection
  <2>2. backs \subseteq Nat \ {0}
    BY <1>2
  <2> HIDE DEF f, backs
  <2> QED
    BY <1>4, <2>1, <2>2, FS_Surjection
<1>7. CASE backs = {}
  <2>1. full = {}
    BY <1>7
  <2>2. Elements(vecs) = {}
    BY <1>3, <2>1
  <2> QED
    BY <1>5, <1>7, <2>2
<1>8. CASE backs # {}
  <2>1. max \in backs /\ \A j \in backs : j <= max
    <3>1. \E k \in backs : \A j \in backs : j <= k
      <4> HIDE DEF backs
      <4> QED
        BY <1>6, <1>8, FiniteMax
    <3> HIDE DEF backs
    <3> QED
      BY <3>1
  <2>2. max \in Nat \ {0}
    BY <1>6, <2>1
  <2>3. PICK w \in full : max = Last(w).key
    BY <2>1
  <2>4. \E p \in Elements(vecs) : p.key = max
    BY <1>2, <2>3
  <2>5. ASSUME NEW p \in Elements(vecs) PROVE p.key <= max
    <3>1. PICK u \in full : p \in Range(u)
      BY <1>3
    <3>2. p.key <= Last(u).key /\ Last(u).key <= max /\ Last(u).key \in Nat
      BY <1>2, <2>1, <3>1
    <3>3. p.key \in Nat
      BY ElementsOf
    <3> QED
      BY <2>2, <3>2, <3>3
  <2> HIDE DEF max, backs
  <2> QED
    BY <1>5, <1>8, <2>2, <2>4, <2>5
<1> QED
  BY <1>7, <1>8

\* ShuffleConserves speaks of all the places at once.
LEMMA Places ==
  ASSUME NEW S, NEW vecs \in Seq(Seq(S)), NEW s \in Seq(S), NEW groups \in Seq(Seq(S))
  PROVE  LET places == vecs \o <<s>> \o groups
         IN  /\ Elements(places) = Elements(vecs) \cup Range(s) \cup Elements(groups)
             /\ (/\ NoneTwice(vecs) /\ IsInjective(s) /\ NoneTwice(groups)
                 /\ Elements(vecs) \cap Range(s) = {}
                 /\ Elements(vecs) \cap Elements(groups) = {}
                 /\ Range(s) \cap Elements(groups) = {})
                => NoneTwice(places)
<1> DEFINE places == vecs \o <<s>> \o groups
           m == Len(vecs)
           n == Len(groups)
<1>1. /\ m \in Nat /\ n \in Nat /\ DOMAIN vecs = 1..m /\ DOMAIN groups = 1..n
      /\ DOMAIN places = 1..m+1+n
      /\ \A v \in 1..m : places[v] = vecs[v]
      /\ places[m+1] = s
      /\ \A v \in m+2..m+1+n : places[v] = groups[v-(m+1)]
  <2>1. /\ vecs \o <<s>> \in Seq(Seq(S)) /\ Len(vecs \o <<s>>) = m + 1
        /\ \A v \in 1..m : (vecs \o <<s>>)[v] = vecs[v]
        /\ (vecs \o <<s>>)[m+1] = s
        /\ m \in Nat /\ n \in Nat /\ DOMAIN vecs = 1..m /\ DOMAIN groups = 1..n
    OBVIOUS
  <2> DEFINE r == vecs \o <<s>>
  <2> HIDE DEF r
  <2>2. /\ Len(r \o groups) = Len(r) + n
        /\ \A v \in 1..Len(r) : (r \o groups)[v] = r[v]
        /\ \A v \in Len(r)+1..Len(r)+n : (r \o groups)[v] = groups[v-Len(r)]
        /\ DOMAIN (r \o groups) = 1..Len(r)+n
    BY <2>1, ConcatProperties DEF r
  <2> QED
    BY <2>1, <2>2 DEF r
<1> HIDE DEF places, m, n
<1>2. \A v \in DOMAIN places :
        \/ v \in DOMAIN vecs /\ places[v] = vecs[v]
        \/ v = m+1 /\ places[v] = s
        \/ v - (m+1) \in DOMAIN groups /\ places[v] = groups[v-(m+1)]
  BY <1>1
<1>3. /\ \A v \in DOMAIN vecs : v \in DOMAIN places
      /\ m+1 \in DOMAIN places
      /\ \A v \in DOMAIN groups : v+(m+1) \in DOMAIN places /\ places[v+(m+1)] = groups[v]
  <2>1. \A v \in DOMAIN groups : v+(m+1) \in m+2..m+1+n /\ (v+(m+1))-(m+1) = v
    BY <1>1
  <2>2. m+2..m+1+n \subseteq DOMAIN places
    BY <1>1
  <2>3. ASSUME NEW v \in DOMAIN groups
        PROVE  v+(m+1) \in DOMAIN places /\ places[v+(m+1)] = groups[v]
    BY <1>1, <2>1, <2>2
  <2> QED
    BY <1>1, <2>3
<1>4. Elements(places) = Elements(vecs) \cup Range(s) \cup Elements(groups)
  <2>1. ASSUME NEW v \in DOMAIN places
        PROVE  Range(places[v]) \subseteq Elements(vecs) \cup Range(s) \cup Elements(groups)
    BY <1>2 DEF Elements
  <2>2. Range(s) \subseteq Elements(places)
    BY <1>1, <1>3 DEF Elements
  <2>3. ASSUME NEW v \in DOMAIN vecs PROVE Range(vecs[v]) \subseteq Elements(places)
    BY <1>1, <1>3 DEF Elements
  <2>4. ASSUME NEW v \in DOMAIN groups PROVE Range(groups[v]) \subseteq Elements(places)
    BY <1>3 DEF Elements
  <2> QED
    BY <2>1, <2>2, <2>3, <2>4 DEF Elements
<1>5. ASSUME NoneTwice(vecs), IsInjective(s), NoneTwice(groups),
             Elements(vecs) \cap Range(s) = {},
             Elements(vecs) \cap Elements(groups) = {},
             Range(s) \cap Elements(groups) = {}
      PROVE  NoneTwice(places)
  <2>1. /\ \A v \in DOMAIN vecs : IsInjective(vecs[v]) /\ Range(vecs[v]) \subseteq Elements(vecs)
        /\ \A v \in DOMAIN groups :
             IsInjective(groups[v]) /\ Range(groups[v]) \subseteq Elements(groups)
        /\ \A v, w \in DOMAIN vecs : v # w => Range(vecs[v]) \cap Range(vecs[w]) = {}
        /\ \A v, w \in DOMAIN groups : v # w => Range(groups[v]) \cap Range(groups[w]) = {}
    BY <1>5, NoneTwiceParts DEF Elements
  <2>2. \A v \in DOMAIN places : IsInjective(places[v])
    BY <1>2, <1>5, <2>1
  <2>3. ASSUME NEW v \in DOMAIN places, NEW w \in DOMAIN places, v < w
        PROVE  Range(places[v]) \cap Range(places[w]) = {}
    <3>1. CASE v \in DOMAIN vecs
      <4>1. CASE w \in DOMAIN vecs
        <5>1. places[v] = vecs[v] /\ places[w] = vecs[w] /\ v # w
          BY <1>1, <2>3, <3>1, <4>1
        <5> QED
          BY <2>1, <3>1, <4>1, <5>1
      <4>2. CASE w = m+1
        BY <1>1, <1>5, <2>1, <3>1, <4>2
      <4>3. CASE w - (m+1) \in DOMAIN groups /\ places[w] = groups[w-(m+1)]
        BY <1>1, <1>5, <2>1, <3>1, <4>3
      <4> QED
        BY <1>2, <4>1, <4>2, <4>3
    <3>2. CASE v = m+1
      <4>1. w - (m+1) \in DOMAIN groups /\ places[w] = groups[w-(m+1)]
        <5>1. w \in m+2..m+1+n /\ w-(m+1) \in 1..n
          BY <1>1, <2>3, <3>2
        <5> QED
          BY <1>1, <5>1
      <4> QED
        BY <1>1, <1>5, <2>1, <3>2, <4>1
    <3>3. CASE v - (m+1) \in DOMAIN groups /\ places[v] = groups[v-(m+1)]
      <4>1. w - (m+1) \in DOMAIN groups /\ places[w] = groups[w-(m+1)] /\ w-(m+1) # v-(m+1)
        <5>1. w \in m+2..m+1+n /\ w-(m+1) \in 1..n /\ w-(m+1) # v-(m+1)
          BY <1>1, <2>3, <3>3
        <5> QED
          BY <1>1, <5>1
      <4> QED
        BY <2>1, <3>3, <4>1
    <3> QED
      BY <1>2, <3>1, <3>2, <3>3
  <2>4. ASSUME NEW v \in DOMAIN places, NEW w \in DOMAIN places, v # w
        PROVE  Range(places[v]) \cap Range(places[w]) = {}
    <3>1. v < w \/ w < v
      BY <1>1, <2>4
    <3> QED
      BY <2>3, <3>1
  <2> QED
    BY <2>2, <2>4, NoneTwiceParts
<1> QED
  BY <1>4, <1>5 DEF places

-----------------------------------------------------------------------------
(* The barriers, and what phase the threads can be in together. *)

LEMMA RoundConstants ==
  2 \in Nat /\ Round!IsFiniteSet(Threads) /\ Threads # {} /\ NoThread \notin Threads
<1>1. Round!IsFiniteSet(Threads) <=> IsFiniteSet(Threads)
  BY DEF IsFiniteSet, Round!IsFiniteSet
<1> QED
  BY <1>1, ThreadFacts

LEMMA RoundNext == Round!IInv /\ [Round!Next]_(Round!vars) => Round!IInv'
BY Round!NextInv, RoundConstants

LEMMA SameCount == B!Cardinality(Threads) = Round!Cardinality(Threads)
BY DEF B!Cardinality, Round!Cardinality

LEMMA RoundInit ==
  ASSUME B!Init, pc = [t \in Threads |-> "start"]
  PROVE  Round!IInv
<1>1. Passed = [t \in Threads |-> 0]
  BY DEF Passed, MapWork
<1>2. Round!DemoInit
  BY <1>1 DEF B!Init, Round!Init, Round!DemoInit
<1> QED
  BY <1>2, Round!InitInv, RoundConstants

LEMMA RoundFrame ==
  ASSUME Round!IInv, UNCHANGED barrier, Passed' = Passed
  PROVE  Round!IInv'
<1>1. UNCHANGED Round!vars
  BY DEF barrier, Round!vars, Round!barrierVars
<1> QED
  BY <1>1, RoundNext

\* A step that does not pass a barrier.
LEMMA SamePassed ==
  ASSUME pc \in [Threads -> Labels], NEW t \in Threads, NEW label,
         pc' = [pc EXCEPT ![t] = label],
         \/ pc[t] \in MapWork /\ label \in MapWork \cup {"barrier1"}
         \/ pc[t] \in ShuffleWork /\ label \in ShuffleWork \cup {"barrier2"}
         \/ pc[t] \in ReduceWork /\ label \in ReduceWork
  PROVE  Passed' = Passed
<1>1. \A u \in Threads : u # t => pc'[u] = pc[u]
  OBVIOUS
<1>2. pc'[t] = label
  OBVIOUS
<1>3. \A u \in Threads : Passed'[u] = Passed[u]
  BY <1>1, <1>2 DEF Passed, MapWork, ShuffleWork, ReduceWork
<1> QED
  BY <1>3 DEF Passed

LEMMA RoundStep ==
  ASSUME pc \in [Threads -> Labels], Round!IInv, NEW t \in Threads, BarrierStep(t)
  PROVE  Round!IInv'
<1>1. ASSUME B!Call(t) \/ B!Inside(t), UNCHANGED pc
      PROVE  Round!foo(t)
  <2>1. Passed' = Passed /\ Passed[t] < 2
    BY <1>1 DEF Passed, BarrierStep, MapWork, ShuffleWork
  <2>2. ASSUME B!Call(t) PROVE Round!Call(t)
    BY <2>2 DEF B!Call, Round!Call
  <2>3. ASSUME B!Inside(t) PROVE Round!Inside(t)
    BY <2>3, SameCount DEF B!Inside, B!Lock, B!Wait, B!Broadcast, B!Relock, B!numThreads, B!Waiters,
       Round!Inside, Round!Lock, Round!Wait, Round!Broadcast, Round!Relock,
       Round!numThreads, Round!Waiters
  <2> QED
    BY <1>1, <2>1, <2>2, <2>3 DEF Round!foo
<1>2. ASSUME B!Return(t), Goto(t, AfterBarrier(t))
      PROVE  Round!foo(t)
  <2>1. Round!Return(t)
    BY <1>2 DEF B!Return, Round!Return
  <2>2. /\ pc[t] = "barrier1" => pc'[t] \in {"reset_to_shuffle", "barrier2"}
        /\ pc[t] = "barrier2" => pc'[t] = "reduce_start"
        /\ pc[t] \in AtBarrier
        /\ \A u \in Threads : u # t => pc'[u] = pc[u]
    BY <1>2 DEF Goto, AfterBarrier, BarrierStep, AtBarrier
  <2>3. Passed' = [Passed EXCEPT ![t] = @ + 1]
    <3>1. \A u \in Threads : u # t => Passed'[u] = Passed[u]
      BY <2>2 DEF Passed
    <3>2. Passed'[t] = Passed[t] + 1
      BY <2>2 DEF Passed, MapWork, ShuffleWork, AtBarrier
    <3> QED
      BY <3>1, <3>2 DEF Passed
  <2> QED
    BY <2>1, <2>3 DEF Round!foo
<1>3. Round!foo(t)
  BY <1>1, <1>2 DEF BarrierStep
<1>4. [Round!Next]_(Round!vars)
  BY <1>3 DEF Round!Next
<1> QED
  BY <1>4, RoundNext

\* While a thread maps nobody is past the first barrier; while thread 0 shuffles
\* the others stand at the barriers; while one reduces none is before the second.
LEMMA Phases ==
  ASSUME pc \in [Threads -> Labels], ControlInv, NEW t \in Threads
  PROVE  /\ pc[t] \in MapWork => \A u \in Threads : pc[u] \in MapWork \cup {"barrier1"}
         /\ pc[t] \in ShuffleWork =>
              /\ t = 0
              /\ \A u \in Threads \ {0} : pc[u] \in {"barrier1", "barrier2"}
              /\ \A u \in Threads : pc[u] \notin MapWork /\ pc[u] \notin ReduceWork
         /\ pc[t] \in ReduceWork => \A u \in Threads : pc[u] \in ReduceWork \cup {"barrier2"}
<1>1. PICK round \in 0..2 :
        \A u \in Threads : Passed[u] = IF u \in Round!Leaving THEN round - 1 ELSE round
  BY DEF ControlInv, Round!IInv, Round!OneRoundAtATime
<1>2. \A u \in Threads : u \in Round!Leaving => pc[u] \in AtBarrier
  BY DEF ControlInv, Round!Leaving
<1>3. \A u \in Threads :
        /\ Passed[u] \in 0..2
        /\ Passed[u] = 0 <=> pc[u] \in MapWork \cup {"barrier1"}
        /\ Passed[u] = 1 <=> pc[u] \in ShuffleWork \cup {"barrier2"}
        /\ Passed[u] = 2 <=> pc[u] \in ReduceWork
  BY DEF Passed, Labels, AtBarrier, MapWork, ShuffleWork, ReduceWork
<1>4. \A u \in Threads : pc[u] \in ShuffleWork => u = 0
  BY DEF ControlInv
<1>5. ASSUME pc[t] \in MapWork, NEW u \in Threads PROVE pc[u] \in MapWork \cup {"barrier1"}
  <2>1. round = 0
    BY <1>1, <1>2, <1>3, <1>5 DEF MapWork, AtBarrier
  <2>2. Passed[u] = 0
    BY <1>1, <1>3, <2>1
  <2> QED
    BY <1>3, <2>2
<1>6. ASSUME pc[t] \in ShuffleWork, NEW u \in Threads
      PROVE  /\ u # 0 => pc[u] \in {"barrier1", "barrier2"}
             /\ pc[u] \notin MapWork /\ pc[u] \notin ReduceWork
  <2>1. round = 1
    BY <1>1, <1>2, <1>3, <1>6 DEF ShuffleWork, AtBarrier
  <2>2. CASE u \in Round!Leaving
    <3>1. pc[u] \in AtBarrier
      BY <1>2, <2>2
    <3> QED
      BY <3>1 DEF AtBarrier, MapWork, ReduceWork
  <2>3. CASE u \notin Round!Leaving
    <3>1. pc[u] \in ShuffleWork \cup {"barrier2"}
      BY <1>1, <1>3, <2>1, <2>3
    <3> QED
      BY <1>4, <3>1 DEF ShuffleWork, MapWork, ReduceWork
  <2> QED
    BY <2>2, <2>3
<1>7. ASSUME pc[t] \in ReduceWork, NEW u \in Threads PROVE pc[u] \in ReduceWork \cup {"barrier2"}
  <2>1. round = 2
    BY <1>1, <1>2, <1>3, <1>7 DEF ReduceWork, AtBarrier
  <2>2. CASE u \in Round!Leaving
    BY <1>1, <1>2, <1>3, <2>1, <2>2 DEF AtBarrier, ShuffleWork
  <2>3. CASE u \notin Round!Leaving
    BY <1>1, <1>3, <2>1, <2>3
  <2> QED
    BY <2>2, <2>3
<1>8. pc[t] \in ShuffleWork => t = 0
  BY <1>4
<1> QED
  BY <1>5, <1>6, <1>7, <1>8

-----------------------------------------------------------------------------
(* What a thread's position says of the stage. *)

LEMMA InMap ==
  ASSUME TypeInv, ControlInv, NEW t \in Threads, pc[t] \in MapWork
  PROVE  /\ atomic_state.stage = MAP_STAGE
         /\ \A u \in Threads : pc[u] \in MapWork \cup {"barrier1"}
<1>1. \A u \in Threads : pc[u] \in MapWork \cup {"barrier1"}
  BY Phases DEF TypeInv
<1>2. pc[0] \in MapWork \cup {"barrier1"}
  BY <1>1, ThreadFacts
<1> QED
  BY <1>1, <1>2 DEF ControlInv, StageAt

LEMMA InShuffle ==
  ASSUME TypeInv, ControlInv, NEW t \in Threads, pc[t] \in ShuffleWork
  PROVE  /\ t = 0
         /\ pc[0] = "reset_to_shuffle" => atomic_state.stage = MAP_STAGE
         /\ pc[0] \in {"reset_shuffle_claims", "shuffle"} => atomic_state.stage = SHUFFLE_STAGE
         /\ pc[0] = "reset_reduce_claims" => atomic_state.stage = REDUCE_STAGE
         /\ \A u \in Threads : pc[u] \notin MapWork /\ pc[u] \notin ReduceWork
<1>1. /\ t = 0
      /\ \A u \in Threads : pc[u] \notin MapWork /\ pc[u] \notin ReduceWork
  BY Phases DEF TypeInv
<1> QED
  BY <1>1 DEF ControlInv, StageAt, ShuffleWork, MapWork

LEMMA InReduce ==
  ASSUME TypeInv, ControlInv, NEW t \in Threads, pc[t] \in ReduceWork
  PROVE  /\ atomic_state.stage = REDUCE_STAGE /\ Claims = atomic_next_to_process
         /\ \A u \in Threads : pc[u] \in ReduceWork \cup {"barrier2"}
<1>1. \A u \in Threads : pc[u] \in ReduceWork \cup {"barrier2"}
  BY Phases DEF TypeInv
<1>2. pc[0] \in ReduceWork \cup {"barrier2"}
  BY <1>1, ThreadFacts
<1> QED
  BY <1>1, <1>2 DEF ControlInv, StageAt, MapWork, ReduceWork, Claims

-----------------------------------------------------------------------------
(* Where the threads are. *)

LEMMA ControlGoto ==
  ASSUME TypeInv, ControlInv, NEW t \in Threads, NEW label, Goto(t, label), UNCHANGED barrier,
         \/ /\ pc[t] \in MapWork /\ label \in MapWork \cup {"barrier1"}
            /\ atomic_state'.stage = atomic_state.stage
         \/ /\ pc[t] \in ShuffleWork /\ label \in ShuffleWork \cup {"barrier2"}
            /\ atomic_state'.stage = StageAt(label)
         \/ /\ pc[t] \in ReduceWork /\ label \in ReduceWork
            /\ atomic_state'.stage = atomic_state.stage
  PROVE  ControlInv' /\ pc' \in [Threads -> Labels]
<1>1. /\ pc \in [Threads -> Labels] /\ pc' = [pc EXCEPT ![t] = label]
      /\ pc'[t] = label /\ \A u \in Threads : u # t => pc'[u] = pc[u]
  BY DEF Goto, TypeInv
<1>2. label \in Labels /\ pc' \in [Threads -> Labels]
  BY <1>1 DEF Labels, AtBarrier
<1>3. Passed' = Passed
  BY <1>1, SamePassed
<1>4. Round!IInv'
  BY <1>3, RoundFrame DEF ControlInv
<1>5. \A u \in Threads : pc'[u] \in ShuffleWork => u = 0
  BY <1>1 DEF ControlInv, MapWork, ShuffleWork, ReduceWork
<1>6. \A u \in Threads : pc'[u] \notin AtBarrier => barrier_at'[u] = "out"
  <2>1. pc[t] \notin AtBarrier
    BY DEF MapWork, ShuffleWork, ReduceWork, AtBarrier
  <2> QED
    BY <1>1, <2>1 DEF ControlInv, barrier
<1>7. atomic_state'.stage = StageAt(pc'[0])
  <2>1. CASE t = 0
    <3>1. pc[t] \in MapWork => atomic_state.stage = MAP_STAGE
      BY <2>1 DEF ControlInv, StageAt
    <3>2. pc[t] \in ReduceWork => atomic_state.stage = REDUCE_STAGE
      BY <2>1 DEF ControlInv, StageAt, MapWork, ReduceWork
    <3>3. label \in MapWork \cup {"barrier1"} => StageAt(label) = MAP_STAGE
      BY DEF StageAt
    <3>4. label \in ReduceWork => StageAt(label) = REDUCE_STAGE
      BY DEF StageAt, MapWork, ReduceWork
    <3> QED
      BY <1>1, <2>1, <3>1, <3>2, <3>3, <3>4
  <2>2. CASE t # 0
    <3>1. pc[t] \notin ShuffleWork
      BY <2>2 DEF ControlInv
    <3> QED
      BY <1>1, <2>2, <3>1, ThreadFacts DEF ControlInv
  <2> QED
    BY <2>1, <2>2
<1> QED
  BY <1>2, <1>4, <1>5, <1>6, <1>7 DEF ControlInv

LEMMA ControlFrame ==
  ASSUME ControlInv, pc' = pc, UNCHANGED barrier, atomic_state'.stage = atomic_state.stage
  PROVE  ControlInv'
<1>1. Passed' = Passed
  BY DEF Passed
<1>2. Round!IInv'
  BY <1>1, RoundFrame DEF ControlInv
<1> QED
  BY <1>2 DEF ControlInv, barrier

LEMMA ControlBarrier ==
  ASSUME TypeInv, ControlInv, NEW t \in Threads, BarrierStep(t)
  PROVE  /\ ControlInv' /\ pc' \in [Threads -> Labels]
         /\ pc' = pc \/ \E label \in {"reset_to_shuffle", "barrier2", "reduce_start"} :
                          /\ Goto(t, label)
                          /\ label = "reset_to_shuffle" => pc[t] = "barrier1" /\ t = 0
<1>1. pc[t] \in AtBarrier /\ atomic_state' = atomic_state
  BY DEF BarrierStep, AtBarrier, progress
<1>2. Round!IInv'
  BY RoundStep DEF ControlInv, TypeInv
<1>3. CASE (B!Call(t) \/ B!Inside(t)) /\ UNCHANGED pc
  <2>1. \A u \in Threads : barrier_at[u] = "out" /\ u # t => barrier_at'[u] = "out"
    BY <1>3, ThreadFacts DEF B!Call, B!Inside, B!Lock, B!Wait, B!Broadcast, B!Relock, B!Waiters,
       ControlInv, Round!IInv, Round!DemoTypeOK, Round!BarrierTypeOK
  <2>2. \A u \in Threads : pc'[u] \notin AtBarrier => barrier_at'[u] = "out"
    BY <1>1, <1>3, <2>1 DEF ControlInv
  <2> QED
    BY <1>1, <1>2, <1>3, <2>2 DEF ControlInv, TypeInv
<1>4. CASE B!Return(t) /\ Goto(t, AfterBarrier(t))
  <2> DEFINE label == AfterBarrier(t)
  <2>1. /\ label \in {"reset_to_shuffle", "barrier2", "reduce_start"}
        /\ label = "reset_to_shuffle" => pc[t] = "barrier1" /\ t = 0
        /\ pc[t] = "barrier2" => label = "reduce_start"
        /\ pc[t] = "barrier1" => label # "reduce_start"
    BY <1>1 DEF AfterBarrier, AtBarrier
  <2> HIDE DEF label
  <2>2. /\ pc \in [Threads -> Labels] /\ pc' = [pc EXCEPT ![t] = label]
        /\ pc'[t] = label /\ \A u \in Threads : u # t => pc'[u] = pc[u]
    BY <1>4 DEF Goto, TypeInv, label
  <2>3. pc' \in [Threads -> Labels]
    BY <2>1, <2>2 DEF Labels, AtBarrier, ShuffleWork, ReduceWork
  <2>4. \A u \in Threads : pc'[u] \in ShuffleWork => u = 0
    BY <2>1, <2>2 DEF ControlInv, ShuffleWork
  <2>5. \A u \in Threads : pc'[u] \notin AtBarrier => barrier_at'[u] = "out"
    <3>1. barrier_at' = [barrier_at EXCEPT ![t] = "out"]
      BY <1>4 DEF B!Return
    <3>2. barrier_at'[t] = "out"
      BY <3>1 DEF ControlInv, Round!IInv, Round!DemoTypeOK, Round!BarrierTypeOK
    <3>3. \A u \in Threads : u # t => barrier_at'[u] = barrier_at[u]
      BY <3>1 DEF ControlInv, Round!IInv, Round!DemoTypeOK, Round!BarrierTypeOK
    <3> QED
      BY <2>2, <3>2, <3>3 DEF ControlInv
  <2>6. atomic_state'.stage = StageAt(pc'[0])
    <3>1. CASE t # 0
      BY <1>1, <2>2, <3>1, ThreadFacts DEF ControlInv
    <3>2. CASE t = 0 /\ pc[0] = "barrier1"
      <4>1. label = "reset_to_shuffle"
        BY <3>2 DEF label, AfterBarrier
      <4> QED
        BY <1>1, <2>2, <3>2, <4>1 DEF ControlInv, StageAt
    <3>3. CASE t = 0 /\ pc[0] = "barrier2"
      <4>1. label = "reduce_start"
        BY <2>1, <3>3
      <4> QED
        BY <1>1, <2>2, <3>3, <4>1 DEF ControlInv, StageAt, MapWork
    <3> QED
      BY <1>1, <3>1, <3>2, <3>3 DEF AtBarrier
  <2> QED
    BY <1>2, <1>4, <2>1, <2>3, <2>4, <2>5, <2>6 DEF ControlInv, label
<1> QED
  BY <1>3, <1>4 DEF BarrierStep

-----------------------------------------------------------------------------
(* Types. *)

\* With the mutex held, the two halves of a push_back append.
LEMMA PlacedIsAppend ==
  ASSUME NEW S, NEW s \in Seq(S), NEW t, slot[t] = Len(s) + 1, NEW e
  PROVE  Placed(t, s, e) = Append(s, e)
<1>1. SubSeq(s, 1, Len(s)) = s
  OBVIOUS
<1>2. slot[t] - 1 = Len(s)
  <2>1. Len(s) \in Nat
    OBVIOUS
  <2> QED
    BY <2>1
<1> QED
  BY <1>1, <1>2 DEF Placed

LEMMA GotoType ==
  ASSUME pc \in [Threads -> Labels], NEW t \in Threads, NEW label \in Labels, Goto(t, label)
  PROVE  pc' \in [Threads -> Labels]
BY DEF Goto

LEMMA CounterTypes ==
  ASSUME TypeInv, NEW t \in Threads
  PROVE  /\ Load(t) => x' \in [Threads -> Progress]
         /\ \A n \in Nat : Add(n) => atomic_state' \in Progress
         /\ Claim(t) => old_val' \in [Threads -> Nat] /\ atomic_next_to_process' \in Nat
         /\ \A s : Len(s) \in Nat /\ Slot(t, s) => slot' \in [Threads -> Nat]
<1>1. Load(t) => x' \in [Threads -> Progress]
  BY DEF Load, TypeInv
<1>2. ASSUME NEW n \in Nat, Add(n) PROVE atomic_state' \in Progress
  <2> DEFINE k == atomic_state.count + n
  <2>1. k \in Nat
    <3>1. atomic_state.count \in Nat
      BY DEF TypeInv, Progress
    <3> QED
      BY <3>1
  <2>2. atomic_state' = [atomic_state EXCEPT !.count = k]
    BY <1>2 DEF Add
  <2> HIDE DEF k
  <2> QED
    BY <2>1, <2>2 DEF TypeInv, Progress
<1>3. Claim(t) => old_val' \in [Threads -> Nat] /\ atomic_next_to_process' \in Nat
  BY DEF Claim, TypeInv
<1>4. ASSUME NEW s, Len(s) \in Nat, Slot(t, s) PROVE slot' \in [Threads -> Nat]
  BY <1>4 DEF Slot, TypeInv
<1> QED
  BY <1>1, <1>2, <1>3, <1>4

LEMMA TypeMapActions ==
  ASSUME TypeInv, ControlInv, MutexInv, StageInv, NEW t \in Threads
  PROVE  /\ MapStart(t) => TypeInv'
         /\ MapClaim(t) => TypeInv'
         /\ MapItem(t) => TypeInv'
         /\ MapDone(t) => TypeInv'
         /\ SortAndLock(t) => TypeInv'
         /\ PushSlot(t) => TypeInv'
         /\ PushAndUnlock(t) => TypeInv'
<1> USE DEF inputs, progress, shuffle, client
<1>1. ASSUME MapStart(t) PROVE TypeInv'
  <2>1. "map" \in Labels
    BY DEF Labels, MapWork
  <2>2. pc' \in [Threads -> Labels] /\ x' \in [Threads -> Progress] /\ Pairs' = Pairs
    BY <1>1, <2>1, GotoType, CounterTypes, SameInput DEF MapStart, TypeInv
  <2> QED
    BY <1>1, <2>2 DEF MapStart, TypeInv
<1>2. ASSUME MapClaim(t) PROVE TypeInv'
  <2>1. (IF atomic_next_to_process >= Len(inputVec) THEN "sort" ELSE "mapping") \in Labels
    BY DEF Labels, MapWork
  <2>2. /\ pc' \in [Threads -> Labels] /\ Pairs' = Pairs
        /\ old_val' \in [Threads -> Nat] /\ atomic_next_to_process' \in Nat
    BY <1>2, <2>1, GotoType, CounterTypes, SameInput DEF MapClaim, TypeInv
  <2> QED
    BY <1>2, <2>2 DEF MapClaim, TypeInv
<1>3. ASSUME MapItem(t) PROVE TypeInv'
  <2>1. "map" \in Labels
    BY DEF Labels, MapWork
  <2>2. pc' \in [Threads -> Labels] /\ Pairs' = Pairs
    BY <1>3, <2>1, GotoType, SameInput DEF MapItem, TypeInv
  <2>3. x' \in [Threads -> Progress] /\ atomic_state' \in Progress
    BY <1>3, CounterTypes DEF MapItem, FetchAdd
  <2>4. Emitted(t) \in Seq(Pairs)
    <3>1. pc[t] = "mapping" /\ old_val[t] \in Nat
      BY <1>3 DEF MapItem, TypeInv
    <3>2. atomic_state.stage = MAP_STAGE
      BY <3>1, InMap DEF MapWork
    <3>3. old_val[t] < Len(inputVec)
      BY <3>1, <3>2 DEF StageInv, MapInv, ClaimInv
    <3> QED
      BY <3>1, <3>3, EmittedPairs DEF TypeInv
  <2>5. intermediateVec' \in [Threads -> Seq(Pairs)]
    <3>1. intermediateVec[t] \o Emitted(t) \in Seq(Pairs)
      BY <2>4 DEF TypeInv
    <3> QED
      BY <1>3, <3>1 DEF MapItem, TypeInv
  <2> QED
    BY <1>3, <2>2, <2>3, <2>5 DEF MapItem, TypeInv
<1>4. ASSUME MapDone(t) PROVE TypeInv'
  <2>1. "sort" \in Labels
    BY DEF Labels, MapWork
  <2>2. pc' \in [Threads -> Labels] /\ Pairs' = Pairs
    BY <1>4, <2>1, GotoType, SameInput DEF MapDone, TypeInv
  <2> QED
    BY <1>4, <2>2 DEF MapDone, TypeInv
<1>5. ASSUME SortAndLock(t) PROVE TypeInv'
  <2>1. "push" \in Labels
    BY DEF Labels, MapWork
  <2>2. pc' \in [Threads -> Labels] /\ Pairs' = Pairs
    BY <1>5, <2>1, GotoType, SameInput DEF SortAndLock, TypeInv
  <2>3. PICK v \in Sorts(intermediateVec[t]) : intermediateVec' = [intermediateVec EXCEPT ![t] = v]
    BY <1>5 DEF SortAndLock, SortVector
  <2>4. v \in Seq(Pairs)
    BY <2>3, SortPermutes DEF TypeInv
  <2>5. intermediateVec' \in [Threads -> Seq(Pairs)]
    BY <2>3, <2>4 DEF TypeInv
  <2> QED
    BY <1>5, <2>2, <2>5 DEF SortAndLock, TypeInv
<1>6. ASSUME PushSlot(t) PROVE TypeInv'
  <2>1. "pushing" \in Labels /\ Len(beforeShuffle) \in Nat
    BY DEF Labels, MapWork, TypeInv
  <2>2. pc' \in [Threads -> Labels] /\ Pairs' = Pairs /\ slot' \in [Threads -> Nat]
    BY <1>6, <2>1, GotoType, SameInput, CounterTypes DEF PushSlot, TypeInv
  <2> QED
    BY <1>6, <2>2 DEF PushSlot, TypeInv
<1>7. ASSUME PushAndUnlock(t) PROVE TypeInv'
  <2>1. "barrier1" \in Labels
    BY DEF Labels, AtBarrier
  <2>2. pc' \in [Threads -> Labels] /\ Pairs' = Pairs
    BY <1>7, <2>1, GotoType, SameInput DEF PushAndUnlock, TypeInv
  <2>3. beforeShuffle' = Append(beforeShuffle, intermediateVec[t])
    BY <1>7, PlacedIsAppend DEF PushAndUnlock, MutexInv, TypeInv
  <2>4. beforeShuffle' \in Seq(Seq(Pairs))
    BY <2>3, AppendVector DEF TypeInv
  <2> QED
    BY <1>7, <2>2, <2>4 DEF PushAndUnlock, TypeInv
<1> QED
  BY <1>1, <1>2, <1>3, <1>4, <1>5, <1>6, <1>7

LEMMA CountPairs ==
  ASSUME inputVec \in Inputs, NEW vecs \in Seq(Seq(Pairs)), NoneTwice(vecs)
  PROVE  /\ Elements(vecs) \subseteq Pairs /\ IsFiniteSet(Elements(vecs))
         /\ count_elements(vecs) = Cardinality(Elements(vecs))
         /\ count_elements(vecs) \in Nat
<1>1. Elements(vecs) \subseteq Pairs /\ IsFiniteSet(Elements(vecs))
  BY ElementsOf, PairsFinite, FS_Subset
<1>2. count_elements(vecs) = Cardinality(Elements(vecs))
  BY <1>1, CountElements
<1> QED
  BY <1>1, <1>2, FS_CardinalityType

LEMMA TypeReset ==
  ASSUME TypeInv, NEW t \in Threads, NEW label, NEW next \in Labels,
         NEW stage \in MAP_STAGE .. REDUCE_STAGE,
         NEW vecs \in Seq(Seq(Pairs)), NoneTwice(vecs), ResetState(t, label, next, stage, vecs)
  PROVE  TypeInv'
<1> USE DEF inputs, shuffle, client
<1>1. count_elements(vecs) \in Nat
  BY CountPairs DEF TypeInv
<1>2. atomic_state' \in Progress
  BY <1>1 DEF ResetState, Progress
<1>3. pc' \in [Threads -> Labels] /\ Pairs' = Pairs
  BY GotoType, SameInput DEF ResetState, TypeInv
<1> QED
  BY <1>2, <1>3 DEF ResetState, TypeInv

LEMMA KeysArePositive ==
  ASSUME TypeInv
  PROVE  \A p \in Pairs : p.key \in Nat \ {0}
BY PairFacts DEF TypeInv

LEMMA TypeShuffling ==
  ASSUME TypeInv, ControlInv, MutexInv, StageInv, NEW t \in Threads, Shuffling(t)
  PROVE  TypeInv'
<1> USE DEF inputs, progress, shuffle, client, locals
<1>1. CASE ResetState(t, "reset_to_shuffle", "reset_shuffle_claims", SHUFFLE_STAGE, beforeShuffle)
  <2>1. pc[t] = "reset_to_shuffle"
    BY <1>1 DEF ResetState
  <2>2. NoneTwice(beforeShuffle)
    BY <2>1, InShuffle DEF ShuffleWork, StageInv, MapInv, PushInv
  <2>3. "reset_shuffle_claims" \in Labels /\ SHUFFLE_STAGE \in MAP_STAGE .. REDUCE_STAGE
    BY DEF Labels, ShuffleWork, MAP_STAGE, SHUFFLE_STAGE, REDUCE_STAGE
  <2> QED
    BY <1>1, <2>2, <2>3, TypeReset DEF TypeInv
<1>2. CASE StartShuffle(t)
  <2>1. pc[t] = "reset_shuffle_claims"
    BY <1>2 DEF StartShuffle
  <2>2. \A v \in DOMAIN beforeShuffle : Sorted(beforeShuffle[v])
    BY <2>1, InShuffle DEF ShuffleWork, StageInv, ShuffleInv
  <2>3. maxKey' \in Nat
    BY <1>2, <2>2, MaxKey, KeysArePositive DEF StartShuffle, TypeInv
  <2>4. "shuffle" \in Labels
    BY DEF Labels, ShuffleWork
  <2>5. pc' \in [Threads -> Labels] /\ Pairs' = Pairs
    BY <1>2, <2>4, GotoType, SameInput DEF StartShuffle, ResetClaims, TypeInv
  <2> QED
    BY <1>2, <2>3, <2>5 DEF StartShuffle, ResetClaims, TypeInv
<1>3. CASE ShufflePair(t)
  <2>1. PICK v \in DOMAIN beforeShuffle :
          /\ beforeShuffle[v] # <<>>
          /\ temp' = Append(temp, Last(beforeShuffle[v]))
          /\ beforeShuffle' = [beforeShuffle EXCEPT ![v] = Front(@)]
    BY <1>3 DEF ShufflePair
  <2>2. beforeShuffle[v] \in Seq(Pairs)
    BY DEF TypeInv
  <2>3. Front(beforeShuffle[v]) \in Seq(Pairs) /\ Last(beforeShuffle[v]) \in Pairs
    <3>1. Front(beforeShuffle[v]) \in Seq(Pairs)
             /\ Last(beforeShuffle[v]) \in Range(beforeShuffle[v])
      BY <2>1, <2>2, DropLast
    <3> QED
      BY <2>2, <3>1, RangeIsImage
  <2>4. temp' \in Seq(Pairs) /\ beforeShuffle' \in Seq(Seq(Pairs))
    <3>1. temp \in Seq(Pairs) /\ beforeShuffle \in Seq(Seq(Pairs))
      BY DEF TypeInv
    <3>2. temp' \in Seq(Pairs)
      BY <2>1, <2>3, <3>1
    <3>3. beforeShuffle' \in Seq(Seq(Pairs))
      BY <2>1, <2>3, <3>1
    <3> QED
      BY <3>2, <3>3
  <2>5. atomic_state' \in Progress
    BY <1>3, CounterTypes DEF ShufflePair
  <2>6. Pairs' = Pairs
    BY <1>3, SameInput DEF ShufflePair
  <2> QED
    BY <1>3, <2>4, <2>5, <2>6 DEF ShufflePair, TypeInv
<1>4. CASE EndGroup(t)
  <2>1. pc[t] = "shuffle"
    BY <1>4 DEF EndGroup
  <2>2. \A v \in DOMAIN beforeShuffle : Sorted(beforeShuffle[v])
    BY <2>1, InShuffle DEF ShuffleWork, StageInv, ShuffleInv
  <2>3. maxKey' \in Nat
    BY <1>4, <2>2, MaxKey, KeysArePositive DEF EndGroup, TypeInv
  <2>4. afterShuffle' \in Seq(Seq(Pairs)) /\ temp' \in Seq(Pairs)
    BY <1>4 DEF EndGroup, TypeInv
  <2>5. Pairs' = Pairs
    BY <1>4, SameInput DEF EndGroup
  <2> QED
    BY <1>4, <2>3, <2>4, <2>5 DEF EndGroup, TypeInv
<1>5. CASE ShuffleDone(t)
  <2>1. ResetState(t, "shuffle", "reset_reduce_claims", REDUCE_STAGE, afterShuffle)
    BY <1>5 DEF ShuffleDone
  <2>2. pc[t] = "shuffle"
    BY <2>1 DEF ResetState
  <2>3. NoneTwice(afterShuffle)
    BY <2>2, InShuffle DEF ShuffleWork, StageInv, PlacesInv, SHUFFLE_STAGE, MAP_STAGE
  <2>4. "reset_reduce_claims" \in Labels /\ REDUCE_STAGE \in MAP_STAGE .. REDUCE_STAGE
    BY DEF Labels, ShuffleWork, MAP_STAGE, REDUCE_STAGE
  <2> QED
    BY <2>1, <2>3, <2>4, TypeReset DEF TypeInv
<1>6. CASE StartReduce(t)
  <2>1. "barrier2" \in Labels
    BY DEF Labels, AtBarrier
  <2>2. pc' \in [Threads -> Labels] /\ Pairs' = Pairs
    BY <1>6, <2>1, GotoType, SameInput DEF StartReduce, ResetClaims, TypeInv
  <2> QED
    BY <1>6, <2>2 DEF StartReduce, ResetClaims, TypeInv
<1> QED
  BY <1>1, <1>2, <1>3, <1>4, <1>5, <1>6 DEF Shuffling

\* The group a thread reduces.
LEMMA ClaimedGroup ==
  ASSUME TypeInv, ControlInv, StageInv, NEW t \in Threads, pc[t] \in Reducing \cup {"reduced"}
  PROVE  /\ old_val[t] + 1 \in DOMAIN afterShuffle
         /\ Claimed(t) = afterShuffle[old_val[t] + 1]
         /\ Claimed(t) \in Seq(Pairs) /\ Range(Claimed(t)) \subseteq Pairs
         /\ Len(Claimed(t)) \in Nat
<1>1. atomic_state.stage = REDUCE_STAGE
  BY InReduce DEF Reducing, ReduceWork
<1>2. old_val[t] \in Nat /\ old_val[t] < Len(afterShuffle)
  BY <1>1 DEF StageInv, ReduceInv, TypeInv
<1>3. old_val[t] + 1 \in DOMAIN afterShuffle
  BY <1>2 DEF TypeInv
<1>4. Claimed(t) \in Seq(Pairs)
  BY <1>3 DEF Claimed, TypeInv
<1> QED
  BY <1>3, <1>4, RangeIsImage DEF Claimed

LEMMA TypeReduceActions ==
  ASSUME TypeInv, ControlInv, MutexInv, StageInv, NEW t \in Threads
  PROVE  /\ ReduceStart(t) => TypeInv'
         /\ ReduceClaim(t) => TypeInv'
         /\ ReduceDone(t) => TypeInv'
         /\ EmitLock(t) => TypeInv'
         /\ EmitSlot(t) => TypeInv'
         /\ EmitAndUnlock(t) => TypeInv'
         /\ ReduceCount(t) => TypeInv'
<1> USE DEF inputs, progress, shuffle, client
<1>0. \A label \in ReduceWork : label \in Labels
  BY DEF Labels
<1>1. ASSUME ReduceStart(t) PROVE TypeInv'
  <2>1. "reduce" \in Labels
    BY <1>0 DEF ReduceWork
  <2>2. pc' \in [Threads -> Labels] /\ x' \in [Threads -> Progress] /\ Pairs' = Pairs
    BY <1>1, <2>1, GotoType, CounterTypes, SameInput DEF ReduceStart, TypeInv
  <2> QED
    BY <1>1, <2>2 DEF ReduceStart, TypeInv
<1>2. ASSUME ReduceClaim(t) PROVE TypeInv'
  <2>1. (IF atomic_next_to_process >= Len(afterShuffle) THEN "done" ELSE "reducing") \in Labels
    BY <1>0 DEF ReduceWork
  <2>2. /\ pc' \in [Threads -> Labels] /\ Pairs' = Pairs
        /\ old_val' \in [Threads -> Nat] /\ atomic_next_to_process' \in Nat
    BY <1>2, <2>1, GotoType, CounterTypes, SameInput DEF ReduceClaim, TypeInv
  <2> QED
    BY <1>2, <2>2 DEF ReduceClaim, TypeInv
<1>3. ASSUME ReduceDone(t) PROVE TypeInv'
  <2>1. "done" \in Labels
    BY <1>0 DEF ReduceWork
  <2>2. pc' \in [Threads -> Labels] /\ Pairs' = Pairs
    BY <1>3, <2>1, GotoType, SameInput DEF ReduceDone, TypeInv
  <2> QED
    BY <1>3, <2>2 DEF ReduceDone, TypeInv
<1>4. ASSUME EmitLock(t) PROVE TypeInv'
  <2>1. "emit" \in Labels
    BY <1>0 DEF ReduceWork
  <2>2. pc' \in [Threads -> Labels] /\ Pairs' = Pairs
    BY <1>4, <2>1, GotoType, SameInput DEF EmitLock, TypeInv
  <2> QED
    BY <1>4, <2>2 DEF EmitLock, TypeInv
<1>5. ASSUME EmitSlot(t) PROVE TypeInv'
  <2>1. "emitting" \in Labels /\ Len(outputVec) \in Nat
    BY <1>0 DEF ReduceWork, TypeInv
  <2>2. pc' \in [Threads -> Labels] /\ Pairs' = Pairs /\ slot' \in [Threads -> Nat]
    BY <1>5, <2>1, GotoType, SameInput, CounterTypes DEF EmitSlot, TypeInv
  <2> QED
    BY <1>5, <2>2 DEF EmitSlot, TypeInv
<1>6. ASSUME EmitAndUnlock(t) PROVE TypeInv'
  <2>1. "reduced" \in Labels
    BY <1>0 DEF ReduceWork
  <2>2. pc' \in [Threads -> Labels] /\ Pairs' = Pairs
    BY <1>6, <2>1, GotoType, SameInput DEF EmitAndUnlock, TypeInv
  <2>3. outputVec' = Append(outputVec, Range(Claimed(t)))
    BY <1>6, PlacedIsAppend DEF EmitAndUnlock, MutexInv, TypeInv
  <2>4. Range(Claimed(t)) \in SUBSET Pairs
    BY <1>6, ClaimedGroup DEF EmitAndUnlock, Reducing
  <2>5. outputVec' \in Seq(SUBSET Pairs)
    BY <2>3, <2>4, AppendElement DEF TypeInv
  <2> QED
    BY <1>6, <2>2, <2>5 DEF EmitAndUnlock, TypeInv
<1>7. ASSUME ReduceCount(t) PROVE TypeInv'
  <2>1. "reduce" \in Labels
    BY <1>0 DEF ReduceWork
  <2>2. pc' \in [Threads -> Labels] /\ Pairs' = Pairs
    BY <1>7, <2>1, GotoType, SameInput DEF ReduceCount, TypeInv
  <2>3. Len(Claimed(t)) \in Nat
    BY <1>7, ClaimedGroup DEF ReduceCount
  <2>4. x' \in [Threads -> Progress] /\ atomic_state' \in Progress
    BY <1>7, <2>3, CounterTypes DEF ReduceCount, FetchAdd
  <2> QED
    BY <1>7, <2>2, <2>4 DEF ReduceCount, TypeInv
<1> QED
  BY <1>1, <1>2, <1>3, <1>4, <1>5, <1>6, <1>7

LEMMA TypeBarrier ==
  ASSUME TypeInv, ControlInv, NEW t \in Threads, BarrierStep(t)
  PROVE  TypeInv'
<1>1. pc' \in [Threads -> Labels]
  BY ControlBarrier
<1>2. Pairs' = Pairs
  BY SameInput DEF BarrierStep, inputs
<1> QED
  BY <1>1, <1>2 DEF BarrierStep, TypeInv, inputs, progress, shuffle, client

LEMMA TypeClient ==
  ASSUME TypeInv, ClientInv, Client
  PROVE  TypeInv'
<1> USE DEF jobVars, inputs, progress, shuffle, locals
<1>1. Pairs' = Pairs
  BY SameInput DEF Client, CreateThread, getJobState, waitForJob, Joined, closeJobHandle
<1>2. CASE CreateThread
  <2>1. created' \in 0..ThreadLevel
    BY <1>2, MapReduceAssumption DEF CreateThread, ClientInv, TypeInv
  <2> QED
    BY <1>1, <1>2, <2>1 DEF CreateThread, TypeInv
<1>3. CASE getJobState
  <2>1. atomic_state.stage \in UNDEFINED_STAGE .. REDUCE_STAGE
    BY DEF TypeInv, Progress, UNDEFINED_STAGE, MAP_STAGE, REDUCE_STAGE
  <2>2. State' \in [stage : UNDEFINED_STAGE .. REDUCE_STAGE, percentage : {"nan", "part", "full"}]
    BY <1>3, <2>1 DEF getJobState
  <2> QED
    BY <1>1, <1>3, <2>2 DEF getJobState, TypeInv
<1>4. CASE waitForJob \/ Joined \/ closeJobHandle
  BY <1>1, <1>4 DEF waitForJob, Joined, closeJobHandle, TypeInv
<1> QED
  BY <1>2, <1>3, <1>4 DEF Client

-----------------------------------------------------------------------------
(* Every step keeps the control invariant. *)

LEMMA ControlMapActions ==
  ASSUME TypeInv, ControlInv, NEW t \in Threads,
         \/ MapStart(t) \/ MapClaim(t) \/ MapItem(t) \/ MapDone(t)
         \/ SortAndLock(t) \/ PushSlot(t) \/ PushAndUnlock(t)
  PROVE  ControlInv'
<1>1. PICK label \in MapWork \cup {"barrier1"} : Goto(t, label)
  <2>1. CASE MapStart(t) \/ MapItem(t)
    BY <2>1 DEF MapStart, MapItem, MapWork
  <2>2. CASE MapClaim(t)
    BY <2>2 DEF MapClaim, MapWork
  <2>3. CASE MapDone(t) \/ SortAndLock(t)
    BY <2>3 DEF MapDone, SortAndLock, MapWork
  <2>4. CASE PushSlot(t) \/ PushAndUnlock(t)
    BY <2>4 DEF PushSlot, PushAndUnlock, MapWork
  <2> QED
    BY <2>1, <2>2, <2>3, <2>4
<1>2. pc[t] \in MapWork /\ UNCHANGED barrier
  BY DEF MapStart, MapClaim, MapItem, MapDone, SortAndLock, PushSlot, PushAndUnlock, MapWork
<1>3. atomic_state'.stage = atomic_state.stage
  <2>1. CASE MapItem(t)
    BY <2>1 DEF MapItem, FetchAdd, Add, TypeInv, Progress
  <2>2. CASE ~MapItem(t)
    BY <2>2 DEF MapStart, MapClaim, MapDone, SortAndLock, PushSlot, PushAndUnlock, progress
  <2> QED
    BY <2>1, <2>2
<1> QED
  BY <1>1, <1>2, <1>3, ControlGoto

LEMMA ControlShuffling ==
  ASSUME TypeInv, ControlInv, NEW t \in Threads, Shuffling(t)
  PROVE  ControlInv'
<1>1. CASE ResetState(t, "reset_to_shuffle", "reset_shuffle_claims", SHUFFLE_STAGE, beforeShuffle)
  <2>1. /\ pc[t] \in ShuffleWork /\ "reset_shuffle_claims" \in ShuffleWork
        /\ Goto(t, "reset_shuffle_claims") /\ UNCHANGED barrier
        /\ atomic_state'.stage = StageAt("reset_shuffle_claims")
    BY <1>1 DEF ResetState, ShuffleWork, StageAt, MapWork
  <2> QED
    BY <2>1, ControlGoto
<1>2. CASE StartShuffle(t)
  <2>1. pc[t] = "reset_shuffle_claims"
    BY <1>2 DEF StartShuffle
  <2>2. atomic_state.stage = StageAt("shuffle")
    BY <2>1, InShuffle DEF ShuffleWork, StageAt, MapWork
  <2>3. /\ pc[t] \in ShuffleWork /\ "shuffle" \in ShuffleWork
        /\ Goto(t, "shuffle") /\ UNCHANGED barrier
        /\ atomic_state'.stage = StageAt("shuffle")
    BY <1>2, <2>1, <2>2 DEF StartShuffle, ResetClaims, ShuffleWork
  <2> QED
    BY <2>3, ControlGoto
<1>3. CASE ShufflePair(t) \/ EndGroup(t)
  <2>1. atomic_state'.stage = atomic_state.stage
    BY <1>3 DEF ShufflePair, EndGroup, Add, progress, TypeInv, Progress
  <2>2. pc' = pc /\ UNCHANGED barrier
    BY <1>3 DEF ShufflePair, EndGroup, locals
  <2> QED
    BY <2>1, <2>2, ControlFrame
<1>4. CASE ShuffleDone(t)
  <2>1. /\ pc[t] \in ShuffleWork /\ "reset_reduce_claims" \in ShuffleWork
        /\ Goto(t, "reset_reduce_claims") /\ UNCHANGED barrier
        /\ atomic_state'.stage = StageAt("reset_reduce_claims")
    BY <1>4 DEF ShuffleDone, ResetState, ShuffleWork, StageAt, MapWork
  <2> QED
    BY <2>1, ControlGoto
<1>5. CASE StartReduce(t)
  <2>1. pc[t] = "reset_reduce_claims"
    BY <1>5 DEF StartReduce
  <2>2. atomic_state.stage = StageAt("barrier2")
    BY <2>1, InShuffle DEF ShuffleWork, StageAt, MapWork
  <2>3. /\ pc[t] \in ShuffleWork
        /\ Goto(t, "barrier2") /\ UNCHANGED barrier
        /\ atomic_state'.stage = StageAt("barrier2")
    BY <1>5, <2>1, <2>2 DEF StartReduce, ResetClaims, ShuffleWork
  <2> QED
    BY <2>3, ControlGoto
<1> QED
  BY <1>1, <1>2, <1>3, <1>4, <1>5 DEF Shuffling

LEMMA ControlReduceActions ==
  ASSUME TypeInv, ControlInv, NEW t \in Threads,
         \/ ReduceStart(t) \/ ReduceClaim(t) \/ ReduceDone(t)
         \/ EmitLock(t) \/ EmitSlot(t) \/ EmitAndUnlock(t) \/ ReduceCount(t)
  PROVE  ControlInv'
<1>1. PICK label \in ReduceWork : Goto(t, label)
  <2>1. CASE ReduceStart(t) \/ ReduceCount(t)
    BY <2>1 DEF ReduceStart, ReduceCount, ReduceWork
  <2>2. CASE ReduceClaim(t)
    BY <2>2 DEF ReduceClaim, ReduceWork
  <2>3. CASE ReduceDone(t) \/ EmitLock(t)
    BY <2>3 DEF ReduceDone, EmitLock, ReduceWork
  <2>4. CASE EmitSlot(t) \/ EmitAndUnlock(t)
    BY <2>4 DEF EmitSlot, EmitAndUnlock, ReduceWork
  <2> QED
    BY <2>1, <2>2, <2>3, <2>4
<1>2. pc[t] \in ReduceWork /\ UNCHANGED barrier
  BY DEF ReduceStart, ReduceClaim, ReduceDone, EmitLock, EmitSlot, EmitAndUnlock, ReduceCount,
     ReduceWork
<1>3. atomic_state'.stage = atomic_state.stage
  <2>1. CASE ReduceCount(t)
    BY <2>1 DEF ReduceCount, FetchAdd, Add, TypeInv, Progress
  <2>2. CASE ~ReduceCount(t)
    BY <2>2 DEF ReduceStart, ReduceClaim, ReduceDone, EmitLock, EmitSlot, EmitAndUnlock, progress
  <2> QED
    BY <2>1, <2>2
<1> QED
  BY <1>1, <1>2, <1>3, ControlGoto

LEMMA ControlClient ==
  ASSUME ControlInv, Client
  PROVE  ControlInv'
<1>1. pc' = pc /\ UNCHANGED barrier /\ atomic_state' = atomic_state
  BY DEF Client, CreateThread, getJobState, waitForJob, Joined, closeJobHandle, jobVars,
     progress, locals
<1> QED
  BY <1>1, ControlFrame

-----------------------------------------------------------------------------
(* The mutex of the job. *)

\* A step outside the locked sections.
LEMMA MutexGoto ==
  ASSUME TypeInv, MutexInv, NEW t \in Threads, NEW label, Goto(t, label),
         pc[t] \notin Locked, label \notin Locked, UNCHANGED <<mutex, slot, outputVec>>,
         Len(beforeShuffle') = Len(beforeShuffle)
  PROVE  MutexInv'
<1>1. pc'[t] = label /\ \A u \in Threads : u # t => pc'[u] = pc[u]
  BY DEF Goto, TypeInv
<1> QED
  BY <1>1 DEF MutexInv, Locked

\* The mutex is free: it is taken.
LEMMA MutexTake ==
  ASSUME TypeInv, MutexInv, NEW t \in Threads, NEW label \in {"push", "emit"}, Goto(t, label),
         mutex = NoThread, mutex' = t, UNCHANGED <<slot, outputVec, beforeShuffle>>
  PROVE  MutexInv'
<1>1. pc'[t] = label /\ \A u \in Threads : u # t => pc'[u] = pc[u]
  BY DEF Goto, TypeInv
<1>2. \A u \in Threads : pc[u] \notin Locked
  BY ThreadFacts DEF MutexInv
<1>3. label \in Locked /\ label # "pushing" /\ label # "emitting"
  BY DEF Locked
<1> QED
  BY <1>1, <1>2, <1>3 DEF MutexInv, Locked

\* It is held: it is kept with the place of the new element, or released.
LEMMA MutexHeld ==
  ASSUME TypeInv, MutexInv, NEW t \in Threads, NEW label, Goto(t, label), pc[t] \in Locked,
         \/ /\ label = "pushing" /\ Slot(t, beforeShuffle)
            /\ UNCHANGED <<mutex, outputVec, beforeShuffle>>
         \/ /\ label = "emitting" /\ Slot(t, outputVec)
            /\ UNCHANGED <<mutex, outputVec, beforeShuffle>>
         \/ label \notin Locked /\ mutex' = NoThread /\ UNCHANGED slot
  PROVE  MutexInv'
<1>1. pc'[t] = label /\ \A u \in Threads : u # t => pc'[u] = pc[u]
  BY DEF Goto, TypeInv
<1>2. mutex = t /\ \A u \in Threads : u # t => pc[u] \notin Locked
  BY DEF MutexInv
<1>3. "pushing" \in Locked /\ "emitting" \in Locked
  BY DEF Locked
<1>4. CASE label = "pushing" /\ Slot(t, beforeShuffle) /\ UNCHANGED <<mutex, outputVec, beforeShuffle>>
  <2>1. slot'[t] = Len(beforeShuffle) + 1
    BY <1>4 DEF Slot, TypeInv
  <2> QED
    BY <1>1, <1>2, <1>3, <1>4, <2>1 DEF MutexInv
<1>5. CASE label = "emitting" /\ Slot(t, outputVec) /\ UNCHANGED <<mutex, outputVec, beforeShuffle>>
  <2>1. slot'[t] = Len(outputVec) + 1
    BY <1>5 DEF Slot, TypeInv
  <2> QED
    BY <1>1, <1>2, <1>3, <1>5, <2>1 DEF MutexInv
<1>6. CASE label \notin Locked /\ mutex' = NoThread /\ UNCHANGED slot
  BY <1>1, <1>2, <1>3, <1>6, ThreadFacts DEF MutexInv
<1> QED
  BY <1>4, <1>5, <1>6

LEMMA MutexMapActions ==
  ASSUME TypeInv, MutexInv, NEW t \in Threads,
         \/ MapStart(t) \/ MapClaim(t) \/ MapItem(t) \/ MapDone(t)
         \/ SortAndLock(t) \/ PushSlot(t) \/ PushAndUnlock(t)
  PROVE  MutexInv'
<1>1. CASE MapStart(t) \/ MapItem(t) \/ MapDone(t)
  <2>1. PICK label \in {"map", "sort"} : Goto(t, label)
    BY <1>1 DEF MapStart, MapItem, MapDone
  <2>2. /\ pc[t] \notin Locked /\ label \notin Locked
        /\ UNCHANGED <<mutex, slot, outputVec, beforeShuffle>>
    BY <1>1 DEF MapStart, MapItem, MapDone, Locked, shuffle
  <2> QED
    BY <2>1, <2>2, MutexGoto
<1>2. CASE MapClaim(t)
  <2>1. PICK label \in {"sort", "mapping"} : Goto(t, label)
    BY <1>2 DEF MapClaim
  <2>2. /\ pc[t] \notin Locked /\ label \notin Locked
        /\ UNCHANGED <<mutex, slot, outputVec, beforeShuffle>>
    BY <1>2 DEF MapClaim, Locked, shuffle
  <2> QED
    BY <2>1, <2>2, MutexGoto
<1>3. CASE SortAndLock(t)
  BY <1>3, MutexTake DEF SortAndLock, shuffle
<1>4. CASE PushSlot(t)
  <2>1. /\ pc[t] \in Locked /\ Goto(t, "pushing") /\ Slot(t, beforeShuffle)
        /\ UNCHANGED <<mutex, outputVec, beforeShuffle>>
    BY <1>4 DEF PushSlot, shuffle, Locked
  <2> QED
    BY <2>1, MutexHeld
<1>5. CASE PushAndUnlock(t)
  <2>1. /\ pc[t] \in Locked /\ Goto(t, "barrier1") /\ "barrier1" \notin Locked
        /\ mutex' = NoThread /\ UNCHANGED slot
    BY <1>5 DEF PushAndUnlock, Locked
  <2> QED
    BY <2>1, MutexHeld
<1> QED
  BY <1>1, <1>2, <1>3, <1>4, <1>5

LEMMA MutexReduceActions ==
  ASSUME TypeInv, MutexInv, NEW t \in Threads,
         \/ ReduceStart(t) \/ ReduceClaim(t) \/ ReduceDone(t)
         \/ EmitLock(t) \/ EmitSlot(t) \/ EmitAndUnlock(t) \/ ReduceCount(t)
  PROVE  MutexInv'
<1>1. CASE ReduceStart(t) \/ ReduceCount(t) \/ ReduceDone(t)
  <2>1. PICK label \in {"reduce", "done"} : Goto(t, label)
    BY <1>1 DEF ReduceStart, ReduceCount, ReduceDone
  <2>2. /\ pc[t] \notin Locked /\ label \notin Locked
        /\ UNCHANGED <<mutex, slot, outputVec, beforeShuffle>>
    BY <1>1 DEF ReduceStart, ReduceCount, ReduceDone, Locked, shuffle
  <2> QED
    BY <2>1, <2>2, MutexGoto
<1>2. CASE ReduceClaim(t)
  <2>1. PICK label \in {"done", "reducing"} : Goto(t, label)
    BY <1>2 DEF ReduceClaim
  <2>2. /\ pc[t] \notin Locked /\ label \notin Locked
        /\ UNCHANGED <<mutex, slot, outputVec, beforeShuffle>>
    BY <1>2 DEF ReduceClaim, Locked, shuffle
  <2> QED
    BY <2>1, <2>2, MutexGoto
<1>3. CASE EmitLock(t)
  BY <1>3, MutexTake DEF EmitLock, shuffle
<1>4. CASE EmitSlot(t)
  <2>1. /\ pc[t] \in Locked /\ Goto(t, "emitting") /\ Slot(t, outputVec)
        /\ UNCHANGED <<mutex, outputVec, beforeShuffle>>
    BY <1>4 DEF EmitSlot, shuffle, Locked
  <2> QED
    BY <2>1, MutexHeld
<1>5. CASE EmitAndUnlock(t)
  <2>1. /\ pc[t] \in Locked /\ Goto(t, "reduced") /\ "reduced" \notin Locked
        /\ mutex' = NoThread /\ UNCHANGED slot
    BY <1>5 DEF EmitAndUnlock, Locked
  <2> QED
    BY <2>1, MutexHeld
<1> QED
  BY <1>1, <1>2, <1>3, <1>4, <1>5

LEMMA MutexShuffling ==
  ASSUME TypeInv, MutexInv, NEW t \in Threads, Shuffling(t)
  PROVE  MutexInv'
<1> USE DEF Locked, shuffle
<1>1. CASE ResetState(t, "reset_to_shuffle", "reset_shuffle_claims", SHUFFLE_STAGE, beforeShuffle)
           \/ StartShuffle(t) \/ ShuffleDone(t) \/ StartReduce(t)
  <2>1. PICK label \in {"reset_shuffle_claims", "shuffle", "reset_reduce_claims", "barrier2"} :
          Goto(t, label)
    BY <1>1 DEF ResetState, StartShuffle, ShuffleDone, StartReduce
  <2>2. /\ pc[t] \notin Locked /\ label \notin Locked
        /\ UNCHANGED <<mutex, slot, outputVec, beforeShuffle>>
    BY <1>1 DEF ResetState, StartShuffle, ShuffleDone, StartReduce, ResetClaims
  <2> QED
    BY <2>1, <2>2, MutexGoto
<1>2. CASE ShufflePair(t) \/ EndGroup(t)
  <2>1. Len(beforeShuffle') = Len(beforeShuffle)
    <3>1. CASE ShufflePair(t)
      <4>1. PICK v \in DOMAIN beforeShuffle :
              beforeShuffle' = [beforeShuffle EXCEPT ![v] = Front(@)]
        BY <3>1 DEF ShufflePair
      <4> QED
        BY <4>1 DEF TypeInv
    <3>2. CASE EndGroup(t)
      BY <3>2 DEF EndGroup
    <3> QED
      BY <1>2, <3>1, <3>2
  <2> QED
    BY <1>2, <2>1 DEF ShufflePair, EndGroup, locals, MutexInv
<1> QED
  BY <1>1, <1>2 DEF Shuffling

LEMMA MutexBarrier ==
  ASSUME TypeInv, ControlInv, MutexInv, NEW t \in Threads, BarrierStep(t)
  PROVE  MutexInv'
<1>1. UNCHANGED <<mutex, slot, outputVec, beforeShuffle>> /\ pc[t] \notin Locked
  BY DEF BarrierStep, shuffle, Locked
<1>2. CASE pc' = pc
  BY <1>1, <1>2 DEF MutexInv
<1>3. CASE pc' # pc
  <2>1. PICK label \in {"reset_to_shuffle", "barrier2", "reduce_start"} : Goto(t, label)
    BY <1>3, ControlBarrier
  <2>2. label \notin Locked
    BY DEF Locked
  <2> QED
    BY <1>1, <2>1, <2>2, MutexGoto
<1> QED
  BY <1>2, <1>3

LEMMA MutexClient ==
  ASSUME MutexInv, Client
  PROVE  MutexInv'
BY DEF Client, CreateThread, getJobState, waitForJob, Joined, closeJobHandle, jobVars, locals,
   shuffle, MutexInv

-----------------------------------------------------------------------------
(* The map stage. *)

LEMMA MappedFacts ==
  ASSUME TypeInv
  PROVE  /\ Mapped \subseteq DOMAIN inputVec /\ IsFiniteSet(Mapped)
         /\ Cardinality(Mapped) \in Nat /\ Cardinality(Mapped) <= Len(inputVec)
         /\ Cardinality(Mapped) = Len(inputVec) => Mapped = DOMAIN inputVec
<1>1. Mapped \in SUBSET DOMAIN inputVec
  BY DEF Mapped
<1>2. DOMAIN inputVec = 1..Len(inputVec) /\ Len(inputVec) \in Nat
  BY InputFacts DEF TypeInv
<1>3. IsFiniteSet(DOMAIN inputVec) /\ Cardinality(DOMAIN inputVec) = Len(inputVec)
  <2> DEFINE k == Len(inputVec)
  <2>1. k \in Nat
    BY <1>2
  <2> HIDE DEF k
  <2>2. IsFiniteSet(1..k) /\ Cardinality(1..k) = k
    BY <2>1, FS_Interval
  <2> QED
    BY <1>2, <2>2 DEF k
<1> QED
  BY <1>1, <1>3, FS_Subset, FS_CardinalityType

\* Neither MapClaim nor MapItem.
LEMMA QuietMap ==
  ASSUME TypeInv, MapInv, NEW t \in Threads, NEW label \in MapWork \ {"start", "mapping"},
         Goto(t, label), pc[t] \in MapWork \ {"mapping"},
         UNCHANGED <<inputVec, progress, intermediateVec, shuffle, outputVec, old_val>>,
         label = "map" => Load(t), label # "map" => x' = x,
         label # "map" => \/ atomic_next_to_process >= Len(inputVec)
                          \/ atomic_state.count >= atomic_state.total,
         label \in {"push", "pushing"} => Sorted(intermediateVec[t])
  PROVE  MapInv'
<1> USE DEF progress, shuffle
<1>1. pc'[t] = label /\ \A u \in Threads : u # t => pc'[u] = pc[u]
  BY DEF Goto, TypeInv
<1>2. Mapped' = Mapped
  <2>1. \A u \in Threads : pc'[u] = "mapping" <=> pc[u] = "mapping"
    BY <1>1
  <2> QED
    BY <2>1 DEF Mapped
<1>3. Pushed' = Pushed
  BY <1>1 DEF Pushed
<1>4. Pairs' = Pairs
  BY SameInput
<1>5. ClaimInv'
  <2>1. \A u \in Threads : pc'[u] \in {"map", "mapping"} =>
          x'[u].total = atomic_state.total /\ x'[u].count <= atomic_state.count
    <3>1. ASSUME label = "map"
          PROVE  x'[t].total = atomic_state.total /\ x'[t].count <= atomic_state.count
      BY <3>1 DEF Load, TypeInv, Progress
    <3>2. ASSUME NEW u \in Threads, u # t PROVE x'[u] = x[u]
      BY <3>2 DEF Load, TypeInv
    <3> QED
      BY <1>1, <3>1, <3>2 DEF MapInv, ClaimInv
  <2>2. \A u \in Threads : pc'[u] \notin {"start", "map", "mapping"} =>
          atomic_next_to_process >= Len(inputVec) \/ atomic_state.count >= atomic_state.total
    BY <1>1 DEF MapInv, ClaimInv
  <2>3. \A u \in Threads : pc'[u] = "mapping" => pc[u] = "mapping"
    BY <1>1
  <2> QED
    BY <1>2, <2>1, <2>2, <2>3 DEF MapInv, ClaimInv
<1>6. VectorInv'
  <2>1. \A u \in Threads : pc'[u] \notin {"start", "map", "mapping", "sort"} =>
          Sorted(intermediateVec[u])
    BY <1>1 DEF MapInv, VectorInv, MapWork
  <2> QED
    BY <1>2, <1>4, <2>1 DEF MapInv, VectorInv
<1>7. PushInv'
  BY <1>3 DEF MapInv, PushInv
<1> QED
  BY <1>5, <1>6, <1>7 DEF MapInv

LEMMA MapStartInv ==
  ASSUME TypeInv, MapInv, NEW t \in Threads, MapStart(t)
  PROVE  MapInv'
BY QuietMap DEF MapStart, MapWork, inputs

LEMMA MapDoneInv ==
  ASSUME TypeInv, MapInv, NEW t \in Threads, MapDone(t)
  PROVE  MapInv'
<1>1. atomic_state.count >= atomic_state.total
  <2>1. x[t].total = atomic_state.total /\ x[t].count <= atomic_state.count
    BY DEF MapInv, ClaimInv, MapDone
  <2>2. ~(x[t].count < x[t].total)
    BY DEF MapDone, Unfinished
  <2>3. x[t].count \in Nat /\ x[t].total \in Nat
    BY DEF TypeInv, Progress
  <2>4. atomic_state.count \in Nat
    BY DEF TypeInv, Progress
  <2> QED
    BY <2>1, <2>2, <2>3, <2>4
<1> QED
  BY <1>1, QuietMap DEF MapDone, MapWork, inputs

LEMMA PushSlotInv ==
  ASSUME TypeInv, MapInv, NEW t \in Threads, PushSlot(t)
  PROVE  MapInv'
<1>1. Sorted(intermediateVec[t])
  BY DEF PushSlot, MapInv, VectorInv
<1>2. \/ atomic_next_to_process >= Len(inputVec)
      \/ atomic_state.count >= atomic_state.total
  BY DEF PushSlot, MapInv, ClaimInv
<1> QED
  BY <1>1, <1>2, QuietMap DEF PushSlot, MapWork, inputs

LEMMA MapClaimInv ==
  ASSUME TypeInv, MapInv, NEW t \in Threads, MapClaim(t)
  PROVE  MapInv'
<1> USE DEF inputs, shuffle
<1> DEFINE n == atomic_next_to_process
           label == IF n >= Len(inputVec) THEN "sort" ELSE "mapping"
<1>1. /\ pc[t] = "map" /\ pc'[t] = label /\ \A u \in Threads : u # t => pc'[u] = pc[u]
      /\ old_val'[t] = n /\ \A u \in Threads : u # t => old_val'[u] = old_val[u]
      /\ n \in Nat /\ atomic_next_to_process' = n + 1 /\ Len(inputVec) \in Nat
      /\ UNCHANGED <<inputVec, atomic_state, intermediateVec, shuffle, outputVec, x>>
  BY InputFacts DEF MapClaim, Claim, Goto, TypeInv
<1> HIDE DEF n
<1>2. \A u \in Threads : pc[u] = "mapping" =>
        old_val[u] \in Nat /\ old_val[u] < n /\ old_val[u] < Len(inputVec)
  BY DEF MapInv, ClaimInv, TypeInv, n
<1>3. Mapped' = Mapped
  <2>1. ASSUME NEW i \in DOMAIN inputVec
        PROVE  (/\ i <= n + 1
                /\ \A u \in Threads : pc'[u] = "mapping" => old_val'[u] + 1 # i)
               <=>
               (/\ i <= n
                /\ \A u \in Threads : pc[u] = "mapping" => old_val[u] + 1 # i)
    <3>1. i \in 1..Len(inputVec)
      BY InputFacts DEF TypeInv
    <3>2. CASE n >= Len(inputVec)
      <4>1. \A u \in Threads : pc'[u] = "mapping" <=> pc[u] = "mapping" /\ u # t
        BY <1>1, <3>2
      <4>2. i <= n /\ i <= n + 1
        BY <1>1, <3>1, <3>2
      <4> QED
        BY <1>1, <4>1, <4>2
    <3>3. CASE n < Len(inputVec) /\ i = n + 1
      <4>1. pc'[t] = "mapping" /\ old_val'[t] + 1 = i /\ ~(i <= n)
        BY <1>1, <3>3
      <4> QED
        BY <4>1
    <3>4. CASE n < Len(inputVec) /\ i # n + 1
      <4>1. pc'[t] = "mapping" /\ old_val'[t] + 1 # i /\ (i <= n <=> i <= n + 1)
        BY <1>1, <3>1, <3>4
      <4> QED
        BY <1>1, <4>1
    <3> QED
      BY <1>1, <3>2, <3>3, <3>4
  <2> QED
    BY <1>1, <2>1 DEF Mapped, n
<1>4. Pushed' = Pushed
  BY <1>1 DEF Pushed, MapWork
<1>5. Pairs' = Pairs
  BY <1>1, SameInput
<1>6. ClaimInv'
  <2>1. \A u \in Threads : pc'[u] = "mapping" => old_val'[u] < n + 1 /\ old_val'[u] < Len(inputVec)
    BY <1>1, <1>2
  <2>2. ASSUME NEW u \in Threads, NEW w \in Threads, pc'[u] = "mapping", pc'[w] = "mapping",
               old_val'[u] = old_val'[w]
        PROVE  u = w
    <3>1. CASE u # t /\ w # t
      BY <1>1, <2>2, <3>1 DEF MapInv, ClaimInv
    <3>2. CASE u = t \/ w = t
      BY <1>1, <1>2, <2>2, <3>2
    <3> QED
      BY <3>1, <3>2
  <2>3. \A u \in Threads : pc'[u] \in {"map", "mapping"} => pc[u] \in {"map", "mapping"}
    BY <1>1
  <2>4. ASSUME NEW u \in Threads, pc'[u] \notin {"start", "map", "mapping"}
        PROVE  n + 1 >= Len(inputVec) \/ atomic_state.count >= atomic_state.total
    <3>1. CASE u = t
      BY <1>1, <2>4, <3>1
    <3>2. CASE u # t
      <4>1. n >= Len(inputVec) \/ atomic_state.count >= atomic_state.total
        BY <1>1, <2>4, <3>2 DEF MapInv, ClaimInv, n
      <4> QED
        BY <1>1, <4>1
    <3> QED
      BY <3>1, <3>2
  <2> QED
    BY <1>1, <1>3, <2>1, <2>2, <2>3, <2>4 DEF MapInv, ClaimInv
<1>7. VectorInv'
  <2>1. \A u \in Threads : pc'[u] \notin {"start", "map", "mapping", "sort"} => pc'[u] = pc[u]
    BY <1>1
  <2> QED
    BY <1>1, <1>3, <1>5, <2>1 DEF MapInv, VectorInv
<1>8. PushInv'
  BY <1>1, <1>4 DEF MapInv, PushInv
<1> QED
  BY <1>6, <1>7, <1>8 DEF MapInv

LEMMA MapItemInv ==
  ASSUME TypeInv, TypeInv', MapInv, NEW t \in Threads, MapItem(t)
  PROVE  MapInv'
<1> USE DEF inputs, shuffle
<1> DEFINE i == old_val[t] + 1
           e == intermediateVec[t] \o Emitted(t)
<1>1. /\ pc[t] = "mapping" /\ pc'[t] = "map" /\ \A u \in Threads : u # t => pc'[u] = pc[u]
      /\ intermediateVec' = [intermediateVec EXCEPT ![t] = e]
      /\ x'[t] = atomic_state /\ \A u \in Threads : u # t => x'[u] = x[u]
      /\ UNCHANGED <<inputVec, atomic_next_to_process, shuffle, outputVec, old_val>>
  BY DEF MapItem, FetchAdd, Load, Goto, TypeInv
<1>2. /\ atomic_state'.total = atomic_state.total
      /\ atomic_state'.count = atomic_state.count + 1
      /\ atomic_state.total \in Nat /\ atomic_state.count \in Nat
  BY DEF MapItem, FetchAdd, Add, TypeInv, Progress
<1>3. /\ old_val[t] \in Nat /\ old_val[t] < atomic_next_to_process
      /\ old_val[t] < Len(inputVec) /\ atomic_next_to_process \in Nat
      /\ Len(inputVec) \in Nat
  BY <1>1, InputFacts DEF MapInv, ClaimInv, TypeInv
<1>4. i \in DOMAIN inputVec /\ i <= atomic_next_to_process
  <2>1. DOMAIN inputVec = 1..Len(inputVec)
    BY InputFacts DEF TypeInv
  <2>2. i \in 1..Len(inputVec) /\ i <= atomic_next_to_process
    BY <1>3
  <2> QED
    BY <2>1, <2>2
<1>5. i \notin Mapped
  BY <1>1 DEF Mapped
<1>6. \A u \in Threads : u # t /\ pc[u] = "mapping" => old_val[u] + 1 # i
  <2>1. ASSUME NEW u \in Threads, u # t, pc[u] = "mapping"
        PROVE  old_val[u] # old_val[t] /\ old_val[u] \in Nat
    BY <1>1, <2>1 DEF MapInv, ClaimInv, TypeInv
  <2>2. ASSUME NEW u \in Threads, u # t, pc[u] = "mapping"
        PROVE  old_val[u] + 1 # old_val[t] + 1
    BY <1>3, <2>1, <2>2
  <2> QED
    BY <2>2
<1>7. Mapped' = Mapped \cup {i}
  <2>1. i \in Mapped'
    BY <1>1, <1>4, <1>6 DEF Mapped
  <2>2. \A j \in DOMAIN inputVec \ {i} : j \in Mapped' <=> j \in Mapped
    BY <1>1 DEF Mapped
  <2>3. Mapped \subseteq DOMAIN inputVec /\ Mapped' \subseteq DOMAIN inputVec
    BY <1>1 DEF Mapped
  <2> QED
    BY <2>1, <2>2, <2>3
<1> HIDE DEF i, e
<1>8. Cardinality(Mapped') = Cardinality(Mapped) + 1
  BY <1>5, <1>7, MappedFacts, FS_AddElement
<1>9. Pushed' = Pushed /\ t \notin Pushed
  BY <1>1 DEF Pushed, MapWork
<1>10. Pairs' = Pairs
  BY <1>1, SameInput
<1>11. ClaimInv'
  <2>1. \A u \in Threads : pc'[u] = "mapping" => pc[u] = "mapping"
    BY <1>1
  <2>2. ASSUME NEW u \in Threads, pc'[u] \in {"map", "mapping"}
        PROVE  x'[u].total = atomic_state'.total /\ x'[u].count <= atomic_state'.count
    <3>1. CASE u = t
      BY <1>1, <1>2, <3>1
    <3>2. CASE u # t
      <4>1. x[u].total = atomic_state.total /\ x[u].count <= atomic_state.count
        BY <1>1, <2>2, <3>2 DEF MapInv, ClaimInv
      <4>2. x[u].count \in Nat
        BY DEF TypeInv, Progress
      <4> QED
        BY <1>1, <1>2, <3>2, <4>1, <4>2
    <3> QED
      BY <3>1, <3>2
  <2>3. ASSUME NEW u \in Threads, pc'[u] \notin {"start", "map", "mapping"}
        PROVE  \/ atomic_next_to_process >= Len(inputVec)
               \/ atomic_state'.count >= atomic_state'.total
    <3>1. u # t /\ pc[u] \notin {"start", "map", "mapping"}
      BY <1>1, <2>3
    <3>2. \/ atomic_next_to_process >= Len(inputVec)
          \/ atomic_state.count >= atomic_state.total
      BY <3>1 DEF MapInv, ClaimInv
    <3> QED
      BY <1>2, <3>2
  <2> QED
    BY <1>1, <1>2, <1>8, <2>1, <2>2, <2>3 DEF MapInv, ClaimInv
<1>12. /\ e \in Seq(Pairs) /\ IsInjective(e)
       /\ Range(e) = Range(intermediateVec[t]) \cup {p \in Pairs : p.item = i}
       /\ Elements(intermediateVec) \cap {p \in Pairs : p.item = i} = {}
  <2>1. /\ Emitted(t) \in Seq(Pairs) /\ IsInjective(Emitted(t))
        /\ Range(Emitted(t)) = {p \in Pairs : p.item = i}
    BY <1>3, EmittedPairs DEF TypeInv, i
  <2>2. intermediateVec[t] \in Seq(Pairs) /\ DOMAIN intermediateVec = Threads
    BY DEF TypeInv
  <2>3. IsInjective(intermediateVec[t]) /\ Range(intermediateVec[t]) \subseteq Elements(intermediateVec)
    BY <2>2, NoneTwiceParts DEF MapInv, VectorInv, Elements
  <2>4. Elements(intermediateVec) \cap {p \in Pairs : p.item = i} = {}
    BY <1>5 DEF MapInv, VectorInv
  <2>5. Range(intermediateVec[t]) \cap Range(Emitted(t)) = {}
    BY <2>1, <2>3, <2>4
  <2> QED
    BY <2>1, <2>2, <2>3, <2>4, <2>5, ConcatElements DEF e
<1>13. VectorInv'
  <2>1. t \in DOMAIN intermediateVec /\ DOMAIN intermediateVec = Threads
    BY DEF TypeInv
  <2>2. /\ UNION {Range(intermediateVec[u]) : u \in DOMAIN intermediateVec \ {t}}
             = Elements(intermediateVec) \ Range(intermediateVec[t])
        /\ \A u \in DOMAIN intermediateVec \ {t} :
             Range(intermediateVec[u]) \cap Range(intermediateVec[t]) = {}
    BY <2>1, WithoutVector, NoneTwiceParts DEF MapInv, VectorInv
  <2>3. \A u \in DOMAIN intermediateVec \ {t} : Range(intermediateVec[u]) \cap Range(e) = {}
    BY <1>12, <2>2 DEF Elements
  <2>4. /\ NoneTwice(intermediateVec')
        /\ Elements(intermediateVec')
             = Range(e) \cup UNION {Range(intermediateVec[u]) : u \in DOMAIN intermediateVec \ {t}}
        /\ \A u \in Threads : u # t => intermediateVec'[u] = intermediateVec[u]
    BY <1>1, <1>12, <2>1, <2>3, ReplaceVector DEF MapInv, VectorInv
  <2>5. Range(intermediateVec[t]) \subseteq Elements(intermediateVec)
    BY <2>1 DEF Elements
  <2>6. Elements(intermediateVec') = Elements(intermediateVec) \cup {p \in Pairs : p.item = i}
    BY <1>12, <2>2, <2>4, <2>5
  <2>7. Elements(intermediateVec') = {p \in Pairs' : p.item \in Mapped'}
    BY <1>7, <1>10, <2>6 DEF MapInv, VectorInv
  <2>8. \A u \in Threads : pc'[u] \notin {"start", "map", "mapping", "sort"} =>
          Sorted(intermediateVec'[u])
    BY <1>1, <2>4 DEF MapInv, VectorInv
  <2> QED
    BY <2>4, <2>7, <2>8 DEF VectorInv
<1>14. PushInv'
  <2>1. \A u \in Pushed : intermediateVec'[u] = intermediateVec[u]
    BY <1>1, <1>9 DEF Pushed, TypeInv
  <2> QED
    BY <1>1, <1>9, <2>1 DEF MapInv, PushInv
<1> QED
  BY <1>11, <1>13, <1>14 DEF MapInv

LEMMA SortAndLockInv ==
  ASSUME TypeInv, MapInv, NEW t \in Threads, SortAndLock(t)
  PROVE  MapInv'
<1> USE DEF inputs, shuffle, progress
<1>1. PICK v \in Sorts(intermediateVec[t]) : intermediateVec' = [intermediateVec EXCEPT ![t] = v]
  BY DEF SortAndLock, SortVector
<1>2. /\ pc[t] = "sort" /\ pc'[t] = "push" /\ \A u \in Threads : u # t => pc'[u] = pc[u]
      /\ UNCHANGED <<inputVec, progress, shuffle, outputVec, x, old_val>>
      /\ t \in DOMAIN intermediateVec /\ DOMAIN intermediateVec = Threads
  BY DEF SortAndLock, Goto, TypeInv
<1>3. Mapped' = Mapped
  <2>1. \A u \in Threads : pc'[u] = "mapping" <=> pc[u] = "mapping"
    BY <1>2
  <2> QED
    BY <1>2, <2>1 DEF Mapped
<1>4. Pushed' = Pushed /\ t \notin Pushed
  BY <1>2 DEF Pushed, MapWork
<1>5. Pairs' = Pairs
  BY <1>2, SameInput
<1>6. ClaimInv'
  <2>1. /\ \A u \in Threads : pc'[u] \in {"map", "mapping"} => pc'[u] = pc[u]
        /\ \A u \in Threads : pc'[u] \notin {"start", "map", "mapping"} =>
             pc[u] \notin {"start", "map", "mapping"}
    BY <1>2
  <2> QED
    BY <1>2, <1>3, <2>1 DEF MapInv, ClaimInv
<1>7. VectorInv'
  <2>1. intermediateVec[t] \in Seq(Pairs) /\ IsInjective(intermediateVec[t])
    BY <1>2, NoneTwiceParts DEF TypeInv, MapInv, VectorInv
  <2>2. Range(v) = Range(intermediateVec[t]) /\ IsInjective(v) /\ Sorted(v)
    BY <2>1, SortPermutes
  <2>3. /\ UNION {Range(intermediateVec[u]) : u \in DOMAIN intermediateVec \ {t}}
             = Elements(intermediateVec) \ Range(intermediateVec[t])
        /\ \A u \in DOMAIN intermediateVec \ {t} : Range(intermediateVec[u]) \cap Range(v) = {}
    BY <1>2, <2>2, WithoutVector, NoneTwiceParts DEF MapInv, VectorInv
  <2>4. /\ NoneTwice(intermediateVec')
        /\ Elements(intermediateVec')
             = Range(v) \cup UNION {Range(intermediateVec[u]) : u \in DOMAIN intermediateVec \ {t}}
        /\ intermediateVec'[t] = v
        /\ \A u \in Threads : u # t => intermediateVec'[u] = intermediateVec[u]
    BY <1>1, <1>2, <2>2, <2>3, ReplaceVector DEF MapInv, VectorInv
  <2>5. Range(intermediateVec[t]) \subseteq Elements(intermediateVec)
    BY <1>2 DEF Elements
  <2>6. Elements(intermediateVec') = Elements(intermediateVec)
    BY <2>2, <2>3, <2>4, <2>5
  <2>7. \A u \in Threads : pc'[u] \notin {"start", "map", "mapping", "sort"} =>
          Sorted(intermediateVec'[u])
    BY <1>2, <2>2, <2>4 DEF MapInv, VectorInv
  <2> QED
    BY <1>3, <1>5, <2>4, <2>6, <2>7 DEF MapInv, VectorInv
<1>8. PushInv'
  <2>1. \A u \in Pushed : intermediateVec'[u] = intermediateVec[u]
    BY <1>1, <1>4 DEF Pushed, TypeInv
  <2> QED
    BY <1>2, <1>4, <2>1 DEF MapInv, PushInv
<1> QED
  BY <1>6, <1>7, <1>8 DEF MapInv

LEMMA PushedFacts ==
  /\ Pushed \subseteq Threads /\ IsFiniteSet(Pushed)
  /\ Cardinality(Pushed) \in Nat /\ Cardinality(Pushed) <= ThreadLevel
<1>1. Pushed \in SUBSET Threads
  BY DEF Pushed
<1> QED
  BY <1>1, ThreadFacts, FS_Subset, FS_CardinalityType

LEMMA PushAndUnlockInv ==
  ASSUME TypeInv, MutexInv, MapInv, NEW t \in Threads, PushAndUnlock(t)
  PROVE  MapInv'
<1> USE DEF inputs, progress
<1>1. beforeShuffle' = Append(beforeShuffle, intermediateVec[t])
  BY PlacedIsAppend DEF PushAndUnlock, MutexInv, TypeInv
<1>2. /\ pc[t] = "pushing" /\ pc'[t] = "barrier1" /\ \A u \in Threads : u # t => pc'[u] = pc[u]
      /\ UNCHANGED <<inputVec, progress, intermediateVec, afterShuffle, temp, outputVec, x, old_val>>
      /\ DOMAIN intermediateVec = Threads
  BY DEF PushAndUnlock, Goto, TypeInv
<1>3. Mapped' = Mapped
  <2>1. \A u \in Threads : pc'[u] = "mapping" <=> pc[u] = "mapping"
    BY <1>2
  <2> QED
    BY <1>2, <2>1 DEF Mapped
<1>4. Pushed' = Pushed \cup {t} /\ t \notin Pushed
  BY <1>2 DEF Pushed, MapWork
<1>5. Pairs' = Pairs
  BY <1>2, SameInput
<1>6. ClaimInv'
  <2>1. /\ \A u \in Threads : pc'[u] \in {"map", "mapping"} => pc'[u] = pc[u]
        /\ \A u \in Threads : pc'[u] \notin {"start", "map", "mapping"} =>
             pc[u] \notin {"start", "map", "mapping"}
    BY <1>2
  <2> QED
    BY <1>2, <1>3, <2>1 DEF MapInv, ClaimInv
<1>7. VectorInv'
  <2>1. \A u \in Threads : pc'[u] \notin {"start", "map", "mapping", "sort"} =>
          pc[u] \notin {"start", "map", "mapping", "sort"}
    BY <1>2
  <2> QED
    BY <1>2, <1>3, <1>5, <2>1 DEF MapInv, VectorInv
<1>8. PushInv'
  <2>1. /\ intermediateVec[t] \in Seq(Pairs) /\ beforeShuffle \in Seq(Seq(Pairs))
        /\ IsInjective(intermediateVec[t]) /\ Sorted(intermediateVec[t])
    BY <1>2, NoneTwiceParts DEF TypeInv, MapInv, VectorInv
  <2>2. \A u \in Pushed : Range(intermediateVec[u]) \cap Range(intermediateVec[t]) = {}
    BY <1>2, <1>4, PushedFacts, NoneTwiceParts DEF MapInv, VectorInv
  <2>3. Elements(beforeShuffle) \cap Range(intermediateVec[t]) = {}
    BY <2>2 DEF MapInv, PushInv
  <2>4. /\ Len(beforeShuffle') = Len(beforeShuffle) + 1
        /\ Elements(beforeShuffle') = Elements(beforeShuffle) \cup Range(intermediateVec[t])
        /\ NoneTwice(beforeShuffle')
    BY <1>1, <2>1, <2>3, AppendVector DEF MapInv, PushInv
  <2>5. \A v \in DOMAIN beforeShuffle' : \/ beforeShuffle'[v] = intermediateVec[t]
                                         \/ v \in DOMAIN beforeShuffle /\ beforeShuffle'[v] = beforeShuffle[v]
    BY <1>1, <2>1, AppendVector
  <2>6. Len(beforeShuffle') = Cardinality(Pushed')
    BY <1>4, <2>4, PushedFacts, FS_AddElement DEF MapInv, PushInv
  <2>7. Elements(beforeShuffle') = UNION {Range(intermediateVec[u]) : u \in Pushed'}
    BY <1>4, <2>4 DEF MapInv, PushInv
  <2>8. \A v \in DOMAIN beforeShuffle' : Sorted(beforeShuffle'[v])
    BY <2>1, <2>5 DEF MapInv, PushInv
  <2> QED
    BY <1>2, <2>4, <2>6, <2>7, <2>8 DEF MapInv, PushInv
<1> QED
  BY <1>6, <1>7, <1>8 DEF MapInv

\* A map step stays in the map stage.
LEMMA StageMapActions ==
  ASSUME TypeInv, TypeInv', ControlInv, MutexInv, StageInv, NEW t \in Threads,
         \/ MapStart(t) \/ MapClaim(t) \/ MapItem(t) \/ MapDone(t)
         \/ SortAndLock(t) \/ PushSlot(t) \/ PushAndUnlock(t)
  PROVE  StageInv' /\ atomic_state'.stage = atomic_state.stage
<1>1. pc[t] \in MapWork
  BY DEF MapStart, MapClaim, MapItem, MapDone, SortAndLock, PushSlot, PushAndUnlock, MapWork
<1>2. MapInv /\ atomic_state.stage = MAP_STAGE
  BY <1>1, InMap DEF StageInv
<1>3. MapInv'
  BY <1>2, MapStartInv, MapClaimInv, MapItemInv, MapDoneInv, SortAndLockInv, PushSlotInv,
     PushAndUnlockInv
<1>4. atomic_state'.stage = atomic_state.stage
  <2>1. CASE MapItem(t)
    BY <2>1 DEF MapItem, FetchAdd, Add, TypeInv, Progress
  <2>2. CASE ~MapItem(t)
    BY <2>2 DEF MapStart, MapClaim, MapDone, SortAndLock, PushSlot, PushAndUnlock, progress
  <2> QED
    BY <2>1, <2>2
<1> QED
  BY <1>2, <1>3, <1>4 DEF StageInv, MAP_STAGE, SHUFFLE_STAGE, REDUCE_STAGE

-----------------------------------------------------------------------------
(* The shuffle stage. *)

LEMMA NothingThere ==
  /\ Elements(<<>>) = {} /\ NoneTwice(<<>>) /\ Range(<<>>) = {} /\ IsInjective(<<>>)
BY DEF Elements, NoneTwice, Range, IsInjective

\* When thread 0 gets to the shuffle all the pairs have been mapped and pushed.
LEMMA AllMapped ==
  ASSUME TypeInv, ControlInv, StageInv, pc[0] = "reset_to_shuffle"
  PROVE  PushInv /\ Elements(beforeShuffle) = Pairs
<1>1. /\ 0 \in Threads /\ atomic_state.stage = MAP_STAGE
      /\ \A u \in Threads : pc[u] \notin MapWork
  BY InShuffle, ThreadFacts DEF ShuffleWork
<1>2. MapInv
  BY <1>1 DEF StageInv
<1>3. Pushed = Threads
  BY <1>1 DEF Pushed
<1>4. Mapped = DOMAIN inputVec
  <2>1. /\ Len(inputVec) \in Nat /\ DOMAIN inputVec = 1..Len(inputVec)
        /\ atomic_next_to_process \in Nat
    BY InputFacts DEF TypeInv
  <2>2. CASE atomic_next_to_process >= Len(inputVec)
    <3>1. \A i \in DOMAIN inputVec : i <= atomic_next_to_process
      BY <2>1, <2>2
    <3>2. \A u \in Threads : pc[u] # "mapping"
      BY <1>1 DEF MapWork
    <3> QED
      BY <3>1, <3>2 DEF Mapped
  <2>3. CASE atomic_state.count >= atomic_state.total
    <3>1. Cardinality(Mapped) >= Len(inputVec)
      BY <1>2, <2>3 DEF MapInv, ClaimInv
    <3> QED
      BY <2>1, <3>1, MappedFacts
  <2> QED
    BY <1>1, <1>2, <2>2, <2>3 DEF MapInv, ClaimInv
<1>5. Elements(intermediateVec) = Pairs
  <2>1. \A p \in Pairs : p.item \in Mapped
    BY <1>4, PairFacts DEF TypeInv
  <2> QED
    BY <1>2, <2>1 DEF MapInv, VectorInv
<1>6. Elements(beforeShuffle) = Elements(intermediateVec)
  BY <1>2, <1>3 DEF MapInv, PushInv, Elements, TypeInv
<1> QED
  BY <1>2, <1>5, <1>6 DEF MapInv

LEMMA ResetToShuffleInv ==
  ASSUME TypeInv, TypeInv', ControlInv, StageInv, NEW t \in Threads,
         ResetState(t, "reset_to_shuffle", "reset_shuffle_claims", SHUFFLE_STAGE, beforeShuffle)
  PROVE  StageInv'
<1> USE DEF inputs, shuffle
<1>1. t = 0 /\ pc[0] = "reset_to_shuffle"
  BY InShuffle DEF ResetState, ShuffleWork
<1>2. PushInv /\ Elements(beforeShuffle) = Pairs
  BY <1>1, AllMapped
<1>3. /\ atomic_state'.stage = SHUFFLE_STAGE /\ atomic_state'.count = 0
      /\ atomic_state'.total = count_elements(beforeShuffle)
      /\ pc'[0] = "reset_shuffle_claims"
      /\ UNCHANGED <<inputVec, beforeShuffle, afterShuffle, temp, outputVec>>
  BY <1>1 DEF ResetState, Goto, TypeInv
<1>4. count_elements(beforeShuffle) = Cardinality(Pairs)
  BY <1>2, CountPairs DEF TypeInv, PushInv
<1>5. Pairs' = Pairs
  BY <1>3, SameInput
<1>6. Len(beforeShuffle) <= ThreadLevel
  BY <1>2, PushedFacts DEF PushInv
<1>7. temp = <<>> /\ afterShuffle = <<>> /\ outputVec = <<>> /\ NoneTwice(beforeShuffle)
  BY <1>2 DEF PushInv
<1>8. PlacesInv'
  <2>1. /\ NoneTwice(beforeShuffle)' /\ IsInjective(temp)' /\ NoneTwice(afterShuffle)'
        /\ Elements(beforeShuffle)' = Pairs /\ Range(temp)' = {} /\ Elements(afterShuffle)' = {}
        /\ DOMAIN afterShuffle' = {}
    BY <1>2, <1>3, <1>7, NothingThere
  <2> QED
    BY <1>3, <1>4, <1>5, <1>6, <2>1 DEF PlacesInv
<1>9. ShuffleInv'
  <2>1. Range(temp') \cup Elements(afterShuffle') = {}
    BY <1>3, <1>7, NothingThere
  <2>2. atomic_state'.count = Cardinality(Range(temp') \cup Elements(afterShuffle'))
    BY <1>3, <2>1, FS_EmptySet
  <2>3. \A v \in DOMAIN beforeShuffle' : Sorted(beforeShuffle'[v])
    BY <1>2, <1>3 DEF PushInv
  <2> QED
    BY <1>3, <1>7, <2>2, <2>3 DEF ShuffleInv
<1> QED
  BY <1>3, <1>8, <1>9 DEF StageInv, MAP_STAGE, SHUFFLE_STAGE, REDUCE_STAGE

LEMMA StartShuffleInv ==
  ASSUME TypeInv, TypeInv', ControlInv, StageInv, NEW t \in Threads, StartShuffle(t)
  PROVE  StageInv'
<1> USE DEF inputs
<1>1. t = 0 /\ pc[0] = "reset_shuffle_claims" /\ atomic_state.stage = SHUFFLE_STAGE
  BY InShuffle DEF StartShuffle, ShuffleWork
<1>2. PlacesInv /\ ShuffleInv /\ temp = <<>> /\ afterShuffle = <<>>
  BY <1>1 DEF StageInv, ShuffleInv, MAP_STAGE, SHUFFLE_STAGE
<1>3. /\ pc'[0] = "shuffle" /\ maxKey' = max_key(beforeShuffle)
      /\ UNCHANGED <<inputVec, atomic_state, beforeShuffle, afterShuffle, temp, outputVec>>
  BY <1>1 DEF StartShuffle, ResetClaims, Goto, TypeInv
<1>4. Pairs' = Pairs /\ Groups' = Groups
  BY <1>3, SameInput
<1>5. PlacesInv'
  BY <1>2, <1>3, <1>4 DEF PlacesInv
<1>6. KeyInv'
  <2>1. /\ maxKey' = 0 <=> Elements(beforeShuffle) = {}
        /\ maxKey' # 0 =>
             /\ \A p \in Elements(beforeShuffle) : p.key <= maxKey'
             /\ \E p \in Elements(beforeShuffle) : p.key = maxKey'
    BY <1>2, <1>3, MaxKey, KeysArePositive DEF ShuffleInv, TypeInv
  <2> QED
    BY <1>2, <1>3, <2>1, NothingThere DEF KeyInv
<1>7. ShuffleInv'
  BY <1>2, <1>3, <1>6 DEF ShuffleInv
<1> QED
  BY <1>1, <1>3, <1>5, <1>7 DEF StageInv, MAP_STAGE, SHUFFLE_STAGE, REDUCE_STAGE

LEMMA ShufflePairInv ==
  ASSUME TypeInv, TypeInv', ControlInv, StageInv, NEW t \in Threads, ShufflePair(t)
  PROVE  StageInv'
<1> USE DEF inputs, locals
<1>1. t = 0 /\ pc[0] = "shuffle" /\ atomic_state.stage = SHUFFLE_STAGE
  BY InShuffle DEF ShufflePair, ShuffleWork
<1>2. PlacesInv /\ ShuffleInv /\ KeyInv /\ maxKey # 0
  BY <1>1 DEF StageInv, ShuffleInv, MAP_STAGE, SHUFFLE_STAGE, ShufflePair
<1>3. PICK v \in DOMAIN beforeShuffle :
        /\ beforeShuffle[v] # <<>> /\ Last(beforeShuffle[v]).key = maxKey
        /\ temp' = Append(temp, Last(beforeShuffle[v]))
        /\ beforeShuffle' = [beforeShuffle EXCEPT ![v] = Front(@)]
  BY DEF ShufflePair
<1> DEFINE p == Last(beforeShuffle[v])
           e == Front(beforeShuffle[v])
<1>4. /\ atomic_state'.stage = atomic_state.stage /\ atomic_state'.total = atomic_state.total
      /\ atomic_state'.count = atomic_state.count + 1
      /\ UNCHANGED <<inputVec, afterShuffle, maxKey, outputVec, pc>>
  BY DEF ShufflePair, Add, TypeInv, Progress
<1>5. Pairs' = Pairs /\ Groups' = Groups
  BY <1>4, SameInput
<1>6. /\ beforeShuffle[v] \in Seq(Pairs) /\ Range(beforeShuffle[v]) \subseteq Elements(beforeShuffle)
      /\ IsInjective(beforeShuffle[v]) /\ Sorted(beforeShuffle[v])
  <2>1. beforeShuffle \in Seq(Seq(Pairs))
    BY DEF TypeInv
  <2>2. beforeShuffle[v] \in Seq(Pairs) /\ Range(beforeShuffle[v]) \subseteq Elements(beforeShuffle)
    BY <2>1, ElementsOf
  <2>3. IsInjective(beforeShuffle[v])
    BY <1>2, NoneTwiceParts DEF PlacesInv
  <2>4. Sorted(beforeShuffle[v])
    BY <1>2 DEF ShuffleInv
  <2> QED
    BY <2>2, <2>3, <2>4
<1>7. /\ p \in Range(beforeShuffle[v]) /\ IsInjective(e) /\ Sorted(e)
      /\ Range(e) = Range(beforeShuffle[v]) \ {p}
  BY <1>3, <1>6, DropLast
<1>8. p \in Elements(beforeShuffle) /\ p \in Pairs /\ p.key = maxKey
  <2>1. Elements(beforeShuffle) \subseteq Pairs
    BY ElementsOf DEF TypeInv
  <2> QED
    BY <1>3, <1>6, <1>7, <2>1
<1>9. temp' = Append(temp, p) /\ beforeShuffle' = [beforeShuffle EXCEPT ![v] = e]
  BY <1>3
<1> HIDE DEF p, e
<1>10. /\ Elements(beforeShuffle') = Elements(beforeShuffle) \ {p}
       /\ NoneTwice(beforeShuffle')
       /\ \A w \in DOMAIN beforeShuffle' : Sorted(beforeShuffle'[w])
       /\ Len(beforeShuffle') = Len(beforeShuffle)
  <2>1. /\ UNION {Range(beforeShuffle[w]) : w \in DOMAIN beforeShuffle \ {v}}
             = Elements(beforeShuffle) \ Range(beforeShuffle[v])
        /\ \A w \in DOMAIN beforeShuffle \ {v} :
             Range(beforeShuffle[w]) \cap Range(beforeShuffle[v]) = {}
    BY <1>2, WithoutVector, NoneTwiceParts DEF PlacesInv
  <2>2. \A w \in DOMAIN beforeShuffle \ {v} : Range(beforeShuffle[w]) \cap Range(e) = {}
    BY <1>7, <2>1
  <2>3. /\ DOMAIN beforeShuffle' = DOMAIN beforeShuffle
        /\ beforeShuffle'[v] = e
        /\ \A w \in DOMAIN beforeShuffle \ {v} : beforeShuffle'[w] = beforeShuffle[w]
        /\ Elements(beforeShuffle')
             = Range(e) \cup UNION {Range(beforeShuffle[w]) : w \in DOMAIN beforeShuffle \ {v}}
        /\ NoneTwice(beforeShuffle')
    BY <1>2, <1>7, <1>9, <2>2, ReplaceVector DEF PlacesInv
  <2>4. Elements(beforeShuffle') = Elements(beforeShuffle) \ {p}
    BY <1>6, <1>7, <2>1, <2>3
  <2>5. \A w \in DOMAIN beforeShuffle' : Sorted(beforeShuffle'[w])
    BY <1>2, <1>7, <2>3 DEF ShuffleInv
  <2>6. Len(beforeShuffle') = Len(beforeShuffle)
    <3>1. beforeShuffle \in Seq(Seq(Pairs))
      BY DEF TypeInv
    <3> QED
      BY <1>9, <3>1, SameLength
  <2> QED
    BY <2>3, <2>4, <2>5, <2>6
<1>11. Range(temp') = Range(temp) \cup {p} /\ IsInjective(temp')
  <2>1. p \notin Range(temp)
    BY <1>2, <1>8 DEF PlacesInv
  <2>2. temp \in Seq(Pairs) /\ IsInjective(temp)
    BY <1>2 DEF PlacesInv, TypeInv
  <2> QED
    BY <1>8, <1>9, <2>1, <2>2, AppendElement
<1>12. p \notin Elements(afterShuffle) /\ p \notin Range(temp)
  BY <1>2, <1>8 DEF PlacesInv
<1>13. PlacesInv'
  <2>1. /\ Elements(beforeShuffle') \cap Range(temp') = {}
        /\ Elements(beforeShuffle') \cap Elements(afterShuffle) = {}
        /\ Range(temp') \cap Elements(afterShuffle) = {}
        /\ Elements(beforeShuffle') \cup Range(temp') \cup Elements(afterShuffle) = Pairs
    BY <1>2, <1>8, <1>10, <1>11, <1>12 DEF PlacesInv
  <2> QED
    BY <1>2, <1>4, <1>5, <1>10, <1>11, <2>1 DEF PlacesInv
<1>14. KeyInv'
  BY <1>2, <1>4, <1>8, <1>10, <1>11 DEF KeyInv
<1>15. ShuffleInv'
  <2>1. Range(temp') \cup Elements(afterShuffle) = (Range(temp) \cup Elements(afterShuffle)) \cup {p}
    BY <1>11
  <2>2. IsFiniteSet(Range(temp) \cup Elements(afterShuffle))
    <3>1. Range(temp) \cup Elements(afterShuffle) \in SUBSET Pairs
      BY ElementsOf, RangeIsImage DEF TypeInv
    <3> QED
      BY <3>1, PairsFinite, FS_Subset DEF TypeInv
  <2>3. Cardinality(Range(temp') \cup Elements(afterShuffle)) = atomic_state.count + 1
    BY <1>2, <1>12, <2>1, <2>2, FS_AddElement DEF ShuffleInv
  <2> QED
    BY <1>1, <1>2, <1>4, <1>10, <1>14, <2>3 DEF ShuffleInv
<1> QED
  BY <1>1, <1>4, <1>13, <1>15 DEF StageInv, MAP_STAGE, SHUFFLE_STAGE, REDUCE_STAGE

\* When no vector ends with the key, no vector holds it.
LEMMA NoMoreOfKey ==
  ASSUME TypeInv, KeyInv, maxKey # 0, \A v \in DOMAIN beforeShuffle : Sorted(beforeShuffle[v]),
         \A v \in DOMAIN beforeShuffle :
           beforeShuffle[v] # <<>> => Last(beforeShuffle[v]).key # maxKey
  PROVE  \A p \in Elements(beforeShuffle) : p.key < maxKey
<1> SUFFICES ASSUME NEW v \in DOMAIN beforeShuffle, NEW p \in Range(beforeShuffle[v])
             PROVE  p.key < maxKey
  BY DEF Elements
<1>1. beforeShuffle[v] \in Seq(Pairs) /\ beforeShuffle[v] # <<>> /\ Sorted(beforeShuffle[v])
  BY NothingThere DEF TypeInv
<1>2. \A q \in Pairs : q.key \in Nat
  BY KeysArePositive
<1>3. /\ Last(beforeShuffle[v]) \in Range(beforeShuffle[v])
      /\ p.key <= Last(beforeShuffle[v]).key
  BY <1>1, <1>2, SortedLast
<1>4. Last(beforeShuffle[v]).key <= maxKey /\ Last(beforeShuffle[v]).key # maxKey
  BY <1>1, <1>3 DEF KeyInv, Elements
<1>5. p.key \in Nat /\ Last(beforeShuffle[v]).key \in Nat /\ maxKey \in Nat
  BY <1>1, <1>2, <1>3, RangeIsImage DEF TypeInv
<1> QED
  BY <1>3, <1>4, <1>5

LEMMA EndGroupInv ==
  ASSUME TypeInv, TypeInv', ControlInv, StageInv, NEW t \in Threads, EndGroup(t)
  PROVE  StageInv'
<1> USE DEF inputs, progress
<1>1. t = 0 /\ pc[0] = "shuffle" /\ atomic_state.stage = SHUFFLE_STAGE
  BY InShuffle DEF EndGroup, ShuffleWork
<1>2. PlacesInv /\ ShuffleInv /\ KeyInv /\ maxKey # 0
  BY <1>1 DEF StageInv, ShuffleInv, MAP_STAGE, SHUFFLE_STAGE, EndGroup
<1>3. /\ afterShuffle' = Append(afterShuffle, temp) /\ temp' = <<>>
      /\ maxKey' = max_key(beforeShuffle)
      /\ UNCHANGED <<inputVec, atomic_state, beforeShuffle, outputVec, pc>>
  BY DEF EndGroup
<1>4. Pairs' = Pairs /\ Groups' = Groups
  BY <1>3, SameInput
<1>5. \A p \in Elements(beforeShuffle) : p.key < maxKey
  BY <1>2, NoMoreOfKey DEF EndGroup, ShuffleInv
<1>6. Elements(beforeShuffle) \subseteq Pairs /\ Range(temp) \subseteq Pairs
      /\ Elements(afterShuffle) \subseteq Pairs
  BY <1>2 DEF PlacesInv
<1>7. \A p \in Pairs : p.key \in Nat
  BY KeysArePositive
<1>8. Range(temp) \in Groups
  <2>1. PICK p \in Range(temp) : p.key = maxKey
    <3>1. PICK q \in Elements(beforeShuffle) \cup Range(temp) : q.key = maxKey
      BY <1>2 DEF KeyInv
    <3>2. q \notin Elements(beforeShuffle)
      BY <1>5, <1>6, <1>7, <3>1
    <3> QED
      BY <3>1, <3>2
  <2>2. \A q \in Pairs : q.key = maxKey => q \in Range(temp)
    <3> SUFFICES ASSUME NEW q \in Pairs, q.key = maxKey, q \notin Range(temp) PROVE FALSE
      OBVIOUS
    <3>1. q \in Elements(beforeShuffle) \/ q \in Elements(afterShuffle)
      BY <1>2 DEF PlacesInv
    <3>2. q.key < maxKey \/ maxKey < q.key
      BY <1>2, <1>5, <3>1 DEF KeyInv
    <3> QED
      BY <1>7, <3>2
  <2>3. Range(temp) = {q \in Pairs : q.key = p.key}
    BY <1>2, <1>6, <2>1, <2>2 DEF KeyInv
  <2> QED
    BY <1>6, <2>1, <2>3, GroupExists
<1>9. /\ Elements(afterShuffle') = Elements(afterShuffle) \cup Range(temp)
      /\ NoneTwice(afterShuffle')
      /\ \A g \in DOMAIN afterShuffle' : Range(afterShuffle'[g]) \in Groups
  <2>1. Elements(afterShuffle) \cap Range(temp) = {}
    BY <1>2 DEF PlacesInv
  <2>2. /\ Elements(afterShuffle') = Elements(afterShuffle) \cup Range(temp)
        /\ NoneTwice(afterShuffle')
        /\ \A g \in DOMAIN afterShuffle' :
             \/ afterShuffle'[g] = temp
             \/ g \in DOMAIN afterShuffle /\ afterShuffle'[g] = afterShuffle[g]
    <3>1. /\ NoneTwice(afterShuffle) /\ IsInjective(temp)
          /\ afterShuffle \in Seq(Seq(Pairs)) /\ temp \in Seq(Pairs)
      BY <1>2 DEF PlacesInv, TypeInv
    <3> QED
      BY <1>3, <2>1, <3>1, AppendVector
  <2> QED
    BY <1>2, <1>8, <2>2 DEF PlacesInv
<1>10. PlacesInv'
  <2>1. Range(temp') = {} /\ IsInjective(temp')
    BY <1>3, NothingThere
  <2>2. /\ Elements(beforeShuffle) \cap Elements(afterShuffle') = {}
        /\ Elements(beforeShuffle) \cup {} \cup Elements(afterShuffle') = Pairs
    BY <1>2, <1>9 DEF PlacesInv
  <2> QED
    BY <1>2, <1>3, <1>4, <1>9, <2>1, <2>2 DEF PlacesInv
<1>11. KeyInv'
  <2>1. /\ maxKey' \in Nat
        /\ maxKey' = 0 <=> Elements(beforeShuffle) = {}
        /\ maxKey' # 0 =>
             /\ \A p \in Elements(beforeShuffle) : p.key <= maxKey'
             /\ \E p \in Elements(beforeShuffle) : p.key = maxKey'
    BY <1>2, <1>3, MaxKey, KeysArePositive DEF ShuffleInv, TypeInv
  <2>2. ASSUME maxKey' # 0, NEW p \in Elements(afterShuffle') PROVE maxKey' < p.key
    <3>1. maxKey' < maxKey
      BY <1>5, <2>1, <2>2
    <3>2. p \in Elements(afterShuffle) \cup Range(temp) /\ p \in Pairs
      BY <1>6, <1>9
    <3>3. maxKey < p.key \/ maxKey = p.key
      BY <1>2, <3>2 DEF KeyInv
    <3>4. p.key \in Nat /\ maxKey \in Nat
      BY <1>7, <3>2 DEF TypeInv
    <3> QED
      BY <2>1, <3>1, <3>3, <3>4
  <2> QED
    BY <1>3, <2>1, <2>2, NothingThere DEF KeyInv
<1>12. ShuffleInv'
  <2>1. Range(temp') \cup Elements(afterShuffle') = Range(temp) \cup Elements(afterShuffle)
    BY <1>3, <1>9, NothingThere
  <2> QED
    BY <1>1, <1>2, <1>3, <1>11, <2>1 DEF ShuffleInv
<1> QED
  BY <1>1, <1>3, <1>10, <1>12 DEF StageInv, MAP_STAGE, SHUFFLE_STAGE, REDUCE_STAGE

-----------------------------------------------------------------------------
(* The reduce stage. *)

\* A step that neither claims, emits nor counts a group.
LEMMA QuietReduce ==
  ASSUME TypeInv, ReduceInv, NEW t \in Threads, NEW label, Goto(t, label), Claims' = Claims,
         UNCHANGED <<inputVec, atomic_state, beforeShuffle, afterShuffle, temp, outputVec, old_val>>,
         pc[t] \in Reducing <=> label \in Reducing, pc[t] # "reduced", label # "reduced",
         \A u \in Threads : u # t => x'[u] = x[u],
         label \in {"reduce"} \cup Reducing =>
           x'[t].total = atomic_state.total /\ x'[t].count <= atomic_state.count,
         label = "done" =>
           Claims >= Len(afterShuffle) \/ atomic_state.count >= atomic_state.total
  PROVE  ReduceInv'
<1>1. pc'[t] = label /\ \A u \in Threads : u # t => pc'[u] = pc[u]
  BY DEF Goto, TypeInv
<1>2. \A u \in Threads : /\ pc'[u] \in Reducing <=> pc[u] \in Reducing
                         /\ pc'[u] = "reduced" <=> pc[u] = "reduced"
  BY <1>1
<1>3. EmittedGroups' = EmittedGroups /\ FinishedGroups' = FinishedGroups
  BY <1>2 DEF EmittedGroups, FinishedGroups, ClaimedGroups
<1>4. PairsIn(FinishedGroups)' = PairsIn(FinishedGroups)
  BY <1>3 DEF PairsIn
<1>5. \A u \in Threads : pc'[u] \in {"reduce", "reduced"} \cup Reducing =>
        x'[u].total = atomic_state.total /\ x'[u].count <= atomic_state.count
  BY <1>1 DEF ReduceInv
<1>6. \A u \in Threads : pc'[u] = "done" =>
        Claims >= Len(afterShuffle) \/ atomic_state.count >= atomic_state.total
  BY <1>1 DEF ReduceInv
<1> QED
  BY <1>2, <1>3, <1>4, <1>5, <1>6 DEF ReduceInv

LEMMA ShuffleDoneInv ==
  ASSUME TypeInv, TypeInv', ControlInv, StageInv, NEW t \in Threads, ShuffleDone(t)
  PROVE  StageInv'
<1> USE DEF inputs, shuffle
<1>1. t = 0 /\ pc[0] = "shuffle" /\ atomic_state.stage = SHUFFLE_STAGE
      /\ \A u \in Threads : pc[u] \notin ReduceWork
  BY InShuffle DEF ShuffleDone, ResetState, ShuffleWork
<1>2. PlacesInv /\ ShuffleInv /\ KeyInv /\ maxKey = 0
  BY <1>1 DEF StageInv, ShuffleInv, MAP_STAGE, SHUFFLE_STAGE, ShuffleDone
<1>3. /\ atomic_state'.stage = REDUCE_STAGE /\ atomic_state'.count = 0
      /\ atomic_state'.total = count_elements(afterShuffle)
      /\ pc'[0] = "reset_reduce_claims" /\ \A u \in Threads : u # 0 => pc'[u] = pc[u]
      /\ UNCHANGED <<inputVec, beforeShuffle, afterShuffle, temp, outputVec>>
  BY <1>1 DEF ShuffleDone, ResetState, Goto, TypeInv
<1>4. Pairs' = Pairs /\ Groups' = Groups
  BY <1>3, SameInput
<1>5. Elements(beforeShuffle) = {} /\ temp = <<>> /\ outputVec = <<>>
  BY <1>2 DEF KeyInv, ShuffleInv
<1>6. Elements(afterShuffle) = Pairs
  BY <1>2, <1>5, NothingThere DEF PlacesInv
<1>7. count_elements(afterShuffle) = Cardinality(Pairs)
  BY <1>2, <1>6, CountPairs DEF TypeInv, PlacesInv
<1>8. PlacesInv'
  BY <1>2, <1>3, <1>4, <1>7 DEF PlacesInv
<1>9. ReduceInv'
  <2>1. Claims' = 0
    BY <1>3 DEF Claims
  <2>2. ClaimedGroups' = {}
    <3>1. \A g \in DOMAIN afterShuffle : ~(g <= 0)
      <4>1. afterShuffle \in Seq(Seq(Pairs))
        BY DEF TypeInv
      <4>2. DOMAIN afterShuffle = 1 .. Len(afterShuffle) /\ Len(afterShuffle) \in Nat
        BY <4>1
      <4> QED
        BY <4>2
    <3> QED
      BY <1>3, <2>1, <3>1 DEF ClaimedGroups
  <2>3. EmittedGroups' = {} /\ FinishedGroups' = {}
    BY <2>2 DEF EmittedGroups, FinishedGroups
  <2>4. PairsIn(FinishedGroups)' = {}
    BY <2>3 DEF PairsIn
  <2>5. atomic_state'.count = Cardinality(PairsIn(FinishedGroups)')
    BY <1>3, <2>4, FS_EmptySet
  <2>6. Range(outputVec') = {Range(afterShuffle'[g]) : g \in EmittedGroups'}
    BY <1>3, <1>5, <2>3, NothingThere
  <2>7. \A u \in Threads : pc'[u] \notin {"reduce", "reduced", "done"} \cup Reducing
    <3>1. \A u \in Threads : pc'[u] \notin ReduceWork
      BY <1>1, <1>3 DEF ReduceWork
    <3> QED
      BY <3>1 DEF ReduceWork, Reducing
  <2> QED
    BY <1>3, <1>5, <2>5, <2>6, <2>7 DEF ReduceInv
<1> QED
  BY <1>3, <1>8, <1>9 DEF StageInv, MAP_STAGE, SHUFFLE_STAGE, REDUCE_STAGE

LEMMA StartReduceInv ==
  ASSUME TypeInv, TypeInv', ControlInv, StageInv, NEW t \in Threads, StartReduce(t)
  PROVE  StageInv'
<1> USE DEF inputs
<1>1. t = 0 /\ pc[0] = "reset_reduce_claims" /\ atomic_state.stage = REDUCE_STAGE
  BY InShuffle DEF StartReduce, ShuffleWork
<1>2. PlacesInv /\ ReduceInv
  BY <1>1 DEF StageInv, MAP_STAGE, REDUCE_STAGE
<1>3. /\ UNCHANGED <<inputVec, atomic_state, beforeShuffle, afterShuffle, temp, outputVec, old_val, x>>
      /\ Goto(t, "barrier2") /\ atomic_next_to_process' = 0 /\ pc'[0] = "barrier2"
  BY <1>1 DEF StartReduce, ResetClaims, Goto, TypeInv
<1>4. Pairs' = Pairs /\ Groups' = Groups
  BY <1>3, SameInput
<1>5. Claims' = Claims
  BY <1>1, <1>3 DEF Claims
<1>6. ReduceInv'
  BY <1>1, <1>2, <1>3, <1>5, QuietReduce DEF Reducing
<1>7. PlacesInv'
  BY <1>2, <1>3, <1>4 DEF PlacesInv
<1> QED
  BY <1>1, <1>3, <1>6, <1>7 DEF StageInv, MAP_STAGE, SHUFFLE_STAGE, REDUCE_STAGE

LEMMA StageShuffling ==
  ASSUME TypeInv, TypeInv', ControlInv, StageInv, NEW t \in Threads, Shuffling(t)
  PROVE  StageInv'
BY ResetToShuffleInv, StartShuffleInv, ShufflePairInv, EndGroupInv, ShuffleDoneInv,
   StartReduceInv DEF Shuffling

\* A step that changes nothing the stages speak of.
LEMMA StageFrame ==
  ASSUME StageInv,
         UNCHANGED <<inputVec, atomic_state, atomic_next_to_process, intermediateVec,
                     beforeShuffle, afterShuffle, temp, maxKey, outputVec, pc, x, old_val>>
  PROVE  StageInv'
<1>1. Pairs' = Pairs /\ Groups' = Groups
  BY SameInput
<1>2. Mapped' = Mapped /\ Pushed' = Pushed /\ Claims' = Claims
  BY DEF Mapped, Pushed, Claims
<1>3. MapInv => MapInv'
  BY <1>1, <1>2 DEF MapInv, ClaimInv, VectorInv, PushInv
<1>4. PlacesInv => PlacesInv'
  BY <1>1 DEF PlacesInv
<1>5. ShuffleInv => ShuffleInv'
  BY DEF ShuffleInv, KeyInv
<1>6. ReduceInv => ReduceInv'
  <2>1. EmittedGroups' = EmittedGroups /\ FinishedGroups' = FinishedGroups
    BY <1>2 DEF EmittedGroups, FinishedGroups, ClaimedGroups
  <2>2. PairsIn(FinishedGroups)' = PairsIn(FinishedGroups)
    BY <2>1 DEF PairsIn
  <2> QED
    BY <1>2, <2>1, <2>2 DEF ReduceInv
<1> QED
  BY <1>3, <1>4, <1>5, <1>6 DEF StageInv

\* A thread at a barrier: nothing the stages speak of changes.
LEMMA StageBarrier ==
  ASSUME TypeInv, TypeInv', ControlInv, StageInv, NEW t \in Threads, BarrierStep(t)
  PROVE  StageInv'
<1> USE DEF inputs, progress, shuffle
<1>1. /\ UNCHANGED <<inputVec, atomic_state, atomic_next_to_process, intermediateVec,
                     beforeShuffle, afterShuffle, temp, maxKey, outputVec, x, old_val>>
      /\ pc[t] \in AtBarrier
  BY DEF BarrierStep, AtBarrier
<1>2. Pairs' = Pairs /\ Groups' = Groups
  BY <1>1, SameInput
<1>3. CASE pc' = pc
  BY <1>1, <1>3, StageFrame
<1>4. CASE pc' # pc
  <2>1. PICK label \in {"reset_to_shuffle", "barrier2", "reduce_start"} :
          /\ Goto(t, label)
          /\ label = "reset_to_shuffle" => pc[t] = "barrier1" /\ t = 0
    BY <1>4, ControlBarrier
  <2>2. pc'[t] = label /\ \A u \in Threads : u # t => pc'[u] = pc[u]
    BY <2>1 DEF Goto, TypeInv
  <2>3. pc[t] \notin MapWork /\ label \notin MapWork
    BY <1>1 DEF AtBarrier, MapWork
  <2>4. MapInv => MapInv'
    <3>1. \A u \in Threads : /\ pc'[u] = "mapping" <=> pc[u] = "mapping"
                             /\ pc'[u] \in MapWork <=> pc[u] \in MapWork
      BY <2>2, <2>3 DEF MapWork
    <3>2. Mapped' = Mapped /\ Pushed' = Pushed
      BY <1>1, <3>1 DEF Mapped, Pushed
    <3>3. ClaimInv => ClaimInv'
      <4>1. \A u \in Threads : /\ pc'[u] \in {"map", "mapping"} => pc'[u] = pc[u]
                               /\ pc[u] \in {"start", "map", "mapping"} => pc'[u] = pc[u]
        BY <2>2, <2>3 DEF MapWork
      <4> QED
        BY <1>1, <3>1, <3>2, <4>1 DEF ClaimInv
    <3>4. VectorInv => VectorInv'
      <4>1. \A u \in Threads :
              pc[u] \in {"start", "map", "mapping", "sort"} => pc'[u] = pc[u]
        BY <2>2, <2>3 DEF MapWork
      <4> QED
        BY <1>1, <1>2, <3>2, <4>1 DEF VectorInv
    <3>5. PushInv => PushInv'
      BY <1>1, <3>2 DEF PushInv
    <3> QED
      BY <3>3, <3>4, <3>5 DEF MapInv
  <2>5. PlacesInv => PlacesInv'
    BY <1>1, <1>2 DEF PlacesInv
  <2>6. ASSUME atomic_state.stage = SHUFFLE_STAGE, ShuffleInv PROVE ShuffleInv'
    <3>1. pc[0] \in {"reset_shuffle_claims", "shuffle"}
      BY <2>6 DEF ControlInv, StageAt, MAP_STAGE, SHUFFLE_STAGE, REDUCE_STAGE
    <3>2. pc'[0] = pc[0]
      BY <1>1, <2>2, <3>1, ThreadFacts DEF AtBarrier
    <3> QED
      BY <1>1, <2>6, <3>2 DEF ShuffleInv, KeyInv
  <2>7. ReduceInv => ReduceInv'
    <3>1. Claims' = Claims
      <4>1. pc'[0] = "reset_reduce_claims" <=> pc[0] = "reset_reduce_claims"
        BY <1>1, <2>2, ThreadFacts DEF AtBarrier
      <4> QED
        BY <1>1, <4>1 DEF Claims
    <3>2. /\ pc[t] \notin Reducing /\ pc[t] # "reduced"
          /\ label \notin Reducing \cup {"reduce", "reduced", "done"}
      BY <1>1 DEF AtBarrier, Reducing
    <3> QED
      BY <1>1, <2>1, <3>1, <3>2, QuietReduce
  <2> QED
    BY <1>1, <2>4, <2>5, <2>6, <2>7 DEF StageInv
<1> QED
  BY <1>3, <1>4

\* In reduce_phase the counter of claims has been reset.
LEMMA ClaimsReset ==
  ASSUME TypeInv, ControlInv, NEW t \in Threads, pc[t] \in ReduceWork,
         NEW label \in ReduceWork, Goto(t, label)
  PROVE  Claims' = atomic_next_to_process'
<1>1. pc[0] \in ReduceWork \cup {"barrier2"}
  BY InReduce, ThreadFacts
<1>2. pc'[0] \in ReduceWork \cup {"barrier2"}
  BY <1>1, ThreadFacts DEF Goto, TypeInv
<1> QED
  BY <1>2 DEF Claims, ReduceWork

LEMMA QuietReduceActions ==
  ASSUME TypeInv, ControlInv, ReduceInv, NEW t \in Threads,
         ReduceStart(t) \/ ReduceDone(t) \/ EmitLock(t) \/ EmitSlot(t)
  PROVE  ReduceInv'
<1> USE DEF inputs, progress, shuffle
<1>1. /\ pc[t] \in ReduceWork
      /\ UNCHANGED <<inputVec, atomic_state, atomic_next_to_process, beforeShuffle, afterShuffle,
                     temp, outputVec, old_val>>
  BY DEF ReduceStart, ReduceDone, EmitLock, EmitSlot, ReduceWork
<1>2. Claims = atomic_next_to_process
  BY <1>1, InReduce
<1>3. \A label \in ReduceWork : Goto(t, label) => Claims' = Claims
  BY <1>1, <1>2, ClaimsReset
<1>4. CASE ReduceStart(t)
  <2>1. /\ pc[t] = "reduce_start" /\ Goto(t, "reduce") /\ x'[t] = atomic_state
        /\ \A u \in Threads : u # t => x'[u] = x[u]
    BY <1>4 DEF ReduceStart, Load, TypeInv
  <2>2. Claims' = Claims
    BY <1>3, <2>1 DEF ReduceWork
  <2>3. atomic_state.count <= atomic_state.count
    <3>1. atomic_state.count \in Nat
      BY DEF TypeInv, Progress
    <3> QED
      BY <3>1
  <2> QED
    BY <1>1, <2>1, <2>2, <2>3, QuietReduce DEF Reducing
<1>5. CASE ReduceDone(t)
  <2>1. pc[t] = "reduce" /\ Goto(t, "done") /\ x' = x
    BY <1>5 DEF ReduceDone
  <2>2. Claims' = Claims
    BY <1>3, <2>1 DEF ReduceWork
  <2>3. atomic_state.count >= atomic_state.total
    <3>1. x[t].total = atomic_state.total /\ x[t].count <= atomic_state.count
      BY <2>1 DEF ReduceInv
    <3>2. ~(x[t].count < x[t].total)
      BY <1>5 DEF ReduceDone, Unfinished
    <3>3. x[t].count \in Nat /\ x[t].total \in Nat
      BY DEF TypeInv, Progress
    <3>4. atomic_state.count \in Nat
      BY DEF TypeInv, Progress
    <3> QED
      BY <3>1, <3>2, <3>3, <3>4
  <2> QED
    BY <1>1, <2>1, <2>2, <2>3, QuietReduce DEF Reducing
<1>6. CASE EmitLock(t) \/ EmitSlot(t)
  <2>1. PICK label \in {"emit", "emitting"} : Goto(t, label)
    BY <1>6 DEF EmitLock, EmitSlot
  <2>2. pc[t] \in {"reducing", "emit"} /\ x' = x
    BY <1>6 DEF EmitLock, EmitSlot
  <2>3. Claims' = Claims
    BY <1>3, <2>1 DEF ReduceWork
  <2>4. x[t].total = atomic_state.total /\ x[t].count <= atomic_state.count
    BY <2>2 DEF ReduceInv, Reducing
  <2> QED
    BY <1>1, <2>1, <2>2, <2>3, <2>4, QuietReduce DEF Reducing
<1> QED
  BY <1>4, <1>5, <1>6

LEMMA ReduceClaimInv ==
  ASSUME TypeInv, ControlInv, ReduceInv, NEW t \in Threads, ReduceClaim(t)
  PROVE  ReduceInv'
<1> USE DEF inputs, shuffle
<1> DEFINE n == atomic_next_to_process
           k == Len(afterShuffle)
           label == IF n >= k THEN "done" ELSE "reducing"
           Busy == Reducing \cup {"reduced"}
<1>1. /\ pc[t] = "reduce" /\ pc'[t] = label /\ \A u \in Threads : u # t => pc'[u] = pc[u]
      /\ old_val'[t] = n /\ \A u \in Threads : u # t => old_val'[u] = old_val[u]
      /\ n \in Nat /\ atomic_next_to_process' = n + 1 /\ k \in Nat
      /\ UNCHANGED <<inputVec, atomic_state, beforeShuffle, afterShuffle, temp, outputVec, x>>
      /\ Goto(t, label) /\ DOMAIN afterShuffle = 1..k
  BY DEF ReduceClaim, Claim, Goto, TypeInv
<1>2. Claims = n /\ Claims' = n + 1
  <2>1. pc[t] \in ReduceWork /\ label \in ReduceWork
    BY <1>1 DEF ReduceWork
  <2> QED
    BY <1>1, <2>1, InReduce, ClaimsReset
<1>3. k' = k
  BY <1>1
<1> HIDE DEF n, k
<1>4. \A u \in Threads : pc[u] \in Busy =>
        old_val[u] \in Nat /\ old_val[u] < n /\ old_val[u] < k
  BY <1>2 DEF ReduceInv, TypeInv, k
<1>5. "reduce" \notin Busy /\ "done" \notin Busy /\ "reducing" \in Reducing
  BY DEF Reducing
<1>6. ASSUME NEW busy, busy = Reducing \/ busy = Busy
      PROVE  {g \in DOMAIN afterShuffle :
                g <= n + 1 /\ \A u \in Threads : pc'[u] \in busy => old_val'[u] + 1 # g}
             =
             {g \in DOMAIN afterShuffle :
                g <= n /\ \A u \in Threads : pc[u] \in busy => old_val[u] + 1 # g}
  <2>0. "reduce" \notin busy /\ "done" \notin busy /\ "reducing" \in busy
    BY <1>5, <1>6
  <2> HIDE DEF Busy
  <2>1. ASSUME NEW g \in DOMAIN afterShuffle
        PROVE  (/\ g <= n + 1
                /\ \A u \in Threads : pc'[u] \in busy => old_val'[u] + 1 # g)
               <=>
               (/\ g <= n
                /\ \A u \in Threads : pc[u] \in busy => old_val[u] + 1 # g)
    <3>1. g \in 1..k
      BY <1>1
    <3>2. CASE n >= k
      <4>1. \A u \in Threads : pc'[u] \in busy <=> pc[u] \in busy /\ u # t
        BY <1>1, <2>0, <3>2
      <4>2. g <= n /\ g <= n + 1
        BY <1>1, <3>1, <3>2
      <4>3. \A u \in Threads : pc[u] \in busy => old_val'[u] = old_val[u]
        BY <1>1, <2>0
      <4>4. pc[t] \notin busy
        BY <1>1, <2>0
      <4> QED
        BY <4>1, <4>2, <4>3, <4>4
    <3>3. CASE n < k /\ g = n + 1
      <4>1. pc'[t] \in busy /\ old_val'[t] + 1 = g /\ ~(g <= n)
        BY <1>1, <2>0, <3>3
      <4> QED
        BY <4>1
    <3>4. CASE n < k /\ g # n + 1
      <4>1. pc'[t] \in busy /\ old_val'[t] + 1 # g /\ (g <= n <=> g <= n + 1)
        BY <1>1, <2>0, <3>1, <3>4
      <4>2. pc[t] \notin busy
        BY <1>1, <2>0
      <4> QED
        BY <1>1, <4>1, <4>2
    <3> QED
      BY <1>1, <3>2, <3>3, <3>4
  <2> QED
    BY <2>1
<1>7. EmittedGroups' = EmittedGroups
  <2>1. EmittedGroups' = {g \in DOMAIN afterShuffle :
                g <= n + 1 /\ \A u \in Threads : pc'[u] \in Reducing => old_val'[u] + 1 # g}
    BY <1>1, <1>2 DEF EmittedGroups, ClaimedGroups
  <2>2. EmittedGroups = {g \in DOMAIN afterShuffle :
                g <= n /\ \A u \in Threads : pc[u] \in Reducing => old_val[u] + 1 # g}
    BY <1>2 DEF EmittedGroups, ClaimedGroups
  <2> QED
    BY <1>6, <2>1, <2>2
<1>8. FinishedGroups' = FinishedGroups
  <2>1. FinishedGroups' = {g \in DOMAIN afterShuffle :
                g <= n + 1 /\ \A u \in Threads : pc'[u] \in Busy => old_val'[u] + 1 # g}
    BY <1>1, <1>2 DEF FinishedGroups, ClaimedGroups
  <2>2. FinishedGroups = {g \in DOMAIN afterShuffle :
                g <= n /\ \A u \in Threads : pc[u] \in Busy => old_val[u] + 1 # g}
    BY <1>2 DEF FinishedGroups, ClaimedGroups
  <2> QED
    BY <1>6, <2>1, <2>2
<1>9. PairsIn(FinishedGroups)' = PairsIn(FinishedGroups)
  BY <1>1, <1>8 DEF PairsIn
<1>10. \A u \in Threads : pc'[u] \in Busy => old_val'[u] < n + 1 /\ old_val'[u] < k
  BY <1>1, <1>4, <1>5
<1>11. ASSUME NEW u \in Threads, NEW w \in Threads, pc'[u] \in Busy, pc'[w] \in Busy,
              old_val'[u] = old_val'[w]
       PROVE  u = w
  <2>1. CASE u # t /\ w # t
    BY <1>1, <1>11, <2>1 DEF ReduceInv
  <2>2. CASE u = t /\ w # t
    <3>1. old_val[w] < n /\ old_val[w] = n /\ old_val[w] \in Nat
      BY <1>1, <1>4, <1>11, <2>2
    <3> QED
      BY <1>1, <3>1
  <2>3. CASE u # t /\ w = t
    <3>1. old_val[u] < n /\ old_val[u] = n /\ old_val[u] \in Nat
      BY <1>1, <1>4, <1>11, <2>3
    <3> QED
      BY <1>1, <3>1
  <2> QED
    BY <2>1, <2>2, <2>3
<1>12. \A u \in Threads : pc'[u] \in {"reduce", "reduced"} \cup Reducing =>
         x[u].total = atomic_state.total /\ x[u].count <= atomic_state.count
  BY <1>1 DEF ReduceInv
<1>13. ASSUME NEW u \in Threads, pc'[u] = "done"
       PROVE  n + 1 >= k \/ atomic_state.count >= atomic_state.total
  <2>1. CASE u = t
    BY <1>1, <1>13, <2>1
  <2>2. CASE u # t
    <3>1. n >= k \/ atomic_state.count >= atomic_state.total
      BY <1>1, <1>2, <1>13, <2>2 DEF ReduceInv, k
    <3> QED
      BY <1>1, <3>1
  <2> QED
    BY <2>1, <2>2
<1>14. Len(afterShuffle') = k
  BY <1>1 DEF k
<1> QED
  BY <1>1, <1>2, <1>7, <1>9, <1>10, <1>11, <1>12, <1>13, <1>14 DEF ReduceInv

LEMMA EmitAndUnlockInv ==
  ASSUME TypeInv, ControlInv, MutexInv, StageInv, ReduceInv, NEW t \in Threads, EmitAndUnlock(t)
  PROVE  ReduceInv'
<1> USE DEF inputs, progress, shuffle
<1> DEFINE g == old_val[t] + 1
<1>1. /\ pc[t] = "emitting" /\ pc'[t] = "reduced" /\ \A u \in Threads : u # t => pc'[u] = pc[u]
      /\ Goto(t, "reduced")
      /\ UNCHANGED <<inputVec, atomic_state, atomic_next_to_process, beforeShuffle, afterShuffle,
                     temp, x, old_val>>
  BY DEF EmitAndUnlock, Goto, TypeInv
<1>2. pc[t] \in Reducing /\ "reduced" \notin Reducing
  BY <1>1 DEF Reducing
<1>3. g \in DOMAIN afterShuffle /\ Claimed(t) = afterShuffle[g] /\ Range(Claimed(t)) \subseteq Pairs
  BY <1>2, ClaimedGroup
<1>4. outputVec' = Append(outputVec, Range(afterShuffle[g]))
  <2>1. slot[t] = Len(outputVec) + 1
    BY <1>1 DEF MutexInv
  <2>2. outputVec' = Placed(t, outputVec, Range(Claimed(t)))
    BY DEF EmitAndUnlock
  <2> QED
    BY <1>3, <2>1, <2>2, PlacedIsAppend DEF TypeInv
<1>5. Range(outputVec') = Range(outputVec) \cup {Range(afterShuffle[g])}
  <2>1. Range(afterShuffle[g]) \in SUBSET Pairs /\ outputVec \in Seq(SUBSET Pairs)
    BY <1>3 DEF TypeInv
  <2> HIDE DEF g
  <2> QED
    BY <1>4, <2>1, AppendElement
<1>6. Claims' = Claims /\ ClaimedGroups' = ClaimedGroups
  <2>1. "reduced" \in ReduceWork /\ pc[t] \in ReduceWork
    BY <1>1 DEF ReduceWork
  <2>2. Claims' = Claims
    BY <1>1, <2>1, ClaimsReset, InReduce
  <2> QED
    BY <1>1, <2>2 DEF ClaimedGroups
<1>7. g \in ClaimedGroups
  <2>1. old_val[t] < Claims /\ old_val[t] \in Nat /\ Claims \in Nat
    BY <1>2 DEF ReduceInv, TypeInv, Claims
  <2>2. g <= Claims
    BY <2>1
  <2> QED
    BY <1>3, <2>2 DEF ClaimedGroups
<1>8. \A u \in Threads \ {t} : pc[u] \in Reducing => old_val[u] + 1 # g
  <2> SUFFICES ASSUME NEW u \in Threads \ {t}, pc[u] \in Reducing, old_val[u] + 1 = g
               PROVE  FALSE
    OBVIOUS
  <2>1. old_val[u] \in Nat /\ old_val[t] \in Nat
    BY DEF TypeInv
  <2>2. old_val[u] = old_val[t]
    BY <2>1
  <2> QED
    BY <1>2, <2>2 DEF ReduceInv
<1> HIDE DEF g
<1>9. EmittedGroups' = EmittedGroups \cup {g}
  <2>1. \A h \in ClaimedGroups :
          (\A u \in Threads : pc'[u] \in Reducing => old_val[u] + 1 # h)
          <=> h = g \/ \A u \in Threads : pc[u] \in Reducing => old_val[u] + 1 # h
    BY <1>1, <1>2, <1>8 DEF g
  <2> QED
    BY <1>1, <1>6, <1>7, <2>1 DEF EmittedGroups
<1>10. FinishedGroups' = FinishedGroups
  <2>1. \A u \in Threads :
          pc'[u] \in Reducing \cup {"reduced"} <=> pc[u] \in Reducing \cup {"reduced"}
    BY <1>1, <1>2
  <2> QED
    BY <1>1, <1>6, <2>1 DEF FinishedGroups
<1>11. PairsIn(FinishedGroups)' = PairsIn(FinishedGroups)
  BY <1>1, <1>10 DEF PairsIn
<1>12. Range(outputVec') = {Range(afterShuffle[h]) : h \in EmittedGroups'}
  BY <1>5, <1>9 DEF ReduceInv
<1>13. \A u \in Threads :
         /\ pc'[u] \in Reducing \cup {"reduced"} => pc[u] \in Reducing \cup {"reduced"}
         /\ pc'[u] \in {"reduce", "reduced"} \cup Reducing => pc[u] \in {"reduce", "reduced"} \cup Reducing
         /\ pc'[u] = "done" => pc[u] = "done"
  BY <1>1, <1>2
<1> QED
  BY <1>1, <1>6, <1>11, <1>12, <1>13 DEF ReduceInv

LEMMA DisjointUnion ==
  ASSUME NEW S, NEW T, IsFiniteSet(S), IsFiniteSet(T), S \cap T = {}
  PROVE  IsFiniteSet(S \cup T) /\ Cardinality(S \cup T) = Cardinality(S) + Cardinality(T)
<1>1. /\ IsFiniteSet(S \cup T)
      /\ Cardinality(S \cup T) = Cardinality(S) + Cardinality(T) - Cardinality(S \cap T)
  BY FS_Union
<1>2. Cardinality(S \cap T) = 0 /\ Cardinality(S) \in Nat /\ Cardinality(T) \in Nat
  BY FS_EmptySet, FS_CardinalityType
<1> QED
  BY <1>1, <1>2

LEMMA PairsOfGroups ==
  ASSUME TypeInv, NEW groups \in SUBSET DOMAIN afterShuffle
  PROVE  /\ PairsIn(groups) \subseteq Pairs /\ IsFiniteSet(PairsIn(groups))
         /\ Cardinality(PairsIn(groups)) \in Nat
<1>1. PairsIn(groups) \in SUBSET Pairs
  BY RangeIsImage DEF PairsIn, TypeInv
<1> QED
  BY <1>1, PairsFinite, FS_Subset, FS_CardinalityType DEF TypeInv

LEMMA ReduceCountInv ==
  ASSUME TypeInv, ControlInv, PlacesInv, StageInv, ReduceInv, NEW t \in Threads, ReduceCount(t)
  PROVE  ReduceInv' /\ atomic_state.count <= atomic_state'.count
<1> USE DEF inputs, shuffle
<1> DEFINE g == old_val[t] + 1
           Busy == Reducing \cup {"reduced"}
           more == Len(Claimed(t))
<1>1. /\ pc[t] = "reduced" /\ pc'[t] = "reduce" /\ \A u \in Threads : u # t => pc'[u] = pc[u]
      /\ Goto(t, "reduce")
      /\ UNCHANGED <<inputVec, atomic_next_to_process, beforeShuffle, afterShuffle,
                     temp, outputVec, old_val>>
      /\ x'[t] = atomic_state /\ \A u \in Threads : u # t => x'[u] = x[u]
      /\ atomic_state' = [atomic_state EXCEPT !.count = @ + more]
  BY DEF ReduceCount, FetchAdd, Load, Add, Goto, TypeInv
<1>2. "reduced" \notin Reducing /\ "reduce" \notin Busy
  BY DEF Reducing
<1>3. /\ g \in DOMAIN afterShuffle /\ Claimed(t) = afterShuffle[g]
      /\ Claimed(t) \in Seq(Pairs) /\ more \in Nat
  BY <1>1, ClaimedGroup
<1>4. /\ atomic_state'.total = atomic_state.total
      /\ atomic_state'.count = atomic_state.count + more
      /\ atomic_state.count \in Nat /\ atomic_state.total \in Nat
  BY <1>1 DEF TypeInv, Progress
<1>5. Claims' = Claims /\ ClaimedGroups' = ClaimedGroups
  <2>1. "reduce" \in ReduceWork /\ pc[t] \in ReduceWork
    BY <1>1 DEF ReduceWork
  <2>2. Claims' = Claims
    BY <1>1, <2>1, ClaimsReset, InReduce
  <2> QED
    BY <1>1, <2>2 DEF ClaimedGroups
<1>6. g \in ClaimedGroups
  <2>1. old_val[t] < Claims /\ old_val[t] \in Nat /\ Claims \in Nat
    BY <1>1 DEF ReduceInv, TypeInv, Claims
  <2>2. g <= Claims
    BY <2>1
  <2> QED
    BY <1>3, <2>2 DEF ClaimedGroups
<1>7. \A u \in Threads \ {t} : pc[u] \in Busy => old_val[u] + 1 # g
  <2> SUFFICES ASSUME NEW u \in Threads \ {t}, pc[u] \in Busy, old_val[u] + 1 = g
               PROVE  FALSE
    OBVIOUS
  <2>1. old_val[u] \in Nat /\ old_val[t] \in Nat
    BY DEF TypeInv
  <2>2. old_val[u] = old_val[t]
    BY <2>1
  <2> QED
    BY <1>1, <2>2 DEF ReduceInv
<1> HIDE DEF g, more
<1>8. EmittedGroups' = EmittedGroups
  <2>1. \A u \in Threads : pc'[u] \in Reducing <=> pc[u] \in Reducing
    BY <1>1, <1>2
  <2> QED
    BY <1>1, <1>5, <2>1 DEF EmittedGroups
<1>9. FinishedGroups' = FinishedGroups \cup {g} /\ g \notin FinishedGroups
  <2>1. \A h \in ClaimedGroups :
          (\A u \in Threads : pc'[u] \in Busy => old_val[u] + 1 # h)
          <=> h = g \/ \A u \in Threads : pc[u] \in Busy => old_val[u] + 1 # h
    BY <1>1, <1>2, <1>7 DEF g
  <2>2. g \notin FinishedGroups
    BY <1>1 DEF FinishedGroups, g
  <2>3. FinishedGroups' = {h \in ClaimedGroups : \A u \in Threads : pc'[u] \in Busy => old_val[u] + 1 # h}
    BY <1>1, <1>5 DEF FinishedGroups
  <2>4. FinishedGroups = {h \in ClaimedGroups : \A u \in Threads : pc[u] \in Busy => old_val[u] + 1 # h}
    BY DEF FinishedGroups
  <2> HIDE DEF Busy
  <2> QED
    BY <1>6, <2>1, <2>2, <2>3, <2>4
<1>10. PairsIn(FinishedGroups)' = PairsIn(FinishedGroups) \cup Range(afterShuffle[g])
  BY <1>1, <1>9 DEF PairsIn
<1>11. PairsIn(FinishedGroups) \cap Range(afterShuffle[g]) = {}
  <2>1. FinishedGroups \subseteq DOMAIN afterShuffle
    BY DEF FinishedGroups, ClaimedGroups
  <2>2. \A h \in FinishedGroups : Range(afterShuffle[h]) \cap Range(afterShuffle[g]) = {}
    BY <1>3, <1>9, <2>1, NoneTwiceParts DEF PlacesInv
  <2> QED
    BY <2>2 DEF PairsIn
<1>12. more = Cardinality(Range(afterShuffle[g])) /\ IsFiniteSet(Range(afterShuffle[g]))
  <2>1. IsInjective(afterShuffle[g])
    BY <1>3, NoneTwiceParts DEF PlacesInv
  <2> QED
    BY <1>3, <2>1, LenIsCardinality, RangeIsImage DEF more
<1>13. IsFiniteSet(PairsIn(FinishedGroups))
  <2>1. FinishedGroups \subseteq DOMAIN afterShuffle
    BY DEF FinishedGroups, ClaimedGroups
  <2> QED
    BY <2>1, PairsOfGroups
<1>14. atomic_state'.count = Cardinality(PairsIn(FinishedGroups)')
  <2>1. Cardinality(PairsIn(FinishedGroups) \cup Range(afterShuffle[g]))
          = Cardinality(PairsIn(FinishedGroups)) + Cardinality(Range(afterShuffle[g]))
    BY <1>11, <1>12, <1>13, DisjointUnion
  <2> QED
    BY <1>4, <1>10, <1>12, <2>1 DEF ReduceInv
<1>15. atomic_state.count <= atomic_state'.count
  BY <1>3, <1>4 DEF more
<1>16. \A u \in Threads : pc'[u] \in {"reduce", "reduced"} \cup Reducing =>
         x'[u].total = atomic_state'.total /\ x'[u].count <= atomic_state'.count
  <2>1. ASSUME NEW u \in Threads, pc'[u] \in {"reduce", "reduced"} \cup Reducing, u # t
        PROVE  x'[u].total = atomic_state'.total /\ x'[u].count <= atomic_state'.count
    <3>1. x'[u].total = atomic_state.total /\ x'[u].count <= atomic_state.count
      BY <1>1, <2>1 DEF ReduceInv
    <3>2. x'[u].count \in Nat
      BY <1>1, <2>1 DEF TypeInv, Progress
    <3>3. atomic_state'.count \in Nat
      BY <1>3, <1>4
    <3> QED
      BY <1>4, <1>15, <3>1, <3>2, <3>3
  <2> QED
    BY <1>1, <1>4, <1>15, <2>1
<1>17. \A u \in Threads : pc'[u] = "done" =>
         Claims >= Len(afterShuffle) \/ atomic_state'.count >= atomic_state'.total
  <2> SUFFICES ASSUME NEW u \in Threads, pc'[u] = "done", ~(Claims >= Len(afterShuffle))
               PROVE  atomic_state'.count >= atomic_state'.total
    OBVIOUS
  <2>1. atomic_state.count >= atomic_state.total
    BY <1>1 DEF ReduceInv
  <2>2. atomic_state'.count \in Nat
    BY <1>3, <1>4
  <2> QED
    BY <1>4, <1>15, <2>1, <2>2
<1>18. \A u \in Threads : pc'[u] \in Busy => pc[u] \in Busy
  BY <1>1, <1>2
<1> QED
  BY <1>1, <1>5, <1>8, <1>14, <1>15, <1>16, <1>17, <1>18 DEF ReduceInv

\* A reduce step stays in the reduce stage.
LEMMA StageReduceActions ==
  ASSUME TypeInv, TypeInv', ControlInv, MutexInv, StageInv, NEW t \in Threads,
         \/ ReduceStart(t) \/ ReduceClaim(t) \/ ReduceDone(t)
         \/ EmitLock(t) \/ EmitSlot(t) \/ EmitAndUnlock(t) \/ ReduceCount(t)
  PROVE  StageInv' /\ atomic_state.stage = REDUCE_STAGE /\ atomic_state'.stage = REDUCE_STAGE
<1> USE DEF inputs, progress, shuffle
<1>1. pc[t] \in ReduceWork
  BY DEF ReduceStart, ReduceClaim, ReduceDone, EmitLock, EmitSlot, EmitAndUnlock, ReduceCount,
     ReduceWork
<1>2. atomic_state.stage = REDUCE_STAGE /\ PlacesInv /\ ReduceInv
  BY <1>1, InReduce DEF StageInv, MAP_STAGE, REDUCE_STAGE
<1>3. ReduceInv'
  BY <1>2, QuietReduceActions, ReduceClaimInv, EmitAndUnlockInv, ReduceCountInv
<1>4. /\ atomic_state'.stage = atomic_state.stage /\ atomic_state'.total = atomic_state.total
      /\ UNCHANGED <<inputVec, beforeShuffle, afterShuffle, temp>>
  <2>1. CASE ReduceCount(t)
    BY <2>1 DEF ReduceCount, FetchAdd, Add, TypeInv, Progress
  <2>2. CASE ~ReduceCount(t)
    BY <2>2 DEF ReduceStart, ReduceClaim, ReduceDone, EmitLock, EmitSlot, EmitAndUnlock
  <2> QED
    BY <2>1, <2>2
<1>5. PlacesInv'
  BY <1>2, <1>4, SameInput DEF PlacesInv
<1> QED
  BY <1>2, <1>3, <1>4, <1>5 DEF StageInv, MAP_STAGE, SHUFFLE_STAGE, REDUCE_STAGE

-----------------------------------------------------------------------------
(* The counter, and what its being full means. *)

LEMMA CountFacts ==
  ASSUME TypeInv, StageInv
  PROVE  /\ atomic_state.count \in Nat /\ atomic_state.total \in Nat
         /\ atomic_state.count <= atomic_state.total
<1>1. atomic_state.count \in Nat /\ atomic_state.total \in Nat
  BY DEF TypeInv, Progress
<1>2. CASE atomic_state.stage = MAP_STAGE
  BY <1>2, MappedFacts DEF StageInv, MapInv, ClaimInv
<1>3. CASE atomic_state.stage = SHUFFLE_STAGE
  <2>1. PlacesInv /\ ShuffleInv
    BY <1>3 DEF StageInv, MAP_STAGE, SHUFFLE_STAGE
  <2>2. Range(temp) \cup Elements(afterShuffle) \in SUBSET Pairs
    BY <2>1 DEF PlacesInv
  <2>3. Cardinality(Range(temp) \cup Elements(afterShuffle)) <= Cardinality(Pairs)
    BY <2>2, PairsFinite, FS_Subset DEF TypeInv
  <2>4. atomic_state.count = Cardinality(Range(temp) \cup Elements(afterShuffle)) /\ atomic_state.total = Cardinality(Pairs)
    BY <2>1 DEF PlacesInv, ShuffleInv
  <2> QED
    BY <1>1, <2>3, <2>4
<1>4. CASE atomic_state.stage = REDUCE_STAGE
  <2>1. PlacesInv /\ ReduceInv
    BY <1>4 DEF StageInv, MAP_STAGE, REDUCE_STAGE
  <2>2. FinishedGroups \in SUBSET DOMAIN afterShuffle
    BY DEF FinishedGroups, ClaimedGroups
  <2>3. PairsIn(FinishedGroups) \in SUBSET Pairs
    BY <2>2, PairsOfGroups
  <2>4. Cardinality(PairsIn(FinishedGroups)) <= Cardinality(Pairs)
    BY <2>3, PairsFinite, FS_Subset DEF TypeInv
  <2>5. atomic_state.count = Cardinality(PairsIn(FinishedGroups)) /\ atomic_state.total = Cardinality(Pairs)
    BY <2>1 DEF PlacesInv, ReduceInv
  <2> QED
    BY <1>1, <2>4, <2>5
<1>5. atomic_state.stage \in {MAP_STAGE, SHUFFLE_STAGE, REDUCE_STAGE}
  BY DEF TypeInv, Progress, MAP_STAGE, SHUFFLE_STAGE, REDUCE_STAGE
<1> QED
  BY <1>1, <1>2, <1>3, <1>4, <1>5

\* After the shuffle the vectors are the groups.
LEMMA GroupsShuffled ==
  ASSUME TypeInv, PlacesInv, ReduceInv
  PROVE  /\ Elements(afterShuffle) = Pairs
         /\ Groups = {Range(afterShuffle[g]) : g \in DOMAIN afterShuffle}
         /\ \A g, h \in DOMAIN afterShuffle :
              Range(afterShuffle[g]) \cap Range(afterShuffle[h]) # {} => g = h
         /\ \A g \in DOMAIN afterShuffle : Range(afterShuffle[g]) # {}
<1>1. Elements(afterShuffle) = Pairs
  BY NothingThere DEF PlacesInv, ReduceInv
<1>2. \A g, h \in DOMAIN afterShuffle :
        Range(afterShuffle[g]) \cap Range(afterShuffle[h]) # {} => g = h
  BY NoneTwiceParts DEF PlacesInv
<1>3. ASSUME NEW g \in DOMAIN afterShuffle
      PROVE  \E p \in Pairs : /\ Range(afterShuffle[g]) = {q \in Pairs : q.key = p.key}
                              /\ p \in Range(afterShuffle[g])
  BY GroupFacts DEF PlacesInv
<1>4. ASSUME NEW group \in Groups
      PROVE  \E g \in DOMAIN afterShuffle : group = Range(afterShuffle[g])
  <2>1. PICK p \in Pairs : group = {q \in Pairs : q.key = p.key}
    BY GroupFacts
  <2>2. PICK g \in DOMAIN afterShuffle : p \in Range(afterShuffle[g])
    BY <1>1 DEF Elements
  <2>3. PICK r \in Pairs : Range(afterShuffle[g]) = {q \in Pairs : q.key = r.key}
    BY <1>3
  <2>4. p.key = r.key
    BY <2>2, <2>3
  <2> QED
    BY <2>1, <2>3, <2>4
<1>5. Groups = {Range(afterShuffle[g]) : g \in DOMAIN afterShuffle}
  BY <1>4 DEF PlacesInv
<1>6. \A g \in DOMAIN afterShuffle : Range(afterShuffle[g]) # {}
  BY <1>3
<1> QED
  BY <1>1, <1>2, <1>5, <1>6

\* When every group is finished the output is complete.
LEMMA FinishedIsComplete ==
  ASSUME TypeInv, PlacesInv, ReduceInv, FinishedGroups = DOMAIN afterShuffle
  PROVE  Range(outputVec) = Groups
<1>1. FinishedGroups \subseteq EmittedGroups /\ EmittedGroups \subseteq DOMAIN afterShuffle
  BY DEF FinishedGroups, EmittedGroups, ClaimedGroups
<1>2. EmittedGroups = DOMAIN afterShuffle
  BY <1>1
<1> QED
  BY <1>2, GroupsShuffled DEF ReduceInv

LEMMA FullIsComplete ==
  ASSUME TypeInv, StageInv, atomic_state.stage = REDUCE_STAGE,
         atomic_state.count >= atomic_state.total
  PROVE  Range(outputVec) = Groups
<1>1. PlacesInv /\ ReduceInv
  BY DEF StageInv, MAP_STAGE, REDUCE_STAGE
<1>2. FinishedGroups \in SUBSET DOMAIN afterShuffle
  BY DEF FinishedGroups, ClaimedGroups
<1>3. PairsIn(FinishedGroups) \in SUBSET Pairs
  BY <1>2, PairsOfGroups
<1>4. Cardinality(PairsIn(FinishedGroups)) = Cardinality(Pairs)
  BY <1>1, CountFacts DEF PlacesInv, ReduceInv
<1>5. PairsIn(FinishedGroups) = Pairs
  BY <1>3, <1>4, PairsFinite, FS_Subset DEF TypeInv
<1>6. ASSUME NEW g \in DOMAIN afterShuffle PROVE g \in FinishedGroups
  <2>1. PICK p \in Range(afterShuffle[g]) : TRUE
    BY <1>1, GroupsShuffled
  <2>2. p \in PairsIn(FinishedGroups)
    BY <1>1, <1>5, <2>1, GroupsShuffled DEF Elements
  <2>3. PICK h \in FinishedGroups : p \in Range(afterShuffle[h])
    BY <2>2 DEF PairsIn
  <2> QED
    BY <1>1, <1>2, <2>1, <2>3, GroupsShuffled
<1> QED
  BY <1>1, <1>2, <1>6, FinishedIsComplete

\* So it is when every thread has ended.
LEMMA EndedIsComplete ==
  ASSUME TypeInv, ControlInv, StageInv, \A t \in Threads : pc[t] = "done"
  PROVE  atomic_state.stage = REDUCE_STAGE /\ Range(outputVec) = Groups
<1>1. 0 \in Threads /\ pc[0] = "done" /\ pc[0] \in ReduceWork
  BY ThreadFacts DEF ReduceWork
<1>2. atomic_state.stage = REDUCE_STAGE
  BY <1>1, InReduce
<1>3. PlacesInv /\ ReduceInv
  BY <1>2 DEF StageInv, MAP_STAGE, REDUCE_STAGE
<1>4. CASE Claims >= Len(afterShuffle)
  <2>1. ClaimedGroups = DOMAIN afterShuffle
    <3>1. DOMAIN afterShuffle = 1..Len(afterShuffle) /\ Len(afterShuffle) \in Nat /\ Claims \in Nat
      BY DEF TypeInv, Claims
    <3>2. \A g \in DOMAIN afterShuffle : g <= Claims
      BY <1>4, <3>1
    <3> QED
      BY <3>2 DEF ClaimedGroups
  <2>2. \A t \in Threads : pc[t] \notin Reducing \cup {"reduced"}
    BY DEF Reducing
  <2>3. FinishedGroups = DOMAIN afterShuffle
    BY <2>1, <2>2 DEF FinishedGroups
  <2> QED
    BY <1>2, <1>3, <2>3, FinishedIsComplete
<1>5. CASE atomic_state.count >= atomic_state.total
  BY <1>2, <1>5, FullIsComplete
<1> QED
  BY <1>1, <1>3, <1>4, <1>5 DEF ReduceInv

-----------------------------------------------------------------------------
(* What a step does to the progress and to the other threads. *)

LEMMA ProgressStep ==
  ASSUME TypeInv, ControlInv, StageInv, NEW t \in Threads, thread_flow(t)
  PROVE  \/ atomic_state'.stage > atomic_state.stage
         \/ /\ atomic_state'.stage = atomic_state.stage
            /\ atomic_state'.total = atomic_state.total
            /\ atomic_state'.count >= atomic_state.count
<1> USE DEF progress
<1>1. atomic_state \in Progress /\ atomic_state.count \in Nat
  BY DEF TypeInv, Progress
<1>2. CASE atomic_state' = atomic_state
  BY <1>1, <1>2
<1>3. ASSUME NEW n \in Nat, Add(n)
      PROVE  /\ atomic_state'.stage = atomic_state.stage
             /\ atomic_state'.total = atomic_state.total
             /\ atomic_state'.count >= atomic_state.count
  <2>1. /\ atomic_state'.stage = atomic_state.stage
        /\ atomic_state'.total = atomic_state.total
        /\ atomic_state'.count = atomic_state.count + n
    BY <1>1, <1>3 DEF Add, Progress
  <2> QED
    BY <1>1, <2>1
<1>4. CASE MapItem(t) \/ ShufflePair(t)
  <2>1. Add(1)
    BY <1>4 DEF MapItem, ShufflePair, FetchAdd
  <2> QED
    BY <1>3, <2>1
<1>5. CASE ReduceCount(t)
  <2>1. Add(Len(Claimed(t))) /\ pc[t] = "reduced"
    BY <1>5 DEF ReduceCount, FetchAdd
  <2>2. Len(Claimed(t)) \in Nat
    BY <2>1, ClaimedGroup
  <2> QED
    BY <1>3, <2>1, <2>2
<1>6. CASE ResetState(t, "reset_to_shuffle", "reset_shuffle_claims", SHUFFLE_STAGE, beforeShuffle)
  <2>1. t = 0 /\ atomic_state.stage = MAP_STAGE /\ atomic_state'.stage = SHUFFLE_STAGE
    BY <1>6, InShuffle DEF ResetState, ShuffleWork
  <2> QED
    BY <2>1 DEF MAP_STAGE, SHUFFLE_STAGE
<1>7. CASE ShuffleDone(t)
  <2>1. t = 0 /\ atomic_state.stage = SHUFFLE_STAGE /\ atomic_state'.stage = REDUCE_STAGE
    BY <1>7, InShuffle DEF ShuffleDone, ResetState, ShuffleWork
  <2> QED
    BY <2>1 DEF SHUFFLE_STAGE, REDUCE_STAGE
<1>8. CASE \/ MapStart(t) \/ MapClaim(t) \/ MapDone(t)
           \/ SortAndLock(t) \/ PushSlot(t) \/ PushAndUnlock(t)
           \/ BarrierStep(t) \/ StartShuffle(t) \/ EndGroup(t) \/ StartReduce(t)
  BY <1>2, <1>8 DEF MapStart, MapClaim, MapDone, SortAndLock, PushSlot, PushAndUnlock,
     BarrierStep, StartShuffle, EndGroup, StartReduce, ResetClaims
<1>9. CASE \/ ReduceStart(t) \/ ReduceClaim(t) \/ ReduceDone(t)
           \/ EmitLock(t) \/ EmitSlot(t) \/ EmitAndUnlock(t)
  BY <1>2, <1>9 DEF ReduceStart, ReduceClaim, ReduceDone, EmitLock, EmitSlot, EmitAndUnlock
<1> QED
  BY <1>4, <1>5, <1>6, <1>7, <1>8, <1>9 DEF thread_flow, Shuffling

\* A step moves one thread, that has not ended; it starts only when it is created.
LEMMA OneThread ==
  ASSUME TypeInv, ControlInv, NEW t \in Threads, thread_flow(t)
  PROVE  /\ pc[t] # "done" /\ (pc[t] = "start" => t < created)
         /\ \A u \in Threads : u # t => pc'[u] = pc[u]
         /\ UNCHANGED <<inputVec, client>>
<1> USE DEF inputs
<1>1. pc' = pc \/ \E label : Goto(t, label)
  <2>1. CASE BarrierStep(t)
    BY <2>1, ControlBarrier
  <2>2. CASE Shuffling(t)
    BY <2>2 DEF Shuffling, ResetState, StartShuffle, ShufflePair, EndGroup, ShuffleDone, StartReduce,
       locals
  <2>3. CASE \/ MapStart(t) \/ MapClaim(t) \/ MapItem(t) \/ MapDone(t)
             \/ SortAndLock(t) \/ PushSlot(t) \/ PushAndUnlock(t)
    BY <2>3 DEF MapStart, MapClaim, MapItem, MapDone, SortAndLock, PushSlot, PushAndUnlock
  <2>4. CASE \/ ReduceStart(t) \/ ReduceClaim(t) \/ ReduceDone(t)
             \/ EmitLock(t) \/ EmitSlot(t) \/ EmitAndUnlock(t) \/ ReduceCount(t)
    BY <2>4 DEF ReduceStart, ReduceClaim, ReduceDone, EmitLock, EmitSlot, EmitAndUnlock, ReduceCount
  <2> QED
    BY <2>1, <2>2, <2>3, <2>4 DEF thread_flow
<1>2. \A u \in Threads : u # t => pc'[u] = pc[u]
  BY <1>1 DEF Goto, TypeInv
<1>3. pc[t] # "done" /\ (pc[t] = "start" => t < created) /\ UNCHANGED <<inputVec, client>>
  <2>1. CASE BarrierStep(t)
    BY <2>1 DEF BarrierStep
  <2>2. CASE Shuffling(t)
    BY <2>2 DEF Shuffling, ResetState, StartShuffle, ShufflePair, EndGroup, ShuffleDone, StartReduce,
       ResetClaims
  <2>3. CASE \/ MapStart(t) \/ MapClaim(t) \/ MapItem(t) \/ MapDone(t)
             \/ SortAndLock(t) \/ PushSlot(t) \/ PushAndUnlock(t)
    BY <2>3 DEF MapStart, MapClaim, MapItem, MapDone, SortAndLock, PushSlot, PushAndUnlock
  <2>4. CASE \/ ReduceStart(t) \/ ReduceClaim(t) \/ ReduceDone(t)
             \/ EmitLock(t) \/ EmitSlot(t) \/ EmitAndUnlock(t) \/ ReduceCount(t)
    BY <2>4 DEF ReduceStart, ReduceClaim, ReduceDone, EmitLock, EmitSlot, EmitAndUnlock, ReduceCount
  <2> QED
    BY <2>1, <2>2, <2>3, <2>4 DEF thread_flow
<1> QED
  BY <1>2, <1>3

-----------------------------------------------------------------------------
(* The output and the client. *)

\* emit3 alone appends to the output: the result of a group that was not there.
LEMMA OutputStep ==
  ASSUME TypeInv, ControlInv, MutexInv, StageInv, NEW t \in Threads, thread_flow(t)
  PROVE  \/ outputVec' = outputVec
         \/ /\ EmitAndUnlock(t)
            /\ \E g \in Groups \ Range(outputVec) : outputVec' = Append(outputVec, g)
<1> USE DEF inputs, shuffle
<1>1. CASE EmitAndUnlock(t)
  <2> DEFINE g == old_val[t] + 1
  <2>1. pc[t] = "emitting" /\ pc[t] \in Reducing /\ pc[t] \in ReduceWork
    BY <1>1 DEF EmitAndUnlock, Reducing, ReduceWork
  <2>2. PlacesInv /\ ReduceInv
    BY <2>1, InReduce DEF StageInv, MAP_STAGE, REDUCE_STAGE
  <2>3. g \in DOMAIN afterShuffle /\ Claimed(t) = afterShuffle[g]
    BY <2>1, ClaimedGroup
  <2>4. outputVec' = Append(outputVec, Range(afterShuffle[g]))
    <3>1. slot[t] = Len(outputVec) + 1 /\ outputVec' = Placed(t, outputVec, Range(Claimed(t)))
      BY <1>1, <2>1 DEF MutexInv, EmitAndUnlock
    <3> QED
      BY <2>3, <3>1, PlacedIsAppend DEF TypeInv
  <2>5. g \notin EmittedGroups /\ EmittedGroups \subseteq DOMAIN afterShuffle
    BY <2>1 DEF EmittedGroups, ClaimedGroups
  <2> HIDE DEF g
  <2>6. Range(afterShuffle[g]) \notin Range(outputVec)
    <3> SUFFICES ASSUME NEW h \in EmittedGroups, Range(afterShuffle[h]) = Range(afterShuffle[g])
                 PROVE  FALSE
      BY <2>2 DEF ReduceInv
    <3>1. h \in DOMAIN afterShuffle /\ h # g
      BY <2>5
    <3>2. Range(afterShuffle[g]) \cap Range(afterShuffle[h]) # {}
      BY <2>2, <2>3, GroupsShuffled
    <3> QED
      BY <2>2, <2>3, <3>1, <3>2, GroupsShuffled
  <2>7. Range(afterShuffle[g]) \in Groups
    BY <2>2, <2>3 DEF PlacesInv
  <2> QED
    BY <1>1, <2>4, <2>6, <2>7
<1>2. CASE PushAndUnlock(t) \/ BarrierStep(t) \/ Shuffling(t)
  BY <1>2 DEF PushAndUnlock, BarrierStep, Shuffling, ResetState, StartShuffle, ShufflePair, EndGroup,
     ShuffleDone, StartReduce, ResetClaims
<1>3. CASE \/ MapStart(t) \/ MapClaim(t) \/ MapItem(t) \/ MapDone(t)
           \/ SortAndLock(t) \/ PushSlot(t)
  BY <1>3 DEF MapStart, MapClaim, MapItem, MapDone, SortAndLock, PushSlot
<1>4. CASE \/ ReduceStart(t) \/ ReduceClaim(t) \/ ReduceDone(t)
           \/ EmitLock(t) \/ EmitSlot(t) \/ ReduceCount(t)
  BY <1>4 DEF ReduceStart, ReduceClaim, ReduceDone, EmitLock, EmitSlot, ReduceCount
<1> QED
  BY <1>1, <1>2, <1>3, <1>4 DEF thread_flow

LEMMA ClientThread ==
  ASSUME IInv, TypeInv', NEW t \in Threads, thread_flow(t)
  PROVE  ClientInv'
<1> USE DEF client, IInv
<1>1. /\ pc[t] # "done" /\ (pc[t] = "start" => t < created)
      /\ \A u \in Threads : u # t => pc'[u] = pc[u]
      /\ UNCHANGED <<inputVec, main, created, State>>
  BY OneThread
<1>2. \A u \in Threads : pc'[u] # "start" => u < created
  BY <1>1 DEF ClientInv
<1>3. main \notin {"joined", "closed"}
  BY <1>1 DEF ClientInv
<1>4. SeenDone' = SeenDone
  BY <1>1 DEF SeenDone
<1>5. ASSUME SeenDone PROVE atomic_state'.stage = REDUCE_STAGE
  <2>1. atomic_state.stage = REDUCE_STAGE
    BY <1>5 DEF ClientInv
  <2>2. atomic_state'.stage \in MAP_STAGE .. REDUCE_STAGE
    BY DEF TypeInv, Progress
  <2> QED
    BY <2>1, <2>2, ProgressStep DEF MAP_STAGE, REDUCE_STAGE
<1>6. ASSUME SeenDone PROVE Range(outputVec') = Groups
  <2>1. Range(outputVec) = Groups
    BY <1>5, <1>6 DEF ClientInv, FullMeansComplete, Groups
  <2>2. CASE outputVec' = outputVec
    BY <2>1, <2>2
  <2>3. CASE \E g \in Groups \ Range(outputVec) : outputVec' = Append(outputVec, g)
    BY <2>1, <2>3
  <2> QED
    BY <2>2, <2>3, OutputStep
<1>7. FullMeansComplete'
  BY <1>1, <1>4, <1>6, SameInput DEF FullMeansComplete, Groups
<1> QED
  BY <1>1, <1>2, <1>3, <1>4, <1>5, <1>7 DEF ClientInv

\* The client's own steps.
LEMMA ClientOwn ==
  ASSUME IInv, Client
  PROVE  StageInv' /\ ClientInv' /\ UNCHANGED <<inputVec, outputVec, atomic_state>>
<1> USE DEF IInv, jobVars, inputs, progress, shuffle, locals
<1>1. UNCHANGED <<inputVec, atomic_state, atomic_next_to_process, intermediateVec, beforeShuffle,
                  afterShuffle, temp, maxKey, outputVec, pc, x, old_val>>
  BY DEF Client, CreateThread, getJobState, waitForJob, Joined, closeJobHandle
<1>2. StageInv'
  BY <1>1, StageFrame
<1>3. ClientInv'
  <2>1. CASE CreateThread
    <3>1. created \in Nat /\ ThreadLevel \in Nat /\ created < ThreadLevel
      BY <2>1, MapReduceAssumption DEF CreateThread, ClientInv, TypeInv
    <3>2. main' = "create" => created' < ThreadLevel
      BY <2>1, <3>1 DEF CreateThread
    <3>3. \A u \in Threads : pc[u] # "start" => u < created'
      <4>1. \A u \in Threads : u \in Nat
        BY ThreadFacts
      <4> QED
        BY <2>1, <3>1, <4>1 DEF CreateThread, ClientInv
    <3>4. main' \notin {"joined", "closed"} /\ UNCHANGED State
      BY <2>1 DEF CreateThread
    <3> QED
      BY <1>1, <3>2, <3>3, <3>4 DEF ClientInv, FullMeansComplete, SeenDone
  <2>2. CASE getJobState
    <3>1. /\ main' = main /\ created' = created
          /\ State'.stage = atomic_state.stage
          /\ State'.percentage = "full" => atomic_state.count = atomic_state.total
      BY <2>2 DEF getJobState
    <3>2. ASSUME SeenDone' PROVE atomic_state.stage = REDUCE_STAGE /\ Range(outputVec) = Groups
      <4>1. /\ atomic_state.stage = REDUCE_STAGE
            /\ atomic_state.count = atomic_state.total
        BY <3>1, <3>2 DEF SeenDone
      <4>2. atomic_state.count >= atomic_state.total
        BY <4>1, CountFacts
      <4> QED
        BY <4>1, <4>2, FullIsComplete
    <3>3. FullMeansComplete'
      BY <1>1, <3>2, SameInput DEF FullMeansComplete, Groups
    <3> QED
      BY <1>1, <3>1, <3>2, <3>3 DEF ClientInv
  <2>3. CASE waitForJob \/ Joined \/ closeJobHandle
    <3>1. /\ UNCHANGED <<created, State>> /\ main' # "create"
          /\ main' \in {"joined", "closed"} => \A u \in Threads : pc[u] = "done"
      BY <2>3 DEF waitForJob, Joined, closeJobHandle, ClientInv
    <3> QED
      BY <1>1, <3>1 DEF ClientInv, FullMeansComplete, SeenDone
  <2> QED
    BY <2>1, <2>2, <2>3 DEF Client
<1> QED
  BY <1>1, <1>2, <1>3

-----------------------------------------------------------------------------
(* The invariant. *)

LEMMA InitInv == Init => IInv
<1> SUFFICES ASSUME Init PROVE IInv
  OBVIOUS
<1>1. 0 \in Threads /\ ThreadLevel \in Nat \ {0} /\ NoThread \notin Threads
  BY ThreadFacts, MapReduceAssumption
<1>2. \A t \in Threads : pc[t] = "start"
  BY DEF Init
<1>3. Len(inputVec) \in Nat
  BY InputFacts DEF Init
<1>4. atomic_state = [stage |-> MAP_STAGE, total |-> Len(inputVec), count |-> 0]
  BY DEF Init
<1>5. atomic_state \in Progress
  BY <1>3, <1>4 DEF Progress, MAP_STAGE, REDUCE_STAGE
<1>6. TypeInv
  <2>1. pc \in [Threads -> Labels] /\ x \in [Threads -> Progress]
    BY <1>5 DEF Init, Labels, MapWork
  <2>2. State \in [stage : UNDEFINED_STAGE .. REDUCE_STAGE, percentage : {"nan", "part", "full"}]
    BY DEF Init, UNDEFINED_STAGE, REDUCE_STAGE
  <2>3. created \in 0..ThreadLevel
    BY <1>1 DEF Init
  <2>4. /\ beforeShuffle = <<>> /\ afterShuffle = <<>> /\ temp = <<>> /\ outputVec = <<>>
        /\ intermediateVec = [t \in Threads |-> <<>>]
        /\ old_val = [t \in Threads |-> 0] /\ slot = [t \in Threads |-> 0]
        /\ inputVec \in Inputs /\ atomic_next_to_process = 0 /\ maxKey = 0
        /\ mutex = NoThread /\ main = "create" /\ thread_join = FALSE
    BY DEF Init
  <2>5. /\ beforeShuffle \in Seq(Seq(Pairs)) /\ afterShuffle \in Seq(Seq(Pairs))
        /\ temp \in Seq(Pairs) /\ outputVec \in Seq(SUBSET Pairs)
        /\ intermediateVec \in [Threads -> Seq(Pairs)]
        /\ old_val \in [Threads -> Nat] /\ slot \in [Threads -> Nat]
    BY <2>4
  <2> QED
    BY <1>5, <2>1, <2>2, <2>3, <2>4, <2>5 DEF TypeInv
<1>7. ControlInv
  <2>1. Round!IInv
    BY RoundInit DEF Init
  <2>2. \A t \in Threads : barrier_at[t] = "out"
    BY DEF Init, B!Init
  <2>3. atomic_state.stage = StageAt(pc[0])
    BY <1>1, <1>2, <1>4 DEF StageAt, MapWork
  <2> QED
    BY <1>2, <2>1, <2>2, <2>3 DEF ControlInv, ShuffleWork
<1>8. MutexInv
  BY <1>1, <1>2 DEF Init, MutexInv, Locked
<1>9. MapInv
  <2>1. Mapped = {}
    <3>1. \A i \in DOMAIN inputVec : ~(i <= 0)
      BY <1>3, InputFacts DEF Init
    <3> QED
      BY <3>1 DEF Mapped, Init
  <2>2. Pushed = {}
    BY <1>2 DEF Pushed, MapWork
  <2>3. ClaimInv
    BY <1>2, <1>4, <2>1, FS_EmptySet DEF ClaimInv
  <2>4. VectorInv
    <3>1. \A t \in Threads : intermediateVec[t] = <<>>
      BY DEF Init
    <3>2. DOMAIN intermediateVec = Threads
      BY DEF Init
    <3>3. NoneTwice(intermediateVec)
      BY <3>1, <3>2 DEF NoneTwice
    <3>4. Elements(intermediateVec) = {}
      BY <3>1, <3>2, NothingThere DEF Elements
    <3> QED
      BY <1>2, <2>1, <3>3, <3>4 DEF VectorInv
  <2>5. PushInv
    <3>1. beforeShuffle = <<>> /\ temp = <<>> /\ afterShuffle = <<>> /\ outputVec = <<>>
      BY DEF Init
    <3>2. Len(beforeShuffle) = Cardinality(Pushed)
      BY <2>2, <3>1, FS_EmptySet
    <3>3. UNION {Range(intermediateVec[t]) : t \in Pushed} = {}
      BY <2>2
    <3> QED
      BY <3>1, <3>2, <3>3, NothingThere DEF PushInv
  <2> QED
    BY <2>3, <2>4, <2>5 DEF MapInv
<1>10. StageInv
  BY <1>4, <1>9 DEF StageInv, MAP_STAGE, SHUFFLE_STAGE, REDUCE_STAGE
<1>11. ClientInv
  <2>1. created < ThreadLevel
    BY <1>1 DEF Init
  <2>2. ~SeenDone
    BY DEF Init, SeenDone, UNDEFINED_STAGE, REDUCE_STAGE
  <2> QED
    BY <1>2, <2>1, <2>2 DEF Init, ClientInv, FullMeansComplete
<1> QED
  BY <1>6, <1>7, <1>8, <1>10, <1>11 DEF IInv

LEMMA ThreadInv ==
  ASSUME IInv, NEW t \in Threads, thread_flow(t)
  PROVE  IInv'
<1> USE DEF IInv
<1>1. CASE \/ MapStart(t) \/ MapClaim(t) \/ MapItem(t) \/ MapDone(t)
           \/ SortAndLock(t) \/ PushSlot(t) \/ PushAndUnlock(t)
  <2>1. TypeInv'
    BY <1>1, TypeMapActions
  <2> QED
    BY <1>1, <2>1, ControlMapActions, MutexMapActions, StageMapActions, ClientThread
<1>2. CASE BarrierStep(t)
  <2>1. TypeInv'
    BY <1>2, TypeBarrier
  <2> QED
    BY <1>2, <2>1, ControlBarrier, MutexBarrier, StageBarrier, ClientThread
<1>3. CASE Shuffling(t)
  <2>1. TypeInv'
    BY <1>3, TypeShuffling
  <2> QED
    BY <1>3, <2>1, ControlShuffling, MutexShuffling, StageShuffling, ClientThread
<1>4. CASE \/ ReduceStart(t) \/ ReduceClaim(t) \/ ReduceDone(t)
           \/ EmitLock(t) \/ EmitSlot(t) \/ EmitAndUnlock(t) \/ ReduceCount(t)
  <2>1. TypeInv'
    BY <1>4, TypeReduceActions
  <2> QED
    BY <1>4, <2>1, ControlReduceActions, MutexReduceActions, StageReduceActions, ClientThread
<1> QED
  BY <1>1, <1>2, <1>3, <1>4 DEF thread_flow

LEMMA SameInv ==
  ASSUME IInv, UNCHANGED vars
  PROVE  IInv'
<1> USE DEF vars, inputs, progress, shuffle, locals, client
<1>1. UNCHANGED <<inputVec, atomic_state, atomic_next_to_process, intermediateVec, beforeShuffle,
                  afterShuffle, temp, maxKey, outputVec, pc, x, old_val, slot, mutex, main, created,
                  thread_join, State>> /\ UNCHANGED barrier
  OBVIOUS
<1>2. Pairs' = Pairs /\ Groups' = Groups
  BY <1>1, SameInput
<1>3. TypeInv'
  BY <1>1, <1>2 DEF IInv, TypeInv
<1>4. ControlInv'
  BY <1>1, ControlFrame DEF IInv
<1>5. MutexInv'
  BY <1>1 DEF IInv, MutexInv
<1>6. StageInv'
  BY <1>1, StageFrame DEF IInv
<1>7. ClientInv'
  BY <1>1, <1>2 DEF IInv, ClientInv, FullMeansComplete, SeenDone, Groups
<1> QED
  BY <1>3, <1>4, <1>5, <1>6, <1>7 DEF IInv

LEMMA NextInv == IInv /\ [Next]_vars => IInv'
<1> SUFFICES ASSUME IInv, [Next]_vars PROVE IInv'
  OBVIOUS
<1>1. CASE Client
  <2>1. TypeInv' /\ ControlInv' /\ MutexInv'
    BY <1>1, TypeClient, ControlClient, MutexClient DEF IInv
  <2> QED
    BY <1>1, <2>1, ClientOwn DEF IInv
<1>2. CASE UNCHANGED vars
  BY <1>2, SameInv
<1> QED
  BY <1>1, <1>2, ThreadInv DEF Next, Ended

LEMMA Invariance == Spec => []IInv
BY InitInv, NextInv, PTL DEF Spec

-----------------------------------------------------------------------------
(***************************************************************************)
(* How far the claims run ahead.  Each claim past the end of the vector    *)
(* stops the thread that made it, and only the next stage starts it again. *)
(***************************************************************************)
ClaimedVec == IF atomic_state.stage = REDUCE_STAGE THEN afterShuffle ELSE inputVec

Stopped ==
  {t \in Threads : IF atomic_state.stage = REDUCE_STAGE THEN pc[t] = "done"
                   ELSE pc[t] \notin {"start", "map", "mapping"}}

AheadInv ==
  /\ atomic_next_to_process <= Len(ClaimedVec) + Cardinality(Stopped)
  /\ pc[0] = "shuffle" => atomic_next_to_process = 0

LEMMA StoppedFacts ==
  /\ Stopped \in SUBSET Threads /\ IsFiniteSet(Stopped)
  /\ Cardinality(Stopped) \in Nat /\ Cardinality(Stopped) <= ThreadLevel
<1>1. Stopped \in SUBSET Threads
  BY DEF Stopped
<1> QED
  BY <1>1, ThreadFacts, FS_Subset, FS_CardinalityType

LEMMA StoppedFinite == IsFiniteSet(Stopped') /\ Cardinality(Stopped') \in Nat
<1>1. Stopped' \in SUBSET Threads
  BY DEF Stopped
<1> QED
  BY <1>1, ThreadFacts, FS_Subset, FS_CardinalityType

LEMMA MoreStopped ==
  ASSUME Stopped \subseteq Stopped'
  PROVE  /\ Cardinality(Stopped) \in Nat /\ Cardinality(Stopped)' \in Nat
         /\ Cardinality(Stopped) <= Cardinality(Stopped)'
BY StoppedFacts, StoppedFinite, FS_Subset

LEMMA ClaimTypes ==
  ASSUME TypeInv
  PROVE  /\ atomic_next_to_process \in Nat /\ Len(ClaimedVec) \in Nat
         /\ Len(inputVec) \in Nat /\ Len(afterShuffle) \in Nat
<1>1. /\ atomic_next_to_process \in Nat /\ inputVec \in Inputs
      /\ afterShuffle \in Seq(Seq(Pairs))
  BY DEF TypeInv
<1> QED
  BY <1>1, InputFacts DEF ClaimedVec

\* A thread that claims stops if there was nothing left to claim.
LEMMA ClaimAhead ==
  ASSUME TypeInv, TypeInv', AheadInv, NEW t \in Threads, t \notin Stopped,
         ClaimedVec' = ClaimedVec, atomic_next_to_process' = atomic_next_to_process + 1,
         Stopped' = IF atomic_next_to_process >= Len(ClaimedVec) THEN Stopped \cup {t} ELSE Stopped
  PROVE  atomic_next_to_process' <= Len(ClaimedVec)' + Cardinality(Stopped)'
<1>1. /\ atomic_next_to_process \in Nat /\ Len(ClaimedVec) \in Nat
      /\ Cardinality(Stopped) \in Nat /\ IsFiniteSet(Stopped)
  BY ClaimTypes, StoppedFacts
<1>2. Len(ClaimedVec)' = Len(ClaimedVec)
  OBVIOUS
<1>3. CASE atomic_next_to_process >= Len(ClaimedVec)
  <2>1. Cardinality(Stopped)' = Cardinality(Stopped) + 1
    BY <1>1, <1>3, FS_AddElement
  <2> QED
    BY <1>1, <1>2, <2>1 DEF AheadInv
<1>4. CASE ~(atomic_next_to_process >= Len(ClaimedVec))
  <2>1. Cardinality(Stopped)' = Cardinality(Stopped)
    BY <1>4
  <2> QED
    BY <1>1, <1>2, <1>4, <2>1
<1> QED
  BY <1>3, <1>4

\* What claims nothing and starts nobody again.
LEMMA NoClaim ==
  ASSUME TypeInv, AheadInv, ClaimedVec' = ClaimedVec, Stopped \subseteq Stopped',
         atomic_next_to_process' = atomic_next_to_process,
         pc'[0] = "shuffle" => pc[0] = "shuffle"
  PROVE  AheadInv'
<1>1. /\ atomic_next_to_process \in Nat /\ Len(ClaimedVec) \in Nat
      /\ Cardinality(Stopped) \in Nat /\ Cardinality(Stopped)' \in Nat
      /\ Cardinality(Stopped) <= Cardinality(Stopped)'
  BY ClaimTypes, MoreStopped
<1>2. Len(ClaimedVec)' = Len(ClaimedVec)
  OBVIOUS
<1>3. atomic_next_to_process <= Len(ClaimedVec) + Cardinality(Stopped)
  BY DEF AheadInv
<1>4. (atomic_next_to_process <= Len(ClaimedVec) + Cardinality(Stopped))'
  BY <1>1, <1>2, <1>3
<1> QED
  BY <1>4 DEF AheadInv

LEMMA ClaimsAtZero ==
  ASSUME TypeInv', atomic_next_to_process' = 0
  PROVE  AheadInv'
<1>1. Len(ClaimedVec)' \in Nat
  <2>1. inputVec' \in Seq(Seq(Nat)) /\ afterShuffle' \in Seq(Seq(Pairs'))
    BY MapReduceAssumption DEF TypeInv
  <2> QED
    BY <2>1 DEF ClaimedVec
<1>2. Cardinality(Stopped)' \in Nat
  BY StoppedFinite
<1> QED
  BY <1>1, <1>2 DEF AheadInv

LEMMA AheadMapClaim ==
  ASSUME IInv, AheadInv, TypeInv', NEW t \in Threads, MapClaim(t)
  PROVE  AheadInv'
<1>1. /\ pc[t] = "map" /\ pc \in [Threads -> Labels]
      /\ atomic_next_to_process' = atomic_next_to_process + 1
      /\ UNCHANGED <<inputVec, atomic_state>>
      /\ Goto(t, IF atomic_next_to_process >= Len(inputVec) THEN "sort" ELSE "mapping")
  BY DEF MapClaim, Claim, inputs, IInv, TypeInv
<1>2. /\ atomic_state.stage # REDUCE_STAGE
      /\ \A u \in Threads : pc[u] \in MapWork \cup {"barrier1"}
  BY <1>1, InMap DEF IInv, MapWork, MAP_STAGE, REDUCE_STAGE
<1>3. ClaimedVec = inputVec /\ ClaimedVec' = inputVec
  BY <1>1, <1>2 DEF ClaimedVec
<1>4. t \notin Stopped
  BY <1>1, <1>2 DEF Stopped
<1>5. Stopped' = IF atomic_next_to_process >= Len(ClaimedVec) THEN Stopped \cup {t} ELSE Stopped
  BY <1>1, <1>2, <1>3 DEF Stopped, Goto
<1>6. pc'[0] # "shuffle"
  BY <1>1, <1>2, ThreadFacts DEF Goto, MapWork
<1>7. atomic_next_to_process' <= Len(ClaimedVec)' + Cardinality(Stopped)'
  BY <1>1, <1>3, <1>4, <1>5, ClaimAhead DEF IInv
<1> QED
  BY <1>6, <1>7 DEF AheadInv

LEMMA AheadReduceClaim ==
  ASSUME IInv, AheadInv, TypeInv', NEW t \in Threads, ReduceClaim(t)
  PROVE  AheadInv'
<1>1. /\ pc[t] = "reduce" /\ pc \in [Threads -> Labels]
      /\ atomic_next_to_process' = atomic_next_to_process + 1
      /\ UNCHANGED <<afterShuffle, atomic_state>>
      /\ Goto(t, IF atomic_next_to_process >= Len(afterShuffle) THEN "done" ELSE "reducing")
  BY DEF ReduceClaim, Claim, shuffle, IInv, TypeInv
<1>2. /\ atomic_state.stage = REDUCE_STAGE
      /\ \A u \in Threads : pc[u] \in ReduceWork \cup {"barrier2"}
  BY <1>1, InReduce DEF IInv, ReduceWork
<1>3. ClaimedVec = afterShuffle /\ ClaimedVec' = afterShuffle
  BY <1>1, <1>2 DEF ClaimedVec
<1>4. t \notin Stopped
  BY <1>1, <1>2 DEF Stopped
<1>5. Stopped' = IF atomic_next_to_process >= Len(ClaimedVec) THEN Stopped \cup {t} ELSE Stopped
  BY <1>1, <1>2, <1>3 DEF Stopped, Goto
<1>6. pc'[0] # "shuffle"
  BY <1>1, <1>2, ThreadFacts DEF Goto, ReduceWork
<1>7. atomic_next_to_process' <= Len(ClaimedVec)' + Cardinality(Stopped)'
  BY <1>1, <1>3, <1>4, <1>5, ClaimAhead DEF IInv
<1> QED
  BY <1>6, <1>7 DEF AheadInv

\* A thread that moves on without claiming.
LEMMA AheadGoto ==
  ASSUME TypeInv, AheadInv, NEW t \in Threads, NEW label, Goto(t, label),
         label # "shuffle", UNCHANGED <<inputVec, afterShuffle, atomic_next_to_process>>,
         atomic_state'.stage = atomic_state.stage, pc[t] # "done",
         pc[t] \in {"start", "map", "mapping"} \/ label \notin {"start", "map", "mapping"}
  PROVE  AheadInv'
<1>1. pc \in [Threads -> Labels]
  BY DEF TypeInv
<1>2. ClaimedVec' = ClaimedVec
  BY DEF ClaimedVec
<1>3. Stopped \subseteq Stopped'
  BY <1>1 DEF Stopped, Goto
<1>4. pc'[0] = "shuffle" => pc[0] = "shuffle"
  BY <1>1, ThreadFacts DEF Goto
<1> QED
  BY <1>2, <1>3, <1>4, NoClaim

LEMMA AheadQuiet ==
  ASSUME IInv, AheadInv, NEW t \in Threads,
         \/ MapStart(t) \/ MapItem(t) \/ MapDone(t)
         \/ SortAndLock(t) \/ PushSlot(t) \/ PushAndUnlock(t)
         \/ ReduceStart(t) \/ ReduceDone(t)
         \/ EmitLock(t) \/ EmitSlot(t) \/ EmitAndUnlock(t) \/ ReduceCount(t)
  PROVE  AheadInv'
<1> USE DEF inputs, progress, shuffle
<1>1. TypeInv /\ atomic_state \in Progress
  BY DEF IInv, TypeInv
<1>2. ASSUME NEW n, Add(n) PROVE atomic_state'.stage = atomic_state.stage
  BY <1>1, <1>2 DEF Add, Progress
<1>3. CASE MapStart(t) \/ MapItem(t) \/ MapDone(t)
  <2>1. /\ UNCHANGED <<inputVec, afterShuffle, atomic_next_to_process>>
        /\ pc[t] \in {"start", "map", "mapping"}
        /\ Goto(t, "map") \/ Goto(t, "sort")
    BY <1>3 DEF MapStart, MapItem, MapDone
  <2>2. atomic_state'.stage = atomic_state.stage
    BY <1>2, <1>3 DEF MapStart, MapItem, MapDone, FetchAdd
  <2> QED
    BY <1>1, <2>1, <2>2, AheadGoto
<1>4. CASE SortAndLock(t) \/ PushSlot(t) \/ PushAndUnlock(t)
  <2>1. /\ UNCHANGED <<inputVec, afterShuffle, atomic_next_to_process, atomic_state>>
        /\ pc[t] # "done"
        /\ \E label \in {"push", "pushing", "barrier1"} : Goto(t, label)
    BY <1>4 DEF SortAndLock, PushSlot, PushAndUnlock
  <2> QED
    BY <1>1, <2>1, AheadGoto
<1>5. CASE \/ ReduceStart(t) \/ ReduceDone(t)
           \/ EmitLock(t) \/ EmitSlot(t) \/ EmitAndUnlock(t) \/ ReduceCount(t)
  <2>1. /\ UNCHANGED <<inputVec, afterShuffle, atomic_next_to_process>>
        /\ pc[t] # "done"
        /\ \E label \in {"reduce", "done", "emit", "emitting", "reduced"} : Goto(t, label)
    BY <1>5 DEF ReduceStart, ReduceDone, EmitLock, EmitSlot, EmitAndUnlock, ReduceCount
  <2>2. atomic_state'.stage = atomic_state.stage
    BY <1>2, <1>5 DEF ReduceStart, ReduceDone, EmitLock, EmitSlot, EmitAndUnlock, ReduceCount,
       FetchAdd
  <2> QED
    BY <1>1, <2>1, <2>2, AheadGoto
<1> QED
  BY <1>3, <1>4, <1>5

LEMMA AheadBarrier ==
  ASSUME IInv, AheadInv, NEW t \in Threads, BarrierStep(t)
  PROVE  AheadInv'
<1>1. /\ UNCHANGED <<inputVec, afterShuffle, atomic_next_to_process, atomic_state>>
      /\ pc[t] \in {"barrier1", "barrier2"}
      /\ pc' = pc \/ Goto(t, AfterBarrier(t))
  BY DEF BarrierStep, inputs, progress, shuffle
<1>2. CASE pc' = pc
  <2>1. ClaimedVec' = ClaimedVec /\ Stopped' = Stopped
    BY <1>1, <1>2 DEF ClaimedVec, Stopped
  <2> QED
    BY <1>1, <1>2, <2>1, NoClaim DEF IInv
<1>3. CASE Goto(t, AfterBarrier(t))
  <2>1. AfterBarrier(t) \in {"reduce_start", "reset_to_shuffle", "barrier2"}
    BY DEF AfterBarrier
  <2> QED
    BY <1>1, <1>3, <2>1, AheadGoto DEF IInv
<1> QED
  BY <1>1, <1>2, <1>3

\* The stage and the claims are reset while everybody else waits.
LEMMA AheadShuffling ==
  ASSUME IInv, AheadInv, TypeInv', NEW t \in Threads, Shuffling(t)
  PROVE  AheadInv'
<1> USE DEF inputs, locals
<1>1. TypeInv /\ ControlInv /\ atomic_state \in Progress /\ pc \in [Threads -> Labels]
  BY DEF IInv, TypeInv
<1>2. CASE ResetState(t, "reset_to_shuffle", "reset_shuffle_claims", SHUFFLE_STAGE,
                      beforeShuffle)
  <2>1. /\ pc[t] = "reset_to_shuffle" /\ Goto(t, "reset_shuffle_claims")
        /\ UNCHANGED <<inputVec, atomic_next_to_process>>
        /\ atomic_state'.stage = SHUFFLE_STAGE
    BY <1>2 DEF ResetState
  <2>2. t = 0 /\ atomic_state.stage = MAP_STAGE
    BY <1>1, <2>1, InShuffle DEF ShuffleWork
  <2>3. ClaimedVec' = ClaimedVec
    BY <2>1, <2>2 DEF ClaimedVec, MAP_STAGE, SHUFFLE_STAGE, REDUCE_STAGE
  <2>4. Stopped \subseteq Stopped'
    BY <1>1, <2>1, <2>2 DEF Stopped, Goto, MAP_STAGE, SHUFFLE_STAGE, REDUCE_STAGE
  <2>5. pc'[0] # "shuffle"
    BY <1>1, <2>1, <2>2 DEF Goto
  <2> QED
    BY <1>1, <2>1, <2>3, <2>4, <2>5, NoClaim
<1>3. CASE StartShuffle(t) \/ StartReduce(t)
  <2>1. atomic_next_to_process' = 0
    BY <1>3 DEF StartShuffle, StartReduce, ResetClaims
  <2> QED
    BY <2>1, ClaimsAtZero
<1>4. CASE ShufflePair(t) \/ EndGroup(t)
  <2>1. /\ pc[t] = "shuffle" /\ pc' = pc
        /\ UNCHANGED <<inputVec, atomic_next_to_process>>
        /\ atomic_state'.stage = atomic_state.stage
    BY <1>1, <1>4 DEF ShufflePair, EndGroup, Add, Progress, progress
  <2>2. atomic_state.stage = SHUFFLE_STAGE
    BY <1>1, <2>1, InShuffle DEF ShuffleWork
  <2>3. ClaimedVec' = ClaimedVec /\ Stopped' = Stopped
    BY <2>1, <2>2 DEF ClaimedVec, Stopped, SHUFFLE_STAGE, REDUCE_STAGE
  <2> QED
    BY <1>1, <2>1, <2>3, NoClaim
<1>5. CASE ShuffleDone(t)
  <2>1. pc[t] = "shuffle" /\ atomic_next_to_process' = atomic_next_to_process
    BY <1>5 DEF ShuffleDone, ResetState
  <2>2. t = 0
    BY <1>1, <2>1, InShuffle DEF ShuffleWork
  <2>3. atomic_next_to_process' = 0
    BY <2>1, <2>2 DEF AheadInv
  <2> QED
    BY <2>3, ClaimsAtZero
<1> QED
  BY <1>2, <1>3, <1>4, <1>5 DEF Shuffling

LEMMA AheadNext ==
  ASSUME IInv, AheadInv, [Next]_vars
  PROVE  AheadInv'
<1>1. CASE \E t \in Threads : thread_flow(t)
  <2>1. PICK t \in Threads : thread_flow(t)
    BY <1>1
  <2>2. TypeInv'
    BY <2>1, ThreadInv DEF IInv
  <2> QED
    BY <2>1, <2>2, AheadMapClaim, AheadReduceClaim, AheadQuiet, AheadBarrier, AheadShuffling
    DEF thread_flow
<1>2. CASE Client \/ UNCHANGED vars
  <2>1. UNCHANGED <<inputVec, afterShuffle, atomic_next_to_process, atomic_state, pc>>
    BY <1>2 DEF Client, CreateThread, getJobState, waitForJob, Joined, closeJobHandle, jobVars,
       vars, inputs, progress, shuffle, locals
  <2>2. ClaimedVec' = ClaimedVec /\ Stopped' = Stopped
    BY <2>1 DEF ClaimedVec, Stopped
  <2> QED
    BY <2>1, <2>2, NoClaim DEF IInv
<1> QED
  BY <1>1, <1>2 DEF Next, Ended

LEMMA AheadInit == Init => AheadInv
<1> SUFFICES ASSUME Init PROVE AheadInv
  OBVIOUS
<1>1. TypeInv
  BY InitInv DEF IInv
<1>2. atomic_next_to_process = 0
  BY DEF Init
<1> QED
  BY <1>1, <1>2, ClaimTypes, StoppedFacts DEF AheadInv

-----------------------------------------------------------------------------
(* The properties. *)

\* The fields of the job keep their types: the stage is a phase of thread_flow, the
\* mutex is free or held by a thread, no more vectors are pushed than there are
\* threads, and at(old_val) finds an element (MapReduceFramework.cpp:19-44, 176, 257).
THEOREM TypeCorrect == Spec => []JobTypeOK
<1>1. ASSUME IInv PROVE JobTypeOK
  <2> USE <1>1 DEF IInv
  <2>1. atomic_state.stage \in MAP_STAGE .. REDUCE_STAGE
    BY DEF TypeInv, Progress
  <2>2. B!BarrierTypeOK
    <3>1. Round!BarrierTypeOK
      BY DEF ControlInv, Round!IInv, Round!DemoTypeOK
    <3> QED
      BY <3>1, SameCount DEF B!BarrierTypeOK, B!numThreads, Round!BarrierTypeOK, Round!numThreads
  <2>3. Len(beforeShuffle) <= ThreadLevel
    <3>1. CASE atomic_state.stage = MAP_STAGE
      BY <3>1, PushedFacts DEF StageInv, MapInv, PushInv
    <3>2. CASE atomic_state.stage # MAP_STAGE
      BY <3>2 DEF StageInv, PlacesInv
    <3> QED
      BY <3>1, <3>2
  <2>4. State.percentage \in {"nan", "part", "full"}
    BY DEF TypeInv
  <2>5. mutex \in Threads \cup {NoThread} /\ created \in 0..ThreadLevel
    BY DEF TypeInv
  <2>6. ASSUME NEW t \in Threads, pc[t] = "mapping"
        PROVE  old_val[t] < Len(inputVec)
    <3>1. atomic_state.stage = MAP_STAGE
      BY <2>6, InMap DEF MapWork
    <3> QED
      BY <2>6, <3>1 DEF StageInv, MapInv, ClaimInv
  <2>7. ASSUME NEW t \in Threads, pc[t] \in {"reducing", "emit", "emitting", "reduced"}
        PROVE  old_val[t] < Len(afterShuffle)
    <3>1. atomic_state.stage = REDUCE_STAGE
      BY <2>7, InReduce DEF ReduceWork
    <3> QED
      BY <2>7, <3>1 DEF StageInv, ReduceInv, Reducing
  <2> QED
    BY <2>1, <2>2, <2>3, <2>4, <2>5, <2>6, <2>7 DEF JobTypeOK
<1> QED
  BY <1>1, Invariance, PTL

\* A stage's claims run past the end of its vector at most once per thread: who finds
\* nothing left breaks out of the loop (MapReduceFramework.cpp:171-175, 252-256).
THEOREM ClaimsStayBounded == Spec => []ClaimsBounded
<1>1. ASSUME IInv, AheadInv PROVE ClaimsBounded
  <2>1. atomic_next_to_process <= Len(ClaimedVec) + Cardinality(Stopped)
    BY <1>1 DEF AheadInv
  <2>2. /\ atomic_next_to_process \in Nat /\ Len(ClaimedVec) \in Nat /\ ThreadLevel \in Nat
        /\ Cardinality(Stopped) \in Nat /\ Cardinality(Stopped) <= ThreadLevel
    BY <1>1, ClaimTypes, StoppedFacts, MapReduceAssumption DEF IInv
  <2>3. atomic_next_to_process <= Len(ClaimedVec) + ThreadLevel
    BY <2>1, <2>2
  <2> QED
    BY <2>3 DEF ClaimsBounded, ClaimedVec
<1>2. IInv /\ AheadInv /\ [Next]_vars => AheadInv'
  BY AheadNext
<1> QED
  BY <1>1, <1>2, AheadInit, Invariance, PTL DEF Spec

\* The count never passes the total, so fetch_add on the packed word never carries
\* into the total or the stage (the macros of MapReduceFramework.cpp:9-13).
THEOREM CountInRange == Spec => []CountWithinTotal
<1>1. IInv => CountWithinTotal
  BY CountFacts DEF IInv, CountWithinTotal
<1> QED
  BY <1>1, Invariance, PTL

\* From reset_counter(SHUFFLE_STAGE) on, every pair emitted is in exactly one place:
\* no item was mapped twice or skipped, no push_back lost, no pair dropped or
\* doubled by the shuffle.
THEOREM NothingLost == Spec => []ShuffleConserves
<1>1. ASSUME IInv, atomic_state.stage # MAP_STAGE
      PROVE  LET places == beforeShuffle \o <<temp>> \o afterShuffle
             IN  NoneTwice(places) /\ Elements(places) = Pairs
  <2>1. PlacesInv
    BY <1>1 DEF IInv, StageInv
  <2>2. /\ beforeShuffle \in Seq(Seq(Pairs)) /\ temp \in Seq(Pairs)
        /\ afterShuffle \in Seq(Seq(Pairs))
    BY <1>1 DEF IInv, TypeInv
  <2> DEFINE places == beforeShuffle \o <<temp>> \o afterShuffle
  <2>3. Elements(places) = Elements(beforeShuffle) \cup Range(temp) \cup Elements(afterShuffle)
    BY <2>2, Places
  <2>4. NoneTwice(places)
    BY <2>1, <2>2, Places DEF PlacesInv
  <2>5. Elements(places) = Pairs
    BY <2>1, <2>3 DEF PlacesInv
  <2> QED
    BY <2>4, <2>5
<1>2. IInv => ShuffleConserves
  BY <1>1 DEF ShuffleConserves, Pairs
<1> QED
  BY <1>2, Invariance, PTL

\* A client to whom getJobState has reported REDUCE_STAGE and 100% finds the result of
\* every key in the output vector, though threads of the job may still run.
THEOREM CompleteAtFull == Spec => []FullMeansComplete
<1>1. IInv => FullMeansComplete
  BY DEF IInv, ClientInv
<1> QED
  BY <1>1, Invariance, PTL

\* What getJobState reads never goes back: the stage only advances, and within a
\* stage the total stays and the count grows.
THEOREM ProgressNeverBack == Spec => ProgressMonotone
<1>1. ASSUME IInv, [Next]_vars
      PROVE  [\/ atomic_state'.stage > atomic_state.stage
              \/ /\ atomic_state'.stage = atomic_state.stage
                 /\ atomic_state'.total = atomic_state.total
                 /\ atomic_state'.count >= atomic_state.count]_vars
  <2>1. CASE \E t \in Threads : thread_flow(t)
    BY <1>1, <2>1, ProgressStep DEF IInv
  <2>2. CASE Client
    <3>1. atomic_state' = atomic_state
      BY <1>1, <2>2, ClientOwn
    <3> QED
      BY <1>1, <3>1, CountFacts DEF IInv
  <2> QED
    BY <1>1, <2>1, <2>2 DEF Next, Ended
<1> QED
  BY <1>1, Invariance, PTL DEF Spec, ProgressMonotone

LEMMA RefinedInit == Init => Abstract!Init
BY DEF Init, Abstract!Init

\* Everything but emit3 and the last closeJobHandle is a stutter.
LEMMA RefinedNext ==
  ASSUME IInv, [Next]_vars
  PROVE  [Abstract!Emit \/ Abstract!Close]_<<inputVec, outputVec, main = "closed">>
<1>0. Abstract!Range(outputVec) = Range(outputVec)
  BY DEF Abstract!Range, Range
<1>1. CASE \E t \in Threads : thread_flow(t)
  <2>1. PICK t \in Threads : thread_flow(t)
    BY <1>1
  <2>2. UNCHANGED <<inputVec, main>> /\ pc[t] # "done"
    BY <2>1, OneThread DEF IInv, client
  <2>3. main # "closed"
    BY <2>2 DEF IInv, ClientInv
  <2>4. CASE outputVec' = outputVec
    BY <2>2, <2>4
  <2>5. CASE \E g \in Groups \ Range(outputVec) : outputVec' = Append(outputVec, g)
    BY <1>0, <2>2, <2>3, <2>5 DEF Abstract!Emit, Groups
  <2> QED
    BY <2>1, <2>4, <2>5, OutputStep DEF IInv
<1>2. CASE Client
  <2>1. UNCHANGED <<inputVec, outputVec>>
    BY <1>2, ClientOwn
  <2>2. CASE closeJobHandle
    <3>1. main = "joined" /\ main' = "closed"
      BY <2>2 DEF closeJobHandle
    <3>2. Range(outputVec) = Groups
      BY <3>1, EndedIsComplete DEF IInv, ClientInv
    <3> QED
      BY <1>0, <2>1, <3>1, <3>2 DEF Abstract!Close, Groups
  <2>3. CASE CreateThread \/ getJobState \/ waitForJob \/ Joined
    <3>1. main # "closed" /\ main' # "closed"
      BY <2>3 DEF CreateThread, getJobState, waitForJob, Joined
    <3> QED
      BY <2>1, <3>1
  <2> QED
    BY <1>2, <2>2, <2>3 DEF Client
<1>3. CASE UNCHANGED vars
  BY <1>3 DEF vars, inputs, client
<1> QED
  BY <1>1, <1>2, <1>3 DEF Next, Ended

\* The framework computes a map-reduce: reduce is called once per key with all of its
\* pairs, and closeJobHandle returns only with the output complete.
THEOREM Refinement == Spec => ImplementsMapReduce
<1>1. Init => Abstract!Init
  BY RefinedInit
<1>2. IInv /\ [Next]_vars =>
        [Abstract!Emit \/ Abstract!Close]_<<inputVec, outputVec, main = "closed">>
  BY RefinedNext
<1> QED
  BY <1>1, <1>2, Invariance, PTL DEF Spec, ImplementsMapReduce, Abstract!Spec
=============================================================================

---------------------------- MODULE Barrier_proofs ----------------------------
(***************************************************************************)
(* Proofs about Barrier, as BarrierDemo uses it: for any number of threads *)
(* and rounds the code is a barrier, and it implements AbstractBarrier.    *)
(* The specification is the one without spurious wakeups.                  *)
(***************************************************************************)
EXTENDS BarrierDemo, FiniteSetTheorems, TLAPS

\* The inductive invariant.  count and mutex decide who may go on, and the round
\* decides what the calls made so far have to do with it.
IInv == DemoTypeOK /\ CountIsWaiters /\ OneRoundAtATime

-----------------------------------------------------------------------------
(* Counting. *)

LEMMA NumThreads == numThreads \in Nat \ {0}
BY BarrierAssumption, FS_CardinalityType, FS_EmptySet DEF numThreads

LEMMA WaitersFinite == Waiters \subseteq Threads /\ IsFiniteSet(Waiters)
<1>1. Waiters \subseteq Threads
  BY DEF Waiters
<1> QED
  BY <1>1, BarrierAssumption, FS_Subset

\* The thread that finds the counter at numThreads - 1 is the last to arrive.
LEMMA LastToArrive ==
  ASSUME CountIsWaiters, NEW t \in Threads, at[t] = "arrive", count + 1 >= numThreads
  PROVE  Waiters = Threads \ {t}
<1>1. IsFiniteSet(Threads \ {t}) /\ Cardinality(Threads \ {t}) = numThreads - 1
  BY BarrierAssumption, FS_RemoveElement DEF numThreads
<1>2. Waiters \subseteq Threads \ {t}
  BY DEF Waiters
<1>3. Cardinality(Waiters) <= numThreads - 1
  BY <1>1, <1>2, FS_Subset
<1>4. Cardinality(Waiters) \in Nat
  BY WaitersFinite, FS_CardinalityType
<1>5. Cardinality(Waiters) = numThreads - 1
  BY <1>3, <1>4, NumThreads DEF CountIsWaiters
<1> QED
  BY <1>1, <1>2, <1>5, FS_Subset

-----------------------------------------------------------------------------
(* One lemma per action. *)

LEMMA InitInv == DemoInit => IInv
<1> SUFFICES ASSUME DemoInit PROVE IInv
  OBVIOUS
<1>1. Waiters = {} /\ Cardinality(Waiters) = 0
  BY FS_EmptySet DEF DemoInit, Init, Waiters
<1>2. DemoTypeOK
  BY NumThreads, BarrierDemoAssumption DEF DemoInit, Init, DemoTypeOK, BarrierTypeOK
<1>3. CountIsWaiters
  BY <1>1, BarrierAssumption DEF DemoInit, Init, CountIsWaiters
<1>4. OneRoundAtATime
  <2>1. /\ \A t \in Threads : passed[t] = IF t \in Leaving THEN 0 - 1 ELSE 0
        /\ \A t \in Threads \ Leaving : at[t] # "out" => 0 < Rounds
    BY DEF DemoInit, Init, Leaving
  <2> QED
    BY <2>1, BarrierDemoAssumption DEF OneRoundAtATime
<1> QED
  BY <1>2, <1>3, <1>4 DEF IInv

\* A step of one thread that is neither a wait nor a broadcast, nor crosses into
\* or out of a round, keeps the waiters and the round.
LEMMA SameWaiters ==
  ASSUME DemoTypeOK, NEW t \in Threads, at[t] # "wait", NEW p, p # "wait",
         at' = [at EXCEPT ![t] = p]
  PROVE  Waiters' = Waiters
BY DEF Waiters, DemoTypeOK, BarrierTypeOK

LEMMA CallInv ==
  ASSUME IInv, NEW t \in Threads, Call(t), passed[t] < Rounds, UNCHANGED passed
  PROVE  IInv'
<1> USE DEF IInv, DemoTypeOK, BarrierTypeOK
<1>1. DemoTypeOK'
  BY DEF Call
<1>2. CountIsWaiters'
  <2>1. Waiters' = Waiters
    BY SameWaiters DEF Call
  <2> QED
    BY <2>1 DEF Call, CountIsWaiters
<1>3. OneRoundAtATime'
  BY DEF Call, OneRoundAtATime, Leaving
<1> QED
  BY <1>1, <1>2, <1>3

LEMMA LockInv ==
  ASSUME IInv, NEW t \in Threads, Lock(t), UNCHANGED passed
  PROVE  IInv'
<1> USE DEF IInv, DemoTypeOK, BarrierTypeOK
<1>1. DemoTypeOK'
  BY DEF Lock
<1>2. CountIsWaiters'
  <2>1. Waiters' = Waiters
    BY SameWaiters DEF Lock
  <2> QED
    BY <2>1, BarrierAssumption DEF Lock, CountIsWaiters
<1>3. OneRoundAtATime'
  BY DEF Lock, OneRoundAtATime, Leaving
<1> QED
  BY <1>1, <1>2, <1>3

LEMMA WaitInv ==
  ASSUME IInv, NEW t \in Threads, Wait(t), UNCHANGED passed
  PROVE  IInv'
<1> USE DEF IInv, DemoTypeOK, BarrierTypeOK
<1>1. DemoTypeOK'
  BY NumThreads, BarrierAssumption DEF Wait
<1>2. CountIsWaiters'
  <2>1. Waiters' = Waiters \cup {t} /\ t \notin Waiters
    BY DEF Wait, Waiters
  <2>2. Cardinality(Waiters') = Cardinality(Waiters) + 1
    BY <2>1, WaitersFinite, FS_AddElement
  <2> QED
    BY <2>2, BarrierAssumption DEF Wait, CountIsWaiters
<1>3. OneRoundAtATime'
  BY DEF Wait, OneRoundAtATime, Leaving
<1> QED
  BY <1>1, <1>2, <1>3

\* The last thread to arrive ends the round for everybody.
LEMMA BroadcastInv ==
  ASSUME IInv, NEW t \in Threads, Broadcast(t), UNCHANGED passed
  PROVE  IInv'
<1> USE DEF IInv
<1>1. Waiters = Threads \ {t}
  BY LastToArrive DEF Broadcast
<1>2. at' = [u \in Threads |-> IF u = t THEN "unlock" ELSE "relock"]
  BY <1>1 DEF Broadcast
<1>3. DemoTypeOK'
  BY <1>2, NumThreads DEF Broadcast, DemoTypeOK, BarrierTypeOK
<1>4. CountIsWaiters'
  <2>1. Waiters' = {}
    BY <1>2 DEF Waiters
  <2>2. count' = Cardinality(Waiters')
    BY <2>1, FS_EmptySet DEF Broadcast
  <2>3. mutex = t /\ mutex' = t
    BY DEF Broadcast, CountIsWaiters
  <2> QED
    BY <1>2, <2>2, <2>3 DEF CountIsWaiters
<1>5. OneRoundAtATime'
  <2>1. PICK round \in 0..Rounds :
          /\ \A u \in Threads : passed[u] = IF u \in Leaving THEN round - 1 ELSE round
          /\ \A u \in Threads \ Leaving : at[u] # "out" => round < Rounds
    BY DEF OneRoundAtATime
  <2>2. Leaving = {} /\ Leaving' = Threads
    BY <1>1, <1>2 DEF Leaving, Waiters, Broadcast
  <2>3. round + 1 \in 0..Rounds
    BY <2>1, <2>2, BarrierDemoAssumption DEF Broadcast
  <2>4. \A u \in Threads : passed'[u] = (round + 1) - 1
    BY <2>1, <2>2
  <2> QED
    BY <2>2, <2>3, <2>4 DEF OneRoundAtATime
<1> QED
  BY <1>3, <1>4, <1>5

LEMMA RelockInv ==
  ASSUME IInv, NEW t \in Threads, Relock(t), UNCHANGED passed
  PROVE  IInv'
<1> USE DEF IInv, DemoTypeOK, BarrierTypeOK
<1>1. DemoTypeOK'
  BY DEF Relock
<1>2. CountIsWaiters'
  <2>1. Waiters' = Waiters
    BY SameWaiters DEF Relock
  <2> QED
    BY <2>1, BarrierAssumption DEF Relock, CountIsWaiters
<1>3. OneRoundAtATime'
  BY DEF Relock, OneRoundAtATime, Leaving
<1> QED
  BY <1>1, <1>2, <1>3

\* A thread that returns has caught up with the round.
LEMMA ReturnInv ==
  ASSUME IInv, NEW t \in Threads, Return(t), passed' = [passed EXCEPT ![t] = @ + 1]
  PROVE  IInv'
<1> USE DEF IInv, DemoTypeOK, BarrierTypeOK
<1>1. PICK round \in 0..Rounds :
        /\ \A u \in Threads : passed[u] = IF u \in Leaving THEN round - 1 ELSE round
        /\ \A u \in Threads \ Leaving : at[u] # "out" => round < Rounds
  BY DEF OneRoundAtATime
<1>2. t \in Leaving /\ Leaving' = Leaving \ {t} /\ passed'[t] = round
  BY <1>1, BarrierDemoAssumption DEF Return, Leaving
<1>3. DemoTypeOK'
  BY <1>2, BarrierDemoAssumption DEF Return
<1>4. CountIsWaiters'
  <2>1. Waiters' = Waiters
    BY SameWaiters DEF Return
  <2> QED
    BY <2>1, BarrierAssumption DEF Return, CountIsWaiters
<1>5. OneRoundAtATime'
  <2>1. \A u \in Threads : passed'[u] = IF u \in Leaving' THEN round - 1 ELSE round
    BY <1>1, <1>2
  <2>2. \A u \in Threads \ Leaving' : at'[u] # "out" => round < Rounds
    BY <1>1, <1>2 DEF Return
  <2> QED
    BY <2>1, <2>2 DEF OneRoundAtATime
<1> QED
  BY <1>3, <1>4, <1>5

LEMMA NextInv == IInv /\ [Next]_vars => IInv'
<1> SUFFICES ASSUME IInv, [Next]_vars PROVE IInv'
  OBVIOUS
<1>1. ASSUME NEW t \in Threads, foo(t) PROVE IInv'
  BY <1>1, CallInv, LockInv, WaitInv, BroadcastInv, RelockInv, ReturnInv DEF foo, Inside
<1>2. CASE UNCHANGED vars
  BY <1>2 DEF vars, barrierVars, IInv, DemoTypeOK, BarrierTypeOK, CountIsWaiters, Waiters,
              OneRoundAtATime, Leaving
<1> QED
  BY <1>1, <1>2 DEF Next

LEMMA Invariance == Spec => []IInv
BY InitInv, NextInv, PTL DEF Spec

-----------------------------------------------------------------------------
(* What the invariant says of the barrier. *)

\* The fields and the threads' positions keep their types; in particular count
\* stays below numThreads (Barrier.h:14-17).
THEOREM TypeCorrect == Spec => []DemoTypeOK
<1>1. IInv => DemoTypeOK
  BY DEF IInv
<1> QED
  BY <1>1, Invariance, PTL

\* The mutex excludes and count is the number of waiting threads, so the last
\* thread of a round always finds numThreads - 1 (Barrier.cpp:29-45).
THEOREM WaitersCounted == Spec => []CountIsWaiters
<1>1. IInv => CountIsWaiters
  BY DEF IInv
<1> QED
  BY <1>1, Invariance, PTL

\* The threads are in one round or leaving the one before (Barrier.cpp:33-44).
THEOREM RoundsDoNotMix == Spec => []OneRoundAtATime
<1>1. IInv => OneRoundAtATime
  BY DEF IInv
<1> QED
  BY <1>1, Invariance, PTL

\* How far a thread can be ahead of another.
LEMMA RoundBounds ==
  ASSUME IInv
  PROVE  \E round \in 0..Rounds :
           /\ \A t \in Threads : passed[t] <= round /\ round <= entered[t]
           /\ \A t \in Leaving : entered[t] = round /\ passed[t] = round - 1
<1>1. PICK round \in 0..Rounds :
        \A t \in Threads : passed[t] = IF t \in Leaving THEN round - 1 ELSE round
  BY DEF IInv, OneRoundAtATime
<1>2. ASSUME NEW t \in Threads
      PROVE  /\ passed[t] <= round /\ round <= entered[t]
             /\ t \in Leaving => entered[t] = round
  BY <1>1, BarrierDemoAssumption DEF entered, Leaving
<1>3. Leaving \subseteq Threads
  BY DEF Leaving
<1> QED
  BY <1>1, <1>2, <1>3

\* No call of barrier() returns before every thread has made that call
\* (Barrier.h:5), for any number of threads and of rounds.
THEOREM NobodyLeavesEarly == Spec => []NoEarlyReturn
<1>1. IInv => NoEarlyReturn
  <2> SUFFICES ASSUME IInv, NEW t \in Threads, NEW u \in Threads
               PROVE  passed[t] <= entered[u]
    BY DEF NoEarlyReturn
  <2>1. PICK round \in 0..Rounds : passed[t] <= round /\ round <= entered[u]
    BY RoundBounds
  <2>2. passed[t] \in Int /\ entered[u] \in Int
    BY BarrierDemoAssumption DEF IInv, DemoTypeOK, entered
  <2> QED
    BY <2>1, <2>2, BarrierDemoAssumption
<1> QED
  BY <1>1, Invariance, PTL

-----------------------------------------------------------------------------
(***************************************************************************)
(* The safety part of IsMultiUseBarrier: a call enters, a return leaves,   *)
(* and every other step of the code is a stutter of AbstractBarrier.       *)
(***************************************************************************)
LEMMA RefinedInit == DemoInit => Abstract!Init
BY DEF DemoInit, Init, Abstract!Init, entered

LEMMA CallEnters ==
  ASSUME IInv, NEW t \in Threads, Call(t), passed[t] < Rounds, UNCHANGED passed
  PROVE  Abstract!Enter(t)
<1>1. passed[t] = entered[t]
  BY BarrierDemoAssumption DEF IInv, DemoTypeOK, Call, entered
<1>2. entered' = [entered EXCEPT ![t] = @ + 1]
  <2>1. \A u \in Threads : entered'[u] = IF u = t THEN entered[u] + 1 ELSE entered[u]
    BY BarrierDemoAssumption DEF IInv, DemoTypeOK, BarrierTypeOK, Call, entered
  <2>2. /\ entered' = [u \in Threads |-> entered'[u]]
        /\ DOMAIN entered = Threads /\ entered = [u \in Threads |-> entered[u]]
    BY DEF entered
  <2> HIDE DEF entered
  <2> QED
    BY <2>1, <2>2
<1> QED
  BY <1>1, <1>2 DEF Abstract!Enter

LEMMA ReturnLeaves ==
  ASSUME IInv, NEW t \in Threads, Return(t), passed' = [passed EXCEPT ![t] = @ + 1]
  PROVE  Abstract!Leave(t)
<1>1. PICK round \in 0..Rounds :
        /\ \A u \in Threads : round <= entered[u]
        /\ \A u \in Leaving : entered[u] = round /\ passed[u] = round - 1
  BY RoundBounds
<1>2. entered[t] = round /\ passed[t] = round - 1
  BY <1>1 DEF Return, Leaving
<1>3. UNCHANGED entered
  BY BarrierDemoAssumption DEF IInv, DemoTypeOK, BarrierTypeOK, Return, entered
<1> QED
  BY <1>1, <1>2, <1>3, BarrierDemoAssumption DEF Abstract!Leave

LEMMA InsideStutters ==
  ASSUME IInv, NEW t \in Threads, Inside(t), UNCHANGED passed
  PROVE  UNCHANGED entered
<1>1. \A u \in Threads : at'[u] = "out" <=> at[u] = "out"
  BY DEF IInv, DemoTypeOK, BarrierTypeOK, Inside, Lock, Wait, Broadcast, Relock, Waiters
<1> QED
  BY <1>1 DEF entered

LEMMA RefinedNext == IInv /\ [Next]_vars => [Abstract!Next]_(Abstract!vars)
<1> SUFFICES ASSUME IInv, [Next]_vars PROVE [Abstract!Next]_(Abstract!vars)
  OBVIOUS
<1>1. ASSUME NEW t \in Threads, foo(t) PROVE [Abstract!Next]_(Abstract!vars)
  <2>1. CASE Call(t) /\ passed[t] < Rounds /\ UNCHANGED passed
    BY <2>1, CallEnters DEF Abstract!Next
  <2>2. CASE Inside(t) /\ UNCHANGED passed
    BY <2>2, InsideStutters DEF Abstract!vars
  <2>3. CASE Return(t) /\ passed' = [passed EXCEPT ![t] = @ + 1]
    BY <2>3, ReturnLeaves DEF Abstract!Next
  <2> QED
    BY <1>1, <2>1, <2>2, <2>3 DEF foo
<1>2. CASE UNCHANGED vars
  BY <1>2 DEF vars, barrierVars, entered, Abstract!vars
<1> QED
  BY <1>1, <1>2 DEF Next

\* Every behaviour of the code is one of the abstract barrier: nobody leaves a
\* round before everybody has entered it (Barrier.cpp:27-49).
THEOREM ImplementsBarrier == Spec => Abstract!Init /\ [][Abstract!Next]_(Abstract!vars)
BY RefinedInit, RefinedNext, Invariance, PTL DEF Spec
=============================================================================

----------------------------- MODULE BarrierDemo -----------------------------
(***************************************************************************)
(* The program of Ex03/Barrier/barrierdemo.cpp: every thread calls         *)
(* barrier() Rounds times.  The same use, with two rounds and work between *)
(* them, is what thread_flow of the MapReduce framework makes of it.       *)
(***************************************************************************)
EXTENDS Barrier

CONSTANT Rounds

ASSUME BarrierDemoAssumption == Rounds \in Nat

VARIABLE passed   \* how many of its calls of barrier() each thread has returned from

vars == <<barrierVars, passed>>

DemoInit == Init /\ passed = [t \in Threads |-> 0]

\* foo: the next barrier of thread t, after it has printed where it is.
foo(t) ==
  \/ Call(t) /\ passed[t] < Rounds /\ UNCHANGED passed
  \/ Inside(t) /\ UNCHANGED passed
  \/ Return(t) /\ passed' = [passed EXCEPT ![t] = @ + 1]

Finished == \A t \in Threads : passed[t] = Rounds

Next == (\E t \in Threads : foo(t)) \/ (Finished /\ UNCHANGED vars)

\* Every thread keeps being scheduled.  A mutex that others keep taking is still
\* obtained in the end, because each takes it a bounded number of times.
Spec == DemoInit /\ [][Next]_vars /\ \A t \in Threads : WF_vars(foo(t))

\* The same program when pthread_cond_wait wakes up spuriously, as POSIX allows.
PosixSpec ==
  DemoInit /\ [][Next \/ \E t \in Threads : SpuriousWakeup(t) /\ UNCHANGED passed]_vars

-----------------------------------------------------------------------------
\* Types of the barrier's fields and of the call counters (Barrier.h:14-17).
DemoTypeOK ==
  /\ BarrierTypeOK
  /\ passed \in [Threads -> 0..Rounds]

entered == [t \in Threads |-> passed[t] + IF at[t] = "out" THEN 0 ELSE 1]

\* At most one thread is between lock and unlock, and it holds the mutex; count
\* is the number of threads of this round that wait, so the last one to arrive
\* always finds numThreads - 1 and no wakeup is lost (Barrier.cpp:29-45).
CountIsWaiters ==
  /\ count = Cardinality(Waiters)
  /\ \A t \in Threads : at[t] \in {"arrive", "unlock"} <=> mutex = t

Leaving == {t \in Threads : at[t] \in {"relock", "unlock"}}

\* All threads are in the same round, or still leaving the one before: although
\* count says nothing of rounds, no round is over twice and none is entered by
\* some threads only and left by others (Barrier.cpp:33-44).
OneRoundAtATime ==
  \E round \in 0..Rounds :
    /\ \A t \in Threads : passed[t] = IF t \in Leaving THEN round - 1 ELSE round
    /\ \A t \in Threads \ Leaving : at[t] # "out" => round < Rounds

Abstract == INSTANCE AbstractBarrier WITH left <- passed

\* The code is a barrier for as many rounds as it is used: nobody leaves a round
\* before everybody entered it, and everybody leaves it (Barrier.h:5).
IsMultiUseBarrier == Abstract!Spec

\* barrierdemo.cpp:48: every thread can be joined.
EveryThreadEnds == <>[]Finished

\* Barrier.h:5, "a multiple use barrier": no call of barrier() returns before
\* every thread has made that call.
NoEarlyReturn == \A t, u \in Threads : passed[t] <= entered[u]
=============================================================================

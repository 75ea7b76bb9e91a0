--------------------------- MODULE AbstractBarrier ---------------------------
(***************************************************************************)
(* What a barrier that can be used many times promises: nobody leaves a    *)
(* round before everybody has entered it.  It says nothing of mutexes,     *)
(* counters or wait sets.                                                  *)
(***************************************************************************)
EXTENDS Naturals

CONSTANTS
  Threads,
  Rounds    \* how many times each thread uses the barrier

VARIABLES
  entered,  \* the rounds each thread has entered
  left      \* the rounds each thread has left

vars == <<entered, left>>

Init ==
  /\ entered = [t \in Threads |-> 0]
  /\ left = [t \in Threads |-> 0]

Enter(t) ==
  /\ left[t] = entered[t] /\ entered[t] < Rounds
  /\ entered' = [entered EXCEPT ![t] = @ + 1]
  /\ UNCHANGED left

Leave(t) ==
  /\ left[t] < entered[t]
  /\ \A u \in Threads : entered[t] <= entered[u]
  /\ left' = [left EXCEPT ![t] = @ + 1]
  /\ UNCHANGED entered

Next == \E t \in Threads : Enter(t) \/ Leave(t)

\* Once everybody has entered a round, everybody leaves it.
Spec == Init /\ [][Next]_vars /\ \A t \in Threads : WF_vars(Leave(t))
=============================================================================

------------------------------- MODULE Barrier -------------------------------
(***************************************************************************)
(* The Barrier class of Ex03 (Barrier.cpp): a counter protected by a mutex *)
(* and a condition variable on which all but the last thread wait.         *)
(*                                                                         *)
(* One action per synchronisation call of barrier(); at[t] is the call     *)
(* thread t is about to return from.  The wait set of the condition        *)
(* variable is the set of threads at "wait".                               *)
(***************************************************************************)
EXTENDS Naturals, FiniteSets

CONSTANTS
  Threads,    \* the threads that share the barrier; numThreads of them
  NoThread    \* what holds a free mutex

ASSUME BarrierAssumption ==
  /\ IsFiniteSet(Threads) /\ Threads # {}
  /\ NoThread \notin Threads

VARIABLES
  mutex,   \* the thread that holds the mutex, or NoThread
  count,
  at       \* "out", "lock", "arrive", "wait", "relock" or "unlock"

barrierVars == <<mutex, count, at>>
numThreads  == Cardinality(Threads)
Waiters     == {t \in Threads : at[t] = "wait"}

Init ==
  /\ mutex = NoThread
  /\ count = 0
  /\ at = [t \in Threads |-> "out"]

\* Thread t calls barrier().
Call(t) ==
  /\ at[t] = "out"
  /\ at' = [at EXCEPT ![t] = "lock"]
  /\ UNCHANGED <<mutex, count>>

Lock(t) ==
  /\ at[t] = "lock" /\ mutex = NoThread
  /\ mutex' = t
  /\ at' = [at EXCEPT ![t] = "arrive"]
  /\ UNCHANGED count

\* pthread_cond_wait releases the mutex and joins the wait set in one step.
Wait(t) ==
  /\ at[t] = "arrive" /\ count + 1 < numThreads
  /\ count' = count + 1
  /\ mutex' = NoThread
  /\ at' = [at EXCEPT ![t] = "wait"]

\* Mutant of Broadcast: the counter is not reset for the next round.
BroadcastWithoutReset(t) ==
  /\ at[t] = "arrive" /\ count + 1 >= numThreads
  /\ at' = [u \in Threads |-> IF u = t THEN "unlock"
                              ELSE IF u \in Waiters THEN "relock" ELSE at[u]]
  /\ count' = count + 1
  /\ UNCHANGED mutex

\* Mutant of Broadcast: pthread_cond_signal, which wakes one waiter.
SignalOne(t) ==
  /\ at[t] = "arrive" /\ count + 1 >= numThreads
  /\ count' = 0
  /\ \E w \in Waiters :
       at' = [at EXCEPT ![w] = "relock", ![t] = "unlock"]
  /\ UNCHANGED mutex

Broadcast(t) ==
  /\ at[t] = "arrive" /\ count + 1 >= numThreads
  /\ count' = 0
  /\ at' = [u \in Threads |-> IF u = t THEN "unlock"
                              ELSE IF u \in Waiters THEN "relock" ELSE at[u]]
  /\ UNCHANGED mutex

\* POSIX lets pthread_cond_wait return without a broadcast; barrier() does not
\* look at count again when it does.  Not a step of Inside: a client that wants
\* it adds it.
SpuriousWakeup(t) ==
  /\ at[t] = "wait"
  /\ at' = [at EXCEPT ![t] = "relock"]
  /\ UNCHANGED <<mutex, count>>

\* pthread_cond_wait takes the mutex again before it returns.
Relock(t) ==
  /\ at[t] = "relock" /\ mutex = NoThread
  /\ mutex' = t
  /\ at' = [at EXCEPT ![t] = "unlock"]
  /\ UNCHANGED count

\* The mutex is released and barrier() returns.
Return(t) ==
  /\ at[t] = "unlock"
  /\ mutex' = NoThread
  /\ at' = [at EXCEPT ![t] = "out"]
  /\ UNCHANGED count

\* A step inside barrier() that is neither its call nor its return.
Inside(t) == Lock(t) \/ Wait(t) \/ Broadcast(t) \/ Relock(t)

BarrierTypeOK ==
  /\ mutex \in Threads \cup {NoThread}
  /\ count \in 0 .. numThreads - 1
  /\ at \in [Threads -> {"out", "lock", "arrive", "wait", "relock", "unlock"}]
=============================================================================

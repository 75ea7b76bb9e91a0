-------------------------- MODULE MCUThreadsSignals --------------------------
(* An instance of UThreadsSignals for TLC. *)
EXTENDS UThreadsSignals

CONSTANT MainObj  \* the address of the main thread's object

\* The library compares addresses and never orders them, so which one the main
\* thread has makes no difference; fixing it stands in for a symmetry set, which
\* cannot be used with a liveness property.
InitFromMain == SignalInit /\ running_thread = MainObj

FairSpecFromMain == InitFromMain /\ [][SignalNext]_allVars /\ Fairness
=============================================================================

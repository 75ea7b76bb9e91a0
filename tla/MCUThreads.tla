----------------------------- MODULE MCUThreads -----------------------------
(* Instances of UThreads for TLC. *)
EXTENDS UThreads

\* Addresses are interchangeable: the library compares pointers, never orders them.
Symmetry == Permutations(Obj)
=============================================================================

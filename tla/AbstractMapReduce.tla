-------------------------- MODULE AbstractMapReduce --------------------------
(***************************************************************************)
(* What a map-reduce job promises its client: the pairs emitted by map for *)
(* all the inputs are grouped by key, reduce is called once for each key   *)
(* with all the pairs of that key, and when the job is closed the output   *)
(* vector holds one result per key.  Threads, phases, counters and locks   *)
(* are not mentioned.                                                      *)
(***************************************************************************)
EXTENDS Naturals, Sequences, SequencesExt

CONSTANT Inputs   \* the input vectors: Inputs[i][n] is the n-th key map(i) emits

VARIABLES
  inputVec,
  outputVec,   \* for each call of reduce, the group of pairs it was given
  closed

\* An intermediate pair: its key, and the emit2 call that made it.
PairsOf(input) ==
  UNION {{[key |-> input[i][n], item |-> i, nth |-> n] : n \in DOMAIN input[i]} :
           i \in DOMAIN input}

Group(input, key) == {p \in PairsOf(input) : p.key = key}
Groups(input) == {Group(input, p.key) : p \in PairsOf(input)}

Init ==
  /\ inputVec \in Inputs
  /\ outputVec = <<>>
  /\ closed = FALSE

Emit ==
  /\ ~closed
  /\ \E g \in Groups(inputVec) \ Range(outputVec) : outputVec' = Append(outputVec, g)
  /\ UNCHANGED <<inputVec, closed>>

Close ==
  /\ Range(outputVec) = Groups(inputVec)
  /\ closed' = TRUE
  /\ UNCHANGED <<inputVec, outputVec>>

Spec == Init /\ [][Emit \/ Close]_<<inputVec, outputVec, closed>>
=============================================================================

----------------------------- MODULE MCMapReduce -----------------------------
(* Instances of MapReduce for TLC. *)
EXTENDS MapReduce

\* Keys emitted by different items and by the same item, a repeated key, an item
\* that emits nothing, an empty input vector.
MixedInputs == {<<>>, <<<<1>>, <<2, 1>>>>, <<<<>>, <<1, 1>>, <<2>>>>}

\* Jobs without a single intermediate pair.
EmptyInputs == {<<>>, <<<<>>>>}
=============================================================================

------------------------------ MODULE MCBatch ------------------------------
(* BatchProcessing with small bounds: the addresses are interchangeable.   *)
EXTENDS BatchProcessing

Symmetry == Permutations(Task)

====

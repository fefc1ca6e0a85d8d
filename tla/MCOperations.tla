--------------------------- MODULE MCOperations ---------------------------
(* Operations with interchangeable workers, for the safety properties.     *)
EXTENDS Operations, TLC

WorkerSymmetry == Permutations(Workers)
=============================================================================

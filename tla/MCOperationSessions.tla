------------------------ MODULE MCOperationSessions ------------------------
(* OperationSessions with interchangeable workers and clients; only safety *)
(* properties are checked, so the symmetry is sound.                       *)
EXTENDS OperationSessions, TLC

ProcessSymmetry == Permutations(Workers) \cup Permutations(Clients)
=============================================================================

-------------------------- MODULE MCWorkerRuntime --------------------------
(* WorkerRuntime with the output manifests of a bounded number of attempts *)
(* and interchangeable workers.                                            *)
EXTENDS WorkerRuntime, TLC

MCOutputs == [payload : Payloads, attempt : 1 .. MaxAttempts + Cardinality(Workers)]

WorkerSymmetry == Permutations(Workers)
=============================================================================

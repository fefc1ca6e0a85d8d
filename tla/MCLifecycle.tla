---------------------------- MODULE MCLifecycle ----------------------------
(* Lifecycle with interchangeable processes, actors and assets.            *)
EXTENDS Lifecycle, TLC

CallSymmetry ==
    Permutations(Processes) \cup Permutations(Actors) \cup Permutations(Assets)
=============================================================================

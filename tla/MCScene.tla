------------------------------ MODULE MCScene ------------------------------
EXTENDS ChangeReview, TLC

(* Callers, review keys and actors are interchangeable.                    *)
Symmetry ==
    Permutations(Callers) \cup Permutations(ReviewKeys) \cup Permutations(Actors)
=============================================================================

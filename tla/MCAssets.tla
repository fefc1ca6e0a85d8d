----------------------------- MODULE MCAssets -----------------------------
(* Assets with interchangeable processes and asset ids.                    *)
EXTENDS Assets, TLC

CallSymmetry == Permutations(Processes) \cup Permutations(Assets)
=============================================================================

------------------------------ MODULE MCTopics ------------------------------
(* Small instances of Topics for TLC. *)
EXTENDS Topics, TLC

Symmetry == Permutations(Topics) \cup Permutations(Windows)
                \cup Permutations(ClaimIds)
=============================================================================

--------------------------- MODULE MCAccountSync ---------------------------
(* Instances of AccountSync for TLC. *)
EXTENDS AccountSync, TLC

Symmetry == Permutations(Token)
=============================================================================

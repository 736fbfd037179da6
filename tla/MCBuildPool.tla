---------------------------- MODULE MCBuildPool ----------------------------
(* Instances of BuildPool for TLC. *)
EXTENDS BuildPool, TLC

Symmetry == Permutations(Account)
=============================================================================

---------------------------- MODULE MCRedisSync ----------------------------
(* Instances of RedisSync for TLC. *)
EXTENDS RedisSync, TLC

Symmetry == Permutations(Token) \cup Permutations(Writer)
=============================================================================

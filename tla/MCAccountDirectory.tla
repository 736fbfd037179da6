------------------------- MODULE MCAccountDirectory -------------------------
(* Instances of AccountDirectory for TLC. *)
EXTENDS AccountDirectory, TLC

OneMode  == <<"auto">>
TwoModes == <<"auto", "fast">>

Retryable == {"rate_limited", "unauthorized"}

Symmetry == Permutations(Token)
=============================================================================

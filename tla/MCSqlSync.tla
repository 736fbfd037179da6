----------------------------- MODULE MCSqlSync -----------------------------
(* Instances of SqlSync for TLC. *)
EXTENDS SqlSync, TLC
=============================================================================

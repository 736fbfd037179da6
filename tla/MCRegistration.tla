--------------------------- MODULE MCRegistration ---------------------------
(* Instances of RegistrationManager for TLC. *)
EXTENDS RegistrationManager, TLC

AnyAddress == Permutations(Address)

OneWanted == [s \in Setting |-> IF s \in {"on", "builds", "no_providers"} THEN 1 ELSE 0]

OneInbox == [a \in Address |-> "c1"]
=============================================================================

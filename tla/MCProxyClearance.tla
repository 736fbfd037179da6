-------------------------- MODULE MCProxyClearance --------------------------
(* Instances of ProxyClearance for TLC. *)
EXTENDS ProxyClearance

OnePool  == [g \in Config |-> <<"p1", "p2">>]
TwoPools == [g \in Config |-> IF g = FirstConfig THEN <<"p1", "p2">> ELSE <<"p2">>]
=============================================================================

------------------------------ MODULE Replica ------------------------------
(***************************************************************************)
(* What a reader may expect of a table that follows a store: a key that is *)
(* not marked dirty shows the store's current value.  Writes mark keys      *)
(* dirty; a delivery may change dirty keys only, may leave an old value on  *)
(* a key that stays dirty, and may clean a key only by showing its truth.   *)
(***************************************************************************)
CONSTANTS Key, Value, Empty

VARIABLES truth, view, dirty

rvars == <<truth, view, dirty>>

Init ==
  /\ truth = [k \in Key |-> Empty]
  /\ view  = [k \in Key |-> Empty]
  /\ dirty \in SUBSET Key

Write ==
  /\ truth' \in [Key -> Value]
  /\ \A k \in Key : truth'[k] # truth[k] => k \in dirty'
  /\ dirty \subseteq dirty'
  /\ dirty' \subseteq Key
  /\ UNCHANGED view

Deliver ==
  /\ dirty' \subseteq dirty
  /\ view' \in [Key -> Value]
  /\ \A k \in Key \ dirty : view'[k] = view[k]
  /\ \A k \in dirty \ dirty' : view'[k] = truth[k]
  /\ UNCHANGED truth

Forget ==
  /\ view' = [k \in Key |-> Empty]
  /\ dirty' = Key
  /\ UNCHANGED truth

Next == Write \/ Deliver \/ Forget

Spec == Init /\ [][Next]_rvars

(* A clean key is never wrong. *)
CleanIsTrue == \A k \in Key \ dirty : view[k] = truth[k]
=============================================================================

------------------------------ MODULE LeasePool ------------------------------
(***************************************************************************)
(* What the account directory promises its callers: each account is a       *)
(* counting semaphore of Cap units, a request holds at most one account at  *)
(* a time, and gives back what it took.                                     *)
(***************************************************************************)
EXTENDS Naturals, FiniteSets

CONSTANTS
  Client,     \* requests
  Item,       \* accounts
  Nothing,    \* held by a client that holds no account
  Cap         \* concurrent leases of one account

VARIABLE holding

Init == holding = [c \in Client |-> Nothing]

Take(c, i) ==
  /\ holding[c] = Nothing
  /\ Cardinality({d \in Client : holding[d] = i}) < Cap
  /\ holding' = [holding EXCEPT ![c] = i]

GiveBack(c) ==
  /\ holding[c] # Nothing
  /\ holding' = [holding EXCEPT ![c] = Nothing]

Next == \E c \in Client : (\E i \in Item : Take(c, i)) \/ GiveBack(c)

Spec == Init /\ [][Next]_holding
=============================================================================

---------------------------- MODULE OutlookPool ----------------------------
(***************************************************************************)
(* The pool of Microsoft mailboxes of the registration                      *)
(* (control/registration/mail.py): credentials, the plus-aliases that share *)
(* one credential and one inbox, and the file of marks the API and the      *)
(* registration child both rewrite.  Operators only: who calls them is the  *)
(* business of RegistrationWorker and RegistrationManager.                  *)
(*                                                                         *)
(* Every read-modify-write of the file is one step; that the two processes  *)
(* have no common lock around it is left out, and so is the access token    *)
(* that is kept for ten minutes.                                            *)
(***************************************************************************)
EXTENDS Naturals, FiniteSets

CONSTANTS
  Address,    \* the expanded pool: every original address and every alias
  Owner,      \* address -> the credential it reads its mail with
  ReadMode    \* "graph", "imap" or "auto"

ASSUME OwnerAssumption == DOMAIN Owner = Address
ASSUME ReadModeAssumption == ReadMode \in {"graph", "imap", "auto"}

Credential == {Owner[a] : a \in Address}

VARIABLES
  mark,    \* outlook_mailbox_states.json: address -> its state
  dead,    \* credentials whose refresh token Microsoft no longer honours
  coming,  \* credential -> the verification mails sent to it that have not arrived
  inbox    \* credential -> the verification mails in its inbox

poolVars == <<mark, dead, coming, inbox>>

Mark == {"available", "in_use", "used", "failed", "token_invalid"}

-----------------------------------------------------------------------------
(* _outlook_available; old: reservations that have reached                   *)
(* OUTLOOK_IN_USE_STALE_SECONDS.                                             *)
Available(a, old) == mark[a] = "available" \/ (mark[a] = "in_use" /\ a \in old)

Reserved == {a \in Address : mark[a] = "in_use"}

(* create_mailbox *)
Reservation(a) == [mark EXCEPT ![a] = "in_use"]

(* _mark_credential_state: every alias of the credential. *)
Quarantine(c) == [a \in Address |-> IF Owner[a] = c THEN "token_invalid" ELSE mark[a]]

(* _credential_is_quarantined *)
Quarantined(c) == \E a \in Address : Owner[a] = c /\ mark[a] = "token_invalid"

ResultForgotten(a, success, tokenFault) ==
  IF tokenFault /\ ~success THEN Quarantine(Owner[a])
  ELSE [mark EXCEPT ![a] = IF success THEN "in_use" ELSE "failed"]

(* mark_result; tokenFault: the reason speaks of a failed token refresh. *)
Result(a, success, tokenFault) ==
  IF tokenFault /\ ~success THEN Quarantine(Owner[a])
  ELSE [mark EXCEPT ![a] = IF success THEN "used" ELSE "failed"]

(* reset_outlook_pool_state *)
Targets(scope) ==
  CASE scope = "retryable" -> {"in_use", "failed"}
    [] scope = "invalid"   -> {"token_invalid"}
    [] scope = "busy"      -> {"in_use"}
    [] scope = "used"      -> {"used"}
    [] OTHER               -> Mark

ResetPool(scope) ==
  [a \in Address |-> IF mark[a] \in Targets(scope) THEN "available" ELSE mark[a]]

-----------------------------------------------------------------------------
TokenError == {"definitive", "transient"}

(* _access_token: definitive only when every token endpoint refuses the      *)
(* grant; a proxy, network or service error at any of them is transient.     *)
Refresh(c) == IF c \in dead THEN TokenError ELSE {"token", "transient"}

(* The three ways of reading an inbox. *)
Way == {"graph", "rest", "imap"}

(* _graph_messages, _outlook_rest_messages, _imap_messages: the way itself   *)
(* stands for the messages it has read.                                      *)
Read(way, c) == UNION {IF x = "token" THEN {way, "request"} ELSE {x} : x \in Refresh(c)}

(* The end of list_messages: what comes of the ways that were tried in turn. *)
(* The new OutlookTokenError is definitive by default.                       *)
Combined(tried) ==
  CASE "graph" \in tried -> "graph"
    [] "graph" \notin tried /\ "rest" \in tried -> "rest"
    [] tried \cap Way = {"imap"} -> "imap"
    [] tried \subseteq TokenError -> "definitive"
    [] OTHER -> "request"

(* list_messages: the way it has read the inbox, or what it raises. *)
ListMessages(c) ==
  CASE ReadMode = "graph" -> Read("graph", c)
    [] ReadMode = "imap"  -> {Combined({i}) : i \in Read("imap", c)}
    [] OTHER -> {Combined(tried) : tried \in {{g, r, i} : g \in Read("graph", c),
                                                r \in Read("rest", c), i \in Read("imap", c)}}

(* The mails it returns: _imap_messages passes over one it cannot fetch, and *)
(* takes a search that fails for an empty inbox.                             *)
Listed(out, c) ==
  CASE out \in {"graph", "rest"} -> {inbox[c]}
    [] out = "imap" -> SUBSET inbox[c]
    [] OTHER -> {{}}
=============================================================================

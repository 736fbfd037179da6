----------------------------- MODULE BuildPool -----------------------------
(***************************************************************************)
(* The pool of Grok Build OAuth accounts (control/build/accounts.py) as its *)
(* requests (products/build/service.py) and the operator's verification     *)
(* (products/web/admin/build.py) use it, in one worker process.             *)
(*                                                                         *)
(* Every method of the store runs under its lock and is one step.  What     *)
(* takes time is awaited outside: the model call, and the refresh of an     *)
(* account's OAuth tokens, which holds a lock of that account, works on a   *)
(* copy of the account, and stores the whole copy when the answer comes.    *)
(*                                                                         *)
(* Tokens are numbered per account in the order the upstream issued them.   *)
(* One model is served, by every account; usage counters are left out.      *)
(***************************************************************************)
EXTENDS Naturals, FiniteSets

CONSTANTS
  Account,
  Request,         \* concurrent model calls
  Verifier,        \* concurrent verifications by the operator
  Absent,          \* no such account, or none chosen
  Free,            \* nobody holds the refresh lock
  Answer,          \* what the model endpoint may answer in this instance
  Streaming,       \* do calls stream (may a client cut one, or a stream break)?
  MaxRetries,      \* build.max_retries
  RateDelay,       \* build.rate_limit_cooling_sec, or the Retry-After header
  TransientDelay,  \* build.transient_error_cooling_sec
  MaxIssued,       \* bound of the environment: tokens issued per account
  MaxEdits,        \* bound of the environment: operator's actions
  MaxImports,      \* bound of the environment: imports of fresh tokens
  MaxLost,         \* bound of the environment: answers of the token endpoint lost
  MaxTime          \* bound of the model: the clock stops here

ASSUME ActorAssumption ==
  /\ IsFiniteSet(Request)
  /\ Request \cap Verifier = {}
  /\ Free \notin Request \cup Verifier
  /\ Absent \notin Account
ASSUME AnswerAssumption ==
  Answer \subseteq {"ok", "unauthorized", "rate_limited", "transient", "other"}
ASSUME NumberAssumption ==
  /\ MaxRetries \in Nat /\ RateDelay \in Nat \ {0} /\ TransientDelay \in Nat \ {0}
  /\ MaxIssued \in Nat /\ MaxEdits \in Nat /\ MaxImports \in Nat /\ MaxLost \in Nat
  /\ MaxTime \in Nat
ASSUME SwitchAssumption == Streaming \in BOOLEAN

Actor == Request \cup Verifier

VARIABLES
  now,
  acct,      \* account -> its stored record, or Absent
  inflight,  \* account -> requests counted on it
  lock,      \* account -> holder of its refresh lock
  issued,    \* account -> tokens the upstream has issued
  live,      \* account -> refresh tokens the upstream still honours
  stale,     \* account -> access tokens up to this one are expired, or nearly
  pc,        \* actor -> where it stands
  target,    \* actor -> the account it works on (a request: holds a lease of)
  copy,      \* actor -> its copy of the account
  forced,    \* actor -> is it refreshing whether or not the token is fresh?
  replayed,  \* request -> has it repeated the call after a 401?
  excluded,  \* request -> accounts that failed it
  edits, imports, lost

upstreamVars == <<issued, live, stale>>
actorVars    == <<pc, target, copy, forced, replayed, excluded>>
boundVars    == <<edits, imports, lost>>
vars == <<now, acct, inflight, lock, issued, live, stale, pc, target, copy, forced,
          replayed, excluded, edits, imports, lost>>

(* state_reason.  The code writes oauth_refresh_token_invalid for both       *)
(* "invalid", the token endpoint's invalid_grant, and "misread", any other   *)
(* error whose text has one of the same words (invalid_token, token revoked). *)
Reason == {"none", "rate_limited", "transient", "invalid", "misread", "refused", "rejected"}

Record == [enabled : BOOLEAN, status : {"active", "cooling", "disabled"},
           reason : Reason, until : Nat, access : Nat \ {0}, refresh : Nat \ {0}]

ASSUME AbsentAssumption == Absent \notin Record

TypeOK ==
  /\ now \in Nat
  /\ acct \in [Account -> Record \cup {Absent}]
  /\ inflight \in [Account -> Nat]
  /\ lock \in [Account -> Actor \cup {Free}]
  /\ issued \in [Account -> Nat] /\ live \in [Account -> SUBSET Nat]
  /\ stale \in [Account -> Nat]
  /\ pc \in [Actor -> {"start", "wait", "locked", "granted", "invalid", "refused",
                       "failed", "post", "done"}]
  /\ target \in [Actor -> Account \cup {Absent}]
  /\ copy \in [Actor -> Record \cup {Absent}]
  /\ forced \in [Actor -> BOOLEAN]
  /\ replayed \in [Request -> BOOLEAN]
  /\ excluded \in [Request -> SUBSET Account]
  /\ edits \in Nat /\ imports \in Nat /\ lost \in Nat

Init ==
  /\ now = 1
  /\ acct = [a \in Account |-> [enabled |-> TRUE, status |-> "active", reason |-> "none",
                                until |-> 0, access |-> 1, refresh |-> 1]]
  /\ inflight = [a \in Account |-> 0]
  /\ lock = [a \in Account |-> Free]
  /\ issued = [a \in Account |-> 1]
  /\ live = [a \in Account |-> {1}]
  /\ stale = [a \in Account |-> 0]
  /\ pc = [x \in Actor |-> "start"]
  /\ target = [x \in Actor |-> Absent]
  /\ copy = [x \in Actor |-> Absent]
  /\ forced = [x \in Actor |-> FALSE]
  /\ replayed = [r \in Request |-> FALSE]
  /\ excluded = [r \in Request |-> {}]
  /\ edits = 0 /\ imports = 0 /\ lost = 0

-----------------------------------------------------------------------------
Cleared(rec) == [rec EXCEPT !.status = "active", !.reason = "none", !.until = 0]

(* _recover_expired_cooldowns_locked, ahead of every look at the pool. *)
Recovered ==
  [a \in Account |->
     IF acct[a] # Absent /\ acct[a].status = "cooling" /\ acct[a].until <= now
     THEN Cleared(acct[a]) ELSE acct[a]]

(* available_for *)
Available(a) ==
  /\ Recovered[a] # Absent
  /\ Recovered[a].enabled
  /\ Recovered[a].status = "active"

Fresh(a, rec) == rec.access > stale[a]

(* Where a call goes with an account: refresh_account comes first.           *)
Entry(a, rec) == IF Fresh(a, rec) THEN "post" ELSE "wait"

Candidates(r) == {a \in Account \ excluded[r] : Available(a)}

(* reserve: an account with the fewest calls in flight. *)
Reserve(r, a) ==
  /\ pc[r] = "start"
  /\ a \in Candidates(r)
  /\ \A b \in Candidates(r) : inflight[a] <= inflight[b]
  /\ acct' = Recovered
  /\ inflight' = [inflight EXCEPT ![a] = @ + 1]
  /\ target' = [target EXCEPT ![r] = a]
  /\ copy' = [copy EXCEPT ![r] = Recovered[a]]
  /\ forced' = [forced EXCEPT ![r] = FALSE]
  /\ replayed' = [replayed EXCEPT ![r] = FALSE]
  /\ pc' = [pc EXCEPT ![r] = Entry(a, Recovered[a])]
  /\ UNCHANGED <<now, lock, upstreamVars, excluded, boundVars>>

ReserveFails(r) ==
  /\ pc[r] = "start"
  /\ Candidates(r) = {}
  /\ acct' = Recovered
  /\ pc' = [pc EXCEPT ![r] = "done"]
  /\ UNCHANGED <<now, inflight, lock, upstreamVars, target, copy, forced, replayed,
                 excluded, boundVars>>

(* _sync_models: with a forced refresh, or to read the model list only. *)
Verify(v, a) ==
  /\ pc[v] = "start"
  /\ edits < MaxEdits
  /\ edits' = edits + 1
  /\ acct[a] # Absent
  /\ acct' = Recovered
  /\ target' = [target EXCEPT ![v] = a]
  /\ copy' = [copy EXCEPT ![v] = Recovered[a]]
  /\ \/ /\ forced' = [forced EXCEPT ![v] = TRUE]
        /\ pc' = [pc EXCEPT ![v] = "wait"]
     \/ /\ forced' = [forced EXCEPT ![v] = FALSE]
        /\ pc' = [pc EXCEPT ![v] = Entry(a, Recovered[a])]
  /\ UNCHANGED <<now, inflight, lock, upstreamVars, replayed, excluded, imports, lost>>

-----------------------------------------------------------------------------
(* _apply_failure_locked: what a failure of kind k does to the account.      *)
AppliedFailure(rec, k) ==
  CASE k \in {"invalid", "misread", "refused", "rejected"} ->
         [rec EXCEPT !.status = "disabled", !.reason = k, !.until = 0]
    [] k = "rate_limited" ->
         [rec EXCEPT !.status = "cooling", !.reason = k, !.until = now + RateDelay]
    [] k = "transient" ->
         [rec EXCEPT !.status = "cooling", !.reason = k, !.until = now + TransientDelay]
    [] OTHER -> rec

(* A success ends a transient cooldown and no other. *)
AppliedSuccess(rec) ==
  IF rec.status = "cooling" /\ rec.reason # "rate_limited" THEN Cleared(rec) ELSE rec

Applied(rec, k) == IF k = "ok" THEN AppliedSuccess(rec) ELSE AppliedFailure(rec, k)

(* An account that was deleted meanwhile stays so. *)
AppliedTo(pool, a, k) ==
  [pool EXCEPT ![a] = IF @ = Absent THEN Absent ELSE Applied(@, k)]

(* Mutant: the lookup of the account comes before the count goes down. *)
ReleasedIfStored(a) ==
  [inflight EXCEPT ![a] = IF acct[a] = Absent \/ @ = 0 THEN @ ELSE @ - 1]

Released(a) == [inflight EXCEPT ![a] = IF @ = 0 THEN 0 ELSE @ - 1]

Worded == {"refused", "invalid", "misread"}

(* Failures whose status may fail over to another account. *)
Retryable == {"rate_limited", "transient", "rejected"} \cup Worded

MayRetry(r, k) == k \in Retryable /\ Cardinality(excluded[r]) < MaxRetries

(* Of those that are told by their text the status may be a 400, which does  *)
(* not fail over.  A stream that has begun is not tried again.               *)
MayStop(r, k) == ~MayRetry(r, k) \/ k \in Worded \/ Streaming

(* The end of an attempt of a request: release, and the next account. *)
EndAttempt(r, k, pool) ==
  /\ acct' = AppliedTo(pool, target[r], k)
  /\ inflight' = Released(target[r])
  /\ \/ /\ MayRetry(r, k)
        /\ pc' = [pc EXCEPT ![r] = "start"]
        /\ excluded' = [excluded EXCEPT ![r] = @ \cup {target[r]}]
     \/ /\ MayStop(r, k)
        /\ pc' = [pc EXCEPT ![r] = "done"]
        /\ UNCHANGED excluded

(* mark_verified clears whatever there was; else record_failure. *)
EndVerification(v, k, pool) ==
  /\ acct' = IF k = "ok" /\ pool[target[v]] # Absent
             THEN [pool EXCEPT ![target[v]] = Cleared(@)]
             ELSE AppliedTo(pool, target[v], k)
  /\ pc' = [pc EXCEPT ![v] = "start"]
  /\ UNCHANGED <<inflight, excluded>>

End(x, k, pool) ==
  /\ \/ x \in Request /\ EndAttempt(x, k, pool)
     \/ x \in Verifier /\ EndVerification(x, k, pool)
  /\ target' = [target EXCEPT ![x] = Absent]
  /\ copy' = [copy EXCEPT ![x] = Absent]
  /\ forced' = [forced EXCEPT ![x] = FALSE]
  /\ replayed' = [r \in Request |-> replayed[r] /\ r # x]
  /\ UNCHANGED <<now, upstreamVars, edits, imports>>

-----------------------------------------------------------------------------
(* refresh_account, from its lock on *)

MayLock(x) == lock[target[x]] = Free

(* The account was removed. *)
FindsNoAccount(x) ==
  /\ pc[x] = "wait" /\ MayLock(x)
  /\ acct[target[x]] = Absent
  /\ End(x, "rate_limited", Recovered)
  /\ UNCHANGED <<lock, lost>>

(* Somebody else has refreshed it. *)
FindsFresh(x) ==
  LET a == target[x] IN
  /\ pc[x] = "wait" /\ MayLock(x)
  /\ acct[a] # Absent
  /\ ~forced[x] /\ Fresh(a, acct[a])
  /\ acct' = Recovered
  /\ copy' = [copy EXCEPT ![x] = Recovered[a]]
  /\ pc' = [pc EXCEPT ![x] = "post"]
  /\ UNCHANGED <<now, inflight, lock, upstreamVars, target, forced, replayed, excluded,
                 boundVars>>

(* Mutant: trust the copy the caller came with. *)
CurrentAsLeased(x) == IF copy[x] = Absent THEN Recovered[target[x]] ELSE copy[x]

(* The record under refresh is read again under the lock. *)
Current(x) == Recovered[target[x]]

StartRefresh(x) ==
  LET a == target[x] IN
  /\ pc[x] = "wait" /\ MayLock(x)
  /\ acct[a] # Absent
  /\ forced[x] \/ ~Fresh(a, acct[a])
  /\ acct' = Recovered
  /\ lock' = [lock EXCEPT ![a] = x]
  /\ copy' = [copy EXCEPT ![x] = Current(x)]
  /\ pc' = [pc EXCEPT ![x] = "locked"]
  /\ UNCHANGED <<now, inflight, upstreamVars, target, forced, replayed, excluded,
                 boundVars>>

(* Mutant: never take the new refresh token. *)
GrantedKeepsRefresh(rec, n, rotates) == [rec EXCEPT !.access = n]

(* The tokens of a granted exchange; the upstream may rotate both. *)
Granted(rec, n, rotates) ==
  [rec EXCEPT !.access = n, !.refresh = IF rotates THEN n ELSE @]

(* The upstream grants the exchange of a refresh token it honours ... *)
Exchange(x) ==
  LET a == target[x]
      n == issued[a] + 1
  IN /\ pc[x] = "locked"
     /\ copy[x].refresh \in live[a]
     /\ n <= MaxIssued
     /\ issued' = [issued EXCEPT ![a] = n]
     /\ \E rotates \in BOOLEAN :
          /\ live' = IF rotates THEN [live EXCEPT ![a] = (@ \ {copy[x].refresh}) \cup {n}]
                                ELSE live
          /\ copy' = [copy EXCEPT ![x] = Granted(@, n, rotates)]
     /\ pc' = [pc EXCEPT ![x] = "granted"]
     /\ UNCHANGED <<now, acct, inflight, lock, stale, target, forced, replayed, excluded,
                    boundVars>>

(* ... answers invalid_grant to any other, or fails for reasons of its own.  *)
ExchangeFails(x) ==
  /\ pc[x] = "locked"
  /\ \/ copy[x].refresh \notin live[target[x]] /\ pc' = [pc EXCEPT ![x] = "invalid"]
     \/ pc' = [pc EXCEPT ![x] = "refused"]
     \/ pc' = [pc EXCEPT ![x] = "failed"]
  /\ UNCHANGED <<now, acct, inflight, lock, upstreamVars, target, copy, forced, replayed,
                 excluded, boundVars>>

(* The answer does not arrive: the transport breaks after the exchange. *)
AnswerLost(x) ==
  /\ lost < MaxLost
  /\ lost' = lost + 1
  /\ pc[x] = "granted"
  /\ pc' = [pc EXCEPT ![x] = "failed"]
  /\ UNCHANGED <<now, acct, inflight, lock, upstreamVars, target, copy, forced, replayed,
                 excluded, edits, imports>>

(* store.update: the whole copy, whatever was written since it was read.     *)
(* A call that forced the refresh enters create_response again.              *)
StoreTokens(x) ==
  LET a == target[x] IN
  /\ pc[x] = "granted"
  /\ acct' = [acct EXCEPT ![a] = copy[x]]
  /\ lock' = [lock EXCEPT ![a] = Free]
  /\ pc' = [pc EXCEPT ![x] = IF forced[x] THEN Entry(a, copy[x]) ELSE "post"]
  /\ forced' = [forced EXCEPT ![x] = FALSE]
  /\ UNCHANGED <<now, inflight, upstreamVars, target, copy, replayed, excluded, boundVars>>

(* Mutant: the lock stays with a refresh that failed. *)
LockAfterFailureKept(x) == lock

LockAfterFailure(x) == [lock EXCEPT ![target[x]] = Free]

RefreshFails(x) ==
  /\ \/ pc[x] \in {"invalid", "refused"} /\ End(x, pc[x], acct)
     \/ /\ pc[x] = "failed"
        /\ \E k \in {"transient", "rate_limited", "misread"} : End(x, k, acct)
  /\ lock' = LockAfterFailure(x)
  /\ UNCHANGED lost

-----------------------------------------------------------------------------
(* The model endpoint's answer.  A 401 is worth one forced refresh and one   *)
(* repetition of a call; after that it condemns the account.                 *)
Replays(x, k) ==
  x \in Request /\ k = "unauthorized" /\ ~replayed[x]

Replay(x) ==
  /\ pc[x] = "post"
  /\ "unauthorized" \in Answer
  /\ Replays(x, "unauthorized")
  /\ forced' = [forced EXCEPT ![x] = TRUE]
  /\ replayed' = [replayed EXCEPT ![x] = TRUE]
  /\ pc' = [pc EXCEPT ![x] = "wait"]
  /\ UNCHANGED <<now, acct, inflight, lock, upstreamVars, target, copy, excluded,
                 boundVars>>

Verdict(x, k) ==
  IF k # "unauthorized" THEN k
  ELSE IF x \in Request THEN "rejected" ELSE "transient"

(* _is_invalid_oauth_refresh looks for its words in whatever has failed.     *)
Verdicts(x, k) == {Verdict(x, k)} \cup (IF k = "ok" THEN {} ELSE {"misread"})

Respond(x, k) ==
  /\ pc[x] = "post"
  /\ k \in Answer
  /\ ~Replays(x, k)
  /\ \E verdict \in Verdicts(x, k) : End(x, verdict, acct)
  /\ UNCHANGED <<lock, lost>>

(* The client of a stream goes away: no status, nothing is held against the  *)
(* account; an answer to a token exchange that was under way is lost.        *)
Cancel(r) ==
  /\ Streaming
  /\ pc[r] \notin {"start", "done"}
  /\ lost' = lost + (IF pc[r] = "granted" THEN 1 ELSE 0)
  /\ lost' <= MaxLost
  /\ End(r, "other", acct)
  /\ lock' = [a \in Account |-> IF lock[a] = r THEN Free ELSE lock[a]]

-----------------------------------------------------------------------------
(* set_enabled *)
Toggle(a) ==
  /\ edits < MaxEdits
  /\ edits' = edits + 1
  /\ acct[a] # Absent
  /\ acct' = [acct EXCEPT ![a].enabled = ~@]
  /\ UNCHANGED <<now, inflight, lock, upstreamVars, actorVars, imports, lost>>

Delete(a) ==
  /\ edits < MaxEdits
  /\ edits' = edits + 1
  /\ acct[a] # Absent
  /\ acct' = [acct EXCEPT ![a] = Absent]
  /\ UNCHANGED <<now, inflight, lock, upstreamVars, actorVars, imports, lost>>

(* upsert_payloads, with tokens of a fresh login; a manual stop is kept. *)
Import(a) ==
  LET n == issued[a] + 1 IN
  /\ imports < MaxImports /\ n <= MaxIssued
  /\ imports' = imports + 1
  /\ issued' = [issued EXCEPT ![a] = n]
  /\ live' = [live EXCEPT ![a] = @ \cup {n}]
  /\ acct' = [acct EXCEPT ![a] =
       [enabled |-> IF @ = Absent THEN TRUE ELSE @.enabled, status |-> "active",
        reason |-> "none", until |-> 0, access |-> n, refresh |-> n]]
  /\ UNCHANGED <<now, inflight, lock, stale, actorVars, edits, lost>>

(* list, has_model and known_models end the cooldowns that are over. *)
Look ==
  /\ acct' = Recovered
  /\ UNCHANGED <<now, inflight, lock, upstreamVars, actorVars, boundVars>>

(* Access tokens come within the refresh leeway of their expiry. *)
Expire(a) ==
  /\ stale[a] < issued[a] /\ stale[a] + 1 < MaxIssued
  /\ stale' = [stale EXCEPT ![a] = @ + 1]
  /\ UNCHANGED <<now, acct, inflight, lock, issued, live, actorVars, boundVars>>

Tick ==
  /\ now < MaxTime
  /\ now' = now + 1
  /\ UNCHANGED <<acct, inflight, lock, upstreamVars, actorVars, boundVars>>

Refresh(x) ==
  \/ FindsNoAccount(x) \/ FindsFresh(x) \/ StartRefresh(x)
  \/ Exchange(x) \/ ExchangeFails(x) \/ AnswerLost(x)
  \/ StoreTokens(x) \/ RefreshFails(x)

Step(x) ==
  \/ x \in Request /\ ((\E a \in Account : Reserve(x, a)) \/ ReserveFails(x))
  \/ Refresh(x)
  \/ Replay(x)
  \/ \E k \in Answer : Respond(x, k)

Next ==
  \/ \E x \in Actor : Step(x)
  \/ \E v \in Verifier, a \in Account : Verify(v, a)
  \/ \E r \in Request : Cancel(r)
  \/ \E a \in Account : Toggle(a) \/ Delete(a) \/ Import(a) \/ Expire(a)
  \/ Look
  \/ Tick

Spec == Init /\ [][Next]_vars

(* Calls and exchanges have timeouts (120 s, 30 s), and a released lock goes *)
(* to whoever waits.                                                         *)
Fairness == \A x \in Actor : WF_vars(Step(x))

FairSpec == Spec /\ Fairness

-----------------------------------------------------------------------------
(* Safety: the count of calls in flight on an account is the number of       *)
(* requests that lease it, though accounts are deleted, imported again and   *)
(* overwritten by refreshes while they are leased.                           *)
InflightIsLeases ==
  \A a \in Account : inflight[a] = Cardinality({r \in Request : target[r] = a})

(* Safety: through every interleaving of refreshes, replays, verifications   *)
(* and edits the pool never keeps a refresh token that has been traded in,   *)
(* but while the answer is under way; until an answer gets lost.             *)
CredentialsLive ==
  lost = 0 =>
    \A a \in Account :
      \/ acct[a] = Absent
      \/ acct[a].refresh \in live[a]
      \/ lock[a] # Free /\ pc[lock[a]] = "granted"

(* Safety: an account that was taken out of service because the token        *)
(* endpoint answered invalid_grant has no refresh token that the upstream    *)
(* honours, whoever else refreshed, verified or edited it; until fresh       *)
(* tokens are imported.                                                      *)
DisabledMeansDead ==
  imports = 0 =>
    \A a \in Account :
      (acct[a] # Absent /\ acct[a].reason = "invalid") => acct[a].refresh \notin live[a]

(* Liveness: a request comes to an end, whoever holds the refresh lock it    *)
(* may be waiting for.                                                       *)
RequestsEnd == \A r \in Request : pc[r] # "done" ~> pc[r] = "done"
-----------------------------------------------------------------------------
(* Claims of the code's comments that do not hold; the README says in which  *)
(* instances.                                                                *)

(* Action property: a refresh overrules nothing the operator did while it    *)
(* ran: an account that is switched off is switched on by the switch alone   *)
(* (BuildAccount: "Manual operator switch"), one that is deleted comes back  *)
(* by an import alone (refresh_account: "Grok Build account was removed").   *)
OperatorEditKept ==
  [][\A a \in Account :
       /\ acct[a] = Absent => (acct'[a] = Absent \/ Import(a))
       /\ (acct[a] # Absent /\ ~acct[a].enabled) =>
            (acct'[a] = Absent \/ ~acct'[a].enabled \/ Toggle(a))]_vars

RateLimited(rec) == rec # Absent /\ rec.reason = "rate_limited" /\ rec.until > now

(* Action property: a rate limit lasts to its deadline, unless the account   *)
(* goes out of service for good (release: "rate limits recover on            *)
(* deadline"); where nobody verifies or imports accounts.                    *)
RateLimitKept ==
  [][\A a \in Account :
       RateLimited(acct[a]) =>
         \/ acct'[a] = Absent \/ acct'[a].status = "disabled"
         \/ acct'[a].status = "cooling" /\ acct'[a].until >= acct[a].until]_vars

(* Safety: the same of every account that is disabled as one whose "OAuth    *)
(* refresh token is invalid or revoked" (_safe_error_summary).               *)
ReasonTellsDead ==
  imports = 0 =>
    \A a \in Account :
      (acct[a] # Absent /\ acct[a].reason \in {"invalid", "misread"}) =>
        acct[a].refresh \notin live[a]

(* Safety: DisabledMeansDead after imports too (upsert_payloads: an import   *)
(* of fresh tokens "repairs runtime OAuth state").                           *)
ImportRepairs ==
  \A a \in Account :
    (acct[a] # Absent /\ acct[a].reason = "invalid") => acct[a].refresh \notin live[a]
=============================================================================

-------------------------- MODULE AccountLifecycle --------------------------
(***************************************************************************)
(* The persisted life of one basic account that serves the console models   *)
(* (control/account): what fire-and-forget tasks, the operator and the      *)
(* leader's patrols do to its row.  A task reads the row, builds a patch    *)
(* from what it read, and the repository applies the patch later: whatever  *)
(* was written in between is not looked at again.  The patch of ext is the  *)
(* whole ext that was read, plus the new keys.                              *)
(*                                                                         *)
(* Time is in hours and 0 is an absent timestamp; a read and the write it   *)
(* leads to take no time.  Each call is served by a worker of its own,      *)
(* which leases the account (random strategy) by what its table shows of    *)
(* the row: its last sync, and what its own calls reported since.  Failure  *)
(* counters, and the windows of the modes that upstream accounts for, are   *)
(* in AccountDirectory.                                                     *)
(***************************************************************************)
EXTENDS Integers, Sequences

CONSTANTS
  Call,              \* concurrent calls of this account
  Operator,          \* the administrator's disable request

  Total,             \* BASIC_CONSOLE_LIMIT
  Low,               \* remaining at which the window's timer starts (12)
  Window,            \* BASIC_CONSOLE_WINDOW_SECONDS
  RateCooling,       \* _rate_limit_cooling_sec of the console mode
  ForbiddenCooling,  \* account.error.forbidden_cooling_sec
  Sliding,           \* a later 429 starts a new count
  Limit,             \* the 429s that expire an account
  MinUses,           \* an account that never worked is not recovered
  Wait,              \* an expired account waits this long for recovery
  MaxCalls,          \* bound of the environment: calls
  MaxEdits,          \* bound of the environment: operator edits
  LastCall,          \* bound of the environment: calls start before this time
  MaxTime            \* bound of the model: the clock stops here

ASSUME TaskAssumption == Operator \notin Call
ASSUME NumberAssumption ==
  /\ Total \in Nat \ {0} /\ Low \in Nat /\ Limit \in Nat \ {0} /\ MinUses \in Nat
  /\ Window \in Nat \ {0} /\ RateCooling \in Nat \ {0} /\ ForbiddenCooling \in Nat \ {0}
  /\ Sliding \in Nat /\ Wait \in Nat
  /\ MaxCalls \in Nat /\ MaxEdits \in Nat /\ LastCall \in Nat /\ MaxTime \in Nat

Actor   == Call \cup {Operator}
Outcome == {"success", "rate_limited", "forbidden", "unauthorized"}

VARIABLES
  now,
  row,     \* the account's row
  stale,   \* the calls whose worker has not yet synced the last change of the row
  view,    \* call -> what its worker's table shows: listed, and cooling until when
  pc,      \* actor -> "idle", "calling", or "write"
  patch,   \* actor -> the patch it is about to apply
  calls, edits,
  spent,     \* history: successes on the current window while it had quota left
  usesLost,  \* history: some success since then was overwritten, or not stored
  hits,      \* history: times of the last Limit 429s since the account was cleared
  hitsLost   \* history: since then ext was overwritten, or a 429 not stored

tables  == <<stale, view>>
counts  == <<calls, edits>>
history == <<spent, usesLost, hits, hitsLost>>
vars    == <<now, row, tables, pc, patch, counts, history>>

ExtKey == {"until", "expiredAt", "count", "last429"}
Status == {"active", "cooling", "disabled", "expired"}
Reason == {"none", "operator", "rate_limited", "forbidden", "invalid", "threshold"}

TypeOK ==
  /\ now \in Nat
  /\ row \in [status : Status, reason : Reason,
              remaining : 0..Total, reset : Nat, uses : 0..(MinUses + 1),
              until : Nat, expiredAt : Nat, count : Nat, last429 : Nat]
  /\ stale \subseteq Call
  /\ view \in [Call -> [listed : BOOLEAN, until : Nat]]
  /\ pc \in [Actor -> {"idle", "calling", "write"}]
  /\ \A a \in Actor : DOMAIN patch[a] \subseteq DOMAIN row
  /\ calls \in Nat /\ edits \in Nat
  /\ spent \in Nat /\ usesLost \in BOOLEAN
  /\ hits \in Seq(Nat) /\ Len(hits) <= Limit /\ hitsLost \in BOOLEAN

NoPatch == <<>>

Init ==
  /\ now = 1
  /\ row = [status |-> "active", reason |-> "none",
            remaining |-> Total, reset |-> 0, uses |-> 0,
            until |-> 0, expiredAt |-> 0, count |-> 0, last429 |-> 0]
  /\ stale = {}
  /\ view = [c \in Call |-> [listed |-> TRUE, until |-> 0]]
  /\ pc = [a \in Actor |-> "idle"]
  /\ patch = [a \in Actor |-> NoPatch]
  /\ calls = 0 /\ edits = 0
  /\ spent = 0 /\ usesLost = FALSE /\ hits = <<>> /\ hitsLost = FALSE

-----------------------------------------------------------------------------
(* AccountRepository.patch_accounts: the patched columns replace the row's. *)
Over(p, r) ==
  [f \in DOMAIN p \cup DOMAIN r |-> IF f \in DOMAIN p THEN p[f] ELSE r[f]]

(* The ext that a task read; a key that was absent is not written back.     *)
Ext(r) == [f \in {key \in ExtKey : r[key] # 0} |-> r[f]]

(* QuotaWindow.is_window_expired *)
WindowOver(r) == r.reset # 0 /\ now >= r.reset

(* Mutant: the call that opens a window is not booked on it. *)
SuccessPatchFree(r) ==
  IF WindowOver(r) THEN [remaining |-> Total, reset |-> 0]
  ELSE [remaining |-> IF r.remaining = 0 THEN 0 ELSE r.remaining - 1,
        reset |-> IF r.reset = 0 /\ r.remaining <= Low + 1 THEN now + Window ELSE r.reset]

(* _apply_single_mode without an upstream window: the console is counted     *)
(* locally, and its timer starts only when the quota runs low.               *)
SuccessPatch(r) ==
  IF WindowOver(r) THEN [remaining |-> Total - 1, reset |-> 0]
  ELSE [remaining |-> IF r.remaining = 0 THEN 0 ELSE r.remaining - 1,
        reset |-> IF r.reset = 0 /\ r.remaining <= Low + 1 THEN now + Window ELSE r.reset]

(* The 429s counted up to this one. *)
NewCount(r) ==
  IF r.last429 > 0 /\ now - r.last429 > Sliding THEN 1 ELSE r.count + 1

(* Mutant: the account expires one 429 late. *)
RateLimitedPatchLate(r) ==
  LET n == NewCount(r) IN
  Over([remaining |-> 0,
        reset     |-> IF r.reset = 0 THEN now + Window ELSE r.reset,
        status    |-> IF n > Limit THEN "expired" ELSE "cooling",
        reason    |-> IF n > Limit THEN "threshold" ELSE "rate_limited",
        until     |-> now + RateCooling, count |-> n, last429 |-> now], Ext(r))

(* record_failure_async, a console 429: the quota is gone, the account cools *)
(* down, and the third 429 expires it.                                       *)
RateLimitedPatch(r) ==
  LET n == NewCount(r)
      common == [remaining |-> 0,
                 reset     |-> IF r.reset = 0 THEN now + Window ELSE r.reset,
                 until     |-> now + RateCooling, count |-> n, last429 |-> now]
      fate   == IF n >= Limit
                THEN [status |-> "expired", reason |-> "threshold", expiredAt |-> now]
                ELSE [status |-> "cooling", reason |-> "rate_limited"]
  IN Over(fate, Over(common, Ext(r)))

ForbiddenPatch(r) ==
  Over([status |-> "cooling", reason |-> "forbidden", until |-> now + ForbiddenCooling],
       Ext(r))

(* mark_account_invalid_credentials *)
UnauthorizedPatch(r) ==
  Over([status |-> "expired", reason |-> "invalid", expiredAt |-> now], Ext(r))

PatchOf(k, r) ==
  CASE k = "success"      -> SuccessPatch(r)
    [] k = "rate_limited" -> RateLimitedPatch(r)
    [] k = "forbidden"    -> ForbiddenPatch(r)
    [] k = "unauthorized" -> UnauthorizedPatch(r)

(* toggle_token_disabled *)
DisablePatch(r) == Over([status |-> "disabled", reason |-> "operator"], Ext(r))

-----------------------------------------------------------------------------
AllIdle == \A a \in Actor : pc[a] = "idle"

(* The slot that a sync makes of the row: an account that cools down to a    *)
(* deadline stays listed, and selection waits for the deadline.              *)
Shown(r) ==
  [listed |-> r.status = "active" \/ (r.status = "cooling" /\ r.until # 0),
   until  |-> IF r.until > now THEN r.until ELSE 0]

(* AccountDirectory.sync_if_changed of the worker, at some later time.       *)
Sync(c) ==
  /\ c \in stale
  /\ stale' = stale \ {c}
  /\ view' = [view EXCEPT ![c] = Shown(row)]
  /\ UNCHANGED <<now, row, pc, patch, counts, history>>


(* _random_select *)
Ready(c) == view[c].listed /\ view[c].until <= now

NoWrite == \A a \in Actor : pc[a] # "write"

(* A request leases the account and calls upstream (bound: no call starts    *)
(* within another's write, which would change nothing for either).           *)
Start(c) ==
  /\ now < LastCall /\ calls < MaxCalls
  /\ calls' = calls + 1
  /\ NoWrite
  /\ pc[c] = "idle"
  /\ Ready(c)
  /\ pc' = [pc EXCEPT ![c] = "calling"]
  /\ UNCHANGED <<now, row, tables, patch, edits, history>>

Max2(x, y) == IF x > y THEN x ELSE y

(* AccountDirectory.feedback, which the call gives before its task starts.   *)
Feedback(k, v) ==
  CASE k = "success"      -> v
    [] k = "rate_limited" -> [v EXCEPT !.until = Max2(@, now + RateCooling)]
    [] k = "forbidden"    -> [v EXCEPT !.until = Max2(@, now + ForbiddenCooling)]
    [] k = "unauthorized" -> [v EXCEPT !.listed = FALSE]

(* The upstream answers k; the task reads the row and builds its patch.      *)
Read(c, k) ==
  /\ pc[c] = "calling"
  /\ pc' = [pc EXCEPT ![c] = "write"]
  /\ patch' = [patch EXCEPT ![c] = PatchOf(k, row)]
  /\ view' = [view EXCEPT ![c] = Feedback(k, @)]
  /\ UNCHANGED <<now, row, stale, counts, history>>

(* A 5xx or a transport failure changes nothing that is modelled here.       *)
CallFails(c) ==
  /\ pc[c] = "calling"
  /\ pc' = [pc EXCEPT ![c] = "idle"]
  /\ UNCHANGED <<now, row, tables, patch, counts, history>>

ReadForDisable ==
  /\ edits < MaxEdits
  /\ edits' = edits + 1
  /\ pc[Operator] = "idle"
  /\ pc' = [pc EXCEPT ![Operator] = "write"]
  /\ patch' = [patch EXCEPT ![Operator] = DisablePatch(row)]
  /\ UNCHANGED <<now, row, tables, calls, history>>

(* Of the patches only a success leaves the status alone, and of the others  *)
(* only a 429 touches the quota.                                             *)
IsUse(p) == "status" \notin DOMAIN p
IsHit(p) == ~IsUse(p) /\ "remaining" \in DOMAIN p

Min2(x, y) == IF x < y THEN x ELSE y

LastHits(s) == IF Len(s) > Limit THEN Tail(s) ELSE s

(* No task would write p if it read the row now: p overwrites what another   *)
(* actor wrote since p was built.                                            *)
Outdated(p) == p \notin {PatchOf(k, row) : k \in Outcome} \cup {DisablePatch(row)}

(* usage_use_count is a delta: it saturates here where recovery stops caring. *)
Write(a) ==
  LET p == patch[a] IN
  /\ pc[a] = "write"
  /\ pc' = [pc EXCEPT ![a] = "idle"]
  /\ patch' = [patch EXCEPT ![a] = NoPatch]
  /\ row' = [Over(p, row) EXCEPT !.uses =
               IF IsUse(p) THEN Min2(@ + 1, MinUses + 1) ELSE @]
  /\ spent' = IF ~IsUse(p) THEN spent
              ELSE IF WindowOver(row) THEN 1
              ELSE IF row.remaining > 0 THEN spent + 1 ELSE spent
  /\ usesLost' = IF ~IsUse(p) THEN usesLost
                 ELSE Outdated(p) \/ (usesLost /\ ~WindowOver(row))
  /\ hits' = IF IsHit(p) THEN LastHits(Append(hits, now)) ELSE hits
  /\ hitsLost' = (hitsLost \/ (~IsUse(p) /\ Outdated(p)))
  /\ stale' = Call
  /\ UNCHANGED <<now, view, counts>>

(* The store refuses the write and the task swallows that (_fail_sync,       *)
(* record_failure_async, refresh_call_async).                                *)
WriteFails(c) ==
  /\ pc[c] = "write"
  /\ pc' = [pc EXCEPT ![c] = "idle"]
  /\ patch' = [patch EXCEPT ![c] = NoPatch]
  /\ usesLost' = (usesLost \/ IsUse(patch[c]))
  /\ hitsLost' = (hitsLost \/ IsHit(patch[c]))
  /\ UNCHANGED <<now, row, tables, counts, spent, hits>>

(* toggle_token_disabled(false): a patch with clear_failures.                *)
Restore ==
  /\ edits < MaxEdits
  /\ edits' = edits + 1
  /\ row' = [row EXCEPT !.status = "active", !.reason = "none",
                        !.until = 0, !.expiredAt = 0, !.count = 0]
  /\ hits' = <<>> /\ hitsLost' = FALSE
  /\ stale' = Call
  /\ UNCHANGED <<now, view, pc, patch, calls, spent, usesLost>>

(* Mutant: look at windows that never started. *)
ConsoleDueUnstarted == row.status = "active" /\ row.remaining = 0 /\ row.reset = 0

ConsoleDue ==
  /\ row.status = "active"
  /\ \/ row.remaining = 0 /\ row.reset = 0
     \/ row.reset # 0 /\ row.reset < now

(* reset_expired_console_windows, every 30 s. *)
ResetConsole ==
  /\ ConsoleDue
  /\ row' = [row EXCEPT !.remaining = Total, !.reset = 0]
  /\ spent' = 0 /\ usesLost' = FALSE
  /\ stale' = Call
  /\ UNCHANGED <<now, view, pc, patch, counts, hits, hitsLost>>

(* Mutants: recover whatever expired; never recover. *)
RecoverableAnyReason ==
  row.status = "expired" /\ row.uses > MinUses
RecoverableRateLimited ==
  /\ row.status = "expired" /\ row.reason = "rate_limited"
  /\ row.uses > MinUses

Recoverable ==
  /\ row.status = "expired"
  /\ row.reason = "threshold"
  /\ row.uses > MinUses
  /\ row.expiredAt # 0 /\ row.expiredAt + Wait <= now

(* recover_console_expired_accounts, every 10 minutes. *)
Recover ==
  /\ Recoverable
  /\ row' = [row EXCEPT !.status = "active", !.reason = "none",
                        !.expiredAt = 0, !.count = 0, !.last429 = 0]
  /\ hits' = <<>> /\ hitsLost' = FALSE
  /\ stale' = Call
  /\ UNCHANGED <<now, view, pc, patch, counts, spent, usesLost>>

(* Bounds: a write takes no time, nothing is in flight after LastCall. *)
Tick ==
  /\ now < MaxTime
  /\ NoWrite
  /\ now < LastCall \/ AllIdle
  /\ now' = now + 1
  /\ UNCHANGED <<row, tables, pc, patch, counts, history>>

CallStep(c) == (\E k \in Outcome : Read(c, k)) \/ CallFails(c)

Next ==
  \/ \E c \in Call : Sync(c) \/ Start(c) \/ CallStep(c) \/ WriteFails(c)
  \/ ReadForDisable
  \/ \E a \in Actor : Write(a)
  \/ Restore
  \/ ResetConsole
  \/ Recover
  \/ Tick

Spec == Init /\ [][Next]_vars

(* Calls time out, tasks run, the patrols poll; time passes whatever else    *)
(* happens (SF, as the bounds disable Tick).  Nobody has to call again.      *)
Fairness ==
  /\ \A c \in Call : WF_vars(CallStep(c))
  /\ \A a \in Actor : WF_vars(Write(a))
  /\ WF_vars(ResetConsole) /\ WF_vars(Recover)
  /\ SF_vars(Tick)

FairSpec == Spec /\ Fairness

-----------------------------------------------------------------------------
(* Safety: the local console quota is the full quota less the successes      *)
(* since it was last full, while any of it is left (_apply_single_mode:      *)
(* "this call consumes 1"), unless concurrent tasks overwrote each other or  *)
(* the store refused one since: what they lose, the next window gives back.  *)
QuotaAccounted == (row.remaining > 0 /\ ~usesLost) => row.remaining + spent = Total

(* Action property: the write of the last of Limit 429s within the sliding   *)
(* window expires the account, whatever other outcomes and patrols came in   *)
(* between (record_failure_async: "3 429s within 12 hours mark the account   *)
(* EXPIRED"), unless some ext was overwritten or not stored meanwhile.       *)
RepeatedLimitsExpire ==
  [][(/\ \E a \in Actor : Write(a) /\ IsHit(patch[a])
      /\ Len(hits') = Limit /\ hits'[Limit] - hits'[1] <= Sliding
      /\ ~hitsLost')
     => row'.status = "expired"]_vars

OutOfService(r) ==
  r.status = "disabled" \/ (r.status = "expired" /\ r.reason = "invalid")

(* The account is out of service, every worker knows, and no call of before  *)
(* is still under way.                                                       *)
SettledOut == OutOfService(row) /\ \A c \in Call : pc[c] = "idle" /\ ~view[c].listed

(* Action property: an account that the operator disabled, or whose          *)
(* credentials were refused, comes back by the operator's hand only, once    *)
(* every worker has synced and the calls leased before have ended.           *)
OnlyOperatorRevives == [][SettledOut => (SettledOut' \/ Restore)]_vars

(* Liveness: the console quota of an active account does not stay exhausted. *)
ActiveRefills ==
  (row.status = "active" /\ row.remaining = 0)
    ~> (row.remaining > 0 \/ row.status # "active")

(* Liveness: an account that worked before and was expired for its 429s      *)
(* comes back (main.py: console 429 EXPIRED accounts recover automatically). *)
ThresholdRecovers ==
  (row.status = "expired" /\ row.reason = "threshold" /\ row.uses > MinUses)
    ~> (row.status # "expired" \/ row.reason # "threshold")
-----------------------------------------------------------------------------
(* Claims of the code's comments that do not hold; the README says in which  *)
(* instances.                                                                *)

(* Action property: nobody but the operator brings back an account that he   *)
(* disabled or whose credentials were refused.                               *)
OutStaysOut == [][OutOfService(row) => (OutOfService(row') \/ Restore)]_vars

(* Safety: an account that got Limit 429s within the sliding window, none    *)
(* of them cleared, is out of service.                                       *)
LimitsKeepOut ==
  (Len(hits) = Limit /\ hits[Limit] - hits[1] <= Sliding) =>
     row.status \in {"expired", "disabled"}

(* Safety: an account the store calls active is not cooling down.            *)
ActiveIsReady == row.status = "active" => row.until <= now

(* Liveness: an expired window of an account in service is reset (README:    *)
(* every 30 s the patrol resets expired quota).                              *)
ServingRefills ==
  (row.status \in {"active", "cooling"} /\ row.remaining = 0)
    ~> (row.remaining > 0 \/ row.status \notin {"active", "cooling"})
=============================================================================

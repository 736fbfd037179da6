-------------------------- MODULE AccountDirectory --------------------------
(***************************************************************************)
(* The hot path of one worker (dataplane/account): requests lease accounts  *)
(* from the runtime table, call upstream, give the lease back and report    *)
(* what happened; fire-and-forget tasks persist the outcome to the          *)
(* repository, whose rows the sync copies back over the table.              *)
(*                                                                         *)
(* The directory's lock is never held across an await, so a reservation, or *)
(* a release followed by its feedback, is one step of the event loop.       *)
(* Requests of one pool are modelled; the quota score and random.choice are *)
(* any choice among the accounts that pass the filters.  Health only feeds  *)
(* the score and is left out, as are tags.  AccountSync models how the sync *)
(* finds the changed rows: here one step applies all of them.               *)
(***************************************************************************)
EXTENDS Naturals, Sequences, FiniteSets

CONSTANTS
  Token,             \* accounts
  Mode,              \* quota modes
  ModeOrder,         \* mode_candidates of the requests, in priority order
  Request,           \* client requests
  AnyRequest,        \* ... that lease through reserve_any (websocket images)
  EditRequest,       \* ... that upload references before the call (image edit)
  Returning,         \* bound of the environment: requests followed by another one
  NoToken,           \* a request without an account
  Strategy,          \* "quota" or "random"
  Cap,               \* _QUOTA_MAX_INFLIGHT, account.selection.max_inflight
  MaxFails,          \* _RANDOM_MAX_FAILS
  Total,             \* a full quota window
  Window,            \* its length
  RateCooling,       \* cooldown after a 429
  ForbiddenCooling,  \* cooldown after a 403
  MaxRetries,        \* retry.max_retries
  RetryKind,         \* failures the configured status codes retry
  MaxTime,           \* bound of the model: the clock stops here
  MaxEdits           \* bound of the environment: operator edits

Failure == {"rate_limited", "unauthorized", "forbidden", "server_error"}
Kind    == Failure \cup {"success", "transport_error"}

ASSUME StrategyAssumption == Strategy \in {"quota", "random"}
ASSUME RequestAssumption ==
  /\ IsFiniteSet(Request)
  /\ AnyRequest \subseteq Request /\ EditRequest \subseteq Request
  /\ Returning \subseteq Request
ASSUME NoTokenAssumption == NoToken \notin Token
ASSUME ModeAssumption ==
  ModeOrder \in Seq(Mode) /\ ModeOrder # <<>>
ASSUME NumberAssumption ==
  /\ Cap \in Nat /\ MaxFails \in Nat /\ Total \in Nat \ {0} /\ Window \in Nat \ {0}
  /\ RateCooling \in Nat /\ ForbiddenCooling \in Nat \ {0}
  /\ MaxRetries \in Nat /\ MaxTime \in Nat /\ MaxEdits \in Nat
ASSUME KindAssumption == RetryKind \subseteq Kind \ {"success"}

VARIABLES
  now,
  status, quota, reset, inflight, cooling, fails,   \* columns of the runtime table
  available,     \* accounts in the mode_available buckets
  record,        \* token -> the persisted row
  dirty,         \* rows written since the last sync
  pending,       \* persistence tasks not yet run
  unstored,      \* history: accounts with a failure that was not stored, and whose
                 \* row has not been synced since
  pc,            \* request -> where it stands
  lease,         \* request -> account it leases, or NoToken
  leaseMode,     \* request -> mode of the lease
  excluded,      \* request -> accounts it has tried
  attempt,       \* request -> replacement accounts used so far
  edits

tableVars   == <<status, quota, reset, inflight, cooling, fails, available>>
storeVars   == <<record, dirty, pending, unstored>>
requestVars == <<pc, lease, leaseMode, excluded, attempt>>
vars == <<now, status, quota, reset, inflight, cooling, fails, available,
          record, dirty, pending, unstored, pc, lease, leaseMode, excluded, attempt, edits>>

Record == [status : {"active", "cooling", "disabled", "expired"},
           until : Nat, fails : Nat, quota : [Mode -> Nat], reset : [Mode -> Nat]]
Task   == [request : Request, attempt : Nat, token : Token, mode : Mode,
           kind : Failure \cup {"success"}]

TypeOK ==
  /\ now \in Nat
  /\ status \in [Token -> {"active", "disabled", "expired"}]
  /\ quota \in [Token -> [Mode -> Nat]] /\ reset \in [Token -> [Mode -> Nat]]
  /\ inflight \in [Token -> Nat]
  /\ cooling \in [Token -> Nat] /\ fails \in [Token -> Nat]
  /\ available \in SUBSET Token
  /\ record \in [Token -> Record]
  /\ dirty \in SUBSET Token
  /\ pending \in SUBSET Task
  /\ pc \in [Request -> {"start", "refreshed", "prepare", "held", "done"}]
  /\ lease \in [Request -> Token \cup {NoToken}]
  /\ leaseMode \in [Request -> Mode]
  /\ excluded \in [Request -> SUBSET Token]
  /\ attempt \in [Request -> Nat]
  /\ edits \in Nat
  /\ unstored \in SUBSET Token

Init ==
  /\ now = 1
  /\ record = [t \in Token |-> [status |-> "active", until |-> 0, fails |-> 0,
                                quota |-> [m \in Mode |-> Total],
                                reset |-> [m \in Mode |-> 0]]]
  /\ status = [t \in Token |-> "active"]
  /\ quota = [t \in Token |-> [m \in Mode |-> Total]]
  /\ reset = [t \in Token |-> [m \in Mode |-> 0]]
  /\ inflight = [t \in Token |-> 0]
  /\ cooling = [t \in Token |-> 0]
  /\ fails = [t \in Token |-> 0]
  /\ available = Token
  /\ dirty = {} /\ pending = {} /\ edits = 0 /\ unstored = {}
  /\ pc = [r \in Request |-> "start"]
  /\ lease = [r \in Request |-> NoToken]
  /\ leaseMode = [r \in Request |-> ModeOrder[1]]
  /\ excluded = [r \in Request |-> {}]
  /\ attempt = [r \in Request |-> 0]

-----------------------------------------------------------------------------
(* selector.py *)
WindowOver(t, m) == reset[t][m] # 0 /\ now >= reset[t][m]

(* Quota left for mode m once _maybe_reset_windows has looked at it. *)
EffectiveQuota(t, m) == IF WindowOver(t, m) THEN Total ELSE quota[t][m]

(* Mutants of the filters. *)
RandomCandidatesAgain(r) ==
  {t \in available : cooling[t] <= now /\ inflight[t] < Cap /\ fails[t] < MaxFails}
QuotaCandidatesUncapped(r, m) ==
  {t \in available \ excluded[r] : EffectiveQuota(t, m) > 0 /\ cooling[t] <= now}

RandomCandidates(r) ==
  {t \in available \ excluded[r] :
     /\ cooling[t] <= now
     /\ inflight[t] < Cap
     /\ fails[t] < MaxFails}

QuotaCandidates(r, m) ==
  {t \in available \ excluded[r] :
     /\ EffectiveQuota(t, m) > 0
     /\ inflight[t] < Cap
     /\ cooling[t] <= now}

QuotaAnyCandidates(r) == {t \in available \ excluded[r] : cooling[t] <= now}

Candidates(r, m) ==
  IF Strategy = "random" THEN RandomCandidates(r)
  ELSE IF r \in AnyRequest THEN QuotaAnyCandidates(r)
  ELSE QuotaCandidates(r, m)

(* The windows that the first n modes' selections reset in passing. *)
ResetsWindow(r, t, m, n) ==
  /\ Strategy = "quota"
  /\ r \notin AnyRequest
  /\ t \in available
  /\ \E i \in 1..n : ModeOrder[i] = m
  /\ WindowOver(t, m)

TouchWindows(r, n) ==
  /\ quota' = [t \in Token |-> [m \in Mode |->
       IF ResetsWindow(r, t, m, n) THEN Total ELSE quota[t][m]]]
  /\ reset' = [t \in Token |-> [m \in Mode |->
       IF ResetsWindow(r, t, m, n) THEN now + Window ELSE reset[t][m]]]

(* Only chat requests try further modes, other accounts, or a refresh. *)
Chat(r)     == r \notin AnyRequest \cup EditRequest
LastMode(r) == IF Chat(r) THEN Len(ModeOrder) ELSE 1

CanReserve(r, t, n) ==
  /\ pc[r] \in {"start", "refreshed"}
  /\ \A i \in 1..(n - 1) : Candidates(r, ModeOrder[i]) = {}
  /\ t \in Candidates(r, ModeOrder[n])

(* AccountDirectory.reserve / reserve_any: the first mode with a candidate. *)
Reserve(r, t) ==
  /\ \E n \in 1..LastMode(r) :
       /\ CanReserve(r, t, n)
       /\ TouchWindows(r, n)
       /\ leaseMode' = [leaseMode EXCEPT ![r] = ModeOrder[n]]
  /\ inflight' = [inflight EXCEPT ![t] = @ + 1]
  /\ lease' = [lease EXCEPT ![r] = t]
  /\ pc' = [pc EXCEPT ![r] = IF r \in EditRequest THEN "prepare" ELSE "held"]
  /\ UNCHANGED <<now, status, cooling, fails, available, storeVars, excluded,
                 attempt, edits>>

(* Mutant: wait for an account. *)
ReserveFailsWaits(r) ==
  /\ pc[r] \in {"start", "refreshed"}
  /\ \A i \in 1..LastMode(r) : Candidates(r, ModeOrder[i]) = {}
  /\ TouchWindows(r, LastMode(r))
  /\ UNCHANGED <<now, status, inflight, cooling, fails, available, storeVars,
                 requestVars, edits>>

(* Nobody to lease: quota requests ask for a refresh and try once more. *)
ReserveFails(r) ==
  /\ pc[r] \in {"start", "refreshed"}
  /\ \A i \in 1..LastMode(r) : Candidates(r, ModeOrder[i]) = {}
  /\ TouchWindows(r, LastMode(r))
  /\ pc' = [pc EXCEPT ![r] =
       IF Strategy = "quota" /\ Chat(r) /\ pc[r] = "start"
       THEN "refreshed" ELSE "done"]
  /\ UNCHANGED <<now, status, inflight, cooling, fails, available, storeVars,
                 lease, leaseMode, excluded, attempt, edits>>

-----------------------------------------------------------------------------
(* Image edit: the references are uploaded between the reservation and the   *)
(* protected part of the handler; only an Exception releases the lease, a    *)
(* cancellation passes by, and so does a stream whose client never reads.    *)
Prepared(r) ==
  /\ pc[r] = "prepare"
  /\ pc' = [pc EXCEPT ![r] = "held"]
  /\ UNCHANGED <<now, tableVars, storeVars, lease, leaseMode, excluded, attempt, edits>>

(* fb.decrement_inflight *)
Released(t) == [inflight EXCEPT ![t] = IF @ = 0 THEN 0 ELSE @ - 1]

PrepareFails(r) ==
  /\ pc[r] = "prepare"
  /\ pc' = [pc EXCEPT ![r] = "done"]
  /\ inflight' = Released(lease[r])
  /\ lease' = [lease EXCEPT ![r] = NoToken]
  /\ UNCHANGED <<now, status, quota, reset, cooling, fails, available, storeVars,
                 leaseMode, excluded, attempt, edits>>

PrepareCancelled(r) ==
  /\ pc[r] = "prepare"
  /\ pc' = [pc EXCEPT ![r] = "done"]
  /\ lease' = [lease EXCEPT ![r] = NoToken]
  /\ UNCHANGED <<now, tableVars, storeVars, leaseMode, excluded, attempt, edits>>

(* Websocket images report only what condemns the account. *)
Reports(r, k) == r \in AnyRequest => k \in {"unauthorized", "forbidden"}

MaxOf(a, b) == IF a > b THEN a ELSE b

(* AccountDirectory.feedback, column by column. *)
FeedbackStatus(k, s) == IF k = "unauthorized" THEN "expired" ELSE s

FeedbackQuota(k, q) ==
  IF Strategy = "quota" /\ k = "rate_limited" THEN 0
  ELSE IF Strategy = "quota" /\ k = "success" /\ q > 0 THEN q - 1
  ELSE q

FeedbackCooling(k, c) ==
  IF k = "forbidden" THEN MaxOf(c, now + ForbiddenCooling)
  ELSE IF k = "rate_limited" /\ Strategy = "random" THEN MaxOf(c, now + RateCooling)
  ELSE c

(* Mutant: only rate limits are worth a task. *)
SpawnedOnRateLimit(r, k) ==
  IF k # "rate_limited" THEN {}
  ELSE {[request |-> r, attempt |-> attempt[r], token |-> lease[r],
         mode |-> leaseMode[r], kind |-> k]}

(* A task is worth running when it will write: quota of a success is synced  *)
(* under the quota strategy only, a transport failure is not recorded.       *)
Spawned(r, k) ==
  IF r \in AnyRequest \/ k = "transport_error" \/ (k = "success" /\ Strategy = "random")
  THEN {}
  ELSE {[request |-> r, attempt |-> attempt[r], token |-> lease[r],
         mode |-> leaseMode[r], kind |-> k]}

MayRetry(r, k) == Chat(r) /\ k \in RetryKind /\ attempt[r] < MaxRetries

(* A client that goes away is reported as a server error, without a retry.   *)
MayStop(r, k) == ~MayRetry(r, k) \/ k = "server_error"

(* The finally block of a call: release, feedback, and the spawned task. *)
Report(r, k) ==
  LET t == lease[r] IN
  /\ pc[r] = "held"
  /\ inflight' = Released(t)
  /\ lease' = [lease EXCEPT ![r] = NoToken]
  /\ IF Reports(r, k)
       THEN /\ status' = [status EXCEPT ![t] = FeedbackStatus(k, @)]
            /\ available' = IF k = "unauthorized" THEN available \ {t} ELSE available
            /\ quota' = [quota EXCEPT ![t] = [m \in Mode |->
                 IF m = leaseMode[r] THEN FeedbackQuota(k, quota[t][m]) ELSE quota[t][m]]]
            /\ cooling' = [cooling EXCEPT ![t] = FeedbackCooling(k, @)]
            /\ fails' = [fails EXCEPT ![t] = IF k \in Failure THEN @ + 1 ELSE @]
       ELSE UNCHANGED <<status, available, quota, cooling, fails>>
  /\ pending' = pending \cup Spawned(r, k)
  /\ unstored' = IF r \in AnyRequest /\ Reports(r, k) THEN unstored \cup {t} ELSE unstored
  /\ UNCHANGED <<now, reset, record, dirty, leaseMode, edits>>

Finish(r, k) ==
  /\ MayStop(r, k)
  /\ Report(r, k)
  /\ pc' = [pc EXCEPT ![r] = "done"]
  /\ UNCHANGED <<excluded, attempt>>

Retry(r, k) ==
  /\ MayRetry(r, k)
  /\ Report(r, k)
  /\ pc' = [pc EXCEPT ![r] = "start"]
  /\ excluded' = [excluded EXCEPT ![r] = @ \cup {lease[r]}]
  /\ attempt' = [attempt EXCEPT ![r] = @ + 1]

(* The next client; a bound: not while tasks of the last one are pending. *)
Arrive(r) ==
  /\ r \in Returning
  /\ pc[r] = "done"
  /\ \A x \in pending : x.request # r
  /\ pc' = [pc EXCEPT ![r] = "start"]
  /\ excluded' = [excluded EXCEPT ![r] = {}]
  /\ attempt' = [attempt EXCEPT ![r] = 0]
  /\ UNCHANGED <<now, tableVars, storeVars, lease, leaseMode, edits>>

-----------------------------------------------------------------------------
(* record_failure_async and refresh_call_async: one patch, read-modify-write *)
(* (AccountLifecycle separates the read from the write).                     *)
FailedRow(x, row) ==
  [status |-> IF x.kind = "unauthorized" THEN "expired"
              ELSE IF x.kind = "server_error" THEN row.status
              ELSE "cooling",
   until  |-> IF x.kind = "forbidden" THEN now + ForbiddenCooling
              ELSE IF x.kind = "rate_limited" THEN now + RateCooling
              ELSE row.until,
   fails  |-> IF x.kind = "unauthorized" THEN row.fails ELSE row.fails + 1,
   quota  |-> IF x.kind = "rate_limited" THEN [row.quota EXCEPT ![x.mode] = 0]
                                         ELSE row.quota,
   reset  |-> IF x.kind = "rate_limited" /\ row.reset[x.mode] <= now
                THEN [row.reset EXCEPT ![x.mode] = now + Window] ELSE row.reset]

SyncedQuotaRow(m, row, q) ==
  [status |-> row.status, until |-> row.until, fails |-> row.fails,
   quota  |-> [row.quota EXCEPT ![m] = q],
   reset  |-> [row.reset EXCEPT ![m] = now + Window]]

Persist(x) ==
  /\ x \in pending
  /\ pending' = pending \ {x}
  /\ IF x.kind = "success"
       THEN \E q \in 0..Total :
              record' = [record EXCEPT ![x.token] = SyncedQuotaRow(x.mode, @, q)]
       ELSE record' = [record EXCEPT ![x.token] = FailedRow(x, @)]
  /\ dirty' = dirty \cup {x.token}
  /\ UNCHANGED <<now, tableVars, unstored, requestVars, edits>>

(* _quota_sync, _fail_sync and record_failure_async swallow what the         *)
(* upstream or the store throws: nothing of the outcome is stored.           *)
PersistFails(x) ==
  /\ x \in pending
  /\ pending' = pending \ {x}
  /\ unstored' = IF x.kind = "success" THEN unstored ELSE unstored \cup {x.token}
  /\ UNCHANGED <<now, tableVars, record, dirty, requestVars, edits>>

(* Mutant of the sync. *)
SyncedInflightReset == [t \in Token |-> IF t \in dirty THEN 0 ELSE inflight[t]]

(* apply_changes: the row's columns replace the slot's; inflight is kept. *)
SlotStatus(row) == IF row.status = "cooling" THEN "active" ELSE row.status

SyncedIndex == (available \ dirty) \cup {t \in dirty : SlotStatus(record[t]) = "active"}

SyncedInflight == inflight

SyncTable ==
  /\ dirty # {}
  /\ dirty' = {}
  /\ status'  = [t \in Token |-> IF t \in dirty THEN SlotStatus(record[t]) ELSE status[t]]
  /\ quota'   = [t \in Token |-> IF t \in dirty THEN record[t].quota ELSE quota[t]]
  /\ reset'   = [t \in Token |-> IF t \in dirty THEN record[t].reset ELSE reset[t]]
  /\ cooling' = [t \in Token |-> IF t \in dirty THEN record[t].until ELSE cooling[t]]
  /\ fails'   = [t \in Token |-> IF t \in dirty THEN record[t].fails ELSE fails[t]]
  /\ inflight' = SyncedInflight
  /\ available' = SyncedIndex
  /\ unstored' = unstored \ dirty
  /\ UNCHANGED <<now, record, pending, requestVars, edits>>

DisabledRow(row) ==
  [status |-> "disabled", until |-> row.until, fails |-> row.fails,
   quota |-> row.quota, reset |-> row.reset]
RestoredRow(row) ==
  [status |-> "active", until |-> 0, fails |-> 0,
   quota |-> row.quota, reset |-> row.reset]

(* The operator disables or restores an account. *)
Edit(t) ==
  /\ edits < MaxEdits
  /\ edits' = edits + 1
  /\ dirty' = dirty \cup {t}
  /\ \/ record' = [record EXCEPT ![t] = DisabledRow(@)]
     \/ record' = [record EXCEPT ![t] = RestoredRow(@)]
  /\ UNCHANGED <<now, tableVars, pending, unstored, requestVars>>

Tick ==
  /\ now < MaxTime
  /\ now' = now + 1
  /\ UNCHANGED <<tableVars, storeVars, requestVars, edits>>

RequestStep(r) ==
  \/ \E t \in Token : Reserve(r, t)
  \/ ReserveFails(r)
  \/ Prepared(r)
  \/ PrepareFails(r)
  \/ \E k \in Kind : Finish(r, k) \/ Retry(r, k)

Next ==
  \/ \E r \in Request : RequestStep(r) \/ PrepareCancelled(r) \/ Arrive(r)
  \/ \E x \in pending : Persist(x) \/ PersistFails(x)
  \/ SyncTable
  \/ \E t \in Token : Edit(t)
  \/ Tick

Spec == Init /\ [][Next]_vars

(* Calls time out, tasks run, the sync loop polls; clients may stay away.    *)
Fairness ==
  /\ \A r \in Request : WF_vars(RequestStep(r))
  /\ WF_vars(\E x \in pending : Persist(x))
  /\ WF_vars(SyncTable)

FairSpec == Spec /\ Fairness

-----------------------------------------------------------------------------
Holders(t) == {r \in Request : lease[r] = t}

(* Safety: the inflight column counts the leases requests still hold, no     *)
(* matter how calls end, retry, or how often the sync rewrites the slot      *)
(* (release: "decrement inflight counter for a finished request").           *)
InflightIsLeases == \A t \in Token : inflight[t] = Cardinality(Holders(t))

(* Safety: an account never serves more than Cap requests at once            *)
(* (selector.py: a single account runs at most 12 concurrent requests).      *)
InflightCapped == \A t \in Token : inflight[t] <= Cap

(* Safety: a request never gets an account it has already tried, though      *)
(* feedback and syncs may make that account eligible again in between.       *)
NoAccountTriedTwice ==
  \A r \in Request :
    /\ Cardinality(excluded[r]) = attempt[r]
    /\ lease[r] \notin excluded[r]

(* Safety: an account is in the index exactly when its slot is ACTIVE, after *)
(* any mix of 401 feedback and syncs.                                        *)
IndexMatchesStatus == available = {t \in Token : status[t] = "active"}

(* What the selection reads of an account is what its row says.              *)
Shown(t) ==
  /\ status[t] = SlotStatus(record[t])
  /\ cooling[t] = record[t].until
  /\ fails[t] = record[t].fails

(* The table keeps the account out at least as long as its row would.        *)
Stricter(t) ==
  /\ status[t] \in {SlotStatus(record[t]), "expired"}
  /\ cooling[t] >= record[t].until
  /\ fails[t] >= record[t].fails

(* Safety: once every task has run and the sync has caught up, the table     *)
(* shows what the repository says, whatever order feedback, tasks, edits and *)
(* syncs came in.  A failure that is not stored, because the store threw     *)
(* (refresh.py logs it) or a websocket image reported it to the table only,  *)
(* leaves the table stricter than the row, and only until the account's row  *)
(* is written and synced again.                                              *)
Converged ==
  (pending = {} /\ dirty = {}) =>
    \A t \in Token : IF t \in unstored THEN Stricter(t) ELSE Shown(t)

(* Liveness: a request ends, whatever the accounts answer. *)
RequestsEnd == \A r \in Request : pc[r] # "done" ~> pc[r] = "done"

(* The abstract lease pool this implements. *)
Pool == INSTANCE LeasePool WITH
  Client <- Request, Item <- Token, Nothing <- NoToken, holding <- lease

PoolSpec == Pool!Spec
-----------------------------------------------------------------------------
(* Claims of the code's comments that do not hold; the README says in which  *)
(* instances.                                                                *)

(* Action property: a running cooldown is not cut short (feedback.py: the    *)
(* account is filtered out "until cooling_until_s_by_idx has elapsed").      *)
CooldownKept ==
  [][\A t \in Token : cooling[t] > now => cooling'[t] >= cooling[t]]_vars

(* Action property: an account whose credentials the upstream refused stays  *)
(* out of selection (images.py: "propagate auth failures so bad accounts get *)
(* marked expired"); checked where no operator restores accounts.            *)
ExpiredStays ==
  [][\A t \in Token : status[t] = "expired" => status'[t] = "expired"]_vars

(* Liveness: an account passed over for its failures is only passed over for *)
(* a time (selector.py: "temporarily not selected").                         *)
FailExclusionEnds ==
  \A t \in Token : fails[t] >= MaxFails ~> fails[t] < MaxFails
=============================================================================

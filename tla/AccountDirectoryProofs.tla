----------------------- MODULE AccountDirectoryProofs -----------------------
(***************************************************************************)
(* Proofs about AccountDirectory for every number of accounts, requests,    *)
(* modes and every limit: the inflight column counts the leases, no account *)
(* is leased beyond its cap, the directory implements LeasePool, no request *)
(* tries an account twice, the index lists the active accounts, and what    *)
(* feedback said reaches the store.                                         *)
(***************************************************************************)
EXTENDS AccountDirectory, FiniteSetTheorems, TLAPS

(* Nothing loses a lease: no request runs the image edit preparation. *)
NoEdits == EditRequest = {}

(* Every selection checks the cap: reserve_any does under "random" only.     *)
AllCapped == Strategy = "random" \/ AnyRequest = {}

(* The part of TypeOK the lease proofs need. *)
LeaseType ==
  /\ inflight \in [Token -> Nat]
  /\ lease \in [Request -> Token \cup {NoToken}]
  /\ pc \in [Request -> {"start", "refreshed", "prepare", "held", "done"}]

(* A request holds a lease exactly while it calls; without image edits none  *)
(* prepares.                                                                 *)
LeaseMatchesPc ==
  \A r \in Request :
    /\ pc[r] # "prepare"
    /\ lease[r] # NoToken <=> pc[r] = "held"

LeaseInv == LeaseType /\ LeaseMatchesPc /\ InflightIsLeases

-----------------------------------------------------------------------------
(* How a change of one request's lease changes what every account's holders are. *)
LEMMA HoldersFinite ==
  ASSUME NEW t
  PROVE  IsFiniteSet(Holders(t)) /\ Cardinality(Holders(t)) \in Nat
  BY RequestAssumption, FS_Subset, FS_CardinalityType DEF Holders

LEMMA HoldersTaken ==
  ASSUME lease \in [Request -> Token \cup {NoToken}],
         NEW r \in Request, NEW t \in Token,
         lease[r] = NoToken,
         lease' = [lease EXCEPT ![r] = t],
         NEW u \in Token
  PROVE  Cardinality({q \in Request : lease'[q] = u}) =
           Cardinality(Holders(u)) + (IF u = t THEN 1 ELSE 0)
<1> DEFINE New == {q \in Request : lease'[q] = u}
<1>1. CASE u = t
  <2>1. New = Holders(u) \cup {r}
    BY <1>1 DEF Holders
  <2>2. r \notin Holders(u)
    BY NoTokenAssumption DEF Holders
  <2>3. Cardinality(Holders(u) \cup {r}) = Cardinality(Holders(u)) + 1
    BY <2>2, HoldersFinite, FS_AddElement
  <2> QED BY <1>1, <2>1, <2>3
<1>2. CASE u # t
  <2>1. New = Holders(u)
    BY <1>2, NoTokenAssumption DEF Holders
  <2>2. Cardinality(Holders(u)) \in Nat
    BY HoldersFinite
  <2> QED BY <1>2, <2>1, <2>2
<1> QED BY <1>1, <1>2

LEMMA HoldersReleased ==
  ASSUME lease \in [Request -> Token \cup {NoToken}],
         NEW r \in Request, lease[r] \in Token,
         lease' = [lease EXCEPT ![r] = NoToken],
         NEW u \in Token
  PROVE  /\ Cardinality({q \in Request : lease'[q] = u}) =
              Cardinality(Holders(u)) - (IF u = lease[r] THEN 1 ELSE 0)
         /\ u = lease[r] => Cardinality(Holders(u)) # 0
<1> DEFINE New == {q \in Request : lease'[q] = u}
<1>1. CASE u = lease[r]
  <2>1. New = Holders(u) \ {r}
    BY <1>1, NoTokenAssumption DEF Holders
  <2>2. r \in Holders(u)
    BY <1>1 DEF Holders
  <2>3. Cardinality(Holders(u) \ {r}) = Cardinality(Holders(u)) - 1
    BY <2>2, HoldersFinite, FS_RemoveElement
  <2>4. Cardinality(Holders(u)) # 0
    BY <2>2, HoldersFinite, FS_EmptySet
  <2> QED BY <1>1, <2>1, <2>3, <2>4
<1>2. CASE u # lease[r]
  <2>1. New = Holders(u)
    BY <1>2, NoTokenAssumption DEF Holders
  <2>2. Cardinality(Holders(u)) \in Nat
    BY HoldersFinite
  <2> QED BY <1>2, <2>1, <2>2
<1> QED BY <1>1, <1>2

(* A step that changes neither the leases nor their counts. *)
LEMMA LeasesUntouched ==
  ASSUME LeaseInv, inflight' = inflight, lease' = lease, LeaseType', LeaseMatchesPc'
  PROVE  LeaseInv'
  BY DEF LeaseInv, InflightIsLeases, Holders

(* A step that takes one lease, and one that gives one back. *)
LEMMA LeaseTaken ==
  ASSUME LeaseInv, NEW r \in Request, NEW t \in Token,
         pc[r] \in {"start", "refreshed"},
         inflight' = [inflight EXCEPT ![t] = @ + 1],
         lease' = [lease EXCEPT ![r] = t],
         pc' = [pc EXCEPT ![r] = "held"]
  PROVE  LeaseInv'
<1>1. lease[r] = NoToken
  BY DEF LeaseInv, LeaseMatchesPc
<1>2. LeaseType'
  BY DEF LeaseInv, LeaseType
<1>3. LeaseMatchesPc'
  BY NoTokenAssumption DEF LeaseInv, LeaseType, LeaseMatchesPc
<1>4. ASSUME NEW u \in Token
      PROVE  inflight'[u] = Cardinality({q \in Request : lease'[q] = u})
  <2>1. Cardinality({q \in Request : lease'[q] = u}) =
          Cardinality(Holders(u)) + (IF u = t THEN 1 ELSE 0)
    BY <1>1, HoldersTaken DEF LeaseInv, LeaseType
  <2>2. inflight[u] = Cardinality(Holders(u)) /\ inflight[u] \in Nat
    BY DEF LeaseInv, LeaseType, InflightIsLeases
  <2> QED BY <2>1, <2>2 DEF LeaseInv, LeaseType
<1> QED BY <1>2, <1>3, <1>4 DEF LeaseInv, InflightIsLeases, Holders

LEMMA LeaseReleased ==
  ASSUME LeaseInv, NEW r \in Request,
         pc[r] = "held",
         inflight' = Released(lease[r]),
         lease' = [lease EXCEPT ![r] = NoToken],
         NEW s \in {"start", "done"},
         pc' = [pc EXCEPT ![r] = s]
  PROVE  LeaseInv'
<1>1. lease[r] \in Token
  BY DEF LeaseInv, LeaseType, LeaseMatchesPc
<1>2. LeaseType'
  BY <1>1 DEF LeaseInv, LeaseType, Released
<1>3. LeaseMatchesPc'
  BY NoTokenAssumption DEF LeaseInv, LeaseType, LeaseMatchesPc
<1>4. ASSUME NEW u \in Token
      PROVE  inflight'[u] = Cardinality({q \in Request : lease'[q] = u})
  <2>1. /\ Cardinality({q \in Request : lease'[q] = u}) =
             Cardinality(Holders(u)) - (IF u = lease[r] THEN 1 ELSE 0)
        /\ u = lease[r] => Cardinality(Holders(u)) # 0
    BY <1>1, HoldersReleased DEF LeaseInv, LeaseType
  <2>2. inflight[u] = Cardinality(Holders(u)) /\ inflight[u] \in Nat
    BY DEF LeaseInv, LeaseType, InflightIsLeases
  <2> QED BY <2>1, <2>2 DEF LeaseInv, LeaseType, Released
<1> QED BY <1>2, <1>3, <1>4 DEF LeaseInv, InflightIsLeases, Holders

LEMMA LeaseInvInit == Init => LeaseInv
<1> SUFFICES ASSUME Init PROVE LeaseInv
  OBVIOUS
<1>1. LeaseType /\ LeaseMatchesPc
  BY DEF Init, LeaseType, LeaseMatchesPc
<1>2. \A t \in Token : Holders(t) = {}
  BY NoTokenAssumption DEF Init, Holders
<1>3. InflightIsLeases
  BY <1>2, FS_EmptySet DEF Init, InflightIsLeases
<1> QED BY <1>1, <1>3 DEF LeaseInv

LEMMA LeaseInvStep ==
  ASSUME NoEdits, LeaseInv, [Next]_vars
  PROVE  LeaseInv'
<1>1. ASSUME NEW r \in Request, NEW t \in Token, Reserve(r, t)
      PROVE  LeaseInv'
  BY <1>1, LeaseTaken DEF Reserve, CanReserve, NoEdits
<1>2. ASSUME NEW r \in Request, ReserveFails(r)
      PROVE  LeaseInv'
  <2>1. inflight' = inflight /\ lease' = lease
    BY <1>2 DEF ReserveFails
  <2>2. LeaseType' /\ LeaseMatchesPc'
    BY <1>2 DEF ReserveFails, LeaseInv, LeaseType, LeaseMatchesPc
  <2> QED BY <2>1, <2>2, LeasesUntouched
<1>3. ASSUME NEW r \in Request, Prepared(r) \/ PrepareFails(r) \/ PrepareCancelled(r)
      PROVE  FALSE
  BY <1>3 DEF Prepared, PrepareFails, PrepareCancelled, LeaseInv, LeaseMatchesPc
<1>4. ASSUME NEW r \in Request, NEW k \in Kind, Finish(r, k) \/ Retry(r, k)
      PROVE  LeaseInv'
  BY <1>4, LeaseReleased DEF Finish, Retry, Report
<1>5. ASSUME NEW r \in Request, Arrive(r)
      PROVE  LeaseInv'
  <2>1. inflight' = inflight /\ lease' = lease
    BY <1>5 DEF Arrive, tableVars
  <2>2. LeaseType' /\ LeaseMatchesPc'
    BY <1>5 DEF Arrive, tableVars, LeaseInv, LeaseType, LeaseMatchesPc
  <2> QED BY <2>1, <2>2, LeasesUntouched
<1>6. ASSUME \/ \E x \in pending : Persist(x) \/ PersistFails(x)
             \/ SyncTable \/ (\E t \in Token : Edit(t)) \/ Tick
             \/ UNCHANGED vars
      PROVE  LeaseInv'
  <2>1. inflight' = inflight /\ lease' = lease /\ pc' = pc
    BY <1>6 DEF Persist, PersistFails, SyncTable, SyncedInflight, Edit, Tick,
                tableVars, requestVars, vars
  <2>2. LeaseType' /\ LeaseMatchesPc'
    BY <2>1 DEF LeaseInv, LeaseType, LeaseMatchesPc
  <2> QED BY <2>1, <2>2, LeasesUntouched
<1> QED BY <1>1, <1>2, <1>3, <1>4, <1>4, <1>5, <1>5, <1>6 DEF Next, RequestStep

(* The counter of an account equals the leases its requests hold, through    *)
(* retries, failures and syncs (AccountDirectory.release and reserve).       *)
THEOREM InflightCountsLeases ==
  ASSUME NoEdits PROVE Spec => []InflightIsLeases
<1>1. Init => LeaseInv
  BY LeaseInvInit
<1>2. LeaseInv /\ [Next]_vars => LeaseInv'
  BY LeaseInvStep
<1>3. LeaseInv => InflightIsLeases
  BY DEF LeaseInv
<1> QED BY <1>1, <1>2, <1>3, PTL DEF Spec

-----------------------------------------------------------------------------
(* Only a reservation raises a counter, and its filter has seen it below Cap. *)
LEMMA TakenBelowCap ==
  ASSUME AllCapped, NEW r \in Request, NEW t \in Token, Reserve(r, t)
  PROVE  inflight[t] < Cap
  BY DEF AllCapped, Reserve, CanReserve, Candidates, RandomCandidates, QuotaCandidates

LEMMA CappedStep ==
  ASSUME AllCapped, LeaseType, InflightCapped, [Next]_vars
  PROVE  InflightCapped'
<1>1. \A t \in Token : inflight[t] \in Nat /\ inflight[t] <= Cap
  BY DEF LeaseType, InflightCapped
<1>2. ASSUME NEW r \in Request, NEW t \in Token, Reserve(r, t)
      PROVE  InflightCapped'
  <2>1. inflight[t] < Cap
    BY <1>2, TakenBelowCap
  <2>2. inflight' = [inflight EXCEPT ![t] = @ + 1]
    BY <1>2 DEF Reserve
  <2> QED BY <1>1, <2>1, <2>2, NumberAssumption DEF InflightCapped, LeaseType
<1>3. ASSUME NEW r \in Request,
             PrepareFails(r) \/ (\E k \in Kind : Finish(r, k) \/ Retry(r, k))
      PROVE  InflightCapped'
  <2>1. inflight' = Released(lease[r])
    BY <1>3 DEF PrepareFails, Finish, Retry, Report
  <2> QED BY <1>1, <2>1, NumberAssumption DEF Released, InflightCapped, LeaseType
<1>4. ASSUME \/ \E r \in Request : \/ ReserveFails(r) \/ Prepared(r)
                                    \/ PrepareCancelled(r) \/ Arrive(r)
             \/ \E x \in pending : Persist(x) \/ PersistFails(x)
             \/ SyncTable \/ (\E t \in Token : Edit(t)) \/ Tick
             \/ UNCHANGED vars
      PROVE  InflightCapped'
  <2>1. inflight' = inflight
    BY <1>4 DEF ReserveFails, Prepared, PrepareCancelled, Arrive, Persist, PersistFails,
                SyncTable, SyncedInflight, Edit, Tick, tableVars, vars
  <2> QED BY <2>1 DEF InflightCapped
<1> QED BY <1>2, <1>3, <1>4 DEF Next, RequestStep

-----------------------------------------------------------------------------
LEMMA PoolStep ==
  ASSUME NoEdits, AllCapped, LeaseInv, [Next]_vars
  PROVE  [Pool!Next]_lease
<1>1. ASSUME NEW r \in Request, NEW t \in Token, Reserve(r, t)
      PROVE  Pool!Take(r, t)
  <2>1. lease[r] = NoToken
    BY <1>1 DEF Reserve, CanReserve, LeaseInv, LeaseMatchesPc
  <2>2. Cardinality({d \in Request : lease[d] = t}) < Cap
    BY <1>1, TakenBelowCap DEF LeaseInv, InflightIsLeases, Holders
  <2>3. lease' = [lease EXCEPT ![r] = t]
    BY <1>1 DEF Reserve
  <2> QED BY <2>1, <2>2, <2>3 DEF Pool!Take, Pool!Cardinality, Cardinality
<1>2. ASSUME NEW r \in Request, NEW k \in Kind, Finish(r, k) \/ Retry(r, k)
      PROVE  Pool!GiveBack(r)
  BY <1>2 DEF Finish, Retry, Report, Pool!GiveBack, LeaseInv, LeaseMatchesPc
<1>3. ASSUME NEW r \in Request, Prepared(r) \/ PrepareFails(r) \/ PrepareCancelled(r)
      PROVE  FALSE
  BY <1>3 DEF Prepared, PrepareFails, PrepareCancelled, LeaseInv, LeaseMatchesPc
<1>4. ASSUME \/ \E r \in Request : ReserveFails(r) \/ Arrive(r)
             \/ \E x \in pending : Persist(x) \/ PersistFails(x)
             \/ SyncTable \/ (\E t \in Token : Edit(t)) \/ Tick
             \/ UNCHANGED vars
      PROVE  UNCHANGED lease
  BY <1>4 DEF ReserveFails, Arrive, Persist, PersistFails, SyncTable, Edit, Tick,
              requestVars, vars
<1> QED BY <1>1, <1>2, <1>3, <1>4 DEF Next, RequestStep, Pool!Next

(* The directory's counters implement one counting semaphore per account.    *)
THEOREM DirectoryImplementsLeasePool ==
  ASSUME NoEdits, AllCapped PROVE Spec => PoolSpec
<1>1. Init => Pool!Init
  BY DEF Init, Pool!Init
<1>2. LeaseInv /\ [Next]_vars => [Pool!Next]_lease
  BY PoolStep
<1>3. Init => LeaseInv
  BY LeaseInvInit
<1>4. LeaseInv /\ [Next]_vars => LeaseInv'
  BY LeaseInvStep
<1> QED BY <1>1, <1>2, <1>3, <1>4, PTL DEF Spec, PoolSpec, Pool!Spec

-----------------------------------------------------------------------------
LEMMA RowTypes ==
  ASSUME now \in Nat, NEW row \in Record
  PROVE  /\ \A x \in Task : FailedRow(x, row) \in Record
         /\ \A m \in Mode, q \in Nat : SyncedQuotaRow(m, row, q) \in Record
         /\ DisabledRow(row) \in Record /\ RestoredRow(row) \in Record
         /\ SlotStatus(row) \in {"active", "disabled", "expired"}
<1>1. now + ForbiddenCooling \in Nat /\ now + RateCooling \in Nat /\ now + Window \in Nat
  BY NumberAssumption
<1>2. ASSUME NEW x \in Task PROVE FailedRow(x, row) \in Record
  <2>1. row.reset[x.mode] \in Nat
    BY DEF Record, Task
  <2> QED BY <1>1, <2>1 DEF FailedRow, Record, Task
<1>3. ASSUME NEW m \in Mode, NEW q \in Nat PROVE SyncedQuotaRow(m, row, q) \in Record
  BY <1>1 DEF SyncedQuotaRow, Record
<1>4. DisabledRow(row) \in Record /\ RestoredRow(row) \in Record
  BY DEF DisabledRow, RestoredRow, Record
<1>5. SlotStatus(row) \in {"active", "disabled", "expired"}
  BY DEF SlotStatus, Record
<1> QED BY <1>2, <1>3, <1>4, <1>5

LEMMA WindowTypes ==
  ASSUME TypeOK, NEW r \in Request, NEW n, TouchWindows(r, n)
  PROVE  /\ quota' \in [Token -> [Mode -> Nat]]
         /\ reset' \in [Token -> [Mode -> Nat]]
  BY NumberAssumption DEF TypeOK, TouchWindows

LEMMA FirstModeInRange ==
  /\ ModeOrder[1] \in Mode
  /\ \A r \in Request : \A n \in 1..LastMode(r) : ModeOrder[n] \in Mode
  BY ModeAssumption DEF LastMode

LEMMA ReleasedType ==
  ASSUME inflight \in [Token -> Nat], NEW t
  PROVE  Released(t) \in [Token -> Nat]
<1>1. \A u \in Token : (IF inflight[u] = 0 THEN 0 ELSE inflight[u] - 1) \in Nat
  OBVIOUS
<1> QED BY <1>1 DEF Released

LEMMA ReportTypes ==
  ASSUME TypeOK, NEW r \in Request, NEW k \in Kind, lease[r] \in Token, Report(r, k)
  PROVE  /\ inflight' \in [Token -> Nat]
         /\ lease' \in [Request -> Token \cup {NoToken}]
         /\ status' \in [Token -> {"active", "disabled", "expired"}]
         /\ available' \in SUBSET Token
         /\ quota' \in [Token -> [Mode -> Nat]]
         /\ cooling' \in [Token -> Nat]
         /\ fails' \in [Token -> Nat]
         /\ pending' \in SUBSET Task
        /\ unstored' \in SUBSET Token
<1>1. inflight' \in [Token -> Nat]
  BY ReleasedType DEF Report, TypeOK
<1>2. lease' \in [Request -> Token \cup {NoToken}]
  BY DEF Report, TypeOK
<1>3. pending' \in SUBSET Task
  <2>1. Spawned(r, k) \subseteq Task
    BY DEF Spawned, Task, TypeOK, Kind
  <2> QED BY <2>1 DEF Report, TypeOK
<1>6. unstored' \in SUBSET Token
  BY DEF Report, TypeOK
<1>4. CASE Reports(r, k)
  <2>1. status' \in [Token -> {"active", "disabled", "expired"}]
    BY <1>4 DEF Report, FeedbackStatus, TypeOK
  <2>2. available' \in SUBSET Token
    BY <1>4 DEF Report, TypeOK
  <2>3. quota' \in [Token -> [Mode -> Nat]]
    <3>1. \A q \in Nat : FeedbackQuota(k, q) \in Nat
      BY DEF FeedbackQuota
    <3>2. \A m \in Mode : quota[lease[r]][m] \in Nat
      BY DEF TypeOK
    <3>3. [m \in Mode |-> IF m = leaseMode[r] THEN FeedbackQuota(k, quota[lease[r]][m])
                          ELSE quota[lease[r]][m]] \in [Mode -> Nat]
      BY <3>1, <3>2
    <3> QED BY <1>4, <3>3 DEF Report, TypeOK
  <2>4. cooling' \in [Token -> Nat]
    <3>1. \A c \in Nat : FeedbackCooling(k, c) \in Nat
      BY NumberAssumption DEF FeedbackCooling, MaxOf, TypeOK
    <3>2. cooling' = [cooling EXCEPT ![lease[r]] = FeedbackCooling(k, @)]
      BY <1>4 DEF Report
    <3> QED BY <3>1, <3>2 DEF TypeOK
  <2>5. fails' \in [Token -> Nat]
    BY <1>4 DEF Report, TypeOK
  <2> QED BY <1>1, <1>2, <1>3, <1>6, <2>1, <2>2, <2>3, <2>4, <2>5
<1>5. CASE ~Reports(r, k)
  BY <1>1, <1>2, <1>3, <1>5, <1>6 DEF Report, TypeOK
<1> QED BY <1>4, <1>5

(* A request in "prepare" or "held" has a lease; with image edits as well.   *)
Leased == \A r \in Request : pc[r] \in {"prepare", "held"} => lease[r] \in Token

LEMMA TypeStep ==
  ASSUME TypeOK, Leased, [Next]_vars
  PROVE  TypeOK' /\ Leased'
<1>1. ASSUME NEW r \in Request, NEW t \in Token, Reserve(r, t)
      PROVE  TypeOK' /\ Leased'
  <2>1. /\ quota' \in [Token -> [Mode -> Nat]]
        /\ reset' \in [Token -> [Mode -> Nat]]
    BY <1>1, WindowTypes DEF Reserve
  <2>2. leaseMode' \in [Request -> Mode]
    BY <1>1, FirstModeInRange DEF Reserve, TypeOK
  <2>3. /\ inflight' = [inflight EXCEPT ![t] = @ + 1]
        /\ lease' = [lease EXCEPT ![r] = t]
        /\ pc' = [pc EXCEPT ![r] = IF r \in EditRequest THEN "prepare" ELSE "held"]
        /\ UNCHANGED <<now, status, cooling, fails, available, storeVars, excluded,
                       attempt, edits>>
    BY <1>1 DEF Reserve
  <2>4. TypeOK'
    BY <2>1, <2>2, <2>3 DEF TypeOK, storeVars
  <2>5. Leased'
    BY <2>3 DEF TypeOK, Leased
  <2> QED BY <2>4, <2>5
<1>2. ASSUME NEW r \in Request, ReserveFails(r)
      PROVE  TypeOK' /\ Leased'
  <2>1. /\ quota' \in [Token -> [Mode -> Nat]]
        /\ reset' \in [Token -> [Mode -> Nat]]
    BY <1>2, WindowTypes DEF ReserveFails
  <2> QED BY <1>2, <2>1 DEF ReserveFails, TypeOK, Leased, storeVars
<1>3. ASSUME NEW r \in Request, Prepared(r) \/ PrepareCancelled(r) \/ Arrive(r)
      PROVE  TypeOK' /\ Leased'
  <2>1. CASE Prepared(r)
    BY <2>1 DEF Prepared, TypeOK, Leased, tableVars, storeVars
  <2>2. CASE PrepareCancelled(r)
    BY <2>2 DEF PrepareCancelled, TypeOK, Leased, tableVars, storeVars
  <2>3. CASE Arrive(r)
    BY <2>3 DEF Arrive, TypeOK, Leased, tableVars, storeVars
  <2> QED BY <1>3, <2>1, <2>2, <2>3
<1>4. ASSUME NEW r \in Request, PrepareFails(r)
      PROVE  TypeOK' /\ Leased'
  <2>1. inflight' \in [Token -> Nat]
    BY <1>4, ReleasedType DEF PrepareFails, TypeOK
  <2> QED BY <1>4, <2>1 DEF PrepareFails, TypeOK, Leased, storeVars
<1>5. ASSUME NEW r \in Request, NEW k \in Kind, Finish(r, k) \/ Retry(r, k)
      PROVE  TypeOK' /\ Leased'
  <2>1. pc[r] = "held" /\ Report(r, k) /\ lease[r] \in Token
    BY <1>5 DEF Finish, Retry, Report, Leased
  <2>2. /\ inflight' \in [Token -> Nat]
        /\ lease' \in [Request -> Token \cup {NoToken}]
        /\ status' \in [Token -> {"active", "disabled", "expired"}]
        /\ available' \in SUBSET Token
        /\ quota' \in [Token -> [Mode -> Nat]]
        /\ cooling' \in [Token -> Nat]
        /\ fails' \in [Token -> Nat]
        /\ pending' \in SUBSET Task /\ unstored' \in SUBSET Token
    BY <2>1, ReportTypes
  <2>3. /\ UNCHANGED <<now, reset, record, dirty, leaseMode, edits>>
        /\ lease' = [lease EXCEPT ![r] = NoToken]
    BY <2>1 DEF Report
  <2>4. /\ pc' \in [Request -> {"start", "refreshed", "prepare", "held", "done"}]
        /\ pc' = [pc EXCEPT ![r] = "done"] \/ pc' = [pc EXCEPT ![r] = "start"]
        /\ excluded' \in [Request -> SUBSET Token]
        /\ attempt' \in [Request -> Nat]
    <3>1. CASE Finish(r, k)
      BY <3>1 DEF Finish, TypeOK
    <3>2. CASE Retry(r, k)
      BY <2>1, <3>2 DEF Retry, TypeOK
    <3> QED BY <1>5, <3>1, <3>2
  <2>5. Leased'
    BY <2>3, <2>4 DEF TypeOK, Leased
  <2> QED BY <2>2, <2>3, <2>4, <2>5 DEF TypeOK
<1>6. ASSUME NEW x \in pending, Persist(x) \/ PersistFails(x)
      PROVE  TypeOK' /\ Leased'
  <2>1. x \in Task /\ record[x.token] \in Record /\ x.token \in Token /\ x.mode \in Mode
    BY DEF TypeOK, Task
  <2>2. record' \in [Token -> Record]
    <3>1. CASE PersistFails(x)
      BY <3>1 DEF PersistFails, TypeOK
    <3>2. CASE Persist(x) /\ x.kind = "success"
      <4>1. PICK q \in 0..Total :
              record' = [record EXCEPT ![x.token] = SyncedQuotaRow(x.mode, @, q)]
        BY <3>2 DEF Persist
      <4>2. SyncedQuotaRow(x.mode, record[x.token], q) \in Record
        <5>1. q \in Nat /\ now \in Nat
          BY NumberAssumption DEF TypeOK
        <5> QED BY <2>1, <5>1, RowTypes
      <4> QED BY <4>1, <4>2 DEF TypeOK
    <3>3. CASE Persist(x) /\ x.kind # "success"
      <4>1. FailedRow(x, record[x.token]) \in Record
        BY <2>1, RowTypes DEF TypeOK
      <4> QED BY <3>3, <4>1 DEF Persist, TypeOK
    <3> QED BY <1>6, <3>1, <3>2, <3>3
  <2>3. /\ pending' \in SUBSET Task /\ dirty' \in SUBSET Token
        /\ unstored' \in SUBSET Token
        /\ UNCHANGED <<now, tableVars, requestVars, edits>>
    BY <1>6, <2>1 DEF Persist, PersistFails, TypeOK
  <2> QED BY <2>2, <2>3 DEF TypeOK, Leased, tableVars, requestVars
<1>7. ASSUME SyncTable
      PROVE  TypeOK' /\ Leased'
  <2>1. \A t \in Token :
          /\ SlotStatus(record[t]) \in {"active", "disabled", "expired"}
          /\ record[t].quota \in [Mode -> Nat] /\ record[t].reset \in [Mode -> Nat]
          /\ record[t].until \in Nat /\ record[t].fails \in Nat
    BY RowTypes DEF TypeOK, Record
  <2>2. /\ status' \in [Token -> {"active", "disabled", "expired"}]
        /\ quota' \in [Token -> [Mode -> Nat]]
        /\ reset' \in [Token -> [Mode -> Nat]]
        /\ cooling' \in [Token -> Nat]
        /\ fails' \in [Token -> Nat]
    BY <1>7, <2>1 DEF SyncTable, TypeOK
  <2> QED BY <1>7, <2>2 DEF SyncTable, SyncedInflight, SyncedIndex, TypeOK, Leased, requestVars
<1>8. ASSUME NEW t \in Token, Edit(t)
      PROVE  TypeOK' /\ Leased'
  <2>1. record' \in [Token -> Record]
    BY <1>8, RowTypes DEF Edit, TypeOK
  <2> QED BY <1>8, <2>1 DEF Edit, TypeOK, Leased, tableVars, requestVars
<1>9. ASSUME Tick \/ UNCHANGED vars
      PROVE  TypeOK' /\ Leased'
  BY <1>9 DEF Tick, TypeOK, Leased, tableVars, storeVars, requestVars, vars
<1> QED BY <1>1, <1>2, <1>3, <1>4, <1>5, <1>6, <1>7, <1>8, <1>9 DEF Next, RequestStep

LEMMA TypeInit == Init => TypeOK /\ Leased
  BY FirstModeInRange, NumberAssumption DEF Init, TypeOK, Leased, Record

(* Every column, row, task and request keeps its type.                       *)
THEOREM DirectoryTypeOK == Spec => []TypeOK
<1>1. TypeOK /\ Leased /\ [Next]_vars => (TypeOK /\ Leased)'
  BY TypeStep
<1> QED BY <1>1, TypeInit, PTL DEF Spec

(* No account runs more than Cap requests at once, where every selection     *)
(* checks the cap (selector.py, B3), whatever becomes of a lease.            *)
THEOREM NoAccountOverCap ==
  ASSUME AllCapped PROVE Spec => []InflightCapped
<1>1. Init => TypeOK /\ Leased /\ InflightCapped
  BY TypeInit, NumberAssumption DEF Init, InflightCapped
<1>2. TypeOK /\ Leased /\ InflightCapped /\ [Next]_vars
      => (TypeOK /\ Leased /\ InflightCapped)'
  BY TypeStep, CappedStep DEF TypeOK, LeaseType
<1> QED BY <1>1, <1>2, PTL DEF Spec

-----------------------------------------------------------------------------
(* Typed states satisfy the conjuncts the two invariants below add.          *)
TriedInv ==
  /\ TypeOK /\ Leased
  /\ NoAccountTriedTwice
  /\ \A r \in Request : IsFiniteSet(excluded[r])

LEMMA CandidatesAreNew ==
  ASSUME NEW r, NEW m
  PROVE  Candidates(r, m) \subseteq available \ excluded[r]
  BY DEF Candidates, RandomCandidates, QuotaCandidates, QuotaAnyCandidates

LEMMA TriedStep ==
  ASSUME TriedInv, [Next]_vars
  PROVE  TriedInv'
<1>1. TypeOK' /\ Leased'
  BY TypeStep DEF TriedInv
<1>2. \A r \in Request : NoToken \notin excluded[r]
  BY NoTokenAssumption DEF TriedInv, TypeOK
<1>3. ASSUME NEW r \in Request, NEW t \in Token, Reserve(r, t)
      PROVE  TriedInv'
  <2>1. t \notin excluded[r]
    BY <1>3, CandidatesAreNew DEF Reserve, CanReserve
  <2>2. excluded' = excluded /\ attempt' = attempt /\ lease' = [lease EXCEPT ![r] = t]
    BY <1>3 DEF Reserve
  <2> QED BY <1>1, <2>1, <2>2 DEF TriedInv, TypeOK, NoAccountTriedTwice
<1>4. ASSUME NEW r \in Request,
             PrepareFails(r) \/ PrepareCancelled(r) \/ (\E k \in Kind : Finish(r, k))
      PROVE  TriedInv'
  <2>1. /\ excluded' = excluded /\ attempt' = attempt
        /\ lease' = [lease EXCEPT ![r] = NoToken]
    BY <1>4 DEF PrepareFails, PrepareCancelled, Finish, Report
  <2> QED BY <1>1, <1>2, <2>1 DEF TriedInv, TypeOK, NoAccountTriedTwice
<1>5. ASSUME NEW r \in Request, NEW k \in Kind, Retry(r, k)
      PROVE  TriedInv'
  <2>1. /\ excluded' = [excluded EXCEPT ![r] = @ \cup {lease[r]}]
        /\ attempt' = [attempt EXCEPT ![r] = @ + 1]
        /\ lease' = [lease EXCEPT ![r] = NoToken]
        /\ lease[r] \in Token
    BY <1>5 DEF Retry, Report, TriedInv, Leased
  <2>2. /\ lease[r] \notin excluded[r] /\ IsFiniteSet(excluded[r])
        /\ Cardinality(excluded[r]) = attempt[r]
    BY DEF TriedInv, NoAccountTriedTwice
  <2>3. /\ IsFiniteSet(excluded[r] \cup {lease[r]})
        /\ Cardinality(excluded[r] \cup {lease[r]}) = attempt[r] + 1
    BY <2>2, FS_AddElement
  <2>4. \A q \in Request : q # r => /\ excluded'[q] = excluded[q]
                                    /\ attempt'[q] = attempt[q] /\ lease'[q] = lease[q]
    BY <2>1 DEF TriedInv, TypeOK
  <2>5. /\ excluded'[r] = excluded[r] \cup {lease[r]}
        /\ attempt'[r] = attempt[r] + 1 /\ lease'[r] = NoToken
    BY <2>1 DEF TriedInv, TypeOK
  <2>6. lease'[r] \notin excluded'[r]
    BY <1>2, <2>1, <2>5, NoTokenAssumption
  <2>7. /\ NoAccountTriedTwice'
        /\ \A q \in Request : IsFiniteSet(excluded'[q])
    BY <2>3, <2>4, <2>5, <2>6 DEF TriedInv, NoAccountTriedTwice
  <2> QED BY <1>1, <2>7 DEF TriedInv
<1>6. ASSUME NEW r \in Request, Arrive(r)
      PROVE  TriedInv'
  <2>1. /\ excluded' = [excluded EXCEPT ![r] = {}]
        /\ attempt' = [attempt EXCEPT ![r] = 0]
        /\ lease' = lease
    BY <1>6 DEF Arrive
  <2>2. IsFiniteSet({}) /\ Cardinality({}) = 0
    BY FS_EmptySet
  <2> QED BY <1>1, <2>1, <2>2 DEF TriedInv, TypeOK, NoAccountTriedTwice
<1>7. ASSUME \/ \E r \in Request : ReserveFails(r) \/ Prepared(r)
             \/ \E x \in pending : Persist(x) \/ PersistFails(x)
             \/ SyncTable \/ (\E t \in Token : Edit(t)) \/ Tick
             \/ UNCHANGED vars
      PROVE  TriedInv'
  <2>1. excluded' = excluded /\ attempt' = attempt /\ lease' = lease
    BY <1>7 DEF ReserveFails, Prepared, Persist, PersistFails, SyncTable, Edit, Tick,
                requestVars, vars
  <2> QED BY <1>1, <2>1 DEF TriedInv, NoAccountTriedTwice
<1> QED BY <1>3, <1>4, <1>5, <1>6, <1>7 DEF Next, RequestStep

(* A retry always gets an account the request has not tried, under both      *)
(* strategies and whatever feedback and syncs do in between.                 *)
THEOREM NeverTriedTwice == Spec => []NoAccountTriedTwice
<1>1. Init => TriedInv
  BY TypeInit, FS_EmptySet, NoTokenAssumption DEF Init, TriedInv, NoAccountTriedTwice
<1>2. TriedInv /\ [Next]_vars => TriedInv'
  BY TriedStep
<1>3. TriedInv => NoAccountTriedTwice
  BY DEF TriedInv
<1> QED BY <1>1, <1>2, <1>3, PTL DEF Spec

-----------------------------------------------------------------------------
IndexInv == TypeOK /\ Leased /\ IndexMatchesStatus

LEMMA IndexStep ==
  ASSUME IndexInv, [Next]_vars
  PROVE  IndexInv'
<1>1. TypeOK' /\ Leased'
  BY TypeStep DEF IndexInv
<1>2. ASSUME NEW r \in Request, NEW k \in Kind, Finish(r, k) \/ Retry(r, k)
      PROVE  IndexMatchesStatus'
  <2>1. Report(r, k) /\ lease[r] \in Token
    BY <1>2 DEF Finish, Retry, Report, IndexInv, Leased
  <2>2. CASE Reports(r, k)
    <3>1. /\ status' = [status EXCEPT ![lease[r]] = FeedbackStatus(k, @)]
          /\ available' = IF k = "unauthorized" THEN available \ {lease[r]} ELSE available
      BY <2>1, <2>2 DEF Report
    <3> QED BY <2>1, <3>1 DEF FeedbackStatus, IndexInv, TypeOK, IndexMatchesStatus
  <2>3. CASE ~Reports(r, k)
    BY <2>1, <2>3 DEF Report, IndexInv, IndexMatchesStatus
  <2> QED BY <2>2, <2>3
<1>3. ASSUME SyncTable
      PROVE  IndexMatchesStatus'
  <2>1. /\ status' = [t \in Token |-> IF t \in dirty THEN SlotStatus(record[t])
                                      ELSE status[t]]
        /\ available' = (available \ dirty)
                          \cup {t \in dirty : SlotStatus(record[t]) = "active"}
    BY <1>3 DEF SyncTable, SyncedIndex
  <2> QED BY <2>1 DEF IndexInv, TypeOK, IndexMatchesStatus
<1>4. ASSUME \/ \E r \in Request : \/ \E t \in Token : Reserve(r, t)
                                   \/ ReserveFails(r) \/ Prepared(r) \/ PrepareFails(r)
                                   \/ PrepareCancelled(r) \/ Arrive(r)
             \/ \E x \in pending : Persist(x) \/ PersistFails(x)
             \/ (\E t \in Token : Edit(t)) \/ Tick
             \/ UNCHANGED vars
      PROVE  IndexMatchesStatus'
  <2>1. status' = status /\ available' = available
    BY <1>4 DEF Reserve, ReserveFails, Prepared, PrepareFails, PrepareCancelled, Arrive,
                Persist, PersistFails, Edit, Tick, tableVars, vars
  <2> QED BY <2>1 DEF IndexInv, IndexMatchesStatus
<1>5. IndexMatchesStatus'
  BY <1>2, <1>3, <1>4 DEF Next, RequestStep
<1> QED BY <1>1, <1>5 DEF IndexInv

(* The availability index lists exactly the accounts whose slot is ACTIVE.   *)
THEOREM IndexListsActiveAccounts == Spec => []IndexMatchesStatus
<1>1. Init => IndexInv
  BY TypeInit DEF Init, IndexInv, IndexMatchesStatus
<1>2. IndexInv /\ [Next]_vars => IndexInv'
  BY IndexStep
<1>3. IndexInv => IndexMatchesStatus
  BY DEF IndexInv
<1> QED BY <1>1, <1>2, <1>3, PTL DEF Spec

-----------------------------------------------------------------------------
(* A success changes nothing of Shown, whether or not its task is still to run. *)
FailurePending(t) == \E x \in pending : x.token = t /\ x.kind # "success"

(* Where the table and the row of an account may differ, and how.            *)
ShownUnlessDue ==
  \A t \in Token : Shown(t) \/ t \in dirty \/ FailurePending(t) \/ t \in unstored

StricterUnlessDue == \A t \in Token : Stricter(t) \/ t \in dirty

ConvergedInv == TypeOK /\ Leased /\ ShownUnlessDue /\ StricterUnlessDue

LEMMA ReportShown ==
  ASSUME ConvergedInv, NEW r \in Request, NEW k \in Kind, Report(r, k)
  PROVE  ShownUnlessDue' /\ StricterUnlessDue'
<1>0. PICK u \in Token : u = lease[r]
  BY DEF Report, ConvergedInv, Leased
<1>1. /\ u \in Token /\ record' = record /\ dirty' = dirty
      /\ pending' = pending \cup Spawned(r, k) /\ unstored \subseteq unstored'
  BY DEF Report, ConvergedInv, Leased
<1>2. /\ fails \in [Token -> Nat] /\ status \in [Token -> {"active", "disabled", "expired"}]
      /\ cooling \in [Token -> Nat] /\ now \in Nat
      /\ \A t \in Token : record[t].until \in Nat /\ record[t].fails \in Nat
  BY DEF ConvergedInv, TypeOK, Record
<1>3. ASSUME NEW t \in Token, UNCHANGED <<status[t], cooling[t], fails[t]>>
      PROVE  /\ Shown(t)' \/ t \in dirty' \/ FailurePending(t)' \/ t \in unstored'
             /\ Stricter(t)' \/ t \in dirty'
  <2>1. (Shown(t) => Shown(t)') /\ (Stricter(t) => Stricter(t)')
    BY <1>1, <1>3 DEF Shown, Stricter, SlotStatus
  <2>2. FailurePending(t) => FailurePending(t)'
    BY <1>1 DEF FailurePending
  <2> QED BY <1>1, <2>1, <2>2 DEF ConvergedInv, ShownUnlessDue, StricterUnlessDue
<1>4. CASE ~Reports(r, k)
  BY <1>3, <1>4 DEF Report, ShownUnlessDue, StricterUnlessDue
<1>5. CASE Reports(r, k)
  <2>1. /\ status' = [status EXCEPT ![u] = FeedbackStatus(k, @)]
        /\ cooling' = [cooling EXCEPT ![u] = FeedbackCooling(k, @)]
        /\ fails' = [fails EXCEPT ![u] = IF k \in Failure THEN @ + 1 ELSE @]
    BY <1>0, <1>5 DEF Report
  <2>2. \A t \in Token : t # u => UNCHANGED <<status[t], cooling[t], fails[t]>>
    BY <1>2, <2>1
  <2>3. /\ status'[u] = FeedbackStatus(k, status[u])
        /\ cooling'[u] = FeedbackCooling(k, cooling[u])
        /\ fails'[u] = IF k \in Failure THEN fails[u] + 1 ELSE fails[u]
    BY <1>1, <1>2, <2>1
  <2>4. Stricter(u)' \/ u \in dirty'
    <3>1. Stricter(u) => Stricter(u)'
      <4>1. status'[u] \in {status[u], "expired"}
        BY <2>3 DEF FeedbackStatus
      <4>2. cooling'[u] >= cooling[u]
        BY <1>1, <1>2, <2>3, NumberAssumption DEF FeedbackCooling, MaxOf
      <4>3. fails'[u] >= fails[u] /\ fails'[u] \in Nat /\ cooling'[u] \in Nat
        BY <1>1, <1>2, <2>3, NumberAssumption DEF FeedbackCooling, MaxOf
      <4>4. SlotStatus(record[u])' = SlotStatus(record[u])
        BY <1>1 DEF SlotStatus
      <4> QED BY <1>1, <1>2, <4>1, <4>2, <4>3, <4>4 DEF Stricter
    <3> QED BY <1>1, <3>1 DEF ConvergedInv, StricterUnlessDue
  <2>5. Shown(u)' \/ u \in dirty' \/ FailurePending(u)' \/ u \in unstored'
    <3>1. CASE k \in Failure /\ r \notin AnyRequest
      <4> DEFINE x == [request |-> r, attempt |-> attempt[r], token |-> u,
                       mode |-> leaseMode[r], kind |-> k]
      <4>1. x \in pending' /\ x.token = u /\ x.kind # "success"
        BY <1>0, <1>1, <3>1 DEF Spawned, Failure
      <4> QED BY <4>1 DEF FailurePending
    <3>2. CASE r \in AnyRequest
      BY <1>0, <1>5, <3>2 DEF Report
    <3>3. CASE k \notin Failure
      <4>1. UNCHANGED <<status[u], cooling[u], fails[u]>>
        BY <2>3, <3>3 DEF FeedbackStatus, FeedbackCooling, Failure
      <4> QED BY <1>1, <1>3, <4>1
    <3> QED BY <3>1, <3>2, <3>3
  <2> QED BY <1>3, <2>2, <2>4, <2>5 DEF ShownUnlessDue, StricterUnlessDue
<1> QED BY <1>4, <1>5

(* A task that ends, stored or not, and an edit change rows and what is due. *)
LEMMA TaskShown ==
  ASSUME ConvergedInv, NEW x \in pending, Persist(x) \/ PersistFails(x)
  PROVE  ShownUnlessDue' /\ StricterUnlessDue'
<1>1. /\ UNCHANGED <<status, cooling, fails>> /\ pending' = pending \ {x} /\ x.token \in Token
      /\ unstored \subseteq unstored'
  BY DEF Persist, PersistFails, tableVars, ConvergedInv, TypeOK, Task
<1>2. CASE Persist(x)
  <2>1. dirty' = dirty \cup {x.token} /\ \A t \in Token : t # x.token => record'[t] = record[t]
    BY <1>2 DEF Persist, ConvergedInv, TypeOK
  <2>2. ASSUME NEW t \in Token, t # x.token
        PROVE  /\ Shown(t)' \/ t \in dirty' \/ FailurePending(t)' \/ t \in unstored'
               /\ Stricter(t)' \/ t \in dirty'
    <3>1. (Shown(t) => Shown(t)') /\ (Stricter(t) => Stricter(t)')
      BY <1>1, <2>1, <2>2 DEF Shown, Stricter, SlotStatus
    <3>2. FailurePending(t) => FailurePending(t)'
      BY <1>1, <2>2 DEF FailurePending
    <3> QED BY <1>1, <2>1, <3>1, <3>2 DEF ConvergedInv, ShownUnlessDue, StricterUnlessDue
  <2> QED BY <2>1, <2>2 DEF ShownUnlessDue, StricterUnlessDue
<1>3. CASE PersistFails(x)
  <2>1. record' = record /\ dirty' = dirty
        /\ (x.kind = "success" \/ x.token \in unstored')
    BY <1>3 DEF PersistFails
  <2>2. \A t \in Token : FailurePending(t) => FailurePending(t)' \/ t \in unstored'
    BY <1>1, <2>1 DEF FailurePending
  <2>3. \A t \in Token : (Shown(t) => Shown(t)') /\ (Stricter(t) => Stricter(t)')
    BY <1>1, <2>1 DEF Shown, Stricter, SlotStatus
  <2> QED BY <1>1, <2>1, <2>2, <2>3 DEF ConvergedInv, ShownUnlessDue, StricterUnlessDue
<1> QED BY <1>2, <1>3

LEMMA ConvergedStep ==
  ASSUME ConvergedInv, [Next]_vars
  PROVE  ConvergedInv'
<1>1. TypeOK' /\ Leased'
  BY TypeStep DEF ConvergedInv
<1>2. ASSUME NEW r \in Request, NEW k \in Kind, Finish(r, k) \/ Retry(r, k)
      PROVE  ShownUnlessDue' /\ StricterUnlessDue'
  BY <1>2, ReportShown DEF Finish, Retry
<1>3. ASSUME SyncTable
      PROVE  ShownUnlessDue' /\ StricterUnlessDue'
  <2>1. /\ status'  = [t \in Token |-> IF t \in dirty THEN SlotStatus(record[t]) ELSE status[t]]
        /\ cooling' = [t \in Token |-> IF t \in dirty THEN record[t].until ELSE cooling[t]]
        /\ fails'   = [t \in Token |-> IF t \in dirty THEN record[t].fails ELSE fails[t]]
        /\ record' = record /\ pending' = pending /\ unstored' = unstored \ dirty
    BY <1>3 DEF SyncTable
  <2>2. \A t \in Token : record[t].until \in Nat /\ record[t].fails \in Nat
    BY DEF ConvergedInv, TypeOK, Record
  <2>3. ASSUME NEW t \in Token
        PROVE  (Shown(t)' \/ FailurePending(t)' \/ t \in unstored') /\ Stricter(t)'
    <3>1. CASE t \in dirty
      <4>1. /\ status'[t] = SlotStatus(record[t])' /\ cooling'[t] = record'[t].until
            /\ fails'[t] = record'[t].fails
        BY <2>1, <3>1 DEF SlotStatus
      <4> QED BY <2>1, <2>2, <4>1 DEF Shown, Stricter
    <3>2. CASE t \notin dirty
      <4>1. UNCHANGED <<status[t], cooling[t], fails[t], record, pending>>
        BY <2>1, <3>2
      <4>2. /\ (Shown(t) => Shown(t)') /\ (Stricter(t) => Stricter(t)')
            /\ (FailurePending(t) => FailurePending(t)')
        BY <4>1 DEF Shown, Stricter, SlotStatus, FailurePending
      <4> QED BY <2>1, <3>2, <4>2 DEF ConvergedInv, ShownUnlessDue, StricterUnlessDue
    <3> QED BY <3>1, <3>2
  <2> QED BY <2>3 DEF ShownUnlessDue, StricterUnlessDue
<1>4. ASSUME NEW x \in pending, Persist(x) \/ PersistFails(x)
      PROVE  ShownUnlessDue' /\ StricterUnlessDue'
  BY <1>4, TaskShown
<1>5. ASSUME NEW u \in Token, Edit(u)
      PROVE  ShownUnlessDue' /\ StricterUnlessDue'
  <2>1. /\ UNCHANGED <<status, cooling, fails, pending, unstored>>
        /\ dirty' = dirty \cup {u}
        /\ \A t \in Token : t # u => record'[t] = record[t]
    BY <1>5 DEF Edit, tableVars, ConvergedInv, TypeOK
  <2>2. ASSUME NEW t \in Token, t # u
        PROVE  /\ Shown(t)' \/ t \in dirty' \/ FailurePending(t)' \/ t \in unstored'
               /\ Stricter(t)' \/ t \in dirty'
    <3>1. /\ (Shown(t) => Shown(t)') /\ (Stricter(t) => Stricter(t)')
          /\ (FailurePending(t) => FailurePending(t)')
      BY <2>1, <2>2 DEF Shown, Stricter, SlotStatus, FailurePending
    <3> QED BY <2>1, <3>1 DEF ConvergedInv, ShownUnlessDue, StricterUnlessDue
  <2> QED BY <2>1, <2>2 DEF ShownUnlessDue, StricterUnlessDue
<1>6. ASSUME \/ \E r \in Request : \/ \E t \in Token : Reserve(r, t)
                                   \/ ReserveFails(r) \/ Prepared(r) \/ PrepareFails(r)
                                   \/ PrepareCancelled(r) \/ Arrive(r)
             \/ Tick
             \/ UNCHANGED vars
      PROVE  ShownUnlessDue' /\ StricterUnlessDue'
  <2>1. UNCHANGED <<status, cooling, fails, record, dirty, pending, unstored>>
    BY <1>6 DEF Reserve, ReserveFails, Prepared, PrepareFails, PrepareCancelled, Arrive,
                Tick, tableVars, storeVars, vars
  <2>2. \A t \in Token : /\ (Shown(t) => Shown(t)') /\ (Stricter(t) => Stricter(t)')
                         /\ (FailurePending(t) => FailurePending(t)')
    BY <2>1 DEF Shown, Stricter, SlotStatus, FailurePending
  <2> QED BY <2>1, <2>2 DEF ConvergedInv, ShownUnlessDue, StricterUnlessDue
<1>7. ShownUnlessDue' /\ StricterUnlessDue'
  BY <1>2, <1>3, <1>4, <1>5, <1>6 DEF Next, RequestStep
<1> QED BY <1>1, <1>7 DEF ConvergedInv

(* Once every task has run and the sync has caught up, the table shows what  *)
(* the repository says of an account, in whatever order feedback             *)
(* (feedback.py), its persistence in fire-and-forget tasks and the           *)
(* operator's edits run; where a failure was never stored, it is stricter.   *)
THEOREM FeedbackConverges == Spec => []Converged
<1>1. Init => ConvergedInv
  BY TypeInit DEF Init, ConvergedInv, ShownUnlessDue, StricterUnlessDue, Shown, SlotStatus,
                  Stricter
<1>2. ConvergedInv /\ [Next]_vars => ConvergedInv'
  BY ConvergedStep
<1>3. ConvergedInv => Converged
  BY DEF ConvergedInv, ShownUnlessDue, StricterUnlessDue, FailurePending, Converged
<1> QED BY <1>1, <1>2, <1>3, PTL DEF Spec
=============================================================================

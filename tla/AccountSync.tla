---------------------------- MODULE AccountSync ----------------------------
(***************************************************************************)
(* One worker's runtime account table kept up to date from the repository  *)
(* (dataplane/account/sync.py).  bootstrap loads a snapshot; after that a   *)
(* loop in main.py asks scan_changes for rows above the table's revision,  *)
(* at most BatchLimit at a time, and applies each page.  The revision and  *)
(* the rows are two SELECTs, and the page is applied after an await, so    *)
(* writes by any process fall between the three steps.                     *)
(*                                                                         *)
(* A slot is identified with its token: idx_by_token is injective and      *)
(* slots are only appended.  The modes of a pool enter and leave           *)
(* mode_available together here; AccountDirectory tells them apart.        *)
(***************************************************************************)
EXTENDS AccountRepository

CONSTANTS
  BatchLimit,   \* scan_changes page size
  NoSlot,       \* the token has no slot
  MaxRestart    \* bound of the model: restarts of the worker

ASSUME SyncAssumption == BatchLimit \in Nat \ {0} /\ MaxRestart \in Nat

VARIABLES
  slot,           \* token -> slot or NoSlot
  modeAvailable,  \* pool -> tokens a selector may pick
  size,           \* table.size
  tableRevision,  \* table.revision
  pc,             \* where the worker stands in bootstrap / sync_if_changed
  scanRevision,   \* global revision read ahead of the rows
  page,           \* the change set in hand
  restarts

tableVars == <<slot, modeAvailable, size, tableRevision>>
scanVars  == <<pc, scanRevision, page>>
vars      == <<rows, revision, slot, modeAvailable, size, tableRevision,
               pc, scanRevision, page, restarts>>

SlotStatus == Status \cup {"deleted"}
Slot == [pool : Pool, status : SlotStatus]

ASSUME NoSlotAssumption == NoSlot \notin Slot

Page == [rows : [Token -> Row \cup {NoRow}], hasMore : BOOLEAN, max : Nat]

(* A COOLING row with a deadline stays in the active index; the selector     *)
(* filters it by its deadline.                                               *)
RecordToSlot(row) ==
  [pool   |-> row.pool,
   status |-> IF row.status = "cooling" /\ row.timed THEN "active"
                                                     ELSE row.status]

NoPage    == [rows |-> [t \in Token |-> NoRow], hasMore |-> FALSE, max |-> 0]
InPage    == {t \in Token : page.rows[t] # NoRow}
Running   == pc \notin {"down", "boot"}

-----------------------------------------------------------------------------
TypeOK ==
  /\ DbTypeOK
  /\ slot \in [Token -> Slot \cup {NoSlot}]
  /\ modeAvailable \in [Pool -> SUBSET Token]
  /\ size \in Nat
  /\ tableRevision \in Nat
  /\ pc \in {"down", "boot", "idle", "scan", "rows", "page"}
  /\ scanRevision \in Nat
  /\ page \in Page
  /\ restarts \in Nat

EmptyTable ==
  /\ slot = [t \in Token |-> NoSlot]
  /\ modeAvailable = [p \in Pool |-> {}]
  /\ size = 0
  /\ tableRevision = 0

Init ==
  /\ DbInit
  /\ EmptyTable
  /\ pc = "down"
  /\ scanRevision = 0
  /\ page = NoPage
  /\ restarts = 0

(* runtime_snapshot: first the revision ... *)
BootstrapRevision ==
  /\ pc = "down"
  /\ pc' = "boot"
  /\ scanRevision' = revision
  /\ UNCHANGED <<dbVars, tableVars, page, restarts>>

(* ... then every live row, from which the table is built. *)
BootstrapRows ==
  /\ pc = "boot"
  /\ pc' = "idle"
  /\ slot' = [t \in Token |-> IF t \in Live THEN RecordToSlot(rows[t]) ELSE NoSlot]
  /\ modeAvailable' = [p \in Pool |->
       {t \in Live : RecordToSlot(rows[t]) = [pool |-> p, status |-> "active"]}]
  /\ size' = Cardinality(Live)
  /\ tableRevision' = scanRevision
  /\ UNCHANGED <<dbVars, scanRevision, page, restarts>>

ReadRevision ==
  /\ pc \in {"idle", "scan"}
  /\ pc' = "rows"
  /\ scanRevision' = revision
  /\ UNCHANGED <<dbVars, tableVars, page, restarts>>

Changed == {t \in Stored : rows[t].rev > tableRevision}

(* WHERE revision > since ORDER BY revision LIMIT n: rows of one revision     *)
(* come in no particular order.                                              *)
IsBatch(B) ==
  /\ B \subseteq Changed
  /\ B = Changed \/ Cardinality(B) = BatchLimit
  /\ Cardinality(B) <= BatchLimit
  /\ \A t \in B, u \in Changed \ B : rows[t].rev <= rows[u].rev

IsMaxRevision(B, m) ==
  \/ B = {} /\ m = 0
  \/ /\ \E t \in B : rows[t].rev = m
     /\ \A t \in B : rows[t].rev <= m

ReadRows ==
  /\ pc = "rows"
  /\ pc' = "page"
  /\ \E B \in SUBSET Changed, m \in 0..revision :
       /\ IsBatch(B)
       /\ IsMaxRevision(B, m)
       /\ page' = [rows    |-> [t \in Token |-> IF t \in B THEN rows[t] ELSE NoRow],
                   hasMore |-> Cardinality(B) = BatchLimit,
                   max     |-> m]
  /\ UNCHANGED <<dbVars, tableVars, scanRevision, restarts>>

(* Mutants. *)
AppliedSlotKeepsTombstones(t) ==
  IF page.rows[t] = NoRow \/ page.rows[t].deleted THEN slot[t]
                                                  ELSE RecordToSlot(page.rows[t])
AppliedIndexByNewPool(p) ==
  (modeAvailable[p] \ {t \in InPage : page.rows[t].pool = p})
    \cup {t \in InPage : /\ ~page.rows[t].deleted
                         /\ RecordToSlot(page.rows[t]) = [pool |-> p, status |-> "active"]}
NextRevisionReread == revision

(* What one page does to the table; slots that turn live keep size as it is  *)
(* when they existed, tombstones count down every time they are seen.        *)
AppliedSlot(t) ==
  LET row == page.rows[t] IN
  IF row = NoRow THEN slot[t]
  ELSE IF row.deleted
    THEN IF slot[t] = NoSlot THEN NoSlot ELSE [slot[t] EXCEPT !.status = "deleted"]
    ELSE RecordToSlot(row)

AppliedIndex(p) ==
  (modeAvailable[p] \ {t \in InPage : slot[t] # NoSlot /\ slot[t].pool = p})
    \cup {t \in InPage : /\ ~page.rows[t].deleted
                         /\ RecordToSlot(page.rows[t]) = [pool |-> p, status |-> "active"]}

AppliedSize ==
  LET removed == Cardinality({t \in InPage : page.rows[t].deleted /\ slot[t] # NoSlot})
      added   == Cardinality({t \in InPage : ~page.rows[t].deleted /\ slot[t] = NoSlot})
  IN (IF removed > size THEN 0 ELSE size - removed) + added

(* A full page moves the table to the page's largest revision only; the last *)
(* page moves it to the global revision read before the rows.                *)
NextRevision == IF page.hasMore THEN page.max ELSE scanRevision

ApplyPage ==
  /\ pc = "page"
  /\ slot' = [t \in Token |-> AppliedSlot(t)]
  /\ modeAvailable' = [p \in Pool |-> AppliedIndex(p)]
  /\ size' = AppliedSize
  /\ tableRevision' = IF NextRevision > tableRevision THEN NextRevision
                                                      ELSE tableRevision
  /\ pc' = IF page.hasMore THEN "scan" ELSE "idle"
  /\ page' = NoPage
  /\ UNCHANGED <<dbVars, scanRevision, restarts>>

(* A failing read ends this sync; the loop logs it and tries again later.    *)
ScanFails ==
  /\ pc = "rows"
  /\ pc' = "idle"
  /\ UNCHANGED <<dbVars, tableVars, scanRevision, page, restarts>>

Restart ==
  /\ pc # "down"
  /\ restarts < MaxRestart
  /\ restarts' = restarts + 1
  /\ pc' = "down"
  /\ slot' = [t \in Token |-> NoSlot]
  /\ modeAvailable' = [p \in Pool |-> {}]
  /\ size' = 0
  /\ tableRevision' = 0
  /\ page' = NoPage
  /\ UNCHANGED <<dbVars, scanRevision>>

(* Retention is days, the sync interval seconds: a tombstone is purged only  *)
(* after a running worker has gone past it.                                  *)
RetentionElapsed(S) ==
  Running => \A t \in S : rows[t].rev <= tableRevision

Purge ==
  /\ \E S \in SUBSET (Stored \ Live) :
       S # {} /\ RetentionElapsed(S) /\ PurgeDeletedAccounts(S)
  /\ UNCHANGED <<tableVars, scanVars, restarts>>

DbWrite == Write /\ UNCHANGED <<tableVars, scanVars, restarts>>

Sync == BootstrapRevision \/ BootstrapRows \/ ReadRevision \/ ReadRows \/ ApplyPage

Next == DbWrite \/ Purge \/ Sync \/ ScanFails \/ Restart

Spec == Init /\ [][Next]_vars

(* The sync loop runs for ever and the store does not fail for ever. *)
Fairness ==
  /\ WF_vars(BootstrapRevision) /\ WF_vars(BootstrapRows)
  /\ WF_vars(ReadRevision) /\ SF_vars(ReadRows) /\ WF_vars(ApplyPage)

FairSpec == Spec /\ Fairness

-----------------------------------------------------------------------------
Gone == [pool |-> "none", status |-> "gone"]

(* What the repository and the table say of a token. *)
Truth(t) == IF t \in Live THEN RecordToSlot(rows[t]) ELSE Gone
View(t)  == IF slot[t] = NoSlot \/ slot[t].status = "deleted" THEN Gone ELSE slot[t]

Unseen == {t \in Stored : rows[t].rev > tableRevision}

(* Safety: no change is skipped.  A token whose row is at or below the       *)
(* table's revision, or has no row any more, is in the table as it is in the *)
(* repository (sync.py promises that advancing the revision never passes a   *)
(* row that was not returned).                                               *)
NoRowSkipped ==
  Running => \A t \in Token \ Unseen : View(t) = Truth(t)

(* Safety: an account can be picked from a pool exactly when its slot is     *)
(* ACTIVE there, so no tombstone, pool move or status change leaves a stale  *)
(* entry behind (table.py, mode_available).                                  *)
IndexMatchesSlots ==
  \A p \in Pool : modeAvailable[p] =
    {t \in Token : slot[t] = [pool |-> p, status |-> "active"]}

(* Action property: between restarts the table's revision never moves back   *)
(* and never passes the repository's.                                        *)
RevisionMonotone ==
  [][ /\ (pc' # "down" => tableRevision' >= tableRevision)
      /\ tableRevision' <= revision' ]_vars

(* Liveness: once writes stop, every worker ends up with the repository's    *)
(* contents (main.py: "keeps each worker's in-memory table eventually        *)
(* consistent with the repo").                                               *)
EventuallyConsistent == <>[](\A t \in Token : View(t) = Truth(t))

(* The abstract replica this implements: see Replica. *)
Abs == INSTANCE Replica WITH
  Key   <- Token,
  Value <- Slot \cup {Gone},
  Empty <- Gone,
  truth <- [t \in Token |-> Truth(t)],
  view  <- [t \in Token |-> View(t)],
  dirty <- IF Running THEN Unseen ELSE Token

ReplicaSpec == Abs!Spec
-----------------------------------------------------------------------------
(* Claims of the code's comments that do not hold; the README says in which  *)
(* instances.                                                                *)

(* table.py: size is the "number of live (non-deleted) slots". *)
SizeCountsLiveSlots ==
  size = Cardinality({t \in Token : View(t) # Gone})
=============================================================================

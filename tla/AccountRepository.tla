------------------------- MODULE AccountRepository -------------------------
(***************************************************************************)
(* The persisted account store (SQLite backend, control/account/backends/  *)
(* local.py).  Every write method bumps one global revision, stamps it on  *)
(* each row it touches and commits while holding the backend's lock, so a  *)
(* write is one atomic step.  A deleted account stays as a tombstone row   *)
(* until the daily cleanup removes it physically.                          *)
(*                                                                         *)
(* A row is reduced to what its readers tell apart: pool, status, whether  *)
(* ext carries a cooldown deadline, the tombstone flag and the revision.   *)
(***************************************************************************)
EXTENDS Naturals, FiniteSets

CONSTANTS
  Token,        \* account tokens: the primary keys
  Pool,         \* account pools
  NoRow,        \* the token has no row
  MaxRevision,  \* bound of the model: writes stop at this revision
  MaxBulk       \* bound of the environment: rows one write may touch

ASSUME TokenAssumption == IsFiniteSet(Token)
ASSUME NatAssumption == MaxRevision \in Nat /\ MaxBulk \in Nat \ {0}

VARIABLES
  rows,         \* token -> row or NoRow
  revision      \* the global revision counter

dbVars == <<rows, revision>>

Status == {"active", "cooling", "disabled", "expired"}

Row == [pool : Pool, status : Status, timed : BOOLEAN, deleted : BOOLEAN,
        rev : Nat]

ASSUME NoRowAssumption == NoRow \notin Row

(* What one AccountPatch does to a row, by the patches the code issues. *)
PatchKind == {"touch", "cool", "expire", "disable", "clear"}

Stored == {t \in Token : rows[t] # NoRow}
Live   == {t \in Stored : ~rows[t].deleted}

SmallWrites == {S \in SUBSET Token : S # {} /\ Cardinality(S) <= MaxBulk}

-----------------------------------------------------------------------------
DbTypeOK ==
  /\ rows \in [Token -> Row \cup {NoRow}]
  /\ revision \in Nat

DbInit ==
  /\ rows = [t \in Token |-> NoRow]
  /\ revision = 0

(* INSERT ... ON CONFLICT: an existing row, tombstones included, turns live  *)
(* and active in the given pool; its ext is merged, so a deadline survives.  *)
UpsertedRow(row, p, rev) ==
  IF row = NoRow
    THEN [pool |-> p, status |-> "active", timed |-> FALSE, deleted |-> FALSE,
          rev |-> rev]
    ELSE [pool |-> p, status |-> "active", timed |-> row.timed,
          deleted |-> FALSE, rev |-> rev]

(* A patch never looks at deleted_at: it stamps a tombstone as well. *)
PatchedStatus(status, kind) ==
  IF kind = "cool" THEN "cooling"
  ELSE IF kind = "expire" THEN "expired"
  ELSE IF kind = "disable" THEN "disabled"
  ELSE IF kind = "clear" THEN "active"
  ELSE status

PatchedRow(row, kind, rev) ==
  [pool    |-> row.pool,
   status  |-> PatchedStatus(row.status, kind),
   timed   |-> kind = "cool" \/ (row.timed /\ kind # "clear"),
   deleted |-> row.deleted,
   rev     |-> rev]

DeletedRow(row, rev) ==
  [pool |-> row.pool, status |-> row.status, timed |-> row.timed,
   deleted |-> TRUE, rev |-> rev]

UpsertAccounts(S, p) ==
  /\ revision < MaxRevision
  /\ revision' = revision + 1
  /\ rows' = [t \in Token |-> IF t \in S THEN UpsertedRow(rows[t], p, revision')
                                         ELSE rows[t]]

PatchAccounts(S, kind) ==
  /\ revision < MaxRevision
  /\ revision' = revision + 1
  /\ rows' = [t \in Token |-> IF t \in S \cap Stored
                                THEN PatchedRow(rows[t], kind, revision')
                                ELSE rows[t]]

DeleteAccounts(S) ==
  /\ revision < MaxRevision
  /\ revision' = revision + 1
  /\ rows' = [t \in Token |-> IF t \in S \cap Live
                                THEN DeletedRow(rows[t], revision')
                                ELSE rows[t]]

(* The live source row is copied under the new key and tombstoned, both at   *)
(* one revision.  A new key that has any row is refused.                     *)
RotateAccountToken(old, new) ==
  /\ revision < MaxRevision
  /\ MaxBulk >= 2
  /\ old \in Live
  /\ new \notin Stored
  /\ revision' = revision + 1
  /\ rows' = [rows EXCEPT ![new] = [rows[old] EXCEPT !.rev = revision'],
                          ![old] = DeletedRow(rows[old], revision')]

(* One transaction, two revisions: the pool is tombstoned at the first, the  *)
(* replacements are upserted at the second.                                  *)
ReplacePool(p, S) ==
  LET gone == {t \in Live : rows[t].pool = p}
      mid  == [t \in Token |-> IF t \in gone
                                 THEN DeletedRow(rows[t], revision + 1)
                                 ELSE rows[t]]
  IN /\ revision + 2 <= MaxRevision
     /\ Cardinality(gone) <= MaxBulk
     /\ revision' = revision + 2
     /\ rows' = [t \in Token |-> IF t \in S THEN UpsertedRow(mid[t], p, revision')
                                            ELSE mid[t]]

(* Physical removal; the revision does not move. *)
PurgeDeletedAccounts(S) ==
  /\ S \subseteq Stored \ Live
  /\ rows' = [t \in Token |-> IF t \in S THEN NoRow ELSE rows[t]]
  /\ UNCHANGED revision

Write ==
  \/ \E S \in SmallWrites, p \in Pool : UpsertAccounts(S, p)
  \/ \E S \in SmallWrites, k \in PatchKind : PatchAccounts(S, k)
  \/ \E S \in SmallWrites : DeleteAccounts(S)
  \/ \E old, new \in Token : RotateAccountToken(old, new)
  \/ \E p \in Pool, S \in SmallWrites : ReplacePool(p, S)

=============================================================================

------------------------------ MODULE SqlSync ------------------------------
(***************************************************************************)
(* The MySQL and PostgreSQL backend (control/account/backends/sql.py) under *)
(* the same sync.  Every writing transaction of any process bumps the one   *)
(* revision row, which keeps that row locked until it ends; the new rows    *)
(* and the new revision show at its commit.  Before it, a process has       *)
(* created the tables and seeded the revision row.                          *)
(*                                                                         *)
(* A reader of PostgreSQL sees at each SELECT what is committed by then; a  *)
(* reader of MySQL keeps the snapshot of its first one.  There is no purge  *)
(* and no rotation of tokens in this backend.                               *)
(***************************************************************************)
EXTENDS AccountSync

CONSTANTS
  Process,      \* processes with a repository of their own
  Me,           \* the one whose table the sync keeps
  Dialects,     \* databases the program may be configured with
  Starting,     \* environment: those under which processes start, die and start
                \* again; under the others all have started before a write
  NoTx          \* the process is in no transaction

ASSUME SqlAssumption ==
  Me \in Process /\ Dialects \subseteq {"mysql", "postgresql"} /\ Pool # {}

VARIABLES
  dialect,      \* _dialect: which database it is
  tx,           \* process -> its writing transaction or NoTx
  initialized,  \* processes whose repository has _initialized set
  snapshot      \* rows as the reader's transaction sees them (MySQL)

sqlVars == <<dialect, tx, initialized, snapshot>>
everyVar == <<vars, dialect, tx, initialized, snapshot>>

Unread == [t \in Token |-> NoRow]

(* A transaction: rev is 0 until it holds the revision row, and timed the    *)
(* tokens whose ext carried a deadline when it was read.                     *)
Tx == [op     : {"upsert", "delete", "replace", "reset", "recover"} \cup PatchKind,
       pool   : Pool,
       tokens : SUBSET Token,
       timed  : SUBSET Token,
       rev    : Nat]

SqlTypeOK ==
  /\ TypeOK
  /\ dialect \in Dialects
  /\ tx \in [Process -> Tx \cup {NoTx}]
  /\ initialized \in SUBSET Process
  /\ snapshot \in [Token -> Row \cup {NoRow}]

SqlInit ==
  /\ Init
  /\ dialect \in Dialects
  /\ tx = [p \in Process |-> NoTx]
  /\ initialized = IF dialect \in Starting THEN {} ELSE Process
  /\ snapshot = Unread

-----------------------------------------------------------------------------
(* Mutant. *)
SeededAnew == 0

(* The UPDATE of _bump_revision waits for whoever has done its own.          *)
RevisionRowFree == \A p \in {q \in Process : tx[q] # NoTx} : tx[p].rev = 0

(* PostgreSQL: ON CONFLICT DO NOTHING.  MySQL: ON DUPLICATE KEY UPDATE       *)
(* value = "0", whatever the revision has come to.                           *)
Seeded == IF dialect = "mysql" THEN 0 ELSE revision

Initialize(p) ==
  /\ p \notin initialized
  /\ RevisionRowFree
  /\ initialized' = initialized \cup {p}
  /\ revision' = Seeded
  /\ UNCHANGED <<rows, tableVars, scanVars, restarts, dialect, tx, snapshot>>

Holding(op, p, S, timed) ==
  [op |-> op, pool |-> p, tokens |-> S, timed |-> timed, rev |-> revision + 1]

(* upsert_accounts, patch_accounts, delete_accounts and the first half of    *)
(* replace_pool bump before they look at a row.                              *)
BeginTransaction(p, op, pool, S) ==
  /\ p \in initialized
  /\ tx[p] = NoTx
  /\ RevisionRowFree
  /\ revision < MaxRevision
  /\ tx' = [tx EXCEPT ![p] = Holding(op, pool, S, {})]
  /\ UNCHANGED <<dbVars, tableVars, scanVars, restarts, dialect, initialized, snapshot>>

(* recover_console_expired_accounts selects accounts and their ext, and      *)
(* reset_expired_console_windows counts, before the bump: others may commit  *)
(* in between.  On PostgreSQL both statements apply ->> to a text column and *)
(* are refused, so neither ever writes.                                      *)
Select(p, op, S) ==
  /\ dialect = "mysql"
  /\ p \in initialized
  /\ tx[p] = NoTx
  /\ tx' = [tx EXCEPT ![p] = [op |-> op, pool |-> CHOOSE q \in Pool : TRUE,
                              tokens |-> S, timed |-> {t \in S \cap Stored : rows[t].timed},
                              rev |-> 0]]
  /\ UNCHANGED <<dbVars, tableVars, scanVars, restarts, dialect, initialized, snapshot>>

InStatus(s) == {t \in Live : rows[t].status = s}

(* The bump of a transaction that has selected, or of replace_pool's upsert. *)
Bump(p) ==
  /\ tx[p] # NoTx
  /\ tx[p].rev = 0
  /\ RevisionRowFree
  /\ revision < MaxRevision
  /\ tx' = [tx EXCEPT ![p].rev = revision + 1]
  /\ UNCHANGED <<dbVars, tableVars, scanVars, restarts, dialect, initialized, snapshot>>

(* Every column of an existing row is written, ext too. *)
SqlUpsertedRow(p, rev) ==
  [pool |-> p, status |-> "active", timed |-> FALSE, deleted |-> FALSE, rev |-> rev]

(* The UPDATE of a recovery names the token only: status and ext are put     *)
(* over whatever has been committed since they were selected.                *)
RecoveredRow(row, timed, rev) ==
  [row EXCEPT !.status = "active", !.timed = timed, !.rev = rev]

Touches(x, t) ==
  CASE x.op = "upsert"    -> t \in x.tokens
    [] x.op = "delete"    -> t \in x.tokens \cap Live
    [] x.op = "replace"   -> t \in Live /\ rows[t].pool = x.pool
    [] x.op = "reset"     -> t \in x.tokens \cap InStatus("active")
    [] x.op = "recover"   -> t \in x.tokens
    [] OTHER              -> t \in x.tokens \cap Stored

Written(x, t) ==
  CASE x.op = "upsert"               -> SqlUpsertedRow(x.pool, x.rev)
    [] x.op \in {"delete","replace"} -> DeletedRow(rows[t], x.rev)
    [] x.op = "reset"                -> PatchedRow(rows[t], "touch", x.rev)
    [] x.op = "recover"              -> RecoveredRow(rows[t], t \in x.timed, x.rev)
    [] OTHER                         -> PatchedRow(rows[t], x.op, x.rev)

(* What follows a commit: the replacements of a pool are a transaction of    *)
(* their own, upsert_accounts, unless there are none.                        *)
Following(x) ==
  IF x.op = "replace" /\ x.tokens # {} THEN [x EXCEPT !.op = "upsert", !.rev = 0]
                                       ELSE NoTx

Commit(p) ==
  /\ tx[p] # NoTx
  /\ tx[p].rev > 0
  /\ rows' = [t \in Token |-> IF Touches(tx[p], t) THEN Written(tx[p], t) ELSE rows[t]]
  /\ revision' = tx[p].rev
  /\ tx' = [tx EXCEPT ![p] = Following(tx[p])]
  /\ UNCHANGED <<tableVars, scanVars, restarts, dialect, initialized, snapshot>>

(* A statement fails or the connection is lost: the database rolls back. *)
RollBack(p) ==
  /\ tx[p] # NoTx
  /\ tx' = [tx EXCEPT ![p] = NoTx]
  /\ UNCHANGED <<dbVars, tableVars, scanVars, restarts, dialect, initialized, snapshot>>

(* Another process dies and comes back, in a transaction or out of one. *)
ProcessRestarts(p) ==
  /\ p \in initialized \ {Me}
  /\ dialect \in Starting
  /\ restarts < MaxRestart
  /\ restarts' = restarts + 1
  /\ tx' = [tx EXCEPT ![p] = NoTx]
  /\ initialized' = initialized \ {p}
  /\ UNCHANGED <<dbVars, tableVars, scanVars, dialect, snapshot>>

-----------------------------------------------------------------------------
Seen == IF dialect = "mysql" THEN snapshot ELSE rows

SeenLive    == {t \in Token : Seen[t] # NoRow /\ ~Seen[t].deleted}
SeenChanged == {t \in Token : Seen[t] # NoRow /\ Seen[t].rev > tableRevision}

FixesSnapshot == snapshot' = IF dialect = "mysql" THEN rows ELSE Unread

(* runtime_snapshot and scan_changes: the revision, then the rows.           *)
SqlBootstrapRevision ==
  /\ Me \in initialized
  /\ BootstrapRevision
  /\ FixesSnapshot
  /\ UNCHANGED <<dialect, tx, initialized>>

SqlBootstrapRows ==
  /\ pc = "boot"
  /\ pc' = "idle"
  /\ slot' = [t \in Token |-> IF t \in SeenLive THEN RecordToSlot(Seen[t]) ELSE NoSlot]
  /\ modeAvailable' = [p \in Pool |->
       {t \in SeenLive : RecordToSlot(Seen[t]) = [pool |-> p, status |-> "active"]}]
  /\ size' = Cardinality(SeenLive)
  /\ tableRevision' = scanRevision
  /\ UNCHANGED <<dbVars, scanRevision, page, restarts, dialect, tx, initialized, snapshot>>

SqlReadRevision ==
  /\ ReadRevision
  /\ FixesSnapshot
  /\ UNCHANGED <<dialect, tx, initialized>>

SqlReadRows ==
  /\ pc = "rows"
  /\ pc' = "page"
  /\ \E B \in SUBSET SeenChanged, m \in {0} \cup {Seen[t].rev : t \in SeenChanged} :
       /\ B = SeenChanged \/ Cardinality(B) = BatchLimit
       /\ Cardinality(B) <= BatchLimit
       /\ \A t \in B, u \in SeenChanged \ B : Seen[t].rev <= Seen[u].rev
       /\ \/ B = {} /\ m = 0
          \/ (\E t \in B : Seen[t].rev = m) /\ (\A t \in B : Seen[t].rev <= m)
       /\ page' = [rows    |-> [t \in Token |-> IF t \in B THEN Seen[t] ELSE NoRow],
                   hasMore |-> Cardinality(B) = BatchLimit,
                   max     |-> m]
  /\ UNCHANGED <<dbVars, tableVars, scanRevision, restarts, dialect, tx, initialized, snapshot>>

SqlApplyPage == ApplyPage /\ UNCHANGED sqlVars
SqlScanFails == ScanFails /\ UNCHANGED sqlVars

SqlRestart ==
  /\ dialect \in Starting
  /\ Restart
  /\ UNCHANGED dialect
  /\ tx' = [tx EXCEPT ![Me] = NoTx]
  /\ initialized' = initialized \ {Me}
  /\ snapshot' = Unread

-----------------------------------------------------------------------------
SqlWrite(p) ==
  \/ \E pool \in Pool, S \in SmallWrites : BeginTransaction(p, "upsert", pool, S)
  \/ \E op \in {"delete"} \cup PatchKind, S \in SmallWrites :
       BeginTransaction(p, op, CHOOSE q \in Pool : TRUE, S)
  \/ \E pool \in Pool, S \in {{}} \cup SmallWrites : BeginTransaction(p, "replace", pool, S)
  \/ \E due \in SUBSET Token :
       due \cap InStatus("active") # {} /\ Select(p, "reset", due)
  \/ \E S \in SUBSET InStatus("expired") : S # {} /\ Select(p, "recover", S)
  \/ Bump(p)
  \/ Commit(p)
  \/ RollBack(p)

SqlSync == SqlBootstrapRevision \/ SqlBootstrapRows \/ SqlReadRevision
             \/ SqlReadRows \/ SqlApplyPage

SqlNext ==
  \/ \E p \in Process : Initialize(p) \/ SqlWrite(p) \/ ProcessRestarts(p)
  \/ SqlSync
  \/ SqlScanFails
  \/ SqlRestart

SqlSpec == SqlInit /\ [][SqlNext]_everyVar

(* A transaction that holds the revision row ends one way or the other, the  *)
(* database serves those who wait for the row in turn, and the sync loop     *)
(* runs for ever.  Nothing is assumed of writers beyond that.                *)
SqlFairness ==
  /\ \A p \in Process : WF_everyVar(Commit(p) \/ RollBack(p))
  /\ SF_everyVar(Initialize(Me))
  /\ WF_everyVar(SqlBootstrapRevision) /\ WF_everyVar(SqlBootstrapRows)
  /\ WF_everyVar(SqlReadRevision) /\ SF_everyVar(SqlReadRows)
  /\ WF_everyVar(SqlApplyPage)

FairSqlSpec == SqlSpec /\ SqlFairness
=============================================================================

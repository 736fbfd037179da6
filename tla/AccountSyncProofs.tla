------------------------- MODULE AccountSyncProofs -------------------------
(***************************************************************************)
(* Proofs about AccountSync, RedisSync and SqlSync.  The writes of the      *)
(* SQLite repository enter through one lemma, WriteEffect: whatever a write *)
(* does, the rows it changes carry a revision no reader has seen yet.       *)
(* Everything else is about the worker.  The second part is about the Redis *)
(* store, whose writes are several round trips that any number of writers   *)
(* interleave and may die in, and whose pages are read hash by hash: what a *)
(* worker at the store's revision lacks is what a write left torn under its *)
(* reads.  The third shows that MySQL and PostgreSQL, whose transactions    *)
(* overlap and whose readers may have a snapshot, serve the sync as SQLite  *)
(* does, where a page holds the store and nobody seeds the revision anew.   *)
(* Tokens, pages, writers and bounds are any; the worker's own steps are    *)
(* those of the first part.                                                 *)
(***************************************************************************)
EXTENDS RedisSync, SqlSync, FiniteSetTheorems, TLAPS

(* No row is stamped above the global revision. *)
RevisionsBounded == \A t \in Stored : rows[t].rev <= revision

(* A page can hold the whole store. *)
WholePages == Cardinality(Token) <= BatchLimit

(* With one row per write, a revision identifies its row, and a page that    *)
(* cannot hold the store is cut between two revisions.                       *)
RevisionsDistinct ==
  ~WholePages /\ MaxBulk = 1 =>
    \A t, u \in Stored : t # u => rows[t].rev # rows[u].rev

DbInv == DbTypeOK /\ RevisionsBounded /\ RevisionsDistinct

(* What a write may do, seen from the outside. *)
Effect ==
  /\ revision < revision'
  /\ \A t \in Token : rows'[t] # rows[t] =>
       /\ rows'[t] # NoRow
       /\ revision < rows'[t].rev

LEMMA SingletonWrites ==
  ASSUME MaxBulk = 1, NEW S \in SUBSET Token, Cardinality(S) <= MaxBulk
  PROVE  \A t, u \in S : t = u
<1>1. IsFiniteSet(S)
  BY FS_Subset, TokenAssumption
<1>2. Cardinality(S) \in Nat
  BY <1>1, FS_CardinalityType
<1>3. CASE Cardinality(S) = 0
  BY <1>1, <1>3, FS_EmptySet
<1>4. CASE Cardinality(S) = 1
  BY <1>1, <1>4, FS_Singleton
<1>5. QED
  BY <1>2, <1>3, <1>4

(* The rows the operators of the repository build are rows, at the revision  *)
(* they are given.                                                           *)
LEMMA UpsertOps ==
  ASSUME NEW rev \in Nat, NEW p \in Pool, NEW row \in Row \cup {NoRow}
  PROVE  /\ UpsertedRow(row, p, rev) \in Row
         /\ UpsertedRow(row, p, rev).rev = rev
<1>1. CASE row = NoRow
  BY <1>1 DEF UpsertedRow, Row, Status
<1>2. CASE row # NoRow
  BY <1>2 DEF UpsertedRow, Row, Status
<1>3. QED BY <1>1, <1>2

LEMMA PatchOps ==
  ASSUME NEW rev \in Nat, NEW k \in PatchKind, NEW row \in Row
  PROVE  /\ PatchedRow(row, k, rev) \in Row
         /\ PatchedRow(row, k, rev).rev = rev
<1>1. PatchedStatus(row.status, k) \in Status
  BY DEF PatchedStatus, Row, Status
<1>2. (k = "cool" \/ (row.timed /\ k # "clear")) \in BOOLEAN
  OBVIOUS
<1>3. row.pool \in Pool /\ row.deleted \in BOOLEAN
  BY DEF Row
<1>4. QED BY <1>1, <1>2, <1>3 DEF PatchedRow, Row

LEMMA DeleteOps ==
  ASSUME NEW rev \in Nat, NEW row \in Row
  PROVE  /\ DeletedRow(row, rev) \in Row
         /\ DeletedRow(row, rev).rev = rev
BY DEF DeletedRow, Row

(* Whatever is written, the rows that change are stamped with a revision     *)
(* above every one handed out before, and one-row writes keep revisions      *)
(* distinct.                                                                 *)
LEMMA WriteEffect ==
  ASSUME DbInv, Write
  PROVE  DbInv' /\ Effect
<1> USE DEF DbInv, DbTypeOK, Stored, Live
<1>0. revision \in Nat /\ revision + 1 \in Nat /\ revision + 2 \in Nat
  OBVIOUS
<1>1. ASSUME NEW S \in SmallWrites, NEW p \in Pool, UpsertAccounts(S, p)
      PROVE  DbInv' /\ Effect
  <2>1. \A t \in Token : rows'[t] \in Row \cup {NoRow} /\
          (t \in S => rows'[t] \in Row /\ rows'[t].rev = revision') /\
          (t \notin S => rows'[t] = rows[t])
    BY <1>1, <1>0, UpsertOps DEF UpsertAccounts
  <2>2. MaxBulk = 1 => \A t, u \in S : t = u
    BY SingletonWrites DEF SmallWrites
  <2>3. S \subseteq Token /\ revision' = revision + 1 /\ rows' = [t \in Token |-> rows'[t]]
    BY <1>1 DEF UpsertAccounts, SmallWrites
  <2>4. QED
    BY <2>1, <2>2, <2>3, NoRowAssumption DEF RevisionsBounded, RevisionsDistinct, Effect, Row
<1>2. ASSUME NEW S \in SmallWrites, NEW k \in PatchKind, PatchAccounts(S, k)
      PROVE  DbInv' /\ Effect
  <2>1. \A t \in Token : rows'[t] \in Row \cup {NoRow} /\
          (t \in S \cap Stored => rows'[t] \in Row /\ rows'[t].rev = revision') /\
          (t \notin S \cap Stored => rows'[t] = rows[t])
    <3>1. revision' \in Nat
      BY <1>2, <1>0 DEF PatchAccounts
    <3>2. \A row \in Row : /\ PatchedRow(row, k, revision') \in Row
                           /\ PatchedRow(row, k, revision').rev = revision'
      BY <3>1, PatchOps
    <3>3. QED BY <1>2, <3>2 DEF PatchAccounts
  <2>2. MaxBulk = 1 => \A t, u \in S : t = u
    BY SingletonWrites DEF SmallWrites
  <2>3. S \subseteq Token /\ revision' = revision + 1 /\ rows' = [t \in Token |-> rows'[t]]
    BY <1>2 DEF PatchAccounts, SmallWrites
  <2>4. QED
    BY <2>1, <2>2, <2>3, NoRowAssumption DEF RevisionsBounded, RevisionsDistinct, Effect, Row
<1>3. ASSUME NEW S \in SmallWrites, DeleteAccounts(S)
      PROVE  DbInv' /\ Effect
  <2>1. \A t \in Token : rows'[t] \in Row \cup {NoRow} /\
          (t \in S \cap Live => rows'[t] \in Row /\ rows'[t].rev = revision') /\
          (t \notin S \cap Live => rows'[t] = rows[t])
    <3>1. revision' \in Nat
      BY <1>3, <1>0 DEF DeleteAccounts
    <3>2. \A row \in Row : /\ DeletedRow(row, revision') \in Row
                           /\ DeletedRow(row, revision').rev = revision'
      BY <3>1, DeleteOps
    <3>3. QED BY <1>3, <3>2 DEF DeleteAccounts
  <2>2. MaxBulk = 1 => \A t, u \in S : t = u
    BY SingletonWrites DEF SmallWrites
  <2>3. S \subseteq Token /\ revision' = revision + 1 /\ rows' = [t \in Token |-> rows'[t]]
    BY <1>3 DEF DeleteAccounts, SmallWrites
  <2>4. QED
    BY <2>1, <2>2, <2>3, NoRowAssumption DEF RevisionsBounded, RevisionsDistinct, Effect, Row
<1>4. ASSUME NEW old \in Token, NEW new \in Token, RotateAccountToken(old, new)
      PROVE  DbInv' /\ Effect
  <2>1. revision' = revision + 1 /\ MaxBulk # 1 /\ old # new
    BY <1>4, NatAssumption DEF RotateAccountToken
  <2>2. /\ [rows[old] EXCEPT !.rev = revision'] \in Row
        /\ [rows[old] EXCEPT !.rev = revision'].rev = revision'
    BY <1>4, <2>1, <1>0 DEF RotateAccountToken, Row
  <2>3. DeletedRow(rows[old], revision') \in Row /\ DeletedRow(rows[old], revision').rev = revision'
    BY <1>4, <2>1, <1>0, DeleteOps DEF RotateAccountToken
  <2>4. /\ rows' \in [Token -> Row \cup {NoRow}]
        /\ \A t \in Token : rows'[t] # rows[t] => rows'[t] \in Row /\ rows'[t].rev = revision'
    BY <1>4, <2>1, <2>2, <2>3 DEF RotateAccountToken
  <2>5. QED
    BY <2>1, <2>4, <1>0, NoRowAssumption DEF RevisionsBounded, RevisionsDistinct, Effect, Row
<1>5. ASSUME NEW p \in Pool, NEW S \in SmallWrites, ReplacePool(p, S)
      PROVE  DbInv' /\ Effect
  <2> DEFINE gone == {t \in Live : rows[t].pool = p}
             mid  == [t \in Token |-> IF t \in gone
                                        THEN DeletedRow(rows[t], revision + 1)
                                        ELSE rows[t]]
  <2>1. /\ revision' = revision + 2
        /\ Cardinality(gone) <= MaxBulk
        /\ rows' = [t \in Token |-> IF t \in S THEN UpsertedRow(mid[t], p, revision')
                                               ELSE mid[t]]
    BY <1>5 DEF ReplacePool
  <2>2. \A t \in Token : mid[t] \in Row \cup {NoRow} /\
          (t \in gone => mid[t] \in Row /\ mid[t].rev = revision + 1) /\
          (t \notin gone => mid[t] = rows[t])
    BY <1>0, DeleteOps
  <2>3. MaxBulk = 1 => \A t, u \in S : t = u
    BY SingletonWrites DEF SmallWrites
  <2>4. MaxBulk = 1 => \A t, u \in gone : t = u
    BY <2>1, SingletonWrites
  <2> HIDE DEF gone, mid
  <2>5. \A t \in Token : rows'[t] \in Row \cup {NoRow} /\
          (t \in S => rows'[t] \in Row /\ rows'[t].rev = revision') /\
          (t \notin S => rows'[t] = mid[t])
    BY <2>1, <2>2, <1>0, UpsertOps
  <2>6. S \subseteq Token /\ rows' = [t \in Token |-> rows'[t]]
    BY <2>1 DEF SmallWrites
  <2>7. \A t \in Token : \/ rows'[t] = rows[t] /\ t \notin S /\ t \notin gone
                         \/ rows'[t] \in Row /\ t \in S /\ rows'[t].rev = revision + 2
                         \/ rows'[t] \in Row /\ t \in gone /\ rows'[t].rev = revision + 1
    BY <2>1, <2>2, <2>5
  <2>8. RevisionsBounded' /\ Effect
    BY <2>1, <2>6, <2>7, <1>0, NoRowAssumption DEF RevisionsBounded, Effect, Row
  <2>9. RevisionsDistinct'
    BY <2>1, <2>3, <2>4, <2>6, <2>7, <1>0, NoRowAssumption DEF RevisionsBounded, RevisionsDistinct, Row
  <2>10. QED
    BY <2>1, <2>5, <2>6, <2>8, <2>9, <1>0
<1>6. QED BY <1>1, <1>2, <1>3, <1>4, <1>5 DEF Write

(* A purge forgets tombstones and nothing else. *)
LEMMA PurgeEffect ==
  ASSUME DbInv, NEW S \in SUBSET (Stored \ Live), PurgeDeletedAccounts(S)
  PROVE  /\ DbInv'
         /\ \A t \in Token : rows'[t] = rows[t] \/ (t \in S /\ rows'[t] = NoRow)
BY DEF PurgeDeletedAccounts, DbInv, DbTypeOK, RevisionsBounded, RevisionsDistinct, Stored, Live

-----------------------------------------------------------------------------
(* The page in hand: every row in it is unseen and no newer than the stored  *)
(* row, and it holds, unchanged since, every row the table would step over   *)
(* by moving to NextRevision.                                                *)
PageInv ==
  pc = "page" =>
    /\ \A t \in InPage : /\ t \in Stored
                         /\ tableRevision < page.rows[t].rev
                         /\ page.rows[t].rev <= rows[t].rev
    /\ \A t \in Unseen : rows[t].rev <= NextRevision => page.rows[t] = rows[t]
    /\ NextRevision <= revision

Behind == scanRevision <= revision /\ tableRevision <= revision

SyncInv == TypeOK /\ DbInv /\ Behind /\ PageInv /\ NoRowSkipped

(* Pages are safe when a page can hold the whole store, or when every write  *)
(* touches a single row.                                                     *)
SafePaging == WholePages \/ MaxBulk = 1

LEMMA CardinalityOfTokens ==
  ASSUME NEW S \in SUBSET Token
  PROVE  IsFiniteSet(S) /\ Cardinality(S) \in Nat /\ Cardinality(S) <= Cardinality(Token)
BY FS_Subset, FS_CardinalityType, TokenAssumption

LEMMA SlotOps ==
  ASSUME NEW row \in Row
  PROVE  /\ RecordToSlot(row) \in Slot
         /\ RecordToSlot(row) # NoSlot
         /\ RecordToSlot(row).status # "deleted"
<1>1. RecordToSlot(row) \in Slot
  BY DEF RecordToSlot, Row, Slot, Status, SlotStatus
<1>2. RecordToSlot(row).status # "deleted"
  BY DEF RecordToSlot, Row, Status
<1>3. QED BY <1>1, <1>2, NoSlotAssumption

LEMMA InitSync == Init => SyncInv
<1> SUFFICES ASSUME Init PROVE SyncInv
  OBVIOUS
<1>1. TypeOK
  BY NoRowAssumption, NoSlotAssumption
  DEF Init, DbInit, EmptyTable, NoPage, Page, TypeOK, DbTypeOK
<1>2. DbInv
  BY <1>1 DEF Init, DbInit, DbInv, TypeOK, RevisionsBounded, RevisionsDistinct, Stored
<1>3. Behind /\ PageInv /\ NoRowSkipped
  BY DEF Init, DbInit, EmptyTable, Behind, PageInv, NoRowSkipped, Running
<1>4. QED BY <1>1, <1>2, <1>3 DEF SyncInv

(* A write leaves every clean token clean, and the rows it changes stay out  *)
(* of reach of the page in hand.                                             *)
LEMMA EffectPreserves ==
  ASSUME SyncInv, DbInv', Effect,
         UNCHANGED <<slot, modeAvailable, size, tableRevision, pc, scanRevision, page, restarts>>
  PROVE  SyncInv'
<1>1. DbInv' /\ Effect
  OBVIOUS
<1>2. UNCHANGED <<slot, modeAvailable, size, tableRevision, pc, scanRevision, page, restarts>>
  OBVIOUS
<1>3. TypeOK'
  BY <1>1, <1>2 DEF SyncInv, TypeOK, DbInv
<1>4. Behind'
  BY <1>1, <1>2 DEF SyncInv, TypeOK, DbInv, DbTypeOK, Behind, Effect
<1>5. UNCHANGED <<InPage, NextRevision>> /\ UNCHANGED Running
  BY <1>2 DEF InPage, NextRevision, Running
<1>6. \A t \in Token \ Unseen' :
        rows'[t] = rows[t] /\ t \notin Unseen /\ View(t)' = View(t) /\ Truth(t)' = Truth(t)
  <2> SUFFICES ASSUME NEW t \in Token \ Unseen'
               PROVE  /\ rows'[t] = rows[t] /\ t \notin Unseen
                      /\ View(t)' = View(t) /\ Truth(t)' = Truth(t)
    OBVIOUS
  <2>1. rows'[t] = rows[t]
    <3>1. SUFFICES ASSUME rows'[t] # rows[t] PROVE FALSE
      OBVIOUS
    <3>2. t \in Stored' /\ revision < rows'[t].rev
      BY <1>1, <3>1 DEF Effect, Stored
    <3>3. rows'[t].rev \in Nat /\ revision \in Nat /\ tableRevision \in Nat
      BY <1>1, <3>2 DEF DbInv, DbTypeOK, Stored, Row, SyncInv, TypeOK
    <3>4. rows'[t].rev > tableRevision'
      BY <1>2, <3>2, <3>3 DEF SyncInv, Behind
    <3>5. QED BY <3>2, <3>4 DEF Unseen
  <2>2. t \notin Unseen
    BY <1>2, <2>1 DEF Unseen, Stored
  <2>3. View(t)' = View(t)
    BY <1>2 DEF View
  <2>4. Truth(t)' = Truth(t)
    BY <2>1 DEF Truth, Live, Stored
  <2>5. QED BY <2>1, <2>2, <2>3, <2>4
<1>7. NoRowSkipped'
  BY <1>5, <1>6 DEF SyncInv, NoRowSkipped
<1>8. PageInv'
  <2> SUFFICES ASSUME pc = "page"
               PROVE  /\ \A t \in InPage : /\ t \in Stored'
                                           /\ tableRevision < page.rows[t].rev
                                           /\ page.rows[t].rev <= rows'[t].rev
                      /\ \A t \in Unseen' : rows'[t].rev <= NextRevision => page.rows[t] = rows'[t]
                      /\ NextRevision <= revision'
    BY <1>2, <1>5 DEF PageInv
  <2> USE DEF SyncInv, TypeOK, DbTypeOK
  <2>1. /\ revision \in Nat /\ revision' \in Nat /\ tableRevision \in Nat
        /\ NextRevision \in Nat
    BY <1>1 DEF NextRevision, Page, DbInv
  <2>2. \A t \in Stored : rows[t].rev \in Nat /\ rows[t].rev <= revision
    BY DEF DbInv, RevisionsBounded, Stored, Row
  <2>3. \A t \in Stored' : rows'[t].rev \in Nat
    BY <1>1 DEF DbInv, Stored, Row
  <2>4. \A t \in InPage : page.rows[t].rev \in Nat
    BY DEF InPage, Page, Row
  <2>5. NextRevision <= revision'
    BY <2>1, <1>1 DEF PageInv, Effect
  <2>6. ASSUME NEW t \in InPage
        PROVE  /\ t \in Stored'
               /\ tableRevision < page.rows[t].rev
               /\ page.rows[t].rev <= rows'[t].rev
    <3>1. t \in Stored /\ tableRevision < page.rows[t].rev /\ page.rows[t].rev <= rows[t].rev
      BY DEF PageInv
    <3>2. CASE rows'[t] = rows[t]
      BY <3>1, <3>2 DEF Stored
    <3>3. CASE rows'[t] # rows[t]
      BY <3>1, <3>3, <2>1, <2>2, <2>3, <2>4, <1>1 DEF Stored, Effect
    <3>4. QED BY <3>2, <3>3
  <2>7. ASSUME NEW t \in Unseen', rows'[t].rev <= NextRevision
        PROVE  page.rows[t] = rows'[t]
    <3>1. rows'[t] = rows[t]
      BY <2>1, <2>3, <2>7, <1>1 DEF Unseen, Stored, Effect, PageInv
    <3>2. t \in Unseen
      BY <1>2, <3>1, <2>7 DEF Unseen, Stored
    <3>3. QED BY <3>1, <3>2, <2>7 DEF PageInv
  <2>8. QED BY <2>5, <2>6, <2>7
<1>9. QED BY <1>1, <1>3, <1>4, <1>7, <1>8 DEF SyncInv

LEMMA WritePreserves ==
  ASSUME SyncInv, DbWrite
  PROVE  SyncInv'
<1>1. DbInv' /\ Effect
  BY WriteEffect DEF SyncInv, DbWrite
<1>2. UNCHANGED <<slot, modeAvailable, size, tableRevision, pc, scanRevision, page, restarts>>
  BY DEF DbWrite, tableVars, scanVars
<1> QED BY <1>1, <1>2, EffectPreserves

LEMMA PurgePreserves ==
  ASSUME SyncInv, Purge
  PROVE  SyncInv'
<1>1. PICK S \in SUBSET (Stored \ Live) : RetentionElapsed(S) /\ PurgeDeletedAccounts(S)
  BY DEF Purge
<1>2. DbInv' /\ \A t \in Token : rows'[t] = rows[t] \/ (t \in S /\ rows'[t] = NoRow)
  BY <1>1, PurgeEffect DEF SyncInv
<1>3. UNCHANGED <<revision, slot, modeAvailable, size, tableRevision, pc, scanRevision, page, restarts>>
  BY <1>1 DEF Purge, PurgeDeletedAccounts, tableVars, scanVars
<1>4. UNCHANGED <<InPage, NextRevision>> /\ UNCHANGED Running
  BY <1>3 DEF InPage, NextRevision, Running
<1>5. TypeOK' /\ Behind'
  BY <1>2, <1>3 DEF SyncInv, TypeOK, DbInv, Behind
<1> USE DEF SyncInv, TypeOK, DbTypeOK
<1>6. Unseen' \subseteq Unseen /\ \A t \in Unseen' : rows'[t] = rows[t]
  BY <1>2, <1>3 DEF Unseen, Stored
<1>7. NoRowSkipped'
  <2> SUFFICES ASSUME Running, NEW t \in Token \ Unseen' PROVE View(t)' = Truth(t)'
    BY <1>4 DEF NoRowSkipped
  <2>1. t \notin Unseen
    <3>1. CASE rows'[t] = rows[t]
      BY <1>3, <3>1 DEF Unseen, Stored
    <3>2. CASE t \in S
      <4>1. rows[t].rev <= tableRevision /\ rows[t].rev \in Nat
        BY <1>1, <3>2 DEF RetentionElapsed, Stored, Row
      <4>2. QED BY <4>1 DEF Unseen
    <3>3. QED BY <1>2, <3>1, <3>2
  <2>2. View(t) = Truth(t) /\ View(t)' = View(t)
    BY <2>1, <1>3 DEF NoRowSkipped, View
  <2>3. Truth(t)' = Truth(t)
    BY <1>1, <1>2 DEF Truth, Live, Stored
  <2>4. QED BY <2>2, <2>3
<1>8. PageInv'
  <2> SUFFICES ASSUME pc = "page", NEW t \in InPage PROVE rows'[t] = rows[t] /\ t \in Stored'
    BY <1>2, <1>3, <1>4, <1>6 DEF PageInv
  <2>1. tableRevision < page.rows[t].rev /\ page.rows[t].rev <= rows[t].rev /\ t \in Stored
    BY DEF PageInv
  <2>2. page.rows[t].rev \in Nat /\ rows[t].rev \in Nat /\ tableRevision \in Nat
    BY <2>1 DEF InPage, Stored, Page, Row
  <2>3. t \notin S
    BY <1>1, <2>1, <2>2 DEF RetentionElapsed, Running
  <2>4. QED BY <1>2, <2>1, <2>3 DEF Stored
<1>9. QED BY <1>2, <1>5, <1>7, <1>8

(* The worker's steps leave the repository alone. *)
LEMMA DbUnchanged ==
  ASSUME DbInv, UNCHANGED dbVars
  PROVE  DbInv' /\ \A t \in Token : Truth(t)' = Truth(t)
BY DEF DbInv, DbTypeOK, RevisionsBounded, RevisionsDistinct, Stored, Live, Truth, dbVars

LEMMA BootstrapPreserves ==
  ASSUME SyncInv, BootstrapRevision \/ BootstrapRows
  PROVE  SyncInv'
<1> USE DEF SyncInv, TypeOK, DbTypeOK
<1>1. DbInv' /\ UNCHANGED dbVars
  BY DbUnchanged DEF BootstrapRevision, BootstrapRows
<1>2. CASE BootstrapRevision
  BY <1>1, <1>2 DEF BootstrapRevision, tableVars, dbVars, Behind, PageInv, NoRowSkipped, Running
<1>3. CASE BootstrapRows
  <2>1. \A t \in Live : /\ RecordToSlot(rows[t]) \in Slot
                        /\ RecordToSlot(rows[t]) # NoSlot
                        /\ RecordToSlot(rows[t]).status # "deleted"
    BY SlotOps DEF Live, Stored
  <2>2. Live \subseteq Token
    BY DEF Live, Stored
  <2>3. size' \in Nat
    BY <1>3, <2>2, CardinalityOfTokens DEF BootstrapRows
  <2>4. TypeOK' /\ Behind' /\ PageInv'
    BY <1>1, <1>3, <2>1, <2>2, <2>3 DEF BootstrapRows, dbVars, Behind, PageInv
  <2>5. NoRowSkipped'
    <3> SUFFICES ASSUME NEW t \in Token PROVE View(t)' = Truth(t)'
      BY DEF NoRowSkipped
    <3>1. Truth(t)' = Truth(t) /\ slot'[t] = IF t \in Live THEN RecordToSlot(rows[t]) ELSE NoSlot
      BY <1>1, <1>3, DbUnchanged DEF BootstrapRows
    <3>2. QED BY <3>1, <2>1 DEF View, Truth
  <2>6. QED BY <1>1, <2>4, <2>5
<1>4. QED BY <1>2, <1>3

LEMMA ReadRevisionPreserves ==
  ASSUME SyncInv, ReadRevision \/ ScanFails
  PROVE  SyncInv'
<1> USE DEF SyncInv, TypeOK, DbTypeOK
<1>1. DbInv' /\ UNCHANGED dbVars /\ \A t \in Token : Truth(t)' = Truth(t)
  BY DbUnchanged DEF ReadRevision, ScanFails
<1>2. UNCHANGED <<slot, modeAvailable, size, tableRevision, page, restarts>>
  BY DEF ReadRevision, ScanFails, tableVars
<1>3. TypeOK' /\ Behind' /\ PageInv'
  BY <1>1, <1>2 DEF ReadRevision, ScanFails, dbVars, Behind, PageInv
<1>4. Running /\ UNCHANGED Unseen /\ \A t \in Token : View(t)' = View(t)
  BY <1>1, <1>2 DEF ReadRevision, ScanFails, Running, Unseen, Stored, View, dbVars
<1>5. QED BY <1>1, <1>3, <1>4 DEF NoRowSkipped

(* A batch holds every unseen row up to its largest revision: the batch is   *)
(* all of them, or it is cut between two different revisions.                *)
LEMMA BatchIsComplete ==
  ASSUME SafePaging, SyncInv, NEW B \in SUBSET Changed, NEW m \in 0..revision,
         IsBatch(B), IsMaxRevision(B, m), NEW t \in Changed,
         Cardinality(B) = BatchLimit => rows[t].rev <= m
  PROVE  t \in B
<1> USE DEF SyncInv, TypeOK, DbTypeOK
<1>0. B \subseteq Token /\ Changed \subseteq Token
  BY DEF Changed, Stored
<1>1. CASE B = Changed
  BY <1>1
<1>2. CASE B # Changed
  <2>1. Cardinality(B) = BatchLimit
    BY <1>2 DEF IsBatch
  <2>2. Cardinality(Changed) # Cardinality(B)
    BY <1>0, <1>2, CardinalityOfTokens, FS_Subset
  <2>3. Cardinality(B) <= Cardinality(Changed) /\ Cardinality(Changed) <= Cardinality(Token)
    BY <1>0, CardinalityOfTokens, FS_Subset
  <2>4. /\ Cardinality(B) \in Nat /\ Cardinality(Changed) \in Nat
        /\ Cardinality(Token) \in Nat /\ BatchLimit \in Nat \ {0}
    BY <1>0, CardinalityOfTokens, SyncAssumption
  <2>5. ~WholePages /\ MaxBulk = 1
    BY <2>1, <2>2, <2>3, <2>4 DEF SafePaging, WholePages
  <2>6. B # {}
    BY <2>1, <2>4, FS_EmptySet
  <2>7. PICK u \in B : rows[u].rev = m
    BY <2>6 DEF IsMaxRevision
  <2>8. SUFFICES ASSUME t \notin B PROVE FALSE
    OBVIOUS
  <2>9. rows[u].rev <= rows[t].rev /\ rows[t].rev <= m
    BY <2>1, <2>8 DEF IsBatch
  <2>10. rows[t].rev \in Nat /\ rows[u].rev \in Nat /\ t \in Stored /\ u \in Stored
    BY DEF Changed, Stored, Row
  <2>11. rows[t].rev = rows[u].rev
    BY <2>7, <2>9, <2>10
  <2>12. QED
    BY <2>5, <2>8, <2>10, <2>11 DEF DbInv, RevisionsDistinct
<1>3. QED BY <1>1, <1>2

LEMMA ReadRowsPreserves ==
  ASSUME SafePaging, SyncInv, ReadRows
  PROVE  SyncInv'
<1> USE DEF SyncInv, TypeOK, DbTypeOK
<1>1. PICK B \in SUBSET Changed, m \in 0..revision :
        /\ IsBatch(B)
        /\ IsMaxRevision(B, m)
        /\ page' = [rows    |-> [t \in Token |-> IF t \in B THEN rows[t] ELSE NoRow],
                    hasMore |-> Cardinality(B) = BatchLimit,
                    max     |-> m]
  BY DEF ReadRows
<1>2. DbInv' /\ UNCHANGED dbVars /\ \A t \in Token : Truth(t)' = Truth(t)
  BY DbUnchanged DEF ReadRows
<1>3. UNCHANGED <<slot, modeAvailable, size, tableRevision, scanRevision, restarts>>
  BY DEF ReadRows, tableVars
<1>4. B \subseteq Stored /\ \A t \in Stored : rows[t].rev \in Nat /\ rows[t] \in Row /\ rows[t] # NoRow
  BY DEF Changed, Stored, Row
<1>5. page' \in Page
  <2>1. (Cardinality(B) = BatchLimit) \in BOOLEAN
    OBVIOUS
  <2>2. [t \in Token |-> IF t \in B THEN rows[t] ELSE NoRow] \in [Token -> Row \cup {NoRow}]
    BY <1>4
  <2>3. m \in Nat
    OBVIOUS
  <2>4. QED BY <1>1, <2>1, <2>2, <2>3 DEF Page
<1>6. TypeOK' /\ Behind'
  BY <1>2, <1>3, <1>5 DEF ReadRows, dbVars, Behind
<1>7. pc = "rows" /\ pc' = "page"
  BY DEF ReadRows
<1>8. NoRowSkipped'
  BY <1>2, <1>3, <1>7 DEF NoRowSkipped, Running, Unseen, Stored, View, dbVars
<1>9. PageInv'
  <2>1. InPage' = B /\ \A t \in B : page'.rows[t] = rows[t]
    BY <1>1, <1>4 DEF InPage, Stored
  <2>2. NextRevision' = IF Cardinality(B) = BatchLimit THEN m ELSE scanRevision
    BY <1>1, <1>3 DEF NextRevision
  <2>3. NextRevision' <= revision'
    BY <1>2, <2>2 DEF Behind, dbVars
  <2>4. \A t \in B : tableRevision < rows[t].rev /\ rows[t].rev <= rows[t].rev
    BY <1>4 DEF Changed
  <2>5. ASSUME NEW t \in Unseen', rows'[t].rev <= NextRevision'
        PROVE  page'.rows[t] = rows'[t]
    <3>1. t \in Changed /\ rows'[t] = rows[t]
      BY <1>2, <1>3 DEF Unseen, Changed, Stored, dbVars
    <3>2. t \in B
      BY <1>1, <2>2, <2>5, <3>1, BatchIsComplete
    <3>3. QED BY <2>1, <3>1, <3>2
  <2>6. QED
    BY <1>2, <1>3, <1>4, <2>1, <2>3, <2>4, <2>5 DEF PageInv, Stored, dbVars
<1>10. QED BY <1>2, <1>6, <1>8, <1>9

LEMMA ApplyTypes ==
  ASSUME TypeOK, ApplyPage
  PROVE  TypeOK'
<1> USE DEF TypeOK, DbTypeOK
<1>1. \A t \in Token : AppliedSlot(t) \in Slot \cup {NoSlot}
  <2> SUFFICES ASSUME NEW t \in Token PROVE AppliedSlot(t) \in Slot \cup {NoSlot}
    OBVIOUS
  <2>1. page.rows[t] \in Row \cup {NoRow} /\ slot[t] \in Slot \cup {NoSlot}
    BY DEF Page
  <2>2. CASE page.rows[t] = NoRow
    BY <2>1, <2>2 DEF AppliedSlot
  <2>3. CASE page.rows[t] # NoRow /\ page.rows[t].deleted
    BY <2>1, <2>3 DEF AppliedSlot, Slot, SlotStatus
  <2>4. CASE page.rows[t] # NoRow /\ ~page.rows[t].deleted
    BY <2>1, <2>4, SlotOps DEF AppliedSlot
  <2>5. QED BY <2>2, <2>3, <2>4
<1>2. \A p \in Pool : AppliedIndex(p) \in SUBSET Token
  BY DEF AppliedIndex, InPage
<1>3. AppliedSize \in Nat
  <2> DEFINE D == {t \in InPage : page.rows[t].deleted /\ slot[t] # NoSlot}
             A == {t \in InPage : ~page.rows[t].deleted /\ slot[t] = NoSlot}
  <2>1. D \subseteq Token /\ A \subseteq Token
    BY DEF InPage
  <2>2. Cardinality(D) \in Nat /\ Cardinality(A) \in Nat
    BY <2>1, CardinalityOfTokens
  <2>3. AppliedSize = (IF Cardinality(D) > size THEN 0 ELSE size - Cardinality(D)) + Cardinality(A)
    BY DEF AppliedSize
  <2> HIDE DEF D, A
  <2>4. QED BY <2>2, <2>3
<1>4. tableRevision' \in Nat
  BY DEF ApplyPage, NextRevision, Page
<1>5. page' \in Page
  BY DEF ApplyPage, NoPage, Page
<1>6. QED
  BY <1>1, <1>2, <1>3, <1>4, <1>5 DEF ApplyPage, dbVars

LEMMA ApplyPreserves ==
  ASSUME SyncInv, ApplyPage
  PROVE  SyncInv'
<1> USE DEF SyncInv, TypeOK, DbTypeOK
<1>1. TypeOK'
  BY ApplyTypes
<1>2. DbInv' /\ UNCHANGED dbVars /\ \A t \in Token : Truth(t)' = Truth(t)
  BY DbUnchanged DEF ApplyPage
<1>3. /\ pc = "page" /\ pc' # "page" /\ Running
      /\ tableRevision' = IF NextRevision > tableRevision THEN NextRevision ELSE tableRevision
      /\ \A t \in Token : slot'[t] = AppliedSlot(t)
      /\ scanRevision' = scanRevision
  BY DEF ApplyPage, Running
<1>4. NextRevision \in Nat /\ NextRevision <= revision
  BY <1>3 DEF NextRevision, Page, PageInv
<1>5. Behind' /\ PageInv'
  BY <1>2, <1>3, <1>4 DEF Behind, PageInv, dbVars
<1>6. NoRowSkipped'
  <2> SUFFICES ASSUME NEW t \in Token \ Unseen' PROVE View(t)' = Truth(t)
    BY <1>2 DEF NoRowSkipped
  <2>1. \A u \in Stored : rows[u].rev \in Nat
    BY DEF Stored, Row
  <2>2. CASE t \in Unseen
    <3>1. t \in Stored /\ rows[t].rev <= NextRevision
      BY <1>2, <1>3, <1>4, <2>1, <2>2 DEF Unseen, Stored, dbVars
    <3>2. page.rows[t] = rows[t] /\ rows[t] \in Row /\ rows[t] # NoRow
      BY <1>3, <2>2, <3>1 DEF PageInv, Stored
    <3>3. CASE rows[t].deleted
      <4>1. slot'[t] = NoSlot \/ slot'[t].status = "deleted"
        BY <1>3, <3>2, <3>3 DEF AppliedSlot, Slot
      <4>2. QED BY <3>3, <4>1 DEF View, Truth, Live
    <3>4. CASE ~rows[t].deleted
      <4>1. slot'[t] = RecordToSlot(rows[t])
        BY <1>3, <3>2, <3>4 DEF AppliedSlot
      <4>2. slot'[t] # NoSlot /\ slot'[t].status # "deleted"
        BY <3>2, <4>1, SlotOps
      <4>3. QED BY <3>1, <3>4, <4>1, <4>2 DEF View, Truth, Live
    <3>5. QED BY <3>3, <3>4
  <2>3. CASE t \notin Unseen
    <3>1. t \notin InPage
      <4>1. SUFFICES ASSUME t \in InPage PROVE FALSE
        OBVIOUS
      <4>2. t \in Stored /\ tableRevision < page.rows[t].rev /\ page.rows[t].rev <= rows[t].rev
        BY <1>3, <4>1 DEF PageInv
      <4>3. page.rows[t].rev \in Nat /\ rows[t].rev \in Nat
        BY <4>1, <4>2, <2>1 DEF InPage, Page, Row
      <4>4. QED BY <2>3, <4>2, <4>3 DEF Unseen
    <3>2. slot'[t] = slot[t]
      BY <1>3, <3>1 DEF AppliedSlot, InPage
    <3>3. QED BY <1>3, <2>3, <3>2 DEF NoRowSkipped, View
  <2>4. QED BY <2>2, <2>3
<1>7. QED BY <1>1, <1>2, <1>5, <1>6

LEMMA RestartPreserves ==
  ASSUME SyncInv, Restart
  PROVE  SyncInv'
<1> USE DEF SyncInv, TypeOK, DbTypeOK
<1>1. DbInv' /\ UNCHANGED dbVars
  BY DbUnchanged DEF Restart
<1>2. QED
  BY <1>1 DEF Restart, dbVars, NoPage, Page, Behind, PageInv, NoRowSkipped, Running

LEMMA StepPreserves ==
  ASSUME SafePaging, SyncInv, [Next]_vars
  PROVE  SyncInv'
<1>1. CASE Next
  BY <1>1, WritePreserves, PurgePreserves, BootstrapPreserves, ReadRevisionPreserves,
     ReadRowsPreserves, ApplyPreserves, RestartPreserves
  DEF Next, Sync
<1>2. CASE UNCHANGED vars
  BY <1>2
  DEF vars, SyncInv, TypeOK, DbTypeOK, DbInv, RevisionsBounded, RevisionsDistinct, Behind,
      PageInv, NoRowSkipped, Stored, Live, InPage, NextRevision, Unseen, Running, View, Truth
<1>3. QED BY <1>1, <1>2

(* No change is ever skipped, for any set of tokens and any page size, as    *)
(* long as a page can hold the store or every write touches one row.         *)
THEOREM NothingSkipped ==
  ASSUME SafePaging
  PROVE  Spec => [](TypeOK /\ NoRowSkipped)
<1>1. SyncInv /\ [Next]_vars => SyncInv'
  BY StepPreserves
<1>2. SyncInv => TypeOK /\ NoRowSkipped
  BY DEF SyncInv
<1>3. QED BY <1>1, <1>2, InitSync, PTL DEF Spec

-----------------------------------------------------------------------------
(* The index never drifts from the slots, whatever the page sizes: this one  *)
(* needs no assumption on paging.                                            *)
LEMMA AppliedIndexAt ==
  ASSUME TypeOK, IndexMatchesSlots, NEW p \in Pool, NEW t \in Token
  PROVE  t \in AppliedIndex(p) <=> AppliedSlot(t) = [pool |-> p, status |-> "active"]
<1> USE DEF TypeOK
<1>1. t \in modeAvailable[p] <=> slot[t] = [pool |-> p, status |-> "active"]
  BY DEF IndexMatchesSlots
<1>2. page.rows[t] \in Row \cup {NoRow} /\ slot[t] \in Slot \cup {NoSlot}
  BY DEF Page
<1>3. CASE page.rows[t] = NoRow
  BY <1>1, <1>3 DEF AppliedIndex, AppliedSlot, InPage
<1>4. CASE page.rows[t] # NoRow /\ ~page.rows[t].deleted
  <2>1. AppliedSlot(t) = RecordToSlot(page.rows[t])
    BY <1>4 DEF AppliedSlot
  <2>2. slot[t] = [pool |-> p, status |-> "active"] => slot[t] # NoSlot /\ slot[t].pool = p
    <3>1. [pool |-> p, status |-> "active"] \in Slot
      BY DEF Slot, SlotStatus, Status
    <3>2. QED BY <3>1, NoSlotAssumption
  <2>3. t \in modeAvailable[p] => slot[t] # NoSlot /\ slot[t].pool = p
    BY <1>1, <2>2
  <2>4. t \in InPage /\ ~page.rows[t].deleted
    BY <1>4 DEF InPage
  <2>5. t \in AppliedIndex(p) <=>
          RecordToSlot(page.rows[t]) = [pool |-> p, status |-> "active"]
    BY <2>3, <2>4 DEF AppliedIndex
  <2>6. QED BY <2>1, <2>5
<1>5. CASE page.rows[t] # NoRow /\ page.rows[t].deleted
  <2>1. t \in AppliedIndex(p) <=>
          t \in modeAvailable[p] /\ ~(slot[t] # NoSlot /\ slot[t].pool = p)
    BY <1>5 DEF AppliedIndex, InPage
  <2>2. t \notin AppliedIndex(p)
    <3>1. SUFFICES ASSUME t \in AppliedIndex(p) PROVE FALSE
      OBVIOUS
    <3>2. slot[t] = [pool |-> p, status |-> "active"]
      BY <1>1, <2>1, <3>1
    <3>3. slot[t] \in Slot
      BY <3>2 DEF Slot, SlotStatus, Status
    <3>4. QED BY <2>1, <3>1, <3>2, <3>3, NoSlotAssumption
  <2>3. AppliedSlot(t) # [pool |-> p, status |-> "active"]
    <3>1. CASE slot[t] = NoSlot
      <4>1. [pool |-> p, status |-> "active"] \in Slot
        BY DEF Slot, SlotStatus, Status
      <4>2. QED BY <1>5, <3>1, <4>1, NoSlotAssumption DEF AppliedSlot
    <3>2. CASE slot[t] # NoSlot
      <4>1. AppliedSlot(t).status = "deleted"
        BY <1>2, <1>5, <3>2 DEF AppliedSlot, Slot
      <4>2. QED BY <4>1
    <3>3. QED BY <3>1, <3>2
  <2>4. QED BY <2>2, <2>3
<1>6. QED BY <1>3, <1>4, <1>5

LEMMA ApplyIndex ==
  ASSUME TypeOK, IndexMatchesSlots, ApplyPage
  PROVE  IndexMatchesSlots'
<1> SUFFICES ASSUME NEW p \in Pool
             PROVE  modeAvailable'[p] =
                      {t \in Token : slot'[t] = [pool |-> p, status |-> "active"]}
  BY DEF IndexMatchesSlots
<1>1. modeAvailable'[p] = AppliedIndex(p) /\ \A t \in Token : slot'[t] = AppliedSlot(t)
  BY DEF ApplyPage
<1>2. AppliedIndex(p) \subseteq Token
  BY DEF AppliedIndex, InPage, TypeOK
<1>3. QED BY <1>1, <1>2, AppliedIndexAt

LEMMA EmptyIndex ==
  ASSUME slot' = [t \in Token |-> NoSlot], modeAvailable' = [p \in Pool |-> {}]
  PROVE  IndexMatchesSlots'
<1>1. \A p \in Pool : [pool |-> p, status |-> "active"] \in Slot
  BY DEF Slot, SlotStatus, Status
<1>2. QED BY <1>1, NoSlotAssumption DEF IndexMatchesSlots

LEMMA StepIndex ==
  ASSUME TypeOK, IndexMatchesSlots, [Next]_vars
  PROVE  IndexMatchesSlots'
<1>1. CASE ApplyPage
  BY <1>1, ApplyIndex
<1>2. CASE BootstrapRows
  <2>1. \A p \in Pool : [pool |-> p, status |-> "active"] \in Slot
    BY DEF Slot, SlotStatus, Status
  <2>2. Live \subseteq Token
    BY DEF Live, Stored
  <2>3. QED BY <1>2, <2>1, <2>2, NoSlotAssumption DEF BootstrapRows, IndexMatchesSlots
<1>3. CASE Restart
  BY <1>3, EmptyIndex DEF Restart
<1>4. CASE UNCHANGED <<slot, modeAvailable>>
  BY <1>4 DEF IndexMatchesSlots
<1>5. QED
  BY <1>1, <1>2, <1>3, <1>4
  DEF Next, Sync, DbWrite, Purge, BootstrapRevision, ReadRevision, ReadRows, ScanFails,
      tableVars, vars

LEMMA ReadRowsTypes ==
  ASSUME TypeOK, ReadRows
  PROVE  TypeOK'
<1> USE DEF TypeOK, DbTypeOK
<1>1. PICK B \in SUBSET Changed, m \in 0..revision :
        page' = [rows    |-> [t \in Token |-> IF t \in B THEN rows[t] ELSE NoRow],
                 hasMore |-> Cardinality(B) = BatchLimit,
                 max     |-> m]
  BY DEF ReadRows
<1>2. (Cardinality(B) = BatchLimit) \in BOOLEAN
  OBVIOUS
<1>3. [t \in Token |-> IF t \in B THEN rows[t] ELSE NoRow] \in [Token -> Row \cup {NoRow}]
  OBVIOUS
<1>4. page' \in Page
  BY <1>1, <1>2, <1>3 DEF Page
<1>5. QED BY <1>4 DEF ReadRows, dbVars, tableVars

(* The worker keeps the types, whatever the store holds. *)
LEMMA WorkerStepTypes ==
  ASSUME TypeOK, UNCHANGED dbVars,
         \/ BootstrapRevision \/ BootstrapRows \/ ReadRevision \/ ReadRows \/ ApplyPage
         \/ ScanFails \/ Restart \/ UNCHANGED vars
  PROVE  TypeOK'
<1>1. CASE ApplyPage
  BY <1>1, ApplyTypes
<1>2. CASE ReadRows
  BY <1>2, ReadRowsTypes
<1>3. CASE BootstrapRows
  <2>1. Live \subseteq Token /\ \A t \in Live : rows[t] \in Row
    BY DEF TypeOK, DbTypeOK, Live, Stored
  <2>2. \A t \in Live : RecordToSlot(rows[t]) \in Slot
    BY <2>1, SlotOps
  <2>3. size' \in Nat
    BY <1>3, <2>1, CardinalityOfTokens DEF BootstrapRows
  <2>4. QED BY <1>3, <2>1, <2>2, <2>3 DEF BootstrapRows, TypeOK, DbTypeOK, dbVars
<1>4. CASE Restart
  BY <1>4 DEF Restart, NoPage, Page, TypeOK, DbTypeOK, dbVars
<1>5. CASE BootstrapRevision \/ ReadRevision \/ ScanFails \/ UNCHANGED vars
  BY <1>5 DEF BootstrapRevision, ReadRevision, ScanFails, TypeOK, DbTypeOK, dbVars, tableVars, vars
<1>6. QED BY <1>1, <1>2, <1>3, <1>4, <1>5

LEMMA StepType ==
  ASSUME TypeOK, DbInv, [Next]_vars
  PROVE  TypeOK' /\ DbInv'
<1>1. CASE DbWrite
  BY <1>1, WriteEffect DEF DbWrite, DbInv, TypeOK, tableVars, scanVars
<1>2. CASE Purge
  <2>1. DbInv'
    BY <1>2, PurgeEffect DEF Purge
  <2>2. QED BY <1>2, <2>1 DEF Purge, DbInv, TypeOK, tableVars, scanVars
<1>3. CASE UNCHANGED dbVars
  <2>1. DbInv'
    BY <1>3, DbUnchanged
  <2>2. CASE DbWrite \/ Purge
    BY <2>2, <1>1, <1>2
  <2>3. CASE Sync \/ ScanFails \/ Restart \/ UNCHANGED vars
    BY <1>3, <2>1, <2>3, WorkerStepTypes DEF Sync
  <2>4. QED
    BY <2>2, <2>3 DEF Next
<1>4. QED
  BY <1>1, <1>2, <1>3
  DEF Next, Sync, BootstrapRevision, BootstrapRows, ReadRevision, ReadRows, ApplyPage,
      ScanFails, Restart, vars, dbVars

(* Every account a selector may pick is ACTIVE in that pool, and every such  *)
(* account can be picked: with any page size and any writes.                 *)
THEOREM IndexIsExact == Spec => []IndexMatchesSlots
<1>1. Init => TypeOK /\ DbInv /\ IndexMatchesSlots
  <2>1. \A p \in Pool : [pool |-> p, status |-> "active"] \in Slot
    BY DEF Slot, SlotStatus, Status
  <2>2. Init => IndexMatchesSlots
    BY <2>1, NoSlotAssumption DEF Init, EmptyTable, IndexMatchesSlots
  <2>3. QED BY <2>2, InitSync DEF SyncInv
<1>2. TypeOK /\ DbInv /\ IndexMatchesSlots /\ [Next]_vars
        => (TypeOK /\ DbInv /\ IndexMatchesSlots)'
  BY StepType, StepIndex
<1>3. QED BY <1>1, <1>2, PTL DEF Spec

-----------------------------------------------------------------------------
Dirty == IF Running THEN Unseen ELSE Token

LEMMA Values ==
  ASSUME TypeOK
  PROVE  /\ \A t \in Token : Truth(t) \in Slot \cup {Gone} /\ View(t) \in Slot \cup {Gone}
         /\ Dirty \subseteq Token
<1>1. \A t \in Token : Truth(t) \in Slot \cup {Gone}
  BY SlotOps DEF TypeOK, DbTypeOK, Truth, Live, Stored
<1>2. \A t \in Token : View(t) \in Slot \cup {Gone}
  BY DEF TypeOK, View
<1>3. QED BY <1>1, <1>2 DEF Dirty, Unseen, Stored

(* A page changes unseen tokens only, and leaves no more of them. *)
LEMMA ApplyTouchesUnseen ==
  ASSUME SyncInv, ApplyPage
  PROVE  /\ Unseen' \subseteq Unseen
         /\ \A t \in Token \ Unseen : View(t)' = View(t)
<1> USE DEF SyncInv, TypeOK, DbTypeOK
<1>1. \A t \in Stored : rows[t].rev \in Nat
  BY DEF Stored, Row
<1>2. tableRevision' \in Nat /\ tableRevision <= tableRevision'
  BY DEF ApplyPage, NextRevision, Page
<1>3. Unseen' \subseteq Unseen
  BY <1>1, <1>2 DEF ApplyPage, Unseen, Stored, dbVars
<1>4. ASSUME NEW t \in Token \ Unseen
      PROVE  View(t)' = View(t)
  <2>1. t \notin InPage
    <3>1. SUFFICES ASSUME t \in InPage PROVE FALSE
      OBVIOUS
    <3>2. t \in Stored /\ tableRevision < page.rows[t].rev /\ page.rows[t].rev <= rows[t].rev
      BY <3>1 DEF PageInv, ApplyPage
    <3>3. page.rows[t].rev \in Nat /\ rows[t].rev \in Nat
      BY <1>1, <3>1, <3>2 DEF InPage, Page, Row
    <3>4. QED BY <1>4, <3>2, <3>3 DEF Unseen
  <2>2. slot'[t] = slot[t]
    BY <2>1 DEF ApplyPage, AppliedSlot, InPage
  <2>3. QED BY <2>2 DEF View
<1>5. QED BY <1>3, <1>4

(* The three ways a step may look from the outside. *)
LooksLikeWrite ==
  /\ \A t \in Token : View(t)' = View(t)
  /\ Dirty \subseteq Dirty'
  /\ \A t \in Token : Truth(t)' # Truth(t) => t \in Dirty'

LooksLikeDeliver ==
  /\ \A t \in Token : Truth(t)' = Truth(t)
  /\ Dirty' \subseteq Dirty
  /\ \A t \in Token \ Dirty : View(t)' = View(t)
  /\ \A t \in Dirty \ Dirty' : View(t)' = Truth(t)

LooksLikeForget ==
  /\ \A t \in Token : Truth(t)' = Truth(t)
  /\ \A t \in Token : View(t)' = Gone
  /\ Dirty' = Token

LEMMA EffectLooks ==
  ASSUME SyncInv, DbInv', Effect, UNCHANGED <<slot, tableRevision, pc>>
  PROVE  LooksLikeWrite
<1> USE DEF SyncInv
<1>1. /\ revision \in Nat /\ tableRevision \in Nat /\ tableRevision <= revision
      /\ \A t \in Stored : rows[t].rev \in Nat
      /\ \A t \in Stored' : rows'[t].rev \in Nat
  BY DEF DbInv, DbTypeOK, TypeOK, Behind, Stored, Row
<1>2. \A t \in Token : rows'[t] # rows[t] => t \in Unseen'
  BY <1>1 DEF Effect, Unseen, Stored
<1>3. Unseen \subseteq Unseen'
  BY <1>2 DEF Unseen, Stored
<1>4. \A t \in Token : rows'[t] = rows[t] => Truth(t)' = Truth(t)
  BY DEF Truth, Live, Stored
<1>5. \A t \in Token : View(t)' = View(t)
  BY DEF View
<1>6. Running' = Running
  BY DEF Running
<1>7. Unseen' \subseteq Token
  BY DEF Unseen, Stored
<1>8. Dirty \subseteq Dirty' /\ \A t \in Unseen' : t \in Dirty'
  BY <1>3, <1>6, <1>7 DEF Dirty
<1> QED BY <1>2, <1>4, <1>5, <1>8 DEF LooksLikeWrite

LEMMA StepCases ==
  ASSUME SafePaging, SyncInv, SyncInv', [Next]_vars
  PROVE  LooksLikeWrite \/ LooksLikeDeliver \/ LooksLikeForget
<1> USE DEF SyncInv, LooksLikeDeliver, LooksLikeForget
<1>0. /\ \A t \in Token : t \notin Dirty' => View(t)' = Truth(t)'
      /\ Dirty' \subseteq Token /\ Dirty \subseteq Token
  BY DEF Dirty, NoRowSkipped, Unseen, Stored
<1>1. CASE DbWrite
  <2>1. Effect /\ DbInv'
    BY <1>1, WriteEffect DEF DbWrite
  <2>2. UNCHANGED <<slot, tableRevision, pc>>
    BY <1>1 DEF DbWrite, tableVars, scanVars
  <2> QED BY <2>1, <2>2, EffectLooks
<1>2. CASE Purge
  <2>1. PICK S \in SUBSET (Stored \ Live) : PurgeDeletedAccounts(S)
    BY <1>2 DEF Purge
  <2>2. \A t \in Token : rows'[t] = rows[t] \/ (t \in S /\ rows'[t] = NoRow)
    BY <2>1, PurgeEffect
  <2>3. UNCHANGED <<slot, tableRevision, pc>>
    BY <1>2 DEF Purge, tableVars, scanVars
  <2>4. \A t \in Token : Truth(t)' = Truth(t) /\ View(t)' = View(t)
    BY <2>1, <2>2, <2>3 DEF Truth, View, Live, Stored
  <2>5. Dirty' \subseteq Dirty
    BY <2>2, <2>3 DEF Dirty, Running, Unseen, Stored
  <2>6. QED BY <1>0, <2>4, <2>5
<1>3. CASE BootstrapRows
  <2>1. \A t \in Token : Truth(t)' = Truth(t)
    BY <1>3, DbUnchanged DEF BootstrapRows
  <2>2. Dirty = Token
    BY <1>3 DEF BootstrapRows, Dirty, Running
  <2>3. QED BY <1>0, <2>1, <2>2
<1>4. CASE ApplyPage
  <2>1. \A t \in Token : Truth(t)' = Truth(t)
    BY <1>4, DbUnchanged DEF ApplyPage
  <2>2. Dirty = Unseen /\ Dirty' = Unseen'
    BY <1>4 DEF ApplyPage, Dirty, Running
  <2>3. QED BY <1>0, <1>4, <2>1, <2>2, ApplyTouchesUnseen
<1>5. CASE Restart
  <2>1. \A t \in Token : Truth(t)' = Truth(t)
    BY <1>5, DbUnchanged DEF Restart
  <2>2. QED BY <1>5, <2>1 DEF Restart, View, Dirty, Running
<1>6. CASE BootstrapRevision \/ ReadRevision \/ ReadRows \/ ScanFails \/ UNCHANGED vars
  <2>1. UNCHANGED dbVars /\ UNCHANGED <<slot, tableRevision>> /\ Running' = Running
    BY <1>6 DEF BootstrapRevision, ReadRevision, ReadRows, ScanFails, vars, dbVars, tableVars, Running
  <2>2. \A t \in Token : Truth(t)' = Truth(t) /\ View(t)' = View(t)
    BY <2>1, DbUnchanged DEF View
  <2>3. Dirty' = Dirty
    BY <2>1 DEF Dirty, Unseen, Stored, dbVars
  <2>4. QED BY <2>2, <2>3
<1>7. QED
  BY <1>1, <1>2, <1>3, <1>4, <1>5, <1>6 DEF Next, Sync

(* Each of them is a step of the replica. *)
LEMMA LooksAreSteps ==
  ASSUME TypeOK, TypeOK', LooksLikeWrite \/ LooksLikeDeliver \/ LooksLikeForget
  PROVE  Abs!Next
<1>1. /\ \A t \in Token : Truth(t)' \in Slot \cup {Gone}
      /\ \A t \in Token : View(t)' \in Slot \cup {Gone}
      /\ Dirty' \subseteq Token
  <2>1. \A t \in Token : Truth(t)' \in Slot \cup {Gone}
    BY SlotOps DEF TypeOK, DbTypeOK, Truth, Live, Stored
  <2>2. \A t \in Token : View(t)' \in Slot \cup {Gone}
    BY DEF TypeOK, View
  <2>3. QED BY <2>1, <2>2 DEF Dirty, Unseen, Stored
<1>2. CASE LooksLikeWrite
  <2>1. Abs!Write
    BY <1>1, <1>2 DEF LooksLikeWrite, Abs!Write, Dirty
  <2>2. QED BY <2>1 DEF Abs!Next
<1>3. CASE LooksLikeDeliver
  <2>1. Dirty' \subseteq Dirty /\ \A t \in Dirty : t \in Token
    BY <1>3, Values DEF LooksLikeDeliver
  <2>2. [t \in Token |-> View(t)]' \in [Token -> Slot \cup {Gone}]
    BY <1>1
  <2>3. \A k \in Token \ Dirty :
          [t \in Token |-> View(t)]'[k] = [t \in Token |-> View(t)][k]
    BY <1>3 DEF LooksLikeDeliver
  <2>4. \A k \in Dirty \ Dirty' :
          [t \in Token |-> View(t)]'[k] = [t \in Token |-> Truth(t)][k]
    BY <1>3, <2>1 DEF LooksLikeDeliver
  <2>5. [t \in Token |-> Truth(t)]' = [t \in Token |-> Truth(t)]
    BY <1>3 DEF LooksLikeDeliver
  <2>6. Abs!Deliver
    BY <2>1, <2>2, <2>3, <2>4, <2>5 DEF Abs!Deliver, Dirty
  <2>7. QED BY <2>6 DEF Abs!Next
<1>4. CASE LooksLikeForget
  <2>1. Abs!Forget
    BY <1>1, <1>4 DEF LooksLikeForget, Abs!Forget, Dirty
  <2>2. QED BY <2>1 DEF Abs!Next
<1>5. QED BY <1>2, <1>3, <1>4

LEMMA StartsAsReplica == Init => Abs!Init
<1> SUFFICES ASSUME Init PROVE Abs!Init
  OBVIOUS
<1>1. \A t \in Token : Truth(t) = Gone /\ View(t) = Gone
  BY DEF Init, DbInit, EmptyTable, Truth, View, Live, Stored
<1>2. Dirty \in SUBSET Token
  BY InitSync, Values DEF SyncInv
<1>3. QED BY <1>1, <1>2 DEF Abs!Init, Dirty

(* The worker's table is a replica of the repository: it implements the      *)
(* abstract specification for any tokens, page size and write pattern with   *)
(* SafePaging.                                                               *)
THEOREM SyncImplementsReplica ==
  ASSUME SafePaging
  PROVE  Spec => ReplicaSpec
<1>1. Init => Abs!Init
  BY StartsAsReplica
<1>2. SyncInv /\ SyncInv' /\ [Next]_vars => [Abs!Next]_(Abs!rvars)
  BY StepCases, LooksAreSteps DEF SyncInv
<1>3. SyncInv /\ [Next]_vars => SyncInv'
  BY StepPreserves
<1>4. QED
  BY <1>1, <1>2, <1>3, InitSync, PTL DEF Spec, ReplicaSpec, Abs!Spec

(* A step that moves neither the rows nor the table looks like a delivery. *)
QuietScan == UNCHANGED <<rows, slot, tableRevision, Running>>

LEMMA QuietScanDelivers ==
  ASSUME QuietScan
  PROVE  LooksLikeDeliver
<1>1. \A t \in Token : Truth(t)' = Truth(t) /\ View(t)' = View(t)
  BY DEF QuietScan, Truth, View, Live, Stored
<1>2. Dirty' = Dirty
  BY DEF QuietScan, Dirty, Unseen, Stored
<1> QED BY <1>1, <1>2 DEF LooksLikeDeliver

-----------------------------------------------------------------------------
(* The Redis store *)

(* A step of a writer that leaves the store alone. *)
QuietWrite == UNCHANGED <<dbVars, tableVars, scanVars, restarts, fetch>>

(* What is left of a write when it is done with a token. *)
LEMMA FinishIs ==
  ASSUME NEW w \in Writer, writer[w] \in Working, NEW T \in SUBSET Token
  PROVE  /\ T = {} => Finish(w, T) = Idle
         /\ T # {} => /\ Finish(w, T) \in Working /\ Finish(w, T) # Idle
                      /\ Finish(w, T).todo = T /\ Finish(w, T).step = "read"
                      /\ Finish(w, T).rev = writer[w].rev /\ Finish(w, T).op = writer[w].op
<1> DEFINE wr == [writer[w] EXCEPT !.todo = T, !.token = NoToken, !.read = NoRow, !.step = "read"]
<1>1. /\ wr \in Working /\ wr.todo = T /\ wr.step = "read" /\ wr.rev = writer[w].rev
      /\ wr.op = writer[w].op
  BY DEF Working
<1> HIDE DEF wr
<1>2. Finish(w, T) = IF T = {} THEN Idle ELSE wr
  BY DEF Finish, wr
<1> QED BY <1>1, <1>2, IdleAssumption

(* What is written is a row at the revision of the write. *)
LEMMA WrittenIsRow ==
  ASSUME NEW w \in Writer, writer[w] \in Working, NEW now \in Row \cup {NoRow},
         writer[w].op # "upsert" => now # NoRow /\ writer[w].read # NoRow
  PROVE  LET row == WrittenRow(w, now)
         IN  row \in Row /\ row # NoRow /\ row.rev = writer[w].rev
<1> DEFINE wr == writer[w]
<1>1. /\ wr.rev \in Nat /\ wr.pool \in Pool /\ wr.op \in Op /\ wr.read \in Row \cup {NoRow}
      /\ wr.op # "upsert" => now \in Row /\ wr.read \in Row
  BY DEF Working
<1>2. CASE wr.op = "upsert"
  <2>1. /\ UpsertedRow(wr.read, wr.pool, wr.rev) \in Row
        /\ UpsertedRow(wr.read, wr.pool, wr.rev).rev = wr.rev
    BY <1>1, UpsertOps
  <2> QED BY <1>2, <2>1, NoRowAssumption DEF WrittenRow
<1>3. CASE wr.op = "delete"
  <2>1. DeletedRow(now, wr.rev) \in Row /\ DeletedRow(now, wr.rev).rev = wr.rev
    BY <1>1, <1>3, DeleteOps
  <2> QED BY <1>3, <2>1, NoRowAssumption DEF WrittenRow
<1>4. CASE wr.op \notin {"upsert", "delete"}
  <2>1. now \in Row /\ wr.read \in Row /\ wr.op \in PatchKind
    BY <1>1, <1>4 DEF Op
  <2>2. /\ PatchedStatus(now.status, wr.op) \in Status
        /\ PatchedRow(wr.read, wr.op, wr.rev).timed \in BOOLEAN
    BY <1>1, <2>1, PatchOps DEF Row, PatchedStatus, Status
  <2>3. WrittenRow(w, now) = [now EXCEPT !.status = PatchedStatus(@, wr.op),
                                         !.timed  = PatchedRow(wr.read, wr.op, wr.rev).timed,
                                         !.rev    = wr.rev]
    BY <1>4 DEF WrittenRow
  <2> QED BY <1>1, <2>1, <2>2, <2>3, NoRowAssumption DEF Row
<1> QED BY <1>2, <1>3, <1>4
-----------------------------------------------------------------------------
(* What holds whatever writes and scans do to each other.                    *)
HashIsThere ==
  \A w \in Busy :
    /\ writer[w].step # "read" => writer[w].token \in writer[w].todo
    /\ (writer[w].step = "hset" /\ writer[w].op # "upsert") =>
         rows[writer[w].token] # NoRow /\ writer[w].read # NoRow
    /\ writer[w].step = "zadd" => rows[writer[w].token] # NoRow

RaceInv == RedisTypeOK /\ HashIsThere /\ IndexMatchesSlots

(* A writer turns to a record that is at its first step or fits the hash,    *)
(* and no hash goes.                                                         *)
LEMMA TurnTypes ==
  ASSUME RaceInv, NEW w \in Writer, NEW new \in Working \cup {Idle},
         writer' = [writer EXCEPT ![w] = new],
         \A t \in Token : rows[t] # NoRow => rows'[t] # NoRow,
         new # Idle => /\ new.step # "read" => new.token \in new.todo
                       /\ (new.step = "hset" /\ new.op # "upsert") =>
                            rows'[new.token] # NoRow /\ new.read # NoRow
                       /\ new.step = "zadd" => rows'[new.token] # NoRow
  PROVE  writer' \in [Writer -> Working \cup {Idle}] /\ HashIsThere'
<1>1. writer' \in [Writer -> Working \cup {Idle}]
  BY DEF RaceInv, RedisTypeOK
<1>2. \A v \in Writer : writer'[v] = IF v = w THEN new ELSE writer[v]
  BY DEF RaceInv, RedisTypeOK
<1>3. \A v \in Busy' : v # w => v \in Busy /\ writer'[v] = writer[v]
  BY <1>2 DEF Busy
<1>4. w \in Busy' => new # Idle /\ writer'[w] = new
  BY <1>2 DEF Busy
<1>5. Busy' \subseteq Writer
  BY DEF Busy
<1>6. ASSUME NEW v \in Busy', v # w
      PROVE  /\ writer'[v].step # "read" => writer'[v].token \in writer'[v].todo
             /\ (writer'[v].step = "hset" /\ writer'[v].op # "upsert") =>
                  rows'[writer'[v].token] # NoRow /\ writer'[v].read # NoRow
             /\ writer'[v].step = "zadd" => rows'[writer'[v].token] # NoRow
  <2>1. v \in Busy /\ writer'[v] = writer[v] /\ writer[v] \in Working
    BY <1>3, <1>6 DEF RaceInv, RedisTypeOK, Busy
  <2>2. writer[v].todo \subseteq Token
    BY <2>1 DEF Working
  <2> QED BY <2>1, <2>2 DEF RaceInv, HashIsThere
<1> QED BY <1>1, <1>4, <1>6 DEF HashIsThere

LEMMA QuietTypes ==
  ASSUME RaceInv, QuietWrite
  PROVE  TypeOK' /\ fetch' \in SUBSET Token /\ IndexMatchesSlots' /\ UNCHANGED rows
<1>1. UNCHANGED <<rows, revision, slot, modeAvailable, size, tableRevision, pc, scanRevision, page,
                  restarts, fetch>>
  BY DEF QuietWrite, dbVars, tableVars, scanVars
<1> QED BY <1>1 DEF RaceInv, RedisTypeOK, TypeOK, DbTypeOK, IndexMatchesSlots

LEMMA WriterTypes ==
  ASSUME RaceInv, NEW w \in Writer,
         \/ \E p \in Pool, S \in SmallWrites, k \in Op : Begin(w, k, p, S)
         \/ ReadHash(w) \/ AppendLog(w) \/ WriterDies(w)
  PROVE  RaceInv'
<1>1. CASE \E p \in Pool, S \in SmallWrites, k \in Op : Begin(w, k, p, S)
  <2>1. PICK p \in Pool, S \in SmallWrites, k \in Op : Begin(w, k, p, S)
    BY <1>1
  <2> DEFINE begun == [op |-> k, pool |-> p, rev |-> revision + 1, todo |-> S,
                       token |-> NoToken, read |-> NoRow, step |-> "read"]
  <2>2. begun \in Working /\ begun.step = "read"
    BY DEF Working, SmallWrites, RaceInv, RedisTypeOK, TypeOK, DbTypeOK
  <2>3. /\ writer' = [writer EXCEPT ![w] = begun] /\ revision' = revision + 1
        /\ UNCHANGED <<rows, slot, modeAvailable, size, tableRevision, pc, scanRevision, page,
                       restarts, log, fetch, torn>>
    BY <2>1 DEF Begin, tableVars, scanVars
  <2> HIDE DEF begun
  <2>4. PICK new \in Working \cup {Idle} : new = begun
    BY <2>2
  <2>5. writer' \in [Writer -> Working \cup {Idle}] /\ HashIsThere'
    <3>1. writer' = [writer EXCEPT ![w] = new] /\ new.step = "read"
      BY <2>2, <2>3, <2>4
    <3> QED BY <2>3, <3>1, TurnTypes
  <2> QED BY <2>3, <2>5 DEF RaceInv, RedisTypeOK, TypeOK, DbTypeOK, IndexMatchesSlots
<1>2. CASE ReadHash(w)
  <2>1. /\ writer[w] # Idle /\ QuietWrite /\ UNCHANGED <<log, torn>>
        /\ \E t \in writer[w].todo :
             writer' = [writer EXCEPT ![w] =
               IF Skips(w, t) THEN Finish(w, writer[w].todo \ {t})
               ELSE [writer[w] EXCEPT !.token = t, !.read = rows[t], !.step = "hset"]]
    BY <1>2 DEF ReadHash, QuietWrite
  <2>2. PICK t \in writer[w].todo :
          writer' = [writer EXCEPT ![w] =
            IF Skips(w, t) THEN Finish(w, writer[w].todo \ {t})
            ELSE [writer[w] EXCEPT !.token = t, !.read = rows[t], !.step = "hset"]]
    BY <2>1
  <2>3. writer[w] \in Working /\ writer[w].todo \in SUBSET Token /\ t \in Token
    BY <2>1 DEF RaceInv, RedisTypeOK, Working
  <2> DEFINE read == [writer[w] EXCEPT !.token = t, !.read = rows[t], !.step = "hset"]
             T    == writer[w].todo \ {t}
  <2>4. /\ read \in Working /\ read.token = t /\ read.op = writer[w].op
        /\ read.read = rows[t] /\ read.todo = writer[w].todo /\ read.step = "hset"
    BY <2>3 DEF Working, RaceInv, RedisTypeOK, TypeOK, DbTypeOK
  <2>5. ~Skips(w, t) => writer[w].op = "upsert" \/ rows[t] # NoRow
    BY <2>3 DEF Skips, Working, Op, Live, Stored
  <2>6. PICK new \in Working \cup {Idle} : new = IF Skips(w, t) THEN Finish(w, T) ELSE read
    <3>1. Finish(w, T) \in Working \cup {Idle}
      BY <2>3, FinishIs
    <3> HIDE DEF read, T
    <3> QED BY <2>4, <3>1
  <2>7. writer' = [writer EXCEPT ![w] = new]
    BY <2>2, <2>6
  <2>8. new # Idle => /\ new.step # "read" => new.token \in new.todo
                      /\ (new.step = "hset" /\ new.op # "upsert") =>
                           rows[new.token] # NoRow /\ new.read # NoRow
                      /\ new.step # "zadd"
    <3>1. CASE Skips(w, t)
      <4>1. T \in SUBSET Token /\ new = Finish(w, T)
        BY <2>3, <2>6, <3>1
      <4> HIDE DEF T
      <4> QED BY <2>3, <4>1, FinishIs
    <3>2. CASE ~Skips(w, t)
      <4> HIDE DEF read
      <4> QED BY <2>3, <2>4, <2>5, <2>6, <3>2
    <3> QED BY <3>1, <3>2
  <2> QED BY <2>1, <2>7, <2>8, QuietTypes, TurnTypes DEF RaceInv, RedisTypeOK
<1>3. CASE AppendLog(w)
  <2>1. /\ writer[w] # Idle /\ writer[w].step = "zadd" /\ QuietWrite
        /\ log' = [log EXCEPT ![writer[w].token] = writer[w].rev]
        /\ writer' = [writer EXCEPT ![w] = Finish(w, writer[w].todo \ {writer[w].token})]
        /\ torn' = TornBy(writer[w])
    BY <1>3 DEF AppendLog, QuietWrite
  <2>2. /\ writer[w] \in Working /\ writer[w].rev \in Nat
        /\ writer[w].todo \ {writer[w].token} \in SUBSET Token
    BY <2>1 DEF RaceInv, RedisTypeOK, Working
  <2>3. log' \in [Token -> Nat] /\ torn' \in SUBSET Token
    <3>1. writer[w].token \in Token
      BY <2>1, <2>2 DEF RaceInv, HashIsThere, Busy, Working
    <3> QED BY <2>1, <2>2, <3>1 DEF RaceInv, RedisTypeOK, TornBy
  <2>4. PICK T \in SUBSET Token : T = writer[w].todo \ {writer[w].token}
    BY <2>2
  <2>5. PICK new \in Working \cup {Idle} : new = Finish(w, T)
    BY <2>2, FinishIs
  <2>6. writer' = [writer EXCEPT ![w] = new] /\ (new # Idle => new.step = "read")
    BY <2>1, <2>2, <2>4, <2>5, FinishIs
  <2> QED BY <2>1, <2>3, <2>6, QuietTypes, TurnTypes DEF RaceInv, RedisTypeOK
<1>4. CASE WriterDies(w)
  <2>1. /\ QuietWrite /\ UNCHANGED log /\ writer' = [writer EXCEPT ![w] = Idle]
        /\ torn' = IF writer[w].step = "zadd" THEN torn \cup {writer[w].token} ELSE torn
        /\ writer[w] # Idle
    BY <1>4 DEF WriterDies, QuietWrite
  <2>2. torn' \in SUBSET Token
    <3>1. writer[w] \in Working /\ w \in Busy
      BY <2>1 DEF RaceInv, RedisTypeOK, Busy
    <3>2. writer[w].step = "zadd" => writer[w].token \in Token
      BY <3>1 DEF RaceInv, HashIsThere, Working
    <3> QED BY <2>1, <3>2 DEF RaceInv, RedisTypeOK
  <2> QED BY <2>1, <2>2, QuietTypes, TurnTypes DEF RaceInv, RedisTypeOK
<1> QED BY <1>1, <1>2, <1>3, <1>4

LEMMA WriteHashTypes ==
  ASSUME RaceInv, NEW w \in Writer, WriteHash(w)
  PROVE  RaceInv'
<1>1. /\ writer[w] # Idle /\ writer[w].step = "hset"
      /\ writer' = [writer EXCEPT ![w].step = "zadd"]
      /\ rows' = [rows EXCEPT ![writer[w].token] = WrittenRow(w, rows[writer[w].token])]
      /\ UNCHANGED <<revision, slot, modeAvailable, size, tableRevision, pc, scanRevision, page,
                     restarts, log, fetch, torn>>
  BY DEF WriteHash, tableVars, scanVars
<1>2. /\ writer[w] \in Working /\ writer[w].token \in writer[w].todo
      /\ writer[w].todo \subseteq Token
      /\ writer[w].op # "upsert" => rows[writer[w].token] # NoRow /\ writer[w].read # NoRow
  BY <1>1 DEF RaceInv, RedisTypeOK, HashIsThere, Busy, Working
<1>3. PICK a \in Token : a = writer[w].token
  BY <1>2
<1>4. PICK row \in Row : row = WrittenRow(w, rows[a]) /\ row # NoRow
  <2>1. rows[a] \in Row \cup {NoRow}
    BY DEF RaceInv, RedisTypeOK, TypeOK, DbTypeOK
  <2> QED BY <1>2, <1>3, <2>1, WrittenIsRow
<1>5. rows' = [rows EXCEPT ![a] = row] /\ rows' \in [Token -> Row \cup {NoRow}]
  BY <1>1, <1>3, <1>4 DEF RaceInv, RedisTypeOK, TypeOK, DbTypeOK
<1> DEFINE written == [writer[w] EXCEPT !.step = "zadd"]
<1>6. /\ written \in Working /\ written.step = "zadd" /\ written.token = a
      /\ written.todo = writer[w].todo
  BY <1>2, <1>3 DEF Working
<1>7. writer' = [writer EXCEPT ![w] = written]
  BY <1>1
<1> HIDE DEF written
<1>8. PICK new \in Working \cup {Idle} : new = written
  BY <1>6
<1>9. /\ writer' = [writer EXCEPT ![w] = new]
      /\ \A t \in Token : rows[t] # NoRow => rows'[t] # NoRow
      /\ new.step = "zadd" /\ new.token \in new.todo /\ rows'[new.token] # NoRow
  BY <1>2, <1>3, <1>4, <1>5, <1>6, <1>7, <1>8 DEF RaceInv, RedisTypeOK, TypeOK, DbTypeOK
<1>10. writer' \in [Writer -> Working \cup {Idle}] /\ HashIsThere'
  BY <1>9, TurnTypes
<1> QED BY <1>1, <1>5, <1>10 DEF RaceInv, RedisTypeOK, TypeOK, DbTypeOK, IndexMatchesSlots

(* The worker's steps: the reads fill a page of rows, and how the page is    *)
(* applied is known from the first part.                                      *)
LEMMA WorkerTypes ==
  ASSUME RaceInv, UNCHANGED <<rows, writer>>, log' = log, fetch' \in SUBSET Token, TypeOK',
         torn' \in SUBSET Token, IndexMatchesSlots'
  PROVE  RaceInv'
BY DEF RaceInv, RedisTypeOK, HashIsThere, Busy

LEMMA RaceStep ==
  ASSUME RaceInv, [RedisNext]_allVars
  PROVE  RaceInv'
<1> USE DEF RaceInv
<1>1. ASSUME NEW w \in Writer,
             \/ \E p \in Pool, S \in SmallWrites, k \in Op : Begin(w, k, p, S)
             \/ ReadHash(w) \/ WriteHash(w) \/ AppendLog(w) \/ WriterDies(w)
      PROVE  RaceInv'
  BY <1>1, WriterTypes, WriteHashTypes
<1>2. CASE RedisBootstrapRevision \/ RedisReadRevision \/ RedisBootstrapRows \/ RedisApplyPage
           \/ RedisRestart
  <2>1. /\ (BootstrapRevision \/ ReadRevision \/ BootstrapRows \/ ApplyPage \/ Restart)
        /\ UNCHANGED <<rows, revision, writer, log>> /\ fetch' \in SUBSET Token
        /\ UNCHANGED dbVars /\ torn' \in SUBSET Token
    BY <1>2 DEF RedisBootstrapRevision, RedisReadRevision, RedisBootstrapRows, RedisApplyPage,
                RedisRestart, BootstrapRevision, ReadRevision, BootstrapRows, ApplyPage, Restart,
                redisVars, dbVars, RedisTypeOK
  <2>2. TypeOK /\ Next
    BY <2>1 DEF RedisTypeOK, Next, Sync
  <2>3. IndexMatchesSlots'
    BY <2>2, StepIndex
  <2>4. TypeOK'
    BY <2>1, <2>2, WorkerStepTypes
  <2> QED BY <2>1, <2>3, <2>4, WorkerTypes
<1>3. CASE ReadLog
  <2>1. /\ UNCHANGED <<rows, revision, slot, modeAvailable, size, tableRevision, scanRevision,
                       restarts, log, writer, torn>>
        /\ pc' = "page"
        /\ \E B \in SUBSET Logged, m \in 0..revision :
             /\ fetch' = B
             /\ page' = [rows    |-> [t \in Token |-> NoRow],
                         hasMore |-> Cardinality(B) = BatchLimit,
                         max     |-> m]
    BY <1>3 DEF ReadLog, dbVars, tableVars
  <2>2. PICK B \in SUBSET Logged, m \in 0..revision :
          /\ fetch' = B
          /\ page' = [rows    |-> [t \in Token |-> NoRow],
                      hasMore |-> Cardinality(B) = BatchLimit,
                      max     |-> m]
    BY <2>1
  <2>3. page' \in Page /\ fetch' \in SUBSET Token
    <3>1. (Cardinality(B) = BatchLimit) \in BOOLEAN /\ m \in Nat
      BY DEF RedisTypeOK, TypeOK, DbTypeOK
    <3>2. [t \in Token |-> NoRow] \in [Token -> Row \cup {NoRow}]
      OBVIOUS
    <3> QED BY <2>2, <3>1, <3>2 DEF Page, Logged
  <2>4. TypeOK' /\ IndexMatchesSlots'
    BY <2>1, <2>3 DEF RedisTypeOK, TypeOK, DbTypeOK, IndexMatchesSlots
  <2> QED BY <2>1, <2>3, <2>4, WorkerTypes DEF RedisTypeOK
<1>4. CASE FetchHash
  <2>1. PICK a \in fetch : fetch' = fetch \ {a} /\ page' = [page EXCEPT !.rows[a] = rows[a]]
    BY <1>4 DEF FetchHash
  <2>2. UNCHANGED <<rows, revision, slot, modeAvailable, size, tableRevision, pc, scanRevision,
                    restarts, log, writer, torn>>
    BY <1>4 DEF FetchHash, dbVars, tableVars
  <2>3. page' \in Page /\ fetch' \in SUBSET Token
    BY <2>1 DEF RedisTypeOK, TypeOK, DbTypeOK, Page
  <2>4. TypeOK' /\ IndexMatchesSlots'
    BY <2>2, <2>3 DEF RedisTypeOK, TypeOK, DbTypeOK, IndexMatchesSlots
  <2> QED BY <2>2, <2>3, <2>4, WorkerTypes DEF RedisTypeOK
<1>5. CASE UNCHANGED allVars
  <2>1. UNCHANGED <<rows, revision, slot, modeAvailable, size, tableRevision, pc, scanRevision,
                    page, restarts, log, writer, fetch, torn>>
    BY <1>5 DEF allVars, vars
  <2>2. TypeOK' /\ IndexMatchesSlots'
    BY <2>1 DEF RedisTypeOK, TypeOK, DbTypeOK, IndexMatchesSlots
  <2> QED BY <2>1, <2>2, WorkerTypes DEF RedisTypeOK
<1> QED BY <1>1, <1>2, <1>3, <1>4, <1>5 DEF RedisNext, Op

LEMMA RaceStarts == RedisInit => RaceInv
<1> SUFFICES ASSUME RedisInit PROVE RaceInv
  OBVIOUS
<1>1. TypeOK /\ IndexMatchesSlots
  <2>1. \A p \in Pool : [pool |-> p, status |-> "active"] \in Slot
    BY DEF Slot, SlotStatus, Status
  <2>2. IndexMatchesSlots
    BY <2>1, NoSlotAssumption DEF RedisInit, Init, EmptyTable, IndexMatchesSlots
  <2> QED BY <2>2, InitSync DEF RedisInit, SyncInv
<1> QED BY <1>1 DEF RedisInit, RaceInv, RedisTypeOK, HashIsThere, Busy

(* However writes, scans and deaths of writers interleave on Redis: every    *)
(* account a selector may pick is ACTIVE in that pool, and every such        *)
(* account can be picked (table.py, mode_available).                         *)
THEOREM RedisIndexIsExact == RedisSpec => [](RedisTypeOK /\ IndexMatchesSlots)
<1>1. RedisInit => RaceInv
  BY RaceStarts
<1>2. RaceInv /\ [RedisNext]_allVars => RaceInv'
  BY RaceStep
<1>3. RaceInv => RedisTypeOK /\ IndexMatchesSlots
  BY DEF RaceInv
<1> QED BY <1>1, <1>2, <1>3, PTL DEF RedisSpec

-----------------------------------------------------------------------------
(* What a scan can miss *)
(* What a table may know: no revision above the store's.                     *)
RevisionsFit ==
  /\ tableRevision <= revision /\ scanRevision <= revision
  /\ pc = "page" => NextRevision <= revision
  /\ \A t \in Token : log[t] <= revision /\ (rows[t] = NoRow => log[t] = 0)
  /\ \A w \in Busy : 0 < writer[w].rev /\ writer[w].rev <= revision

(* Where a write is of one row, a revision is of one token, so that a page   *)
(* is cut between two revisions.                                             *)
ScoresDistinct ==
  ~WholePages /\ MaxBulk = 1 =>
    /\ \A w \in Busy : \A t, u \in writer[w].todo : t = u
    /\ \A w \in Busy, t \in Token : log[t] # writer[w].rev
    /\ \A v, w \in Busy : v # w => writer[v].rev # writer[w].rev
    /\ \A t, u \in Token : t # u /\ log[t] = log[u] => log[t] = 0

(* The page in hand will bring the table to its target without a row missed: *)
(* each of its hashes is read or still to be read, and what it does not have *)
(* is in the table.                                                          *)
Settled(t) == IF t \in InPage THEN page.rows[t] = rows[t] ELSE View(t) = Truth(t)

PageTears ==
  pc = "page" =>
    /\ \A t \in fetch : rows[t] # NoRow
    /\ \A t \in Token \ (torn \cup Unlogged) : log[t] > Target \/ t \in fetch \/ Settled(t)

TornInv == RaceInv /\ RevisionsFit /\ ScoresDistinct /\ PageTears /\ OnlyTornMissed

LEMMA RedisNumbers ==
  ASSUME RaceInv
  PROVE  /\ revision \in Nat /\ tableRevision \in Nat /\ scanRevision \in Nat
         /\ NextRevision \in Nat /\ Target \in Nat /\ tableRevision <= Target
         /\ \A t \in Token : log[t] \in Nat
         /\ \A w \in Busy : /\ writer[w] \in Working /\ writer[w].rev \in Nat
                            /\ writer[w].todo \subseteq Token
                            /\ writer[w].step # "read" =>
                                 writer[w].token \in Token /\ writer[w].token \in writer[w].todo
<1>1. /\ revision \in Nat /\ tableRevision \in Nat /\ scanRevision \in Nat
      /\ NextRevision \in Nat /\ \A t \in Token : log[t] \in Nat
  BY DEF RaceInv, RedisTypeOK, TypeOK, DbTypeOK, NextRevision, Page
<1>2. Target \in Nat /\ tableRevision <= Target
  BY <1>1 DEF Target
<1>3. ASSUME NEW w \in Busy
      PROVE  /\ writer[w] \in Working /\ writer[w].rev \in Nat
             /\ writer[w].todo \subseteq Token
             /\ writer[w].step # "read" =>
                  writer[w].token \in Token /\ writer[w].token \in writer[w].todo
  <2>1. writer[w] \in Working
    BY DEF RaceInv, RedisTypeOK, Busy
  <2>2. writer[w].rev \in Nat /\ writer[w].todo \subseteq Token
    BY <2>1 DEF Working
  <2> QED BY <2>1, <2>2 DEF RaceInv, HashIsThere
<1> QED BY <1>1, <1>2, <1>3

(* What the turn of one writer makes of the others and of what is written    *)
(* and not yet in the log.                                                   *)
LEMMA TurnBusy ==
  ASSUME RaceInv, NEW w \in Writer, NEW new \in Working \cup {Idle},
         writer' = [writer EXCEPT ![w] = new]
  PROVE  /\ \A v \in Busy' : v # w => v \in Busy /\ writer'[v] = writer[v]
         /\ \A v \in Busy : v # w => v \in Busy'
         /\ w \in Busy' <=> new # Idle
         /\ writer'[w] = new
         /\ \A t \in Unlogged : \/ t \in Unlogged'
                                \/ w \in Busy /\ writer[w].step = "zadd" /\ writer[w].token = t
<1>1. \A v \in Writer : writer'[v] = IF v = w THEN new ELSE writer[v]
  BY DEF RaceInv, RedisTypeOK
<1>2. /\ \A v \in Busy' : v # w => v \in Busy /\ writer'[v] = writer[v]
      /\ \A v \in Busy : v # w => v \in Busy'
      /\ w \in Busy' <=> new # Idle
      /\ writer'[w] = new
  BY <1>1 DEF Busy
<1>3. \A v \in Busy : v \in Writer
  BY DEF Busy
<1>4. ASSUME NEW t \in Unlogged
      PROVE  \/ t \in Unlogged'
             \/ w \in Busy /\ writer[w].step = "zadd" /\ writer[w].token = t
  <2>1. PICK v \in Busy : writer[v].step = "zadd" /\ writer[v].token = t
    BY DEF Unlogged
  <2>2. CASE v = w
    BY <2>1, <2>2
  <2>3. CASE v # w
    <3>1. v \in Busy' /\ writer'[v] = writer[v]
      BY <1>1, <1>2, <1>3, <2>3
    <3> QED BY <2>1, <3>1 DEF Unlogged
  <2> QED BY <2>2, <2>3
<1> QED BY <1>2, <1>4

(* A step of a writer tears no page, if the rows it disturbs are above the   *)
(* target, torn, or written and not yet in the log.                          *)
LEMMA TearsStill ==
  ASSUME TornInv, UNCHANGED <<slot, tableRevision, pc, page, scanRevision, fetch>>,
         \A t \in Token : rows[t] # NoRow => rows'[t] # NoRow,
         \A t \in Token : t \notin torn' /\ t \notin Unlogged' =>
           \/ log'[t] > Target
           \/ /\ t \notin torn /\ t \notin Unlogged
              /\ log'[t] = log[t] /\ rows'[t] = rows[t],
         \A t \in Token : log'[t] \in Nat
  PROVE  PageTears' /\ OnlyTornMissed'
<1>1. /\ Target' = Target /\ InPage' = InPage /\ Running' = Running
      /\ \A t \in Token : View(t)' = View(t)
      /\ \A t \in Token : rows'[t] = rows[t] => Truth(t)' = Truth(t)
  BY DEF Target, NextRevision, InPage, Running, View, Truth, Live, Stored
<1>2. Target \in Nat /\ tableRevision \in Nat /\ tableRevision <= Target
  BY RedisNumbers DEF TornInv
<1>3. OnlyTornMissed'
  <2> SUFFICES ASSUME Running', NEW t \in Token, t \notin torn', t \notin Unlogged'
               PROVE  log'[t] > tableRevision' \/ View(t)' = Truth(t)'
    BY DEF OnlyTornMissed
  <2>1. CASE log'[t] > Target
    BY <1>2, <2>1
  <2>2. CASE t \notin torn /\ t \notin Unlogged /\ log'[t] = log[t] /\ rows'[t] = rows[t]
    BY <1>1, <2>2 DEF TornInv, OnlyTornMissed
  <2> QED BY <2>1, <2>2
<1>4. ASSUME pc = "page"
      PROVE  /\ \A t \in fetch' : rows'[t] # NoRow
             /\ \A t \in Token \ (torn' \cup Unlogged') :
                  log'[t] > Target' \/ t \in fetch' \/ Settled(t)'
  <2>1. \A t \in fetch : t \in Token
    BY DEF TornInv, RaceInv, RedisTypeOK
  <2>2. \A t \in fetch' : rows'[t] # NoRow
    BY <1>4, <2>1 DEF TornInv, PageTears
  <2>3. ASSUME NEW t \in Token, t \notin torn', t \notin Unlogged'
        PROVE  log'[t] > Target' \/ t \in fetch' \/ Settled(t)'
    <3>1. CASE log'[t] > Target
      BY <1>1, <3>1
    <3>2. CASE t \notin torn /\ t \notin Unlogged /\ log'[t] = log[t] /\ rows'[t] = rows[t]
      <4>1. log[t] > Target \/ t \in fetch \/ Settled(t)
        BY <1>4, <3>2 DEF TornInv, PageTears
      <4>2. Settled(t)' <=> Settled(t)
        BY <1>1, <3>2 DEF Settled
      <4> QED BY <1>1, <3>2, <4>1, <4>2
    <3> QED BY <2>3, <3>1, <3>2
  <2> QED BY <2>2, <2>3
<1> QED BY <1>3, <1>4 DEF PageTears

(* The numbers of a turn that leaves the log alone and keeps the revision of *)
(* the write.                                                                *)
LEMMA NumbersStill ==
  ASSUME TornInv, UNCHANGED <<revision, log, tableRevision, pc, page, scanRevision>>,
         \A t \in Token : rows[t] # NoRow => rows'[t] # NoRow,
         NEW w \in Busy, NEW new \in Working \cup {Idle}, writer' = [writer EXCEPT ![w] = new],
         new # Idle => new.rev = writer[w].rev /\ new.todo \subseteq writer[w].todo
  PROVE  RevisionsFit' /\ ScoresDistinct'
<1>1. w \in Writer /\ RaceInv
  BY DEF Busy, TornInv
<1>2. /\ \A v \in Busy' : v # w => v \in Busy /\ writer'[v] = writer[v]
      /\ w \in Busy' <=> new # Idle
      /\ writer'[w] = new
  BY <1>1, TurnBusy
<1>3. \A v \in Busy' : /\ v \in Busy /\ writer'[v].rev = writer[v].rev
                       /\ writer'[v].todo \subseteq writer[v].todo
  BY <1>2
<1>4. NextRevision' = NextRevision
  BY DEF NextRevision
<1>5. RevisionsFit'
  BY <1>3, <1>4 DEF TornInv, RevisionsFit
<1>6. ScoresDistinct'
  <2> SUFFICES ASSUME ~WholePages, MaxBulk = 1
               PROVE  /\ \A v \in Busy' : \A t, u \in writer'[v].todo : t = u
                      /\ \A v \in Busy', t \in Token : log'[t] # writer'[v].rev
                      /\ \A v, x \in Busy' : v # x => writer'[v].rev # writer'[x].rev
                      /\ \A t, u \in Token : t # u /\ log'[t] = log'[u] => log'[t] = 0
    BY DEF ScoresDistinct, WholePages
  <2> QED BY <1>3 DEF TornInv, ScoresDistinct
<1> QED BY <1>5, <1>6

LEMMA BeginTears ==
  ASSUME TornInv, NEW w \in Writer, NEW op \in Op, NEW p \in Pool, NEW S \in SmallWrites,
         Begin(w, op, p, S)
  PROVE  RevisionsFit' /\ ScoresDistinct' /\ PageTears' /\ OnlyTornMissed'
<1> DEFINE begun == [op |-> op, pool |-> p, rev |-> revision + 1, todo |-> S,
                     token |-> NoToken, read |-> NoRow, step |-> "read"]
<1>1. /\ writer[w] = Idle /\ writer' = [writer EXCEPT ![w] = begun] /\ revision' = revision + 1
      /\ UNCHANGED <<rows, slot, modeAvailable, size, tableRevision, pc, scanRevision, page,
                     restarts, log, fetch, torn>>
  BY DEF Begin, tableVars, scanVars
<1>2. revision \in Nat /\ RaceInv
  BY RedisNumbers DEF TornInv
<1>3. begun \in Working /\ begun.rev = revision + 1 /\ begun.todo = S
  BY <1>2 DEF Working, SmallWrites
<1> HIDE DEF begun
<1>4. PICK new \in Working \cup {Idle} : new = begun
  BY <1>3
<1>5. /\ \A v \in Busy' : v # w => v \in Busy /\ writer'[v] = writer[v]
      /\ writer'[w] = new /\ \A t \in Unlogged : t \in Unlogged'
  <2>1. w \notin Busy
    BY <1>1 DEF Busy
  <2> QED BY <1>1, <1>2, <1>4, <2>1, TurnBusy
<1>6. \A v \in Busy' : v # w => v \in Busy /\ writer'[v].rev = writer[v].rev
                               /\ writer'[v].todo = writer[v].todo
  BY <1>5
<1>7. writer'[w].rev = revision + 1 /\ writer'[w].todo = S
  BY <1>3, <1>4, <1>5
<1>8. /\ \A v \in Busy : writer[v].rev <= revision /\ writer[v].rev \in Nat
      /\ \A t \in Token : log[t] <= revision /\ log[t] \in Nat
  BY <1>2, RedisNumbers DEF TornInv, RevisionsFit
<1>9. RevisionsFit'
  <2>1. NextRevision' = NextRevision /\ NextRevision \in Nat /\ tableRevision \in Nat /\ scanRevision \in Nat
    BY <1>1, <1>2, RedisNumbers DEF NextRevision
  <2>2. /\ tableRevision <= revision /\ scanRevision <= revision
        /\ pc = "page" => NextRevision <= revision
        /\ \A t \in Token : rows[t] = NoRow => log[t] = 0
        /\ \A v \in Busy : 0 < writer[v].rev
    BY DEF TornInv, RevisionsFit
  <2>3. \A v \in Busy' : 0 < writer'[v].rev /\ writer'[v].rev <= revision + 1
    BY <1>2, <1>6, <1>7, <1>8, <2>2
  <2> QED BY <1>1, <1>2, <1>8, <2>1, <2>2, <2>3 DEF RevisionsFit
<1>10. ScoresDistinct'
  <2> SUFFICES ASSUME ~WholePages, MaxBulk = 1
               PROVE  /\ \A v \in Busy' : \A t, u \in writer'[v].todo : t = u
                      /\ \A v \in Busy', t \in Token : log'[t] # writer'[v].rev
                      /\ \A v, x \in Busy' : v # x => writer'[v].rev # writer'[x].rev
                      /\ \A t, u \in Token : t # u /\ log'[t] = log'[u] => log'[t] = 0
    BY DEF ScoresDistinct, WholePages
  <2>1. \A t, u \in S : t = u
    BY SingletonWrites DEF SmallWrites
  <2>2. \A v \in Busy' : \A t, u \in writer'[v].todo : t = u
    BY <1>6, <1>7, <2>1 DEF TornInv, ScoresDistinct
  <2>3. \A v \in Busy', t \in Token : log'[t] # writer'[v].rev
    BY <1>1, <1>2, <1>6, <1>7, <1>8 DEF TornInv, ScoresDistinct
  <2>4. \A v, x \in Busy' : v # x => writer'[v].rev # writer'[x].rev
    BY <1>2, <1>6, <1>7, <1>8 DEF TornInv, ScoresDistinct
  <2> QED BY <1>1, <2>2, <2>3, <2>4 DEF TornInv, ScoresDistinct
<1>11. PageTears' /\ OnlyTornMissed'
  BY <1>1, <1>5, <1>8, TearsStill
<1> QED BY <1>9, <1>10, <1>11

LEMMA ReadHashTears ==
  ASSUME TornInv, NEW w \in Writer, ReadHash(w)
  PROVE  RevisionsFit' /\ ScoresDistinct' /\ PageTears' /\ OnlyTornMissed'
<1>1. /\ writer[w] # Idle /\ writer[w].step = "read"
      /\ UNCHANGED <<rows, revision, slot, tableRevision, pc, scanRevision, page, log, fetch, torn>>
      /\ \E t \in writer[w].todo :
           writer' = [writer EXCEPT ![w] =
             IF Skips(w, t) THEN Finish(w, writer[w].todo \ {t})
             ELSE [writer[w] EXCEPT !.token = t, !.read = rows[t], !.step = "hset"]]
  BY DEF ReadHash, dbVars, tableVars, scanVars
<1>2. PICK t \in writer[w].todo :
        writer' = [writer EXCEPT ![w] =
          IF Skips(w, t) THEN Finish(w, writer[w].todo \ {t})
          ELSE [writer[w] EXCEPT !.token = t, !.read = rows[t], !.step = "hset"]]
  BY <1>1
<1>3. w \in Busy /\ RaceInv
  BY <1>1 DEF Busy, TornInv
<1>4. writer[w] \in Working /\ writer[w].todo \subseteq Token /\ t \in Token
  BY <1>2, <1>3, RedisNumbers
<1> DEFINE read == [writer[w] EXCEPT !.token = t, !.read = rows[t], !.step = "hset"]
           T    == writer[w].todo \ {t}
<1>5. read \in Working /\ read.rev = writer[w].rev /\ read.todo = writer[w].todo
  BY <1>3, <1>4 DEF Working, RaceInv, RedisTypeOK, TypeOK, DbTypeOK
<1>6. /\ Finish(w, T) \in Working \cup {Idle}
      /\ Finish(w, T) # Idle => Finish(w, T).rev = writer[w].rev /\ Finish(w, T).todo = T
  BY <1>4, FinishIs
<1>7. T \subseteq writer[w].todo
  OBVIOUS
<1> HIDE DEF read, T
<1>8. PICK new \in Working \cup {Idle} : new = IF Skips(w, t) THEN Finish(w, T) ELSE read
  BY <1>5, <1>6
<1>9. writer' = [writer EXCEPT ![w] = new]
  BY <1>2, <1>8 DEF read, T
<1>10. new # Idle => new.rev = writer[w].rev /\ new.todo \subseteq writer[w].todo
  BY <1>5, <1>6, <1>7, <1>8
<1>11. \A u \in Unlogged : u \in Unlogged'
  BY <1>1, <1>3, <1>9, TurnBusy
<1>12. RevisionsFit' /\ ScoresDistinct'
  BY <1>1, <1>3, <1>9, <1>10, NumbersStill
<1>13. \A u \in Token : log'[u] \in Nat
  BY <1>1, <1>3, RedisNumbers
<1>14. PageTears' /\ OnlyTornMissed'
  BY <1>1, <1>11, <1>13, TearsStill
<1> QED BY <1>12, <1>14

LEMMA WriteHashTears ==
  ASSUME TornInv, NEW w \in Writer, WriteHash(w)
  PROVE  RevisionsFit' /\ ScoresDistinct' /\ PageTears' /\ OnlyTornMissed'
<1>1. /\ writer[w] # Idle /\ writer[w].step = "hset"
      /\ writer' = [writer EXCEPT ![w].step = "zadd"]
      /\ rows' = [rows EXCEPT ![writer[w].token] = WrittenRow(w, rows[writer[w].token])]
      /\ UNCHANGED <<revision, slot, tableRevision, pc, scanRevision, page, log, fetch, torn>>
  BY DEF WriteHash, tableVars, scanVars
<1>2. w \in Busy /\ RaceInv
  BY <1>1 DEF Busy, TornInv
<1>3. /\ writer[w] \in Working /\ writer[w].token \in Token
      /\ writer[w].op # "upsert" => rows[writer[w].token] # NoRow /\ writer[w].read # NoRow
  BY <1>1, <1>2, RedisNumbers DEF RaceInv, HashIsThere
<1>4. PICK a \in Token : a = writer[w].token
  BY <1>3
<1>5. PICK row \in Row : row = WrittenRow(w, rows[a]) /\ row # NoRow
  <2>1. rows[a] \in Row \cup {NoRow}
    BY <1>2 DEF RaceInv, RedisTypeOK, TypeOK, DbTypeOK
  <2> QED BY <1>3, <1>4, <2>1, WrittenIsRow
<1>6. \A t \in Token : rows'[t] = IF t = a THEN row ELSE rows[t]
  BY <1>1, <1>2, <1>4, <1>5 DEF RaceInv, RedisTypeOK, TypeOK, DbTypeOK
<1> DEFINE written == [writer[w] EXCEPT !.step = "zadd"]
<1>7. /\ written \in Working /\ written.step = "zadd" /\ written.token = a
      /\ written.rev = writer[w].rev /\ written.todo = writer[w].todo
  BY <1>3, <1>4 DEF Working
<1>8. writer' = [writer EXCEPT ![w] = written]
  BY <1>1
<1> HIDE DEF written
<1>9. PICK new \in Working \cup {Idle} : new = written
  BY <1>7
<1>10. writer' = [writer EXCEPT ![w] = new] /\ new # Idle
  BY <1>7, <1>8, <1>9, IdleAssumption
<1>11. /\ \A u \in Unlogged : u \in Unlogged'
       /\ w \in Busy' /\ writer'[w] = new
  BY <1>1, <1>2, <1>10, TurnBusy
<1>12. a \in Unlogged'
  BY <1>7, <1>9, <1>11 DEF Unlogged
<1>13. RevisionsFit' /\ ScoresDistinct'
  BY <1>1, <1>2, <1>5, <1>6, <1>7, <1>9, <1>10, NumbersStill
<1>14. \A u \in Token : log'[u] \in Nat
  BY <1>1, <1>2, RedisNumbers
<1>15. PageTears' /\ OnlyTornMissed'
  BY <1>1, <1>5, <1>6, <1>11, <1>12, <1>14, TearsStill
<1> QED BY <1>13, <1>15

LEMMA AppendLogTears ==
  ASSUME TornInv, NEW w \in Writer, AppendLog(w)
  PROVE  RevisionsFit' /\ ScoresDistinct' /\ PageTears' /\ OnlyTornMissed'
<1>1. /\ writer[w] # Idle /\ writer[w].step = "zadd"
      /\ log' = [log EXCEPT ![writer[w].token] = writer[w].rev]
      /\ writer' = [writer EXCEPT ![w] = Finish(w, writer[w].todo \ {writer[w].token})]
      /\ torn' = TornBy(writer[w])
      /\ UNCHANGED <<rows, revision, slot, tableRevision, pc, scanRevision, page, fetch>>
  BY DEF AppendLog, dbVars, tableVars, scanVars
<1>2. w \in Busy /\ RaceInv
  BY <1>1 DEF Busy, TornInv
<1>3. /\ writer[w] \in Working /\ writer[w].todo \subseteq Token /\ writer[w].rev \in Nat
      /\ writer[w].token \in Token /\ writer[w].token \in writer[w].todo
  BY <1>1, <1>2, RedisNumbers
<1>4. PICK a \in Token, r \in Nat : a = writer[w].token /\ r = writer[w].rev
  BY <1>3
<1>5. \A t \in Token : log'[t] = IF t = a THEN r ELSE log[t]
  BY <1>1, <1>2, <1>4 DEF RaceInv, RedisTypeOK
<1>6. torn' = IF r > Target THEN torn \ {a} ELSE torn \cup {a}
  BY <1>1, <1>4 DEF TornBy
<1> DEFINE T == writer[w].todo \ {a}
<1>7. PICK new \in Working \cup {Idle} : new = Finish(w, T)
  BY <1>3, FinishIs
<1>8. /\ new # Idle => new.rev = r /\ new.todo = T
      /\ T = {} => new = Idle
  BY <1>3, <1>4, <1>7, FinishIs
<1>9. writer' = [writer EXCEPT ![w] = new]
  BY <1>1, <1>4, <1>7
<1>10. /\ \A v \in Busy' : v # w => v \in Busy /\ writer'[v] = writer[v]
       /\ w \in Busy' <=> new # Idle
       /\ writer'[w] = new
       /\ \A t \in Unlogged : t = a \/ t \in Unlogged'
  BY <1>2, <1>4, <1>9, TurnBusy
<1>11. \A v \in Busy' : /\ v \in Busy /\ writer'[v].rev = writer[v].rev
                        /\ writer'[v].todo \subseteq writer[v].todo
  BY <1>2, <1>4, <1>8, <1>10
<1>12. rows[a] # NoRow /\ 0 < r /\ r <= revision
  BY <1>1, <1>2, <1>4 DEF RaceInv, HashIsThere, TornInv, RevisionsFit
<1>13. RevisionsFit'
  <2>1. NextRevision' = NextRevision
    BY <1>1 DEF NextRevision
  <2> QED BY <1>1, <1>5, <1>11, <1>12, <2>1 DEF TornInv, RevisionsFit
<1>14. ScoresDistinct'
  <2> SUFFICES ASSUME ~WholePages, MaxBulk = 1
               PROVE  /\ \A v \in Busy' : \A t, u \in writer'[v].todo : t = u
                      /\ \A v \in Busy', t \in Token : log'[t] # writer'[v].rev
                      /\ \A v, x \in Busy' : v # x => writer'[v].rev # writer'[x].rev
                      /\ \A t, u \in Token : t # u /\ log'[t] = log'[u] => log'[t] = 0
    BY DEF ScoresDistinct, WholePages
  <2>1. T = {}
    BY <1>2, <1>3, <1>4 DEF TornInv, ScoresDistinct
  <2>2. w \notin Busy'
    BY <1>8, <1>10, <2>1
  <2>3. \A v \in Busy', t \in Token : log'[t] # writer'[v].rev
    BY <1>2, <1>4, <1>5, <1>11, <2>2 DEF TornInv, ScoresDistinct
  <2>4. \A t \in Token : log[t] # r
    BY <1>2, <1>4 DEF TornInv, ScoresDistinct
  <2>5. \A t, u \in Token : t # u /\ log'[t] = log'[u] => log'[t] = 0
    BY <1>5, <2>4 DEF TornInv, ScoresDistinct
  <2> QED BY <1>11, <2>3, <2>5 DEF TornInv, ScoresDistinct
<1>15. PageTears' /\ OnlyTornMissed'
  <2>1. \A t \in Token : log'[t] \in Nat
    BY <1>2, <1>5, RedisNumbers
  <2>2. ASSUME NEW t \in Token, t \notin torn', t \notin Unlogged'
        PROVE  \/ log'[t] > Target
               \/ /\ t \notin torn /\ t \notin Unlogged
                  /\ log'[t] = log[t] /\ rows'[t] = rows[t]
    <3>1. CASE t = a
      BY <1>5, <1>6, <2>2, <3>1
    <3>2. CASE t # a
      BY <1>1, <1>5, <1>6, <1>10, <2>2, <3>2
    <3> QED BY <3>1, <3>2
  <2> QED BY <1>1, <2>1, <2>2, TearsStill
<1> QED BY <1>13, <1>14, <1>15

LEMMA WriterDiesTears ==
  ASSUME TornInv, NEW w \in Writer, WriterDies(w)
  PROVE  RevisionsFit' /\ ScoresDistinct' /\ PageTears' /\ OnlyTornMissed'
<1>1. /\ writer[w] # Idle /\ writer' = [writer EXCEPT ![w] = Idle]
      /\ torn' = IF writer[w].step = "zadd" THEN torn \cup {writer[w].token} ELSE torn
      /\ UNCHANGED <<rows, revision, slot, tableRevision, pc, scanRevision, page, log, fetch>>
  BY DEF WriterDies, dbVars, tableVars, scanVars
<1>2. w \in Busy /\ RaceInv
  BY <1>1 DEF Busy, TornInv
<1>3. PICK new \in Working \cup {Idle} : new = Idle
  OBVIOUS
<1>4. writer' = [writer EXCEPT ![w] = new]
  BY <1>1, <1>3
<1>5. RevisionsFit' /\ ScoresDistinct'
  BY <1>1, <1>2, <1>3, <1>4, NumbersStill
<1>6. \A t \in Unlogged : t \in Unlogged' \/ t \in torn'
  BY <1>1, <1>2, <1>4, TurnBusy
<1>7. \A t \in torn : t \in torn'
  BY <1>1
<1>8. \A u \in Token : log'[u] \in Nat
  BY <1>1, <1>2, RedisNumbers
<1>9. PageTears' /\ OnlyTornMissed'
  BY <1>1, <1>6, <1>7, <1>8, TearsStill
<1> QED BY <1>5, <1>9

(* The steps of a scan *)
LEMMA WorkerNumbers ==
  ASSUME TornInv, UNCHANGED <<rows, revision, writer, log>>, tableRevision' <= revision,
         scanRevision' <= revision, pc' = "page" => NextRevision' <= revision
  PROVE  RevisionsFit' /\ ScoresDistinct' /\ Busy' = Busy /\ Unlogged' = Unlogged
<1>1. Busy' = Busy
  BY DEF Busy
<1>2. Unlogged' = Unlogged
  BY <1>1 DEF Unlogged
<1>3. RevisionsFit'
  BY <1>1 DEF TornInv, RevisionsFit
<1>4. ScoresDistinct'
  BY <1>1 DEF TornInv, ScoresDistinct, WholePages
<1> QED BY <1>1, <1>2, <1>3, <1>4

LEMMA RevisionReadTears ==
  ASSUME TornInv, RedisBootstrapRevision \/ RedisReadRevision
  PROVE  RevisionsFit' /\ ScoresDistinct' /\ PageTears' /\ OnlyTornMissed'
<1>1. /\ UNCHANGED <<rows, revision, slot, tableRevision, writer, log, torn>>
      /\ scanRevision' = revision /\ pc' \in {"boot", "rows"} /\ (pc' = "rows" => Running)
  BY DEF RedisBootstrapRevision, RedisReadRevision, BootstrapRevision, ReadRevision, redisVars,
         dbVars, tableVars, Running
<1>2. revision \in Nat
  BY RedisNumbers DEF TornInv
<1>3. RevisionsFit' /\ ScoresDistinct' /\ Busy' = Busy /\ Unlogged' = Unlogged
  BY <1>1, <1>2, WorkerNumbers DEF TornInv, RevisionsFit
<1>4. \A t \in Token : View(t)' = View(t) /\ Truth(t)' = Truth(t)
  BY <1>1 DEF View, Truth, Live, Stored
<1>5. OnlyTornMissed'
  BY <1>1, <1>3, <1>4 DEF TornInv, OnlyTornMissed, Running
<1> QED BY <1>1, <1>3, <1>5 DEF PageTears

LEMMA BootstrapRowsTears ==
  ASSUME TornInv, RedisBootstrapRows
  PROVE  RevisionsFit' /\ ScoresDistinct' /\ PageTears' /\ OnlyTornMissed'
<1>1. /\ UNCHANGED <<rows, revision, scanRevision, writer, log>> /\ pc' = "idle"
      /\ tableRevision' = scanRevision
      /\ slot' = [t \in Token |-> IF t \in Live THEN RecordToSlot(rows[t]) ELSE NoSlot]
  BY DEF RedisBootstrapRows, BootstrapRows, dbVars
<1>2. RevisionsFit' /\ ScoresDistinct'
  BY <1>1, WorkerNumbers DEF TornInv, RevisionsFit
<1>3. ASSUME NEW t \in Token
      PROVE  View(t)' = Truth(t)'
  <2>1. Truth(t)' = Truth(t)
    BY <1>1 DEF Truth, Live, Stored
  <2>2. t \in Live => rows[t] \in Row
    BY DEF Live, Stored, TornInv, RaceInv, RedisTypeOK, TypeOK, DbTypeOK
  <2>3. slot'[t] = IF t \in Live THEN RecordToSlot(rows[t]) ELSE NoSlot
    BY <1>1
  <2> QED BY <2>1, <2>2, <2>3, SlotOps DEF View, Truth
<1>4. OnlyTornMissed'
  BY <1>3 DEF OnlyTornMissed
<1> QED BY <1>1, <1>2, <1>4 DEF PageTears

LEMMA ReadLogTears ==
  ASSUME SafePaging, TornInv, ReadLog
  PROVE  RevisionsFit' /\ ScoresDistinct' /\ PageTears' /\ OnlyTornMissed'
<1>1. /\ pc = "rows" /\ pc' = "page"
      /\ UNCHANGED <<rows, revision, slot, tableRevision, scanRevision, log, writer, torn>>
  BY DEF ReadLog, dbVars, tableVars
<1>2. PICK B \in SUBSET Logged, m \in 0..revision :
        /\ B = Logged \/ Cardinality(B) = BatchLimit
        /\ Cardinality(B) <= BatchLimit
        /\ \A t \in B, u \in Logged \ B : log[t] <= log[u]
        /\ \/ B = {} /\ m = 0
           \/ (\E t \in B : log[t] = m) /\ (\A t \in B : log[t] <= m)
        /\ fetch' = B
        /\ page' = [rows    |-> [t \in Token |-> NoRow],
                    hasMore |-> Cardinality(B) = BatchLimit,
                    max     |-> m]
  BY DEF ReadLog
<1>3. /\ revision \in Nat /\ tableRevision \in Nat /\ scanRevision \in Nat /\ m \in Nat /\ m <= revision
      /\ \A t \in Token : log[t] \in Nat
  BY RedisNumbers DEF TornInv
<1>4. /\ InPage' = {}
      /\ NextRevision' = IF Cardinality(B) = BatchLimit THEN m ELSE scanRevision
  <2>1. /\ page'.rows = [t \in Token |-> NoRow] /\ page'.max = m
        /\ page'.hasMore <=> Cardinality(B) = BatchLimit
    BY <1>2
  <2>2. \A t \in Token : page'.rows[t] = NoRow
    BY <2>1
  <2> QED BY <1>1, <2>1, <2>2 DEF InPage, NextRevision
<1>5. RevisionsFit' /\ ScoresDistinct' /\ Unlogged' = Unlogged
  BY <1>1, <1>3, <1>4, WorkerNumbers DEF TornInv, RevisionsFit
<1>6. \A t \in Token : View(t)' = View(t) /\ Truth(t)' = Truth(t)
  BY <1>1 DEF View, Truth, Live, Stored
<1>7. OnlyTornMissed'
  BY <1>1, <1>5, <1>6 DEF TornInv, OnlyTornMissed, Running
<1>8. B \subseteq Token /\ \A t \in B : log[t] > tableRevision
  BY DEF Logged
<1>9. \A t \in B : rows[t] # NoRow
  BY <1>3, <1>8 DEF TornInv, RevisionsFit
<1>10. ASSUME NEW t \in Token, t \notin torn, t \notin Unlogged, t \notin B
       PROVE  log[t] > Target' \/ View(t) = Truth(t)
  <2>1. CASE log[t] > tableRevision
    <3>1. t \in Logged
      BY <2>1 DEF Logged
    <3>2. Cardinality(B) = BatchLimit
      BY <1>2, <1>10, <3>1
    <3>3. IsFiniteSet(B) /\ IsFiniteSet(Token) /\ Cardinality(B) < Cardinality(Token)
      <4>1. IsFiniteSet(Token) /\ IsFiniteSet(B) /\ Cardinality(Token) \in Nat
        BY <1>8, TokenAssumption, FS_Subset, FS_CardinalityType
      <4>2. Cardinality(B) \in Nat /\ Cardinality(B) <= Cardinality(Token)
        BY <1>8, CardinalityOfTokens
      <4>3. B # Token
        BY <1>10
      <4>4. Cardinality(B) # Cardinality(Token)
        BY <1>8, <4>1, <4>3, FS_Subset
      <4> QED BY <4>1, <4>2, <4>4
    <3>4. ~WholePages /\ MaxBulk = 1
      <4>1. ~WholePages
        <5>1. Cardinality(B) \in Nat /\ Cardinality(Token) \in Nat
          BY <3>3, FS_CardinalityType
        <5> QED BY <3>2, <3>3, <5>1 DEF WholePages
      <4> QED BY <4>1 DEF SafePaging
    <3>5. B # {}
      BY <3>2, FS_EmptySet, SyncAssumption
    <3>6. PICK u \in B : log[u] = m
      BY <1>2, <3>5
    <3>7. log[u] <= log[t] /\ u # t /\ u \in Token /\ log[t] # 0
      BY <1>2, <1>3, <1>8, <1>10, <2>1, <3>1, <3>6
    <3>8. log[u] # log[t]
      BY <1>10, <3>4, <3>7 DEF TornInv, ScoresDistinct
    <3>9. m < log[t]
      BY <1>3, <3>6, <3>7, <3>8
    <3> QED BY <1>1, <1>3, <1>4, <2>1, <3>2, <3>9 DEF Target
  <2>2. CASE ~(log[t] > tableRevision)
    BY <1>1, <1>10, <2>2 DEF TornInv, OnlyTornMissed, Running
  <2> QED BY <2>1, <2>2
<1>11. PageTears'
  <2> SUFFICES /\ \A t \in B : rows[t] # NoRow
               /\ \A t \in Token \ (torn \cup Unlogged) :
                    log[t] > Target' \/ t \in B \/ Settled(t)'
    BY <1>1, <1>2, <1>5 DEF PageTears
  <2>1. \A t \in Token : View(t) = Truth(t) => Settled(t)'
    BY <1>4, <1>6 DEF Settled
  <2> QED BY <1>9, <1>10, <2>1
<1> QED BY <1>5, <1>7, <1>11

LEMMA FetchHashTears ==
  ASSUME TornInv, FetchHash
  PROVE  RevisionsFit' /\ ScoresDistinct' /\ PageTears' /\ OnlyTornMissed'
<1>1. PICK a \in fetch : fetch' = fetch \ {a} /\ page' = [page EXCEPT !.rows[a] = rows[a]]
  BY DEF FetchHash
<1>2. /\ pc = "page"
      /\ UNCHANGED <<rows, revision, slot, tableRevision, pc, scanRevision, log, writer, torn>>
  BY DEF FetchHash, dbVars, tableVars
<1>3. a \in Token /\ rows[a] # NoRow /\ rows[a] \in Row
  BY <1>2 DEF TornInv, PageTears, RaceInv, RedisTypeOK, TypeOK, DbTypeOK
<1>4. /\ page'.hasMore = page.hasMore /\ page'.max = page.max
      /\ \A t \in Token : page'.rows[t] = IF t = a THEN rows[a] ELSE page.rows[t]
  <2>1. page \in Page
    BY DEF TornInv, RaceInv, RedisTypeOK, TypeOK
  <2> QED BY <1>1, <1>3, <2>1 DEF Page
<1>5. /\ NextRevision' = NextRevision /\ Target' = Target
      /\ InPage' = InPage \cup {a}
  BY <1>2, <1>3, <1>4 DEF NextRevision, Target, InPage
<1>6. RevisionsFit' /\ ScoresDistinct' /\ Unlogged' = Unlogged
  BY <1>2, <1>5, WorkerNumbers DEF TornInv, RevisionsFit
<1>7. \A t \in Token : View(t)' = View(t) /\ Truth(t)' = Truth(t)
  BY <1>2 DEF View, Truth, Live, Stored
<1>8. OnlyTornMissed'
  BY <1>2, <1>6, <1>7 DEF TornInv, OnlyTornMissed, Running
<1>9. \A t \in Token : t = a \/ Settled(t) => Settled(t)'
  BY <1>2, <1>4, <1>5, <1>7 DEF Settled
<1>10. PageTears'
  BY <1>1, <1>2, <1>5, <1>6, <1>9 DEF TornInv, PageTears
<1> QED BY <1>6, <1>8, <1>10

LEMMA ApplyPageTears ==
  ASSUME TornInv, RedisApplyPage
  PROVE  RevisionsFit' /\ ScoresDistinct' /\ PageTears' /\ OnlyTornMissed'
<1>1. /\ fetch = {} /\ pc = "page" /\ pc' \in {"scan", "idle"}
      /\ UNCHANGED <<rows, revision, scanRevision, log, writer, torn>>
      /\ tableRevision' = Target
      /\ \A t \in Token : slot'[t] = AppliedSlot(t)
  BY DEF RedisApplyPage, ApplyPage, redisVars, dbVars, Target
<1>2. Target <= revision
  BY <1>1 DEF Target, TornInv, RevisionsFit
<1>3. RevisionsFit' /\ ScoresDistinct' /\ Unlogged' = Unlogged
  BY <1>1, <1>2, WorkerNumbers DEF TornInv, RevisionsFit
<1>4. ASSUME NEW t \in Token, Settled(t)
      PROVE  View(t)' = Truth(t)'
  <2>1. Truth(t)' = Truth(t)
    BY <1>1 DEF Truth, Live, Stored
  <2>2. CASE t \in InPage
    <3>1. page.rows[t] = rows[t] /\ rows[t] # NoRow /\ rows[t] \in Row /\ slot[t] \in Slot \cup {NoSlot}
      BY <1>4, <2>2 DEF Settled, InPage, TornInv, RaceInv, RedisTypeOK, TypeOK, DbTypeOK
    <3>2. CASE rows[t].deleted
      <4>1. slot'[t] = NoSlot \/ slot'[t].status = "deleted"
        BY <1>1, <3>1, <3>2 DEF AppliedSlot, Slot
      <4> QED BY <2>1, <3>2, <4>1 DEF View, Truth, Live
    <3>3. CASE ~rows[t].deleted
      <4>1. slot'[t] = RecordToSlot(rows[t])
        BY <1>1, <3>1, <3>3 DEF AppliedSlot
      <4>2. slot'[t] # NoSlot /\ slot'[t].status # "deleted"
        BY <3>1, <4>1, SlotOps
      <4> QED BY <2>1, <3>1, <3>3, <4>1, <4>2 DEF View, Truth, Live, Stored
    <3> QED BY <3>2, <3>3
  <2>3. CASE t \notin InPage
    <3>1. slot'[t] = slot[t]
      BY <1>1, <2>3 DEF AppliedSlot, InPage
    <3> QED BY <1>4, <2>1, <2>3, <3>1 DEF Settled, View
  <2> QED BY <2>2, <2>3
<1>5. OnlyTornMissed'
  <2> SUFFICES ASSUME NEW t \in Token, t \notin torn, t \notin Unlogged
               PROVE  log[t] > Target \/ View(t)' = Truth(t)'
    BY <1>1, <1>3 DEF OnlyTornMissed
  <2> QED BY <1>1, <1>4 DEF TornInv, PageTears
<1> QED BY <1>1, <1>3, <1>5 DEF PageTears

LEMMA RedisRestartTears ==
  ASSUME TornInv, RedisRestart
  PROVE  RevisionsFit' /\ ScoresDistinct' /\ PageTears' /\ OnlyTornMissed'
<1>1. UNCHANGED <<rows, revision, scanRevision, log, writer>> /\ pc' = "down" /\ tableRevision' = 0
  BY DEF RedisRestart, Restart, dbVars
<1>2. revision \in Nat
  BY RedisNumbers DEF TornInv
<1>3. RevisionsFit' /\ ScoresDistinct'
  BY <1>1, <1>2, WorkerNumbers DEF TornInv, RevisionsFit
<1> QED BY <1>1, <1>3 DEF PageTears, OnlyTornMissed, Running

LEMMA TornStep ==
  ASSUME SafePaging, TornInv, [RedisNext]_allVars
  PROVE  TornInv'
<1>1. RaceInv'
  BY RaceStep DEF TornInv
<1>2. CASE RedisNext
  <2>1. ASSUME NEW w \in Writer,
               \/ \E p \in Pool, S \in SmallWrites, k \in Op : Begin(w, k, p, S)
               \/ ReadHash(w) \/ WriteHash(w) \/ AppendLog(w) \/ WriterDies(w)
        PROVE  RevisionsFit' /\ ScoresDistinct' /\ PageTears' /\ OnlyTornMissed'
    BY <2>1, BeginTears, ReadHashTears, WriteHashTears, AppendLogTears, WriterDiesTears
  <2>2. RevisionsFit' /\ ScoresDistinct' /\ PageTears' /\ OnlyTornMissed'
    BY <1>2, <2>1, RevisionReadTears, BootstrapRowsTears, ReadLogTears, FetchHashTears,
       ApplyPageTears, RedisRestartTears DEF RedisNext, Op
  <2> QED BY <1>1, <2>2 DEF TornInv
<1>3. CASE UNCHANGED allVars
  <2>1. UNCHANGED <<rows, revision, slot, tableRevision, pc, scanRevision, page, log, writer, fetch, torn>>
    BY <1>3 DEF allVars, vars
  <2>2. NextRevision' = NextRevision
    BY <2>1 DEF NextRevision
  <2>3. RevisionsFit' /\ ScoresDistinct' /\ Unlogged' = Unlogged
    BY <2>1, <2>2, WorkerNumbers DEF TornInv, RevisionsFit
  <2>4. \A t \in Token : log'[t] \in Nat
    BY <2>1, RedisNumbers DEF TornInv
  <2>5. PageTears' /\ OnlyTornMissed'
    BY <2>1, <2>3, <2>4, TearsStill
  <2> QED BY <1>1, <2>3, <2>5 DEF TornInv
<1> QED BY <1>2, <1>3

(* Over Redis a write is several round trips under no lock, and a page is    *)
(* read hash by hash while others write.  What the sync can miss of it, with *)
(* any writers, deaths, pages and restarts, is a row whose last write to be  *)
(* appended a scan had overtaken, or whose writer died between HSET and ZADD *)
(* (redis.py) - nothing else, and until the next write of the row that is    *)
(* not overtaken.  As over SQLite, a page holds the store or a write is of   *)
(* one row.                                                                  *)
THEOREM RedisMissesOnlyTorn ==
  ASSUME SafePaging
  PROVE  RedisSpec => []OnlyTornMissed
<1>1. RedisInit => TornInv
  <2> SUFFICES ASSUME RedisInit PROVE TornInv
    OBVIOUS
  <2>1. RaceInv
    BY RaceStarts
  <2>2. /\ Busy = {} /\ pc = "down" /\ tableRevision = 0 /\ scanRevision = 0 /\ revision = 0
        /\ \A t \in Token : log[t] = 0
    BY DEF RedisInit, Init, EmptyTable, DbInit, Busy
  <2> QED BY <2>1, <2>2 DEF TornInv, RevisionsFit, ScoresDistinct, PageTears, OnlyTornMissed, Running
<1>2. TornInv /\ [RedisNext]_allVars => TornInv'
  BY TornStep
<1>3. TornInv => OnlyTornMissed
  BY DEF TornInv
<1> QED BY <1>1, <1>2, <1>3, PTL DEF RedisSpec

-----------------------------------------------------------------------------
(* The SQL store: types, and the index.                                      *)
RecoversStored ==
  \A p \in Process : tx[p] # NoTx /\ tx[p].op = "recover" => tx[p].tokens \subseteq Stored

SqlTypeInv == SqlTypeOK /\ RecoversStored

(* What a committed transaction has done to a row, whatever was committed    *)
(* since it was begun.                                                       *)
LEMMA CommittedIsRow ==
  ASSUME SqlTypeInv, NEW p \in Process, tx[p] # NoTx, NEW t \in Token, Touches(tx[p], t)
  PROVE  Written(tx[p], t) \in Row /\ Written(tx[p], t).rev = tx[p].rev
<1>1. PICK x : x = tx[p]
  OBVIOUS
<1>2. x \in Tx
  BY <1>1 DEF SqlTypeInv, SqlTypeOK
<1>3. x.rev \in Nat /\ x.pool \in Pool /\ (t \in x.timed) \in BOOLEAN
  BY <1>2 DEF Tx
<1>4. x.op = "recover" => t \in Stored
  BY <1>1 DEF SqlTypeInv, RecoversStored, Touches
<1>5. Touches(x, t)
  BY <1>1
<1>6. \A u \in Stored : rows[u] \in Row
  BY DEF SqlTypeInv, SqlTypeOK, TypeOK, DbTypeOK, Stored
<1>7. CASE x.op = "upsert"
  <2>1. Written(x, t) = SqlUpsertedRow(x.pool, x.rev)
    BY <1>7 DEF Written
  <2>2. SqlUpsertedRow(x.pool, x.rev) \in Row /\ SqlUpsertedRow(x.pool, x.rev).rev = x.rev
    BY <1>3 DEF SqlUpsertedRow, Row, Status
  <2> QED BY <1>1, <2>1, <2>2
<1>8. CASE x.op \in {"delete", "replace"}
  <2>1. Written(x, t) = DeletedRow(rows[t], x.rev)
    BY <1>8 DEF Written
  <2>2. rows[t] \in Row
    BY <1>5, <1>6, <1>8 DEF Touches, Live
  <2> QED BY <1>1, <1>3, <2>1, <2>2, DeleteOps
<1>9. CASE x.op = "reset"
  <2>1. Written(x, t) = PatchedRow(rows[t], "touch", x.rev)
    BY <1>9 DEF Written
  <2>2. rows[t] \in Row
    BY <1>5, <1>6, <1>9 DEF Touches, InStatus, Live
  <2>3. "touch" \in PatchKind
    BY DEF PatchKind
  <2> QED BY <1>1, <1>3, <2>1, <2>2, <2>3, PatchOps
<1>10. CASE x.op = "recover"
  <2>1. Written(x, t) = RecoveredRow(rows[t], t \in x.timed, x.rev)
    BY <1>10 DEF Written
  <2>2. rows[t] \in Row
    BY <1>4, <1>6, <1>10
  <2> DEFINE b == t \in x.timed
  <2>3. b \in BOOLEAN
    OBVIOUS
  <2> HIDE DEF b
  <2>4. RecoveredRow(rows[t], b, x.rev) \in Row /\ RecoveredRow(rows[t], b, x.rev).rev = x.rev
    BY <1>3, <2>2, <2>3 DEF RecoveredRow, Row, Status
  <2> QED BY <1>1, <2>1, <2>4 DEF b
<1>11. CASE x.op \in PatchKind
  <2>1. /\ Written(x, t) = PatchedRow(rows[t], x.op, x.rev)
        /\ Touches(x, t) = (t \in x.tokens \cap Stored)
    BY <1>11 DEF Written, Touches, PatchKind
  <2>2. rows[t] \in Row
    BY <1>5, <1>6, <2>1
  <2> QED BY <1>1, <1>3, <1>11, <2>1, <2>2, PatchOps
<1>12. x.op \in {"upsert", "delete", "replace", "reset", "recover"} \cup PatchKind
  BY <1>2 DEF Tx
<1> QED BY <1>7, <1>8, <1>9, <1>10, <1>11, <1>12

LEMMA CommitWrites ==
  ASSUME SqlTypeInv, NEW p \in Process, Commit(p)
  PROVE  /\ DbTypeOK' /\ revision' = tx[p].rev /\ Stored \subseteq Stored'
         /\ \A t \in Token : rows'[t] # rows[t] =>
              rows'[t] # NoRow /\ rows'[t].rev = tx[p].rev
<1>1. /\ tx[p] # NoTx /\ revision' = tx[p].rev
      /\ rows' = [t \in Token |-> IF Touches(tx[p], t) THEN Written(tx[p], t) ELSE rows[t]]
  BY DEF Commit
<1>2. tx[p].rev \in Nat /\ rows \in [Token -> Row \cup {NoRow}]
  BY <1>1 DEF SqlTypeInv, SqlTypeOK, TypeOK, DbTypeOK, Tx
<1>3. \A t \in Token : Touches(tx[p], t) => Written(tx[p], t) \in Row /\ Written(tx[p], t).rev = tx[p].rev
  BY <1>1, CommittedIsRow
<1>4. \A t \in Token : \/ rows'[t] = rows[t]
                       \/ rows'[t] \in Row /\ rows'[t].rev = tx[p].rev
  BY <1>1, <1>3
<1>5. rows' \in [Token -> Row \cup {NoRow}]
  BY <1>1, <1>2, <1>3
<1>6. \A t \in Token : rows'[t] # rows[t] => rows'[t] # NoRow /\ rows'[t].rev = tx[p].rev
  BY <1>4, NoRowAssumption
<1>7. Stored \subseteq Stored'
  BY <1>6 DEF Stored
<1> QED BY <1>1, <1>2, <1>5, <1>6, <1>7 DEF DbTypeOK

(* The other steps of a process leave the rows alone, and the revision but   *)
(* where MySQL seeds it anew.                                                *)
LEMMA TxTypes ==
  ASSUME SqlTypeInv, NEW p \in Process,
         \/ Initialize(p) \/ SqlWrite(p) \/ ProcessRestarts(p)
  PROVE  tx' \in [Process -> Tx \cup {NoTx}] /\ dialect' = dialect /\ snapshot' = snapshot
         /\ initialized' \in SUBSET Process
<1> USE DEF SqlTypeInv, SqlTypeOK
<1>1. /\ revision \in Nat /\ revision + 1 \in Nat
      /\ tx \in [Process -> Tx \cup {NoTx}] /\ initialized \subseteq Process
  BY DEF TypeOK, DbTypeOK
<1>2. (CHOOSE q \in Pool : TRUE) \in Pool
  BY SqlAssumption
<1>3. ASSUME NEW op \in {"upsert", "delete", "replace"} \cup PatchKind, NEW pool \in Pool,
             NEW S \in SUBSET Token, BeginTransaction(p, op, pool, S)
      PROVE  tx' \in [Process -> Tx \cup {NoTx}]
  <2>1. Holding(op, pool, S, {}) \in Tx
    BY <1>1, <1>3 DEF Holding, Tx
  <2> QED BY <1>1, <1>3, <2>1 DEF BeginTransaction
<1>4. ASSUME NEW op \in {"reset", "recover"}, NEW S \in SUBSET Token, Select(p, op, S)
      PROVE  tx' \in [Process -> Tx \cup {NoTx}]
  <2> DEFINE timed == {t \in S \cap Stored : rows[t].timed}
             x == [op |-> op, pool |-> CHOOSE q \in Pool : TRUE, tokens |-> S, timed |-> timed, rev |-> 0]
  <2>1. tx' = [tx EXCEPT ![p] = x]
    BY <1>4 DEF Select
  <2>2. timed \subseteq Token
    BY DEF Stored
  <2> HIDE DEF timed
  <2>3. x \in Tx
    BY <1>2, <2>2 DEF Tx
  <2> HIDE DEF x
  <2> QED BY <1>1, <2>1, <2>3
<1>5. ASSUME Bump(p) PROVE tx' \in [Process -> Tx \cup {NoTx}]
  <2>1. tx[p] \in Tx /\ tx' = [tx EXCEPT ![p].rev = revision + 1]
    BY <1>1, <1>5 DEF Bump
  <2>2. [tx[p] EXCEPT !.rev = revision + 1] \in Tx
    BY <1>1, <2>1 DEF Tx
  <2>3. tx' = [tx EXCEPT ![p] = [tx[p] EXCEPT !.rev = revision + 1]]
    BY <2>1
  <2> QED BY <1>1, <2>2, <2>3
<1>6. ASSUME Commit(p) PROVE tx' \in [Process -> Tx \cup {NoTx}]
  <2>1. tx[p] \in Tx /\ tx' = [tx EXCEPT ![p] = Following(tx[p])]
    BY <1>1, <1>6 DEF Commit
  <2>2. [tx[p] EXCEPT !.op = "upsert", !.rev = 0] \in Tx
    BY <2>1 DEF Tx
  <2>3. Following(tx[p]) \in Tx \cup {NoTx}
    BY <2>2 DEF Following
  <2> QED BY <1>1, <2>1, <2>3
<1>7. SmallWrites \subseteq SUBSET Token /\ SUBSET InStatus("expired") \subseteq SUBSET Token
      /\ {} \in SUBSET Token
  BY DEF SmallWrites, InStatus, Live, Stored
<1>8. "upsert" \in {"upsert", "delete", "replace"} \cup PatchKind /\
      "replace" \in {"upsert", "delete", "replace"} \cup PatchKind /\
      ({"delete"} \cup PatchKind) \subseteq {"upsert", "delete", "replace"} \cup PatchKind
  OBVIOUS
<1>9. CASE Initialize(p) \/ ProcessRestarts(p) \/ RollBack(p)
  BY <1>1, <1>9 DEF Initialize, ProcessRestarts, RollBack
<1>10. CASE SqlWrite(p)
  <2>1. tx' \in [Process -> Tx \cup {NoTx}]
    <3>1. CASE \E pool \in Pool, S \in SmallWrites : BeginTransaction(p, "upsert", pool, S)
      BY <1>3, <1>7, <1>8, <3>1
    <3>2. CASE \E op \in {"delete"} \cup PatchKind, S \in SmallWrites :
                 BeginTransaction(p, op, CHOOSE q \in Pool : TRUE, S)
      BY <1>2, <1>3, <1>7, <1>8, <3>2
    <3>3. CASE \E pool \in Pool, S \in {{}} \cup SmallWrites : BeginTransaction(p, "replace", pool, S)
      BY <1>3, <1>7, <1>8, <3>3
    <3>4. CASE \E due \in SUBSET Token : due \cap InStatus("active") # {} /\ Select(p, "reset", due)
      BY <1>4, <3>4
    <3>5. CASE \E S \in SUBSET InStatus("expired") : S # {} /\ Select(p, "recover", S)
      BY <1>4, <1>7, <3>5
    <3>6. CASE Bump(p)
      BY <1>5, <3>6
    <3>7. CASE Commit(p)
      BY <1>6, <3>7
    <3>8. CASE RollBack(p)
      BY <1>9, <3>8
    <3> QED BY <1>10, <3>1, <3>2, <3>3, <3>4, <3>5, <3>6, <3>7, <3>8 DEF SqlWrite
  <2>2. UNCHANGED <<dialect, initialized, snapshot>>
    BY <1>10 DEF SqlWrite, BeginTransaction, Select, Bump, Commit, RollBack
  <2> QED BY <1>1, <2>1, <2>2
<1> QED BY <1>9, <1>10

LEMMA SelectsStored ==
  ASSUME SqlTypeInv, NEW p \in Process, Initialize(p) \/ SqlWrite(p) \/ ProcessRestarts(p)
  PROVE  RecoversStored'
<1> USE DEF SqlTypeInv, SqlTypeOK, RecoversStored
<1>1. tx \in [Process -> Tx \cup {NoTx}] /\ Stored \subseteq Stored'
  <2>1. CASE Commit(p)
    BY <2>1, CommitWrites
  <2>2. CASE Initialize(p) \/ ProcessRestarts(p) \/ UNCHANGED rows
    BY <2>2 DEF Initialize, ProcessRestarts, Stored, dbVars
  <2>3. CASE SqlWrite(p) /\ ~Commit(p)
    BY <2>3 DEF SqlWrite, BeginTransaction, Select, Bump, RollBack, dbVars, Stored
  <2> QED BY <2>1, <2>2, <2>3
<1>2. ASSUME NEW q \in Process, tx'[q] # NoTx, tx'[q].op = "recover"
      PROVE  tx'[q].tokens \subseteq Stored'
  <2>1. CASE tx'[q] = tx[q]
    BY <1>1, <1>2, <2>1
  <2>2. CASE tx'[q] # tx[q]
    <3>1. ASSUME NEW op \in {"upsert", "delete", "replace"} \cup PatchKind, NEW pool, NEW S,
                 BeginTransaction(p, op, pool, S)
          PROVE  FALSE
      BY <1>1, <1>2, <2>2, <3>1 DEF BeginTransaction, Holding, PatchKind
    <3>2. ASSUME NEW S, Select(p, "reset", S) PROVE FALSE
      BY <1>1, <1>2, <2>2, <3>2 DEF Select
    <3>3. ASSUME NEW S \in SUBSET InStatus("expired"), Select(p, "recover", S)
          PROVE  tx'[q].tokens \subseteq Stored'
      <4>1. tx'[q].tokens = S
        BY <1>1, <1>2, <2>2, <3>3 DEF Select
      <4>2. S \subseteq Stored
        BY DEF InStatus, Live
      <4> QED BY <1>1, <4>1, <4>2
    <3>4. ASSUME Bump(p) PROVE tx'[q].tokens \subseteq Stored'
      <4>1. q = p /\ tx[p] # NoTx /\ tx[p] \in Tx /\ tx'[p] = [tx[p] EXCEPT !.rev = revision + 1]
        BY <1>1, <2>2, <3>4 DEF Bump
      <4>2. tx'[p].op = tx[p].op /\ tx'[p].tokens = tx[p].tokens
        BY <4>1 DEF Tx
      <4> QED BY <1>1, <1>2, <4>1, <4>2
    <3>5. ASSUME Commit(p) PROVE FALSE
      <4>1. q = p /\ tx[p] # NoTx /\ tx[p] \in Tx /\ tx'[p] = Following(tx[p])
        BY <1>1, <2>2, <3>5 DEF Commit
      <4>2. tx'[p].op = "upsert"
        BY <1>2, <4>1 DEF Following, Tx
      <4> QED BY <1>2, <4>1, <4>2
    <3>6. CASE Initialize(p) \/ ProcessRestarts(p) \/ RollBack(p)
      BY <1>1, <1>2, <2>2, <3>6 DEF Initialize, ProcessRestarts, RollBack
    <3>7. CASE SqlWrite(p)
      <4>1. "upsert" \in {"upsert", "delete", "replace"} \cup PatchKind /\
            "replace" \in {"upsert", "delete", "replace"} \cup PatchKind /\
            ({"delete"} \cup PatchKind) \subseteq {"upsert", "delete", "replace"} \cup PatchKind
        OBVIOUS
      <4>2. CASE \E pool \in Pool, S \in SmallWrites : BeginTransaction(p, "upsert", pool, S)
        BY <3>1, <4>1, <4>2
      <4>3. CASE \E op \in {"delete"} \cup PatchKind, S \in SmallWrites :
                   BeginTransaction(p, op, CHOOSE x \in Pool : TRUE, S)
        BY <3>1, <4>1, <4>3
      <4>4. CASE \E pool \in Pool, S \in {{}} \cup SmallWrites : BeginTransaction(p, "replace", pool, S)
        BY <3>1, <4>1, <4>4
      <4>5. CASE \E due \in SUBSET Token : due \cap InStatus("active") # {} /\ Select(p, "reset", due)
        BY <3>2, <4>5
      <4>6. CASE \E S \in SUBSET InStatus("expired") : S # {} /\ Select(p, "recover", S)
        BY <3>3, <4>6
      <4> QED BY <3>4, <3>5, <3>6, <3>7, <4>2, <4>3, <4>4, <4>5, <4>6 DEF SqlWrite
    <3> QED BY <1>2, <3>6, <3>7
  <2> QED BY <2>1, <2>2
<1> QED BY <1>2

(* What the steps of a process leave of the worker: everything, but for the  *)
(* count of restarts.                                                        *)
LEMMA ProcessKeeps ==
  ASSUME SqlTypeInv, NEW p \in Process, Initialize(p) \/ SqlWrite(p) \/ ProcessRestarts(p)
  PROVE  /\ UNCHANGED <<slot, modeAvailable, size, tableRevision, pc, scanRevision, page>>
         /\ restarts' \in Nat /\ DbTypeOK'
         /\ Commit(p) \/ (rows' = rows /\ (revision' = revision \/ Initialize(p)))
<1>1. UNCHANGED <<slot, modeAvailable, size, tableRevision, pc, scanRevision, page>>
  BY DEF Initialize, SqlWrite, BeginTransaction, Select, Bump, Commit, RollBack, ProcessRestarts,
         tableVars, scanVars
<1>2. restarts' = restarts \/ restarts' = restarts + 1
  BY DEF Initialize, SqlWrite, BeginTransaction, Select, Bump, Commit, RollBack, ProcessRestarts
<1>3. restarts \in Nat /\ DbTypeOK /\ revision \in Nat
  BY DEF SqlTypeInv, SqlTypeOK, TypeOK, DbTypeOK
<1>4. CASE Commit(p)
  BY <1>1, <1>2, <1>3, <1>4, CommitWrites
<1>5. CASE ~Commit(p)
  <2>1. rows' = rows /\ (revision' = revision \/ Initialize(p))
    BY <1>5 DEF Initialize, SqlWrite, BeginTransaction, Select, Bump, RollBack, ProcessRestarts, dbVars
  <2>2. revision' \in Nat
    <3>1. CASE Initialize(p)
      BY <1>3, <3>1 DEF Initialize, Seeded
    <3> QED BY <1>3, <2>1, <3>1
  <2> QED BY <1>1, <1>2, <1>3, <2>1, <2>2 DEF DbTypeOK
<1> QED BY <1>4, <1>5

LEMMA SeenRows ==
  ASSUME SqlTypeOK
  PROVE  Seen \in [Token -> Row \cup {NoRow}]
BY DEF SqlTypeOK, TypeOK, DbTypeOK, Seen

LEMMA SnapshotTypes ==
  ASSUME SqlTypeOK, FixesSnapshot
  PROVE  snapshot' \in [Token -> Row \cup {NoRow}]
BY DEF SqlTypeOK, TypeOK, DbTypeOK, FixesSnapshot, Unread

(* The page is cut from the rows as the reader's transaction sees them.      *)
LEMMA SqlPage ==
  ASSUME SqlTypeOK, SqlReadRows
  PROVE  \E B \in SUBSET SeenChanged, m \in Nat :
           /\ B = SeenChanged \/ Cardinality(B) = BatchLimit
           /\ \/ B = {} /\ m = 0
              \/ (\E t \in B : Seen[t].rev = m) /\ (\A t \in B : Seen[t].rev <= m)
           /\ page' = [rows    |-> [t \in Token |-> IF t \in B THEN Seen[t] ELSE NoRow],
                       hasMore |-> Cardinality(B) = BatchLimit,
                       max     |-> m]
           /\ page' \in Page
<1>1. PICK B \in SUBSET SeenChanged, m \in {0} \cup {Seen[t].rev : t \in SeenChanged} :
        /\ B = SeenChanged \/ Cardinality(B) = BatchLimit
        /\ \/ B = {} /\ m = 0
           \/ (\E t \in B : Seen[t].rev = m) /\ (\A t \in B : Seen[t].rev <= m)
        /\ page' = [rows    |-> [t \in Token |-> IF t \in B THEN Seen[t] ELSE NoRow],
                    hasMore |-> Cardinality(B) = BatchLimit,
                    max     |-> m]
  BY DEF SqlReadRows
<1>2. SeenChanged \subseteq {t \in Token : Seen[t] # NoRow}
  BY DEF SeenChanged
<1>3. \A t \in Token : Seen[t] # NoRow => Seen[t] \in Row /\ Seen[t].rev \in Nat
  BY SeenRows DEF Row
<1>4. m \in Nat
  BY <1>1, <1>2, <1>3
<1>5. page' \in Page
  <2>1. (Cardinality(B) = BatchLimit) \in BOOLEAN
    OBVIOUS
  <2>2. [t \in Token |-> IF t \in B THEN Seen[t] ELSE NoRow] \in [Token -> Row \cup {NoRow}]
    BY <1>2, <1>3
  <2> QED BY <1>1, <1>4, <2>1, <2>2 DEF Page
<1> QED BY <1>1, <1>4, <1>5

(* The table is built from the rows as the reader's transaction sees them.   *)
LEMMA SqlTable ==
  ASSUME SqlTypeOK, SqlBootstrapRows
  PROVE  /\ pc = "boot" /\ pc' = "idle" /\ tableRevision' = scanRevision
         /\ UNCHANGED <<rows, revision, scanRevision, page, restarts, dialect, tx, initialized, snapshot>>
         /\ \A t \in Token : slot'[t] = IF Seen[t] # NoRow /\ ~Seen[t].deleted
                                          THEN RecordToSlot(Seen[t]) ELSE NoSlot
         /\ TypeOK' /\ IndexMatchesSlots'
<1>1. /\ pc = "boot" /\ pc' = "idle" /\ tableRevision' = scanRevision
      /\ UNCHANGED <<rows, revision, scanRevision, page, restarts, dialect, tx, initialized, snapshot>>
      /\ size' = Cardinality(SeenLive)
      /\ slot' = [t \in Token |-> IF t \in SeenLive THEN RecordToSlot(Seen[t]) ELSE NoSlot]
      /\ modeAvailable' = [p \in Pool |->
           {t \in SeenLive : RecordToSlot(Seen[t]) = [pool |-> p, status |-> "active"]}]
  BY DEF SqlBootstrapRows, dbVars
<1>3. SeenLive = {t \in Token : Seen[t] # NoRow /\ ~Seen[t].deleted}
  BY DEF SeenLive
<1>4. \A t \in SeenLive : Seen[t] \in Row
  BY <1>3, SeenRows
<1>5. \A t \in SeenLive : RecordToSlot(Seen[t]) \in Slot
  BY <1>4, SlotOps
<1>6. Cardinality(SeenLive) \in Nat /\ SeenLive \subseteq Token
  BY <1>3, CardinalityOfTokens
<1>7. slot' \in [Token -> Slot \cup {NoSlot}]
  BY <1>1, <1>5
<1>8. modeAvailable' \in [Pool -> SUBSET Token]
  BY <1>1, <1>6
<1>9. TypeOK'
  BY <1>1, <1>6, <1>7, <1>8 DEF SqlTypeOK, TypeOK, DbTypeOK
<1>10. IndexMatchesSlots'
  <2>1. \A p \in Pool : [pool |-> p, status |-> "active"] \in Slot
    BY DEF Slot, SlotStatus, Status
  <2>2. ASSUME NEW p \in Pool
        PROVE  modeAvailable'[p] = {t \in Token : slot'[t] = [pool |-> p, status |-> "active"]}
    <3>1. \A t \in Token : t \in modeAvailable'[p] <=> slot'[t] = [pool |-> p, status |-> "active"]
      BY <1>1, <1>6, <2>1, NoSlotAssumption
    <3> QED BY <1>8, <3>1
  <2> QED BY <2>2 DEF IndexMatchesSlots
<1> QED BY <1>1, <1>3, <1>9, <1>10

LEMMA SqlStepTypes ==
  ASSUME SqlTypeInv, [SqlNext]_everyVar
  PROVE  SqlTypeInv'
<1> USE DEF SqlTypeInv, SqlTypeOK
<1>1. ASSUME NEW p \in Process, Initialize(p) \/ SqlWrite(p) \/ ProcessRestarts(p)
      PROVE  SqlTypeInv'
  <2>1. TypeOK'
    BY <1>1, ProcessKeeps DEF TypeOK
  <2> QED BY <1>1, <2>1, TxTypes, SelectsStored
<1>2. CASE UNCHANGED <<rows, dialect, tx, initialized, snapshot>> /\ TypeOK'
  BY <1>2 DEF RecoversStored, Stored
<1>3. CASE SqlBootstrapRows
  BY <1>2, <1>3, SqlTable
<1>4. CASE SqlBootstrapRevision \/ SqlReadRevision
  <2>1. /\ BootstrapRevision \/ ReadRevision
        /\ FixesSnapshot /\ UNCHANGED <<dialect, tx, initialized>>
    BY <1>4 DEF SqlBootstrapRevision, SqlReadRevision
  <2>2. UNCHANGED dbVars
    BY <2>1 DEF BootstrapRevision, ReadRevision
  <2>3. TypeOK'
    BY <2>1, <2>2, WorkerStepTypes
  <2>4. snapshot' \in [Token -> Row \cup {NoRow}]
    BY <2>1, SnapshotTypes
  <2> QED BY <2>1, <2>2, <2>3, <2>4 DEF RecoversStored, Stored, dbVars
<1>5. CASE SqlReadRows
  <2>1. page' \in Page
    BY <1>5, SqlPage
  <2>2. /\ pc' = "page"
        /\ UNCHANGED <<dbVars, tableVars, scanRevision, restarts, dialect, tx, initialized, snapshot>>
    BY <1>5 DEF SqlReadRows
  <2>3. TypeOK'
    BY <2>1, <2>2 DEF TypeOK, DbTypeOK, dbVars, tableVars
  <2> QED BY <1>2, <2>2, <2>3 DEF dbVars
<1>6. CASE SqlApplyPage \/ SqlScanFails \/ UNCHANGED everyVar
  <2>1. /\ ApplyPage \/ ScanFails \/ UNCHANGED vars
        /\ UNCHANGED <<dbVars, dialect, tx, initialized, snapshot>>
    BY <1>6 DEF SqlApplyPage, SqlScanFails, ApplyPage, ScanFails, everyVar, vars, sqlVars, dbVars
  <2>2. TypeOK'
    BY <2>1, WorkerStepTypes
  <2> QED BY <1>2, <2>1, <2>2 DEF dbVars
<1>7. CASE SqlRestart
  <2>1. Restart /\ UNCHANGED dbVars /\ dialect' = dialect
        /\ tx' = [tx EXCEPT ![Me] = NoTx] /\ initialized' = initialized \ {Me}
        /\ snapshot' = Unread
    BY <1>7 DEF SqlRestart, Restart
  <2>2. TypeOK'
    BY <2>1, WorkerStepTypes
  <2>3. /\ tx' \in [Process -> Tx \cup {NoTx}] /\ initialized' \in SUBSET Process
        /\ snapshot' \in [Token -> Row \cup {NoRow}]
    BY <2>1 DEF Unread
  <2>4. \A p \in Process : tx'[p] # NoTx => tx'[p] = tx[p] /\ tx[p] # NoTx
    BY <2>1
  <2> QED BY <2>1, <2>2, <2>3, <2>4 DEF RecoversStored, Stored, dbVars
<1> QED BY <1>1, <1>3, <1>4, <1>5, <1>6, <1>7 DEF SqlNext, SqlSync

LEMMA SqlStarts == SqlInit => SqlTypeInv /\ IndexMatchesSlots
<1> SUFFICES ASSUME SqlInit PROVE SqlTypeInv /\ IndexMatchesSlots
  OBVIOUS
<1>1. TypeOK
  BY InitSync DEF SqlInit, SyncInv
<1>2. IndexMatchesSlots
  <2>1. \A p \in Pool : [pool |-> p, status |-> "active"] \in Slot
    BY DEF Slot, SlotStatus, Status
  <2> QED BY <2>1, NoSlotAssumption DEF SqlInit, Init, EmptyTable, IndexMatchesSlots
<1>3. SqlTypeOK
  BY <1>1 DEF SqlInit, SqlTypeOK, Unread
<1>4. RecoversStored
  BY DEF SqlInit, RecoversStored
<1> QED BY <1>2, <1>3, <1>4 DEF SqlTypeInv

LEMMA SqlStepIndex ==
  ASSUME SqlTypeInv, IndexMatchesSlots, [SqlNext]_everyVar
  PROVE  IndexMatchesSlots'
<1>1. CASE SqlApplyPage
  BY <1>1, ApplyIndex DEF SqlApplyPage, SqlTypeInv, SqlTypeOK
<1>2. CASE SqlBootstrapRows
  BY <1>2, SqlTable DEF SqlTypeInv
<1>3. CASE SqlRestart
  BY <1>3, EmptyIndex DEF SqlRestart, Restart
<1>4. CASE UNCHANGED <<slot, modeAvailable>>
  BY <1>4 DEF IndexMatchesSlots
<1>5. CASE \E p \in Process : Initialize(p) \/ SqlWrite(p) \/ ProcessRestarts(p)
  BY <1>4, <1>5, ProcessKeeps
<1>6. CASE SqlBootstrapRevision \/ SqlReadRevision \/ SqlReadRows \/ SqlScanFails \/ UNCHANGED everyVar
  <2>1. UNCHANGED <<slot, modeAvailable>>
    BY <1>6 DEF SqlBootstrapRevision, SqlReadRevision, SqlReadRows, SqlScanFails, BootstrapRevision,
                ReadRevision, ScanFails, everyVar, vars, tableVars
  <2> QED BY <1>4, <2>1
<1> QED BY <1>1, <1>2, <1>3, <1>5, <1>6 DEF SqlNext, SqlSync

(* The index is exact whatever the database sends, however old its snapshot  *)
(* and however often processes start and seed the revision (sync.py).        *)
THEOREM SqlIndexIsExact == SqlSpec => [](SqlTypeOK /\ IndexMatchesSlots)
<1>1. SqlTypeInv /\ IndexMatchesSlots /\ [SqlNext]_everyVar => (SqlTypeInv /\ IndexMatchesSlots)'
  BY SqlStepTypes, SqlStepIndex
<1>2. SqlTypeInv => SqlTypeOK
  BY DEF SqlTypeInv
<1> QED BY <1>1, <1>2, SqlStarts, PTL DEF SqlSpec

-----------------------------------------------------------------------------
(* The SQL store skips nothing: whoever bumps the revision row keeps it to   *)
(* the commit, so revisions are committed in the order in which they are     *)
(* handed out, with their rows; and no process seeds the row anew.           *)
SeededOnce == "mysql" \notin Dialects \cap Starting

Holds(p) == tx[p] # NoTx /\ tx[p].rev > 0

(* One transaction at most is past its bump, with the next revision. *)
RowHeld ==
  /\ \A p \in Process : Holds(p) => tx[p].rev = revision + 1
  /\ \A p, q \in Process : Holds(p) /\ Holds(q) => p = q

AllStarted == dialect = "mysql" => initialized = Process

(* The reader's snapshot is of the revision it has read: what was changed    *)
(* since is above it, and nothing in the snapshot is.                        *)
SnapshotFits ==
  dialect = "mysql" /\ pc \in {"boot", "rows"} =>
    \A t \in Token :
      /\ snapshot[t] = rows[t] \/ (rows[t] # NoRow /\ scanRevision < rows[t].rev)
      /\ snapshot[t] # NoRow => snapshot[t].rev <= scanRevision

SqlInv == SqlTypeInv /\ SyncInv /\ RowHeld /\ AllStarted /\ SnapshotFits

LEMMA SqlInvStarts == ASSUME SeededOnce PROVE SqlInit => SqlInv
<1> SUFFICES ASSUME SqlInit PROVE SqlInv
  OBVIOUS
<1>1. SyncInv /\ pc = "down"
  BY InitSync DEF SqlInit, Init
<1>2. RowHeld
  BY DEF SqlInit, RowHeld, Holds
<1>3. AllStarted
  BY DEF SqlInit, AllStarted, SeededOnce
<1>4. SnapshotFits
  BY <1>1 DEF SnapshotFits
<1> QED BY <1>1, <1>2, <1>3, <1>4, SqlStarts DEF SqlInv

(* While the rows are read, what the reader sees of a row is the row, or     *)
(* older, and then the row is above the revision the scan moves to.          *)
LEMMA SeenFits ==
  ASSUME SqlInv, pc \in {"boot", "rows"}, NEW t \in Token
  PROVE  /\ Seen[t] = rows[t] \/ (rows[t] # NoRow /\ scanRevision < rows[t].rev)
         /\ Seen[t] # NoRow => /\ rows[t] # NoRow /\ Seen[t] \in Row /\ Seen[t].rev \in Nat
                               /\ Seen[t].rev <= rows[t].rev
                               /\ Seen[t] = rows[t] \/ Seen[t].rev <= scanRevision
         /\ rows[t] # NoRow => rows[t] \in Row /\ rows[t].rev \in Nat
<1>1. /\ Seen[t] \in Row \cup {NoRow} /\ rows[t] \in Row \cup {NoRow} /\ scanRevision \in Nat
  BY SeenRows DEF SqlInv, SqlTypeInv, SqlTypeOK, TypeOK, DbTypeOK
<1>2. /\ Seen[t] # NoRow => Seen[t] \in Row /\ Seen[t].rev \in Nat
      /\ rows[t] # NoRow => rows[t] \in Row /\ rows[t].rev \in Nat
  BY <1>1 DEF Row
<1>3. CASE dialect = "mysql"
  <2>1. /\ Seen[t] = rows[t] \/ (rows[t] # NoRow /\ scanRevision < rows[t].rev)
        /\ Seen[t] # NoRow => Seen[t].rev <= scanRevision
    BY <1>3 DEF SqlInv, SnapshotFits, Seen
  <2> QED BY <1>1, <1>2, <2>1
<1>4. CASE dialect # "mysql"
  BY <1>2, <1>4 DEF Seen
<1> QED BY <1>3, <1>4

LEMMA CommitEffect ==
  ASSUME WholePages, SqlInv, NEW p \in Process, Commit(p)
  PROVE  DbInv' /\ Effect
<1>1. /\ DbTypeOK' /\ revision' = tx[p].rev
      /\ \A t \in Token : rows'[t] # rows[t] => rows'[t] # NoRow /\ rows'[t].rev = tx[p].rev
  BY CommitWrites DEF SqlInv
<1>2. tx[p].rev = revision + 1 /\ revision \in Nat
  BY DEF SqlInv, RowHeld, Holds, Commit, SqlTypeInv, SqlTypeOK, TypeOK, DbTypeOK
<1>3. Effect
  BY <1>1, <1>2 DEF Effect
<1>4. RevisionsBounded'
  <2>1. \A t \in Stored : rows[t].rev \in Nat /\ rows[t].rev <= revision
    BY DEF SqlInv, SyncInv, DbInv, DbTypeOK, RevisionsBounded, Stored, Row
  <2> QED BY <1>1, <1>2, <2>1 DEF RevisionsBounded, Stored
<1>5. RevisionsDistinct' /\ DbTypeOK'
  BY <1>1 DEF RevisionsDistinct
<1> QED BY <1>3, <1>4, <1>5 DEF DbInv

LEMMA QuietSync ==
  ASSUME SyncInv, restarts' \in Nat,
         UNCHANGED <<rows, revision, slot, modeAvailable, size, tableRevision, pc, scanRevision, page>>
  PROVE  SyncInv'
BY DEF SyncInv, TypeOK, DbTypeOK, DbInv, RevisionsBounded, RevisionsDistinct, Behind, PageInv,
       NoRowSkipped, Stored, Live, InPage, NextRevision, Unseen, Running, View, Truth

(* No process comes to initialize MySQL, so the revision stays as it is but  *)
(* for commits.                                                              *)
LEMMA InitializeKeeps ==
  ASSUME SqlInv, NEW p \in Process, Initialize(p)
  PROVE  dialect # "mysql" /\ revision' = revision
BY DEF SqlInv, AllStarted, Initialize, Seeded

LEMMA ProcessSync ==
  ASSUME WholePages, SqlInv, NEW p \in Process, Initialize(p) \/ SqlWrite(p) \/ ProcessRestarts(p)
  PROVE  SyncInv' /\ (Commit(p) \/ UNCHANGED <<rows, revision>>)
<1>1. /\ UNCHANGED <<slot, modeAvailable, size, tableRevision, pc, scanRevision, page>>
      /\ restarts' \in Nat
      /\ Commit(p) \/ (rows' = rows /\ (revision' = revision \/ Initialize(p)))
  BY ProcessKeeps DEF SqlInv
<1>2. CASE Commit(p)
  <2>1. UNCHANGED <<slot, modeAvailable, size, tableRevision, pc, scanRevision, page, restarts>>
    BY <1>2 DEF Commit, tableVars, scanVars
  <2> QED BY <1>2, <2>1, CommitEffect, EffectPreserves DEF SqlInv
<1>3. CASE ~Commit(p)
  <2>1. UNCHANGED <<rows, revision>>
    BY <1>1, <1>3, InitializeKeeps
  <2> QED BY <1>1, <2>1, QuietSync DEF SqlInv
<1> QED BY <1>2, <1>3

LEMMA ProcessHolds ==
  ASSUME SqlInv, NEW p \in Process, Initialize(p) \/ SqlWrite(p) \/ ProcessRestarts(p)
  PROVE  RowHeld'
<1> USE DEF RowHeld, Holds
<1>1. tx \in [Process -> Tx \cup {NoTx}] /\ revision \in Nat
  BY DEF SqlInv, SqlTypeInv, SqlTypeOK, TypeOK, DbTypeOK
<1>2. \A q \in Process : tx[q] # NoTx => tx[q].rev \in Nat
  BY <1>1 DEF Tx
<1>3. CASE \A q \in Process : Holds(q)' => Holds(q) /\ tx'[q] = tx[q] /\ revision' = revision
  BY <1>3 DEF SqlInv
<1>4. CASE /\ RevisionRowFree /\ revision' = revision
           /\ \A q \in Process \ {p} : tx'[q] = tx[q]
           /\ Holds(p)' => tx'[p].rev = revision + 1
  <2>1. \A q \in Process : ~Holds(q)
    BY <1>2, <1>4 DEF RevisionRowFree
  <2> QED BY <1>4, <2>1
<1>5. ASSUME NEW op, NEW pool, NEW S, BeginTransaction(p, op, pool, S) PROVE RowHeld'
  <2>1. tx'[p].rev = revision + 1 /\ RevisionRowFree /\ revision' = revision
        /\ \A q \in Process \ {p} : tx'[q] = tx[q]
    BY <1>1, <1>5 DEF BeginTransaction, Holding, dbVars
  <2> QED BY <1>4, <2>1
<1>6. ASSUME NEW op, NEW S, Select(p, op, S) PROVE RowHeld'
  <2>1. /\ tx'[p].rev = 0 /\ revision' = revision /\ \A q \in Process \ {p} : tx'[q] = tx[q]
    BY <1>1, <1>6 DEF Select, dbVars
  <2> QED BY <1>3, <2>1
<1>7. ASSUME Bump(p) PROVE RowHeld'
  <2>1. /\ tx[p] \in Tx /\ RevisionRowFree /\ revision' = revision
        /\ tx' = [tx EXCEPT ![p].rev = revision + 1]
    BY <1>1, <1>7 DEF Bump, dbVars
  <2>2. tx'[p].rev = revision + 1 /\ \A q \in Process \ {p} : tx'[q] = tx[q]
    BY <1>1, <2>1 DEF Tx
  <2> QED BY <1>4, <2>1, <2>2
<1>8. ASSUME Commit(p) PROVE RowHeld'
  <2>1. Holds(p) /\ tx[p] \in Tx /\ tx'[p] = Following(tx[p]) /\ \A q \in Process \ {p} : tx'[q] = tx[q]
    BY <1>1, <1>8 DEF Commit
  <2>2. [tx[p] EXCEPT !.op = "upsert", !.rev = 0].rev = 0
    BY <2>1 DEF Tx
  <2>3. ~Holds(p)'
    BY <2>1, <2>2 DEF Following
  <2>4. \A q \in Process \ {p} : ~Holds(q)'
    BY <2>1 DEF SqlInv
  <2> QED BY <2>3, <2>4
<1>9. CASE Initialize(p)
  BY <1>3, <1>9, InitializeKeeps DEF Initialize
<1>10. CASE ProcessRestarts(p) \/ RollBack(p)
  <2>1. tx' = [tx EXCEPT ![p] = NoTx] /\ revision' = revision
    BY <1>10 DEF ProcessRestarts, RollBack, dbVars
  <2> QED BY <1>1, <1>3, <2>1
<1>11. CASE SqlWrite(p)
  <2>1. CASE \E pool \in Pool, S \in SmallWrites : BeginTransaction(p, "upsert", pool, S)
    BY <1>5, <2>1
  <2>2. CASE \E op \in {"delete"} \cup PatchKind, S \in SmallWrites :
               BeginTransaction(p, op, CHOOSE x \in Pool : TRUE, S)
    BY <1>5, <2>2
  <2>3. CASE \E pool \in Pool, S \in {{}} \cup SmallWrites : BeginTransaction(p, "replace", pool, S)
    BY <1>5, <2>3
  <2>4. CASE \E due \in SUBSET Token : due \cap InStatus("active") # {} /\ Select(p, "reset", due)
    BY <1>6, <2>4
  <2>5. CASE \E S \in SUBSET InStatus("expired") : S # {} /\ Select(p, "recover", S)
    BY <1>6, <2>5
  <2> QED BY <1>7, <1>8, <1>10, <1>11, <2>1, <2>2, <2>3, <2>4, <2>5 DEF SqlWrite
<1> QED BY <1>9, <1>10, <1>11

LEMMA ProcessFits ==
  ASSUME WholePages, SeededOnce, SqlInv, NEW p \in Process,
         Initialize(p) \/ SqlWrite(p) \/ ProcessRestarts(p)
  PROVE  SqlInv'
<1>1. SqlTypeInv' /\ UNCHANGED <<dialect, snapshot, pc, scanRevision>>
  <2>1. [SqlNext]_everyVar
    BY DEF SqlNext
  <2> QED BY <2>1, SqlStepTypes, TxTypes, ProcessKeeps DEF SqlInv
<1>2. SyncInv' /\ RowHeld' /\ (Commit(p) \/ UNCHANGED <<rows, revision>>)
  BY ProcessSync, ProcessHolds
<1>3. AllStarted'
  <2>1. dialect = "mysql" => ~Initialize(p) /\ ~ProcessRestarts(p)
    BY InitializeKeeps DEF ProcessRestarts, SeededOnce, SqlInv, SqlTypeInv, SqlTypeOK
  <2>2. SqlWrite(p) => initialized' = initialized
    BY DEF SqlWrite, BeginTransaction, Select, Bump, Commit, RollBack
  <2> QED BY <1>1, <2>1, <2>2 DEF SqlInv, AllStarted
<1>4. SnapshotFits'
  <2>1. CASE UNCHANGED <<rows, revision>>
    BY <1>1, <2>1 DEF SqlInv, SnapshotFits
  <2>2. CASE Commit(p)
    <3>1. Effect /\ scanRevision \in Nat /\ revision \in Nat /\ scanRevision <= revision
      BY <2>2, CommitEffect DEF SqlInv, SyncInv, Behind, TypeOK, DbTypeOK
    <3>2. \A t \in Token : rows'[t] # NoRow => rows'[t].rev \in Nat
      BY <1>2 DEF SyncInv, TypeOK, DbTypeOK, Row
    <3>3. \A t \in Token : rows'[t] # rows[t] => rows'[t] # NoRow /\ scanRevision < rows'[t].rev
      BY <3>1, <3>2 DEF Effect
    <3>4. ASSUME dialect' = "mysql", pc' \in {"boot", "rows"}, NEW t \in Token
          PROVE  /\ snapshot'[t] = rows'[t] \/ (rows'[t] # NoRow /\ scanRevision' < rows'[t].rev)
                 /\ snapshot'[t] # NoRow => snapshot'[t].rev <= scanRevision'
      BY <1>1, <3>3, <3>4 DEF SqlInv, SnapshotFits
    <3> QED BY <3>4 DEF SnapshotFits
  <2> QED BY <1>2, <2>1, <2>2
<1> QED BY <1>1, <1>2, <1>3, <1>4 DEF SqlInv

(* A step of the worker leaves the transactions of the others alone. *)
LEMMA WorkerKeepsHolds ==
  ASSUME SqlInv, revision' = revision,
         tx' = tx \/ tx' = [tx EXCEPT ![Me] = NoTx]
  PROVE  RowHeld'
<1>1. tx \in [Process -> Tx \cup {NoTx}]
  BY DEF SqlInv, SqlTypeInv, SqlTypeOK
<1>2. \A p \in Process : Holds(p)' => Holds(p) /\ tx'[p] = tx[p]
  BY <1>1 DEF Holds
<1> QED BY <1>2 DEF SqlInv, RowHeld

LEMMA RevisionReadFits ==
  ASSUME SqlInv, SqlBootstrapRevision \/ SqlReadRevision
  PROVE  SqlInv'
<1>1. /\ BootstrapRevision \/ ReadRevision
      /\ FixesSnapshot /\ UNCHANGED <<dialect, tx, initialized>>
  BY DEF SqlBootstrapRevision, SqlReadRevision
<1>2. scanRevision' = revision /\ UNCHANGED <<rows, revision>>
  BY <1>1 DEF BootstrapRevision, ReadRevision, dbVars
<1>3. SyncInv'
  BY <1>1, BootstrapPreserves, ReadRevisionPreserves DEF SqlInv
<1>4. SqlTypeInv'
  <2>1. [SqlNext]_everyVar
    BY DEF SqlNext, SqlSync
  <2> QED BY <2>1, SqlStepTypes DEF SqlInv
<1>5. SnapshotFits'
  <2>1. \A t \in Token : rows[t] # NoRow => rows[t].rev <= revision
    BY DEF SqlInv, SyncInv, DbInv, RevisionsBounded, Stored
  <2>2. dialect' = "mysql" => snapshot' = rows
    BY <1>1 DEF FixesSnapshot
  <2> QED BY <1>2, <2>1, <2>2 DEF SnapshotFits
<1>6. AllStarted' /\ RowHeld'
  BY <1>1, <1>2, WorkerKeepsHolds DEF SqlInv, AllStarted
<1> QED BY <1>3, <1>4, <1>5, <1>6 DEF SqlInv

LEMMA SqlTableFits ==
  ASSUME SqlInv, SqlBootstrapRows
  PROVE  SqlInv'
<1>1. /\ pc = "boot" /\ pc' = "idle" /\ tableRevision' = scanRevision
      /\ UNCHANGED <<rows, revision, scanRevision, page, restarts, dialect, tx, initialized, snapshot>>
      /\ \A t \in Token : slot'[t] = IF Seen[t] # NoRow /\ ~Seen[t].deleted
                                       THEN RecordToSlot(Seen[t]) ELSE NoSlot
      /\ TypeOK'
  BY SqlTable DEF SqlInv, SqlTypeInv
<1>2. DbInv' /\ \A t \in Token : Truth(t)' = Truth(t)
  BY <1>1, DbUnchanged DEF SqlInv, SyncInv, dbVars
<1>3. Behind' /\ PageInv'
  BY <1>1 DEF SqlInv, SyncInv, Behind, PageInv
<1>4. NoRowSkipped'
  <2> SUFFICES ASSUME NEW t \in Token \ Unseen' PROVE View(t)' = Truth(t)
    BY <1>2 DEF NoRowSkipped
  <2>1. rows[t] # NoRow => rows[t].rev <= scanRevision /\ rows[t].rev \in Nat
    <3>1. rows[t] # NoRow => ~(rows[t].rev > scanRevision)
      BY <1>1 DEF Unseen, Stored
    <3>2. scanRevision \in Nat
      BY DEF SqlInv, SyncInv, TypeOK
    <3> QED BY <1>1, <3>1, <3>2, SeenFits
  <2>2. Seen[t] = rows[t]
    <3>1. scanRevision \in Nat
      BY DEF SqlInv, SyncInv, TypeOK
    <3> QED BY <1>1, <2>1, <3>1, SeenFits
  <2>3. rows[t] # NoRow => rows[t] \in Row
    BY <1>1, SeenFits
  <2>4. CASE rows[t] # NoRow /\ ~rows[t].deleted
    <3>1. slot'[t] = RecordToSlot(rows[t])
      BY <1>1, <2>2, <2>4
    <3>2. slot'[t] # NoSlot /\ slot'[t].status # "deleted"
      BY <2>3, <2>4, <3>1, SlotOps
    <3> QED BY <2>4, <3>1, <3>2 DEF View, Truth, Live, Stored
  <2>5. CASE ~(rows[t] # NoRow /\ ~rows[t].deleted)
    <3>1. slot'[t] = NoSlot
      BY <1>1, <2>2, <2>5
    <3> QED BY <2>5, <3>1 DEF View, Truth, Live, Stored
  <2> QED BY <2>4, <2>5
<1>5. SqlTypeInv'
  <2>1. [SqlNext]_everyVar
    BY DEF SqlNext, SqlSync
  <2> QED BY <2>1, SqlStepTypes DEF SqlInv
<1>6. AllStarted' /\ RowHeld' /\ SnapshotFits'
  BY <1>1, WorkerKeepsHolds DEF SqlInv, AllStarted, SnapshotFits
<1> QED BY <1>1, <1>2, <1>3, <1>4, <1>5, <1>6 DEF SqlInv, SyncInv

LEMMA SqlPageFits ==
  ASSUME WholePages, SqlInv, SqlReadRows
  PROVE  SqlInv'
<1> USE DEF SqlInv
<1>1. /\ pc = "rows" /\ pc' = "page"
      /\ UNCHANGED <<rows, revision, slot, modeAvailable, size, tableRevision, scanRevision, restarts,
                     dialect, tx, initialized, snapshot>>
  BY DEF SqlReadRows, dbVars, tableVars
<1>2. PICK B \in SUBSET SeenChanged, m \in Nat :
        /\ B = SeenChanged \/ Cardinality(B) = BatchLimit
        /\ \/ B = {} /\ m = 0
           \/ (\E t \in B : Seen[t].rev = m) /\ (\A t \in B : Seen[t].rev <= m)
        /\ page' = [rows    |-> [t \in Token |-> IF t \in B THEN Seen[t] ELSE NoRow],
                    hasMore |-> Cardinality(B) = BatchLimit,
                    max     |-> m]
        /\ page' \in Page
  BY SqlPage DEF SqlTypeInv
<1>3. SeenChanged \subseteq Token /\ \A t \in SeenChanged : Seen[t] # NoRow
  BY DEF SeenChanged
<1>4. B = SeenChanged
  <2>1. CASE Cardinality(B) = BatchLimit
    <3>1. B \subseteq Token /\ Cardinality(B) <= Cardinality(Token)
      BY <1>3, CardinalityOfTokens
    <3>2. Cardinality(B) = Cardinality(Token)
      BY <2>1, <3>1, CardinalityOfTokens, SyncAssumption DEF WholePages
    <3>3. B = Token
      BY <3>1, <3>2, FS_Subset, TokenAssumption
    <3> QED BY <1>3, <3>3
  <2> QED BY <1>2, <2>1
<1>5. /\ scanRevision \in Nat /\ tableRevision \in Nat /\ revision \in Nat
      /\ scanRevision <= revision /\ tableRevision <= revision
  BY DEF SyncInv, TypeOK, DbTypeOK, Behind
<1>6. \A t \in Token :
        /\ Seen[t] = rows[t] \/ (rows[t] # NoRow /\ scanRevision < rows[t].rev)
        /\ Seen[t] # NoRow => /\ rows[t] # NoRow /\ Seen[t] \in Row /\ Seen[t].rev \in Nat
                              /\ Seen[t].rev <= rows[t].rev
                              /\ Seen[t] = rows[t] \/ Seen[t].rev <= scanRevision
        /\ rows[t] # NoRow => rows[t] \in Row /\ rows[t].rev \in Nat
  BY <1>1, SeenFits
<1>7. \A t \in Stored : rows[t].rev <= revision
  BY DEF SyncInv, DbInv, RevisionsBounded
<1>8. /\ \A t \in Token : page'.rows[t] = IF t \in B THEN Seen[t] ELSE NoRow
      /\ InPage' = B
      /\ NextRevision' = IF Cardinality(B) = BatchLimit THEN m ELSE scanRevision
  <2>1. \A t \in Token : page'.rows[t] = IF t \in B THEN Seen[t] ELSE NoRow
    BY <1>2
  <2>2. InPage' = B
    BY <1>3, <1>4, <2>1 DEF InPage
  <2> QED BY <1>1, <1>2, <2>1, <2>2 DEF NextRevision
<1>9. NextRevision' \in Nat /\ NextRevision' <= revision'
  <2>1. m <= revision
    BY <1>2, <1>3, <1>4, <1>5, <1>6, <1>7 DEF Stored
  <2> QED BY <1>1, <1>5, <1>8, <2>1
<1>10. ASSUME NEW t \in InPage'
       PROVE  /\ t \in Stored' /\ tableRevision' < page'.rows[t].rev
              /\ page'.rows[t].rev <= rows'[t].rev
  <2>1. t \in Token /\ Seen[t] # NoRow /\ Seen[t].rev > tableRevision /\ page'.rows[t] = Seen[t]
    BY <1>3, <1>4, <1>8, <1>10 DEF SeenChanged
  <2> QED BY <1>1, <1>5, <1>6, <2>1 DEF Stored
<1>11. ASSUME NEW t \in Unseen', rows'[t].rev <= NextRevision'
       PROVE  page'.rows[t] = rows'[t]
  <2>1. t \in Token /\ rows[t] # NoRow /\ rows[t].rev > tableRevision /\ rows[t].rev \in Nat
    BY <1>1, <1>6, <1>11 DEF Unseen, Stored
  <2>2. Seen[t] = rows[t]
    <3>1. CASE NextRevision' = scanRevision
      BY <1>1, <1>5, <1>6, <1>11, <2>1, <3>1
    <3>2. CASE NextRevision' # scanRevision
      <4>1. Cardinality(B) = BatchLimit /\ NextRevision' = m
        BY <1>8, <3>2
      <4>2. CASE m <= scanRevision
        BY <1>1, <1>5, <1>6, <1>11, <2>1, <4>1, <4>2
      <4>3. CASE ~(m <= scanRevision)
        <5>1. PICK u \in B : Seen[u].rev = m
          BY <1>2, <1>5, <4>3
        <5>2. u \in Token /\ Seen[u] # NoRow
          BY <1>3
        <5>3. ~(Seen[u].rev <= scanRevision)
          BY <4>3, <5>1
        <5>4. dialect # "mysql"
          BY <1>1, <5>2, <5>3 DEF SnapshotFits, Seen
        <5> QED BY <5>4 DEF Seen
      <4> QED BY <4>2, <4>3
    <3> QED BY <3>1, <3>2
  <2>3. t \in B
    BY <1>4, <2>1, <2>2 DEF SeenChanged
  <2> QED BY <1>1, <1>8, <2>1, <2>2, <2>3
<1>12. PageInv'
  BY <1>9, <1>10, <1>11 DEF PageInv
<1>13. DbInv' /\ Behind' /\ NoRowSkipped'
  <2>1. DbInv'
    BY <1>1, DbUnchanged DEF SyncInv, dbVars
  <2>2. Behind' /\ NoRowSkipped'
    BY <1>1 DEF SyncInv, Behind, NoRowSkipped, Running, Unseen, Stored, Live, View, Truth
  <2> QED BY <2>1, <2>2
<1>14. SqlTypeInv'
  <2>1. [SqlNext]_everyVar
    BY DEF SqlNext, SqlSync
  <2> QED BY <2>1, SqlStepTypes
<1>15. SyncInv'
  BY <1>12, <1>13, <1>14 DEF SyncInv, SqlTypeInv, SqlTypeOK
<1>16. AllStarted' /\ RowHeld' /\ SnapshotFits'
  BY <1>1, WorkerKeepsHolds DEF AllStarted, SnapshotFits
<1> QED BY <1>14, <1>15, <1>16

LEMMA SqlStep ==
  ASSUME WholePages, SeededOnce, SqlInv, [SqlNext]_everyVar
  PROVE  SqlInv'
<1>1. SqlTypeInv'
  BY SqlStepTypes DEF SqlInv
<1>2. CASE SqlApplyPage \/ SqlScanFails
  <2>1. /\ ApplyPage \/ ScanFails
        /\ UNCHANGED <<rows, revision, dialect, tx, initialized, snapshot>>
        /\ pc' \notin {"boot", "rows"}
    BY <1>2 DEF SqlApplyPage, SqlScanFails, ApplyPage, ScanFails, sqlVars, dbVars
  <2>2. SyncInv'
    BY <2>1, ApplyPreserves, ReadRevisionPreserves DEF SqlInv
  <2> QED BY <1>1, <2>1, <2>2, WorkerKeepsHolds DEF SqlInv, AllStarted, SnapshotFits
<1>3. CASE SqlRestart
  <2>1. /\ Restart /\ UNCHANGED <<rows, revision, dialect>> /\ pc' = "down"
        /\ tx' = [tx EXCEPT ![Me] = NoTx] /\ dialect \in Starting
    BY <1>3 DEF SqlRestart, Restart, dbVars
  <2>2. SyncInv'
    BY <2>1, RestartPreserves DEF SqlInv
  <2>3. dialect # "mysql"
    BY <2>1 DEF SeededOnce, SqlInv, SqlTypeInv, SqlTypeOK
  <2> QED BY <1>1, <2>1, <2>2, <2>3, WorkerKeepsHolds DEF SqlInv, AllStarted, SnapshotFits
<1>4. CASE UNCHANGED everyVar
  <2>1. /\ UNCHANGED <<rows, revision, slot, modeAvailable, size, tableRevision, pc, scanRevision, page,
                       restarts, dialect, tx, initialized, snapshot>>
    BY <1>4 DEF everyVar, vars
  <2>2. SyncInv'
    BY <2>1, QuietSync DEF SqlInv, SyncInv, TypeOK
  <2> QED BY <1>1, <2>1, <2>2, WorkerKeepsHolds DEF SqlInv, AllStarted, SnapshotFits
<1> QED BY <1>2, <1>3, <1>4, ProcessFits, RevisionReadFits, SqlTableFits, SqlPageFits
        DEF SqlNext, SqlSync

LEMMA SqlInvariant ==
  ASSUME WholePages, SeededOnce
  PROVE  SqlSpec => []SqlInv
<1>1. SqlInv /\ [SqlNext]_everyVar => SqlInv'
  BY SqlStep
<1> QED BY <1>1, SqlInvStarts, PTL DEF SqlSpec

(* MySQL and PostgreSQL serve the sync as well, although transactions begin  *)
(* and commit in any order while a page is read, from a snapshot or not, and *)
(* processes die in them: the table never moves past a row it has not read.  *)
(* A page must hold the store, as the patrol and the recovery write many     *)
(* rows at one revision, and nobody may seed MySQL's revision anew (sql.py). *)
THEOREM SqlSkipsNothing ==
  ASSUME WholePages, SeededOnce
  PROVE  SqlSpec => []NoRowSkipped
<1>1. SqlInv => NoRowSkipped
  BY DEF SqlInv, SyncInv
<1> QED BY <1>1, SqlInvariant, PTL

-----------------------------------------------------------------------------
(* The SQL store under the sync is a replica as well.                        *)
LEMMA SqlStepLooks ==
  ASSUME WholePages, SeededOnce, SqlInv, SqlInv', [SqlNext]_everyVar
  PROVE  LooksLikeWrite \/ LooksLikeDeliver \/ LooksLikeForget
<1> USE DEF SqlInv
<1>0. /\ \A t \in Token : t \notin Dirty' => View(t)' = Truth(t)'
      /\ Dirty' \subseteq Token /\ Dirty \subseteq Token
  BY DEF SyncInv, Dirty, NoRowSkipped, Unseen, Stored
<1>1. ASSUME NEW p \in Process, Initialize(p) \/ SqlWrite(p) \/ ProcessRestarts(p)
      PROVE  LooksLikeWrite \/ LooksLikeDeliver
  <2>1. UNCHANGED <<slot, tableRevision, pc>> /\ (Commit(p) \/ UNCHANGED <<rows, revision>>)
    BY <1>1, ProcessKeeps, ProcessSync
  <2>2. CASE Commit(p)
    BY <2>1, <2>2, CommitEffect, EffectLooks
  <2>3. CASE UNCHANGED <<rows, revision>>
    BY <2>1, <2>3, QuietScanDelivers DEF QuietScan, Running
  <2> QED BY <2>1, <2>2, <2>3
<1>2. CASE SqlBootstrapRows
  <2>1. /\ \A t \in Token : Truth(t)' = Truth(t)
        /\ Dirty = Token
    BY <1>2, DbUnchanged DEF SqlBootstrapRows, SyncInv, Dirty, Running
  <2> QED BY <1>0, <2>1 DEF LooksLikeDeliver
<1>3. CASE SqlApplyPage
  <2>1. ApplyPage /\ \A t \in Token : Truth(t)' = Truth(t)
    BY <1>3, DbUnchanged DEF SqlApplyPage, ApplyPage, SyncInv
  <2>2. Dirty = Unseen /\ Dirty' = Unseen'
    BY <2>1 DEF ApplyPage, Dirty, Running
  <2> QED BY <1>0, <2>1, <2>2, ApplyTouchesUnseen DEF LooksLikeDeliver
<1>4. CASE SqlRestart
  <2>1. Restart /\ \A t \in Token : Truth(t)' = Truth(t)
    BY <1>4, DbUnchanged DEF SqlRestart, Restart, SyncInv
  <2> QED BY <2>1 DEF LooksLikeForget, Restart, View, Dirty, Running
<1>5. CASE \/ SqlBootstrapRevision \/ SqlReadRevision \/ SqlReadRows \/ SqlScanFails
           \/ UNCHANGED everyVar
  <2>1. UNCHANGED <<rows, slot, tableRevision>> /\ Running' = Running
    BY <1>5 DEF SqlBootstrapRevision, SqlReadRevision, SqlReadRows, SqlScanFails, BootstrapRevision,
                ReadRevision, ScanFails, everyVar, vars, dbVars, tableVars, Running
  <2> QED BY <2>1, QuietScanDelivers DEF QuietScan
<1> QED BY <1>1, <1>2, <1>3, <1>4, <1>5 DEF SqlNext, SqlSync

(* So a key of the table that is not behind shows what MySQL or PostgreSQL   *)
(* have committed, as Replica says.                                          *)
THEOREM SqlImplementsReplica ==
  ASSUME WholePages, SeededOnce
  PROVE  SqlSpec => ReplicaSpec
<1>1. SqlInit => Abs!Init
  BY StartsAsReplica DEF SqlInit
<1>2. SqlInv /\ SqlInv' /\ [SqlNext]_everyVar => [Abs!Next]_(Abs!rvars)
  BY SqlStepLooks, LooksAreSteps DEF SqlInv, SyncInv
<1>3. SqlInv /\ [SqlNext]_everyVar => SqlInv'
  BY SqlStep
<1> QED BY <1>1, <1>2, <1>3, SqlInvStarts, PTL DEF SqlSpec, ReplicaSpec, Abs!Spec
=============================================================================

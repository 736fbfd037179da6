---------------------------- MODULE MediaCache ----------------------------
(***************************************************************************)
(* The files of one media type and the index that lists them (class         *)
(* LocalMediaCacheStore of media_cache.py). Worker processes share the      *)
(* files, the SQLite index and a lock file; each has its own copy of the    *)
(* configured limit. With a limit of 0 a save takes no lock and leaves the  *)
(* index alone. Times are ranks of writes: the clock ticks at each one.     *)
(***************************************************************************)
EXTENDS Naturals, FiniteSets, FiniteSetsExt

CONSTANTS Worker, Thread, Home,  \* the process of each thread
          Keeper,                \* threads that serve the admin pages
          File, Size, Limit,     \* sizes and limits in one unit
          Stock,                 \* what an earlier run has left, at most one file
          Nobody,
          MaxWrites, MaxUpsets   \* bounds

ASSUME CacheAssumption ==
  /\ Home \in [Thread -> Worker] /\ Keeper \subseteq Thread
  /\ Size \in [File -> Nat \ {0}] /\ Limit \subseteq Nat
  /\ Stock \subseteq File /\ Cardinality(Stock) <= 1 /\ Nobody \notin Thread
  /\ IsFiniteSet(Thread) /\ IsFiniteSet(File)

VARIABLES disk,     \* file -> when it was written, 0 when there is none
          rows,     \* file -> created_at of its committed row, 0 when there is none
          guard,    \* who holds the lock
          config,   \* the limit as stored
          limit,    \* worker -> the limit as loaded
          op,       \* thread -> its operation
          clock,
          drift,    \* the index may differ from the files (history)
          settled,  \* limit of the last trim, 0 before one (history)
          kept,     \* what that trim had to keep (history)
          upsets    \* removals, changes of the limit and crashes so far

ghosts == <<drift, settled, kept>>
cache  == <<disk, rows, guard, config, limit, op, clock, ghosts, upsets>>

Idle    == [kind |-> "none"]
Waiting(kind, f) == [kind |-> kind, file |-> f]
At(t, stage) == op[t].kind = stage

OnDisk     == {f \in File : disk[f] > 0}
Indexed(r) == {f \in File : r[f] > 0}
Bytes(S)   == MapThenSumSet(LAMBDA f : Size[f], S)
Newest(r)  == {f \in Indexed(r) : \A g \in Indexed(r) : r[g] <= r[f]}
Oldest(S, r) == CHOOSE f \in S : \A g \in S : r[f] <= r[g]
Target(m)  == (m * 3) \div 5

-----------------------------------------------------------------------------
(* Helpers of an operation under the lock *)

\* Mutant: what was just saved may go.
TrimNewestOnly(r, m, saved) ==
  [kind |-> "trim", rows |-> r, saved |-> saved, limit |-> m, safe |-> Newest(r),
   rest |-> IF m > 0 /\ Bytes(Indexed(r)) > m THEN Indexed(r) \ Newest(r) ELSE {}]

\* Mutant: the size is taken before the new row.
TrimBeforeRow(r, m, saved) ==
  [kind |-> "trim", rows |-> r, saved |-> saved, limit |-> m, safe |-> saved \cup Newest(r),
   rest |-> IF m > 0 /\ Bytes(Indexed(rows)) > m THEN Indexed(r) \ (saved \cup Newest(r)) ELSE {}]

\* _enforce_limit_locked up to its loop: what the trim may take, and how far it goes.
Trim(r, m, saved) ==
  LET safe == saved \cup Newest(r)
      over == m > 0 /\ Bytes(Indexed(r)) > m
  IN  [kind |-> "trim", rows |-> r, saved |-> saved, limit |-> m, safe |-> safe,
       rest |-> IF over THEN Indexed(r) \ safe ELSE {}]

\* The row of a file that is there already keeps its created_at.
Upserted(f) == IF rows[f] > 0 THEN rows[f] ELSE disk[f]

EvictedRowKept(r, f) == r
\* The rows without the file that was unlinked.
Evicted(r, f) == [r EXCEPT ![f] = 0]

\* The loop goes on while the index is above the low watermark.
Trimming(t) == /\ At(t, "trim")
               /\ Bytes(Indexed(op[t].rows)) > Target(op[t].limit)
               /\ op[t].rest # {}

Unlocked == guard' = Nobody
Writes(f) == /\ clock < MaxWrites
             /\ clock' = clock + 1
             /\ disk' = [disk EXCEPT ![f] = clock + 1]

-----------------------------------------------------------------------------
(* Saves *)

\* A save with a limit waits for the lock of its media type.
AsksToSave(t, f) ==
  /\ op[t] = Idle /\ limit[Home[t]] > 0
  /\ op' = [op EXCEPT ![t] = Waiting("save", f)]
  /\ UNCHANGED <<disk, rows, guard, config, limit, clock, ghosts, upsets>>

\* A save without one writes the file if it is missing.
SavesUncounted(t, f) ==
  /\ op[t] = Idle /\ limit[Home[t]] = 0
  /\ \/ disk[f] > 0 /\ UNCHANGED <<disk, clock, drift>>
     \/ disk[f] = 0 /\ Writes(f) /\ drift' = TRUE
  /\ UNCHANGED <<rows, guard, config, limit, op, settled, kept, upsets>>

\* Under the lock: the file and its row, in a transaction that is open until the trim ends.
Saves(t) ==
  /\ At(t, "save") /\ guard = Nobody /\ guard' = t
  /\ LET f == op[t].file IN
     \/ /\ disk[f] > 0
        /\ op' = [op EXCEPT ![t] = Trim([rows EXCEPT ![f] = Upserted(f)], limit[Home[t]], {f})]
        /\ UNCHANGED <<disk, clock>>
     \/ /\ disk[f] = 0 /\ Writes(f)
        /\ op' = [op EXCEPT ![t] = Trim([rows EXCEPT ![f] = clock + 1], limit[Home[t]], {f})]
  /\ UNCHANGED <<rows, config, limit, ghosts, upsets>>

\* The write fails, or the index, shared with the other media type, is busy for too long: the
\* exception leaves the lock, and in the second case a file without a row.
SaveFails(t) ==
  /\ At(t, "save") /\ guard = Nobody
  /\ LET f == op[t].file IN
     \/ UNCHANGED <<disk, clock, drift>>
     \/ disk[f] = 0 /\ Writes(f) /\ drift' = TRUE
  /\ op' = [op EXCEPT ![t] = Idle]
  /\ UNCHANGED <<rows, guard, config, limit, settled, kept, upsets>>

-----------------------------------------------------------------------------
(* The trim: oldest first, a file unlinked before its row goes *)

Evicts(t) ==
  /\ Trimming(t)
  /\ LET f == Oldest(op[t].rest, op[t].rows) IN
     /\ disk' = [disk EXCEPT ![f] = 0]
     /\ op' = [op EXCEPT ![t].rest = @ \ {f}, ![t].rows = Evicted(@, f)]
  /\ UNCHANGED <<rows, guard, config, limit, clock, ghosts, upsets>>

\* unlink raises: the file and its row stay.
EvictFails(t) ==
  /\ Trimming(t)
  /\ LET f == Oldest(op[t].rest, op[t].rows) IN
     /\ disk[f] > 0
     /\ op' = [op EXCEPT ![t].rest = @ \ {f}, ![t].safe = @ \cup {f}]
  /\ UNCHANGED <<disk, rows, guard, config, limit, clock, ghosts, upsets>>

Commits(t) ==
  /\ At(t, "trim") /\ ~ Trimming(t)
  /\ rows' = op[t].rows
  /\ settled' = op[t].limit /\ kept' = op[t].safe
  /\ Unlocked /\ op' = [op EXCEPT ![t] = Idle]
  /\ UNCHANGED <<disk, config, limit, clock, drift, upsets>>

\* reconcile, with a limit: the index is rebuilt from the files. Without one it returns.
Reconciles(t) ==
  /\ At(t, "reconcile")
  /\ \/ /\ limit[Home[t]] = 0 /\ op' = [op EXCEPT ![t] = Idle]
        /\ UNCHANGED <<guard, drift>>
     \/ /\ limit[Home[t]] > 0 /\ guard = Nobody /\ guard' = t
        /\ op' = [op EXCEPT ![t] = Trim(disk, limit[Home[t]], {})]
        /\ drift' = FALSE
  /\ UNCHANGED <<disk, rows, config, limit, clock, settled, kept, upsets>>

-----------------------------------------------------------------------------
(* Removals: delete for one file, clear for all *)

RemovalBegins(t) ==
  /\ op[t] = Idle /\ guard = Nobody /\ upsets < MaxUpsets
  /\ \E gone \in {File} \cup {{f} : f \in File} :
       op' = [op EXCEPT ![t] = [kind |-> "remove", gone |-> gone, rest |-> gone \cap OnDisk]]
  /\ guard' = t
  /\ upsets' = upsets + 1
  /\ UNCHANGED <<disk, rows, config, limit, clock, ghosts>>

Unlinks(t) ==
  /\ At(t, "remove")
  /\ \E f \in op[t].rest :
       /\ disk' = [disk EXCEPT ![f] = 0]
       /\ op' = [op EXCEPT ![t].rest = @ \ {f}]
  /\ UNCHANGED <<rows, guard, config, limit, clock, ghosts, upsets>>

\* Rows go in a transaction of their own once the files are gone.
Unindexed(r, gone) == [f \in File |-> IF f \in gone THEN 0 ELSE r[f]]

RemovalEnds(t) ==
  /\ At(t, "remove") /\ op[t].rest = {}
  /\ rows' = Unindexed(rows, op[t].gone)
  /\ Unlocked /\ op' = [op EXCEPT ![t] = Idle]
  /\ UNCHANGED <<disk, config, limit, clock, ghosts, upsets>>

\* unlink raises, or the index is busy: what was unlinked before stays in the index.
RemovalFails(t) ==
  /\ At(t, "remove")
  /\ Unlocked /\ op' = [op EXCEPT ![t] = Idle]
  /\ drift' = (drift \/ op[t].rest # op[t].gone)
  /\ UNCHANGED <<disk, rows, config, limit, clock, settled, kept, upsets>>

-----------------------------------------------------------------------------
(* Configuration and processes *)

\* The admin page stores a limit, loads it and reconciles; the others load it later.
SavesLimit(t, m) ==
  /\ op[t] = Idle /\ m # config /\ upsets < MaxUpsets
  /\ config' = m /\ limit' = [limit EXCEPT ![Home[t]] = m]
  /\ op' = [op EXCEPT ![t] = Waiting("reconcile", Nobody)]
  /\ upsets' = upsets + 1
  /\ UNCHANGED <<disk, rows, guard, clock, ghosts>>

LoadsLimit(w) ==
  /\ limit[w] # config
  /\ limit' = [limit EXCEPT ![w] = config]
  /\ UNCHANGED <<disk, rows, guard, config, op, clock, ghosts, upsets>>

\* A worker dies and starts again: its lock falls, an open transaction is undone, what was
\* unlinked or written stays so, and its start reconciles.
ReleasedNever(w) == guard
Released(w) == IF guard # Nobody /\ Home[guard] = w THEN Nobody ELSE guard
Restarts(w) ==
  /\ upsets < MaxUpsets
  /\ upsets' = upsets + 1
  /\ guard' = Released(w)
  /\ drift' = (drift \/ (guard # Nobody /\ Home[guard] = w))
  /\ limit' = [limit EXCEPT ![w] = config]
  /\ op' = [t \in Thread |-> IF Home[t] # w THEN op[t]
                             ELSE IF t \in Keeper THEN Waiting("reconcile", Nobody) ELSE Idle]
  /\ UNCHANGED <<disk, rows, config, clock, settled, kept>>

-----------------------------------------------------------------------------
CacheInit ==
  /\ disk = [f \in File |-> IF f \in Stock THEN 1 ELSE 0] /\ rows = disk
  /\ guard = Nobody /\ clock = 1
  /\ config \in Limit /\ limit = [w \in Worker |-> config]
  /\ op = [t \in Thread |-> Idle]
  /\ drift = FALSE /\ settled = 0 /\ kept = {}
  /\ upsets = 0

\* Steps of an operation under way, but for the end of a save.
CacheStep(t) ==
  \/ Saves(t) \/ Evicts(t) \/ EvictFails(t) \/ Reconciles(t)
  \/ Unlinks(t) \/ RemovalEnds(t) \/ RemovalFails(t)

CacheTypeOK ==
  /\ disk \in [File -> Nat] /\ rows \in [File -> Nat]
  /\ guard \in Thread \cup {Nobody} /\ clock \in Nat
  /\ config \in Limit /\ limit \in [Worker -> Limit]
  /\ drift \in BOOLEAN /\ settled \in Nat /\ kept \subseteq File
  /\ \A t \in Thread : op[t].kind \in {"none", "save", "trim", "reconcile", "remove"}

-----------------------------------------------------------------------------
(* Properties *)

\* A file that is being saved, or was there already, is not trimmed away by its own save, whatever
\* other workers do meanwhile: the path a save returns names a file (_save, protected_names).
SavedFileStays ==
  \A t \in Thread : At(t, "trim") => op[t].saved \subseteq OnDisk

\* While no one is at work, the index lists the files on disk exactly, unless a worker died under
\* the lock, a removal failed halfway, or files were written without a limit since the last rebuild.
IndexMatchesDisk ==
  guard = Nobody /\ ~ drift => Indexed(rows) = OnDisk

\* Under the same exceptions the files fit the limit of the last trim, or only those are left that
\* it had to keep: the saved one, the newest, and files that could not be unlinked.
DiskBounded ==
  guard = Nobody /\ ~ drift /\ settled > 0 => Bytes(OnDisk) <= settled \/ OnDisk \subseteq kept
=============================================================================

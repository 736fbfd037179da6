----------------------------- MODULE RedisSync -----------------------------
(***************************************************************************)
(* The Redis backend (control/account/backends/redis.py) under the same     *)
(* sync.  Here a write is not atomic: it increments the revision first, and *)
(* then, token by token, reads the hash, writes it back and adds the token  *)
(* to the revision log, each a round trip of its own; no lock is held.  A   *)
(* scan reads the revision, then the log, then the hashes one by one.       *)
(***************************************************************************)
EXTENDS AccountSync

CONSTANTS
  Writer,       \* tasks of any worker process that write
  Idle          \* a writer at rest

VARIABLES
  log,          \* accounts:revision_log: token -> score, 0 when absent
  writer,       \* writer -> what it is doing
  fetch,        \* tokens of the page whose hash is still to be read
  torn          \* history: tokens whose last write a scan overtook or a
                \* death cut between HSET and ZADD

redisVars == <<log, writer, fetch, torn>>
allVars   == <<vars, log, writer, fetch, torn>>

Op == {"upsert", "delete"} \cup PatchKind
NoToken == "none"

Working == [op : Op, pool : Pool, rev : Nat, todo : SUBSET Token,
            token : Token \cup {NoToken}, read : Row \cup {NoRow}, step : {"read", "hset", "zadd"}]

ASSUME IdleAssumption == Idle \notin Working

RedisTypeOK ==
  /\ TypeOK
  /\ log \in [Token -> Nat]
  /\ writer \in [Writer -> Working \cup {Idle}]
  /\ fetch \in SUBSET Token
  /\ torn \in SUBSET Token

RedisInit ==
  /\ Init
  /\ log = [t \in Token |-> 0]
  /\ writer = [w \in Writer |-> Idle]
  /\ fetch = {}
  /\ torn = {}

Busy == {w \in Writer : writer[w] # Idle}

(* The revision the table is at, or will be at with the page in hand. *)
Target == IF pc = "page" /\ NextRevision > tableRevision THEN NextRevision ELSE tableRevision

-----------------------------------------------------------------------------
(* INCR accounts:rev *)
Begin(w, op, p, S) ==
  /\ writer[w] = Idle
  /\ revision < MaxRevision
  /\ revision' = revision + 1
  /\ writer' = [writer EXCEPT ![w] =
       [op |-> op, pool |-> p, rev |-> revision + 1, todo |-> S,
        token |-> NoToken, read |-> NoRow, step |-> "read"]]
  /\ UNCHANGED <<rows, tableVars, scanVars, restarts, log, fetch, torn>>

(* Nothing to do for a token without a hash, or for deleting a tombstone. *)
Skips(w, t) ==
  \/ writer[w].op \in PatchKind /\ rows[t] = NoRow
  \/ writer[w].op = "delete" /\ t \notin Live

Finish(w, todo) == IF todo = {} THEN Idle
                   ELSE [writer[w] EXCEPT !.todo = todo, !.token = NoToken,
                                          !.read = NoRow, !.step = "read"]

(* HGETALL accounts:record:<t> *)
ReadHash(w) ==
  /\ writer[w] # Idle
  /\ writer[w].step = "read"
  /\ \E t \in writer[w].todo :
       writer' = [writer EXCEPT ![w] =
         IF Skips(w, t) THEN Finish(w, writer[w].todo \ {t})
         ELSE [writer[w] EXCEPT !.token = t, !.read = rows[t], !.step = "hset"]]
  /\ UNCHANGED <<dbVars, tableVars, scanVars, restarts, log, fetch, torn>>

(* HSET: an upsert writes every field, computed from what was read; a patch  *)
(* always writes ext and sets status only when it carries one; a delete      *)
(* writes the tombstone fields.                                              *)
WrittenRow(w, current) ==
  LET wr == writer[w] IN
  CASE wr.op = "upsert" -> UpsertedRow(wr.read, wr.pool, wr.rev)
    [] wr.op = "delete" -> DeletedRow(current, wr.rev)
    [] OTHER            -> [current EXCEPT
                              !.status = PatchedStatus(@, wr.op),
                              !.timed  = PatchedRow(wr.read, wr.op, wr.rev).timed,
                              !.rev    = wr.rev]

WriteHash(w) ==
  /\ writer[w] # Idle
  /\ writer[w].step = "hset"
  /\ rows' = [rows EXCEPT ![writer[w].token] = WrittenRow(w, @)]
  /\ writer' = [writer EXCEPT ![w].step = "zadd"]
  /\ UNCHANGED <<revision, tableVars, scanVars, restarts, log, fetch, torn>>

(* A scan has overtaken a write that is still under way: its score will be    *)
(* one the table is past.                                                    *)
TornBy(wr) == IF wr.rev > Target THEN torn \ {wr.token} ELSE torn \cup {wr.token}

(* Mutant. *)
AppendLogInsertsOnly(w) ==
  /\ writer[w] # Idle
  /\ writer[w].step = "zadd"
  /\ log' = [log EXCEPT ![writer[w].token] = IF writer[w].op = "upsert" THEN writer[w].rev ELSE @]
  /\ writer' = [writer EXCEPT ![w] = Finish(w, writer[w].todo \ {writer[w].token})]
  /\ torn' = TornBy(writer[w])
  /\ UNCHANGED <<dbVars, tableVars, scanVars, restarts, fetch>>

(* ZADD accounts:revision_log *)
AppendLog(w) ==
  /\ writer[w] # Idle
  /\ writer[w].step = "zadd"
  /\ log' = [log EXCEPT ![writer[w].token] = writer[w].rev]
  /\ writer' = [writer EXCEPT ![w] = Finish(w, writer[w].todo \ {writer[w].token})]
  /\ torn' = TornBy(writer[w])
  /\ UNCHANGED <<dbVars, tableVars, scanVars, restarts, fetch>>

(* The writing process dies between two of its round trips. *)
WriterDies(w) ==
  /\ writer[w] # Idle
  /\ writer' = [writer EXCEPT ![w] = Idle]
  /\ torn' = IF writer[w].step = "zadd" THEN torn \cup {writer[w].token} ELSE torn
  /\ UNCHANGED <<dbVars, tableVars, scanVars, restarts, log, fetch>>

-----------------------------------------------------------------------------
RedisBootstrapRevision == BootstrapRevision /\ UNCHANGED redisVars

RedisReadRevision == ReadRevision /\ UNCHANGED redisVars

(* scan_iter and HGETALL: the rows of the snapshot, here read in one step.   *)
(* The table starts over: what it had missed it has now.                     *)
RedisBootstrapRows ==
  /\ BootstrapRows
  /\ torn' = {}
  /\ UNCHANGED <<log, writer, fetch>>

(* ZRANGEBYSCORE: the tokens of the page, in log order. *)
Logged == {t \in Token : log[t] > tableRevision}

ReadLog ==
  /\ pc = "rows"
  /\ pc' = "page"
  /\ \E B \in SUBSET Logged, m \in 0..revision :
       /\ B = Logged \/ Cardinality(B) = BatchLimit
       /\ Cardinality(B) <= BatchLimit
       /\ \A t \in B, u \in Logged \ B : log[t] <= log[u]
       /\ \/ B = {} /\ m = 0
          \/ (\E t \in B : log[t] = m) /\ (\A t \in B : log[t] <= m)
       /\ fetch' = B
       /\ page' = [rows    |-> [t \in Token |-> NoRow],
                   hasMore |-> Cardinality(B) = BatchLimit,
                   max     |-> m]
  /\ UNCHANGED <<dbVars, tableVars, scanRevision, restarts, log, writer, torn>>

(* HGETALL of one token of the page. *)
FetchHash ==
  /\ pc = "page"
  /\ \E t \in fetch :
       /\ fetch' = fetch \ {t}
       /\ page' = [page EXCEPT !.rows[t] = rows[t]]
  /\ UNCHANGED <<dbVars, tableVars, pc, scanRevision, restarts, log, writer, torn>>

RedisApplyPage ==
  /\ fetch = {}
  /\ ApplyPage
  /\ UNCHANGED redisVars

RedisRestart ==
  /\ Restart
  /\ fetch' = {}
  /\ UNCHANGED <<log, writer, torn>>

RedisNext ==
  \/ \E w \in Writer :
       \/ \E p \in Pool, S \in SmallWrites : Begin(w, "upsert", p, S)
       \/ \E k \in Op \ {"upsert"}, S \in SmallWrites :
            \E p \in Pool : Begin(w, k, p, S)
       \/ ReadHash(w)
       \/ WriteHash(w)
       \/ AppendLog(w)
       \/ WriterDies(w)
  \/ RedisBootstrapRevision
  \/ RedisBootstrapRows
  \/ RedisReadRevision
  \/ ReadLog
  \/ FetchHash
  \/ RedisApplyPage
  \/ RedisRestart

RedisSpec == RedisInit /\ [][RedisNext]_allVars

(* A request to Redis is answered, and the sync loop runs for ever. *)
RedisFairness ==
  /\ \A w \in Writer :
       /\ WF_allVars(ReadHash(w)) /\ WF_allVars(WriteHash(w))
       /\ WF_allVars(AppendLog(w))
  /\ WF_allVars(RedisBootstrapRevision) /\ WF_allVars(RedisBootstrapRows)
  /\ WF_allVars(RedisReadRevision) /\ WF_allVars(ReadLog)
  /\ WF_allVars(FetchHash) /\ WF_allVars(RedisApplyPage)

FairRedisSpec == RedisSpec /\ RedisFairness

-----------------------------------------------------------------------------
Unlogged == {t \in Token : \E w \in Busy : writer[w].step = "zadd" /\ writer[w].token = t}

(* Safety: the table misses a change of a row only where the round trips of  *)
(* a write let it (redis.py): the last writer of the row was overtaken, a    *)
(* scan having moved to its revision or past it before it had appended the   *)
(* row to the log, or it died between HSET and ZADD.  Whatever else writers, *)
(* the reads of a scan and the pages of one scan do to each other, a row is  *)
(* in the table as it is in Redis, or above the table's revision in the log, *)
(* or its writer is about to append it.  A later write that is not overtaken *)
(* brings the row back, and so does a restart.                               *)
OnlyTornMissed ==
  Running => \A t \in Token \ (torn \cup Unlogged) :
               log[t] > tableRevision \/ View(t) = Truth(t)
=============================================================================

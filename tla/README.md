# Verification of grok2api

grok2api is an asynchronous Python gateway that serves OpenAI- and
Anthropic-style APIs from a pool of upstream accounts. One container runs
several worker processes (uvicorn) of one event loop each. They share a store
of accounts (SQLite, MySQL, PostgreSQL or Redis) and a data directory; each
keeps its own runtime table of accounts, its own proxy directory and its own
pool of Grok Build accounts. One worker, the leader, also runs the background
loops. What goes wrong in such a program goes wrong between two awaits, two
processes, or a read and a late write; those steps are what the modules model.

Paths below are relative to `app/` unless they start elsewhere.

## 1. Inventory

| Component | State | Operations | Talks to |
|---|---|---|---|
| **Account store** (`control/account/backends/`: `local.py`, `redis.py`, `sql.py`; interface in `repository.py`) | rows: token, pool, status, quota windows per mode, counters, `ext`, tombstone, revision; one global revision | `upsert_accounts`, `patch_accounts`, `delete_accounts`, `replace_pool`, `rotate_account_token`, `purge_deleted_accounts`, `runtime_snapshot`, `scan_changes`, console patrol and recovery | every other account component |
| **Runtime table and sync** (`dataplane/account/table.py`, `sync.py`, loop in `main.py`) | columns per slot, `idx_by_token`, `mode_available` index, `size`, `revision` | `bootstrap`, `sync_if_changed` (page by page), `apply_changes` | polls the store; shares the table with the directory |
| **Account directory** (`dataplane/account/__init__.py`, `selector.py`, `feedback.py`, `lease.py`) | in-flight, quota, cooling, fails and health columns | `reserve`, `reserve_any`, `release`, `feedback` under one lock that is never held across an await | called by every request handler |
| **Text answers** (`products/openai/chat.py`, `responses.py`, `console_*.py`, `products/anthropic/`, `products/build/`, `products/_account_selection.py`) | per request: lease, accounts tried, attempt; the stream's adapter, the tool sieve, the open block and its number | select, call upstream, turn frames into events, release, feedback, persist in a fire-and-forget task, retry | directory, refresh service, proxies, the client |
| **Stream adapters** (`dataplane/reverse/protocol/xai_chat.py`, `xai_chat_reasoning.py`, `products/openai/_tool_sieve.py`) | text and its length, citations, annotations, thinking and its pending events, images; held back text | `feed`, `flush`, `finalize` | one per attempt |
| **Pictures and films** (`products/openai/images.py`, `video.py`) | leases, a table of jobs per process, tasks of a batch | generate, edit, websocket stream, jobs, quota probe, upload, download, save | directory, media cache |
| **Account lifecycle** (`control/account/refresh.py`, `invalid_credentials.py`, `state_machine.py`, `quota_defaults.py`) | the stored row | success, 429, 403, 401; quota refresh; patrol of console windows; recovery | store; no table |
| **Refresh schedulers** (`control/account/scheduler.py`, `runtime.py`) | one task per pool | periodic `refresh_scheduled`, start and stop | lifecycle |
| **Proxy directory and clearance** (`control/proxy/`) | pool cursor, nodes, clearance bundles, single-flight events, configuration signature | `load`, `acquire`, `feedback`, `warm_up`, `refresh_clearance_safe` | FlareSolverr; every upstream call |
| **Grok Build pool** (`control/build/`, `products/build/service.py`, `products/web/admin/build.py`) | OAuth accounts with tokens, switch, status, cooldown; in-flight; a refresh lock per account; a file | `reserve`, `release`, `mark_failure`, `mark_success`, `refresh_account`, `update`, toggle, delete, import, verify | token and model endpoints; registration child |
| **Application start and leader** (`main.py`) | leader file lock, background tasks | start, stop, loops of 30 s and more | all of the above |
| **Registration manager** (`control/registration/manager.py`) | process, watcher, waterline task, runtime, a lock | start, stop, watch, poll, settings, reset of mailboxes | child process; account store |
| **Registration worker** (`runner.py`, `mail.py`, `cpa_queue.py`) | rounds and attempts; the file of mailbox marks; the export queue and manifest | preflight, reserve, register, mark, export, import | Microsoft mail, third-party pages, admin API |
| **Admin API, batch tasks** (`products/web/admin/`, `platform/runtime/`) | tasks with bounded subscriber queues | edit, import, delete, batch, cancel, event stream | store, directory, lifecycle |
| **Configuration** (`platform/config/`) | snapshot with a version | load, update, backends | everything reads it |
| **Media cache** (`platform/storage/media_cache.py`) | files, an SQLite index, a lock file; the limit as each worker has loaded it | save, trim the oldest, clear, delete, reconcile | pictures and films; admin pages |
| **Request audit** (`platform/request_audit.py`) | append-only log | append, compact, purge | file system |
| **Models, transport, pages, logging** | constants, or none | parse, format, transfer | upstream services |

What is hard, and what makes each part correct:

* *store and sync*: writers commit between the reads of a scan and between
  pages; a page may cut a transaction in two; a slot moves between pools and
  comes back from a deletion. Correct: no change is skipped, the index is
  exact, the revision never goes back, the table catches up.
* *Redis*: a write is several commands; a scan, a second writer or a crash may
  come in between.
* *MySQL and PostgreSQL*: processes write in transactions of their own, which
  may wait, roll back or die; a process that starts seeds the revision. Correct:
  revisions commit in their order, and the tables still catch up.
* *directory and handlers*: a sync rewrites a slot while it is leased; late
  feedback; cancellation between two awaits; persistence after the answer.
  Correct: in-flight counts are the leases, the cap holds, no request gets an
  account that has failed it, requests end, what feedback said reaches the
  store.
* *lifecycle*: each update reads the row, awaits and writes a patch of what it
  read. Correct: each use is counted, repeated limits take an account out, and
  an account that is out comes back by whom the code says and no one else.
* *clearance*: many callers want one bundle; the one that fetches it fails, is
  cancelled, or is overtaken by a reload. Correct: one fetch at a time, no
  waiter is lost, a working bundle is not thrown away.
* *Build pool*: refresh tokens rotate and can be used once; a refresh works on
  a copy while the operator edits the account. Correct: the token that works is
  kept, an account is condemned only for a token that does not work, edits
  survive, in-flight counts are exact.
* *text answers*: the upstream chooses the order of thinking, text, citations,
  images, calls and errors, tags come in pieces, the call may fail anywhere and
  the client may leave at any event. Correct: text is neither lost nor repeated,
  annotations point at their citations, blocks are numbered, closed and ended
  once, the account is reported for what it did.
* *registration*: one event loop supervises a process that may be killed in any
  line; watcher, stop, start and monitor interleave at every await; aliases
  share one inbox. Correct: one child, no mailbox left reserved or used twice,
  no code of another alias, no account lost or in excess.
* *pictures, films and their files*: tasks that cancel each other, clients that
  leave, several processes that save, trim and clear the same files and may die
  in the middle. Correct: leases settle, a save keeps its own file, the index
  matches the files, a trim is within the limit, requests end.

## 2. Modules and the code they model

| Module | Models | State and actions |
|---|---|---|
| `AccountRepository` | the SQLite store | `rows`, `revision`. Every write method is one transaction under the backend's lock, so one step: `UpsertAccounts`, `PatchAccounts`, `DeleteAccounts`, `RotateAccountToken`, `ReplacePool`, `PurgeDeletedAccounts`. A row keeps what readers tell apart. |
| `AccountSync` (extends it) | one worker's table and its sync | `slot`, `modeAvailable`, `size`, `tableRevision`. The revision, the rows and the application of a page are three steps (`pc`): two reads and a write with awaits between them, writes of any process in between; `Restart` empties the table. |
| `RedisSync` (extends it) | the Redis store under the same sync | each command of a writer (INCR, HGETALL, HSET, ZADD) and each read of a scan is a step, and a writer may die between two. `torn` is a history variable: the tokens whose last write a scan overtook, or whose writer died between HSET and ZADD. |
| `SqlSync` (extends it) | the MySQL and PostgreSQL store under the same sync | `tx`: one writing transaction per process, which holds the revision row from its bump to its commit or rollback; patrol and recovery select before the bump. `Seen`: a reader on PostgreSQL sees what is committed, one on MySQL the snapshot of its first read. `initialized`, `Seeded`: what a starting process does to the revision. |
| `Replica` | what a reader may expect of a table | a key that is not marked dirty shows its true value. `AccountSync!ReplicaSpec` maps to it. |
| `AccountDirectory` | hot path of a worker | table columns, stored rows, pending persistence tasks, and requests from selection over the call to the retry. A reservation, or a release with its feedback, is one step, as the lock's body has no await. Scores are any choice among the accounts that pass the filters. |
| `LeasePool` | what the directory promises | a counting semaphore per account. `AccountDirectory!PoolSpec` maps to it. |
| `AccountLifecycle` | one stored row | calls, the operator, the patrol and the recovery. Whoever updates the row reads it (the patch is built from what was read) and writes later, whatever came in between; the store may refuse a write. Each call leases the account by what the table of its worker shows, `view`, which lags behind the row (`stale`, `Sync`). `spent` and `hits` are history variables, `usesLost` and `hitsLost` say whether an overlap or a refusal has cost one. |
| `ProxyClearance` | proxy directory in pool mode with FlareSolverr | clients acquire, wait for the flight of another, solve, are cancelled; the scheduler rebuilds; the configuration is reloaded. Everything between two awaits is one step. |
| `BuildPool` | the Grok Build pool | requests with failover and replay, verifications, the operator, and the upstream's tokens, numbered in the order they are issued. A refresh is: take the lock and copy the account, the exchange, store the copy. |
| `ToolSieve` | `_tool_sieve.py`, `tool_parser.py` | operators on text as a sequence of marks: `p q` is an opening tag cut in two, `z` a closing one, `c`, `u`, `i` calls of known, unknown and other tools; `Feed` and `Flush` return the new sieve, the safe text and the calls |
| `Reasoning` | `xai_chat_reasoning.py` | the aggregator of a summary of the thinking: fragments are told apart by class, track, level and key; pending events, language, promotion, `Finalize` |
| `StreamAdapter` | `xai_chat.py`, `xai_console_chat.py` | what a frame makes of the adapter, and the events it yields |
| `AnswerFormats` | the generators' `yield`s of all nine handlers | what opens, writes, closes and ends a part in each API, with the block number of Messages and the output index of Responses |
| `AnswerProtocol` | what a client may expect of a stream | parts one after the other, numbered without gaps, closed before a finish, one end. `Answers!ProtocolSpec` maps the history variable `view`, what the events sent so far have made of the answer, to it. Once an answer is `tangled`, its parts have lost their order and only its beginning and end are promised. |
| `Answers` (composes the five) | one request through one of the handlers | `pc` goes over reserve, read, finish, finally, retry; an event leaves the generator in a step of its own (`Yield`), so failures and the client's leaving fall between any two. `Tangled`: a call or thinking that comes while a text is open breaks the order of the parts |
| `OutlookPool` | the Microsoft mailboxes of `mail.py` | marks per address, each change a read-modify-write of the file; credentials that died; the mails of an inbox and those still on their way, which name the attempt they were sent for; the three ways to read an inbox (Graph, Outlook REST, IMAP), each with identities of its own |
| `RegistrationWorker` (extends it) | `runner.py`, `cpa_queue.py` | per child: where `main` and `run_one` stand, page by page; what its snapshot of the inbox knows and by which way of reading; the queue and the manifest; what survives the child |
| `RegistrationManager` (extends it) | `manager.py` | `runtime`, `process`, `lock`, the watcher of each child, the monitor, which reads the settings in one step and counts the accounts in another; the settings, with and without a target for Build; accounts that are lost, recover or are imported meanwhile. Everything between two awaits is one step; `StopEnds` and the watcher's finally block are the steps that clean up |
| `MediaCache` | `media_cache.py` | files, index rows, the lock and its holder, the limit as stored and as each worker has it. Taking the lock, unlinking with writing, and committing are separate steps; `Restarts` is a worker that dies in any of them |
| `MediaRequests` (extends it) | `images.py`, `video.py`, uploads, downloads, quota probe | requests with a kind and a phase; the accounts of each worker |
| `AccountSyncProofs`, `AccountDirectoryProofs`, `AccountLifecycleProofs`, `BuildPoolProofs`, `ProxyClearanceProofs`, `MediaProofs`, `RegistrationProofs`, `AnswersProofs` | | theorems and proofs; `AccountSyncProofs` has those of the Redis and the SQL store too, since the worker's steps are the same |
| `MC*` | | instances: constant values that a cfg cannot write, symmetry |

`AccountSync` and `AccountDirectory` are two views of one table: the first
takes the reading apart and has no requests, the second has the requests and
applies all pending changes in one step (`SyncTable`), which `ReplicaSpec`
justifies: a page that lags is a step that shows fewer of the changes.

`Answers` has one request and its accounts without a table, `AccountDirectory`
many requests that compete for accounts and no text: the reports that
`FeedbackTruthful` speaks of are the feedback that the directory receives.
`MediaRequests` keeps in-flight counts alone, for what its handlers add to the
directory is the paths on which a lease is given back.

Every module with variables states its type invariant (`TypeOK`, `RedisTypeOK`,
`CacheTypeOK`, `MediaTypeOK`), written for a reader and for the proofs; the runs
check the properties below instead.

Operators with a comment `Mutant` are plausible wrong versions of the
definition they precede. With the wrong one in its place, the property that is
named with it in `PROJECT.json` fails; they are not used by any specification.

## 3. Runs

Passing runs:

| Run | Instance | Shows |
|---|---|---|
| `sync` | 2 tokens, 2 pools, writes of up to 2 rows, pages of 2, 3 revisions, 1 restart | `NoRowSkipped`, `IndexMatchesSlots`, the refinement `ReplicaSpec`, `EventuallyConsistent` |
| `redis` | 2 tokens, 2 writers, writes of one row, pages of one row, 3 revisions, 1 restart | `OnlyTornMissed`: a row is missed only if a scan overtook its last write or its writer died between HSET and ZADD |
| `sql` | 2 tokens, 2 processes, 3 revisions, pages of 2; PostgreSQL with processes that start and one restart, MySQL with all processes started | `EventuallyConsistent` |
| `lease_random` | 2 accounts, cap 1, 2 requests with a retry, one followed by another, and a websocket image through `reserve_any`; a store that may refuse, an edit, time 0..3, random strategy | `InflightIsLeases`, `NoAccountTriedTwice`, `Converged`, the refinement `PoolSpec` |
| `lease_quota` | 2 accounts, 2 modes, windows of one call, a request and an image edit, quota strategy | `InflightCapped`, and that every request ends (`RequestsEnd`) |
| `lifecycle` | 1 row, 2 calls at once on workers whose tables lag, 3 calls, 1 edit, a store that may refuse, time 0..5 | `QuotaAccounted`, `RepeatedLimitsExpire`, `OnlyOperatorRevives`, `ActiveRefills`, `ThresholdRecovers` |
| `clearance` | 3 clients (one warms up), 2 proxies, 1 reload to a smaller pool, scheduler | `SingleFlight`, `WorkingBundleKept`, `AcquireEnds` |
| `build_pool` | 1 account, 2 requests, 1 verifier, 2 tokens, 1 edit, 1 import, 1 lost answer | `InflightIsLeases`, `CredentialsLive`, `DisabledMeansDead` (of accounts that the token endpoint condemned), `RequestsEnd` |
| `answers` | nine handlers with and without streaming, tools, thinking and its summary; 4 frames of a vocabulary per configuration, a failure anywhere, a second account, a client that leaves anywhere | `TextIntact`, `AnnotationsPointAtCitations`, `FeedbackTruthful`, `SummaryInOrder`, the refinement `ProtocolSpec` |
| `registration` | 2 children of one round with 2 attempts, 2 aliases of one inbox, mails that come late or never, settings with and without a target for Build, one change from outside (settings, reset, dead token, an account lost or gained) | `OneChild`, `ReservationsReleased`, `CodeEnteredOnce`, `RegisteredAddressKept`, `EndAccounts`, `NoOvershoot` |
| `media` | 2 workers with an admin page each; two lite requests, an edit beside a websocket stream of the other worker, a job, or a film with a reference; 2 files of 2 units, limits 0 and 3, one file from an earlier run, 3 writes, 2 upsets | `SavedFileStays`, `IndexMatchesDisk`, `DiskBounded`, `LeasesSettle`, `RequestsEnd` |

One run refutes what the repository says of itself:

| Run | The code | The text |
|---|---|---|
| `mysql_reseeds` | on MySQL the seed of a starting process sets the revision to 0 (`sql.py:527`); running workers stay at the revision they have reached and miss what is written under the revisions that come again, as an account that is disabled | `main.py:180`: each table is eventually consistent with the repo; `sql.py:495`: seed "if not already done" |

The module's own `CHECK_DEADLOCK FALSE` is there because each model stops: its
bounds are used up, or every request is done.

### Bounds and why they are enough

* `MaxRevision`, `MaxBulk`, `BatchLimit`, `MaxRestart`: two rows in one write
  and a page of two (of one, in section 5) are the smallest values at
  which a page can and cannot cut a transaction; on Redis a write is of one row and a page
  of one, so that a scan has two pages; three revisions allow a write
  before, during and after a scan, and a deletion followed by a return. Two
  pools let a slot move between indexes.
* In `sql`, `MaxBulk` is 1, and `replace_pool`, the patrol and the recovery still
  write both rows at once; two processes are a holder of the revision row and one
  that waits. `Starting` names the databases under which processes start during
  the run. MySQL is not among them: with it the property fails.
* `Cap`, `MaxRetries`, `Total` are 1 in the instances and `MaxFails` 1 or 2: two
  requests then contend for one account, exhaust a window, and fall back to the
  other account or mode. The theorems hold for every value.
* `MaxTime`, `Window`, `RateCooling`, `ForbiddenCooling`: small distinct numbers
  that keep the order of the real deadlines; time stops at `MaxTime` and calls
  start before `LastCall`, so that the last windows can still end.
* `MaxEdits`, `MaxImports`, `MaxLost`, `MaxChanges`, `MaxRequests`, `MaxSolves`,
  `MaxIssued`, `Returning`: what the environment may still do. One edit during
  one exchange, one reload during one flight, are the smallest interesting cases.
* In `answers`, four frames are a beginning, a middle and an end of any two kinds
  of content and one that comes too late; a tag is cut in two places at most;
  citations need the fourth to repeat one behind another. One failure status that is retried and one that
  is not, and two accounts.
* In `registration`, two children are a stop and a start, or two turns of the
  monitor; two attempts of one round let an attempt follow a failed one, and the
  second child lets one follow a success; with two aliases of one inbox every
  mail can be mistaken. A second round in the same child is too slow for a run kept
  beside the code: the theorems of `RegistrationProofs` hold for every number of
  rounds. `Target` is 1 where a setting has one, the least a pool can be short of,
  and 0 otherwise. Addresses are symmetric.
* In `media`, a limit of 3 with files of 2 fits one file; `MaxWrites` 3 lets a
  file be evicted and written again; `MaxUpsets` 2 is a crash and a clear, or a
  limit lowered and raised. The two mixes of
  two requests contend for accounts and for the lock, in one process and in two; a
  job and a film come alone beside the admin pages.
* A second reload lets a proxy leave the pool and come back while a flight for
  it is under way; `SingleFlight` does not hold then (see section 5).

### Fairness

| Specification | Assumed | Why |
|---|---|---|
| `AccountSync!FairSpec` | WF of bootstrap, scan and apply; SF of reading the rows | the loop in `main.py` polls for ever; a store may fail a read now and then, not every time |
| `RedisSync!FairRedisSpec` | WF of every step of the sync and of a writer | Redis answers; a coroutine that was started runs on |
| `SqlSync!FairSqlSpec` | WF of the sync's steps, SF of reading the rows and of the start of its process, WF of the end of a transaction | a database answers or breaks the connection, and grants the locked row in turn |
| `AccountDirectory!FairSpec` | WF of each request's steps, of persistence tasks and of the sync | upstream calls have timeouts, the event loop runs ready tasks |
| `AccountLifecycle!FairSpec` | WF of calls, writes and patrols, SF of time | the patrols are endless loops of 30 s; `Tick` is disabled by its bounds now and then |
| `ProxyClearance!FairSpec` | WF of `Solve` and `Retry` of each client | FlareSolverr calls time out; an event wakes whoever waits |
| `MediaRequests!FairSpec` | WF of each thread's next step, once it has begun | calls, uploads and downloads have timeouts, the lock's holder runs on or dies and the system drops its lock; a client need not leave and an operator need not come |
| `BuildPool!FairSpec` | WF of each actor's next step | calls and exchanges have timeouts of 120 s and 30 s; `asyncio.Lock` is fair |

Nothing is assumed of the operator, of clients coming back, of successes, or of
the upstream.

## 4. Theorems

All are proved for every value of the constants under the named `ASSUME`s of
the modules (finite sets, natural numbers, distinct model values) and the
hypotheses in the third column.

| Theorem | States | Under |
|---|---|---|
| `NothingSkipped` | `Spec => []NoRowSkipped` | `SafePaging` |
| `IndexIsExact` | `Spec => []IndexMatchesSlots` | |
| `SyncImplementsReplica` | `Spec => ReplicaSpec` | `SafePaging` |
| `RedisMissesOnlyTorn` | `RedisSpec => []OnlyTornMissed` | `SafePaging` |
| `RedisIndexIsExact` | `RedisSpec => []IndexMatchesSlots` | |
| `SqlSkipsNothing` | `SqlSpec => []NoRowSkipped` | `WholePages`, `SeededOnce` |
| `SqlImplementsReplica` | `SqlSpec => ReplicaSpec` | `WholePages`, `SeededOnce` |
| `SqlIndexIsExact` | `SqlSpec => []IndexMatchesSlots` | |
| `DirectoryTypeOK` | `Spec => []TypeOK` | |
| `InflightCountsLeases` | `Spec => []InflightIsLeases` | `NoEdits` |
| `NoAccountOverCap` | `Spec => []InflightCapped` | `AllCapped` |
| `DirectoryImplementsLeasePool` | `Spec => PoolSpec` | `NoEdits`, `AllCapped` |
| `NeverTriedTwice` | `Spec => []NoAccountTriedTwice` | |
| `IndexListsActiveAccounts` | `Spec => []IndexMatchesStatus` | |
| `FeedbackConverges` | `Spec => []Converged` | |
| `OperatorAloneRevives` | `Spec => OnlyOperatorRevives` | |
| `ConsoleQuotaAccounted` | `Spec => []QuotaAccounted` | |
| `LimitsExpireAccount` | `Spec => RepeatedLimitsExpire` | |
| `BuildTypeOK` | `Spec => []TypeOK` | |
| `BuildInflightCountsLeases` | `Spec => []InflightIsLeases` | |
| `BuildCredentialsLive` | `Spec => []CredentialsLive` | |
| `BuildDisabledMeansDead` | `Spec => []DisabledMeansDead` | |
| `ClearanceTypeOK` | `Spec => []TypeOK` | |
| `NoWakeUpLost` | `Spec => []WaitersHaveOwner` | |
| `OneSolveUnlessOneReturns` | `Spec /\ []NoneReturns => []SingleFlight` | |
| `OneSolvePerProxy` | `Spec => []SingleFlight` | `SettledPools` |
| `WorkingBundleIsKept` | `Spec => WorkingBundleKept` | |
| `MediaTypes` | `Spec => []MediaTypeOK` | |
| `MediaSavedFileStays` | `Spec => []SavedFileStays` | |
| `MediaIndexMatchesDisk` | `Spec => []IndexMatchesDisk` | |
| `MediaDiskBounded` | `Spec => []DiskBounded` | |
| `MediaLeasesSettle` | `Spec => []LeasesSettle` | |
| `TextKeptIntact` | `Spec => []TextIntact` | |
| `AnnotationsInPlace` | `Spec => []AnnotationsPointAtCitations` | |
| `FeedbackIsTruthful` | `Spec => []FeedbackTruthful` | |
| `ReportInOrder` | `Spec => []SummaryInOrder` | |
| `StreamsImplementProtocol` | `Spec => ProtocolSpec` | |
| `RegistrationTypeOK` | `Spec => []TypeOK` | |
| `RegistrationOneChild` | `Spec => []OneChild` | |
| `RegistrationReservationsReleased` | `Spec => []ReservationsReleased` | |
| `RegistrationEndAccounts` | `Spec => []EndAccounts` | |
| `RegistrationCodeEnteredOnce` | `Spec => CodeEnteredOnce` | |
| `RegistrationAddressKept` | `Spec => []RegisteredAddressKept` | `QuarantineStands` |
| `RegistrationNoOvershoot` | `Spec => NoOvershoot` | |

A row without a hypothesis holds of everything its module lets happen: on Redis commands
of several writers interleave with each other and with a scan, updates of one row overlap
and the store refuses some, tables lag, the upstream of an answer sends frames in any
order. What such a theorem cannot promise, its property names (a `torn` row, a write that
was `Lost`, a `Tangled` answer), and section 5 has the stronger claim with the run that
refutes it.

The hypotheses that are left are what separates the code from its comments:

* `SafePaging`: a page holds the whole store, or a write touches one row.
  Otherwise `NoRowSkipped` fails, see section 5.
* `WholePages`: a page can hold the whole store. On SQL one row per write is not
  an alternative: the patrol, the recovery and the first half of `replace_pool` give
  all rows they touch one revision, however many those are.
* `SeededOnce`: no process starts on MySQL while others run. The seed of a start
  sets the revision to 0 (`sql.py:527`); the run `mysql_reseeds` shows what follows.
* `NoEdits`: no request runs the preparation of an image edit, the handler that
  can lose a lease.
* `AllCapped`: the strategy is random or nobody uses `reserve_any`, whose
  selection under the quota strategy has no cap.
* `NoneReturns`, in every state: no proxy that the configuration is about to
  bring in is one that a coroutine still solves or waits for since it was last in
  the pool. `SettledPools` (one change of the configuration at most, or changes
  that keep the set of proxies) implies it; without either, section 5.
* `QuarantineStands`: the operator does not reset the marks "invalid", which a
  group quarantine has written over the "used" of sibling aliases.

The arguments:

* *`SyncInv`*. `NoRowSkipped` speaks of rows at or below the table's revision. It
  is not inductive: a page in hand must hold, for each row the table will regard
  as read after it, the row as it is, unless it was changed since, in which case
  its revision is above the new one. `PageInv` says so; `DbInv` that rows are not
  above the revision and, where a write touches one row, share none; `Behind` that the
  table and the scan are not ahead of the store. The refinement follows with the
  unseen tokens as the dirty keys.
* *`TornInv`*. Revisions and scores are handed out in order and no two writers have the
  same (`RevisionsFit`, `ScoresDistinct`). Of every row that is neither torn nor still
  without its log entry, the page in hand has still to fetch the hash, or its score is above
  where the table will be, or the page or the table shows it as it is (`PageTears`). A
  write that enters the log below what a scan has reached is torn by definition
  (`TornBy`); what is to be shown is that nothing else is missed, and that a page of
  several hashes, fetched while writes go on, keeps it. `RaceInv` has the types, and that a
  hash once written stays; it is enough for `RedisIndexIsExact`.
* *`SqlInv`*. A transaction that is past its bump has the next revision, and there
  is one such at most (`RowHeld`), so revisions are committed in order and with their
  rows: a commit is a write as the SQLite store knows it (`CommitEffect`,
  `EffectPreserves`). What a reader sees is the row, or an older one, and then
  the row is above the revision the scan moves to (`SnapshotFits`, `SeenFits`).
* *`LeaseInv`* of the directory. The count of an account equals the number of its
  holders, and a request has a lease just when it is calling. The lemmas
  `HoldersTaken` and `HoldersReleased` say how one request's lease changes the
  cardinalities. A sync keeps the count because it updates a slot in place.
* *`TriedInv`, `IndexInv`*. On top of the type invariant and `Leased` (who is
  calling has a lease of an account); every selection filters the excluded.
* *`ConvergedInv`*. An account's slot shows its row, unless a task that is still
  to run, a row the sync has not read, or a failure that was never stored parts the two
  (`ShownUnlessDue`); in the last case the slot is the stricter one
  (`StricterUnlessDue`): it is passed over at least as long and for at least as many
  failures as the row says, until the row is written and synced again.
* *`ReviveInv`*. A write is pending only of a call, which was leased by a table that
  listed the account, or of the operator, whose write disables. Once every worker has
  synced a row that is out of service and no call of before is under way, no call can
  start, none can write, and the patrols leave the row alone.
* *`QuotaInv`*. Every pending patch has the shape of a success, of a 429 or of
  neither (`PatchesFit`). While nothing was lost, the one that is applied was built from
  the row as it still is (`UseFits`), as a patch that is not is what `usesLost` notes; so
  the remaining quota and the history agree.
* *`LimitInv`*. While nothing was lost, the row's counter is at least the number of
  429s of the history that lie within the window of the last (`RowCounts`); a 429
  built from the row as it is counts one more than those (`HitCounts`) and any other patch
  repeats the counter (`OtherCounts`). So the patch of the 429 that reaches the limit
  expires the row.
* *`PoolInv`, `CredentialsInv`, `DeadInv`* of the Build pool. The lock of an
  account and the actor inside its refresh name each other (`LockIsRefresh`), so
  one exchange at a time is under way. The tokens an exchange was granted stay
  honoured until they are stored (`GrantedLive`); the copy an actor refreshes with
  has the refresh token of the record, and once a record is condemned that token is
  dead (`CopyUnderRefresh`). The count is the number of leases by the way each
  step changes one request's lease.
* *`WaitInv`, `ReturnInv`* of the clearance. An event that is registered belongs to
  the coroutine that solves for that proxy (`FlightIsSolving`), and whoever waits
  has such a coroutine, registered or forgotten by a reload (`WaitersHaveOwner`).
  A second solver of one proxy would have to find no event, hence the first be
  unregistered, hence the proxy have left and come back (`SolverIsRegistered`).
* *`CacheInv`* of the media cache. Who holds the lock is inside an operation, and
  its working copies agree with index and files but for what it has still to do
  (`TrimFits`, `RemovalFits`); the disk is within the limit of the last trim, also
  while files are removed (`SettledFits`). The size of a set of files is a fold of the
  community modules; what it is without a file (`BytesWithout`) and that a subset is
  not larger (`BytesMonotone`) is proved by a least counterexample over the natural
  numbers (`LeastNat`), since the library's induction takes an operator.
* *`LeaseInv`* of pictures and films. Which phases hold an account (`PhaseFits`),
  and the count of a worker's account is the number of its holders (`CountsFit`);
  a step takes, gives back or moves at most one account of one request, and a
  worker that dies loses its requests and its counts together.
* *Folds.* What a frame does to an adapter, a token to its text, an event to the
  answer is a `FoldLeft` of the community modules. The proofs do without induction
  over sequences: a fold is the end of a run (`Runs`), a function from 0 to the length
  whose values are each one step apart, which exists by the greatest number up to
  which it does (`MaxOfUpTo`). Each fold of the model then has one lemma that gives
  its run (`EmitRuns`, `ReplaceRuns`, `LocateRuns`, `DeliverRuns`, `HandleRuns`), and
  what a step keeps holds at the end of the run for the same reason (`UpTo`).
* *`AdapterInv`* of the answers. Annotations point at their links and do not overlap
  (`Points`): in one token because each link is looked for behind the one before
  (`LocatedPoints`), over tokens because they are shifted by the length of the text
  so far and text is only added (`PointsConcat`). The report is in order because the
  aggregator knows the sections it has begun and lets nothing into one that is
  over (`Reporting`), also when held lines are released (`FlushPendingOrder`).
* *`LoopInv`*. Where an attempt is decides whether an account is held, may count
  as a success and has events to send (`Steps`); the reports are as many as the
  attempts that are over, and none but the last is a success (`Accounted`).
* *`ClientInv`*. Of the attempt under way, what the client has and what is about to
  be sent (`Going`) does not change when an event leaves. While the attempt reads,
  its text with what the sieve holds back is the text of the adapter (`Reads`); a
  sieve that looks for a tag has let none pass and keeps the longest end that
  may begin one (`Buffers`), so that neither a tag within a piece nor one cut in two
  gets through (`FeedSifts`). An answer that was sent is finished; one that was given up
  has an error (`Ends`).
* *`ProtocolInv`* of a stream. What is still to be sent leads, one legal event after
  the other (`Leads`), from what the client has to where the locals of the handler
  say the answer stands (`Placed`, `Stage`). Each list a handler yields is such a way
  (`Speaks`), as long as a call or thinking that comes finds no text open; a block of
  calls leaves nothing open (`Shut`). From the step on in which one does find it open the
  answer is tangled, and less is left to say (`Jumbled`): what is to be sent is bits of
  parts, or bits of parts before a list that closes the answer (`Closing`), and no list
  begins, finishes or ends an answer twice (`Decent`). Thinking after the text comes
  from the lines of a summary that were held back (`late`, `Stops`).
* *`SupervisionInv`* of the registration. A child that is alive is the process
  the manager knows and its watcher reads, unless a stop is ending it; while a
  child is created none is alive (`Supervised`); whoever may have left a
  reservation is alive, watched or being stopped (`ReservedForReason`). On top of
  it: what a child has collected is recorded, queued or imported (`CountInv`);
  from its snapshot to its code an attempt knows, by the way the snapshot was read,
  every mail of its inbox whose code was entered (`CodeInv`); an address that has registered is marked and no attempt has it
  (`TakenInv`); the monitor has at most one child; while it wants a normal account that child has one
  round, and the pool lacks one but for those that came from elsewhere (`MonitorInv`). The steps of a child are summarised once
  (`ChildMove`), as most of them touch its own record only.

TLC has checked each inductive invariant on the instance of a run that meets the
hypotheses of its theorem. The proofs have made assumptions explicit that the modules now
name: threads and files are finitely many (`CacheAssumption`), there is a pool
(`SqlAssumption`), and the marks for "nothing" and "at rest" are none of the values
(`NothingAssumption`, `IdleAssumption`); for the answers, that the upstream's frames are of the forms the
parser tells apart and that only the handlers of grok.com parse calls
(`FramesAssumption`, `ConfigsAssumption`).

Only model-checked:

* liveness, all of it: `EventuallyConsistent` of `AccountSync` and of `SqlSync`,
  `RequestsEnd`, `AcquireEnds`, `ActiveRefills`, `ThresholdRecovers`; the prover has
  no ENABLED, so nothing that rests on fairness is proved. Every other property of
  the passing runs is stated by a theorem.

## 5. Claims that do not hold and are not among the runs

Each is a definition at the end of its module. With the instance given, as a
cfg of the module's `MC` module, TLC shows the counterexample; constants that
are not named are as in the passing run of the module.

| Definition | Instance | What happens |
|---|---|---|
| `AccountSync!NoRowSkipped` | `BatchLimit = 1`, `MaxRevision = 4` | one bulk write gives its rows one revision; a page that ends between two of them moves the table past the rest (`sync.py:212`); `models.py:332` and `sync.py:213`: rows not returned yet are not skipped |
| `RedisSync!EventuallyConsistent` | `FairRedisSpec`, `MaxRevision = 2` | INCR, HSET and ZADD of `redis.py:253` interleave with a scan, or a later revision enters the log first; `main.py:180`: eventually consistent |
| `Answers!NumbersFresh` | as `answers` | a call or thinking that comes while a text is open takes the number of its block (`messages.py:431`, `responses.py:393`); `messages.py`: `block_index` "tracks next content_block index" |
| `Answers!RetryTransparent` | as `answers` | the loop over accounts retries whatever has been yielded (`chat.py:746`): when the upstream fails in the middle of its stream, the answer starts again behind a part of it; `chat.py:520`: "transparent retry with a different account" |
| `RegistrationManager!OutageSparesCredentials` | 1 attempt, `MaxChanges = 0` | when every way to read a mailbox fails, `list_messages` raises a new `OutlookTokenError` that is definitive by default (`mail.py:1367`): the preflight marks the credential `token_invalid`; `mail.py:1091`: a transient outage does not discard otherwise usable credentials; `:1211` |
| `RegistrationManager!SnapshotHonoured` | as `registration` | the snapshot holds the mails by the identity of the way it was read (Graph `mail.py:1246`, REST `:1296`, IMAP `:1338`); a poll that falls through to another way does not know them, and an old code is entered; `wait_for_code`: "never accept a code found in that historical snapshot" |
| `RegistrationManager!OwnCode` | as `registration` | the mail of an attempt that has timed out comes after the snapshot of the next one, with the same inbox |
| `AccountDirectory!FailExclusionEnds` | 1 account, random strategy, fairness | nothing the program does by itself lowers the failure count of a row, a success does not either; only the operator's restore (`tokens.py:564`, `:612`) or a new import of the account sets it to 0, so an account excluded for it (`selector.py:328`) stays out; `selector.py:31`: temporarily not chosen |
| `AccountLifecycle!OutStaysOut` | as `lifecycle` | a call that a lagging table leased, or one that was under way, writes COOLING over EXPIRED or DISABLED (`refresh.py:603`, `:540`); `invalid_credentials.py:23`: persist as expired |
| `BuildPool!ReasonTellsDead` | as `build_pool` | `mark_failure` looks for the words of a refused refresh token in the text and body of any error (`accounts.py:105`, `:432`), also in the 401 of a model endpoint: an account whose refresh token works is disabled as `oauth_refresh_token_invalid` |
| `BuildPool!OperatorEditKept` | as `build_pool` | a refresh stores the whole copy it made before the exchange (`accounts.py:618`): a switch or a deletion meanwhile is undone; `accounts.py:165`, `:582` |
| `RegistrationManager!OneChild` | `UnwatchedSpec` | a watcher that fails, as when the log cannot be written, sets `_process` to None while the child lives (`manager.py:798`, `:817`): the next start finds nobody |
| `AccountSync!SizeCountsLiveSlots` | as `sync` | `sync.py:177` lowers `size` per deletion read and nothing raises it when a token returns to its slot; `table.py:203`: number of live slots |
| `AccountDirectory!InflightCapped` | as `lease_quota` with `AnyRequest = {r1, r2}`, `EditRequest = {}`, 1 account | `selector.py:168` has no cap; `selector.py:30` says 12 at most |
| `AccountDirectory!InflightIsLeases` | 2 requests, `EditRequest = {r2}`, 1 account | a cancellation is no `Exception` (`images.py:1330`): the lease is not released |
| `AccountDirectory!CooldownKept` | 1 account, `Cap = 2`, `MaxFails = 3` | a sync that reads the row before the cooldown is persisted ends it (`sync.py:205`); `feedback.py:62` |
| `AccountDirectory!ExpiredStays` | 1 account, `Cap = 2`, 2 requests, `AnyRequest = {r1}`, no edits | the 401 of the image websocket is not persisted (`images.py:497`), the next sync undoes it |
| `AccountLifecycle!LimitsKeepOut` | as `lifecycle` | two 429s at once count as one (`refresh.py:635`), and a count that the store refused is gone |
| `AccountLifecycle!ActiveIsReady` | as `lifecycle` with `RateCooling = 2` | the recovery leaves `cooldown_until` behind (`local.py:889`) |
| `AccountLifecycle!ServingRefills` | as `lifecycle` | the patrol looks at active rows only (`local.py:825`); repository `README.md:282` |
| `ProxyClearance!SingleFlightOfAll` | 1 client, `Scheduled = TRUE` | the scheduled rebuild solves beside a caller (`control/proxy/__init__.py:373`) |
| `ProxyClearance!SingleFlight` | `MaxChanges = 2` | the reload forgets the flight of a proxy that leaves the pool and returns (`:131`) |
| `ProxyClearance!OnlyItsBundle` | 2 clients, `OnePool`, `MaxRequests = 2`, `MaxSolves = 3` | a late challenge is held against the newer bundle (`:194`) |
| `ProxyClearance!RotatesAway` | 2 clients, `OnePool` | two failures of one proxy out of two rotate back to it (`:215`) |
| `BuildPool!RateLimitKept` | no verifier, no edits, `RateDelay = 2`, answers ok, rate_limited, transient | a 503 overwrites the deadline of a 429 (`accounts.py:450`) |
| `BuildPool!ImportRepairs` | `MaxIssued = 3`, `MaxImports = 1`, `MaxLost = 1` | an `invalid_grant` for the old token disables the account that was just imported (`accounts.py:433`) |

Beside these, reading the code for the models has shown behaviour that is in the
models but that no property singles out, or that their inputs leave out so that
the properties can be stated:

* *SQL store.* On PostgreSQL the statements of the patrol and of the recovery
  apply `->>` to columns of type text (`sql.py:926`, `:1040`; the columns `:50`), which the
  database refuses: no console window is refilled and no account is recovered
  there, and the loops log the error at debug level (`main.py:280`). On MySQL the
  recovery writes status and `ext` over whatever was committed since its select
  (`sql.py:1066`). `replace_pool` is two transactions (`sql.py:902`), between which
  the pool is empty and may stay so, where `repository.py:87` says "Atomically".
  The backend has no `rotate_account_token` and never purges.
* *Answers.* Text that the tool sieve still holds back when the answer ends is
  dropped (`flush` returns calls only); so is safe text that comes in one chunk
  with a call in Messages and Responses. A block of calls of unknown
  tools ends the answer with `tool_calls` and no call. The held lines of a
  summary are sent as thinking after the text has begun (`xai_chat.py:697`), which in
  Messages and Responses tangles the answer as a call after text does: `ProtocolSpec`
  promises its end, and no longer the order and the numbers of its parts.
  In Responses a reasoning item is never closed if no text follows
  (`AnswerProtocol`'s `MayDangle`). An answer of images alone is never sent by
  the stream of Messages. A client that leaves at the last event has the account
  reported for a server error, which `FeedbackTruthful` exempts. A user turn with
  tool results loses its text blocks (`messages.py:75`), which is input
  conversion.
* *Registration.* The watcher of a stopped child may write its end onto the
  runtime of the next one and release its mailboxes (`manager.py:791`, `:815`);
  `OneChild` and `ReservationsReleased` are not affected, the status shown is.
  A stop in waterline mode leaves the manifest "running"; a child that cannot be
  spawned leaves "running" as well. Rounds that all fail end with code 0,
  "completed". SIGTERM ends a child before it imports what it has collected
  (`runner.py:812`), a failed import loses all of it. A group quarantine
  overwrites the "used" marks of sibling aliases, and a later reset of "invalid"
  frees them; errors that are not retried leave a mailbox reserved until the
  end of the child, also after an account was registered with it, whereupon the
  release makes it available (`RegisteredAddressKept` counts an address as taken
  when the worker has marked its result). The recovery branch of the preflight
  is never reached, as dead credentials are not leased.
* *Pictures and films.* Siblings of a failed lite request are cancelled, dropped
  and reported as server errors (`images.py:1229`, `:1279`). The task of an edit, a film
  or a lite stream goes on with an account that was given back when the client
  left (`images.py:1349`). The content of a completed job may be evicted
  (`video.py:1143`); the table of jobs is one per process and a job is forgotten an hour
  after its creation, running or not (`:980`). A film is saved on the event loop
  (`:1068`). Saves without a limit are not counted until someone reconciles. A
  prompt whose pictures are all moderated is asked for round after round
  (`imagine_ws.py:304`). A 401 of the host of a reference picture
  (`asset_upload.py:539`) expires the account of a film request, where
  `invalid_credentials.py:23` speaks of "a real 401".

## 6. Not modelled, and why

* Transport, pages, logging, migration: conversion and I/O; an upstream answer
  is its kind (ok, rate limited, refused, broken) or its sequence of frames. The
  conversion of requests into the upstream's form has no state.
* The text of answers beyond the marks that tags, citations and links make in
  it; wording and translation of the thinking's summary.
* Assumptions about pictures and films: a lock that `fcntl` provides (without it the
  code takes none); a request for pictures asks for one, a film has one segment;
  rounds of moderated pictures end; what a worker finds out about a refused account
  is known to the others; an upload is not cancelled (`images.py:1330`; see `NoEdits`
  above). `edit` and `generate` reserve before they return the generator of the stream
  and give back in its finally block (`images.py:1312`, `:1400`): that a generator which
  was returned is started is up to the server, and assumed. A failure between the
  evictions of a trim and its commit (`media_cache.py:136`) rolls the index back as a
  worker that dies there does, which is modelled, with the worker alive.
* Assumptions about the registration: exports end within the budget of the drain;
  the manifest's contents, and that it is rewritten by reading it first, are left
  out; a mail arrives while some attempt looks at its inbox, whichever attempt it was
  sent for, since when it came makes no difference to who looks later; the access
  token of a mailbox that is kept for ten minutes. At the start of a worker
  (`main.py:175`) the API releases every busy mailbox, also those of a child that
  another worker has started: one API process is modelled, where the operator's reset
  of the busy ones has the same effect.
* The other mailbox providers, the browser, and the pages that retry a CPA
  export; two processes that rewrite the file of mailbox marks at once.
* In `ToolSieve` tags have one case. The code looks for a whole tag whatever its case
  (`_tool_sieve.py:37`), but keeps back a cut one in lower case only (`:148`), so an
  upper-case tag that comes in two pieces goes out as text.
* In `Answers`, which errors are tried again is a set of kinds: a refused credential
  that the code tells by the error's text (`chat.py:192`, `xai_usage.py:217`) is of the
  kind that is.
* The contents of a row beyond what its readers tell apart; health scores and
  tags, which only order the candidates.
* In `AccountDirectory`, the on-demand refresh of quotas before the second
  attempt: it writes the store only, and no sync runs before the retry.
* `reverse/executor.py` and `invalidate_clearance`: they have no callers.

## 7. Plan

Done, in this order: store and sync with the abstract `Replica`; Redis and
SQL; the directory with the abstract `LeasePool`; the lifecycle of a row; clearance; the
Build pool; text answers with the
abstract `AnswerProtocol`; the registration with its children and mailboxes;
pictures and films with the media cache; proofs of all safety properties and
refinements of these.

Next, most important first:

1. `AccountLifecycle`: the reconciliation at start (`refresh.py:94`), live quotas
   of the other modes (`_refresh_one`, `refresh_on_demand`, the scheduled
   refresh), with `quota_defaults` as operators checked against a reference.
2. The file of Build accounts and the file of mailbox marks, with their writers
   in several processes.
3. Batch tasks: bounded queues, cancellation and the end of a stream.
4. `edit_token` and `add_tokens`, which take
   several transactions; the configuration snapshot; the leader's lock and the
   order of start and stop.

Hazards that no property covers and that `PROJECT.json` does not list beside the
instances and remarks of section 5: the second attempt to reserve uses a time
from before the on-demand refresh and a table no sync has updated
(`_account_selection.py:61`); at a restart, feedback not yet written is lost and
legacy marks of rate limits cool accounts down again (`refresh.py:94`);
`edit_token` and the import of tokens act between transactions
(`products/web/admin/tokens.py:460`, `:406`); a bounded queue may drop the final
event of a batch (`platform/runtime/task.py:38`); the audit log is compacted while
other processes append to it (`platform/request_audit.py:63`); a reload may leave
a bundle of the old configuration marked valid (`control/proxy/__init__.py:131`);
the API and the registration child rewrite the marks of mailboxes under locks of
their own (`mail.py:877`); they and every worker rewrite the whole file of Build
accounts (`control/build/accounts.py:246`).

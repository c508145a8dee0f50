# OpenChronicle: models, checks and proofs

OpenChronicle is a memory store for agents: a SQLite database of projects and
memories behind REST, MCP and CLI drivers, with semantic search, in-process
maintenance and a catalog of backups. This directory holds TLA+ models of the
parts whose correctness depends on interleaving, failure or restart, and of the
algorithms whose results are hard to test, the TLC runs that check them on small
instances, and TLAPS proofs of their safety, the results of three algorithms on data
aside, for every value of their constants. Paths below are relative to
`src/src/openchronicle/`.

## Inventory

| Part | State it keeps | Operations | What is hard | What makes it correct |
|---|---|---|---|---|
| Maintenance loop, `core/application/services/maintenance_loop.py` | per-job stamps, counters, outcome; a job lock each and one global lock; `maintenance_state.json` | `start`, `stop`, tick, job task, schedule write | asyncio interleavings, cancellation in every phase, kill and restart from an older file | one job at a time; stamps that never claim what did not happen; no early re-run; every due job runs; shutdown ends |
| Health, `core/application/use_cases/diagnose_runtime.py` | none: reads the schedule file and the container's flags | `build_health_payload` | evidence read after any number of restarts | a failed last run is visible, a good one is not accused |
| Embedding service, `core/application/services/embedding_service.py`, use cases `add_memory`, `update_memory`, `delete_memory` | `_backfill_lock`, background task, `_reconciled_revision`, failure counters | save-time embedding, backfill, refresher, search | provider calls outside every lock, re-pulls of the model, refusals, crash between two store calls | a vector belongs to the present content; a stamp never leads the weights; everything settles |
| Ollama adapter, `core/infrastructure/embedding/ollama_adapter.py` | verified revision, probe lock, cooldown | `embed_batch`, `refresh_revision` | waiting callers, timeouts, failed probes | a failed probe never changes a verified revision |
| SQLite store, `core/infrastructure/persistence/sqlite_store.py` | the database, one connection, an `RLock`, transaction depth | all reads and writes, `transaction` with savepoints, backup, vacuum | other processes on the same file, nested transactions, `BEGIN IMMEDIATE` retries | compare-and-swap publication; all-or-nothing multi-row writes |
| Backup catalog, `core/infrastructure/persistence/backup_catalog.py`, `backup.py` | snapshot files, manifests, quarantines, the staged candidate, `_operation_lock` | `create`, `list`, `verify`, `restore_plan`, `restore_stage` | crash between any two file operations, decay, damage of the live store, pruning without the lock | only verified copies are offered or staged; evidence of damage is kept |
| Maintenance jobs, `core/infrastructure/maintenance/jobs.py` | `maintenance_degraded`, the offsite remote | `db_backup` with retention, `db_vacuum`, `db_integrity_check`, `embedding_backfill`, `cloud_backup` | each is several awaits long and each part can fail | retention keeps its recovery points; backup before vacuum; damage is flagged |
| Import, export, project deletion, `core/application/use_cases/` | none | multi-row writes | checks made before the transaction | all or nothing |
| Git onboarding, `core/application/services/git_onboard.py` | a watermark memory per project | extract, filter, cluster, resume | the watermark is saved before the clusters are stored; two runs at once; rewritten history | no commit skipped; on a line of history, none onboarded twice |
| Search, `embedding_service.py`, `search_memory.py`, the store's queries | none between calls | keyword, semantic and hybrid search with paging and pins | several store and provider calls with writers in between; windows that grow with the offset | only eligible memories, none twice, pages of one stream, one vector space |
| OpenAI and Ollama adapters | see above | `embed`, `embed_batch` | replies that are short, malformed or refused for their length | a memory gets the vector at its own text's place; only over-long texts are parked |
| Offsite push, `jobs.py` (`cloud_backup`), `config/offsite.py` | working directories, the remote | select, verify, encrypt, copy, verify, time out | killed children, two processes, pruning under the push | success means the snapshot is offsite; nothing unsound is shipped |
| Offline restore, `scripts/offline_restore.py` | operation records, the set-aside database, the live file with its log | stage, activate, probe, rollback, retire | a kill at any file operation, two operations over one database | no state is lost, no log meets a foreign main file, an interrupted rollback can go on |
| Migrator and FTS set-up, `core/infrastructure/persistence/migrator.py`, `sqlite_store.py` | `schema_version`, the index | start of any process on the file | several starters, crashes, lock timeouts | the version tells the schema; nobody serves an older one; the index misses nothing written since FTS5 is in service |
| REST and MCP surfaces, `interfaces/api/`, `interfaces/mcp/server.py` | request windows per client, in-flight gauges | middleware chain, routing, tool dispatch | cancellation at every await, two surfaces with guards of their own | nothing runs that a guard should stop; each request is charged and observed once |
| Metrics, `core/infrastructure/observability/` | counters, the recorder's health, the scrape slot, a prefix cache | record, publish health, scrape | threads against each other, a cancelled scrape, a full cache | health that tells the last result; one serializer; complete and fresh bodies |

How they interact. Request threads call use cases, which call the store (every
call under its lock) and the embedding service (provider calls outside it). The
maintenance loop runs jobs one at a time on worker threads; `embedding_backfill`
and the revision refresher both end in `generate_missing`, which lets one
backfill run at a time; `db_backup` and the MCP backup tools share the catalog's
operation lock, and `cloud_backup` ships what retention may be deleting. The
command line opens the same database file from a process of its own, with
SQLite's lock between the two and nothing else. What survives a restart is the
database, the schedule file, the backup directories and the records of offline
restores. Health reads all of these.

## Modules

### `MaintenanceLoop` (`MCMaintenanceLoop`, `MaintenanceProofs`)

One process, started from the schedule file and stopped or killed at any point.
`phase[j]` is where job `j`'s task is: `queued` (own lock held, waiting for the
global lock, with `ahead[j]` the waiters before it: `asyncio.Lock` is first in,
first out), `running` (its handler) or `persisting` (stamped, its schedule write
on a worker thread). `Tick` is one pass of `_run` over the job list, which has no
await and is therefore atomic; it includes `_note_in_flight` and `_spawn`.
`EnterSlot` is `_run_slot` up to the handler, `HandlerEnds` the handler's outcome
with `_invoke`'s `finally` up to its await, `Persist`/`PersistFails` the write and
the slot's exit. `Stop` cancels: queued tasks vanish, a running one passes through
the `finally`, one already writing leaves its write to the executor. `Crash` and
`Exit` lose everything but the file. History variables `ended`, `fileEnded` and
`okTimes` record what really happened, for the properties only. Job results are
abstracted to ok, failed, skipped and cancelled (`partial` is a success to the
loop); `runs_ok`, `runs_failed`, `last_error`, log marks and metrics are left out;
`run_once` has no caller in production.

### `EmbeddingLifecycle` (`MCEmbeddingLifecycle`, `EmbeddingLifecycleProofs`)

Request threads (`writer[w]`) go through add, update or delete and then
`generate_for_memory` step by step: the store write, `Invalidate`
(`delete_embedding`), the revision snapshot, a possible probe, the provider call,
the compare-and-swap save. `backfill` is the holder of `_backfill_lock`: probe,
listing, currency check item by item, then chunk by chunk the batch request, the
per-item retry of a failed chunk, and the saves. `refresher` probes and
reconciles; `queued` is its background task before it runs. The provider is
external: `weights` is the revision it serves, and each `Repull` moves it on. A
vector is abstracted to the weights that made it, a hash to the content, the
vector-space identity to the revision (provider, model and settings do not change
within a process). `TooLong` says which contents which weights reject.
`owed` and `torn` are history: memories refused or cut off, and updates that a
crash cut between their two store calls. Failures of the store itself are left
out; the failure counters, one run's verdict and search have modules of their own.

### `BackupCatalog` (`BackupCatalogProofs`)

Snapshots are numbered in stamp order (the stamp is taken under the operation
lock). `name[s]` is the file name a copy stands under (`.tmp`, `.db`, one of the
two quarantine suffixes, or nothing), `body[s]` what it holds, reduced to which of
quick_check, integrity_check and foreign_key_check it passes, or `rotten` when it no
longer matches its manifest's digest. `create` is four steps (`Copy`, `QuickCheck`,
`Inspect`, `Publish`), each with its failure (`StagingFails`: the complete copy cannot
be opened or renamed, and the handler for all errors unlinks it); `_retention_prune` selects
(`SelectDoomed`) and then unlinks file by file without the lock; `restore_stage`
verifies, copies and compares. The jobs `db_backup`, `db_vacuum` and
`db_integrity_check` differ in what follows the backup. A disk that is full is the
bound `MaxSnapshots`. A graceful stop is not an action of its own: it ends the
process between two steps of a worker thread, which `Crash` covers. The comparison
with the running store's projects and schema is a free choice to refuse. The
operation lock is per process; a second process (the CLI's run-once) is not
modelled here.

### `EmbeddingBatch` (`MCEmbeddingSearch`, `EmbeddingProofs`)

One backfill run followed vector by vector: the provider's reply to a chunk
(whole, short, rearranged, of wrong length, not finite, refused, failed), what the OpenAI and
the Ollama adapter accept of it and how they classify an error, the item-by-item
retry of a failed chunk, tombstones, failed writes, edits under way, cancellation,
and the outcome the maintenance job reports. A vector is reduced to the text it was
made `of`, the text `at` whose place in the reply it stands, and whether its length and
values are valid. No adapter reads an item's index, so a body of the right length in
another order, or with repetitions, is accepted, and stored as it comes. A 4xx reply is assumed to
carry the over-length phrase only when the text is over-long.

### `EmbeddingHealth` (`EmbeddingCoverage`, in `MCEmbeddingSearch` and `EmbeddingProofs`)

The two failure counters with `last_failure`, written by searches, saves and
backfills on three threads, and `embedding_status`, whose counts are store calls of
their own with writes in between. Python's interpreter lock is taken into account:
a thread switches between calls, so `_record_failure` is two steps.

### `StoreTransactions`, `AtomicStore` (`MCStoreTransactions`, `StoreTransactionsProofs`)

The store's `RLock`, transaction depth, savepoints and `BEGIN IMMEDIATE` retries,
used by two server threads on one connection and by a CLI process. Each request
(single calls, `import_memory` in its three modes, `export_memory`,
`delete_projects`) is a sequence of store calls, those it makes before its
transaction included. `AtomicStore` is the abstract specification: a database that
changes by whole requests. `StoreTransactions` implements it under a refinement
mapping that hides uncommitted rows (`AtomicSpec`, a property of the run `store` and
a theorem).
SQLite's write lock and rollback are external.

### `HybridSearch` (`SearchRequest`, `MCEmbeddingSearch`, in `EmbeddingProofs`)

`search_hybrid`, `search_semantic` and the keyword search as one request of several
store and provider calls, against writers and revision changes. Tokenising, bm25 and
cosine are given with an instance's `Worlds`: how well each memory matches the query, and
its place in the order of the vectors. Every `ORDER BY` and sort is a relation (`ByScore`,
`Newest`, `BySimilarity`, `Above`), and `Listed` is the set in that order: the k-th entry
has k - 1 of them before it. Without FTS5 the store looks at the newest
`_MEMORY_SEARCH_LIMIT` rows only, and only those count as findable. Pins, scopes, windows,
reciprocal-rank fusion, offset paging and the three fallbacks follow the code. A fusion
score is an exact fraction, not a float. Equal scores come in either direction of age: the
code's stable sort leaves their order to the iteration order of a set.

### `GitOnboard`, `ClusterCommits` (`MCGitOnboard`, `GitOnboardProofs`)

`GitOnboard` is the watermark protocol of both surfaces (`onboard_git_prepare` and
its callers) over a history that is pushed to, rewound, force-pushed and merged. A
commit is a number in creation order, which is also the order `git log` gives it;
the depth of a clone is left out, and the ref never returns to the very tip it left
(to an older line it does, with a new commit). History for the properties: `forced`, the
ref once left its tip behind; `repeated`, an incremental run handed over again a commit
`past` its watermark or `beside` it, on another line. `ClusterCommits` is the four-pass clustering run
on every small list of commits, one pass per step, with the summaries.

### `CloudPush` (`OffsitePush`, `MCCloudPush`, in `MaintenanceProofs`)

`cloud_backup` in the loop's process and in `run-once`: refusals, the sweep of stale
directories, the age and future checks, the choice of snapshots, then verify,
encrypt, copy and check for each, under the bound on the whole run, with a drain of
the child after a timeout. Publishing, pruning and decay of snapshots are
environment actions taken from `jobs.py`. No decay falls between the verification of
a snapshot and its encryption; an object on the remote appears complete or not at
all, as rclone documents.

### `OfflineRestore` (`MCOfflineRestore`, `OfflineRestoreProofs`)

The script's commands as sequences of file operations over the live main file, its
log and shared-memory files, the set-aside copies and the operation records, with a
kill between any two operations and in the middle of a copy. The service writes to
the database when it is up. A state of the database is a number; the pair of a main
file and a log says whose they are.

### `StoreStartup` (`MCStoreStartup`, `ServiceProofs`)

`CoreContainer`'s start in several processes: `apply_pending` from the version read
to the release of the lock, then `_ensure_fts5` statement by statement, the probe of
`_fts5_available` first, then service with writes. The probe creates a table and drops
it, so it needs the write lock, and every `OperationalError` there passes for a build
without FTS5: a process whose lock timeout runs out in the probe serves without the
index and without having made the triggers (`ProbeFails`). A lock timeout anywhere else
ends the start (`Busy`). `gap` is history: the memories that a process without FTS5 was
the last to write before any process had FTS5 in service. SQLite's snapshots, locks and
refusals are external; a migration is reduced to whether its statements may be run twice.

### `RequestPipeline` (`HttpService`, `MCRequestPipeline`, in `ServiceProofs`)

A request passes metrics, host allowlist, rate limiter, CORS, API key and router,
then a route or the MCP transport and a tool. Each guard is one step, and the task
may be cancelled between any two. Hosts, keys and paths are small sets (`/docs` stands
for the documentation paths, which no key guards); time is in
half-second ticks so that the truncation of `Retry-After` shows. The limit, `rpm`, is a
variable that takes one of the values of `Rpms` at the start and keeps it. A tool may outlive
its request. Every registered tool is a coroutine, so the wrapper for plain functions
is left out; the recorder is switched on and does not raise here (`MetricsRecorder`).

### `MetricsRecorder` (`HttpService`, in `MCRequestPipeline` and `ServiceProofs`)

Observations as sequences of families, each update of which may fail; the
publication of health under its lock; the scrape slot with its worker thread, the
cancelled request, the prefix cache with both limits. A family stands for one of
its series.

### `OffsitePush`, `HttpService`, `EmbeddingCoverage`, `SearchRequest`

A process runs several components side by side: the loop and its push, the start and
the requests, backfills, reports and searches. These four modules instantiate a
component that shares names with a neighbour under names of its own (`Push`, `Http`,
`Metrics`, `Health`, `Search`), and state what it promises. The MC modules check, and the
proof modules prove, the properties as these modules state them.

## Runs

Bounds are in the `.cfg` files; every bound is a named constant. One run stands for
one part of the system. Where a part needs several instances (one with many crashes,
one with many actors), the MC module holds them side by side: a variable `part` or
`workload`, chosen initially and never changed, says which one a behaviour is about,
so the run explores their union and nothing is mixed. The instances of one part differ
in bounds, inputs and who takes part, never in what its properties are about.

| Run | Instances | Shows |
|---|---|---|
| `maintenance` | jobs 1 (interval 1) and 2 (interval 2, may skip), job 3 without a handler, clock 0 and 1; any stops, kills, restarts, unreadable files | `last_success_at` is always a real success (`SuccessIsReal`); the file tells a raised last run from a good one (`FailureNotMasked`); no restart makes a job early (`NoEarlyRerun`); every due job runs (`DueJobRuns`); `stop()` ends (`ShutdownCompletes`) |
| `embedding` | one memory, two contents, one over-long for the first weights. *race*: two writers, nothing fails; *heal*: one writer, a re-pull, a provider failure, a crash, a backfill of an empty project | `RowsFollowContent`, `StampNeverLeads`, `NothingOwedOnceReconciled`, `EventuallySettled` |
| `backup` | 2 snapshots on 2 days, keep 1, the job and a request thread, one damage, one fault (any file operation of `create` and `restore_stage`), one crash | `ListedWasSound`, `EvidenceKept`, `RecoveryPointsKept`, `StagedIsSound`, `OperationsEnd` |
| `restore` | *overlap*: two operations, one service write or one kill; *kills*: one operation, two candidates, 3 writes, 4 kills, a sound or damaged database | `LogMatchesMain`, `NothingLost`, `RecordHonest` (phase, probe result, set-aside copy and resumability of `state.json`) |
| `store` | two server threads, one CLI process, 2 projects, 3 memories, 2 envelopes, all eight requests, one BEGIN retry | `NoOrphans`; the store implements `AtomicStore` (`AtomicSpec`); `RequestsEnd` |
| `onboard` | *alone*: 3 runs, 3 commits, one of them noise, a rewind, a walk cap of 2, two of a failure, a crash and a row written by hand; *overlap*: two runs at once, 2 commits; *return*: one undisturbed run after another, 4 commits, the fewest on which two lines are merged or a forced push leaves a line and comes back to it; *clustering*: every list of up to 4 commits close and far apart, and of up to 3 of all kinds, with caps -1 and 2 | `NothingSkipped`, `NoRepeat`, `Clustered`, `SummaryTrue` |
| `embedding_search` | *run*: 3 candidates in chunks of 2, one over-long, OpenAI and Ollama, two faults, every rearrangement of a body; *report*: the health call over every database of 2 memories with a write under it; *counters*: one memory at a time, two writes, a failure counter up to 2 on three threads; *races*: writes, probes and a failure inside one search; *pages*: every pattern of matches of 4 memories, with and without FTS5; *ranks*: keyword and vector orders that disagree, two pages, provider or revision lost; *scopes*: memories of other projects and tags in every order of similarity | `RunSound`, `VerdictHonest`, `HealthHonest`, `PageSound`, `SpaceKept`, `PagesOfOneStream` (keyword search over a store at rest), `HybridSound` |
| `cloud_push` | *status*: the freshness limits with one fault; *days*: every set of snapshots over four days; *pair*: loop and run-once at once | `OffsiteSound`, `RunEnds` |
| `startup` | a server and a CLI process on any earlier version, 5 migrations of which 2 may run twice, FTS5 on or off at each start, 3 lock timeouts, ends or kills, 3 writes | `ServesOnlyMigrated`, `IndexComplete`, `EventuallyServing` |
| `http` | *guards*: one client, a limit of 1, every path, every way to fail a guard; *budget*: two clients, a limit of 2 in 2 s, 11 half-second ticks; *accounts*: 3 requests at once on both surfaces, no limit; *threads*: 3 recording threads, 3 faults; *scrapes*: 2 scrapers, 3 scrapes, a cache too small | `OnlyAdmittedRun`, `LimiterSound`, `AccountsExact`, `RecorderSound` |
| `startup_index` (violation) | the same two processes, one write, one end | `IndexRebuilt` fails: see Findings |
| `onboard_merge` (violation) | 4 commits, one of them a merge of two lines, two runs one after the other, no failure, no forced push | `HandedOverOnce` fails: see Findings |

Why the bounds suffice. In `maintenance` job 2 has run at 0 and is not due at 1, so
every restart at 1 could make it early; job 1 is due again at 1, so a success and a
failure, an overlap and a kill meet in the same file; two jobs with handlers are the
fewest that queue for the global lock. The races on a row need one memory, two
contents and two writers beside the backfill; chunks and their retries are
`EmbeddingBatch`'s. One re-pull falls before, during and after every snapshot and
provider call. With `Keep` 1 a second snapshot on the same day supersedes the first
and one on the next day moves the window; the proof of `RecoveryPointsKept` is for
every `Keep`. Two restore operations with a kill or a write between any two of their
file operations reach the states in which one finds the half-done work of the other;
four kills reach a retry of a retry. Three actors on the store put a call of one
between any two calls of another. A page of one or two over four memories is the
smallest with a later page that can disagree with an earlier one, and a limit of three
rows leaves the oldest out of a search without FTS5. A start
and a process that serves, or two starts, are what meets at the lock: one holds it, the
other waits, times out or has read an old version, and three faults let either go through
that again. A merge needs three commits and one to branch from.
The limiter keeps nothing across an await, so one request at a time loses none of its
histories and the clock can run past two windows. Each property has a mutant of the
code's logic (in the modules, marked `Bug:`) that TLC finds.

### Fairness

Safety assumes none. `MaintenanceLoop`: the loop ticks, tasks that can run do (every
shipped handler is bounded by timeouts), shutdown proceeds; time, starts, stops and
crashes are not owed. `EmbeddingLifecycle`: threads in a call go on, the refresher
wakes again (its loop catches every exception), the maintenance job keeps calling the
whole-corpus backfill, a cooldown ends; requests, re-pulls, failures and crashes are
not owed and are bounded, so "once they stop" is meant. `BackupCatalog`: a thread in
an operation goes on. `StoreTransactions`: a thread in a request goes on when its call
can run; nobody is owed a request. `CloudPush`: only the clock, the timers and the
drain; the child owes nothing, which is what the bound on the run is for.
`StoreStartup`: a starting process and one inside a write transaction go on, and one that
failed is started again, which the deployment's `restart: unless-stopped` promises for the
server; for a command line process it is whoever ran the command.

## Findings

**The index is not rebuilt** (`startup_index`). `_ensure_fts5` rebuilds when
`SELECT COUNT(*) FROM memory_fts` is 0 (`sqlite_store.py:1212`). `memory_fts` is an
external-content table, so that count is the number of memories: the rebuild runs only
when there is nothing to index. Memories written by a process without FTS5, before any
process had made the triggers, stay out of the index once it is on. FTS5 on at every
start does not help: a process that meets a locked database in the probe
(`sqlite_store.py:250`) serves without FTS5 too. `IndexComplete`, which holds, says that
these memories are the only ones missing, or listed though deleted, from the moment a
process has FTS5 in service, whoever dies between two statements before that.

**A merge is onboarded again and again** (`onboard_merge`). The watermark is the newest
commit walked, and the next walk is `git log --no-merges <watermark>..HEAD`
(`git_onboard.py:935`). When HEAD merges two lines the watermark is on one of them, so the
next run lists the other line, hands its clusters over a second time and moves the
watermark there; the run after that does the same with the first line, and none is ever
up to date. `NoRepeat`, which holds, says what is left of the promise: without a merge or a
forced push no run repeats anything, and with only one of the two, nothing past the
watermark.

Also met while modelling. The properties above are stated around these, and none of
them has a run of its own:

- A run that `stop()` cancels is stamped in `_invoke`'s `finally`
  (`maintenance_loop.py:354`), and health takes a `last_run_at` newer than
  `last_success_at` for a raised run: a redeploy during a job shows as degraded until
  its next interval. `FailureNotMasked` speaks of completed runs only.
- The docstring of `backup.py` (lines 19-22) promises that a copy that fails its check is
  quarantined, not deleted. If the rename to quarantine fails (line 104), or the
  open that validates the copy, the handler for all errors unlinks the complete copy
  (lines 108-113), and the only evidence of damage with it. `EvidenceKept` names this as
  the one exception: a copy not yet renamed, at a failing file operation of its own
  staging. Nothing later, and no other thread, prune or crash, costs the evidence.
- A 200 whose vectors are in another order than the texts is stored as it comes: the
  OpenAI adapter does not read `item.index` (`openai_adapter.py:107`). That a body of the
  right length is in order is the server's word; `RunSound` says that every memory gets
  what stood at its own text's place and, as long as no reply was faulty, its own vector.
- The emptiness check of a replacing import (`import_memory.py:278`) precedes its
  transaction; an export reads projects and memories in two calls
  (`export_memory.py:45`) and may hold a memory whose project it lacks.
  `AtomicStore` promises neither.
- Onboarding marks the newest commit walked before its caller has stored the clusters:
  a crash then loses them, a forced run that dies leaves a mark over deleted memories,
  and a forced push to an older line has the commits of that line handed over again.
  `NothingSkipped` counts commits handed to a caller as done; `NoRepeat` is about runs
  that do not overlap.
- In search, the fusion window grows with the offset, so hybrid pages are not cut from
  one stream; hidden pins take up the semantic window; without FTS5, pins float that do
  not match; the float is in order of rank. `PagesOfOneStream` is about keyword search
  and `FirstPageFull` about searches that show pins.
- A successful save or backfill clears one of the two failure counters
  (`embedding_service.py:328`); `missing`, a difference of two counts, can be negative
  under a concurrent save. `HealthHonest` holds the counts to the truth only when nothing
  was written since the call began; the operation it names must be right in any case.
- A tick during a slow schedule write leaves `last_outcome` at `skipped_overlap` over
  the finished run's outcome (`OutcomeMatchesStamps` is stated around it). A wrong
  bearer token hides a right `X-API-Key` header.

## Proofs

Eight modules hold theorems. Each says what the runs check on small instances, for
every value of the constants: any jobs and intervals, any number of threads,
processes, memories, contents, revisions, snapshots, operations, commits and
migrations, requests, clients and scrapes, any `Keep`, chunk size, retry limit,
timeout or request limit, any bound. Nothing is assumed but
the named assumptions on the constants, which say

- that names do not collide: threads, processes and files are told from the fixed
  names beside them (`LifecycleAssumption`, `CatalogAssumption`, `NoOneAssumption`,
  `NoChangeAssumption`, `NoFileAssumption`, `MarksAssumption`, `RecorderAssumption`,
  `HealthAssumption`);
- that counts and bounds are numbers, positive where the code makes them so: `Keep`,
  the chunk size, the vector length, the walk cap, the number of commits
  (`JobsAssumption`, `RetriesAssumption`, `BoundsAssumption`, `BatchAssumption`,
  `MaxWalkAssumption`, `MaxCommitsAssumption`, `PushAssumption`, `PipelineAssumption`,
  `SearchAssumption`);
- what shape the instance's data has: migrations are numbered from 1 without a gap, as
  the repository's are (`StartupAssumption`); a thread runs in one process, a memory
  has one home, requests are the modelled ones (`RunsAssumption`, `HomeAssumption`,
  `WatermarksAssumption`, `EnvelopesAssumption`, `KindsAssumption`); no candidate is
  listed twice, as a primary-key query lists none (`BatchAssumption`); snapshots are
  told from the first states of the live database (`SnapshotsAssumption`); what is
  counted (requests, threads, memories) is finite, and the operations recorded are the
  ones the recorder has (`PipelineAssumption`, `RecorderAssumption`,
  `HealthAssumption`); memories are finitely many, their scores are numbers and no two
  vectors share a place in the order of similarity (`SearchAssumption`).

`PushAssumption`, `PipelineAssumption`, `RecorderAssumption`, `HealthAssumption` and
`SearchAssumption` belong to modules that are instantiated, several times with different constants, so they
are definitions: the MC modules assume them of each of their instances, where TLC
evaluates them, and the theorems have them as hypotheses.

A proof module extends one component's module and, where a neighbour runs in the same
process, the module that instantiates it (`OffsitePush`, `HttpService`,
`EmbeddingCoverage`, `SearchRequest`). An instance brings its own copy of `Cardinality`
and `IsFiniteSet`; one lemma per instance (`PushSizes`, `HttpSizes`, ...) says that they are the operators of
`FiniteSets`, which the library's theorems are about.

No theorem adds a setting of its own: what the code does not promise (evidence at a
failing rename, an index of what was written before it, no repetition across a merge) is
an exception the property states, reached by the runs.

| Module | Theorems |
|---|---|
| `MaintenanceProofs` | `TypeCorrect`, `JobsExclusive` (`SlotExclusive`), `RecordedSuccessIsReal` (`SuccessIsReal`), `PersistedFailureVisible` (`FailureNotMasked`), `OverlapsBounded` (`OverlapOncePerRun`), `StatusConsistent` (`OutcomeMatchesStamps`), `RestartKeepsSchedule` (`NoEarlyRerun`, an action property); of `CloudPush`: `PushInvariance`, `OffsiteIsSound` (`OffsiteSound`) |
| `EmbeddingLifecycleProofs` | `TypeCorrect`, `VectorsFollowContent` (`RowsFollowContent`), `StampsTrail` (`StampNeverLeads`), `ReconciledMeansCovered` (`NothingOwedOnceReconciled`) |
| `BackupCatalogProofs` | `TypeCorrect`, `OffersOnlySound` (`ListedWasSound`), `StagesOnlySound` (`StagedIsSound`), `VacuumIsCovered` (`VacuumHasFallback`), `DamageIsFlagged` (`DamageFlagged`), `EvidenceIsKept` (`EvidenceKept`, an action property), `RecoveryPointsAreKept` (`RecoveryPointsKept`) |
| `StoreTransactionsProofs` | `Invariance`, `NeverOrphaned` (`NoOrphans`), `StoreIsAtomic` (`AtomicSpec`, the refinement of `AtomicStore`) |
| `OfflineRestoreProofs` | `Invariance`, `NoForeignLog` (`LogMatchesMain`), `DisplacedIsKept` (`NothingLost`), `RecordsAreHonest` (`RecordHonest`) |
| `EmbeddingProofs` | `Invariance`, `RunsAreSound` (`RunSound`), `VerdictsAreHonest` (`VerdictHonest`); of `EmbeddingHealth`: `HealthInvariance`, `HealthIsHonest` (`HealthHonest`); of `HybridSearch`: `SearchInvariance`, `PagesAreSound` (`PageSound`), `HybridIsSound` (`HybridSound`), `PagesAreOneStream` (`PagesOfOneStream`), `RequestKeepsItsSpace` (`SpaceKept`) |
| `GitOnboardProofs` | `Invariance`, `WatermarkPassesNothingBy` (`NothingSkipped`), `IncrementalNeverRepeats` (`NoRepeat`) |
| `ServiceProofs` | `StartupTyped`, `ServesMigrated` (`ServesOnlyMigrated`), `IndexFollows` (`IndexComplete`); of `RequestPipeline`: `RequestsInvariance`, `OnlyAdmittedRuns` (`OnlyAdmittedRun`), `AccountsAreExact` (`AccountsExact`), `WindowsInvariance`, `LimiterIsSound` (`LimiterSound`); of `MetricsRecorder`: `RecorderInvariance`, `RecorderIsSound` (`RecorderSound`) |

The arguments:

- **Maintenance loop.** One invariant, `IInv`. `FailureNotMasked` alone is not
  inductive: a failed run reads as newer than the last success only because the job
  was due when dispatched (`DispatchedIsLater`), stamps are ordered and never ahead
  of the clock (`StampsOrdered`), and the stamps, in memory and in the file, agree
  with how the run ended (`StampsTellEnding`). `NoEarlyRerun` needs that a process
  that read its file is not behind it (`MemoryNotBehindFile`).
- **Embedding lifecycle.** Three invariants over the types and `BusyWriters` (a busy
  thread has a memory and a text). Rows follow content because a save compares the
  content in the same store call, and because whoever changes the content is in
  `invalidate`, or cut there, until the row is gone. Stamps trail because each actor
  reads its stamp before the call that makes its vector (`AdapterTrails`,
  `WritersTrail`, `BackfillTrails`) and weights only grow. Nothing is owed once
  reconciled because a process never unlearns a revision (`RefusalsOver`), so no
  request is refused after the listing of a whole-corpus backfill.
- **Backup catalog.** `IInv`: creators and stagers hold the lock, so there is one
  (`LockHeld`); a copy has no manifest before it is published and is sound by then
  (`CopyUnpublished`), so manifests stand for sound copies (`ManifestSound`), and
  decay, which needs a manifest, cannot reach a copy under way. Retention, outside
  the lock, only deletes what has a manifest (`DoomedPublished`), so of a copy that shows
  damage only its own staging can take the name (`NextKeepsEvidence`). The job's own
  snapshot is the newest automatic one, so the prune never selects it
  (`JobsOwnKept`).
- **Retention.** On top of it, `RInv`: what is about to be deleted is superseded by
  other *completed* snapshots, counted with cardinalities of finite sets, and a
  superseded snapshot stays so because completed ones keep their kind and day.
- **Start.** `StartInv`: the rows of `schema_version` are an initial segment of the
  migrations and tell exactly what is in the schema (`Segment`); a process that is up
  has everything still missing on its list, however old its reading of the versions
  is, and past the check of the timestamps none without an offset is left (`Local`).
  `ServesOnlyMigrated` alone is not inductive: it says nothing of the process that
  read an old version and is about to execute from its list. `Indexed` adds that the
  triggers stand once a process has had FTS5 in service and wherever a process counts,
  rebuilds or serves with FTS5, so that only a process without them writes past the index.
- **Store.** `IInv`: a thread inside a transaction holds its process's lock, and a
  process with uncommitted work has such a thread (`Owned`), so no second thread of
  the process and, by SQLite's write lock, no other process changes the rows below it.
  The top of the stack of savepoints is the committed rows with the part of the
  request's change that is done applied (`Partial`, `Underway`), and that part leaves no
  orphan (`Possible`). Under the mapping (the committed rows, the change each thread
  inside a transaction has in mind, the answers) a commit is `Apply` of `AtomicStore`,
  and every other step is a stutter, an `Ask`, a `Read` or a `GiveUp`.
- **Restore.** `IInv` has one line per step of the script (`Doing`): what the live
  family, the set-aside copies and the record look like to an operation at that point.
  A kill leaves exactly what `Sound` says of a record: which files its phase
  vouches for, also when another operation has overtaken it (`disturbed`). `NothingLost`
  comes from `Archived`: every state a swap displaced is in the `raw-old` or
  `forward-state` of an operation that no later step writes to.
- **Backfill run.** `IInv` is by position in the candidate list: what the loop is past
  was stored, parked or counted as failed, edits and faults aside (`Served`); the
  vectors a batch still holds are, in order, fit for the candidates still to be saved
  (`Positioned`; `Fit` is by place in the reply and, until a reply was faulty, by text); the count of vectors is zero exactly when there is none
  (`CountsTrue`); and nobody has reported a run that is not over (`Unsaid`). That the
  adapters let only fit vectors through is a lemma about each reply they accept.
- **Onboarding.** A commit once accounted for (handed over, in hand, past the cap,
  dropped or wiped, `Has`) stays so; `MarksJustified` and `RunSoundAt` say that every
  mark in the table, and every mark, listing and walk a run has read and may yet act
  on, leaves only such commits behind. For `NoRepeat`, `PInv`: there was
  both a forced push and a merge, or `NInv` holds: ancestors are older (`Line`); without a
  merge a commit's ancestors are one chain (`Chain`); and what was handed over, marked or
  walked is on the ref as long as that was not forced (`NoneNewer`, `OnTheRef`). Then,
  while runs do not overlap, no watermark is before anything handed over (`MarksLead`),
  and of what a run is going to hand over, nothing past its watermark was (`Fresh`). On one
  chain, not before the watermark means past it.
- **Offsite push.** `PIInv`. `OffsiteSound` speaks of objects offsite and of a stamp;
  what puts them there is a run, so the invariant follows each run: it is within its
  deadline (`InTime`), what it selected is the selection of what it listed, with a
  snapshot in it that was fresh when the run began (`Listed`), and what it is through
  with is in its directory, whole and verified (`Encrypting`). A stamped success then
  left a snapshot offsite no older than the source limit and one run (`SuccessShipped`),
  and the remote only grows. That a day's newest snapshot is selected while fewer than
  the window's days follow is a lemma about finite sets (`DaysAreSelected`). A sweep
  removes only directories older than a run may last, and a live run's is younger than
  its run.
- **Requests.** `RequestsSound` says of a request at each layer what the layers before
  it established (`AdmissionSound`), that only the path's spelling changes on the way to
  the mount (`PathSound`), and what may have run, been answered and been observed so far
  (`RanSound`, `AnswerSound`, `ToolSound`); `OnlyAdmittedRun` alone says nothing of a
  request that is about to run. The gauges are cardinalities, and a step changes each by
  what its request begins or ends (`RequestStep`).
- **Rate limiter.** `WindowsSound`: a client's stamps are of the past and ascending
  (`ListSound`), so the comprehension that prunes them keeps a suffix (`LaterIsSuffix`),
  and pruning at two times is pruning at the later one (`LaterTwice`): this is why it
  does not matter whose request pruned a list last. The pruned list is the history of
  grants (`ClientSound`). A promise that is not due has either room or an oldest stamp
  that expires by then (`PromiseSound`); that the whole seconds of `Retry-After` reach
  past that stamp is `RoundedUp`.
- **Metrics recorder.** `RIInv`: exactly the actors between taking and releasing the
  health lock hold it, and only an unhealthy recorder has any (`LockSound`), which orders
  overlapping successes and failures; an error that is not counted yet is an actor on
  its way to the counter (`LossCounted`); one worker holds the slot (`SlotSound`); what a
  worker collected lies between the registry at its start and now, family by family
  (`BodySound`), and the registry only grows.
- **Embedding health.** `HIInv`: while nothing was written since the call began, each
  field it has filled is the count it is named for (`ReportSound`). That these counts
  add up to the work of a backfill is then a partition of the rows
  (`VerifiedPartition`), or a bound when the revision is unknown (`UnverifiedBound`),
  which need that every row is some memory's (`RowsOfMemories`).
- **Search.** `SearchInvariant`, over lemmas about lists. A total order puts each of a
  finite set at a place of its own (`Lines`, by counting those before it), so `Listed` holds
  each once, in order, and a shorter list is a cut of a longer one. Of the
  lists a request has read: whatever was written since, they were allowed when read and
  repeat nothing (`ListsSound`); over a store at rest they are what the store would
  answer now (`ListsCurrent`). The answer is a cut at the offset of one stream, the pins
  and then the rest (`AnswerCut`), and the rest holds everything findable, or reaches past
  the page (`RestSound`). `PageSound` alone says nothing of a request between its reads.
  Pages: each request fetches `top_k + offset` and as many more as are excluded, and that
  it sees the same ranking as a request with another offset is a lemma about filtered cuts
  (`FetchMore`, `PageOfRanking`), so the pages given are the beginning of the whole stream
  (`PagesCut`). Fusion: a sum of two fractions grows when one rank improves and the other
  does not worsen, an absent rank counting as zero (`FusionPrefers`).
- **Vector space.** `SpaceKept` is inductive as it stands: `Embed` is the only step on to
  the vectors, and it gives up when the request opened under a revision and the adapter
  knows none any more.

Two of these proofs first failed for a reason outside the bounds of the runs, and the
model was corrected. `NothingSkipped` did not name the memories that a forced run
deletes although, after a forced push, its own walk no longer reaches their commits;
`wiped` records them. `NoRepeat` spoke of every commit an incremental run hands over,
which four commits refute: after a forced push to a side line and back, `<mark>..HEAD`
starts from the common ancestor. It now tells commits past the watermark from those
beside it, and the run has the four commits.

## What is only model-checked, and why

Liveness (`DueJobRuns`, `ShutdownCompletes`, `EventuallySettled`, `OperationsEnd`,
`RequestsEnd`, `RunEnds`, `EventuallyServing`) needs fairness and `ENABLED`, which
the prover does not handle. What the clustering computes (`Clustered`, `SummaryTrue`) is
recursion over lists of commits, for which the prover has no induction. Every other
property of a passing run has a theorem.
`SlotExclusive`, `OverlapOncePerRun`,
`OutcomeMatchesStamps`, `VacuumHasFallback`, `DamageFlagged` and the type invariants
are the reverse: proved, and not checked by a run any more.

Assumptions of the models: the wall clock does not step back; a re-pull never
returns to weights served before; a git ref never returns to the tip it left; SQLite, rclone and the file system do what they
document (a rename is atomic, a commit is all or nothing).

## Not modelled, and what is left

- The bodies of REST routes, MCP tools and CLI commands: argument parsing, thin calls
  of the use cases, serialisation and printing. Parsing of configuration, logging.
- Tokenising, bm25, cosine similarity and norms: the orders they give are inputs of
  `HybridSearch`.
- The words of git's output and the validation of URLs and branches.
- The Prometheus text format and the escaping of labels.
- Probe, benchmark and smoke scripts: developer tooling that drives a running service.
- Two hazards of a second process have no property: the read and the upsert of
  `save_embedding` from two processes, and two prunes of one backup directory. They
  need `EmbeddingLifecycle` and `BackupCatalog` over the two-process store of
  `StoreTransactions`.

An abstract specification of the catalog as a set of recovery points, with
`BackupCatalog` as its implementation, is the next refinement worth stating.

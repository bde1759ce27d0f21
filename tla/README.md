# Formal models of the analytics pipeline

The repository is an event pipeline: an HTTP API stores payment events in
PostgreSQL, a rollup worker aggregates them into minute, hour and day tables and
into a Redis leaderboard, a nightly script recomputes the day table, and query
endpoints read the tables through Redis. This directory holds TLA+ modules of
it, TLC configurations that check them on small instances, and proofs for TLAPS.

Paths below are relative to `src/`.

## 1. Inventory

### Components, their state and operations

| Component | Source | State | Operations |
|---|---|---|---|
| Ingestion | `app/api/routes/events.py`, `app/services/ingestion_service.py`, `app/repositories/event_repository.py`, `app/db/engine.py` | `event_idempotency`, `raw_events` (partitioned by day of `occurred_at`), an ingestion counter in Redis | `POST /events`, `POST /events/batch`: claim the keys, insert, NOTIFY, count in Redis, read duplicates, commit |
| Rollup worker, batch | `app/workers/rollup_worker.py:71-142, 219-330, 393-424`, `app/repositories/rollup_repository.py` | `processed_rollup_events`, `rollup_minute/hour/day`, `consumer_offsets` | read the offset, fetch a page, insert markers, aggregate, upsert, advance the offset, commit, post-commit work |
| Rollup worker, loop | `app/workers/rollup_worker.py:167-217, 347-388`, `worker_rollup.py` | wake-up event, stop flag, LISTEN connection | poll or wake, retry after an error, reconnect, shut down |
| Nightly compaction | `scripts/nightly_compaction.py` | `rollup_day`, `leaderboard_snapshots` | overwrite the day from the hours, report discrepancies, snapshot the ranking |
| Leaderboard | `app/services/query_service.py:188-247`, `app/repositories/redis_repository.py`, `_update_leaderboard` of the worker | one sorted set per month with an expiry | increment per batch; read; rebuild from `rollup_day` when the key is missing |
| Metric queries and cache | `app/api/routes/metrics.py`, `app/services/query_service.py:43-186`, `rollup_repository.py:202-305` | cached responses in Redis | routing by range, cache-aside read, sparkline |
| Partitions and retention | `scripts/create_partitions.py`, `migrations/`, the retention the repository's `README.md:722` describes | partitions of `raw_events`, the default partition | create days ahead; an operator drops old days |
| Health | `app/api/routes/health.py` | none of its own | derive a status from the last event and Redis |
| Lifecycle, registries | `app/main.py`, `app/db/`, `migrations/env.py` | session factory, engine, Redis client, tracer; `alembic_version`, `merchants` | start: check PostgreSQL and Redis, migrate, seed; stop: dispose, close |
| Dashboard, load simulator, observability, configuration | `dashboard/`, `scripts/load_simulator.py`, `app/observability.py`, `app/core/` | none any behaviour depends on, but for the tracer's slot | - |

### How they interact

    client --POST--> ingestion --one PG txn--> event_idempotency, raw_events
                        |  NOTIFY (in the txn)          |
                        v                               | SELECT after the offset
                  wake-up of the loop ----------> rollup worker
                                                        | one PG txn: markers, three
                                                        | rollup tables, the offset
                                                        v
        nightly compaction --overwrites--> rollup_day, rollup_hour, rollup_minute
                |                                       |
                v                                       | after the commit: ZINCRBY
        leaderboard_snapshots                           v
                                     Redis sorted set <--rebuild-- GET /leaderboard

Ingestion and the worker share only PostgreSQL: an event becomes visible when its
transaction commits and is found by `created_at`, which is the time that
transaction *started*. The worker and the compaction share the rows of
`rollup_day` and their locks. The worker and the query service share the sorted
set without any lock at all. Partitions are created and dropped underneath the
ingestion, whose rows they route, and the worker, whose offset names one of those
rows. The replicas of the API meet in `alembic_version` and `merchants` when they
start, and the health endpoint reads the worker's offset.

### What is hard here, and what makes each part correct

* **Rollup path.** Workers race for the same page, die between two statements,
  and replay after a rollback or an offset reset. Correct means: the tables are
  the recomputation of the marker table at every moment; the offset names
  something that has been aggregated; no number exceeds what was ingested; the
  cursor loses an event for two known reasons only; every other event is
  aggregated in the end.
* **Ingestion.** Requests with a common key race; batches take keys in different
  orders and deadlock; statements fail half-way; a swallowed error leaves an
  aborted transaction. Correct means: one event per key, in whatever partition;
  every answer names the stored event; a request ends.
* **Compaction.** It sums first and locks later, while the worker increments the
  same rows. Correct means: nothing is counted twice, losses are reported, and a
  quiet run repairs what was lost.
* **Leaderboard.** Increments, reads and rebuilds interleave and the key can
  vanish. Correct means: the overshoot is bounded, and a payment leaves the board for
  four known reasons only.
* **Worker loop.** The wake-up flag is cleared after the wait and set by a callback
  at any time, the LISTEN connection may die unnoticed, and a signal may come in any
  wait. Correct means: no wake-up is lost, polling alone is enough, a signal ends
  both coroutines.
* **Metric queries.** Commits fall between the statements of an answer, concurrent
  misses overwrite each other's cache entry, and buckets stick out of the range.
  Correct means: how stale and how imprecise an answer can be is bounded.

* **Partitions.** A row of a day without a partition goes to the default partition,
  where it blocks that partition from then on; retention may drop the row the
  worker's offset names. Correct means: what a script has covered stays covered, and
  no event that is still stored is left out.
* **Lifecycle and health.** Replicas start together against one schema, against
  servers that may be down, and are killed at any point. Correct means: none serves
  before it can, all of them serve in the end, a stop releases what the app owns and
  nothing else, and "ok" excludes a worker that stopped.

Every hazard, with its line and the properties aimed at it, is under `hazards`
in `PROJECT.json`.

## 2. Modules

| Module | What it is |
|---|---|
| `Rollups` | the data: events, buckets, cells, `_BucketAccum`, the additive upsert, and the recomputation it is compared with |
| `RollupLedger` | abstract specification of the rollup path: a log, markers, tables recomputed from them |
| `RollupWorker` | the detailed one: ingest transactions, workers, crashes, replays; refines `RollupLedger` |
| `FiniteSums` | lemmas on sums, minima and maxima over finite sets |
| `RollupWorkerProofs` | the algebra of the upsert, the inductive invariant, the safety theorems, the refinement |
| `EventLog` | abstract specification of ingestion: keys claimed once and for good, all new keys of a request appended in one step or none |
| `Ingestion` | the detailed one: handlers statement by statement; refines `EventLog` |
| `Ranking` | top-n of a volume, shared by the next two |
| `Compaction` | compaction runs, the worker's day upserts, row locks |
| `Leaderboard` | the worker's increments, the read path, rebuild and loss of the key |
| `WorkerLoop` | one worker process: both coroutines, the wake-up flag, the LISTEN connection, the stop signal |
| `Metrics` | range and sparkline requests: routing, queries, cache-aside |
| `Partitions` | daily and default partitions, the scripts that create days, retention, the worker's cursor |
| `Lifecycle` | the API replicas: start, migration, seed, failure, stop, crash |
| `Health` | `GET /health` over `Lifecycle`, a worker and clients; extends `Lifecycle` |
| `IngestionProofs`, `PartitionsProofs`, `CompactionProofs`, `LeaderboardProofs`, `MetricsProofs` | theorems on the module each is named after |
| `ProcessProofs` | theorems on the processes: `Lifecycle` and `Health`, and `WorkerLoop` |
| `MC...` | the instances for TLC |

### RollupWorker

A worker's `pc` is its place in `_process_batch`; `cursor`, `page`, `last` and
`fresh` are the locals `last_event_id`, `events`, `events[-1].id` and `new_ids`.

| Action | Code |
|---|---|
| `BeginIngest`, `CommitIngest`, `RollbackIngest` | an ingest transaction, reduced to the time it starts, commits or rolls back; the history variable `late` collects the events that a commit makes visible behind a later `created_at` |
| `ReadOffset`, `FetchNothing`, `FetchPage` | `get_consumer_offset`, `get_events_after` with its strict comparison, order and LIMIT |
| `InsertMarkers` | `_insert_processed_markers`: ON CONFLICT DO NOTHING RETURNING, which waits for an open transaction that holds the same marker |
| `CommitBatch` | the three upserts, the offset and `commit()` |
| `FinishBatch` | the work after the commit |
| `AbortBatch`, `Crash`, `Restart`, `ResetOffset` | an exception and the loop's retry; the process dies and is started; an operator asks for a replay |

Writes are applied at the commit. That loses no behaviour: no other session
sees them before, and the two ways in which they can be felt before the commit
are kept or harmless. A conflicting marker waits (`Holds`); a rollup row stays
locked until the end of its transaction and is incremented relative to its
current value, so the order of two increments does not matter.
What it leaves out is that two batches may deadlock on rollup rows, whose effect
is that of `AbortBatch`.

Random UUIDs are natural numbers, whose order is the order `ORDER BY id` uses.
`RollupMatchesMarkers` compares the *incrementally* merged tables (count, sum,
minimum, maximum) with a recomputation from all markers, so it checks the upsert
as well as the transaction.

`LostOnlyLateOrTied` says what the cursor may lose, without any assumption on how
ingest transactions overlap or how many rows they insert: an event the offset has
passed is aggregated, or late, or shares `created_at` with an aggregated one.
`EventuallyAggregated` adds that every other event is aggregated in the end.

### Ingestion

One `pc` per request; `claims` are the keys its open transaction has inserted
into `event_idempotency`, `doomed` says that a statement of it has failed
although the handler went on. The id of an event is the pair of the request that
made it and its key. `EventLog!Append` takes all keys of a request that are new, so a commit of
some of them would be no step of it, and a second one of the same request neither. `DropPartition` is retention: the rows of a day are gone, their
keys are not. The two endpoints differ in order (single: NOTIFY, then the
Redis counter; batch: the counter, then NOTIFY) and in what a vanished duplicate
does (`one()` raises; the batch answers a nil UUID), and the model keeps both.
`Abort` is an error outside the code's reach (Redis, connection, crash),
`DeadlockVictim` PostgreSQL's detector. A client's retry is another request with
the same key. The schema checks of the payload, and the Prometheus counters, are
not modelled.

### Compaction

Any number of workers that share a consumer id, whose open batches are disjoint since
each holds its markers. The day's rows are locked one at a time, in any order, by `OverwriteRow` and
`UpsertDelta`; `todo` and `held` are the rows still to lock and locked. `snap` is
what the one SELECT over `rollup_hour` saw; `Discrepancies` is a later statement
with a snapshot of its own. A count stands for the sum, minimum and maximum too,
and `rollup_hour` is what the worker has committed, which is what theorem
`RollupsExact` allows. A transaction may be aborted at any time and any number of times
(`Abort`), and a worker whose batch was dropped may begin it again. The row locks on `leaderboard_snapshots` are left out: two runs
that reach them hold the same day rows, unless one started on an empty day.

### Leaderboard

One worker, one month. `pipe` holds the merchants whose ZINCRBY has not run yet:
the pipeline is sent without MULTI, so requests may interleave with it. A request
checks the key, then reads the set, or queries `rollup_day` and rebuilds the set in
a MULTI. `LoseKey` is expiry, eviction or a flush; `LoseIncrements` a Redis error,
which the worker logs, or a crash after its commit. `missing` is a history variable:
the payments that a loss or a rebuild has taken from the board, each added or removed
where that happens. A payment of amount 0 (`app/models/schemas.py:35` has `ge=0`) would be
a member of the sorted set with score 0; such payments are left out
(`EventAssumption`), and a score of 0 stands for no member. The model starts from a worker
that was constructed with its Redis repository, as the tests do; both entry points
omit that parameter (`app/workers/rollup_worker.py:461`, `worker_rollup.py:79`)
and fail with a TypeError before the first batch.

### WorkerLoop

`loop` and `listener` say where the two coroutines are, `flag` is `_notify_event`,
and one step is what runs between two awaits. `notices` are NOTIFYs on their way to
the connection, `heard` (kept for the property only) those the callback has seen.

| Action | Code |
|---|---|
| `CheckRunning`, `Fetch`, `CommitBatch`, `FinishBatch` | the loop's condition; a batch, reduced to the events it takes |
| `BatchFails`, `Retry` | any exception of the batch, before or after its commit, and the sleep of a second |
| `BeginWait`, `EndWait` | `wait_for(_notify_event.wait())`, woken or timed out, then `clear()` |
| `CheckListening`, `Listen`, `ConnectFails`, `Reconnect` | acquire a connection and LISTEN, or fail and sleep five seconds |
| `LoseConnection`, `StopListening` | the connection dies while the coroutine sleeps; the stop flag is seen and the connection released |
| `HandleNotice`, `HandleShutdown` | the callback of the connection; SIGTERM or SIGINT |

### Metrics

One merchant. A range is a pair of times, and a range is its own cache key, since
the granularity in the key follows from it. An answer is the set of events its rows
count: the three rollup tables change in one commit and are exact (theorem
`RollupsExact`), so a query's rows stand for the committed events whose bucket it
asks for. `Between` is the WHERE clause of `query_minute`, `query_hour` and
`query_day`. `QueryRange` and `QuerySuccessRate` are two actions because the
statements of a READ COMMITTED transaction have a snapshot each. `ServeHit` of a
range ends the request without an answer: the cached response already holds the two
keywords that are passed again (`query_service.py:84-88`). `Tick` is time, with the
expiry of Redis; `LoseEntry` is eviction or a flush. The request counters in Redis
are left out.

### Partitions

Days are numbered from the day of the migration. An event is its position in the order
of `created_at`; its row is in a daily partition, in the default one, or dropped.
Ingest transactions are serial here, since what overlapping ones do to the cursor is
`RollupWorker`'s subject, and creating a partition excludes them anyway.

| Action | Code |
|---|---|
| `Insert` | the INSERT and PostgreSQL's routing; `occurred_at` is taken before it, so it may be of yesterday |
| `StartScript`, `SkipDay`, `CreateDay`, `CreateFails`, `FinishScript` | `create_partitions.py`: `date.today()` once, then one statement per day; PostgreSQL refuses a day of which the default partition holds a row, and that ends the run |
| `KillScript` | the run is killed, or loses its connection |
| `RunInitScript` | `init_partitions.sql`, one transaction. The database image runs it before the migrations, when it finds no `raw_events` and does nothing, so the model starts without a daily partition |
| `DropDay` | an operator drops an old day, the retention of the repository's `README.md:722` |
| `Poll`, `ResetOffset` | the worker's page after its offset, and the replay |

### Lifecycle and Health

`pc` is the place of a replica in `lifespan`; `factory`, `owned`, `client` and
`provider` are the module slots `_factory` and `_redis`, the local `_engine`, and
`_tracer_provider`. A process that tests run in has filled the registries before the
app starts (`Injected`).

| Action | Code |
|---|---|
| `Start` | `init_tracing`, then an engine and a session factory unless one is configured |
| `CheckDatabase`, `CheckRedis` | SELECT 1, then `configure_redis`; PING |
| `ReadRevision`, `BeginUpgrade`, `CommitUpgrade` | `_run_migrations`: alembic reads the revision, then upgrades in one transaction, which waits for that of another replica and fails if that commits |
| `CheckMerchants`, `InsertMerchants` | `_seed_demo_data`: SELECT, then INSERT ... ON CONFLICT DO NOTHING |
| `FailStart` | any of these raises: the process exits without the code after the yield |
| `Stop`, `DisposeEngine`, `CloseRedis`, `Exit` | SIGTERM and the code after the yield |
| `Crash`, `GoDown`, `ComeBack` | the process is killed; an outage of PostgreSQL or Redis |

`Health` adds time, events (`Accept`), the worker's commits (`Batch`), which write
`last_event_at`, and requests. A request asks PostgreSQL and Redis in two steps
(`AskDatabase`, `AskRedis`), between which anything may happen. `behind`
records, for the property, what was true when the database was asked. `/health/ready`
is the first half of `AskDatabase` and `/health/live` a constant; neither has a state.

## 3. Runs

### Passing runs

| Run | Question | Bounds, and why they are enough |
|---|---|---|
| `rollup_shared_consumer` | Do two workers with one consumer id, crashes, rollbacks and replays keep tables, markers and offset together, and implement the ledger? Which events can the cursor lose, and are all others aggregated in the end? | 3 events in a batch of two and a single; two share a minute, the third only the day, so merges happen in every granularity. `BatchSize` 2 splits the stream over two pages, also between rows of equal `created_at` (the batch and a single that start together), so an event is lost by a tie; `MaxFaults` 2 allows a crash of one worker and a replay, or a crash of both; `MaxClock` 2 lets transactions start together, apart, and commit in both orders, so an event is lost by a late commit. Unbounded in the theorems. |
| `ingest_concurrent` | Do requests with common keys, in opposite orders, and one that repeats a key keep keys single, answer right, end, and implement the event log, also when partitions are dropped and NOTIFY fails? | r1: k1; r2: k1 k2; r3: k2 k1 (a deadlock with r2); r4: k2 k2; r5: an unknown merchant; two days, one of which may be dropped at any point; one outside failure, one failing NOTIFY |
| `compact_with_worker` | Do two runs and two workers never double-count, report what they lose, repair it, rank it right, and end? | 4 events, two of each of two merchants: a row can be overwritten between its two events, two workers can each have a batch with both rows, and a run wants both rows as soon as both have an event. Lock cycles of two workers, of a worker and a run, and of two runs are all reached. `TopLimit` 1, so the LIMIT cuts a merchant off. Aborts are not bounded. |
| `board_live` | How far is the board ahead, and what can it lack? | 3 payments of one merchant, one more than `BatchSize`; one of another merchant; one on the first day of the next month, which the rebuild's BETWEEN takes in; one request that lists one merchant and one that lists all, so that a rebuild can leave a merchant out and either can overwrite the other's; one loss of the key and one of increments |
| `worker_loop` | Is any wake-up lost, is polling enough, does a signal end both coroutines? | 3 events, one more than `BatchSize`, so a second fetch follows a full page; one failing batch; two lost or failed connections, so the listener is lost, or retries and is lost again. Unbounded for the first question in the theorem. |
| `metrics_read` | How stale and how imprecise can an answer be? | a scale with minutes of 1, hours of 2 and days of 4; events in both halves of an hour; a range of the minute table with an event at either edge, one of the hour table that ends in their hour, one of the day table that starts after their day began, and one that is rejected; two interchangeable clients (`SYMMETRY`; no liveness is checked in this run), so that an old answer can overwrite a new one; a request may take as long as the TTL of the sparkline (`MaxLatency`); `MaxClock` 5 lets an entry be stored, expire and be stored again. Any scale and any number of requests in the theorems. |
| `partitions_days` | What does a successful run of a script promise, what does a day in arrears cost, is every event aggregated? | 4 days and `DaysAhead` 1, so a window ends before the last day and two runs overlap; 2 events with `BatchSize` 1, so the second is found through the offset, whose event may be dropped; `Keep` 1; one replay |
| `service_health` | Does a replica serve only when it can, do all of them in the end, does a stop release its own only, what does "ok" mean? | two replicas that race to migrate and one that skips migrations in a process with filled registries; a schema that is empty, old or at head; one outage and one stop or crash; 2 events with `WorkerBatchSize` 1, so one can wait; `MaxNow` 3, one more than threshold and latency together |

Deadlock is checked in the rollup runs, where the workers poll for ever. The
configurations of `Ingestion`, `Compaction`, `Leaderboard` and `Metrics` say
`CHECK_DEADLOCK FALSE`: their requests, runs, events and time are finite and
the system stops when all are done; so do those of `WorkerLoop`, which stops on a
signal, and of `Partitions` and `Health`, whose days and time are bounded. That nobody waits for ever is checked as liveness instead
(`EveryRequestEnds`,
`EveryTransactionEnds`, `ShutdownEnds`, `ReplicasSettle`).

### Violation runs

Each states what a document, comment or test says, and TLC shows a behaviour of
the code that disagrees; the quotation is in `PROJECT.json`.

| Run | Statement | What happens |
|---|---|---|
| `rollup_late_commit` | the cursor is monotone in `created_at` | a transaction that started first commits last; the offset is already past its `created_at`, and its event is never fetched |
| `ingest_failed_notify` | an error of NOTIFY does not fail the ingestion | the failed statement has aborted the transaction; its COMMIT is a silent rollback, and the client got an id |
| `compact_rerun` | a snapshot is of one point in time | late events change the order of the day between two runs; the second writes the merchants its LIMIT lists, and the row of the one that is no longer listed stays, with the rank of the first run. `TopLimit` is 1 here and 100 in the code |
| `board_cold_key` | a cold leaderboard is rebuilt by the next request | the worker's ZINCRBY recreates a lost key with one batch in it, and EXISTS takes it for the whole board |

### Observations without a run of their own

These follow from one statement, or from a bound of a passing run, and are kept
here instead of in a run:

* The rows of one `POST /events/batch` share `created_at`, and so may those of two
  requests. When the LIMIT of a page falls between them, the strict comparison of
  `get_events_after` (`event_repository.py:171-177`) never returns the rest.
  `LostOnlyLateOrTied` names this as one of the two ways to lose an event; the other,
  a late commit, is `rollup_late_commit`.
* The compaction sums `rollup_hour` first and locks the day row later
  (`nightly_compaction.py:34-55`): a worker commit in between is overwritten, and
  `rollup_day` differs from `rollup_hour` until a quiet run. `LossIsReported` and
  `QuietRunRepairs` say how far that goes.
* A key listed twice in one batch gives two rows one UUID, and the request fails
  with a primary key error (`event_repository.py:103-148`; `RejectRepeats`).
* A duplicate whose event was dropped with its partition is answered with the nil
  UUID by the batch endpoint (`ingestion_service.py:186`) and with an error by the
  single one. `AnswersNameTheRow` allows that answer in this case only.
* When the key vanishes between EXISTS and ZREVRANGE the answer is empty
  (`query_service.py:208-218`). `EmptyOnlyAfterLoss` says that nothing else makes it so.
* `query_leaderboard_from_db` uses BETWEEN with the first day of the next month
  (`rollup_repository.py:321`), so a rebuild counts that day too. `board_live` has a
  payment on it, and `OvershootBounded` bounds the board by what that query counts.
* Rollup rows hold no consumer id (`rollup_repository.py:186`). Workers with consumer ids
  of their own each add every event to the same rows, although the repository's
  `README.md:714` says they work "without producing duplicate rollup increments"
  (`worker_rollup.py:16` does ask for one replica). `NeverOvercounts` is checked and
  proved for one consumer id, and TLC finds it violated with two.
* Until somebody creates partitions every row goes to the default one. The first
  deployment has no daily partition (`init_partitions.sql` runs before the migrations),
  so the first rows are of today, and from then on `create_partitions.py` fails at
  that day every night, until the window has left it behind; by then the next days are in
  the default partition as well. `NothingBehindArrears` is that statement. Retention by
  dropping days never reaches those rows. The repository's `README.md:703` and `:722`
  say that such inserts are rejected.
* When the event the offset names is dropped with its day, the worker finds nothing any
  more and says nothing (`event_repository.py:171-175`). `AggregatedUnlessDropped`
  excepts it, so no property covers this hazard; without `OffsetIsDropped` TLC finds the stall. The repository's
  `README.md:83` says "No events are lost".
* The lag of `GET /health` is the age of the last aggregated event, not "seconds behind
  live events" (`health.py:7`): an idle worker turns "degraded" after the threshold. The
  heartbeat that `worker_rollup.py:21-23` says it reads is not read, and a worker that
  never wrote an offset leaves the status at "ok". `OkMeansNoBacklog` is therefore stated
  for a worker with an offset. It also assumes that the worker's cursor skips nothing:
  `Health` commits events in the order of `created_at`, and an event lost behind the
  offset (`LostOnlyLateOrTied`) would wait for ever under an "ok". The offset is that of the API's own `WORKER_ID`
  (`health.py:48`), which the two services must be given alike.
* Of replicas that find an old schema at the same time one upgrades, and the others fail
  their start (`main.py:181-187`) and must be started again; `ReplicasSettle` rests on the
  platform that does it.
* The lifespan keeps an injected session factory but always replaces the Redis client
  (`main.py:127-134`), whatever `tests/integration/conftest.py:276-278` says; a stop then
  closes the new one only.
* A start that fails disposes nothing; the process exits.
* `_run_migrations` passes alembic a psycopg2 URL (`main.py:175-178`), which `env.py:15`
  uses only when `DATABASE_URL` is not in the environment, for an engine that must be
  asynchronous: with the URL in `.env` alone, the migrations fail.
* A rebuild holds the rows of the requester's `top_n` only and stays for everybody
  (`query_service.py:223-227`); and one whose query came before a commit may be written
  after that commit's increments, which drops them although nothing was lost.
  `LacksOnlyMissing` names both, and is checked with a narrow and a wide request.
* `_seed_demo_data` relies on ON CONFLICT when replicas insert at the same time
  (`main.py:196`). `InsertMerchants` never fails in the model, so no property depends on
  that clause.
* A cached range answer cannot be served: the hit raises a TypeError until the entry
  expires (`query_service.py:84`).
* The success rate always comes from `rollup_hour` (`rollup_repository.py:273`): a range
  that contains no hour boundary has none, and at minute or day granularity it covers
  other events than the volume. `EdgesWithinOneBucket` bounds the rate by hours whatever
  the granularity.
* The listener never uses its connection, so a dead one is never replaced
  (`rollup_worker.py:373`). `PollIsEnough` shows that this costs latency only.
* A range with one aware and one naive bound fails: the bounds are compared before the
  naive one is given a zone (`metrics.py:43-52`).

### Fairness

* `RollupWorker`: weak fairness of each worker's `Batch`. The loop polls after a
  timeout when nobody notifies it (`rollup_worker.py:199-217`), and a supervisor
  restarts the process. No fairness of ingestion, faults or resets.
* `Ingestion`: weak fairness of each `Handle`. The event loop runs a handler that
  can run; PostgreSQL's detector resolves deadlocks. None of `Abort` or `DropPartition`.
* `Compaction`: weak fairness of the deadlock detector, and strong fairness of what an
  open transaction does next. PostgreSQL hands a row lock to those that wait in turn,
  so a transaction that waits is not overtaken for ever by others that begin later, a
  restarted deadlock victim among them; its next step is enabled only while the row is
  free, which is why weak fairness is not enough (TLC finds the worker that is overtaken
  for ever). Nothing makes a worker or a run begin, and nothing makes one abort.
* `WorkerLoop`: weak fairness of each coroutine. asyncio runs a coroutine that is
  ready, and both waits have a timer. None of signals, notifications, requests,
  failures; `BatchFails` is bounded, so a batch that fails for ever is excluded.
* `Leaderboard` and `Metrics` state safety only.
* `Partitions`: weak fairness of the worker's `Poll` (`WorkerLoop`). None of the
  scripts, of retention or of the inserts.
* `Lifecycle` and `Health`: weak fairness of each replica's `Proceed` (asyncio runs
  `lifespan`, and a platform starts a process that is gone: Kubernetes or Render; the
  compose file has a restart policy for the worker only), of `ComeBack`, and of a
  request that was begun. None of the worker: `OkMeansNoBacklog` must hold when it
  hangs.

## 4. Proofs

Proved by TLAPS for every value of the constants, from the named assumptions of the
module each theorem is about. They say what kind of value a constant is: for the rollup
path, that events are a finite set of naturals, consumers are finite in number,
timestamps and amounts are naturals, workers have consumers, events have requests, the
page size is positive, `NoEvent` is not an event. TLC evaluates them in every run.
One theorem, `NoOvercountOneConsumer`, has a hypothesis of its own, without which it is false.

* `FiniteSums`: the sum of a function over a finite set is defined, of natural
  value, and additive over disjoint sets. The fold that defines it is unrolled by
  hand, since the library has no theorem on it.
* `RollupWorkerProofs!UpsertRecomputes`: upserting the delta of new markers into tables
  recomputed from the old ones gives the tables recomputed from all. Count and sum
  by additivity, minimum and maximum by their characterisations.
* `RollupWorkerProofs!Inductive`: `Spec => []IInv`.
  `RollupMatchesMarkers` is not inductive alone: a commit adds `fresh` to the
  markers and its delta to the tables, which agree only if no marker of `fresh` is
  committed yet. That is `InFlightBatches`, which in turn needs that two open
  transactions never hold one marker. `OffsetIsAggregated` needs that the committed
  and the fresh markers cover the page; the refinement needs `MarkersAreCommitted`.
  The conjunction is `IInv`.
* `TypeCorrect`, `RollupsExact`, `BatchesExclusive`, `OffsetSound`: its parts.
* `NoOvercountOneConsumer`: `NeverOvercounts` if there is one consumer id. Without
  that hypothesis it is false (section 3, observations).
* `ImplementsLedger`: `Spec => LedgerSpec`. A commit of a batch is an `Aggregate` step, a
  commit of a request a `Record` step, all others stutter.
* `IngestionProofs!KeysInductive`: `Spec => []KeyInv`, from the assumptions of
  `Ingestion`. `OneClaimant` is kept by a commit because a claim waits for every other
  holder of the key, and `RowsAreKeyed` because a transaction inserts rows of its
  claims only; both need the shapes of the tables, which `KeyInv` adds.
  `KeysHaveOneClaimant` and `KeysHaveOneRow` are its parts, and `ImplementsLog` is the
  refinement of `EventLog`: a commit is the `Append` of its request, whose new keys are
  the claims it holds, since another claim of one of its keys would have waited; a dropped partition a `Drop`
  of its rows, everything else stutters.
* `ProcessProofs!WakeupsAreKept`: `NoLostWakeup` is inductive when it is stated from
  the empty fetch on, not only for the wait: between the two, an event that arrives
  raises the flag, and nothing lowers it but the end of a wait. `LoopTypeCorrect` is the
  type invariant that goes with it.
* `PartitionsProofs!PartitionsInductive`: `Spec => []PartInv`. `SuccessCoversWindow` is
  not inductive: a covered day must stay clean when retention drops its partition. A
  day is therefore called safe when no row of it is in the default partition and none can
  get there, because it has a partition or is older than yesterday; retention drops only
  such old days (`Keep` is at least 1, an assumption of `Partitions`). That the days the
  loop has left behind are safe gives the end of a run, and with the guard of `CreateDay`
  the action property. `PartitionsTypeCorrect`, `CoveredForGood` and `ArrearsStop` follow.
* `RollupWorkerProofs!LossIsLateOrTied`: `LostOnlyLateOrTied` for `Spec`, without a
  hypothesis. It is not inductive, since the offset only takes over what a worker has
  read before. The invariant (`LossInv`) says for the offset, and for the cursor of every
  worker, that of the events created before it all but late ones are reached, by
  themselves or by one of the same `created_at`; and that a page reaches whatever lies
  between its cursor and its last event. An ingest commit keeps it because an event it
  makes visible before an aggregated one is late by definition, and `created_at` of a
  committed event is final.
* `IngestionProofs!IngestInductive`: what a request has found out stays true while others
  go on. A key it has looked at is claimed by it or committed (`Settled`), also after
  deadlocks and dropped partitions, and what it is about to answer is the name of the
  key (`Went`). `IngestTypeCorrect` and `AnswersAreRight` follow.
* `CompactionProofs!CompactionInductive`: `DayNeverExceedsHours` needs that what a run has
  read is below the hours of now too, which only grow, and that no event is in two open
  batches (`BatchesApart`). `LossIsReported` needs that a run past its report has warned
  about the rows it is about to write too small (`RunReports`), which stay as they are
  because it holds their locks (`LocksHeld`). `NothingCountedTwice`, `NoSilentLoss`,
  `CompactionTypeCorrect` and the action property `UndisturbedRunRepairs` follow.
  `UndisturbedRunRanks` adds that the ranks an undisturbed run is about to commit are those
  of the hours, for any LIMIT (`RankInv`): all its rows are locked, hold its sums, and
  these are the hours as long as no worker commits.
* `LeaderboardProofs!BoardInductive`: `OvershootBounded` is not inductive, since an
  increment raises a score and leaves `rollup_day` alone. With what the worker has still
  to send counted to the board (`Pending`), an increment changes nothing, a commit adds
  as much to one side as to the other, and a rebuild may add the batch under way and no
  other. `BoardTypeCorrect` and `OneBatchAhead` follow; `RebuildsKeepTheBoard` adds that
  a request only rebuilds from rows. `BoardLacksOnlyMissing` is the other direction, again
  with what is under way counted to the board, and has no hypothesis: no payment is both
  missing and under way (`DueInv`), and what a rebuild writes holds each payment that
  its query saw and whose merchant it lists (`Lists`).
* `ProcessProofs!LifeInductive`: which registries a replica has filled is a function of its
  place in `lifespan`, and what it found in the database stays there, because the schema
  and the merchants only move on. `ServingReplicasAreReady` and `StopKeepsTheInjected`
  follow, and hold in `Health` too, which refines `Lifecycle` (`HealthRunsLifecycle`).
* `ProcessProofs!HealthInductive`: events wait in nearly the order they occurred in, each
  at most `MaxLatency` before an earlier one, and so it is between the offset and what
  waits. An offset within the threshold therefore bounds the age of all that waits, for
  any size of batch: `OkIsTrustworthy`. `HealthTypeCorrect` is the type invariant.
* `MetricsProofs!MetricsInductive`: neither property of the reads is inductive, since both
  speak of what was rolled up before a time that is over. The invariant follows an answer
  from its reading on. What a query of a range has counted is all of its buckets that was
  rolled up before the request (`Tallies`); an event that is rolled up later gets a later
  time and changes nothing. With the width of a bucket (`BucketBounds`) this is
  `RangesAreNearlyRight`. For sparklines it says of which time the rows are (`Covers`): those
  of a miss of the start of its request, those of a live entry of one TTL and one request
  before it expires (`EntryCovers`), those of a hit of one TTL and one request before the
  start (`ReadCovers`). Another request may replace an entry by one read earlier, but never
  by one read more than a request's time ago. `SparklinesAreFresh` is the action property
  `FreshWithinTtl`. `MetricsTypeCorrect` is the type invariant.

Each strengthened invariant was checked by TLC on the module's run before it was proved.

All invariants and action properties of the passing runs are proved, `NeverOvercounts` for one
consumer id. Only model-checked is
liveness: `EventuallyAggregated`, `EveryRequestEnds`, `EveryTransactionEnds`, `PollIsEnough`,
`ShutdownEnds`, `AggregatedUnlessDropped`, `ReplicasSettle`. Liveness under fairness and
ENABLED are beyond the prover, as is induction over what a recursive operator computes; no
module that is proved about declares one.

## 5. Not modelled, and the order of the modules

Not modelled because nothing a property needs depends on it: counters, spans and log
lines, configuration, the dashboard and the load simulator, both clients of the API; what
each migration creates beyond the keys the models rely on, and downgrades; the HTTP
middleware and the response schemas. `GET /leaderboard/history` fails on an attribute
that is never set (`query_service.py:264`) and has no state. An amount above 2^31-1 is
accepted by the schema and fails its INSERT (`schemas.py:35`); what a failing INSERT
leaves behind is `Ingestion`'s `Abort`.

Order in which it was built; all items are done.

1. `Rollups`, `RollupLedger`, `RollupWorker` and their proofs: the core.
2. `EventLog`, `Ingestion`.
3. `Compaction`.
4. `Leaderboard`.
5. `WorkerLoop` and its safety proof.
6. `Metrics`; proofs of the safety of `Ingestion` and of its refinement.
7. `Partitions`.
8. `Lifecycle` and `Health`.
9. Proofs of all safety properties.

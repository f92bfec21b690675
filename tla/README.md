# Outboxy in TLA+

TLA+ specifications of Outboxy, the transactional outbox: what is modelled, what
TLC checks on small instances, and what TLAPS proves for every instance. Paths
are relative to `src/`, and `packages/` is left out of them where it is clear.

## 1. The system

An application writes an event into `outbox_events` inside its own transaction
(SDK). Worker processes poll the table, publish the events they claim to HTTP
endpoints or Kafka, and write down what became of each. A maintenance scheduler
in every worker process repairs and cleans the tables. An API lets an operator
look at events and replay them. On the other side `inbox_events` deduplicates
what a consumer receives. There is no communication between processes but the
database: every interaction below is a statement on a shared table.

| component | code | state | operations |
| --- | --- | --- | --- |
| outbox table | `migrations/sql`, `schema` | one row per event: status, retry_count, max_retries, next_retry_at, processing_started_at, idempotency_key | (statements of the others) |
| worker loop | `worker/src/core/worker.ts`, `batch.ts`, `retry.ts` | running flag, the claimed batch, the results, three concurrent UPDATEs, a timer | start, poll, publish, group, update, stop |
| cluster, start-up | `worker/src/core/worker-cluster.ts`, `worker/src/index.ts`, `server/src/cli/worker.ts` | workers of the process, scheduler, metrics server, pool, publisher | start, graceful stop, signals |
| maintenance scheduler | `maintenance-scheduler.ts` | three timers, the flag of the recovery | stale recovery, clean-up of idempotency keys, clean-up of the inbox |
| database adapters | `db-adapter-postgres`, `db-adapter-mysql` | pool | claim, markSucceeded, scheduleRetry, moveToDLQ, recoverStaleEvents, clean-ups, replay, inbox |
| SDK | `sdk/src/client.ts`, `inbox-client.ts`, `dialect-*` | none (writes through the caller's transaction) | publish, publishBatch, receive, receiveBatch, markFailed |
| publishers | `publisher-http`, `publisher-kafka` | connection of the Kafka producer | initialize, publish, shutdown |
| admin API | `api`, `server/src/cli/api.ts` | pool, open requests, shutdown handlers | get, replay one, replay a range, readiness, shutdown |
| migrations | `migrations/src/runner.ts` | table of applied files | status, run |
| load test | `server/scripts/load-test.ts`, `server/src/load-testing` | events, inserter, workers, webhook, metrics server, two pools | insert, deliver, monitor, report, shut down |
| logging, spans, gauges, NestJS wiring, test utilities | | none that events depend on | |

### What is hard in it

* **Claims without a lease.** A claim is a status. Who holds it is written
  nowhere, and the UPDATEs that end an attempt go by row id alone. All that keeps
  two workers apart is SKIP LOCKED while the claim runs, the status afterwards,
  and the hope that a holder is done before the stale recovery thinks it dead.
* **Two retry budgets.** The worker compares `retry_count` with its own
  `maxRetries`, the statements with the row's `max_retries`.
* **Partial failure.** The publisher answers for some of the batch; one of three
  concurrent UPDATEs fails while the others are under way; the claim commits and
  its answer is lost; the process dies anywhere.
* **Select, then update.** The range replay on both databases, and claim and
  recovery on MySQL, take two statements.
* **Keys that come and go.** An idempotency key is used by a row that is not
  committed yet, by a row that a worker settles meanwhile, or by none again
  after the clean-up; what an INSERT finds depends on whose transaction ends
  first, and on the database.
* **Answers out of several queries.** A replay looks at the status, updates it, and
  looks again, in three transactions, while workers move the event on.
* **Results out of several requests.** A batch is one request per destination; some
  are lost, before or after they had their effect, some land late, and every event
  needs an outcome that its own destination justifies.
* **Shutting down while working.** A stop comes during the start, a second one
  during the first, a publisher hangs; publishers and pool are closed under
  whoever still uses them; a client holds its request open.
* **DDL without transactions.** A MySQL migration is a row of statements, each
  committed by itself, of which a crash leaves the first few.
* **At-least-once sources.** A message may be delivered to two consumers at a
  time, again after it was handled, or after its record was cleaned up.

`PROJECT.json` lists each hazard at its line with the properties that would
notice it going wrong.

### What makes each component correct

* *worker and tables*: an event in the hands of one worker at a time; nothing
  called succeeded that no destination took; every attempt paid for with a retry;
  retry_count within the row's budget; status changes only as documented; every
  event ends as succeeded or dlq.
* *maintenance*: brings back exactly what nobody works on, and all of it.
* *replay*: of a single event, touches it only if it is failed or dead; of a range, those
  that were so when they were selected.
* *SDK publish*: one undelivered row per idempotency key, the id of that row as
  answer, and the answer still true when the caller's transaction commits.
* *inbox*: business effects of a message happen once, also if it is delivered
  again, if processing fails, or if two consumers have it at the same time.
* *publishers*: one outcome per event; success only of what was taken, dead-lettering
  only of what was refused; the order of an aggregate kept within a batch.
* *API*: an answer says what became of the event.
* *shutdown*: no batch and no request is cut off before the timeout, nothing is used
  after it is closed, everything opened is closed but what could not be, and it ends.
* *load test*: what it reports is what is in the table.
* *migrations*: a file is recorded as applied only if all of it was.

## 2. The modules

| module | models |
| --- | --- |
| `OutboxTable` | the rows of `outbox_events` and the row updates the statements are made of |
| `OutboxWorker` | the poll loop: claim, publish, group results, concurrent UPDATEs, crash and restart; only the worker's half of each step |
| `Outbox` | what does not depend on the database: the clock, replays, type invariant, properties |
| `OutboxPg` | the statements of `db-adapter-postgres` and the next-state relation |
| `OutboxMySql` | the same for `db-adapter-mysql`, with its two-step claim and recovery |
| `OutboxAdapters` | the outbox of a deployment, which is on one of the two |
| `EventDelivery` | abstract: what the outbox promises for an event, with no workers or statements |
| `OutboxyClient` | `publish` and `publishBatch` of the SDK on both databases, in transactions of several clients, with the unique index on keys, row locks, deadlocks and the clean-up of keys |
| `KeyedOutbox` | abstract: what publishing with keys promises, with no transactions or locks |
| `Inbox` | `receive`, `receiveBatch`, `markFailed` of the SDK and of both repositories, in transactions of several consumers, and the clean-up of the inbox |
| `ExactlyOnce` | abstract: what the inbox promises for a message |
| `Migrations` | `runMigrations` on both databases: pending files, transactions or single statements, several runners, crashes and repeated runs |
| `WorkerCluster` | start and stop of the workers of one process, their poll loops, the publishers' producers, the end of the pool |
| `WorkerProcess` | extends `WorkerCluster` to the process around it: the worker command, `startWorker()` or a program with a cluster of its own; the metrics server, the scheduler's timers and jobs, the workers' timers, signals |
| `EntryPoint` | what the commands of the image share: the preloaded modules and what a signal does without a handler |
| `Programs` | the image: the worker, the API or the migrations, by its command |
| `Publishers` | `publish` of the HTTP and the Kafka publisher, with their destinations: groups, requests, results, record batches |
| `PublishContract` | abstract: what the worker relies on when it publishes a batch |
| `ApiServer` | the API process: adapter detection and connection, requests query by query, error mapping, shutdown |
| `LoadTest` | the load test from its command to its exit, with workers, inserter, monitor and report |
| `...MC` | constants and symmetry for TLC |
| `Outbox_proofs` | theorems about `OutboxPg` and `OutboxMySql` |
| `Inbox_proofs`, `OutboxyClient_proofs`, `Publishers_proofs`, `ApiServer_proofs`, `LoadTest_proofs` | theorems about the module of that name |
| `Migrations_proofs`, `WorkerCluster_proofs` | theorems about `Migrations`, and about `WorkerCluster` and `WorkerProcess` |

The models of the outbox, of publishing and of the inbox meet in the table.
`OutboxPg` and `OutboxMySql` follow a row from its insertion; `OutboxyClient` says how rows come to be inserted and sees of
a row's life only the stages of `EventDelivery` (queued, dead, delivered), which
`OutboxPg` is shown to implement; `Inbox` is at the other end of the delivery.
`WorkerCluster` looks at the workers of `OutboxWorker` from the outside: what a
batch does to the rows is left to the one, what is still open when it does it to
the other. What `PublishEnds` of `Outbox` assumes of a publisher is
`PublishContract`, which `Publishers` implements. `ApiServer` carries out the same
replays as `OutboxPg` and `OutboxMySql`, seen from the one who asked for them.
`Migrations` comes before all of them.

`OutboxAdapters` and `Programs` compose by choice: a deployment has one adapter, a process
one command. `OutboxAdapters` runs the steps of `OutboxPg` or those of `OutboxMySql` on the
same variables; `Programs` runs those of `WorkerProcess`, `ApiServer` or `Migrations` and
leaves the variables of the others at one value, since the commands share the entry point
and nothing else in their processes. What they share in the database is in the modules
of the outbox.

### The outbox

**State.** `status`, `retryCount`, `RowMaxRetries` are the columns. Times are
reduced to the two comparisons the queries make with `NOW()`: `due`
(next_retry_at has passed) and `aged` (processing_started_at is past the stale
threshold); the actions of `Clock` make them true. An event is a number, its place
in created_at order, which the claim of PostgreSQL follows. `batch`,
`seenRetries` and `pend` are local variables of `executeBatchProcessing`: the
claimed events, the retry counts that the claim returned, and the UPDATEs that
`Promise.all` awaits. `late` holds UPDATEs that nobody awaits any more, because
another one of the three failed (`Promise.all` rejects at once and the loop
polls again) or because the process died with the statement on the wire; they
land at any later time or never. `sent` and `accepted` say what the destination
took, which the code does not know.

**Steps.** Each statement is one action: under READ COMMITTED, an UPDATE that
had to wait for a row lock tests its WHERE clause again. Everything between two
statements of one process is a separate action, so other processes may come
between. `ClaimRows` may skip any rows that some UPDATE under way may have
locked. `PublishEnds` chooses any result per event, except that success is
reported only of what was taken (a missing result is a failure, as in
`publishEvents`). Each of the UPDATEs may land, fail, or land with its answer
lost (`UpdateLands`, `UpdateRejects`).

**Left out**: the idempotency key and its unique index (no two events share a
key; see `OutboxyClient`), the status "cancelled" and the column deleted_at (no
code sets them), several destinations per event type, metrics.

### Publishing

**State.** `stage` and `key` are the committed rows. `fresh` holds the rows a
transaction has inserted and not committed, `locked` the committed ones that ON
CONFLICT DO UPDATE (or ON DUPLICATE KEY UPDATE) has locked for it. `job` and
`result` are the rows a call has to write and its answers so far; `answers` is
what earlier calls in the transaction have returned and `told` what calls of
committed transactions have. A new row takes an id that nobody has seen, as a
random UUID does.

**Steps.** An INSERT of several rows takes them one at a time, in order, and
waits at a row whose key another transaction has written or locked: `InsertRow`,
`Absorb` (publish, conflict) and `Refuse` (publishBatch, conflict) are what can
happen to the next row. `Commit` makes rows visible, `Rollback` covers the
application's rollback, a failed connection and the death of the application,
`DeadlockVictim` the database's choice in a circle of waits. The workers and the
API appear as `markSucceeded`, `moveToDLQ` and `ReplayEvent`, the maintenance as
`cleanupStaleIdempotencyKeys`; none of them touches a locked row.

**Left out**: calls with a pool instead of a transaction (each statement then
commits by itself); the shared locks of failed inserts and the gap locks of
MySQL, which only add waiting; isolation levels above READ COMMITTED; age of
delivered rows (any of them may be old enough to lose its key).

### The inbox

**State.** `row` is the status of the committed row of a message, `fresh` the
rows a transaction has inserted, `flagged` the messages it has marked as failed,
`todo` the places of its batch that it was told are new, `view` the snapshot
MySQL may read from. `effects` counts how often the business logic of a message
has taken effect, which it does when the transaction of its consumer commits.
`acked` are the messages the source was told to forget; it may deliver any
message again, also those, and to several consumers at a time.

**Steps.** A batch is inserted row by row (`Insert`), waiting as above. The
SELECT of `receiveBatch` is a step of its own (`ReceiveBatchAnswers`), so commits
and the clean-up come between; a key it does not find is a duplicate to the SDK
and an error to the repositories. `Commit` writes rows and effects together, and
the acknowledgement may be lost.

**Left out**: the age of processed rows (the clean-up may remove any), locks of
duplicates and gaps on MySQL.

### Migrations

**State.** `schema` are the committed tables and indexes, `tracking` and
`recorded` the table `__outboxy_migrations`. A runner `pc`s through: create that
table, read it (`known`), then for each file not in `known` its statements
(`file`, `pos`) and its record. `made` is what the open transaction of a runner
has created on PostgreSQL. `MigrationsInit` allows a database into which somebody
has fed the first files by hand.

**Steps.** On PostgreSQL a file and its record are one transaction
(`PgStatement`, `PgCommit`); a CREATE waits for another transaction that creates
the same object, and then raises an error although it says IF NOT EXISTS
(`PgUnblock`). On MySQL each statement commits as it ends (`MySqlStatement`) and a
duplicate index name ends the query (`MySqlQueryEnds`), which the code takes for
success (`runner.ts:354-361`). `Fault` is a crash, a lost connection or a failed
statement; a run that threw is started again (`Restart`), as
`restartPolicy: OnFailure` in `docs/deployment.md` has it.

**What the model shows of MySQL.** A fault in the middle of an index file leaves
its first indexes. The next run meets the first of them, gets
ER_DUP_KEYNAME, and records the file; the rest, the unique index of the
idempotency keys for instance, is never created, and no later run looks. That is
the disjunct `f \in cut` of `IncompleteOnlyIfCut`. Its other disjunct is a
second run that returns, by the same error, while the first is still creating
indexes. On PostgreSQL neither can happen (`RecordedIsBuilt`, proved).

**Left out**: the content of statements, the schema name, what `getMigrationStatus`
reports beyond the pending files.

### The life of a worker process

**State.** `startPc` and `created` are where `WorkerCluster.start()` is,
`running`, `workers` and `publishers` its fields; `isRunning` and `loop` belong
to each `OutboxWorker`; `stopPc` and `waiting` to the first effective `stop()`.
A producer is named by the worker that initialized it: `producer` is the one a
publisher has, `connected` are those with a connection. `shared`, chosen in
`Init`, says whether the factory returns one publisher for all workers, as that
of `startWorker` does, or one for each, as the comment on `start()` has it
("its own publisher instance"). `WorkerProcess` adds which of three programs runs
(`mode`), where it is before the cluster is started (`main`), whether something
handles its signals (`heard`), the metrics server, the scheduler's `timers`, the
`runs` of each job in flight, and the workers' own timers (`gauge`).

**Steps.** `start()` runs from one `initialize()` to the next (`CreateNext`,
`Launch`, `ConnectFails`) and returns when the loops have ended
(`StartReturns`). `Stop` may come at any time, and again (`StopAgain`); it waits
for each loop or its timeout (`WorkerStopped`), then shuts the publishers down
(`ClosePublishers`, `ClosePublisher`), then clears its lists (`StopReturns`). A
caller that got an answer ends the pool (`ShutdownAdapter`). The history variables say
what a property must make an exception for: `overlapped` (a stop during the
start), `hurried` (a stop that returned at once because another one waited),
`late` (workers given up), `stuck` (producers that could not be disconnected). Around them, the command loads its configuration,
adapter and publisher, each of which may fail; `StartMetrics` and
`StartScheduler` come before the cluster; a job ends or hangs; `Signal` kills the
process or, with the tracing preload, does nothing. Every step of a process is a
step of the cluster or leaves it alone (`ProcessesRunClusters`, proved).

**What the model shows.** `startWorker()` never returns
(`StartWorkerIsForEver`, proved): it awaits `cluster.start()`
(`worker/src/index.ts:150`), which awaits the loops, and the `stop` that would end
them is part of what it returns. So this `stop` and the signal handlers that the
worker command installs after `await startWorker(...)`
(`server/src/cli/worker.ts:84-108`) are dead code, although
`docs/deployment.md:118` says "Both processes handle `SIGINT` and `SIGTERM`". A
signal kills the process with its batches under way (the run `worker_signal` and its
finding); if `OUTBOXY_PRELOAD` has loaded the tracing setup, whose handler ends no process
(`tracing/src/setup.ts:38`), it does nothing. A program with a `WorkerCluster` of
its own that does not await `start()` can stop it. Of the one Kafka publisher that
`startWorker` gives to all workers, all producers but the last are dropped while they are
connected (the run `shared_publisher` and its finding), so `EverythingIsReleased` speaks of
workers with a publisher each. There a `shutdown()` that throws is logged and the others
go on (`worker-cluster.ts:142-148`): what is left connected are the producers whose
`disconnect()` failed (`stuck`) and no others. A stop during the start leaves
workers running that nobody can stop (the exception of `QuietAfterStop`). A recovery whose
query is never answered keeps its flag, and none runs again.

**Left out**: a second `start()` of a stopped cluster; how long the adaptive
interval is (a sleep may take any time).

### The publishers

**State.** `route` is the url and aggregate of each event, `batches` the
arguments of the calls so far, `request` the state of the request of each group
of the open call, `results` the Map that the groups fill, `produce` the produce
requests under way, also of earlier calls, and `log` the partitions. `taken` and
`refused` are what the destinations did during the call.

**Steps.** `HttpPublish` and `KafkaPublish` group the batch, by the url as it is
written or by the topic, and send all requests; each answers or breaks by itself
(`Answers...`, `RequestBreaks`, `SendResolves`, `SendRejects`), and when all have
`Returns` gives the worker a result for each event. `RecordsLand` appends a record
batch, once or again, also after kafkajs has given it up. Of a webhook it is
assumed that it tells the truth: with 2xx it has taken every event that it does
not name as failed; a body that is no JSON, or without results, says so of all.

**What the model shows.** All results of a batch wait for its slowest
destination, and `bodyTimeout` does not bound a body that comes piece by piece
(the exception of `CallsReturn`). Order is kept within a batch only: an event that
is retried is overtaken by younger ones of its aggregate.

**Left out**: headers and payloads (only those of the first event of a request are
forwarded), compression, the connection of the producer.

### The API process

**State.** `phase` and `attempt` are where `main()` and `createPool` are, `adapterPool`
the adapter's pool and `pools` the number of pools not ended, `handler` the
shutdown of each signal, `req` the request of each slot with the query it waits
for. `status` is that of the events, which workers move on at any time. `answer`
is the last answer sent, `other` the events that could not be replayed at some moment of
a request.

**Steps.** A request begins when its head arrives and reaches its handler when its
body has (`PostReplay`, `Validate`, ...); then each query is a step
(`ReplaySelect`, `ReplayUpdate`, `ReplayLookup`, ...), which may fail, before or
after its effect (`QueryFails`). `ServerClosed` waits for all requests, then the
pool ends, or does not within its timeout.

**What the model shows.** A 422 may name a status from which the event can be
replayed, since it is that of a third query. A range replay updates by id alone:
it may reset a row that was claimed or has succeeded meanwhile, and on PostgreSQL
meet the unique index and answer 409; a duplicate on MySQL would be a 400, since
the handler looks for "unique" in a message that says "Duplicate entry". The pool
of each failed attempt on MySQL is never ended (`mysql-pool.ts:68`; `PoolsAreEnded` counts them).
`REQUEST_TIMEOUT_MS` is documented (`api/README.md:78`) and read (`api/src/config.ts:49`), but
not passed to Fastify (`api/src/index.ts:53`), nor is `BODY_LIMIT`: a client that withholds its
body holds its request (the run `request_timeout` and its finding) and with it the shutdown
(the exception of `ApiStops`). Dates in the wrong order select nothing and answer 200:
the refinement of `replayRangeBodySchema` is lost when the schema is converted
for Fastify, although the schema itself rejects them (`schemas.test.ts:223`).

**Left out**: the wire formats, the Swagger pages, keep-alive connections; the handlers of
unhandled rejections and uncaught exceptions (`server/src/cli/api.ts:32-40`), which exit with
code 1 and which no step of the model raises.

### The load test

**State.** `main` is where the command and `runLoadTest` are; `status` and
`retries` the rows, `leftover` those of an earlier test; `inserter`, `inserted`
and `stopped` the concurrent inserter; `loop`, `batch`, `delivered` the workers;
`counted` what the monitor read last and `latencies` what the report reads from the
table; then the two pools and the two servers.

**Steps.** They follow `main()` from `Migrate` to `Exit` (`MainStep`), with the
inserter, the workers and the clock of the timeout between any two. A claim may fail, or
its answer be lost; if one UPDATE of a batch fails the worker goes on, and the others land
then, later (`late`, `LateUpdate`), or never. Any statement,
connection or server may fail (`Fault`); the `finally` block then closes what was
opened, and skips what comes after a step that throws.

**What the model shows.** `passed` depends on the throughput alone: a test that
ran out of time, or whose events were dead-lettered, may pass. An event whose
UPDATE failed stays in processing and the test waits for its timeout, since it
has no stale recovery. Counts are taken before the workers stop and latencies
after, so they may differ when time was up. With `--threshold 0` a test passes that processed
nothing (`metrics.ts:136`). If the adapter does not shut down in
time the servers are left open.

An INSERT that fails is an unhandled rejection, which ends the process in the
middle of batches.

**Left out**: how long the pauses of the insertion rate are, the progress bar and
the formats of the report.

## 3. The runs

| run | shows |
| --- | --- |
| `outbox` | on either database, with one scheduler and holders faster than the stale threshold: exclusive claims, decisions on current retry counts, every claim paid for within the budget, nothing stranded without a fault, that the outbox implements `EventDelivery`, and that every event settles whose budget leaves room for the faults |
| `publish` | on PostgreSQL: one undelivered row per key, no published event is dropped, `OutboxyClient` implements `KeyedOutbox`, calls end |
| `inbox` | the repository on MySQL: nothing is lost, nothing is handled twice, `Inbox` implements `ExactlyOnce`, and every message settles |
| `programs` | worker: after a stop nobody works but those it gave up, a stop that is waited for costs no attempt and no outcome and releases what was opened, stops end although a publisher hangs, recoveries do not overlap; API: answers are true, no request is cut off by a shutdown, pools are ended, a signal ends the process; migrations, two runs at a time on either database: what PostgreSQL records is built, what MySQL records is built unless a fault cut it short, all runs end with nothing pending |
| `publishers` | `Publishers` implements `PublishContract`, the order of an aggregate is kept within a batch and a partition, calls return although destinations do not answer |
| `load_test` | a result says what is in the table, nothing is cut short, everything is closed, the test ends |
| `pg_crash_at_cap` | counterexample: an event whose claim is lost on the last attempt is never recovered |
| `pg_late_update` | counterexample: an UPDATE that comes after the stale recovery changes a row in a way no document shows |
| `publish_mysql_drops` | counterexample: an event published with the key of a delivered one is dropped |
| `worker_signal` | counterexample: a signal kills a worker process at work |
| `shared_publisher` | counterexample: a producer is connected that no publisher holds |
| `request_timeout` | counterexample: a request without an end |

The counterexamples contradict what the documentation says; `PROJECT.json` quotes it
under "findings".

`CHECK_DEADLOCK FALSE` is set where a process may end, or all bounds used up leave
nothing to do. The type invariants of the inbox, of publishing and of the worker
process are proved and not run.

**Bounds of the outbox.** Two workers, the smallest number with interleaving; two
events, so that batches split into groups, one event's fate differs from its
neighbour's, and late UPDATEs can concern several rows; `MaxRetries` 1, so that
the first attempt is retried and the second is the last; a row whose `RowMaxRetries` equals it
and one whose leaves room for the faults; `MaxFaults`, crashes plus failed statements plus lost
answers, up to 2, enough for a fault during the handling of a fault; one replay; one scheduler.
A row below `MaxRetries` is in the run `pg_crash_at_cap` only: there an event stays in
"processing" at its last attempt, whether its claim was lost, as in the counterexample, or the
`scheduleRetry` that should end it skipped its row. In `pg_late_update` holders and range
replays may be slow: an UPDATE of either breaks the property, and TLC shows the former.

**Bounds of publishing.** Two clients, two keys (and no key), two ids, `MaxRows`
2, the rows of a transaction: enough for a circle of waits, over new rows or over
locked ones, for a key that is used again after its row was delivered or
cleaned, and for a batch whose second row fails. `ChunkSize` is 2 as well; a
second chunk matters only on MySQL, where a failed call does not end the
transaction. When the ids are used up, a statement that needs one fails
(`OutOfIds`); one that waits still waits.

**Bounds of the inbox.** Two consumers, two messages, batches of two: the
smallest with two orders of insertion (deadlock), a duplicate beside a new
message, and a message delivered twice at the same time or one after the other.

**Bounds of the migrations.** Two runners; the four files of the repository, with
two or three of the objects each creates, so that an index file can be cut
before, after and beside the unique index; two faults, one in a run and one in
its repetition.

**Bounds of the worker process.** Two workers: one initialized and one being
initialized when a stop overlaps the start, one that is given up and one that is not, a
publisher that cannot be shut down and one that can, a producer that is replaced. `MaxOverlap` 2: a job that overlaps
with itself does so with one other run. Nothing else is bounded.

**Bounds of the publishers.** Two events and two calls: what is left of the first
call meets the second, which may carry the same events in the other order. Two
partitions and three routes: one aggregate under both spellings of a topic,
events without a key, one aggregate in two topics. `MaxAppends` 3: both events in
one partition and one of them again.

**Bounds of the API.** One event, of which two requests at a time want the same;
two signals; `MaxRetries` 2, so that an attempt is neither the first nor the last.

**Bounds of the load test.** Three events in INSERTs and batches of two, so that a
last one is partial; two workers; `MaxRetries` 1 as above; two latencies; three
faults: one that is handled, one in its handling, and one that makes an UPDATE late.

### Assumptions on time

`SlowHolders = FALSE` says that whoever has an event in use, a worker or an
UPDATE under way, is done before its claim is `staleEventThresholdMs` old. It is
an assumption on the configuration (default threshold against publisher and
statement timeouts), not on the code, which enforces no such thing; the run
`pg_late_update` shows what happens without it. `SlowReplays = FALSE` says that
no claim comes between the SELECT and the UPDATE of a range replay; if one does,
the UPDATE, which goes by id alone, may reset a row that a worker holds.
`SucceededWasAccepted` needs neither, and nor does `RetryBudget` on PostgreSQL: their
theorems cover both values of both constants. On MySQL one scheduler is assumed: those of two processes
may select the same stale row, and the UPDATE of the second may come when the row
has been claimed and settled again (`mysql-maintenance.ts:92`), although line 54
says "Changes status from 'processing' to 'failed'".

### Fairness

*Outbox.* On both databases, weak fairness of each worker's poll (on MySQL of both halves of a
claim, and of a recovery), of the end of a publish
(publishers bound it with timeouts), of the answer of each awaited statement, of
late statements, of the clock, of the recovery timer, of the second half of a
range replay, and of the restart of a dead process (deployments restart it).
Success of a publish is never assumed, nor that an event is delivered; faults are
bounded by `MaxFaults` and never forced. `EveryEventSettles` speaks of the events
with `RowMaxRetries[e] >= MaxRetries + MaxFaults`: a fault may cost a retry
without an attempt, and an event that has none left when a process dies is
stranded (`pg_crash_at_cap`).

*Publishing.* Strong fairness of a client's next statement: row locks are granted
in turn, so who waits again and again is served at last. Strong fairness of the
end of a transaction outside calls: an application makes finitely many of them.
During a call nothing but the database ends it (no timeout is assumed), with
weak fairness of its deadlock detection, without which `CallsEnd` fails.

*Inbox.* Weak fairness of statements, of commits and of deadlock detection; strong
fairness of redelivery, since a source that was not told to forget a message
keeps offering it. Rollbacks, crashes and lost acknowledgements are bounded by
`MaxFaults` and never forced.

*Migrations.* Weak fairness of each runner, the repetition of a run that threw
included.

*Worker process.* Weak fairness of the steps of `start()` (connecting ends, well or
badly), of each loop's queries and sleeps (statements end, timers fire), and of
`stop()` (its timers fire, a `disconnect()` is answered or throws). None for `PublishReturns`: a
publisher may hang; none for the jobs, which may hang too, nor for the calls of the
program.

*Publishers.* Weak fairness of the end of a request, by its timeouts or by
kafkajs's bounded retries, unless its answer trickles, and of the return of a call
whose requests are settled. None for destinations and brokers.

*API.* Weak fairness of queries (answered or failed) and of the shutdown, whose
timer fires. None for clients, for the end of the pool, or for signals.

*Load test.* Weak fairness of main, whose steps have timeouts, of the clock, of the
inserter and of each worker; faults are bounded and never forced.

## 4. The proofs

`Outbox_proofs` has five parts. The first proves, for `OutboxPg`, every set of
events and workers and every value of the bounds, the type invariant;
`SucceededWasAccepted`, from the invariant `AcceptedInv` that also covers the UPDATEs
awaited and late; and `RetryBudget`, which is inductive by itself since each
statement that counts a retry tests the row it counts it on.

The second proves `ClaimIsExclusive`, `DecidesOnCurrentCount` and
`EveryClaimIsCounted` if neither holders nor range replays are slow. None is
inductive: exclusiveness depends on nobody being able to claim an event in use,
which holds because such an event is "processing" and not `aged`
(`InUseIsFresh`). The inductive invariant `ClaimInv` joins that, the ownership of
each event by one worker or one late UPDATE, the two counting properties, and
that the rows a range replay has selected are in nobody's hands
(`SelectedIsQuiet`). The proof of a step has two halves: how the worker's
variables change (`ClaimOwns`, `GroupOwns`, `SettleOwns`, `AbandonOwns`,
`RetireOwns`, `IdleOwns`) and what rows the statement touches
(`StatementsAreLocal` and the `...Counts` lemmas); the step is an `EndOfUse`, or
it happens `OutsideUse`.

The third builds on both: every step moves rows in one documented
direction (`EveryStepMoves`), hence `OnlyDocumentedChanges`, and the refinement
of `EventDelivery`.

The fourth proves `StrandedOnlyByFault`, under the assumption its run makes too: no
row allows fewer retries than the configuration (`RowMaxRetries[e] >= MaxRetries`;
else `scheduleRetry` leaves such a row in "processing" as it is). Without a fault
every row in "processing" is in use (`NothingDropped`), because a decision to retry
is for rows with a retry to spare (`RetryGroup`, from `DecidesOnCurrentCount`) and
the three decisions of a batch cover it (`GroupsCover`).

The last part is about `OutboxMySql`. Most of its steps are those of `OutboxPg`
(`MySqlSteps`, by way of the `Same...` lemmas), and for these the lemmas of the
other parts are used again; left are the two halves of a claim, and the two of a
recovery. Type correctness and `SucceededWasAccepted` hold for any number
of schedulers and any timing. `ClaimIsExclusive`, `DecidesOnCurrentCount`,
`RetryBudget`, `OnlyDocumentedChanges` and the refinement of `EventDelivery` are
proved for prompt holders and range replays and one scheduler (`OneScheduler`), that
is, one worker process with any number of workers: then
the rows that a recovery has selected stay stale until it updates them
(`RecoveringIsStale`), which takes the place of the guard that its UPDATE lacks. With
two, the second may update rows that the first has recovered and a worker has
claimed again (`mysql-maintenance.ts:92`), and TLC finds every one of these
properties violated on one event and two workers.

`Inbox_proofs` proves, on both databases, the type invariant, `NothingLost` and
`FailedIsKept`. The inductive `RecordInv` follows the record of a message: rows
not yet committed belong to one transaction and to messages without a row, what
a consumer is told is new is among them, and once its statements are answered
every message of its batch has a row, was cleaned up, or is among its own.
Its second part proves `HandledOnce` and the refinement of `ExactlyOnce` for the
SDK on any database and for the MySQL repository. The assumption `Api = "sdk" \/ Database = "mysql"` excludes the
repository of PostgreSQL, which calls both places of a repeated key unprocessed:
it looks each key up among the ids its INSERT returned
(`pg-inbox.repository.ts:138`), so a batch that carries a key twice is handled
twice. `OnceInv` adds to `RecordInv` that every row
of a transaction stands for exactly one of the places it is told to handle.

`OutboxyClient_proofs` proves `OneOpenRowPerKey` on both databases and
`NoEventIsDropped` and the refinement of `KeyedOutbox` on PostgreSQL. Three
invariants are joined. `IdsInv`: rows not yet committed have ids of their own.
`KeysInv`: the keys of rows not yet committed are different from each other and
from those of undelivered rows, which needs the former since a commit gives rows
to ids. `AnswersInv`: every answer is a row of the transaction or one that it has
locked with that key, and locked rows are undelivered; nobody else can settle,
clean or commit over such a row before the transaction ends. On MySQL `AnswersInv`
fails at the first absorbed call (`publish_mysql_drops`).

`Migrations_proofs` proves type correctness (with `AtFile`, where in its file a
runner is) and `RecordedInOrder` on both databases, and `RecordedIsBuilt` on
PostgreSQL. `BuiltInv` adds that a runner's statements so far are committed or in
its transaction, which is what its record will claim; `OrderInv` that a runner at
a file has seen, or written, the records of all files before it.
For `IncompleteOnlyIfCut` on MySQL, `MySqlInv` says that what a runner has passed
is there (`PassedIsThere`); that a file whose first indexes exist is built, was cut
short, or has a leader, the one run that got past all indexes that exist
(`BegunIsLed`), since every other run ends at the first of them; and that a file
which is recorded, or about to be, is built or has such indexes (`EndedIsBegun`).
This needs that no statement of another place creates the same index
(`IndexesOnce`), which the files of `src/packages/schema` satisfy.

`WorkerCluster_proofs` proves, for any number of workers, type correctness,
`QuietAfterStop` and `StopIsGraceful`. `ClusterInv` follows the order of the
shutdown: loops run only once all workers are made (`LoopsAfterStart`), an
effective stop comes once and finds all of them listed (`StopComesOnce`), it
awaits or gives up each (`LoopsAreAwaited`), until then their publishers have
producers (`PublishersAreOpen`), and the pool ends last (`PoolIsLast`). Since a
process implements the cluster (`ProcessesRunClusters`), these hold in each of the
three programs (`ProcessesStopGracefully`). `StartWorkerIsForEver` follows from
two facts that are inductive: only a program with a cluster of its own stops it
(`OwnersStop`), and without a stop some loop has not ended (`LoopsGoOn`).
`ProcessTypeCorrect` and `RecoveriesRunAlone` hold for any bound on jobs.
`EverythingIsReleased` is about workers with a publisher each: it rests on which publisher
holds which producer at each point of `start()` and `stop()`, where a publisher that is shut
down has lost its producer or is `stuck` with it (`ConnectionsAreKnown`), and on when the
timers are set and cleared (`TimersAreKnown`).

`Publishers_proofs` proves type correctness, the refinement of `PublishContract`
and `OrderOfABatch`, for any batches, destinations, topics and limits. `ContractInv`
says that what remains of earlier calls are produce requests of theirs
(`Between`, `Produced_OfCalls`), that what the open call has appended is its own and
counted as taken (`AppendedIsTaken`), and that the results gathered so far are true
(`ResultsAreTrue`). `OrderInv` is the order of the logs together with that of the
produce requests on their way: each has its events in the order of the batch
(`BatchInOrder`) and is appended as a whole, as often as it is.

`ApiServer_proofs` proves, for any set of requests, events and attempts and on
both databases, type correctness, `NoRequestIsCutOff`, `PoolsAreEnded` and
`AnswersAreTrue`. `ApiInv`: the phase says which
pools there are (`Stages`, `PoolsAreCounted`); a request is open only where there is a
pool and nobody ends it (`OpenIsServed`); and a replay has seen every event that it
cannot replay now (`Replaying`). Answers are given by the last query of a
request, so `AnswersAreTrue` is proved query by query.

`LoadTest_proofs` proves, for any numbers of workers and events, type correctness,
`NothingIsCutShort` and `ResultIsTrue`. `LoadInv`: what has been opened at which
stage of the test, and what is still open (`Stages`, `Closing`, `Exited`); when
workers run, and that an event in a batch, or of a late UPDATE, is in processing and in no other
(`Loops`, `Batches`); that only inserted events are in the table (`NotYet`); and
that what was counted and measured is still so (`Counted`, `Measured`), since
terminal rows do not change. That the percentiles are in order follows from the
latencies being sorted.

All rest on the assumptions declared with the constants (such as: `Event` is a
finite set of naturals, `RowMaxRetries` a function into Nat, `BatchSize`
positive, `NoKey` not a key). Only model-checked, because the prover has no
ENABLED and no liveness under fairness: `EveryEventSettles`,
`EveryMessageSettles`, `CallsEnd`, `MigrationsFinish`, `StopEnds`, `CallsReturn`,
`ApiStops` and `LoadTestEnds`. Every safety property that a passing run checks is
stated by a theorem. `EveryClaimIsCounted` and `StrandedOnlyByFault` are proved for
PostgreSQL only; the run checks them on both databases.

## 5. The plan

The outbox came first, then both ends of it (publishing, the inbox), then what
surrounds it (migrations, worker and API processes, publishers, the load test).
What is left to prove is liveness, which is out of the prover's reach.

## 6. Not modelled

The NestJS module, logging, gauges and spans, type declarations, test utilities and
the scripts that generate documents have no part in what becomes of an event or
message. SQL text, payloads, headers and error texts are data no property looks
at. Calls of the SDK outside a transaction, sizes of pools, and the length of
intervals and back-offs are left out.

Some hazards are in the models, and the properties or the constants of the runs except them;
`PROJECT.json` lists them with a note and no property: two MySQL schedulers that
recover one row, a key repeated in a batch of the PostgreSQL inbox repository, a stop during the
start of a cluster, MySQL migrations cut short, the pools of failed connections on MySQL, an
answer that trickles, and the order of an aggregate across batches and retries.

Hazards outside the models: the collation of MySQL keys (two keys that differ
by case are one to the INSERT and two to the code; the models identify a message
with its key). A batch of the SDK longer than one INSERT may on MySQL stay written
in part, when a later chunk fails and the caller commits all the same (the model
has it, no document says otherwise). `cluster.start()` may reject after the metrics
server and the scheduler were started, which a program that survives has no
handle to stop. A failing query of the load test's monitor leaves its workers
running against a pool that is ended under them.

Met on the way and of no consequence here: `ConflictError` and `ValidationError` are
never thrown, `isValidTopicName` is never called, and the SDK's inbox client
returns for a duplicate on MySQL the id it generated, which no row has. The comment on
`publishBatch` (`client.ts:265-266`) says that it "handles idempotency keys via ON CONFLICT
clause", but its INSERT has none (`buildBulkInsert`): a key that is in use fails the call,
which is what `Refuse` models.

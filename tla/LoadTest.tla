-------------------------------- MODULE LoadTest --------------------------------
(***************************************************************************)
(* The load test: a process that empties the outbox, starts workers in it  *)
(* and a webhook of its own, inserts events while they deliver, and waits  *)
(* until all are settled or its time is up.  Then it stops the workers,    *)
(* reads from the table how long each event took, and exits with a code    *)
(* that says whether they were delivered fast enough.                      *)
(*                                                                         *)
(* How workers and the table work is in OutboxWorker and OutboxPg.  Here   *)
(* all events go to one destination, which answers for a batch as a whole, *)
(* no event is replayed, and nothing recovers stale events: the load test  *)
(* has no maintenance scheduler.                                           *)
(***************************************************************************)
EXTENDS Naturals, Sequences, FiniteSets

CONSTANTS
  EventCount, BatchSize, InsertBatchSize, WorkerCount,
  MaxRetries,    \* of the workers and of the rows, which have the default
  MaxLatency,    \* bound on the time an event takes
  MaxFaults      \* bound on statements, requests and connections that fail

ASSUME LoadTestAssumption ==
  /\ {EventCount, BatchSize, InsertBatchSize, WorkerCount, MaxLatency} \subseteq Nat \ {0}
  /\ {MaxRetries, MaxFaults} \subseteq Nat

VARIABLES
  main,        \* where main() and runLoadTest() are
  human,       \* is the output format "human"?
  result,      \* how runLoadTest() ended
  exit,        \* the exit code
  status,      \* of each event of this test
  retries,     \* their retry_count
  leftover,    \* events of an earlier test, all of them succeeded
  inserted,    \* _insertedCount
  inserter,    \* where its loop is
  stopped,     \* was it told to stop?
  isRunning,   \* of the workers, which are told to stop together
  loop,        \* where the poll loop of each worker is
  batch,       \* the events it has claimed
  delivered,   \* did the webhook take them?
  late,        \* events whose UPDATE is under way though its worker has gone on
  expired,     \* have timeoutMs passed?
  counted,     \* what the monitor counted last
  latencies,   \* of the events that succeeded, sorted
  adapter,     \* the pool of the workers
  metrics,     \* the metrics server
  mock,        \* the webhook
  pool,        \* the pool of main()
  faults       \* faults so far

tableVars == <<status, retries, leftover>>
inserterVars == <<inserted, inserter, stopped>>
workerVars == <<isRunning, loop, batch, delivered, late>>
reportVars == <<counted, latencies>>
serviceVars == <<adapter, metrics, mock, pool>>
vars == <<main, human, result, exit, tableVars, inserterVars, workerVars, expired,
          reportVars, serviceVars, faults>>

Event == 1 .. EventCount
Worker == 1 .. WorkerCount
Having(s) == {e \in Event : status[e] = s}

LoadTestTypeOK ==
  /\ main \in {"migrate", "truncate", "mock", "metrics", "adapter", "workers", "monitor",
               "stop", "window", "latencies", "distribution", "shutdown", "shutting",
               "servers", "webhook", "enter", "end", "ending"}
  /\ human \in BOOLEAN
  /\ result \in {"none", "passed", "failed", "threw"}
  /\ exit \in {"running", "0", "1"}
  /\ status \in [Event -> {"absent", "pending", "processing", "failed", "succeeded", "dlq"}]
  /\ retries \in [Event -> 0 .. MaxRetries]
  /\ leftover \in 0 .. EventCount
  /\ inserted \in 0 .. EventCount
  /\ inserter \in {"none", "inserting", "landed", "sleeping", "done"}
  /\ stopped \in BOOLEAN /\ isRunning \in BOOLEAN /\ expired \in BOOLEAN
  /\ loop \in [Worker -> {"none", "poll", "publish", "write", "sleep", "ended"}]
  /\ batch \in [Worker -> SUBSET Event]
  /\ delivered \in [Worker -> BOOLEAN]
  /\ late \subseteq SUBSET Event
  /\ counted \in [processed : 0 .. 2 * EventCount, failed : 0 .. EventCount]
  /\ latencies \in Seq(1 .. MaxLatency) /\ Len(latencies) <= EventCount
  /\ adapter \in {"none", "open", "ending", "ended"}
  /\ metrics \in {"none", "listening"}
  /\ mock \in {"none", "listening", "closed"}
  /\ pool \in {"open", "ending", "ended"}
  /\ faults \in 0 .. MaxFaults

Init ==
  /\ main = "migrate" /\ human \in BOOLEAN /\ result = "none" /\ exit = "running"
  /\ status = [e \in Event |-> "absent"] /\ retries = [e \in Event |-> 0]
  /\ leftover \in {0, EventCount}
  /\ inserted = 0 /\ inserter = "none" /\ stopped = FALSE
  /\ isRunning = FALSE /\ loop = [w \in Worker |-> "none"]
  /\ batch = [w \in Worker |-> {}] /\ delivered = [w \in Worker |-> FALSE] /\ late = {}
  /\ expired = FALSE
  /\ counted = [processed |-> 0, failed |-> 0] /\ latencies = <<>>
  /\ adapter = "none" /\ metrics = "none" /\ mock = "none" /\ pool = "open"
  /\ faults = 0

Fault == faults < MaxFaults /\ faults' = faults + 1

-----------------------------------------------------------------------------
(* Setting up *)

\* Main goes on to the next step, and nothing else changes but X.
Goes(from, to) == main = from /\ main' = to /\ UNCHANGED <<human, exit>>

\* main() is done with runLoadTest(): it waits for Enter, or ends its pool.
Afterwards == IF human THEN "enter" ELSE "end"

\* runMigrations(), which may fail.
Migrate ==
  /\ \/ Goes("migrate", "truncate") /\ UNCHANGED <<result, faults>>
     \/ Goes("migrate", Afterwards) /\ result' = "threw" /\ Fault
  /\ UNCHANGED <<tableVars, inserterVars, workerVars, expired, reportVars, serviceVars>>

truncateEvents ==
  /\ Goes("truncate", "mock") /\ leftover' = 0
  /\ UNCHANGED <<result, status, retries, inserterVars, workerVars, expired, reportVars,
                 serviceVars, faults>>

createMockServer ==
  /\ Goes("mock", "metrics") /\ mock' = "listening"
  /\ UNCHANGED <<result, tableVars, inserterVars, workerVars, expired, reportVars,
                 adapter, metrics, pool, faults>>

\* If the port is taken the test goes on without a metrics server.
startMetricsServer ==
  /\ Goes("metrics", "adapter") /\ metrics' \in {"none", "listening"}
  /\ UNCHANGED <<result, tableVars, inserterVars, workerVars, expired, reportVars,
                 adapter, mock, pool, faults>>

createPostgresAdapter ==
  /\ Goes("adapter", "workers") /\ adapter' = "open"
  /\ UNCHANGED <<result, tableVars, inserterVars, workerVars, expired, reportVars,
                 metrics, mock, pool, faults>>

\* The workers poll the empty table, and the first INSERT is sent.
startAllWorkers ==
  /\ Goes("workers", "monitor")
  /\ isRunning' = TRUE /\ loop' = [w \in Worker |-> "poll"]
  /\ inserter' = "inserting"
  /\ UNCHANGED <<result, tableVars, inserted, stopped, batch, delivered, late, expired,
                 reportVars, serviceVars, faults>>

-----------------------------------------------------------------------------
(* Inserting *)

InsertBatch ==
  {e \in Event : e > inserted /\ e <= inserted + InsertBatchSize}

insertBatch ==
  /\ inserter = "inserting" /\ inserter' = "landed"
  /\ status' = [e \in Event |-> IF e \in InsertBatch THEN "pending" ELSE status[e]]
  /\ UNCHANGED <<main, human, result, exit, retries, leftover, inserted, stopped, workerVars,
                 expired, reportVars, serviceVars, faults>>

\* Mutant: a whole batch is counted, though fewer events remained.
InsertAnswered_WholeBatch ==
  /\ inserter = "landed" /\ inserted' = inserted + InsertBatchSize
  /\ inserter' \in IF inserted' < EventCount /\ ~stopped
                   THEN {"inserting", "sleeping"} ELSE {"done"}
  /\ UNCHANGED <<main, human, result, exit, tableVars, stopped, workerVars, expired,
                 reportVars, serviceVars, faults>>

\* The next batch follows at once, or after a while if there is a rate.
InsertAnswered ==
  /\ inserter = "landed" /\ inserted' = inserted + Cardinality(InsertBatch)
  /\ inserter' \in IF inserted' < EventCount /\ ~stopped
                   THEN {"inserting", "sleeping"} ELSE {"done"}
  /\ UNCHANGED <<main, human, result, exit, tableVars, stopped, workerVars, expired,
                 reportVars, serviceVars, faults>>

InserterWakes ==
  /\ inserter = "sleeping" /\ inserter' = IF stopped THEN "done" ELSE "inserting"
  /\ UNCHANGED <<main, human, result, exit, tableVars, inserted, stopped, workerVars, expired,
                 reportVars, serviceVars, faults>>

\* Nobody handles the rejection of the inserter's loop: the process ends as it
\* is, in the middle of batches.
InsertFails ==
  /\ inserter \in {"inserting", "landed"} /\ Fault
  /\ exit' = "1"
  /\ UNCHANGED <<main, human, result, tableVars, inserterVars, workerVars, expired, reportVars,
                 serviceVars>>

InserterStep == insertBatch \/ InsertAnswered \/ InserterWakes

-----------------------------------------------------------------------------
(* Delivering *)

\* the step of worker w that leaves the rest of the process alone
WorkerOnly ==
  UNCHANGED <<main, human, result, exit, leftover, inserterVars, isRunning, expired,
              reportVars, serviceVars>>

LoopGoes(w, to) == loop' = [loop EXCEPT ![w] = to]

Oldest(S) == {e \in S : Cardinality({d \in S : d < e}) < BatchSize}

\* The claim takes the oldest of the pending events and the failed ones that
\* are due; or there are none, and the worker sleeps.
Claim(w) ==
  /\ loop[w] = "poll"
  /\ \E due \in SUBSET Having("failed") :
       LET S == Oldest(Having("pending") \cup due)
           claimed == [e \in Event |-> IF e \in S THEN "processing" ELSE status[e]]
       IN \/ /\ status' = claimed /\ batch' = [batch EXCEPT ![w] = S]
             /\ LoopGoes(w, IF S = {} THEN "sleep" ELSE "publish") /\ UNCHANGED faults
          \* it fails, or its answer is lost
          \/ /\ status' \in {status, claimed} /\ UNCHANGED batch
             /\ LoopGoes(w, "sleep") /\ Fault
  /\ WorkerOnly /\ UNCHANGED <<retries, delivered, late>>

\* A pool that is being ended takes no statement: the loop logs the error and
\* sleeps, and the events of its batch stay as they are.
SendUpdate(w) ==
  IF adapter = "open" THEN LoopGoes(w, "write") /\ UNCHANGED batch
  ELSE LoopGoes(w, "sleep") /\ batch' = [batch EXCEPT ![w] = {}]

\* The webhook takes the batch, or the request times out or breaks.
PublishReturns(w) ==
  /\ loop[w] = "publish" /\ SendUpdate(w)
  /\ \/ delivered' = [delivered EXCEPT ![w] = TRUE] /\ UNCHANGED faults
     \/ delivered' = [delivered EXCEPT ![w] = FALSE] /\ Fault
  /\ WorkerOnly /\ UNCHANGED <<status, retries, late>>

Fates == {"succeeded", "failed", "dlq"}

\* what becomes of event e if the webhook took it, or did not
Fate(taken, e) ==
  IF taken THEN "succeeded" ELSE IF retries[e] < MaxRetries THEN "failed" ELSE "dlq"

\* the events of the batch of worker w that meet this fate: those of one UPDATE
Meeting(w, fate) == {e \in batch[w] : Fate(delivered[w], e) = fate}

\* the UPDATEs that the batch of worker w needs, by their fates
Sent(w) == {fate \in Fates : Meeting(w, fate) # {}}

\* UPDATEs of the events in S land.
Land(S, taken) ==
  /\ status' = [e \in Event |-> IF e \in S THEN Fate(taken, e) ELSE status[e]]
  /\ retries' = [e \in Event |-> IF e \in S /\ Fate(taken, e) = "failed"
                                   THEN retries[e] + 1 ELSE retries[e]]

\* All UPDATEs land, unless one fails, as far as its worker knows.  Then this
\* one and the others may have landed or not, and the others may do so later:
\* the worker does not wait for them.
UpdatesReturn(w) ==
  /\ loop[w] = "write" /\ LoopGoes(w, "sleep")
  /\ \/ Land(batch[w], delivered[w]) /\ UNCHANGED <<late, faults>>
     \/ /\ Fault
        /\ \E fate \in Sent(w), K \in SUBSET Sent(w) : \E L \in SUBSET (Sent(w) \ (K \cup {fate})) :
             /\ Land({e \in batch[w] : Fate(delivered[w], e) \in K}, delivered[w])
             /\ late' = late \cup {Meeting(w, f) : f \in L}
  /\ batch' = [batch EXCEPT ![w] = {}] /\ delivered' = [delivered EXCEPT ![w] = FALSE]
  /\ WorkerOnly

\* Only a batch that was not taken can have more than one UPDATE.
LateUpdate ==
  /\ \E S \in late : late' = late \ {S} /\ Land(S, FALSE)
  /\ WorkerOnly /\ UNCHANGED <<loop, batch, delivered, faults>>

Wake(w) ==
  /\ loop[w] = "sleep"
  /\ LoopGoes(w, IF ~isRunning THEN "ended" ELSE IF adapter = "open" THEN "poll" ELSE "sleep")
  /\ WorkerOnly /\ UNCHANGED <<status, retries, batch, delivered, late, faults>>

WorkerStep(w) == Claim(w) \/ PublishReturns(w) \/ UpdatesReturn(w) \/ Wake(w)

-----------------------------------------------------------------------------
(* Monitoring *)

TimeoutMs ==
  /\ main = "monitor" /\ ~expired /\ expired' = TRUE
  /\ UNCHANGED <<main, human, result, exit, tableVars, inserterVars, workerVars, reportVars,
                 serviceVars, faults>>

\* Mutant: an event that will be tried again counts as failed.
Count_Retried ==
  [processed |-> Cardinality(Having("succeeded")) + leftover,
   failed |-> Cardinality(Having("failed"))]

\* one query: what has succeeded and what is in the dead-letter queue
Count ==
  [processed |-> Cardinality(Having("succeeded")) + leftover,
   failed |-> Cardinality(Having("dlq"))]

\* Mutant: no timeout.
MonitorEnds_OnlyComplete(c) == c.processed + c.failed >= EventCount

MonitorEnds(c) == c.processed + c.failed >= EventCount \/ expired

\* The query that comes every second changes nothing until its count, or the
\* time, ends the loop; then the inserter and all workers are told to stop.
monitorProgress ==
  /\ MonitorEnds(Count) /\ counted' = Count
  /\ Goes("monitor", "stop") /\ stopped' = TRUE /\ isRunning' = FALSE
  /\ UNCHANGED <<result, tableVars, inserted, inserter, loop, batch, delivered, late, expired,
                 latencies, serviceVars, faults>>

\* Mutant: the loops are not awaited, only stop().
WorkersStopped_NotAwaited ==
  /\ Goes("stop", "window")
  /\ UNCHANGED <<result, tableVars, inserterVars, workerVars, expired, reportVars,
                 serviceVars, faults>>

\* stop() of a worker gives up after a timeout, its loop is awaited without one.
WorkersStopped ==
  /\ Goes("stop", "window")
  /\ \A w \in Worker : loop[w] = "ended"
  /\ UNCHANGED <<result, tableVars, inserterVars, workerVars, expired, reportVars,
                 serviceVars, faults>>

-----------------------------------------------------------------------------
(* Measuring *)

\* of a sorted sequence, p in percent
percentile(sorted, p) ==
  IF sorted = <<>> THEN 0
  ELSE LET index == (Len(sorted) * p) \div 100
       IN sorted[IF index < Len(sorted) THEN index + 1 ELSE Len(sorted)]

calculateMetrics ==
  [totalEvents |-> EventCount,
   processedEvents |-> counted.processed,
   failedEvents |-> counted.failed,
   p50Latency |-> percentile(latencies, 50),
   p95Latency |-> percentile(latencies, 95),
   p99Latency |-> percentile(latencies, 99),
   minLatency |-> IF latencies = <<>> THEN 0 ELSE latencies[1],
   maxLatency |-> IF latencies = <<>> THEN 0 ELSE latencies[Len(latencies)]]

\* The throughput may be more or less than the threshold, which may be 0.
validateThreshold == {"passed", "failed"}

queryTestTimeWindow ==
  /\ Goes("window", "latencies")
  /\ UNCHANGED <<result, tableVars, inserterVars, workerVars, expired, reportVars,
                 serviceVars, faults>>

Sorted(n) ==
  {s \in [1 .. n -> 1 .. MaxLatency] : \A i, j \in 1 .. n : i < j => s[i] <= s[j]}

queryLatenciesFromDb ==
  /\ Goes("latencies", "distribution")
  /\ latencies' \in Sorted(Cardinality(Having("succeeded")))
  /\ UNCHANGED <<result, tableVars, inserterVars, workerVars, expired, counted, serviceVars,
                 faults>>

\* The last query; the result is reported, and returned.
getWorkerDistribution ==
  /\ Goes("distribution", "shutdown") /\ result' \in validateThreshold
  /\ UNCHANGED <<tableVars, inserterVars, workerVars, expired, reportVars, serviceVars, faults>>

-----------------------------------------------------------------------------
(* Cleaning up *)

\* Anything in the try block may throw.  Workers that run are not stopped.
Throws ==
  /\ main \in {"truncate", "mock", "adapter", "monitor", "window", "latencies", "distribution"}
  /\ Goes(main, "shutdown") /\ result' = "threw" /\ Fault
  /\ UNCHANGED <<tableVars, inserterVars, workerVars, expired, reportVars, serviceVars>>

\* The finally block: the inserter is told to stop, and the adapter, if there
\* is one, to end its pool.
Finally ==
  /\ IF adapter = "none"
       THEN Goes("shutdown", "servers") /\ UNCHANGED adapter
       ELSE Goes("shutdown", "shutting") /\ adapter' = "ending"
  /\ stopped' = (inserter # "none" \/ stopped)
  /\ UNCHANGED <<result, tableVars, inserted, inserter, workerVars, expired, reportVars,
                 metrics, mock, pool, faults>>

\* The pool ends when no statement is in flight.
AdapterEnds ==
  /\ Goes("shutting", "servers") /\ adapter' = "ended"
  /\ late = {} /\ \A w \in Worker : loop[w] \notin {"poll", "write"}
  /\ UNCHANGED <<result, tableVars, inserterVars, workerVars, expired, reportVars,
                 metrics, mock, pool, faults>>

\* It does not, in time: the error takes the place of the result, and the
\* servers stay open.
AdapterEndFails ==
  /\ Goes("shutting", Afterwards) /\ result' = "threw" /\ Fault
  /\ UNCHANGED <<tableVars, inserterVars, workerVars, expired, reportVars, serviceVars>>

StopMetrics ==
  /\ Goes("servers", "webhook") /\ metrics' = "none"
  /\ UNCHANGED <<result, tableVars, inserterVars, workerVars, expired, reportVars, adapter,
                 mock, pool, faults>>

\* close() waits for requests under way.
CloseMock ==
  /\ Goes("webhook", Afterwards)
  /\ mock' = IF mock = "listening" THEN "closed" ELSE mock
  /\ \A w \in Worker : loop[w] # "publish"
  /\ UNCHANGED <<result, tableVars, inserterVars, workerVars, expired, reportVars, adapter,
                 metrics, pool, faults>>

waitForExit ==
  /\ Goes("enter", "end")
  /\ UNCHANGED <<result, tableVars, inserterVars, workerVars, expired, reportVars, serviceVars,
                 faults>>

EndPool ==
  /\ Goes("end", "ending") /\ pool' = "ending"
  /\ UNCHANGED <<result, tableVars, inserterVars, workerVars, expired, reportVars, adapter,
                 metrics, mock, faults>>

\* The pool ends when no INSERT is in flight; then the process exits.
Exit ==
  /\ main = "ending" /\ inserter \notin {"inserting", "landed"}
  /\ pool' = "ended"
  /\ exit' = IF result = "passed" THEN "0" ELSE "1"
  /\ UNCHANGED <<main, human, result, tableVars, inserterVars, workerVars, expired, reportVars,
                 adapter, metrics, mock, faults>>

MainStep ==
  \/ Migrate \/ truncateEvents \/ createMockServer \/ startMetricsServer
  \/ createPostgresAdapter \/ startAllWorkers \/ monitorProgress \/ WorkersStopped
  \/ queryTestTimeWindow \/ queryLatenciesFromDb \/ getWorkerDistribution
  \/ Finally \/ AdapterEnds \/ StopMetrics \/ CloseMock \/ EndPool \/ Exit

Next ==
  /\ exit = "running"
  /\ \/ MainStep \/ waitForExit \/ Throws \/ AdapterEndFails
     \/ TimeoutMs
     \/ InserterStep \/ InsertFails
     \/ (\E w \in Worker : WorkerStep(w)) \/ LateUpdate

Spec == Init /\ [][Next]_vars

(* Statements, requests and timers end; nobody need press Enter.           *)
FairSpec ==
  /\ Spec
  /\ WF_vars(exit = "running" /\ MainStep)
  /\ WF_vars(exit = "running" /\ TimeoutMs)
  /\ WF_vars(exit = "running" /\ InserterStep)
  /\ \A w \in Worker : WF_vars(exit = "running" /\ WorkerStep(w))
  /\ WF_vars(exit = "running" /\ LateUpdate)

-----------------------------------------------------------------------------
(* A result says what is in the table when it is reported: the latencies   *)
(* are those of all events that have succeeded, and unless time was up all *)
(* events were inserted and settled and the counts are exact.  Counts are  *)
(* taken before the workers stop, so they may lag behind when it was.      *)
ResultIsTrue ==
  result \in {"passed", "failed"} =>
    LET m == calculateMetrics
        succeeded == Cardinality(Having("succeeded"))
        dead == Cardinality(Having("dlq"))
    IN /\ Len(latencies) = succeeded
       /\ m.processedEvents <= succeeded /\ m.failedEvents <= dead
       /\ ~expired => /\ m.processedEvents = succeeded /\ m.failedEvents = dead
                      /\ succeeded + dead = EventCount
       /\ m.minLatency <= m.p50Latency /\ m.p50Latency <= m.p95Latency
       /\ m.p95Latency <= m.p99Latency /\ m.p99Latency <= m.maxLatency

(* A test that comes to a result has cut nothing short: no worker is left  *)
(* in the middle of a batch, and an event stays in processing only if a    *)
(* statement failed.  Exit code 0 means that all it opened is closed, and  *)
(* no INSERT is under way.                                                 *)
NothingIsCutShort ==
  /\ result \in {"passed", "failed"} =>
       /\ \A w \in Worker : loop[w] = "ended" /\ batch[w] = {}
       /\ Having("processing") # {} => faults > 0
  /\ exit = "0" =>
       /\ adapter = "ended" /\ metrics = "none" /\ mock = "closed" /\ pool = "ended"
       /\ inserter \notin {"inserting", "landed"}

(* The test ends, although an event whose UPDATE failed is settled by      *)
(* nobody; with the human format it may wait for Enter at the end.         *)
LoadTestEnds == <>(exit # "running" \/ main = "enter")
=============================================================================

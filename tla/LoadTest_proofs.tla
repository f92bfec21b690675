----------------------------- MODULE LoadTest_proofs -----------------------------
(***************************************************************************)
(* What holds of the load test for every number of events and workers,     *)
(* every batch size, and whatever fails.                                   *)
(***************************************************************************)
EXTENDS LoadTest, FiniteSetTheorems, SequenceTheorems, TLAPS

(* The way of main(): setting up, measuring, and after runLoadTest().      *)
SettingUp == {"migrate", "truncate", "mock", "metrics", "adapter", "workers"}
Measuring == {"window", "latencies", "distribution"}
Trying == SettingUp \cup {"monitor", "stop"} \cup Measuring
Afterward == {"enter", "end", "ending"}

Reported == result \in {"passed", "failed"}

(* What has been opened, and in a test with a result, what is still open.  *)
Stages ==
  /\ result = "none" <=> main \in Trying
  /\ result = "threw" => faults > 0
  /\ main \in Trying => adapter \in {"none", "open"}
  /\ main \in {"workers", "monitor", "stop"} \cup Measuring => adapter = "open"
  /\ main \in Trying \ {"migrate", "truncate", "mock"} => mock = "listening"
  /\ main \in {"mock", "metrics", "adapter", "workers", "monitor"} => leftover = 0

Closing ==
  /\ main = "shutdown" => adapter = "open"
  /\ main = "shutting" => adapter = "ending"
  /\ main \in {"servers", "webhook"} \cup Afterward => adapter = "ended"
  /\ main \in {"webhook"} \cup Afterward => metrics = "none"
  /\ mock = IF main \in Afterward THEN "closed" ELSE "listening"

Exited ==
  exit = "0" =>
    /\ result = "passed" /\ main = "ending" /\ pool = "ended"
    /\ inserter \notin {"inserting", "landed"}

(* The workers run between the start and the stop of them, and hold events *)
(* only while they publish or write; the inserter starts with them.        *)
Loops ==
  /\ main \in SettingUp => inserter = "none"
  /\ main \in SettingUp \/ adapter = "none" => \A w \in Worker : loop[w] = "none"
  /\ main \in Measuring \/ Reported => \A w \in Worker : loop[w] = "ended"
  /\ \A w \in Worker : loop[w] \notin {"publish", "write"} => batch[w] = {}

(* An event in a batch, or of a late UPDATE, is in processing and in no    *)
(* other; if nothing has failed, an event in processing is in a batch.     *)
Batches ==
  /\ \A w \in Worker : \A e \in batch[w] : status[e] = "processing"
  /\ \A v, w \in Worker : \A e \in Event : e \in batch[v] /\ e \in batch[w] => v = w
  /\ \A S \in late : \A e \in S : status[e] = "processing" /\ \A w \in Worker : e \notin batch[w]
  /\ \A S, T \in late : \A e \in Event : e \in S /\ e \in T => S = T
  /\ faults = 0 =>
       \A e \in Event : status[e] = "processing" => \E w \in Worker : e \in batch[w]

(* No event is in the table before its INSERT.                             *)
NotYet ==
  \A e \in Event :
    status[e] # "absent" =>
      e <= inserted \/ (inserter = "landed" /\ e <= inserted + InsertBatchSize)

(* What was counted and measured is still so.                              *)
Counted ==
  /\ counted.processed <= Cardinality(Having("succeeded"))
  /\ counted.failed <= Cardinality(Having("dlq"))
  /\ main \in {"stop"} \cup Measuring \/ Reported =>
       expired \/ counted.processed + counted.failed >= EventCount

Measured ==
  main = "distribution" \/ Reported => latencies \in Sorted(Cardinality(Having("succeeded")))

LoadInv ==
  /\ Stages /\ (Reported => Closing) /\ Exited
  /\ Loops /\ Batches /\ NotYet /\ Counted /\ Measured

----------------------------------------------------------------------------------
(* Types *)

USE DEF tableVars, inserterVars, workerVars, reportVars, serviceVars

LEMMA Positive ==
  /\ EventCount \in Nat \ {0} /\ BatchSize \in Nat \ {0} /\ InsertBatchSize \in Nat \ {0}
  /\ WorkerCount \in Nat \ {0} /\ MaxLatency \in Nat \ {0}
  /\ MaxRetries \in Nat /\ MaxFaults \in Nat
  BY LoadTestAssumption

LEMMA EventsAreFinite ==
  /\ IsFiniteSet(Event) /\ Cardinality(Event) = EventCount
  /\ \A S \in SUBSET Event : IsFiniteSet(S) /\ Cardinality(S) \in 0 .. EventCount
<1>1. IsFiniteSet(Event) /\ Cardinality(Event) = EventCount
  BY Positive, FS_Interval DEF Event
<1>2. ASSUME NEW S \in SUBSET Event PROVE IsFiniteSet(S) /\ Cardinality(S) \in 0 .. EventCount
  BY <1>1, Positive, FS_Subset, FS_CardinalityType
<1>. QED
  BY <1>1, <1>2

LEMMA HavingType == \A s : Having(s) \in SUBSET Event
  BY DEF Having

LEMMA FaultType ==
  ASSUME faults \in 0 .. MaxFaults, Fault
  PROVE  faults' \in 0 .. MaxFaults /\ faults' > 0
  BY Positive DEF Fault

(* An INSERT has a whole batch, or what remains.                           *)
LEMMA InsertBatchSizes ==
  ASSUME inserted \in 0 .. EventCount
  PROVE  /\ inserted + Cardinality(InsertBatch) \in 0 .. EventCount
         /\ InsertBatch = {e \in Event : e > inserted /\ e <= inserted + Cardinality(InsertBatch)}
<1>1. PICK last \in Nat : /\ last <= EventCount /\ last >= inserted
                          /\ last <= inserted + InsertBatchSize
                          /\ last = EventCount \/ last = inserted + InsertBatchSize
  <2>1. CASE inserted + InsertBatchSize <= EventCount
    BY <2>1, Positive
  <2>2. CASE inserted + InsertBatchSize > EventCount
    BY <2>2, Positive
  <2>. QED
    BY <2>1, <2>2, Positive
<1>2. InsertBatch = inserted + 1 .. last
  BY <1>1, Positive DEF InsertBatch, Event
<1>3. Cardinality(InsertBatch) = last - inserted
  <2>1. inserted + 1 \in Int /\ last \in Int
    BY <1>1, Positive
  <2>2. Cardinality(inserted + 1 .. last) =
          IF inserted + 1 > last THEN 0 ELSE last - (inserted + 1) + 1
    BY <2>1, FS_Interval
  <2>. QED
    BY <1>1, <1>2, <2>1, <2>2
<1>. QED
  BY <1>1, <1>2, <1>3, Positive DEF Event

LEMMA FateType == \A taken \in BOOLEAN, e \in Event : Fate(taken, e) \in Fates
  BY DEF Fate, Fates

LEMMA LandType ==
  ASSUME LoadTestTypeOK, NEW S \in SUBSET Event, NEW taken \in BOOLEAN, Land(S, taken)
  PROVE  /\ status' \in [Event -> {"absent", "pending", "processing", "failed", "succeeded", "dlq"}]
         /\ retries' \in [Event -> 0 .. MaxRetries]
<1>1. \A e \in Event : Fate(taken, e) \in {"succeeded", "failed", "dlq"}
  BY FateType DEF Fates
<1>2. \A e \in Event : Fate(taken, e) = "failed" => retries[e] < MaxRetries
  BY DEF Fate
<1>. QED
  BY <1>1, <1>2, Positive DEF Land, LoadTestTypeOK

(* What the UPDATEs of a batch have done when its worker goes on.          *)
LEMMA UpdatesLand ==
  ASSUME LoadTestTypeOK, NEW w \in Worker, UpdatesReturn(w)
  PROVE  \E S \in SUBSET batch[w] :
           /\ Land(S, delivered[w])
           /\ \/ S = batch[w] /\ UNCHANGED <<late, faults>>
              \/ Fault
           /\ late \subseteq late'
           /\ \A T \in late' \ late : T \subseteq batch[w] \ S
           /\ \A T, U \in late' \ late : \A e \in T : e \in U => T = U
<1>1. CASE Land(batch[w], delivered[w]) /\ UNCHANGED <<late, faults>>
  BY <1>1
<1>2. CASE Fault /\ \E fate \in Sent(w), K \in SUBSET Sent(w) : \E L \in SUBSET (Sent(w) \ (K \cup {fate})) :
             /\ Land({e \in batch[w] : Fate(delivered[w], e) \in K}, delivered[w])
             /\ late' = late \cup {Meeting(w, f) : f \in L}
  <2>1. PICK K \in SUBSET Sent(w) : \E L \in SUBSET (Sent(w) \ K) :
             /\ Land({e \in batch[w] : Fate(delivered[w], e) \in K}, delivered[w])
             /\ late' = late \cup {Meeting(w, f) : f \in L}
    BY <1>2
  <2>2. PICK L \in SUBSET (Sent(w) \ K) :
             /\ Land({e \in batch[w] : Fate(delivered[w], e) \in K}, delivered[w])
             /\ late' = late \cup {Meeting(w, f) : f \in L}
    BY <2>1
  <2> DEFINE S == {e \in batch[w] : Fate(delivered[w], e) \in K}
  <2>3. \A f \in L : Meeting(w, f) \subseteq batch[w] \ S
    BY DEF Meeting
  <2>4. \A f, g \in L : \A e : e \in Meeting(w, f) /\ e \in Meeting(w, g) => f = g
    BY DEF Meeting
  <2>5. S \in SUBSET batch[w] /\ Land(S, delivered[w]) /\ Fault
    BY <1>2, <2>2
  <2>6. /\ late \subseteq late'
        /\ \A T \in late' \ late : \E f \in L : T = Meeting(w, f)
    BY <2>2
  <2> HIDE DEF S
  <2>7. /\ \A T \in late' \ late : T \subseteq batch[w] \ S
        /\ \A T, U \in late' \ late : \A e \in T : e \in U => T = U
    BY <2>3, <2>4, <2>6
  <2>. QED
    BY <2>5, <2>6, <2>7
<1>. QED
  BY <1>1, <1>2 DEF UpdatesReturn

LEMMA SortedType ==
  ASSUME NEW n \in Nat, NEW s \in Sorted(n)
  PROVE  s \in Seq(1 .. MaxLatency) /\ Len(s) = n
<1>1. s \in [1 .. n -> 1 .. MaxLatency]
  BY DEF Sorted
<1>2. s \in Seq(1 .. MaxLatency)
  BY <1>1, SeqDef
<1>. QED
  BY <1>1, <1>2, LenProperties

LEMMA MainType ==
  ASSUME LoadTestTypeOK, MainStep \/ waitForExit \/ Throws \/ AdapterEndFails
  PROVE  LoadTestTypeOK'
<1> USE DEF Goes, LoadTestTypeOK
<1>f. Fault => faults' \in 0 .. MaxFaults
  BY FaultType
<1>1. CASE Migrate
  BY <1>1, <1>f DEF Migrate, Afterwards
<1>2. CASE truncateEvents
  BY <1>2, Positive DEF truncateEvents
<1>3. CASE createMockServer
  BY <1>3 DEF createMockServer
<1>4. CASE startMetricsServer
  BY <1>4 DEF startMetricsServer
<1>5. CASE createPostgresAdapter
  BY <1>5 DEF createPostgresAdapter
<1>6. CASE startAllWorkers
  BY <1>6 DEF startAllWorkers
<1>7. CASE monitorProgress
  <2>1. Count \in [processed : 0 .. 2 * EventCount, failed : 0 .. EventCount]
    <3>1. /\ Cardinality(Having("succeeded")) \in 0 .. EventCount
          /\ Cardinality(Having("dlq")) \in 0 .. EventCount
      BY HavingType, EventsAreFinite
    <3>2. Cardinality(Having("succeeded")) + leftover \in 0 .. 2 * EventCount
      BY <3>1, Positive
    <3>. QED
      BY <3>1, <3>2 DEF Count
  <2>2. counted' \in [processed : 0 .. 2 * EventCount, failed : 0 .. EventCount]
    BY <1>7, <2>1 DEF monitorProgress
  <2>3. /\ Goes("monitor", "stop") /\ stopped' = TRUE /\ isRunning' = FALSE
        /\ UNCHANGED <<result, tableVars, inserted, inserter, loop, batch, delivered, late, expired,
                       latencies, serviceVars, faults>>
    BY <1>7 DEF monitorProgress
  <2>4. latencies' \in Seq(1 .. MaxLatency) /\ Len(latencies') <= EventCount
    BY <2>3
  <2>5. main' \in {"migrate", "stop"} /\ human' \in BOOLEAN /\ exit' = exit
    BY <2>3
  <2>6. /\ loop' \in [Worker -> {"none", "poll", "publish", "write", "sleep", "ended"}]
        /\ batch' \in [Worker -> SUBSET Event]
        /\ delivered' \in [Worker -> BOOLEAN] /\ late' \subseteq SUBSET Event
        /\ stopped' \in BOOLEAN /\ isRunning' \in BOOLEAN /\ expired' \in BOOLEAN
        /\ inserted' = inserted /\ inserter' = inserter
    BY <2>3
  <2>7. /\ status' = status /\ retries' = retries /\ leftover' = leftover /\ result' = result
        /\ adapter' = adapter /\ metrics' = metrics /\ mock' = mock /\ pool' = pool
        /\ faults' = faults
    BY <2>3
  <2>. QED
    BY <2>2, <2>4, <2>5, <2>6, <2>7
<1>8. CASE WorkersStopped
  BY <1>8 DEF WorkersStopped
<1>9. CASE queryTestTimeWindow
  BY <1>9 DEF queryTestTimeWindow
<1>10. CASE queryLatenciesFromDb
  <2>1. Cardinality(Having("succeeded")) \in 0 .. EventCount
    BY HavingType, EventsAreFinite
  <2>2. latencies' \in Seq(1 .. MaxLatency) /\ Len(latencies') <= EventCount
    BY <1>10, <2>1, Positive, SortedType DEF queryLatenciesFromDb
  <2>. QED
    BY <1>10, <2>2 DEF queryLatenciesFromDb
<1>11. CASE getWorkerDistribution
  BY <1>11 DEF getWorkerDistribution, validateThreshold
<1>12. CASE Throws
  BY <1>12, <1>f DEF Throws
<1>13. CASE Finally
  BY <1>13 DEF Finally
<1>14. CASE AdapterEnds
  BY <1>14 DEF AdapterEnds
<1>15. CASE AdapterEndFails
  BY <1>15, <1>f DEF AdapterEndFails, Afterwards
<1>16. CASE StopMetrics
  BY <1>16 DEF StopMetrics
<1>17. CASE CloseMock
  BY <1>17 DEF CloseMock, Afterwards
<1>18. CASE waitForExit
  BY <1>18 DEF waitForExit
<1>19. CASE EndPool
  BY <1>19 DEF EndPool
<1>20. CASE Exit
  BY <1>20 DEF Exit
<1>. QED
  BY <1>1, <1>2, <1>3, <1>4, <1>5, <1>6, <1>7, <1>8, <1>9, <1>10, <1>11, <1>12, <1>13,
     <1>14, <1>15, <1>16, <1>17, <1>18, <1>19, <1>20 DEF MainStep

LEMMA WorkerType ==
  ASSUME LoadTestTypeOK, NEW w \in Worker, WorkerStep(w)
  PROVE  LoadTestTypeOK'
<1> USE DEF LoadTestTypeOK, LoopGoes, WorkerOnly
<1>f. Fault => faults' \in 0 .. MaxFaults
  BY FaultType
<1>1. CASE Claim(w)
  <2>1. PICK due \in SUBSET Having("failed") :
          LET S == Oldest(Having("pending") \cup due)
              claimed == [e \in Event |-> IF e \in S THEN "processing" ELSE status[e]]
          IN \/ /\ status' = claimed /\ batch' = [batch EXCEPT ![w] = S]
                /\ LoopGoes(w, IF S = {} THEN "sleep" ELSE "publish") /\ UNCHANGED faults
             \/ /\ status' \in {status, claimed} /\ UNCHANGED batch
                /\ LoopGoes(w, "sleep") /\ Fault
    BY <1>1 DEF Claim
  <2>2. PICK S \in SUBSET Event : S = Oldest(Having("pending") \cup due)
    BY <2>1, HavingType DEF Oldest
  <2>3. status' \in [Event -> {"absent", "pending", "processing", "failed", "succeeded", "dlq"}]
    BY <2>1, <2>2
  <2>4. /\ batch' \in [Worker -> SUBSET Event]
        /\ loop' \in [Worker -> {"none", "poll", "publish", "write", "sleep", "ended"}]
        /\ faults' \in 0 .. MaxFaults
    <3>1. CASE /\ batch' = [batch EXCEPT ![w] = S] /\ UNCHANGED faults
               /\ LoopGoes(w, IF S = {} THEN "sleep" ELSE "publish")
      BY <2>2, <3>1
    <3>2. CASE UNCHANGED batch /\ LoopGoes(w, "sleep") /\ Fault
      BY <1>f, <3>2
    <3>. QED
      BY <2>1, <2>2, <3>1, <3>2
  <2>5. WorkerOnly /\ UNCHANGED <<retries, delivered, late>>
    BY <1>1 DEF Claim
  <2>. QED
    BY <2>3, <2>4, <2>5
<1>2. CASE PublishReturns(w)
  <2>1. /\ batch' \in [Worker -> SUBSET Event]
        /\ loop' \in [Worker -> {"none", "poll", "publish", "write", "sleep", "ended"}]
    BY <1>2 DEF PublishReturns, SendUpdate
  <2>2. delivered' \in [Worker -> BOOLEAN] /\ faults' \in 0 .. MaxFaults
    BY <1>2, <1>f DEF PublishReturns
  <2>. QED
    BY <1>2, <2>1, <2>2 DEF PublishReturns
<1>3. CASE UpdatesReturn(w)
  <2>1. PICK S \in SUBSET batch[w] :
           /\ Land(S, delivered[w])
           /\ UNCHANGED faults \/ Fault
           /\ \A T \in late' \ late : T \subseteq batch[w]
    BY <1>3, UpdatesLand
  <2>2. S \in SUBSET Event /\ delivered[w] \in BOOLEAN /\ late' \subseteq SUBSET Event
    BY <2>1
  <2>3. /\ status' \in [Event -> {"absent", "pending", "processing", "failed", "succeeded", "dlq"}]
        /\ retries' \in [Event -> 0 .. MaxRetries]
    BY <2>1, <2>2, LandType
  <2>4. /\ batch' \in [Worker -> SUBSET Event]
        /\ delivered' \in [Worker -> BOOLEAN]
        /\ loop' \in [Worker -> {"none", "poll", "publish", "write", "sleep", "ended"}]
        /\ faults' \in 0 .. MaxFaults /\ WorkerOnly
    BY <1>3, <1>f, <2>1 DEF UpdatesReturn
  <2>. QED
    BY <2>2, <2>3, <2>4
<1>4. CASE Wake(w)
  BY <1>4 DEF Wake
<1>. QED
  BY <1>1, <1>2, <1>3, <1>4 DEF WorkerStep

LEMMA OtherType ==
  ASSUME LoadTestTypeOK, TimeoutMs \/ InserterStep \/ InsertFails \/ LateUpdate
  PROVE  LoadTestTypeOK'
<1> USE DEF LoadTestTypeOK
<1>1. CASE TimeoutMs
  BY <1>1 DEF TimeoutMs
<1>2. CASE insertBatch
  BY <1>2 DEF insertBatch
<1>3. CASE InsertAnswered
  <2>1. inserted' \in 0 .. EventCount
    BY <1>3, InsertBatchSizes DEF InsertAnswered
  <2>. QED
    BY <1>3, <2>1 DEF InsertAnswered
<1>4. CASE InserterWakes
  BY <1>4 DEF InserterWakes
<1>5. CASE InsertFails
  BY <1>5, FaultType DEF InsertFails
<1>6. CASE LateUpdate
  <2>1. PICK S \in late : late' = late \ {S} /\ Land(S, FALSE)
    BY <1>6 DEF LateUpdate
  <2>2. /\ status' \in [Event -> {"absent", "pending", "processing", "failed", "succeeded", "dlq"}]
        /\ retries' \in [Event -> 0 .. MaxRetries]
    BY <2>1, LandType
  <2>. QED
    BY <1>6, <2>1, <2>2 DEF LateUpdate, WorkerOnly
<1>. QED
  BY <1>1, <1>2, <1>3, <1>4, <1>5, <1>6 DEF InserterStep

(* Every variable of the test keeps its type; in particular no more events *)
(* are counted as inserted than the test has.                              *)
THEOREM LoadTestTypeCorrect == Spec => []LoadTestTypeOK
<1>1. Init => LoadTestTypeOK
  <2>1. <<>> \in Seq(1 .. MaxLatency) /\ Len(<<>>) = 0
    BY EmptySeq
  <2> SUFFICES ASSUME Init PROVE LoadTestTypeOK
    OBVIOUS
  <2>2. latencies \in Seq(1 .. MaxLatency) /\ Len(latencies) <= EventCount
    BY <2>1, Positive DEF Init
  <2>3. /\ status \in [Event -> {"absent", "pending", "processing", "failed", "succeeded", "dlq"}]
        /\ retries \in [Event -> 0 .. MaxRetries]
        /\ leftover \in 0 .. EventCount /\ inserted \in 0 .. EventCount
        /\ counted \in [processed : 0 .. 2 * EventCount, failed : 0 .. EventCount]
        /\ faults \in 0 .. MaxFaults
    BY Positive DEF Init
  <2>4. /\ loop \in [Worker -> {"none", "poll", "publish", "write", "sleep", "ended"}]
        /\ batch \in [Worker -> SUBSET Event]
        /\ delivered \in [Worker -> BOOLEAN] /\ late \subseteq SUBSET Event
    BY DEF Init
  <2>. QED
    BY <2>2, <2>3, <2>4 DEF Init, LoadTestTypeOK
<1>2. LoadTestTypeOK /\ [Next]_vars => LoadTestTypeOK'
  <2>1. LoadTestTypeOK /\ UNCHANGED vars => LoadTestTypeOK'
    BY DEF vars, LoadTestTypeOK
  <2>2. LoadTestTypeOK /\ Next => LoadTestTypeOK'
    BY MainType, WorkerType, OtherType DEF Next
  <2>. QED
    BY <2>1, <2>2
<1>. QED
  BY <1>1, <1>2, PTL DEF Spec

----------------------------------------------------------------------------------
(* The invariant *)

Aside ==
  (\E w \in Worker : WorkerStep(w)) \/ LateUpdate \/ TimeoutMs \/ InserterStep \/ InsertFails

MainGoes == MainStep \/ waitForExit \/ Throws \/ AdapterEndFails

(* Workers, inserter and timer leave the way of main() alone.              *)
LEMMA AsideOfMain ==
  ASSUME LoadTestTypeOK, Aside
  PROVE  /\ UNCHANGED <<main, human, result, leftover, counted, latencies, adapter, metrics,
                        mock, pool>>
         /\ exit' = exit \/ exit' = "1"
         /\ faults' \in Nat /\ faults' >= faults
<1>f. faults \in Nat /\ (Fault => faults' \in Nat /\ faults' >= faults)
  BY Positive DEF Fault, LoadTestTypeOK
<1>1. ASSUME NEW w \in Worker, WorkerStep(w)
      PROVE  WorkerOnly /\ (UNCHANGED faults \/ Fault)
  BY <1>1 DEF WorkerStep, Claim, PublishReturns, UpdatesReturn, Wake
<1>2. CASE \E w \in Worker : WorkerStep(w)
  BY <1>1, <1>2, <1>f DEF WorkerOnly
<1>3. CASE TimeoutMs
  BY <1>3, <1>f DEF TimeoutMs
<1>4. CASE InserterStep
  BY <1>4, <1>f DEF InserterStep, insertBatch, InsertAnswered, InserterWakes
<1>5. CASE InsertFails
  BY <1>5, <1>f DEF InsertFails
<1>6. CASE LateUpdate
  BY <1>6, <1>f DEF LateUpdate, WorkerOnly
<1>. QED
  BY <1>2, <1>3, <1>4, <1>5, <1>6 DEF Aside

Opened == Stages /\ (Reported => Closing) /\ Exited

LEMMA OpenedStep ==
  ASSUME LoadTestTypeOK, LoadTestTypeOK', Opened, Next
  PROVE  Opened'
<1> USE DEF Opened, Goes, Trying, SettingUp, Measuring, Afterward, Reported, Stages, Closing,
            Exited
<1>a. exit = "running"
  BY DEF Next
<1>f. faults \in Nat /\ (Fault => faults' > 0)
  BY FaultType DEF LoadTestTypeOK
<1>0. CASE Aside
  <2>1. /\ UNCHANGED <<main, result, leftover, adapter, metrics, mock, pool>>
        /\ exit' # "0" /\ faults' \in Nat /\ faults' >= faults
    BY <1>a, <1>0, AsideOfMain
  <2>2. Stages'
    BY <1>f, <2>1
  <2>3. Reported' => Closing'
    BY <2>1
  <2>. QED
    BY <2>1, <2>2, <2>3
<1>1. CASE Migrate
  BY <1>1, <1>a, <1>f DEF Migrate, Afterwards
<1>2. CASE truncateEvents
  BY <1>2, <1>a, <1>f DEF truncateEvents
<1>3. CASE createMockServer
  BY <1>3, <1>a, <1>f DEF createMockServer
<1>4. CASE startMetricsServer
  BY <1>4, <1>a, <1>f DEF startMetricsServer
<1>5. CASE createPostgresAdapter
  BY <1>5, <1>a, <1>f DEF createPostgresAdapter
<1>6. CASE startAllWorkers
  BY <1>6, <1>a, <1>f DEF startAllWorkers
<1>7. CASE monitorProgress
  <2>1. /\ Goes("monitor", "stop")
        /\ UNCHANGED <<result, leftover, adapter, metrics, mock, pool, faults>>
    BY <1>7 DEF monitorProgress
  <2>. QED
    BY <2>1, <1>a, <1>f
<1>8. CASE WorkersStopped
  BY <1>8, <1>a, <1>f DEF WorkersStopped
<1>9. CASE queryTestTimeWindow
  BY <1>9, <1>a, <1>f DEF queryTestTimeWindow
<1>10. CASE queryLatenciesFromDb
  BY <1>10, <1>a, <1>f DEF queryLatenciesFromDb
<1>11. CASE getWorkerDistribution
  BY <1>11, <1>a, <1>f DEF getWorkerDistribution, validateThreshold
<1>12. CASE Throws
  BY <1>12, <1>a, <1>f DEF Throws
<1>13. CASE Finally
  BY <1>13, <1>a, <1>f DEF Finally
<1>14. CASE AdapterEnds
  BY <1>14, <1>a, <1>f DEF AdapterEnds
<1>15. CASE AdapterEndFails
  BY <1>15, <1>a, <1>f DEF AdapterEndFails, Afterwards
<1>16. CASE StopMetrics
  BY <1>16, <1>a, <1>f DEF StopMetrics
<1>17. CASE CloseMock
  BY <1>17, <1>a, <1>f DEF CloseMock, Afterwards
<1>18. CASE waitForExit
  BY <1>18, <1>a, <1>f DEF waitForExit
<1>19. CASE EndPool
  BY <1>19, <1>a, <1>f DEF EndPool
<1>20. CASE Exit
  BY <1>20, <1>a, <1>f DEF Exit
<1>. QED
  BY <1>0, <1>1, <1>2, <1>3, <1>4, <1>5, <1>6, <1>7, <1>8, <1>9, <1>10, <1>11, <1>12, <1>13,
     <1>14, <1>15, <1>16, <1>17, <1>18, <1>19, <1>20 DEF Next, MainStep, Aside

(* What main() does to the events and to those who handle them.            *)
LEMMA MainHandles ==
  ASSUME MainGoes
  PROVE  /\ UNCHANGED <<status, retries, batch, delivered, late, inserted>>
         /\ UNCHANGED <<loop, inserter>> \/ startAllWorkers
<1> USE DEF Goes
<1>1. CASE Migrate \/ truncateEvents \/ createMockServer \/ startMetricsServer
  BY <1>1 DEF Migrate, truncateEvents, createMockServer, startMetricsServer
<1>2. CASE createPostgresAdapter \/ startAllWorkers \/ WorkersStopped \/ queryTestTimeWindow
  BY <1>2 DEF createPostgresAdapter, startAllWorkers, WorkersStopped, queryTestTimeWindow
<1>3. CASE monitorProgress
  BY <1>3 DEF monitorProgress
<1>4. CASE queryLatenciesFromDb \/ getWorkerDistribution \/ Throws \/ Finally
  BY <1>4 DEF queryLatenciesFromDb, getWorkerDistribution, Throws, Finally
<1>5. CASE AdapterEnds \/ AdapterEndFails \/ StopMetrics \/ CloseMock
  BY <1>5 DEF AdapterEnds, AdapterEndFails, StopMetrics, CloseMock
<1>6. CASE waitForExit \/ EndPool \/ Exit
  BY <1>6 DEF waitForExit, EndPool, Exit
<1>. QED
  BY <1>1, <1>2, <1>3, <1>4, <1>5, <1>6 DEF MainGoes, MainStep

(* Main goes forward.                                                      *)
LEMMA MainForward ==
  ASSUME MainGoes, Stages
  PROVE  /\ main' \in SettingUp => main \in SettingUp
         /\ adapter' = "none" => adapter = "none"
         /\ main' \in Measuring \/ Reported' =>
              main \in Measuring \/ Reported \/ WorkersStopped
<1> USE DEF Goes, Trying, SettingUp, Measuring, Reported, Stages, Afterwards
<1>1. CASE Migrate \/ truncateEvents \/ createMockServer \/ startMetricsServer
  BY <1>1 DEF Migrate, truncateEvents, createMockServer, startMetricsServer
<1>2. CASE createPostgresAdapter \/ startAllWorkers \/ WorkersStopped \/ queryTestTimeWindow
  BY <1>2 DEF createPostgresAdapter, startAllWorkers, WorkersStopped, queryTestTimeWindow
<1>3. CASE monitorProgress
  BY <1>3 DEF monitorProgress
<1>4. CASE queryLatenciesFromDb \/ getWorkerDistribution \/ Throws \/ Finally
  BY <1>4 DEF queryLatenciesFromDb, getWorkerDistribution, Throws, Finally
<1>5. CASE AdapterEnds \/ AdapterEndFails \/ StopMetrics \/ CloseMock
  BY <1>5 DEF AdapterEnds, AdapterEndFails, StopMetrics, CloseMock
<1>6. CASE waitForExit \/ EndPool \/ Exit
  BY <1>6 DEF waitForExit, EndPool, Exit
<1>. QED
  BY <1>1, <1>2, <1>3, <1>4, <1>5, <1>6 DEF MainGoes, MainStep

(* A worker that takes a step has been started and not stopped.            *)
LEMMA WorkerRuns ==
  ASSUME LoadTestTypeOK, Opened, Loops, NEW w \in Worker, WorkerStep(w)
  PROVE  /\ loop[w] \in {"poll", "publish", "write", "sleep"}
         /\ main \notin SettingUp /\ main \notin Measuring /\ ~Reported
         /\ adapter # "none"
         /\ adapter = "open" \/ faults > 0
<1>1. loop[w] \in {"poll", "publish", "write", "sleep"}
  BY DEF WorkerStep, Claim, PublishReturns, UpdatesReturn, Wake
<1>2. main \notin SettingUp /\ main \notin Measuring /\ ~Reported /\ adapter # "none"
  BY <1>1 DEF Loops
<1>3. CASE main \in Trying
  BY <1>1, <1>2, <1>3 DEF Opened, Stages
<1>4. CASE main \notin Trying
  <2>1. result \in {"none", "passed", "failed", "threw"}
    BY DEF LoadTestTypeOK
  <2>2. result # "none" /\ (result = "threw" => faults > 0)
    BY <1>4 DEF Opened, Stages
  <2>. QED
    BY <1>1, <1>2, <2>1, <2>2 DEF Reported
<1>. QED
  BY <1>1, <1>2, <1>3, <1>4

LEMMA LoopsStep ==
  ASSUME LoadTestTypeOK, Opened, Opened', Loops, Next
  PROVE  Loops'
<1>1. CASE \E w \in Worker : WorkerStep(w)
  <2>1. PICK w \in Worker : WorkerStep(w)
    BY <1>1
  <2>2. main' = main /\ result' = result /\ adapter' = adapter
    BY <1>1, AsideOfMain DEF Aside
  <2>3. main \notin SettingUp /\ main \notin Measuring /\ ~Reported /\ adapter # "none"
    BY <2>1, WorkerRuns
  <2>4. /\ \A v \in Worker \ {w} : loop'[v] = loop[v] /\ batch'[v] = batch[v]
        /\ loop'[w] \notin {"publish", "write"} => batch'[w] = {}
    <3>1. CASE Claim(w)
      <4>1. PICK S : \/ /\ batch' = [batch EXCEPT ![w] = S]
                        /\ LoopGoes(w, IF S = {} THEN "sleep" ELSE "publish")
                     \/ batch' = batch /\ LoopGoes(w, "sleep")
        BY <3>1 DEF Claim
      <4>2. batch[w] = {}
        BY <3>1 DEF Claim, Loops
      <4>3. CASE batch' = batch /\ LoopGoes(w, "sleep")
        BY <4>2, <4>3 DEF LoopGoes, LoadTestTypeOK
      <4>4. CASE /\ batch' = [batch EXCEPT ![w] = S]
                 /\ LoopGoes(w, IF S = {} THEN "sleep" ELSE "publish")
        BY <4>4 DEF LoopGoes, LoadTestTypeOK
      <4>. QED
        BY <4>1, <4>3, <4>4
    <3>2. CASE PublishReturns(w)
      BY <3>2 DEF PublishReturns, SendUpdate, LoopGoes, LoadTestTypeOK
    <3>3. CASE UpdatesReturn(w)
      BY <3>3 DEF UpdatesReturn, LoopGoes, LoadTestTypeOK
    <3>4. CASE Wake(w)
      BY <3>4 DEF Wake, LoopGoes, LoadTestTypeOK, Loops
    <3>. QED
      BY <2>1, <3>1, <3>2, <3>3, <3>4 DEF WorkerStep
  <2>. QED
    BY <2>2, <2>3, <2>4 DEF Loops, Reported
<1>2. CASE TimeoutMs \/ LateUpdate
  BY <1>2 DEF TimeoutMs, LateUpdate, WorkerOnly, Loops, Reported
<1>3. CASE InserterStep \/ InsertFails
  <2>1. /\ UNCHANGED <<main, result, adapter, loop, batch>>
        /\ inserter # "none"
    BY <1>3 DEF InserterStep, insertBatch, InsertAnswered, InserterWakes, InsertFails
  <2>. QED
    BY <2>1 DEF Loops, Reported
<1>4. CASE MainGoes
  <2>1. batch' = batch
    BY <1>4, MainHandles
  <2>2. CASE startAllWorkers
    <3>1. /\ main = "workers" /\ main' = "monitor" /\ result' = result /\ adapter' = adapter
          /\ loop' = [w \in Worker |-> "poll"]
      BY <2>2 DEF startAllWorkers, Goes
    <3>2. result' = "none" /\ adapter' = "open"
      BY <3>1 DEF Opened, Stages, Trying, SettingUp
    <3>3. \A w \in Worker : loop[w] = "none"
      BY <3>1 DEF Loops, SettingUp
    <3>. QED
      BY <2>1, <3>1, <3>2, <3>3 DEF Loops, SettingUp, Measuring, Reported
  <2>3. CASE UNCHANGED <<loop, inserter>>
    <3>1. /\ main' \in SettingUp => main \in SettingUp
          /\ adapter' = "none" => adapter = "none"
          /\ main' \in Measuring \/ Reported' =>
               main \in Measuring \/ Reported \/ WorkersStopped
      BY <1>4, MainForward DEF Opened
    <3>2. WorkersStopped => \A w \in Worker : loop[w] = "ended"
      BY DEF WorkersStopped
    <3>. QED
      BY <2>1, <2>3, <3>1, <3>2 DEF Loops
  <2>. QED
    BY <1>4, <2>2, <2>3, MainHandles
<1>. QED
  BY <1>1, <1>2, <1>3, <1>4 DEF Next, MainGoes

(* What becomes of the events, by the effect of the step.                  *)

Claims(w) ==
  \E S \in SUBSET Event :
    /\ batch[w] = {} /\ batch' = [batch EXCEPT ![w] = S] /\ UNCHANGED late
    /\ \A e \in S : status[e] \in {"pending", "failed"} /\ status'[e] = "processing"
    /\ \A e \in Event \ S : status'[e] = status[e]

Misses ==
  /\ faults' > 0 /\ UNCHANGED <<batch, late>>
  /\ \A e \in Event : \/ status'[e] = status[e]
                      \/ status[e] \in {"pending", "failed"} /\ status'[e] = "processing"

Keeps == UNCHANGED <<status, batch, late>>

Drops(w) ==
  /\ faults > 0 /\ UNCHANGED <<status, late>>
  /\ batch' = [batch EXCEPT ![w] = {}]

Ends(w) ==
  /\ batch' = [batch EXCEPT ![w] = {}]
  /\ \A e \in Event \ batch[w] : status'[e] = status[e]
  /\ \A e \in batch[w] :
       \/ status'[e] \in {"succeeded", "failed", "dlq"}
       \/ status'[e] = status[e] /\ faults' > 0
  /\ late \subseteq late'
  /\ \A T \in late' \ late : \A e \in T : e \in batch[w] /\ status'[e] = status[e]
  /\ \A T, U \in late' \ late : \A e \in T : e \in U => T = U

Lands ==
  \E S \in late :
    /\ late' = late \ {S} /\ UNCHANGED batch
    /\ \A e \in S : status'[e] \in {"failed", "dlq"}
    /\ \A e \in Event \ S : status'[e] = status[e]

Inserts ==
  /\ inserter = "inserting" /\ UNCHANGED <<batch, late>>
  /\ \A e \in InsertBatch : status'[e] = "pending"
  /\ \A e \in Event \ InsertBatch : status'[e] = status[e]

LEMMA WorkerHandles ==
  ASSUME LoadTestTypeOK, Opened, Loops, NEW w \in Worker, WorkerStep(w)
  PROVE  Claims(w) \/ Misses \/ Keeps \/ Drops(w) \/ Ends(w)
<1> USE DEF LoopGoes
<1>f. Fault => faults' > 0
  BY FaultType DEF LoadTestTypeOK
<1>1. CASE Claim(w)
  <2>1. PICK due \in SUBSET Having("failed") :
          LET S == Oldest(Having("pending") \cup due)
              claimed == [e \in Event |-> IF e \in S THEN "processing" ELSE status[e]]
          IN \/ status' = claimed /\ batch' = [batch EXCEPT ![w] = S]
             \/ status' \in {status, claimed} /\ UNCHANGED batch /\ Fault
    BY <1>1 DEF Claim
  <2>2. PICK S \in SUBSET Event : S = Oldest(Having("pending") \cup due)
    BY <2>1, HavingType DEF Oldest
  <2>3. \A e \in S : status[e] \in {"pending", "failed"}
    BY <2>1, <2>2 DEF Oldest, Having
  <2>4. batch[w] = {} /\ late' = late
    BY <1>1 DEF Claim, Loops
  <2>5. CASE /\ status' = [e \in Event |-> IF e \in S THEN "processing" ELSE status[e]]
             /\ batch' = [batch EXCEPT ![w] = S]
    BY <2>3, <2>4, <2>5 DEF Claims
  <2>6. CASE /\ status' \in {status, [e \in Event |-> IF e \in S THEN "processing" ELSE status[e]]}
             /\ UNCHANGED batch /\ Fault
    BY <1>f, <2>3, <2>4, <2>6 DEF Misses
  <2>. QED
    BY <2>1, <2>2, <2>5, <2>6
<1>2. CASE PublishReturns(w)
  <2>1. adapter = "open" \/ faults > 0
    BY WorkerRuns
  <2>. QED
    BY <1>2, <2>1 DEF PublishReturns, SendUpdate, Keeps, Drops
<1>3. CASE UpdatesReturn(w)
  <2>1. PICK S \in SUBSET batch[w] :
           /\ Land(S, delivered[w])
           /\ \/ S = batch[w] /\ UNCHANGED <<late, faults>>
              \/ Fault
           /\ late \subseteq late'
           /\ \A T \in late' \ late : T \subseteq batch[w] \ S
           /\ \A T, U \in late' \ late : \A e \in T : e \in U => T = U
    BY <1>3, UpdatesLand
  <2>2. batch[w] \in SUBSET Event /\ delivered[w] \in BOOLEAN
    BY DEF LoadTestTypeOK
  <2>3. \A e \in Event : Fate(delivered[w], e) \in {"succeeded", "failed", "dlq"}
    BY <2>2, FateType DEF Fates
  <2>4. \A e \in Event : status'[e] = IF e \in S THEN Fate(delivered[w], e) ELSE status[e]
    BY <2>1 DEF Land
  <2>5. \A e \in batch[w] :
          \/ status'[e] \in {"succeeded", "failed", "dlq"}
          \/ status'[e] = status[e] /\ faults' > 0
    BY <1>f, <2>1, <2>2, <2>3, <2>4
  <2>6. \A T \in late' \ late : \A e \in T : e \in batch[w] /\ status'[e] = status[e]
    BY <2>1, <2>2, <2>4
  <2>7. \A e \in Event \ batch[w] : status'[e] = status[e]
    BY <2>1, <2>4
  <2>8. batch' = [batch EXCEPT ![w] = {}]
    BY <1>3 DEF UpdatesReturn
  <2>. QED
    BY <2>1, <2>5, <2>6, <2>7, <2>8 DEF Ends
<1>4. CASE Wake(w)
  BY <1>4 DEF Wake, Keeps
<1>. QED
  BY <1>1, <1>2, <1>3, <1>4 DEF WorkerStep

LEMMA LateUpdateLands == LoadTestTypeOK /\ LateUpdate => Lands
<1> SUFFICES ASSUME LoadTestTypeOK, LateUpdate PROVE Lands
  OBVIOUS
<1>1. PICK S \in late : late' = late \ {S} /\ Land(S, FALSE)
  BY DEF LateUpdate
<1>2. S \in SUBSET Event
  BY <1>1 DEF LoadTestTypeOK
<1>3. \A e \in Event : status'[e] = IF e \in S THEN Fate(FALSE, e) ELSE status[e]
  BY <1>1 DEF Land
<1>4. \A e \in Event : Fate(FALSE, e) \in {"failed", "dlq"}
  BY DEF Fate
<1>5. batch' = batch
  BY DEF LateUpdate
<1>. QED
  BY <1>1, <1>2, <1>3, <1>4, <1>5 DEF Lands

LEMMA EveryStepHandles ==
  ASSUME LoadTestTypeOK, Opened, Loops, Next
  PROVE  \/ \E w \in Worker : Claims(w) \/ Drops(w) \/ Ends(w)
         \/ Keeps \/ Misses \/ Lands \/ Inserts
<1>1. CASE \E w \in Worker : WorkerStep(w)
  BY <1>1, WorkerHandles
<1>2. CASE insertBatch
  BY <1>2 DEF insertBatch, Inserts, InsertBatch
<1>3. CASE TimeoutMs \/ InsertAnswered \/ InserterWakes \/ InsertFails
  BY <1>3 DEF TimeoutMs, InsertAnswered, InserterWakes, InsertFails, Keeps
<1>4. CASE MainGoes
  BY <1>4, MainHandles DEF Keeps
<1>5. CASE LateUpdate
  BY <1>5, LateUpdateLands
<1>. QED
  BY <1>1, <1>2, <1>3, <1>4, <1>5 DEF Next, MainGoes, InserterStep

LEMMA FaultsAreCounted ==
  ASSUME LoadTestTypeOK, Next
  PROVE  faults \in Nat /\ faults' \in Nat /\ faults' >= faults
<1>f. faults \in Nat /\ (Fault => faults' \in Nat /\ faults' >= faults)
  BY Positive DEF Fault, LoadTestTypeOK
<1>1. CASE Aside
  BY <1>1, <1>f, AsideOfMain
<1>2. CASE Migrate \/ Throws \/ AdapterEndFails
  BY <1>2, <1>f DEF Migrate, Throws, AdapterEndFails
<1>3. CASE truncateEvents \/ createMockServer \/ startMetricsServer \/ createPostgresAdapter
  BY <1>3, <1>f DEF truncateEvents, createMockServer, startMetricsServer, createPostgresAdapter
<1>4. CASE startAllWorkers \/ WorkersStopped \/ queryTestTimeWindow \/ queryLatenciesFromDb
  BY <1>4, <1>f DEF startAllWorkers, WorkersStopped, queryTestTimeWindow, queryLatenciesFromDb
<1>5. CASE monitorProgress
  BY <1>5, <1>f DEF monitorProgress
<1>6. CASE getWorkerDistribution \/ Finally \/ AdapterEnds \/ StopMetrics \/ CloseMock
  BY <1>6, <1>f DEF getWorkerDistribution, Finally, AdapterEnds, StopMetrics, CloseMock
<1>7. CASE waitForExit \/ EndPool \/ Exit
  BY <1>7, <1>f DEF waitForExit, EndPool, Exit
<1>. QED
  BY <1>1, <1>2, <1>3, <1>4, <1>5, <1>6, <1>7 DEF Next, Aside, MainStep

LEMMA BatchesStep ==
  ASSUME LoadTestTypeOK, LoadTestTypeOK', Opened, Loops, Batches, NotYet, Next
  PROVE  Batches'
<1>f. faults \in Nat /\ faults' \in Nat /\ faults' >= faults
  BY FaultsAreCounted
<1>t. (\A w \in Worker : batch[w] \in SUBSET Event) /\ \A S \in late : S \in SUBSET Event
  BY DEF LoadTestTypeOK
<1>1. ASSUME NEW w \in Worker, Claims(w) PROVE Batches'
  <2>1. PICK S \in SUBSET Event :
          /\ batch[w] = {} /\ batch' = [batch EXCEPT ![w] = S] /\ late' = late
          /\ \A e \in S : status[e] \in {"pending", "failed"} /\ status'[e] = "processing"
          /\ \A e \in Event \ S : status'[e] = status[e]
    BY <1>1 DEF Claims
  <2>2. \A v \in Worker : batch'[v] = IF v = w THEN S ELSE batch[v]
    BY <2>1 DEF LoadTestTypeOK
  <2>3. \A v \in Worker : \A e \in batch[v] : e \in Event \ S
    BY <1>t, <2>1 DEF Batches
  <2>4. \A T \in late : \A e \in T : e \in Event \ S
    BY <1>t, <2>1 DEF Batches
  <2>. QED
    BY <1>f, <2>1, <2>2, <2>3, <2>4 DEF Batches
<1>2. CASE Keeps
  BY <1>f, <1>2 DEF Keeps, Batches
<1>3. ASSUME NEW w \in Worker, Drops(w) PROVE Batches'
  <2>1. \A v \in Worker : batch'[v] = IF v = w THEN {} ELSE batch[v]
    BY <1>3 DEF Drops, LoadTestTypeOK
  <2>. QED
    BY <1>f, <1>3, <2>1 DEF Drops, Batches
<1>4. ASSUME NEW w \in Worker, Ends(w) PROVE Batches'
  <2>1. \A v \in Worker : batch'[v] = IF v = w THEN {} ELSE batch[v]
    BY <1>4 DEF Ends, LoadTestTypeOK
  <2>2. \A v \in Worker \ {w} : \A e \in batch[v] : e \in Event \ batch[w]
    BY <1>t DEF Batches
  <2>3. ASSUME faults' = 0, NEW e \in Event, status'[e] = "processing"
        PROVE  e \notin batch[w] /\ status[e] = "processing"
    BY <1>4, <2>3 DEF Ends
  <2>4. ASSUME faults' = 0, NEW e \in Event, status'[e] = "processing"
        PROVE  \E v \in Worker : e \in batch'[v]
    BY <1>f, <2>1, <2>3, <2>4 DEF Batches
  <2>5. \A v \in Worker : \A e \in batch'[v] : status'[e] = "processing"
    BY <1>4, <2>1, <2>2 DEF Ends, Batches
  <2>6. ASSUME NEW T \in late', NEW e \in T
        PROVE  status'[e] = "processing" /\ \A v \in Worker : e \notin batch'[v]
    <3>1. CASE T \in late
      <4>1. e \in Event \ batch[w] /\ status[e] = "processing"
        BY <1>t, <3>1 DEF Batches
      <4>2. \A v \in Worker : e \notin batch[v]
        BY <3>1 DEF Batches
      <4>. QED
        BY <1>4, <2>1, <4>1, <4>2 DEF Ends
    <3>2. CASE T \notin late
      <4>1. e \in batch[w] /\ status'[e] = status[e]
        BY <1>4, <3>2 DEF Ends
      <4>. QED
        BY <1>t, <2>1, <4>1 DEF Batches
    <3>. QED
      BY <3>1, <3>2
  <2>7. ASSUME NEW T \in late', NEW U \in late', NEW e \in Event, e \in T, e \in U
        PROVE  T = U
    <3>1. CASE T \in late /\ U \in late
      BY <2>7, <3>1 DEF Batches
    <3>2. CASE T \notin late /\ U \notin late
      BY <1>4, <2>7, <3>2 DEF Ends
    <3>3. \A V \in late' \ late : \A x \in V : x \in batch[w]
      BY <1>4 DEF Ends
    <3>4. \A V \in late : \A x \in V : x \notin batch[w]
      BY DEF Batches
    <3>. QED
      BY <2>7, <3>1, <3>2, <3>3, <3>4
  <2>8. \A u, v \in Worker : \A e \in Event : e \in batch'[u] /\ e \in batch'[v] => u = v
    BY <2>1 DEF Batches
  <2>. QED
    BY <2>4, <2>5, <2>6, <2>7, <2>8 DEF Batches
<1>5. CASE Inserts
  <2>1. \A e \in InsertBatch : e \in Event /\ status[e] = "absent"
    BY <1>5 DEF Inserts, InsertBatch, NotYet, LoadTestTypeOK, Event
  <2>2. \A v \in Worker : \A e \in batch[v] : e \in Event \ InsertBatch
    BY <1>t, <2>1 DEF Batches
  <2>3. \A T \in late : \A e \in T : e \in Event \ InsertBatch
    BY <1>t, <2>1 DEF Batches
  <2>. QED
    BY <1>f, <1>5, <2>1, <2>2, <2>3 DEF Inserts, Batches
<1>6. CASE Misses
  <2>1. \A e \in Event : status[e] = "processing" => status'[e] = "processing"
    BY <1>6 DEF Misses
  <2>. QED
    BY <1>f, <1>t, <1>6, <2>1 DEF Misses, Batches
<1>7. CASE Lands
  <2>1. PICK S \in late :
          /\ late' = late \ {S} /\ batch' = batch
          /\ \A e \in S : status'[e] \in {"failed", "dlq"}
          /\ \A e \in Event \ S : status'[e] = status[e]
    BY <1>7 DEF Lands
  <2>2. \A v \in Worker : \A e \in batch[v] : e \in Event \ S
    BY <1>t DEF Batches
  <2>3. \A T \in late' : \A e \in T : e \in Event \ S
    BY <1>t, <2>1 DEF Batches
  <2>4. \A e \in Event : status'[e] = "processing" => status[e] = "processing"
    BY <2>1
  <2>. QED
    BY <1>f, <2>1, <2>2, <2>3, <2>4 DEF Batches
<1>. QED
  BY <1>1, <1>2, <1>3, <1>4, <1>5, <1>6, <1>7, EveryStepHandles

LEMMA NotYetStep ==
  ASSUME LoadTestTypeOK, LoadTestTypeOK', Opened, Loops, Batches, NotYet, Next
  PROVE  NotYet'
<1>a. inserted \in Nat
  BY Positive DEF LoadTestTypeOK
<1>1. CASE insertBatch
  BY <1>1 DEF insertBatch, InsertBatch, NotYet
<1>2. CASE InsertAnswered
  <2>1. /\ inserted' = inserted + Cardinality(InsertBatch) /\ status' = status
        /\ inserted' \in Nat /\ inserted' >= inserted
    BY <1>2, <1>a, InsertBatchSizes, EventsAreFinite, Positive
       DEF InsertAnswered, LoadTestTypeOK, InsertBatch
  <2>2. ASSUME NEW e \in Event, status[e] # "absent" PROVE e <= inserted'
    <3>1. e \in Nat
      BY DEF Event
    <3>2. CASE e > inserted
      <4>1. e \in InsertBatch
        BY <2>2, <3>2, <1>a, <3>1 DEF NotYet, InsertBatch
      <4>2. InsertBatch = {x \in Event : x > inserted /\ x <= inserted + Cardinality(InsertBatch)}
        BY InsertBatchSizes DEF LoadTestTypeOK
      <4>. QED
        BY <2>1, <4>1, <4>2
    <3>. QED
      BY <2>1, <3>1, <3>2, <1>a
  <2>. QED
    BY <2>1, <2>2 DEF NotYet
<1>3. CASE InserterWakes
  BY <1>3 DEF InserterWakes, NotYet
<1>4. CASE InsertFails \/ TimeoutMs
  BY <1>4 DEF InsertFails, TimeoutMs, NotYet
<1>5. CASE \E w \in Worker : WorkerStep(w)
  <2>1. PICK w \in Worker : WorkerStep(w)
    BY <1>5
  <2>2. UNCHANGED <<inserted, inserter>>
    BY <2>1 DEF WorkerStep, Claim, PublishReturns, UpdatesReturn, Wake, WorkerOnly
  <2>3. \A e \in Event : status'[e] # "absent" => status[e] # "absent"
    BY <2>1, WorkerHandles DEF Claims, Misses, Keeps, Drops, Ends, Batches
  <2>. QED
    BY <2>2, <2>3 DEF NotYet
<1>6. CASE MainGoes
  <2>1. status' = status /\ inserted' = inserted
    BY <1>6, MainHandles
  <2>2. CASE startAllWorkers
    <3>1. main \in SettingUp
      BY <2>2 DEF startAllWorkers, Goes, SettingUp
    <3>2. inserter = "none"
      BY <3>1 DEF Loops
    <3>. QED
      BY <2>1, <3>2 DEF NotYet
  <2>. QED
    BY <1>6, <2>1, <2>2, MainHandles DEF NotYet
<1>7. CASE LateUpdate
  <2>1. UNCHANGED <<inserted, inserter>>
    BY <1>7 DEF LateUpdate, WorkerOnly
  <2>2. \A e \in Event : status'[e] # "absent" => status[e] # "absent"
    BY <1>7, LateUpdateLands DEF Lands, Batches
  <2>. QED
    BY <2>1, <2>2 DEF NotYet
<1>. QED
  BY <1>1, <1>2, <1>3, <1>4, <1>5, <1>6, <1>7 DEF Next, MainGoes, InserterStep

(* What has settled stays so, and once the workers have ended no more      *)
(* events succeed: a late UPDATE is of events that were not delivered.     *)
LEMMA SettledStays ==
  ASSUME LoadTestTypeOK, LoadTestTypeOK', Opened, Loops, Batches, NotYet, Next,
         NEW s \in {"succeeded", "dlq"}
  PROVE  /\ Having(s) \subseteq Having(s)'
         /\ s = "succeeded" /\ (main \in Measuring \/ Reported) => Having(s)' = Having(s)
<1>t. \A w \in Worker : batch[w] \in SUBSET Event
  BY DEF LoadTestTypeOK
<1>a. \A e \in InsertBatch : e \in Event /\ (inserter = "inserting" => status[e] = "absent")
  BY DEF InsertBatch, NotYet, LoadTestTypeOK, Event
<1>1. ASSUME NEW e \in Event, status[e] = s PROVE status'[e] = s
  <2>1. \A w \in Worker : e \notin batch[w]
    BY <1>1 DEF Batches
  <2>2. ASSUME NEW w \in Worker, Claims(w) \/ Drops(w) \/ Ends(w) PROVE status'[e] = s
    BY <1>1, <2>1, <2>2 DEF Claims, Drops, Ends
  <2>3. Keeps \/ Misses => status'[e] = s
    BY <1>1 DEF Keeps, Misses
  <2>5. Lands => status'[e] = s
    BY <1>1 DEF Lands, Batches
  <2>4. Inserts => status'[e] = s
    BY <1>1, <1>a DEF Inserts
  <2>. QED
    BY <2>2, <2>3, <2>4, <2>5, EveryStepHandles
<1>2. ASSUME main \in Measuring \/ Reported, s = "succeeded", NEW e \in Event, status'[e] = s
      PROVE  status[e] = s
  <2>1. \A w \in Worker : ~WorkerStep(w)
    BY <1>2, WorkerRuns
  <2>2. CASE insertBatch
    BY <1>2, <2>2 DEF insertBatch
  <2>3. CASE TimeoutMs \/ InsertAnswered \/ InserterWakes \/ InsertFails
    BY <1>2, <2>3 DEF TimeoutMs, InsertAnswered, InserterWakes, InsertFails
  <2>4. CASE MainGoes
    BY <1>2, <2>4, MainHandles
  <2>5. CASE LateUpdate
    BY <1>2, <2>5, LateUpdateLands DEF Lands
  <2>. QED
    BY <2>1, <2>2, <2>3, <2>4, <2>5 DEF Next, MainGoes, InserterStep
<1>. QED
  BY <1>1, <1>2 DEF Having

(* What main() does to the counts and the latencies.                       *)
LEMMA MainCounts ==
  ASSUME MainGoes, Stages
  PROVE  /\ expired' = expired
         /\ \/ monitorProgress
            \/ /\ counted' = counted
               /\ main' \in {"stop"} \cup Measuring \/ Reported' =>
                    main \in {"stop"} \cup Measuring \/ Reported
         /\ \/ queryLatenciesFromDb
            \/ /\ latencies' = latencies
               /\ main' = "distribution" \/ Reported' => main = "distribution" \/ Reported
<1> USE DEF Goes, Trying, SettingUp, Measuring, Reported, Stages, Afterwards
<1>1. CASE Migrate \/ truncateEvents \/ createMockServer \/ startMetricsServer
  BY <1>1 DEF Migrate, truncateEvents, createMockServer, startMetricsServer
<1>2. CASE createPostgresAdapter \/ startAllWorkers \/ WorkersStopped \/ queryTestTimeWindow
  BY <1>2 DEF createPostgresAdapter, startAllWorkers, WorkersStopped, queryTestTimeWindow
<1>3. CASE monitorProgress
  BY <1>3 DEF monitorProgress
<1>4. CASE queryLatenciesFromDb \/ getWorkerDistribution \/ Throws \/ Finally
  BY <1>4 DEF queryLatenciesFromDb, getWorkerDistribution, Throws, Finally
<1>5. CASE AdapterEnds \/ AdapterEndFails \/ StopMetrics \/ CloseMock
  BY <1>5 DEF AdapterEnds, AdapterEndFails, StopMetrics, CloseMock
<1>6. CASE waitForExit \/ EndPool \/ Exit
  BY <1>6 DEF waitForExit, EndPool, Exit
<1>. QED
  BY <1>1, <1>2, <1>3, <1>4, <1>5, <1>6 DEF MainGoes, MainStep

LEMMA CountsGrow ==
  ASSUME LoadTestTypeOK, LoadTestTypeOK', Opened, Loops, Batches, NotYet, Next,
         NEW s \in {"succeeded", "dlq"}
  PROVE  /\ Cardinality(Having(s)) \in Nat /\ Cardinality(Having(s)') \in Nat
         /\ Cardinality(Having(s)) <= Cardinality(Having(s)')
         /\ s = "succeeded" /\ (main \in Measuring \/ Reported) =>
              Cardinality(Having(s)') = Cardinality(Having(s))
<1>1. Having(s) \in SUBSET Event /\ Having(s)' \in SUBSET Event
  BY DEF Having
<1>2. Having(s) \subseteq Having(s)'
  BY SettledStays
<1>3. s = "succeeded" /\ (main \in Measuring \/ Reported) => Having(s)' = Having(s)
  BY SettledStays
<1>. QED
  BY <1>1, <1>2, <1>3, EventsAreFinite, FS_Subset, FS_CardinalityType

LEMMA CountedStep ==
  ASSUME LoadTestTypeOK, LoadTestTypeOK', Opened, Opened', Loops, Batches, NotYet, Counted, Next
  PROVE  Counted'
<1>g. \A s \in {"succeeded", "dlq"} :
        /\ Cardinality(Having(s)) \in Nat /\ Cardinality(Having(s)') \in Nat
        /\ Cardinality(Having(s)) <= Cardinality(Having(s)')
  BY CountsGrow
<1>n. counted.processed \in Nat /\ counted.failed \in Nat
  BY Positive DEF LoadTestTypeOK
<1>1. CASE counted' = counted /\ (expired => expired') /\
           (main' \in {"stop"} \cup Measuring \/ Reported' =>
              main \in {"stop"} \cup Measuring \/ Reported)
  BY <1>1, <1>g, <1>n DEF Counted
<1>2. CASE monitorProgress
  <2>1. /\ counted' = Count /\ leftover = 0
        /\ Count.processed + Count.failed >= EventCount \/ expired
        /\ expired' = expired
    BY <1>2 DEF monitorProgress, MonitorEnds, Goes, Opened, Stages
  <2>2. Count.processed = Cardinality(Having("succeeded")) /\ Count.failed = Cardinality(Having("dlq"))
    BY <1>g, <2>1 DEF Count
  <2>. QED
    BY <1>g, <2>1, <2>2 DEF Counted
<1>3. CASE Aside
  <2>1. UNCHANGED <<main, result, counted>>
    BY <1>3, AsideOfMain
  <2>2. expired => expired'
    BY <1>3 DEF Aside, WorkerStep, Claim, PublishReturns, UpdatesReturn, Wake, WorkerOnly,
                LateUpdate, TimeoutMs, InserterStep, insertBatch, InsertAnswered, InserterWakes, InsertFails
  <2>. QED
    BY <1>1, <2>1, <2>2 DEF Reported
<1>4. CASE MainGoes
  BY <1>1, <1>2, <1>4, MainCounts DEF Opened
<1>. QED
  BY <1>3, <1>4 DEF Next, Aside, MainGoes

LEMMA MeasuredStep ==
  ASSUME LoadTestTypeOK, LoadTestTypeOK', Opened, Opened', Loops, Batches, NotYet, Measured, Next
  PROVE  Measured'
<1>g. main \in Measuring \/ Reported =>
        Cardinality(Having("succeeded")') = Cardinality(Having("succeeded"))
  BY CountsGrow
<1>1. CASE latencies' = latencies /\
           (main' = "distribution" \/ Reported' => main = "distribution" \/ Reported)
  BY <1>1, <1>g DEF Measured, Measuring
<1>2. CASE queryLatenciesFromDb
  <2>1. latencies' \in Sorted(Cardinality(Having("succeeded"))) /\ main = "latencies"
    BY <1>2 DEF queryLatenciesFromDb, Goes
  <2>. QED
    BY <1>g, <2>1 DEF Measured, Measuring
<1>3. CASE Aside
  BY <1>1, <1>3, AsideOfMain DEF Reported
<1>4. CASE MainGoes
  BY <1>1, <1>2, <1>4, MainCounts DEF Opened
<1>. QED
  BY <1>3, <1>4 DEF Next, Aside, MainGoes

(* LoadInv is an invariant: it relates the way of main() to the workers,   *)
(* the workers to the table, and the table to what was reported of it.     *)
THEOREM LoadTestInvariant == Spec => []LoadInv
<1>1. Init => LoadInv
  <2> SUFFICES ASSUME Init PROVE LoadInv
    OBVIOUS
  <2>1. /\ Stages /\ (Reported => Closing) /\ Exited /\ Measured
    BY DEF Init, Stages, Reported, Exited, Measured, Trying, SettingUp, Measuring
  <2>2. Loops /\ Batches /\ NotYet
    BY DEF Init, Loops, Batches, NotYet, Measuring, SettingUp, Reported
  <2>3. \A s : Cardinality(Having(s)) \in Nat
    BY HavingType, EventsAreFinite, Positive
  <2>4. Counted
    BY <2>3 DEF Init, Counted, Measuring, Reported
  <2>. QED
    BY <2>1, <2>2, <2>4 DEF LoadInv
<1>2. LoadTestTypeOK /\ LoadTestTypeOK' /\ LoadInv /\ [Next]_vars => LoadInv'
  <2> SUFFICES ASSUME LoadTestTypeOK, LoadTestTypeOK', LoadInv, [Next]_vars PROVE LoadInv'
    OBVIOUS
  <2>1. CASE Next
    BY <2>1, OpenedStep, LoopsStep, BatchesStep, NotYetStep, CountedStep, MeasuredStep
       DEF LoadInv, Opened
  <2>2. CASE UNCHANGED vars
    <3>1. Stages' /\ (Reported' => Closing') /\ Exited'
      BY <2>2 DEF vars, LoadInv, Stages, Reported, Closing, Exited
    <3>2. Loops' /\ Batches' /\ NotYet'
      BY <2>2 DEF vars, LoadInv, Loops, Reported, Batches, NotYet
    <3>3. Having("succeeded")' = Having("succeeded") /\ Having("dlq")' = Having("dlq")
      BY <2>2 DEF vars, Having
    <3>4. Counted' /\ Measured'
      BY <2>2, <3>3 DEF vars, LoadInv, Counted, Measured, Reported
    <3>. QED
      BY <3>1, <3>2, <3>4 DEF LoadInv
  <2>. QED
    BY <2>1, <2>2
<1>. QED
  BY <1>1, <1>2, LoadTestTypeCorrect, PTL DEF Spec

----------------------------------------------------------------------------------
(* What it shows *)

(* A test with a result has left no worker in the middle of a batch, and   *)
(* exit code 0 means that everything it opened is closed.                  *)
THEOREM NoTestIsCutShort == Spec => []NothingIsCutShort
<1>1. LoadTestTypeOK /\ LoadInv => NothingIsCutShort
  <2> SUFFICES ASSUME LoadTestTypeOK, LoadInv PROVE NothingIsCutShort
    OBVIOUS
  <2>1. ASSUME Reported
        PROVE  /\ \A w \in Worker : loop[w] = "ended" /\ batch[w] = {}
               /\ Having("processing") # {} => faults > 0
    <3>1. \A w \in Worker : loop[w] = "ended" /\ batch[w] = {}
      BY <2>1 DEF LoadInv, Loops
    <3>2. faults \in Nat
      BY DEF LoadTestTypeOK
    <3>. QED
      BY <3>1, <3>2 DEF LoadInv, Batches, Having
  <2>2. ASSUME exit = "0"
        PROVE  /\ adapter = "ended" /\ metrics = "none" /\ mock = "closed" /\ pool = "ended"
               /\ inserter \notin {"inserting", "landed"}
    BY <2>2 DEF LoadInv, Exited, Closing, Reported, Afterward
  <2>. QED
    BY <2>1, <2>2 DEF NothingIsCutShort, Reported
<1>. QED
  BY <1>1, LoadTestTypeCorrect, LoadTestInvariant, PTL

(* The place of a percentile in a sorted sequence grows with the percents. *)
LEMMA PercentilesAreOrdered ==
  ASSUME NEW n \in Nat, NEW s \in Sorted(n), NEW p \in 0 .. 100, NEW q \in 0 .. 100, p <= q
  PROVE  /\ percentile(s, p) <= percentile(s, q)
         /\ s # <<>> => s[1] <= percentile(s, p) /\ percentile(s, p) <= s[Len(s)]
<1>1. Len(s) = n /\ s \in Seq(1 .. MaxLatency)
  BY SortedType
<1>2. CASE n = 0
  <2>1. s = <<>>
    BY <1>1, <1>2, EmptySeq
  <2>. QED
    BY <2>1 DEF percentile
<1>3. CASE n > 0
  <2> DEFINE place(r) == LET index == (n * r) \div 100 IN IF index < n THEN index + 1 ELSE n
  <2>1. s # <<>>
    BY <1>1, <1>3, EmptySeq
  <2>2. \A r : percentile(s, r) = s[place(r)]
    BY <1>1, <2>1 DEF percentile
  <2>3. n * p <= n * q /\ n * p \in Nat /\ n * q \in Nat
    BY <1>3
  <2>4. (n * p) \div 100 \in Nat /\ (n * q) \div 100 \in Nat /\ (n * p) \div 100 <= (n * q) \div 100
    BY <2>3
  <2>5. place(p) \in 1 .. n /\ place(q) \in 1 .. n /\ place(p) <= place(q)
    BY <1>3, <2>4
  <2> HIDE DEF place
  <2>6. \A i, j \in 1 .. n : i <= j => s[i] <= s[j]
    BY DEF Sorted
  <2>. QED
    BY <1>1, <1>3, <2>2, <2>5, <2>6
<1>. QED
  BY <1>2, <1>3

(* What a test with a result reports is what is in the table.              *)
THEOREM ResultsAreTrue == Spec => []ResultIsTrue
<1>1. LoadTestTypeOK /\ LoadInv => ResultIsTrue
  <2> SUFFICES ASSUME LoadTestTypeOK, LoadInv, Reported PROVE ResultIsTrue
    BY DEF ResultIsTrue, Reported
  <2> DEFINE succeeded == Cardinality(Having("succeeded"))
             dead == Cardinality(Having("dlq"))
  <2>1. succeeded \in Nat /\ dead \in Nat /\ succeeded + dead <= EventCount
    <3>1. /\ Having("succeeded") \cup Having("dlq") \in SUBSET Event
          /\ Having("succeeded") \cap Having("dlq") = {}
      BY DEF Having
    <3>2. IsFiniteSet(Having("succeeded")) /\ IsFiniteSet(Having("dlq"))
      BY HavingType, EventsAreFinite
    <3>3. Cardinality(Having("succeeded") \cup Having("dlq"))
            = succeeded + dead - Cardinality({})
      BY <3>1, <3>2, FS_Union
    <3>4. succeeded \in Nat /\ dead \in Nat
      BY <3>2, FS_CardinalityType
    <3>. QED
      BY <3>1, <3>3, <3>4, EventsAreFinite, FS_EmptySet, Positive
  <2>2. counted.processed \in Nat /\ counted.failed \in Nat
    BY Positive DEF LoadTestTypeOK
  <2>3. /\ counted.processed <= succeeded /\ counted.failed <= dead
        /\ ~expired => /\ counted.processed = succeeded /\ counted.failed = dead
                       /\ succeeded + dead = EventCount
    BY <2>1, <2>2, Positive DEF LoadInv, Counted
  <2>4. latencies \in Sorted(succeeded)
    BY DEF LoadInv, Measured
  <2>5. Len(latencies) = succeeded
    BY <2>1, <2>4, SortedType
  <2>6. /\ percentile(latencies, 50) <= percentile(latencies, 95)
        /\ percentile(latencies, 95) <= percentile(latencies, 99)
        /\ latencies # <<>> => /\ latencies[1] <= percentile(latencies, 50)
                               /\ percentile(latencies, 99) <= latencies[Len(latencies)]
    <3>1. 50 \in 0 .. 100 /\ 95 \in 0 .. 100 /\ 99 \in 0 .. 100 /\ 50 <= 95 /\ 95 <= 99
      OBVIOUS
    <3>2. /\ percentile(latencies, 50) <= percentile(latencies, 95)
          /\ latencies # <<>> => latencies[1] <= percentile(latencies, 50)
      BY <2>1, <2>4, <3>1, PercentilesAreOrdered
    <3>3. percentile(latencies, 95) <= percentile(latencies, 99)
      BY <2>1, <2>4, <3>1, PercentilesAreOrdered
    <3>4. 99 <= 99
      OBVIOUS
    <3>5. latencies # <<>> => percentile(latencies, 99) <= latencies[Len(latencies)]
      BY <2>1, <2>4, <3>1, <3>4, PercentilesAreOrdered
    <3>. QED
      BY <3>2, <3>3, <3>5
  <2>7. latencies = <<>> => percentile(latencies, 50) = 0 /\ percentile(latencies, 99) = 0
    BY DEF percentile
  <2>. QED
    BY <2>3, <2>5, <2>6, <2>7 DEF ResultIsTrue, calculateMetrics
<1>. QED
  BY <1>1, LoadTestTypeCorrect, LoadTestInvariant, PTL

==================================================================================

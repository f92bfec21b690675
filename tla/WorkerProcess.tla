----------------------------- MODULE WorkerProcess -----------------------------
(***************************************************************************)
(* A process with a cluster of workers: the worker command, a program that *)
(* calls startWorker() itself, or one that makes a WorkerCluster.          *)
(*                                                                         *)
(* startWorker() adds to the cluster a metrics server and the maintenance  *)
(* scheduler, and to the workers a timer each for the gauge of pending     *)
(* events.  It awaits cluster.start(), which returns when the workers have *)
(* stopped: so only a program with a cluster of its own ever calls stop(). *)
(* What startWorker()'s own stop() and the signal handlers of the worker   *)
(* command would do is never reached, and no action of this module.        *)
(***************************************************************************)
EXTENDS WorkerCluster, EntryPoint

CONSTANT MaxOverlap    \* bound on the runs of one job at the same time

ASSUME OverlapAssumption == MaxOverlap \in Nat

Job == {"recovery", "keys", "inbox"}

VARIABLES
  mode,                  \* which of the three programs this is
  main,                  \* where it is before the cluster is started
  metricsEnabled,
  metricsServer,         \* "none" or "listening"
  timers,                \* jobs whose interval timer is set
  runs,                  \* how many runs of each job are in flight
  staleRecoveryRunning,  \* the scheduler's flag
  gauge                  \* workers whose pendingCountTimer is set

mainVars == <<mode, main, heard, exit, metricsEnabled>>
serviceVars == <<metricsServer, timers, runs, staleRecoveryRunning, gauge>>
processVars == <<mainVars, serviceVars>>

ProcessTypeOK ==
  /\ ClusterTypeOK
  /\ mode \in {"command", "startWorker", "cluster"}
  /\ main \in {"preload", "config", "adapter", "publisher", "metrics", "scheduler", "running"}
  /\ heard \in BOOLEAN
  /\ exit \in {"running", "1", "killed"}
  /\ metricsEnabled \in BOOLEAN
  /\ metricsServer \in {"none", "listening"}
  /\ timers \subseteq Job
  /\ runs \in [Job -> 0 .. MaxOverlap]
  /\ staleRecoveryRunning \in BOOLEAN
  /\ gauge \subseteq Worker

(* The variables of the cluster are those of a start() that has just been  *)
(* called; it is called when main is "running".  startWorker's factory     *)
(* returns the one publisher it was given.                                 *)
ProcessInit ==
  /\ Init
  /\ mode \in {"command", "startWorker", "cluster"}
  /\ mode # "cluster" => shared
  /\ main = CASE mode = "command" -> "preload"
              [] mode = "startWorker" -> "metrics"
              [] OTHER -> "running"
  /\ heard = FALSE /\ exit = "running"
  /\ metricsEnabled \in BOOLEAN
  /\ metricsServer = "none" /\ timers = {} /\ gauge = {}
  /\ runs = [j \in Job |-> 0] /\ staleRecoveryRunning = FALSE

-----------------------------------------------------------------------------
Preload ==
  /\ main = "preload" /\ main' = "config"
  /\ LoadPreloadModules
  /\ UNCHANGED <<vars, mode, exit, metricsEnabled, serviceVars>>

Exits == exit' = "1" /\ UNCHANGED <<vars, mode, main, heard, metricsEnabled, serviceVars>>
Continues(to) == main' = to /\ UNCHANGED <<vars, mode, heard, exit, metricsEnabled, serviceVars>>

(* Each part of the command's start can fail, and ends the process.        *)
LoadConfig == main = "config" /\ (Continues("adapter") \/ Exits)
CreateAdapter == main = "adapter" /\ (Continues("publisher") \/ Exits)

(* A wrapper that cannot be loaded is logged.                              *)
CreatePublisher == main = "publisher" /\ (Continues("metrics") \/ Exits)

(* startWorker() begins.  If the port of the metrics server is taken it    *)
(* rejects, which a program may survive and try again, and the command     *)
(* does not.                                                               *)
StartMetrics ==
  /\ main = "metrics"
  /\ \/ main' = "scheduler" /\ UNCHANGED exit
        /\ metricsServer' = IF metricsEnabled THEN "listening" ELSE "none"
     \/ metricsEnabled /\ mode = "command" /\ exit' = "1" /\ UNCHANGED <<main, metricsServer>>
  /\ UNCHANGED <<vars, mode, heard, metricsEnabled, timers, runs, staleRecoveryRunning, gauge>>

(* Recovery has a timer always, the cleanups if they are enabled.          *)
StartScheduler ==
  /\ main = "scheduler" /\ main' = "running"
  /\ timers' \in {{"recovery"} \cup S : S \in SUBSET {"keys", "inbox"}}
  /\ UNCHANGED <<vars, mode, heard, exit, metricsEnabled, metricsServer, runs, staleRecoveryRunning, gauge>>

-----------------------------------------------------------------------------
\* Mutant: the flag is not looked at.
StaleRecovery_Always ==
  /\ "recovery" \in timers
  /\ staleRecoveryRunning' = TRUE
  /\ runs["recovery"] < MaxOverlap
  /\ runs' = [runs EXCEPT !["recovery"] = @ + 1]
  /\ UNCHANGED <<vars, mainVars, metricsServer, timers, gauge>>

(* The timer of the recovery fires.  A run still in flight is not joined.  *)
StaleRecovery ==
  /\ "recovery" \in timers
  /\ ~staleRecoveryRunning /\ staleRecoveryRunning' = TRUE
  /\ runs["recovery"] < MaxOverlap
  /\ runs' = [runs EXCEPT !["recovery"] = @ + 1]
  /\ UNCHANGED <<vars, mainVars, metricsServer, timers, gauge>>

(* The query answers or fails; the flag is reset whichever it was.         *)
StaleRecoveryEnds ==
  /\ runs["recovery"] > 0
  /\ runs' = [runs EXCEPT !["recovery"] = @ - 1]
  /\ staleRecoveryRunning' = FALSE
  /\ UNCHANGED <<vars, mainVars, metricsServer, timers, gauge>>

(* A cleanup that takes longer than its interval runs beside the next one. *)
IdempotencyCleanup ==
  /\ "keys" \in timers
  /\ runs["keys"] < MaxOverlap
  /\ runs' = [runs EXCEPT !["keys"] = @ + 1]
  /\ UNCHANGED <<vars, mainVars, metricsServer, timers, staleRecoveryRunning, gauge>>

InboxCleanup ==
  /\ "inbox" \in timers
  /\ runs["inbox"] < MaxOverlap
  /\ runs' = [runs EXCEPT !["inbox"] = @ + 1]
  /\ UNCHANGED <<vars, mainVars, metricsServer, timers, staleRecoveryRunning, gauge>>

CleanupEnds(j) ==
  /\ j # "recovery" /\ runs[j] > 0
  /\ runs' = [runs EXCEPT ![j] = @ - 1]
  /\ UNCHANGED <<vars, mainVars, metricsServer, timers, staleRecoveryRunning, gauge>>

-----------------------------------------------------------------------------
(* SIGINT or SIGTERM to the worker command.                                *)
Signal ==
  /\ mode = "command"
  /\ DefaultAction
  /\ UNCHANGED <<vars, mode, main, heard, metricsEnabled, serviceVars>>

(* startWorker() rejects with the cluster.  The command ends; what a       *)
(* program that called it has started by then goes on: the metrics server  *)
(* and the timers, with no handle to stop them.                            *)
StartRejects ==
  /\ ConnectFails
  /\ exit' = IF mode = "command" THEN "1" ELSE exit
  /\ UNCHANGED <<mode, main, heard, metricsEnabled, serviceVars>>

(* A worker that starts sets its timer.                                    *)
LaunchWorkers ==
  /\ Launch
  /\ gauge' = IF metricsEnabled THEN gauge \cup workers' ELSE gauge
  /\ UNCHANGED <<mainVars, metricsServer, timers, runs, staleRecoveryRunning>>

(* A worker that is told to stop clears it.                                *)
StopWorkers ==
  /\ Stop
  /\ gauge' = gauge \ workers
  /\ UNCHANGED <<mainVars, metricsServer, timers, runs, staleRecoveryRunning>>

(* Whatever else the cluster does leaves the rest of the process alone;    *)
(* only a program with a cluster of its own stops it.                      *)
ClusterStep ==
  /\ \/ CreateNext \/ StartReturns
     \/ \E w \in Worker : LoopStep(w) \/ PublishReturns(w)
     \/ StopStep
     \/ mode = "cluster" /\ (StopAgain \/ ShutdownAdapter)
  /\ UNCHANGED processVars

ProcessNext ==
  /\ exit = "running"
  /\ \/ Preload \/ LoadConfig \/ CreateAdapter \/ CreatePublisher
     \/ StartMetrics \/ StartScheduler
     \/ StaleRecovery \/ StaleRecoveryEnds \/ IdempotencyCleanup \/ InboxCleanup
     \/ \E j \in Job : CleanupEnds(j)
     \/ Signal
     \/ /\ main = "running"
        /\ \/ StartRejects \/ LaunchWorkers \/ ClusterStep
           \/ mode = "cluster" /\ StopWorkers

ProcessSpec == ProcessInit /\ [][ProcessNext]_<<vars, processVars>>

(* Queries and connections are answered or time out, sleeps end, and the   *)
(* timer of stop() fires.  A publisher, or a maintenance job, may hang.    *)
Lives(A) == exit = "running" /\ main = "running" /\ A
Cluster(A) == A /\ UNCHANGED processVars

ProcessFairness ==
  /\ WF_<<vars, processVars>>(Lives(Cluster(StopStep)))
  /\ WF_<<vars, processVars>>(Lives(StartRejects \/ LaunchWorkers \/ Cluster(CreateNext \/ StartReturns)))
  /\ \A w \in Worker : WF_<<vars, processVars>>(Lives(Cluster(LoopStep(w))))

-----------------------------------------------------------------------------
(* The scheduler never runs two recoveries at the same time, and one that  *)
(* failed does not keep later ones from running: the flag is set only      *)
(* while a query is in flight.  (One that is never answered is for ever.)  *)
RecoveryRunsAlone ==
  /\ runs["recovery"] <= 1
  /\ staleRecoveryRunning <=> runs["recovery"] = 1

(* stop() releases what start() has opened if every worker has a publisher *)
(* of its own: each timer, and each producer but those that could not be   *)
(* disconnected, whose errors do not keep the others open.  Not so if it   *)
(* was called while start() was making workers.                            *)
EverythingIsReleased ==
  stopPc = "done" /\ ~overlapped /\ ~shared => gauge = {} /\ connected \subseteq stuck

(* "Each worker gets ... its own publisher instance", and shutting all     *)
(* publishers down "prevents resource leaks": every connection belongs to  *)
(* a producer that a listed publisher has.  Violated by startWorker(): its *)
(* factory gives all workers one publisher, and Kafka's forgets the        *)
(* producer it has whenever it is initialized again.                       *)
EveryProducerIsHeld ==
  mode # "cluster" => \A c \in connected : \E p \in publishers : producer[p] = c

(* The worker handles SIGINT and SIGTERM: no signal ends it while its      *)
(* workers run.  Violated: startWorker() does not return, so the handlers  *)
(* are never installed.                                                    *)
SignalsAreHandled == startPc = "launched" => exit # "killed"

(* Why: start() awaits the loops of the workers, so only that of a cluster *)
(* which its program stops returns.  The worker command never gets to the  *)
(* lines that install its handlers; a signal kills it in the middle of a   *)
(* batch or, if tracing handles the signal, does nothing at all.           *)
StartWorkerNeverReturns ==
  startPc = "returned" => mode = "cluster" /\ stopPc # "none"
=============================================================================

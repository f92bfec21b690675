----------------------------- MODULE WorkerCluster -----------------------------
(***************************************************************************)
(* The life of the workers of one process: a program starts a cluster,     *)
(* calls stop() at some time, maybe again, and when a call returns it      *)
(* shuts the database adapter down.                                        *)
(*                                                                         *)
(* What a batch does to the rows is in OutboxWorker.  Here a worker polls, *)
(* publishes, writes the outcome and sleeps; what matters is which of the  *)
(* publisher and the pool is still open when it does.  A query that has    *)
(* been sent completes after the pool was ended, a new one is refused.     *)
(***************************************************************************)
EXTENDS Naturals

CONSTANT WorkerCount

ASSUME ClusterAssumption == WorkerCount \in Nat \ {0}

VARIABLES
  shared,      \* does the factory return one publisher for all workers?
  startPc,     \* where start() is
  created,     \* how many workers it has turned to
  running,     \* WorkerCluster.running
  workers,     \* WorkerCluster.workers
  publishers,  \* WorkerCluster.publishers
  producer,    \* each publisher's Kafka producer, named by who initialized it
  connected,   \* producers with a connection
  isRunning,   \* OutboxWorker.isRunning
  loop,        \* where the poll loop of each worker is
  stopPc,      \* where the first effective stop() is
  waiting,     \* workers, then publishers, it waits for
  returned,    \* has any call of stop() returned?
  pool,        \* "open" or "ended"
  overlapped,  \* history: stop() was called while start() created workers
  hurried,     \* history: a second stop() returned while the first waited
  late,        \* history: workers that stop() no longer waits for
  refused,     \* history: workers whose publisher was closed on their batch
  stranded,    \* history: workers that could not write an outcome
  stuck        \* history: producers whose disconnect() failed

startVars == <<startPc, created, producer, connected>>
listVars == <<running, workers, publishers>>
workerVars == <<isRunning, loop>>
stopVars == <<stopPc, waiting, returned>>
history == <<overlapped, hurried, late, refused, stranded, stuck>>
vars == <<shared, startVars, listVars, workerVars, stopVars, pool, history>>

Worker == 1 .. WorkerCount
NoProducer == 0

(* startWorker's factory returns the one publisher it was given; another   *)
(* program's may make one for each worker.                                 *)
PublisherOf(w) == IF shared THEN 1 ELSE w

ClusterTypeOK ==
  /\ shared \in BOOLEAN
  /\ startPc \in {"connecting", "launched", "returned", "rejected"}
  /\ created \in Worker
  /\ running \in BOOLEAN
  /\ workers \subseteq Worker
  /\ publishers \subseteq Worker
  /\ producer \in [Worker -> Worker \cup {NoProducer}]
  /\ connected \subseteq Worker
  /\ isRunning \in [Worker -> BOOLEAN]
  /\ loop \in [Worker -> {"none", "poll", "publish", "write", "sleep", "ended"}]
  /\ stopPc \in {"none", "workers", "publishers", "done"}
  /\ waiting \subseteq Worker
  /\ returned \in BOOLEAN
  /\ pool \in {"open", "ended"}
  /\ overlapped \in BOOLEAN /\ hurried \in BOOLEAN
  /\ late \subseteq Worker /\ refused \subseteq Worker /\ stranded \subseteq Worker
  /\ stuck \subseteq Worker \cup {NoProducer}

(* start() has been called.  It runs to its first await: the first         *)
(* publisher is being initialized.                                         *)
Init ==
  /\ shared \in BOOLEAN
  /\ startPc = "connecting" /\ created = 1
  /\ running = TRUE /\ workers = {} /\ publishers = {1}
  /\ producer = [w \in Worker |-> IF w = 1 THEN 1 ELSE NoProducer]
  /\ connected = {}
  /\ isRunning = [w \in Worker |-> FALSE]
  /\ loop = [w \in Worker |-> "none"]
  /\ stopPc = "none" /\ waiting = {} /\ returned = FALSE
  /\ pool = "open"
  /\ overlapped = FALSE /\ hurried = FALSE
  /\ late = {} /\ refused = {} /\ stranded = {} /\ stuck = {}

-----------------------------------------------------------------------------
(* A query is refused when the pool has been ended.                        *)
AfterPoll == IF pool = "open" THEN "poll" ELSE "sleep"

(* The producer is connected and the worker is made and listed.  The       *)
(* factory gives the publisher of the next one, which is initialized: a    *)
(* new producer replaces the one the publisher has.                        *)
CreateNext ==
  /\ startPc = "connecting" /\ created < WorkerCount
  /\ connected' = connected \cup {created}
  /\ workers' = workers \cup {created}
  /\ created' = created + 1
  /\ publishers' = publishers \cup {PublisherOf(created + 1)}
  /\ producer' = [producer EXCEPT ![PublisherOf(created + 1)] = created + 1]
  /\ UNCHANGED <<shared, startPc, running, workerVars, stopVars, pool, history>>

(* The last producer is connected: all workers listed by now are started,  *)
(* and poll at once.                                                       *)
Launch ==
  /\ startPc = "connecting" /\ created = WorkerCount
  /\ startPc' = "launched"
  /\ connected' = connected \cup {created}
  /\ workers' = workers \cup {created}
  /\ isRunning' = [w \in Worker |-> isRunning[w] \/ w \in workers']
  /\ loop' = [w \in Worker |-> IF w \in workers' THEN AfterPoll ELSE loop[w]]
  /\ UNCHANGED <<shared, created, producer, running, publishers, stopVars, pool, history>>

(* initialize() throws and start() rejects.                                *)
ConnectFails ==
  /\ startPc = "connecting"
  /\ startPc' = "rejected"
  /\ UNCHANGED <<shared, created, producer, connected, listVars, workerVars, stopVars, pool, history>>

(* start() awaits the loops of the workers it started.                     *)
StartReturns ==
  /\ startPc = "launched"
  /\ \A w \in Worker : loop[w] \in {"none", "ended"}
  /\ startPc' = "returned"
  /\ UNCHANGED <<shared, created, producer, connected, listVars, workerVars, stopVars, pool, history>>

-----------------------------------------------------------------------------
Goes(w, phase) == loop' = [loop EXCEPT ![w] = phase]

(* The poll finds nothing, or fails, and the worker sleeps; or it finds a  *)
(* batch, which goes to the publisher.  One without a producer throws, and *)
(* all events of the batch have failed; a producer that did not disconnect *)
(* may refuse them too.                                                    *)
PollReturns(w) ==
  /\ loop[w] = "poll"
  /\ \/ Goes(w, "sleep") /\ UNCHANGED refused
     \/ /\ Goes(w, "publish")
        /\ \/ producer[PublisherOf(w)] # NoProducer /\ UNCHANGED refused
           \/ /\ producer[PublisherOf(w)] \in stuck \cup {NoProducer}
              /\ refused' = refused \cup {w}
  /\ UNCHANGED <<shared, startVars, listVars, isRunning, stopVars, pool, overlapped, hurried, late, stranded, stuck>>

(* The publisher answers; the outcome is written unless the pool is ended. *)
PublishReturns(w) ==
  /\ loop[w] = "publish"
  /\ IF pool = "open"
     THEN Goes(w, "write") /\ UNCHANGED stranded
     ELSE Goes(w, "sleep") /\ stranded' = stranded \cup {w}
  /\ UNCHANGED <<shared, startVars, listVars, isRunning, stopVars, pool, overlapped, hurried, late, refused, stuck>>

WriteReturns(w) ==
  /\ loop[w] = "write"
  /\ Goes(w, "sleep")
  /\ UNCHANGED <<shared, startVars, listVars, isRunning, stopVars, pool, history>>

(* The timer fires or stop() aborts the sleep; the loop looks at isRunning.*)
Wake(w) ==
  /\ loop[w] = "sleep"
  /\ Goes(w, IF isRunning[w] THEN AfterPoll ELSE "ended")
  /\ UNCHANGED <<shared, startVars, listVars, isRunning, stopVars, pool, history>>

-----------------------------------------------------------------------------
\* Mutant: stop() tells the workers to stop and does not wait for them.
Stop_NoWait ==
  /\ running
  /\ running' = FALSE
  /\ isRunning' = [w \in Worker |-> isRunning[w] /\ w \notin workers]
  /\ waiting' = {}
  /\ stopPc' = "workers"
  /\ overlapped' = (startPc = "connecting")
  /\ UNCHANGED <<shared, startVars, workers, publishers, loop, returned, pool, hurried, late, refused, stranded, stuck>>

(* stop(): every worker listed is told to stop, and those with a loop are  *)
(* waited for.                                                             *)
Stop ==
  /\ running
  /\ running' = FALSE
  /\ isRunning' = [w \in Worker |-> isRunning[w] /\ w \notin workers]
  /\ waiting' = {w \in workers : loop[w] # "none"}
  /\ stopPc' = "workers"
  /\ overlapped' = (startPc = "connecting")
  /\ UNCHANGED <<shared, startVars, workers, publishers, loop, returned, pool, hurried, late, refused, stranded, stuck>>

(* Another call finds the cluster not running and returns.                 *)
StopAgain ==
  /\ ~running /\ ~returned
  /\ returned' = TRUE
  /\ hurried' = TRUE
  /\ UNCHANGED <<shared, startVars, listVars, workerVars, stopPc, waiting, pool, overlapped, late, refused, stranded, stuck>>

\* Mutant: no timeout.
WorkerStopped_NoTimeout(w) ==
  /\ stopPc = "workers" /\ w \in waiting /\ loop[w] = "ended"
  /\ waiting' = waiting \ {w}
  /\ UNCHANGED <<shared, startVars, listVars, workerVars, stopPc, returned, pool, history>>

(* A loop has ended, or shutdownTimeoutMs have passed.                     *)
WorkerStopped(w) ==
  /\ stopPc = "workers" /\ w \in waiting
  /\ waiting' = waiting \ {w}
  /\ late' = IF loop[w] = "ended" THEN late ELSE late \cup {w}
  /\ UNCHANGED <<shared, startVars, listVars, workerVars, stopPc, returned, pool, overlapped, hurried, refused, stranded, stuck>>

\* Mutant: the publishers are shut down together with the workers.
ClosePublishers_AtOnce ==
  /\ stopPc = "workers"
  /\ stopPc' = "publishers"
  /\ waiting' = publishers
  /\ UNCHANGED <<shared, startVars, listVars, workerVars, returned, pool, history>>

(* With every worker stopped or given up, the publishers are shut down.    *)
ClosePublishers ==
  /\ stopPc = "workers" /\ waiting = {}
  /\ stopPc' = "publishers"
  /\ waiting' = publishers
  /\ UNCHANGED <<shared, startVars, listVars, workerVars, returned, pool, history>>

\* Mutant: the first error ends the loop over the publishers.
ClosePublisher_ErrorEndsIt(p) ==
  /\ stopPc = "publishers" /\ p \in waiting
  /\ \/ /\ waiting' = waiting \ {p}
        /\ connected' = connected \ {producer[p]}
        /\ producer' = [producer EXCEPT ![p] = NoProducer] /\ UNCHANGED stuck
     \/ /\ waiting' = {}
        /\ stuck' = stuck \cup {producer[p]} /\ UNCHANGED <<producer, connected>>
  /\ refused' = refused \cup {w \in Worker : loop[w] = "publish" /\ PublisherOf(w) = p}
  /\ UNCHANGED <<shared, startPc, created, listVars, workerVars, stopPc, returned, pool, overlapped, hurried, late, stranded>>

(* The producer a publisher has now is disconnected, whoever publishes     *)
(* with it.  If that fails the error is logged: the publisher keeps the    *)
(* producer and the producer its connection.                               *)
ClosePublisher(p) ==
  /\ stopPc = "publishers" /\ p \in waiting
  /\ waiting' = waiting \ {p}
  /\ \/ /\ connected' = connected \ {producer[p]}
        /\ producer' = [producer EXCEPT ![p] = NoProducer] /\ UNCHANGED stuck
     \/ stuck' = stuck \cup {producer[p]} /\ UNCHANGED <<producer, connected>>
  /\ refused' = refused \cup {w \in Worker : loop[w] = "publish" /\ PublisherOf(w) = p}
  /\ UNCHANGED <<shared, startPc, created, listVars, workerVars, stopPc, returned, pool, overlapped, hurried, late, stranded>>

(* The lists are cleared, whatever start() has put into them meanwhile.    *)
StopReturns ==
  /\ stopPc = "publishers" /\ waiting = {}
  /\ stopPc' = "done"
  /\ workers' = {} /\ publishers' = {}
  /\ returned' = TRUE
  /\ UNCHANGED <<shared, startVars, running, workerVars, waiting, pool, history>>

(* adapter.shutdown(), once a call of stop() has returned.                 *)
ShutdownAdapter ==
  /\ returned /\ pool = "open"
  /\ pool' = "ended"
  /\ UNCHANGED <<shared, startVars, listVars, workerVars, stopVars, history>>

-----------------------------------------------------------------------------
StartStep == CreateNext \/ Launch \/ StartReturns
LoopStep(w) == PollReturns(w) \/ WriteReturns(w) \/ Wake(w)
StopStep ==
  \/ \E w \in Worker : WorkerStopped(w) \/ ClosePublisher(w)
  \/ ClosePublishers \/ StopReturns

Next ==
  \/ StartStep \/ ConnectFails
  \/ \E w \in Worker : LoopStep(w) \/ PublishReturns(w)
  \/ Stop \/ StopAgain \/ StopStep \/ ShutdownAdapter

Spec == Init /\ [][Next]_vars

-----------------------------------------------------------------------------
(* After stop() has returned no worker polls, publishes or writes, except  *)
(* one that it gave up after the timeout.  This is not so if stop() was    *)
(* called before start() had made all workers: those made later are        *)
(* started, and nobody can stop them.                                      *)
QuietAfterStop ==
  stopPc = "done" /\ ~overlapped =>
    \A w \in Worker : loop[w] \in {"none", "ended"} \/ w \in late

(* Shutting down in the order workers, publishers, pool costs no batch an  *)
(* attempt or its outcome, if no worker was given up, the caller waited    *)
(* for its first stop(), and did not call it during start().               *)
StopIsGraceful ==
  late = {} /\ ~hurried /\ ~overlapped => refused = {} /\ stranded = {}

(* stop() returns although a publisher hangs, and every loop that was told *)
(* to stop ends unless its own publish hangs.                              *)
StopEnds ==
  stopPc = "workers" ~>
    /\ stopPc = "done"
    /\ overlapped \/ \A w \in Worker : loop[w] \in {"none", "ended", "publish"}
=============================================================================

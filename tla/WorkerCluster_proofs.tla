-------------------------- MODULE WorkerCluster_proofs --------------------------
(***************************************************************************)
(* Proofs about starting and stopping a cluster of any size, alone and in  *)
(* the processes of WorkerProcess.                                         *)
(***************************************************************************)
EXTENDS WorkerProcess, TLAPS

(* Arithmetic is needed only here: workers are made one after the other.   *)
LEMMA WorkerFacts ==
  /\ 1 \in Worker /\ WorkerCount \in Worker /\ NoProducer \notin Worker
  /\ \A n \in Worker : n < WorkerCount => n + 1 \in Worker
  /\ \A w \in Worker : w = 1 \/ w - 1 \in Worker
  /\ \A w \in Worker : PublisherOf(w) \in Worker
BY ClusterAssumption DEF Worker, NoProducer, PublisherOf

LEMMA ClusterTypeInit == Init => ClusterTypeOK
<1> SUFFICES ASSUME Init PROVE ClusterTypeOK
  OBVIOUS
<1>1. producer \in [Worker -> Worker \cup {NoProducer}]
  BY WorkerFacts DEF Init
<1>2. /\ isRunning \in [Worker -> BOOLEAN]
      /\ loop \in [Worker -> {"none", "poll", "publish", "write", "sleep", "ended"}]
  BY DEF Init
<1>3. created \in Worker /\ publishers \subseteq Worker /\ workers \subseteq Worker
  BY WorkerFacts DEF Init
<1>4. /\ connected \subseteq Worker /\ waiting \subseteq Worker
      /\ late \subseteq Worker /\ refused \subseteq Worker /\ stranded \subseteq Worker
      /\ stuck \subseteq Worker \cup {NoProducer}
  BY DEF Init
<1>5. /\ shared \in BOOLEAN /\ running \in BOOLEAN /\ returned \in BOOLEAN
      /\ overlapped \in BOOLEAN /\ hurried \in BOOLEAN
  BY DEF Init
<1>6. /\ startPc \in {"connecting", "launched", "returned", "rejected"}
      /\ stopPc \in {"none", "workers", "publishers", "done"}
      /\ pool \in {"open", "ended"}
  BY DEF Init
<1>7. QED  BY <1>1, <1>2, <1>3, <1>4, <1>5, <1>6 DEF ClusterTypeOK

LEMMA ClusterTypeStep ==
  ASSUME ClusterTypeOK, [Next]_vars
  PROVE  ClusterTypeOK'
<1> USE DEF ClusterTypeOK, startVars, listVars, workerVars, stopVars, history
<1>1. CASE UNCHANGED vars
  BY <1>1 DEF vars
<1>2. CASE CreateNext
  <2>1. created + 1 \in Worker /\ PublisherOf(created + 1) \in Worker
    BY <1>2, WorkerFacts DEF CreateNext
  <2>2. producer' \in [Worker -> Worker \cup {NoProducer}]
    BY <1>2, <2>1 DEF CreateNext
  <2>3. QED  BY <1>2, <2>1, <2>2 DEF CreateNext
<1>3. CASE Launch
  <2>1. AfterPoll \in {"poll", "sleep"}
    BY DEF AfterPoll
  <2>2. isRunning' \in [Worker -> BOOLEAN]
    BY <1>3 DEF Launch
  <2>3. loop' \in [Worker -> {"none", "poll", "publish", "write", "sleep", "ended"}]
    BY <1>3, <2>1 DEF Launch
  <2>4. QED  BY <1>3, <2>2, <2>3 DEF Launch
<1>4. CASE ConnectFails \/ StartReturns
  BY <1>4 DEF ConnectFails, StartReturns
<1>5. CASE \E w \in Worker : PollReturns(w)
  BY <1>5 DEF PollReturns, Goes
<1>6. CASE \E w \in Worker : PublishReturns(w)
  BY <1>6 DEF PublishReturns, Goes
<1>7. CASE \E w \in Worker : WriteReturns(w)
  BY <1>7 DEF WriteReturns, Goes
<1>8. CASE \E w \in Worker : Wake(w)
  BY <1>8 DEF Wake, Goes, AfterPoll
<1>9. CASE Stop
  <2>1. isRunning' \in [Worker -> BOOLEAN]
    BY <1>9 DEF Stop
  <2>2. QED  BY <1>9, <2>1 DEF Stop
<1>10. CASE StopAgain
  BY <1>10 DEF StopAgain
<1>11. CASE \E w \in Worker : WorkerStopped(w)
  BY <1>11 DEF WorkerStopped
<1>12. CASE ClosePublishers \/ StopReturns \/ ShutdownAdapter
  BY <1>12 DEF ClosePublishers, StopReturns, ShutdownAdapter
<1>13. CASE \E w \in Worker : ClosePublisher(w)
  BY <1>13 DEF ClosePublisher
<1>14. QED
  BY <1>1, <1>2, <1>3, <1>4, <1>5, <1>6, <1>7, <1>8, <1>9, <1>10, <1>11, <1>12, <1>13
     DEF Next, StartStep, LoopStep, StopStep

(* Type correctness for clusters of any size.                              *)
THEOREM ClusterTypeCorrect == Spec => []ClusterTypeOK
BY ClusterTypeInit, ClusterTypeStep, PTL DEF Spec

-----------------------------------------------------------------------------
Quiet(w) == loop[w] \in {"none", "ended"}

(* Loops run only after start() has made all workers.                      *)
LoopsAfterStart ==
  /\ startPc \in {"connecting", "rejected"} => \A w \in Worker : loop[w] = "none"
  /\ startPc \in {"launched", "returned"} => created = WorkerCount

(* An effective stop() comes once, and during start() it is an overlap.    *)
StopComesOnce ==
  /\ running <=> stopPc = "none"
  /\ running => ~overlapped
  /\ startPc = "connecting" /\ ~overlapped => running
  /\ running => \A w \in Worker : loop[w] # "none" => w \in workers

(* stop() waits for the loops that run, or has given them up.              *)
LoopsAreAwaited ==
  ~overlapped =>
    /\ stopPc = "workers" => \A w \in Worker : Quiet(w) \/ w \in late \cup waiting
    /\ stopPc \in {"publishers", "done"} => \A w \in Worker : Quiet(w) \/ w \in late

(* Until stop() turns to the publishers those of all workers are open.     *)
PublishersAreOpen ==
  stopPc \in {"none", "workers"} =>
    /\ \A w \in Worker : w <= created => producer[PublisherOf(w)] # NoProducer
    /\ stuck = {}

(* The pool is ended last.                                                 *)
PoolIsLast ==
  /\ pool = "ended" => returned
  /\ returned /\ ~hurried => stopPc = "done"

ClusterInv ==
  /\ LoopsAfterStart /\ StopComesOnce /\ LoopsAreAwaited
  /\ PublishersAreOpen /\ PoolIsLast /\ StopIsGraceful

LEMMA ClusterInvInit == Init => ClusterInv
<1> SUFFICES ASSUME Init PROVE ClusterInv
  OBVIOUS
<1>1. \A w \in Worker : loop[w] = "none"
  BY DEF Init
<1>2. PublishersAreOpen
  <2> SUFFICES ASSUME NEW w \in Worker, w <= 1
               PROVE  producer[PublisherOf(w)] # NoProducer
    BY DEF Init, PublishersAreOpen
  <2>1. w = 1
    BY DEF Worker
  <2>2. PublisherOf(1) = 1
    BY DEF PublisherOf
  <2>3. producer[1] = 1
    BY WorkerFacts DEF Init
  <2>4. QED  BY <2>1, <2>2, <2>3 DEF NoProducer
<1>3. QED
  BY <1>1, <1>2 DEF Init, ClusterInv, LoopsAfterStart, StopComesOnce, LoopsAreAwaited,
     PoolIsLast, StopIsGraceful

(* Steps of start(): no loop runs before.                                  *)
LEMMA StartKeeps ==
  ASSUME ClusterTypeOK, ClusterInv, StartStep \/ ConnectFails
  PROVE  ClusterInv'
<1> USE DEF ClusterTypeOK, startVars, listVars, workerVars, stopVars, history
<1>1. CASE CreateNext
  <2> USE <1>1 DEF CreateNext
  <2>1. PublishersAreOpen'
    <3> SUFFICES ASSUME stopPc \in {"none", "workers"}, NEW w \in Worker, w <= created + 1
                 PROVE  producer'[PublisherOf(w)] # NoProducer
      BY DEF ClusterInv, PublishersAreOpen, PublisherOf
    <3>1. /\ PublisherOf(created + 1) \in Worker /\ PublisherOf(w) \in Worker
          /\ created + 1 # NoProducer /\ created + 1 \in Worker
      BY WorkerFacts
    <3>2. CASE PublisherOf(w) = PublisherOf(created + 1)
      BY <3>1, <3>2
    <3>3. CASE PublisherOf(w) # PublisherOf(created + 1)
      <4>1. w <= created
        BY <3>3 DEF Worker
      <4>2. QED  BY <3>1, <3>3, <4>1 DEF ClusterInv, PublishersAreOpen
    <3>4. QED  BY <3>2, <3>3
  <2>2. LoopsAfterStart' /\ StopComesOnce'
    BY DEF ClusterInv, LoopsAfterStart, StopComesOnce
  <2>3. LoopsAreAwaited' /\ PoolIsLast' /\ StopIsGraceful'
    BY DEF ClusterInv, LoopsAreAwaited, PoolIsLast, StopIsGraceful, Quiet
  <2>4. QED  BY <2>1, <2>2, <2>3 DEF ClusterInv
<1>2. CASE Launch
  <2> USE <1>2 DEF Launch
  <2>1. \A w \in Worker : loop[w] = "none"
    BY DEF ClusterInv, LoopsAfterStart
  <2>2. \A w \in Worker : loop'[w] # "none" => w \in workers'
    BY <2>1
  <2>3. LoopsAfterStart' /\ StopComesOnce'
    BY <2>2 DEF ClusterInv, LoopsAfterStart, StopComesOnce
  <2>4. ~overlapped => stopPc = "none"
    BY DEF ClusterInv, StopComesOnce
  <2>5. LoopsAreAwaited'
    BY <2>4 DEF LoopsAreAwaited
  <2>6. PublishersAreOpen'
    BY DEF ClusterInv, PublishersAreOpen, PublisherOf
  <2>7. PoolIsLast' /\ StopIsGraceful'
    BY DEF ClusterInv, PoolIsLast, StopIsGraceful
  <2>8. QED  BY <2>3, <2>5, <2>6, <2>7 DEF ClusterInv
<1>3. CASE ConnectFails \/ StartReturns
  <2>1. /\ startPc' \in {"rejected", "returned"}
        /\ startPc' = "rejected" => startPc = "connecting"
        /\ startPc' = "returned" => startPc = "launched"
        /\ UNCHANGED <<shared, created, producer, connected, listVars, workerVars, stopVars, pool, history>>
    BY <1>3 DEF ConnectFails, StartReturns
  <2>2. LoopsAfterStart' /\ StopComesOnce'
    BY <2>1 DEF ClusterInv, LoopsAfterStart, StopComesOnce
  <2>3. LoopsAreAwaited' /\ PublishersAreOpen'
    BY <2>1 DEF ClusterInv, LoopsAreAwaited, PublishersAreOpen, PublisherOf, Quiet
  <2>4. PoolIsLast' /\ StopIsGraceful'
    BY <2>1 DEF ClusterInv, PoolIsLast, StopIsGraceful
  <2>5. QED  BY <2>2, <2>3, <2>4 DEF ClusterInv
<1>4. QED  BY <1>1, <1>2, <1>3 DEF StartStep

(* Steps of a loop: one that is still awaited, or given up, goes on.       *)
LEMMA LoopKeeps ==
  ASSUME ClusterTypeOK, ClusterInv, NEW w \in Worker, LoopStep(w) \/ PublishReturns(w)
  PROVE  ClusterInv'
<1> USE DEF ClusterTypeOK, startVars, listVars, workerVars, stopVars, history
<1>1. /\ ~Quiet(w)
      /\ \A v \in Worker \ {w} : loop'[v] = loop[v]
      /\ loop'[w] # "none"
      /\ UNCHANGED <<shared, startPc, created, producer, running, workers, stopPc, waiting,
                     returned, pool, overlapped, hurried, late, stuck>>
  <2>1. CASE PollReturns(w)
    BY <2>1 DEF PollReturns, Goes, Quiet
  <2>2. CASE PublishReturns(w)
    BY <2>2 DEF PublishReturns, Goes, Quiet
  <2>3. CASE WriteReturns(w)
    BY <2>3 DEF WriteReturns, Goes, Quiet
  <2>4. CASE Wake(w)
    BY <2>4 DEF Wake, Goes, Quiet, AfterPoll
  <2>5. QED  BY <2>1, <2>2, <2>3, <2>4 DEF LoopStep
<1>2. LoopsAfterStart' /\ StopComesOnce'
  BY <1>1 DEF ClusterInv, LoopsAfterStart, StopComesOnce, Quiet
<1>3. LoopsAreAwaited'
  BY <1>1 DEF ClusterInv, LoopsAreAwaited, Quiet
<1>4. PublishersAreOpen' /\ PoolIsLast'
  BY <1>1 DEF ClusterInv, PublishersAreOpen, PoolIsLast, PublisherOf
<1>5. StopIsGraceful'
  <2> SUFFICES ASSUME late = {}, ~hurried, ~overlapped
               PROVE  refused' = refused /\ stranded' = stranded
    BY <1>1 DEF ClusterInv, StopIsGraceful
  <2>1. stopPc \in {"none", "workers"}
    BY <1>1 DEF ClusterInv, LoopsAreAwaited
  <2>2. pool = "open"
    BY <2>1 DEF ClusterInv, PoolIsLast
  <2>3. producer[PublisherOf(w)] # NoProducer /\ stuck = {}
    <3>1. created = WorkerCount
      BY <1>1 DEF ClusterInv, LoopsAfterStart, Quiet
    <3>2. w <= created
      BY <3>1 DEF Worker
    <3>3. QED  BY <2>1, <3>2 DEF ClusterInv, PublishersAreOpen
  <2>4. CASE PollReturns(w)
    BY <2>3, <2>4 DEF PollReturns
  <2>5. CASE PublishReturns(w)
    BY <2>2, <2>5 DEF PublishReturns
  <2>6. CASE WriteReturns(w) \/ Wake(w)
    BY <2>6 DEF WriteReturns, Wake
  <2>7. QED  BY <2>4, <2>5, <2>6 DEF LoopStep
<1>6. QED  BY <1>2, <1>3, <1>4, <1>5 DEF ClusterInv

(* Steps of stop() and of the program that called it.                      *)
LEMMA StopKeeps ==
  ASSUME ClusterTypeOK, ClusterInv, Stop \/ StopAgain \/ StopStep \/ ShutdownAdapter
  PROVE  ClusterInv'
<1> USE DEF ClusterTypeOK, startVars, listVars, workerVars, stopVars, history
<1>0. UNCHANGED <<shared, startPc, created, loop>>
  BY DEF Stop, StopAgain, StopStep, WorkerStopped, ClosePublishers, ClosePublisher,
         StopReturns, ShutdownAdapter
<1>a. LoopsAfterStart'
  BY <1>0 DEF ClusterInv, LoopsAfterStart
<1>1. CASE Stop
  <2> USE <1>1 DEF Stop
  <2>1. StopComesOnce'
    BY DEF ClusterInv, StopComesOnce
  <2>2. LoopsAreAwaited'
    BY DEF ClusterInv, StopComesOnce, LoopsAreAwaited, Quiet
  <2>3. PublishersAreOpen'
    BY DEF ClusterInv, StopComesOnce, PublishersAreOpen, PublisherOf
  <2>4. PoolIsLast'
    BY DEF ClusterInv, StopComesOnce, PoolIsLast
  <2>5. StopIsGraceful'
    BY DEF ClusterInv, StopComesOnce, StopIsGraceful
  <2>6. QED  BY <1>a, <2>1, <2>2, <2>3, <2>4, <2>5 DEF ClusterInv
<1>2. CASE StopAgain \/ ShutdownAdapter
  <2>1. UNCHANGED <<producer, running, workers, stopPc, waiting, overlapped, late, refused, stranded, stuck>>
    BY <1>2 DEF StopAgain, ShutdownAdapter
  <2>2. StopComesOnce' /\ LoopsAreAwaited' /\ PublishersAreOpen'
    BY <1>0, <2>1 DEF ClusterInv, StopComesOnce, LoopsAreAwaited, PublishersAreOpen, PublisherOf, Quiet
  <2>3. PoolIsLast' /\ StopIsGraceful'
    BY <1>2 DEF ClusterInv, PoolIsLast, StopIsGraceful, StopAgain, ShutdownAdapter
  <2>4. QED  BY <1>a, <2>2, <2>3 DEF ClusterInv
<1>3. CASE \E w \in Worker : WorkerStopped(w)
  <2> PICK w \in Worker : WorkerStopped(w)
    BY <1>3
  <2> USE DEF WorkerStopped
  <2>1. StopComesOnce' /\ PublishersAreOpen' /\ PoolIsLast'
    BY DEF ClusterInv, StopComesOnce, PublishersAreOpen, PoolIsLast, PublisherOf
  <2>2. LoopsAreAwaited'
    BY DEF ClusterInv, LoopsAreAwaited, Quiet
  <2>3. StopIsGraceful'
    BY DEF ClusterInv, StopIsGraceful
  <2>4. QED  BY <1>a, <2>1, <2>2, <2>3 DEF ClusterInv
<1>4. CASE ClosePublishers \/ StopReturns
  <2>1. StopComesOnce'
    BY <1>4 DEF ClusterInv, StopComesOnce, ClosePublishers, StopReturns
  <2>2. LoopsAreAwaited'
    BY <1>4 DEF ClusterInv, LoopsAreAwaited, Quiet, ClosePublishers, StopReturns
  <2>3. PublishersAreOpen' /\ PoolIsLast'
    BY <1>4 DEF ClusterInv, PublishersAreOpen, PoolIsLast, ClosePublishers, StopReturns
  <2>4. StopIsGraceful'
    BY <1>4 DEF ClusterInv, StopIsGraceful, ClosePublishers, StopReturns
  <2>5. QED  BY <1>a, <2>1, <2>2, <2>3, <2>4 DEF ClusterInv
<1>5. CASE \E p \in Worker : ClosePublisher(p)
  <2> PICK p \in Worker : ClosePublisher(p)
    BY <1>5
  <2> USE DEF ClosePublisher
  <2>1. StopComesOnce' /\ PublishersAreOpen' /\ PoolIsLast'
    BY DEF ClusterInv, StopComesOnce, PublishersAreOpen, PoolIsLast
  <2>2. LoopsAreAwaited'
    BY DEF ClusterInv, LoopsAreAwaited, Quiet
  <2>3. StopIsGraceful'
    <3> SUFFICES ASSUME late = {}, ~hurried, ~overlapped
                 PROVE  refused' = {} /\ stranded' = {}
      BY DEF StopIsGraceful
    <3>1. \A w \in Worker : loop[w] # "publish"
      BY DEF ClusterInv, LoopsAreAwaited, Quiet
    <3>2. QED  BY <3>1 DEF ClusterInv, StopIsGraceful
  <2>4. QED  BY <1>a, <2>1, <2>2, <2>3 DEF ClusterInv
<1>6. QED  BY <1>1, <1>2, <1>3, <1>4, <1>5 DEF StopStep

LEMMA ClusterInvStep ==
  ASSUME ClusterTypeOK, ClusterInv, [Next]_vars
  PROVE  ClusterInv'
<1>1. CASE UNCHANGED vars
  BY <1>1 DEF vars, startVars, listVars, workerVars, stopVars, history, ClusterInv,
     LoopsAfterStart, StopComesOnce, LoopsAreAwaited, PublishersAreOpen, PublisherOf,
     PoolIsLast, StopIsGraceful, Quiet
<1>2. QED  BY <1>1, StartKeeps, LoopKeeps, StopKeeps DEF Next

LEMMA ClusterInvHolds == Spec => [](ClusterTypeOK /\ ClusterInv)
<1>1. Init => ClusterTypeOK /\ ClusterInv
  BY ClusterTypeInit, ClusterInvInit
<1>2. ClusterTypeOK /\ ClusterInv /\ [Next]_vars => (ClusterTypeOK /\ ClusterInv)'
  BY ClusterTypeStep, ClusterInvStep
<1>3. QED  BY <1>1, <1>2, PTL DEF Spec

(* After stop() no worker is at work but those it gave up.                 *)
THEOREM WorkersAreQuiet == Spec => []QuietAfterStop
<1>1. ClusterInv => QuietAfterStop
  BY DEF ClusterInv, LoopsAreAwaited, QuietAfterStop, Quiet
<1>2. QED  BY <1>1, ClusterInvHolds, PTL

(* A shutdown that is waited for costs no batch an attempt or its outcome. *)
THEOREM ShutdownIsGraceful == Spec => []StopIsGraceful
<1>1. ClusterInv => StopIsGraceful
  BY DEF ClusterInv
<1>2. QED  BY <1>1, ClusterInvHolds, PTL

-----------------------------------------------------------------------------
(* The steps of a process, by what they do to its cluster.                 *)
LEMMA ProcessSteps ==
  ASSUME ProcessNext
  PROVE  \/ UNCHANGED <<vars, mode>>
         \/ StartRejects \/ LaunchWorkers \/ ClusterStep
         \/ mode = "cluster" /\ StopWorkers
<1>1. CASE Preload
  BY <1>1 DEF Preload
<1>2. CASE LoadConfig \/ CreateAdapter \/ CreatePublisher
  BY <1>2 DEF LoadConfig, CreateAdapter, CreatePublisher, Continues, Exits
<1>3. CASE StartMetrics \/ StartScheduler \/ Signal
  BY <1>3 DEF StartMetrics, StartScheduler, Signal
<1>4. CASE StaleRecovery \/ StaleRecoveryEnds \/ IdempotencyCleanup \/ InboxCleanup
  BY <1>4 DEF StaleRecovery, StaleRecoveryEnds, IdempotencyCleanup, InboxCleanup, mainVars
<1>5. CASE \E j \in Job : CleanupEnds(j)
  BY <1>5 DEF CleanupEnds, mainVars
<1>6. QED
  BY <1>1, <1>2, <1>3, <1>4, <1>5 DEF ProcessNext

LEMMA ProcessStepIsClusterStep ==
  ASSUME [ProcessNext]_<<vars, processVars>>
  PROVE  [Next]_vars
<1>1. CASE UNCHANGED <<vars, processVars>>
  BY <1>1
<1>2. CASE ProcessNext
  <2>1. CASE StartRejects
    BY <2>1 DEF StartRejects, Next
  <2>2. CASE LaunchWorkers
    BY <2>2 DEF LaunchWorkers, Next, StartStep
  <2>3. CASE StopWorkers
    BY <2>3 DEF StopWorkers, Next
  <2>4. CASE ClusterStep
    BY <2>4 DEF ClusterStep, Next, StartStep
  <2>5. QED
    BY <1>2, <2>1, <2>2, <2>3, <2>4, ProcessSteps
<1>3. QED  BY <1>1, <1>2

(* Whatever program it is part of, a cluster behaves as WorkerCluster says: *)
(* a step of the process is one of the cluster or leaves it alone.         *)
THEOREM ProcessesRunClusters == ProcessSpec => Spec
<1>1. ProcessInit => Init
  BY DEF ProcessInit
<1>2. [ProcessNext]_<<vars, processVars>> => [Next]_vars
  BY ProcessStepIsClusterStep
<1>3. QED  BY <1>1, <1>2, PTL DEF ProcessSpec, Spec

(* Only a program with a cluster of its own stops it, and until it does    *)
(* the loops go on: the last worker's is one of them once start() has      *)
(* launched them.                                                          *)
OwnersStop == mode # "cluster" => stopPc = "none"

LoopsGoOn ==
  stopPc = "none" =>
    /\ \A w \in Worker : loop[w] # "ended" /\ (loop[w] # "none" => isRunning[w])
    /\ startPc = "launched" => loop[WorkerCount] # "none"
    /\ startPc # "returned"

LEMMA OwnersStopStep ==
  ASSUME OwnersStop, [ProcessNext]_<<vars, processVars>>
  PROVE  OwnersStop'
<1> USE DEF OwnersStop
<1>1. CASE UNCHANGED <<vars, processVars>>
  BY <1>1 DEF vars, stopVars, processVars, mainVars
<1>2. CASE UNCHANGED <<vars, mode>>
  BY <1>2 DEF vars, stopVars
<1>3. CASE StartRejects \/ LaunchWorkers
  BY <1>3 DEF StartRejects, LaunchWorkers, ConnectFails, Launch, stopVars, mainVars
<1>4. CASE mode = "cluster" /\ StopWorkers
  BY <1>4 DEF StopWorkers, mainVars
<1>5. CASE ClusterStep
  <2>1. mode' = mode
    BY <1>5 DEF ClusterStep, processVars, mainVars
  <2>2. CASE mode = "cluster"
    BY <2>1, <2>2
  <2>3. CASE CreateNext \/ StartReturns
    BY <2>1, <2>3 DEF CreateNext, StartReturns, stopVars
  <2>4. CASE \E w \in Worker : LoopStep(w) \/ PublishReturns(w)
    BY <2>1, <2>4 DEF LoopStep, PollReturns, WriteReturns, Wake, PublishReturns, stopVars
  <2>5. CASE StopStep
    BY <2>1, <2>5 DEF StopStep, WorkerStopped, ClosePublisher, ClosePublishers, StopReturns
  <2>6. QED
    BY <1>5, <2>2, <2>3, <2>4, <2>5 DEF ClusterStep
<1>6. QED
  BY <1>1, <1>2, <1>3, <1>4, <1>5, ProcessSteps

LEMMA LoopsGoOnStep ==
  ASSUME ClusterTypeOK, LoopsGoOn, [Next]_vars
  PROVE  LoopsGoOn'
<1> USE DEF LoopsGoOn
<1>1. CASE UNCHANGED vars
  BY <1>1 DEF vars, startVars, workerVars, stopVars
<1>2. CASE CreateNext \/ ConnectFails
  BY <1>2 DEF CreateNext, ConnectFails, workerVars, stopVars
<1>3. CASE Launch
  <2>1. AfterPoll # "ended" /\ AfterPoll # "none"
    BY DEF AfterPoll
  <2>2. WorkerCount \in workers' /\ WorkerCount \in Worker
    BY <1>3, WorkerFacts DEF Launch
  <2>3. /\ stopPc' = stopPc /\ startPc' = "launched"
        /\ \A w \in Worker : loop'[w] = IF w \in workers' THEN AfterPoll ELSE loop[w]
        /\ \A w \in Worker : isRunning'[w] = (isRunning[w] \/ w \in workers')
    BY <1>3 DEF Launch, stopVars
  <2>4. QED  BY <2>1, <2>2, <2>3
<1>4. CASE StartReturns
  <2>1. stopPc # "none"
    BY <1>4, WorkerFacts DEF StartReturns
  <2>2. QED  BY <1>4, <2>1 DEF StartReturns, stopVars
<1>5. ASSUME NEW w \in Worker, LoopStep(w) \/ PublishReturns(w) PROVE LoopsGoOn'
  <2>1. /\ stopPc' = stopPc /\ startPc' = startPc /\ isRunning' = isRunning
        /\ loop[w] # "none"
    BY <1>5 DEF LoopStep, PollReturns, WriteReturns, Wake, PublishReturns, stopVars, startVars,
                workerVars
  <2>2. PICK to : loop' = [loop EXCEPT ![w] = to]
                  /\ to # "none" /\ (to = "ended" => ~isRunning[w])
    BY <1>5 DEF LoopStep, PollReturns, WriteReturns, Wake, PublishReturns, Goes, AfterPoll
  <2>3. \A v \in Worker : loop'[v] = IF v = w THEN to ELSE loop[v]
    BY <2>2 DEF ClusterTypeOK
  <2>4. QED  BY <2>1, <2>2, <2>3, WorkerFacts
<1>6. CASE Stop
  BY <1>6 DEF Stop
<1>7. CASE StopAgain \/ ShutdownAdapter
  BY <1>7 DEF StopAgain, ShutdownAdapter, startVars, workerVars, stopVars
<1>8. CASE StopStep
  BY <1>8 DEF StopStep, WorkerStopped, ClosePublisher, ClosePublishers, StopReturns
<1>9. QED
  BY <1>1, <1>2, <1>3, <1>4, <1>5, <1>6, <1>7, <1>8 DEF Next, StartStep

(* Why the worker handles no signal, however many workers it has:          *)
(* startWorker() never returns, since only a cluster that its program      *)
(* stops has a start() that does.                                          *)
THEOREM StartWorkerIsForEver == ProcessSpec => []StartWorkerNeverReturns
<1>1. ProcessInit => OwnersStop /\ LoopsGoOn
  BY DEF ProcessInit, Init, OwnersStop, LoopsGoOn
<1>2. Spec => []ClusterTypeOK
  BY ClusterTypeCorrect
<1>3. ASSUME ClusterTypeOK, OwnersStop /\ LoopsGoOn, [ProcessNext]_<<vars, processVars>>
      PROVE  (OwnersStop /\ LoopsGoOn)'
  BY <1>3, OwnersStopStep, LoopsGoOnStep, ProcessStepIsClusterStep
<1>4. OwnersStop /\ LoopsGoOn => StartWorkerNeverReturns
  BY DEF OwnersStop, LoopsGoOn, StartWorkerNeverReturns
<1>5. QED
  BY <1>1, <1>2, <1>3, <1>4, ProcessesRunClusters, PTL DEF ProcessSpec

(* A stop() in any of the programs leaves only workers at work that it     *)
(* gave up, and one that is waited for is graceful.                        *)
THEOREM ProcessesStopGracefully == ProcessSpec => [](QuietAfterStop /\ StopIsGraceful)
BY ProcessesRunClusters, WorkersAreQuiet, ShutdownIsGraceful, PTL

-----------------------------------------------------------------------------
ServiceSteps == \/ StaleRecovery \/ StaleRecoveryEnds \/ IdempotencyCleanup \/ InboxCleanup
                \/ \E j \in Job : CleanupEnds(j)

(* How a job's runs change, if they do. *)
LEMMA RunsChange ==
  ASSUME ProcessTypeOK, [ProcessNext]_<<vars, processVars>>
  PROVE  \/ UNCHANGED <<runs, staleRecoveryRunning>>
         \/ ServiceSteps /\ UNCHANGED <<vars, mainVars, metricsServer, timers, gauge>>
<1>1. CASE UNCHANGED <<vars, processVars>>
  BY <1>1 DEF processVars, serviceVars
<1>2. CASE ProcessNext
  <2>1. CASE Preload \/ LoadConfig \/ CreateAdapter \/ CreatePublisher \/ StartMetrics
             \/ StartScheduler \/ Signal
    BY <2>1 DEF Preload, LoadConfig, CreateAdapter, CreatePublisher, StartMetrics,
                StartScheduler, Signal, Continues, Exits, serviceVars
  <2>2. CASE ServiceSteps
    BY <2>2 DEF ServiceSteps, StaleRecovery, StaleRecoveryEnds, IdempotencyCleanup,
                InboxCleanup, CleanupEnds
  <2>3. CASE StartRejects \/ LaunchWorkers \/ ClusterStep \/ StopWorkers
    BY <2>3 DEF StartRejects, LaunchWorkers, ClusterStep, StopWorkers, serviceVars, processVars
  <2>4. QED  BY <1>2, <2>1, <2>2, <2>3 DEF ProcessNext, ServiceSteps
<1>3. QED  BY <1>1, <1>2

(* Every start of a run counts it up to the bound, every end down to 0. *)
LEMMA RunsKeepType ==
  ASSUME ProcessTypeOK, ServiceSteps
  PROVE  /\ runs' \in [Job -> 0 .. MaxOverlap]
         /\ staleRecoveryRunning' \in BOOLEAN
<1> USE OverlapAssumption DEF ProcessTypeOK
<1>1. ASSUME NEW j \in Job,
             \/ runs[j] < MaxOverlap /\ runs' = [runs EXCEPT ![j] = @ + 1]
             \/ runs[j] > 0 /\ runs' = [runs EXCEPT ![j] = @ - 1]
      PROVE  runs' \in [Job -> 0 .. MaxOverlap]
  <2>1. runs[j] \in 0 .. MaxOverlap
    OBVIOUS
  <2>2. PICK n \in 0 .. MaxOverlap : runs' = [runs EXCEPT ![j] = n]
    <3>1. runs[j] < MaxOverlap => runs[j] + 1 \in 0 .. MaxOverlap
      BY <2>1
    <3>2. runs[j] > 0 => runs[j] - 1 \in 0 .. MaxOverlap
      BY <2>1
    <3>3. QED  BY <1>1, <3>1, <3>2
  <2>3. QED  BY <2>2
<1>2. staleRecoveryRunning' \in BOOLEAN
  BY DEF ServiceSteps, StaleRecovery, StaleRecoveryEnds, IdempotencyCleanup, InboxCleanup, CleanupEnds
<1>3. PICK j \in Job : \/ runs[j] < MaxOverlap /\ runs' = [runs EXCEPT ![j] = @ + 1]
                       \/ runs[j] > 0 /\ runs' = [runs EXCEPT ![j] = @ - 1]
  BY DEF ServiceSteps, StaleRecovery, StaleRecoveryEnds, IdempotencyCleanup, InboxCleanup,
         CleanupEnds, Job
<1>4. QED  BY <1>1, <1>2, <1>3

(* What is left of the type when the cluster and the runs are set aside. *)
RestTypeOK ==
  /\ mode \in {"command", "startWorker", "cluster"}
  /\ main \in {"preload", "config", "adapter", "publisher", "metrics", "scheduler", "running"}
  /\ heard \in BOOLEAN
  /\ exit \in {"running", "1", "killed"}
  /\ metricsEnabled \in BOOLEAN
  /\ metricsServer \in {"none", "listening"}
  /\ timers \subseteq Job
  /\ gauge \subseteq Worker

LEMMA RestKeepsType ==
  ASSUME ProcessTypeOK, ClusterTypeOK', [ProcessNext]_<<vars, processVars>>
  PROVE  RestTypeOK'
<1>0. RestTypeOK
  BY DEF ProcessTypeOK, RestTypeOK
<1> USE DEF RestTypeOK, mainVars
<1>1. CASE UNCHANGED <<vars, processVars>>
  BY <1>0, <1>1 DEF processVars, serviceVars
<1>2. CASE Preload \/ LoadConfig \/ CreateAdapter \/ CreatePublisher \/ StartMetrics \/ Signal
  BY <1>0, <1>2 DEF Preload, LoadConfig, CreateAdapter, CreatePublisher, StartMetrics, Signal,
                    Continues, Exits, serviceVars, LoadPreloadModules, DefaultAction
<1>3. CASE StartScheduler
  BY <1>0, <1>3 DEF StartScheduler, Job
<1>4. CASE ServiceSteps
  BY <1>0, <1>4 DEF ServiceSteps, StaleRecovery, StaleRecoveryEnds, IdempotencyCleanup,
                    InboxCleanup, CleanupEnds
<1>5. CASE StartRejects \/ ClusterStep
  BY <1>0, <1>5 DEF StartRejects, ClusterStep, processVars, serviceVars
<1>6. CASE LaunchWorkers \/ StopWorkers
  <2>1. workers' \subseteq Worker
    BY DEF ClusterTypeOK
  <2>2. gauge' \subseteq Worker
    BY <1>0, <1>6, <2>1 DEF LaunchWorkers, StopWorkers
  <2>3. QED  BY <1>0, <1>6, <2>2 DEF LaunchWorkers, StopWorkers
<1>7. QED
  BY <1>1, <1>2, <1>3, <1>4, <1>5, <1>6 DEF ProcessNext, ServiceSteps

(* Every variable of a worker process keeps its type. *)
THEOREM ProcessTypeCorrect == ProcessSpec => []ProcessTypeOK
<1>1. ProcessInit /\ ClusterTypeOK => ProcessTypeOK
  <2> SUFFICES ASSUME ProcessInit, ClusterTypeOK PROVE ProcessTypeOK
    OBVIOUS
  <2>1. runs \in [Job -> 0 .. MaxOverlap]
    BY OverlapAssumption DEF ProcessInit
  <2>2. /\ mode \in {"command", "startWorker", "cluster"}
        /\ main \in {"preload", "config", "adapter", "publisher", "metrics", "scheduler", "running"}
    BY DEF ProcessInit
  <2>3. QED  BY <2>1, <2>2 DEF ProcessInit, ProcessTypeOK
<1>2. ASSUME ProcessTypeOK, ClusterTypeOK', [ProcessNext]_<<vars, processVars>>
      PROVE  ProcessTypeOK'
  <2>1. RestTypeOK'
    BY <1>2, RestKeepsType
  <2>2. runs' \in [Job -> 0 .. MaxOverlap] /\ staleRecoveryRunning' \in BOOLEAN
    <3>1. CASE ServiceSteps
      BY <1>2, <3>1, RunsKeepType
    <3>2. CASE UNCHANGED <<runs, staleRecoveryRunning>>
      BY <1>2, <3>2 DEF ProcessTypeOK
    <3>3. QED  BY <1>2, <3>1, <3>2, RunsChange
  <2>3. QED  BY <1>2, <2>1, <2>2 DEF RestTypeOK, ProcessTypeOK
<1>3. QED
  BY <1>1, <1>2, ProcessesRunClusters, ClusterTypeCorrect, PTL DEF ProcessSpec

(* The scheduler never has two recoveries in flight, and its flag is set   *)
(* only while there is one: a recovery that failed does not stop the next. *)
THEOREM RecoveriesRunAlone == ProcessSpec => []RecoveryRunsAlone
<1>1. ProcessInit => RecoveryRunsAlone
  BY DEF ProcessInit, RecoveryRunsAlone, Job
<1>2. ASSUME ProcessTypeOK, RecoveryRunsAlone, [ProcessNext]_<<vars, processVars>>
      PROVE  RecoveryRunsAlone'
  <2> USE <1>2 DEF ProcessTypeOK, RecoveryRunsAlone, Job
  <2>1. CASE UNCHANGED <<runs, staleRecoveryRunning>>
    BY <2>1
  <2>2. CASE StaleRecovery
    BY <2>2 DEF StaleRecovery
  <2>3. CASE StaleRecoveryEnds
    BY <2>3 DEF StaleRecoveryEnds
  <2>4. CASE IdempotencyCleanup \/ InboxCleanup
    BY <2>4 DEF IdempotencyCleanup, InboxCleanup
  <2>5. ASSUME NEW j \in Job, CleanupEnds(j) PROVE RecoveryRunsAlone'
    BY <2>5 DEF CleanupEnds
  <2>6. QED  BY <2>1, <2>2, <2>3, <2>4, <2>5, RunsChange DEF ServiceSteps
<1>3. QED
  BY <1>1, <1>2, ProcessTypeCorrect, PTL DEF ProcessSpec

-----------------------------------------------------------------------------
(* With publishers of their own each worker made has the producer that it  *)
(* opened, until stop() turns to its publisher.                            *)
ProducersAreOwned ==
  /\ \A c \in connected : c <= created
  /\ stopPc \in {"none", "workers"} =>
       \A w \in Worker : w <= created => w \in publishers /\ producer[w] = w
  /\ stopPc = "publishers" => \A c \in connected : c \in stuck \/ (c \in waiting /\ producer[c] = c)
  /\ stopPc = "done" => connected \subseteq stuck

OwnersAreKnown == ~shared /\ ~overlapped => ProducersAreOwned

(* A timer is set only for a listed worker, and for none once stop() has   *)
(* been called.                                                            *)
TimersAreKnown ==
  /\ stopPc = "none" => gauge \subseteq workers
  /\ stopPc # "none" /\ ~overlapped => gauge = {}

LEMMA OwnersInit == Init => OwnersAreKnown
<1>1. ASSUME Init, NEW w \in Worker, w <= 1 PROVE w = 1 /\ producer[w] = 1
  BY <1>1, WorkerFacts DEF Init, Worker
<1>. QED
  BY <1>1 DEF Init, OwnersAreKnown, ProducersAreOwned

(* start() opens a producer for each worker.                               *)
LEMMA StartOwns ==
  ASSUME ClusterTypeOK, ClusterInv, OwnersAreKnown, StartStep \/ ConnectFails
  PROVE  OwnersAreKnown'
<1>. USE DEF ClusterTypeOK
<1>. SUFFICES ASSUME ~shared', ~overlapped' PROVE ProducersAreOwned'
  BY DEF OwnersAreKnown
<1>1. UNCHANGED <<shared, stopPc, waiting, overlapped, stuck>>
  BY DEF StartStep, CreateNext, Launch, StartReturns, ConnectFails, stopVars, history
<1>2. ProducersAreOwned
  BY <1>1 DEF OwnersAreKnown
<1>3. startPc = "connecting" => stopPc = "none"
  BY <1>1 DEF ClusterInv, StopComesOnce
<1>4. CASE CreateNext
  <2>1. stopPc = "none" /\ created \in Worker /\ created + 1 \in Worker /\ created' = created + 1
    BY <1>3, <1>4, WorkerFacts DEF CreateNext
  <2>2. /\ connected' = connected \cup {created} /\ publishers' = publishers \cup {created + 1}
        /\ producer' = [producer EXCEPT ![created + 1] = created + 1]
    BY <1>1, <1>4 DEF CreateNext, PublisherOf
  <2>3. \A c \in connected' : c <= created'
    BY <1>2, <2>1, <2>2 DEF ProducersAreOwned, Worker
  <2>4. ASSUME NEW w \in Worker, w <= created + 1 PROVE w \in publishers' /\ producer'[w] = w
    <3>1. CASE w = created + 1
      BY <2>1, <2>2, <3>1
    <3>2. CASE w # created + 1
      <4>1. w <= created
        BY <2>1, <2>4, <3>2 DEF Worker
      <4>. QED
        BY <1>2, <2>1, <2>2, <3>2, <4>1 DEF ProducersAreOwned
    <3>. QED
      BY <3>1, <3>2
  <2>. QED
    BY <1>1, <2>1, <2>3, <2>4 DEF ProducersAreOwned
<1>5. CASE Launch
  <2>1. stopPc = "none" /\ created \in Worker /\ connected' = connected \cup {created}
        /\ UNCHANGED <<created, producer, publishers>>
    BY <1>3, <1>5 DEF Launch
  <2>2. created <= created
    BY <2>1 DEF Worker
  <2>. QED
    BY <1>1, <1>2, <2>1, <2>2 DEF ProducersAreOwned
<1>6. CASE StartReturns \/ ConnectFails
  <2>1. UNCHANGED <<created, producer, connected, publishers>>
    BY <1>6 DEF StartReturns, ConnectFails, listVars
  <2>. QED
    BY <1>1, <1>2, <2>1 DEF ProducersAreOwned
<1>. QED
  BY <1>4, <1>5, <1>6 DEF StartStep

(* stop() disconnects the producer of each, or fails to.                   *)
LEMMA StopReleases ==
  ASSUME ClusterTypeOK, ClusterInv, OwnersAreKnown,
         \/ \E w \in Worker : LoopStep(w) \/ PublishReturns(w)
         \/ Stop \/ StopAgain \/ StopStep \/ ShutdownAdapter
  PROVE  OwnersAreKnown'
<1>. USE DEF ClusterTypeOK
<1>1. UNCHANGED <<shared, startPc, created>>
  BY DEF LoopStep, PollReturns, WriteReturns, Wake, PublishReturns, Stop, StopAgain, StopStep,
         WorkerStopped, ClosePublishers, ClosePublisher, StopReturns, ShutdownAdapter, startVars
<1>2. overlapped => overlapped'
  BY DEF LoopStep, PollReturns, WriteReturns, Wake, PublishReturns, Stop, StopAgain, StopStep,
         WorkerStopped, ClosePublishers, ClosePublisher, StopReturns, ShutdownAdapter, history,
         ClusterInv, StopComesOnce
<1>. SUFFICES ASSUME ~shared', ~overlapped' PROVE ProducersAreOwned'
  BY DEF OwnersAreKnown
<1>3. ~shared /\ ~overlapped /\ ProducersAreOwned
  BY <1>1, <1>2 DEF OwnersAreKnown
<1>4. CASE UNCHANGED <<publishers, producer, connected, stopPc, waiting, stuck>>
  BY <1>1, <1>3, <1>4 DEF ProducersAreOwned
<1>5. CASE Stop \/ \E w \in Worker : WorkerStopped(w)
  <2>1. /\ stopPc \in {"none", "workers"} /\ stopPc' = "workers"
        /\ UNCHANGED <<publishers, producer, connected>>
    BY <1>5 DEF Stop, WorkerStopped, startVars, listVars, ClusterInv, StopComesOnce
  <2>. QED
    BY <1>1, <1>3, <2>1 DEF ProducersAreOwned
<1>6. CASE ClosePublishers
  <2>1. stopPc = "workers" /\ stopPc' = "publishers" /\ waiting' = publishers
        /\ UNCHANGED <<publishers, producer, connected, stuck>>
    BY <1>6 DEF ClosePublishers, startVars, listVars, history
  <2>2. \A c \in connected : c \in publishers /\ producer[c] = c
    BY <1>3, <2>1 DEF ProducersAreOwned
  <2>. QED
    BY <1>1, <1>3, <2>1, <2>2 DEF ProducersAreOwned
<1>7. ASSUME NEW p \in Worker, ClosePublisher(p)
      PROVE  ProducersAreOwned'
  <2>1. stopPc = "publishers" /\ stopPc' = "publishers" /\ p \in waiting /\ waiting' = waiting \ {p}
    BY <1>7 DEF ClosePublisher
  <2>2. \A c \in connected : c <= created /\ (c \in stuck \/ (c \in waiting /\ producer[c] = c))
    BY <1>3, <2>1 DEF ProducersAreOwned
  <2>3. CASE connected' = connected \ {producer[p]} /\ stuck' = stuck
             /\ producer' = [producer EXCEPT ![p] = NoProducer]
    <3>1. \A c \in connected' : c \in stuck' \/ (c \in waiting' /\ producer'[c] = c)
      BY <2>1, <2>2, <2>3
    <3>. QED
      BY <1>1, <2>1, <2>2, <2>3, <3>1 DEF ProducersAreOwned
  <2>4. CASE stuck' = stuck \cup {producer[p]} /\ UNCHANGED <<producer, connected>>
    <3>1. \A c \in connected' : c \in stuck' \/ (c \in waiting' /\ producer'[c] = c)
      BY <2>1, <2>2, <2>4
    <3>. QED
      BY <1>1, <2>1, <2>2, <2>4, <3>1 DEF ProducersAreOwned
  <2>. QED
    BY <1>7, <2>3, <2>4 DEF ClosePublisher
<1>8. CASE StopReturns
  <2>1. stopPc = "publishers" /\ waiting = {} /\ stopPc' = "done" /\ UNCHANGED <<connected, stuck>>
    BY <1>8 DEF StopReturns, startVars, history
  <2>. QED
    BY <1>1, <1>3, <2>1 DEF ProducersAreOwned
<1>9. CASE StopAgain \/ ShutdownAdapter \/ \E w \in Worker : LoopStep(w) \/ PublishReturns(w)
  <2>1. UNCHANGED <<publishers, producer, connected, stopPc, waiting, stuck>>
    BY <1>9 DEF StopAgain, ShutdownAdapter, LoopStep, PollReturns, WriteReturns, Wake, PublishReturns,
       startVars, listVars, stopVars, history
  <2>. QED
    BY <1>4, <2>1
<1>. QED
  BY <1>5, <1>6, <1>7, <1>8, <1>9 DEF StopStep

LEMMA OwnersHold == Spec => []OwnersAreKnown
<1>1. ASSUME OwnersAreKnown, UNCHANGED vars
      PROVE  OwnersAreKnown'
  BY <1>1 DEF OwnersAreKnown, ProducersAreOwned, vars, startVars, listVars, stopVars, history
<1>2. ASSUME ClusterTypeOK, ClusterInv, OwnersAreKnown, [Next]_vars
      PROVE  OwnersAreKnown'
  BY <1>1, <1>2, StartOwns, StopReleases DEF Next
<1>. QED
  BY <1>2, OwnersInit, ClusterInvHolds, PTL DEF Spec

LEMMA TimersStep ==
  ASSUME ClusterInv, TimersAreKnown, [ProcessNext]_<<vars, processVars>>
  PROVE  TimersAreKnown'
<1>1. CASE UNCHANGED <<workers, stopPc, overlapped, gauge>>
  BY <1>1 DEF TimersAreKnown
<1>2. ASSUME UNCHANGED vars
      PROVE  UNCHANGED <<workers, stopPc, overlapped>>
  BY <1>2 DEF vars, listVars, stopVars, history
<1>3. CASE UNCHANGED <<vars, processVars>>
  BY <1>1, <1>2, <1>3 DEF processVars, serviceVars
<1>4. CASE Preload \/ LoadConfig \/ CreateAdapter \/ CreatePublisher \/ StartMetrics
           \/ StartScheduler \/ Signal \/ ServiceSteps
  BY <1>1, <1>2, <1>4 DEF Preload, LoadConfig, CreateAdapter, CreatePublisher, StartMetrics,
     StartScheduler, Signal, Continues, Exits, serviceVars, ServiceSteps, StaleRecovery,
     StaleRecoveryEnds, IdempotencyCleanup, InboxCleanup, CleanupEnds
<1>5. CASE StartRejects
  <2>1. UNCHANGED <<workers, stopPc, overlapped, gauge>>
    BY <1>5 DEF StartRejects, ConnectFails, listVars, stopVars, history, serviceVars
  <2>. QED
    BY <1>1, <2>1
<1>6. CASE LaunchWorkers
  <2>1. startPc = "connecting" /\ workers' = workers \cup {created}
        /\ UNCHANGED <<stopPc, overlapped>> /\ gauge' \subseteq gauge \cup workers'
    BY <1>6 DEF LaunchWorkers, Launch, stopVars, history
  <2>2. ~overlapped => stopPc = "none"
    BY <2>1 DEF ClusterInv, StopComesOnce
  <2>. QED
    BY <2>1, <2>2 DEF TimersAreKnown
<1>7. CASE StopWorkers
  <2>1. stopPc = "none" /\ stopPc' = "workers" /\ gauge' = gauge \ workers
    BY <1>7 DEF StopWorkers, Stop, ClusterInv, StopComesOnce
  <2>. QED
    BY <2>1 DEF TimersAreKnown
<1>8. CASE ClusterStep
  <2>1. gauge' = gauge
    BY <1>8 DEF ClusterStep, processVars, serviceVars
  <2>2. CASE CreateNext
    BY <2>1, <2>2 DEF CreateNext, TimersAreKnown, stopVars, history
  <2>3. CASE \/ StartReturns \/ StopAgain \/ ShutdownAdapter
             \/ \E w \in Worker : LoopStep(w) \/ PublishReturns(w) \/ WorkerStopped(w)
    BY <1>1, <2>1, <2>3 DEF StartReturns, StopAgain, ShutdownAdapter, LoopStep, PollReturns,
       WriteReturns, Wake, PublishReturns, WorkerStopped, listVars, stopVars, history
  <2>4. CASE ClosePublishers \/ StopReturns \/ \E p \in Worker : ClosePublisher(p)
    <3>1. stopPc # "none" /\ stopPc' # "none" /\ overlapped' = overlapped
      BY <2>4 DEF ClosePublishers, StopReturns, ClosePublisher, history
    <3>. QED
      BY <2>1, <3>1 DEF TimersAreKnown
  <2>. QED
    BY <1>8, <2>2, <2>3, <2>4 DEF ClusterStep, StopStep
<1>. QED
  BY <1>3, <1>4, <1>5, <1>6, <1>7, <1>8 DEF ProcessNext, ServiceSteps

(* With any number of workers, each with a publisher of its own, stop()    *)
(* releases what start() has opened: every timer, and every producer whose *)
(* disconnect() did not fail, whatever became of the others.               *)
THEOREM ProcessesReleaseEverything == ProcessSpec => []EverythingIsReleased
<1>1. ProcessInit => TimersAreKnown
  BY DEF ProcessInit, TimersAreKnown, Init
<1>2. Spec => []ClusterInv /\ []OwnersAreKnown
  BY ClusterInvHolds, OwnersHold, PTL
<1>3. ClusterInv /\ TimersAreKnown /\ [ProcessNext]_<<vars, processVars>> => TimersAreKnown'
  BY TimersStep
<1>4. OwnersAreKnown /\ TimersAreKnown => EverythingIsReleased
  BY DEF OwnersAreKnown, ProducersAreOwned, TimersAreKnown, EverythingIsReleased
<1>. QED
  BY <1>1, <1>2, <1>3, <1>4, ProcessesRunClusters, PTL DEF ProcessSpec

================================================================================

---------------------------- MODULE Outbox_proofs ----------------------------
(***************************************************************************)
(* Theorems about OutboxPg and OutboxMySql for every set of events and     *)
(* workers and every value of the bounds.  The statements, the worker's    *)
(* half of each step and most steps are common to both; what MySQL does    *)
(* differently is in the last part.                                        *)
(***************************************************************************)
EXTENDS OutboxPg, TLAPS

(* Effects of the statements on the types of the columns. *)

LEMMA SetType ==
  ASSUME NEW T, NEW col \in [Event -> T], NEW S \in SUBSET Event, NEW v \in T
  PROVE  Set(col, S, v) \in [Event -> T]
  BY DEF Set

LEMMA BumpType ==
  ASSUME NEW col \in [Event -> Nat], NEW S \in SUBSET Event
  PROVE  Bump(col, S) \in [Event -> Nat]
  BY DEF Bump

LEMMA QueueType ==
  ASSUME TableTypeOK, NEW S \in SUBSET Event, Queue(S)
  PROVE  TableTypeOK'
<1>1. "pending" \in Status /\ 0 \in Nat /\ TRUE \in BOOLEAN /\ FALSE \in BOOLEAN
  BY DEF Status
<1>2. status' \in [Event -> Status]
  BY <1>1, SetType DEF TableTypeOK, Queue
<1>3. retryCount' \in [Event -> Nat] /\ claims' \in [Event -> Nat]
  BY <1>1, SetType DEF TableTypeOK, Queue
<1>4. due' \in [Event -> BOOLEAN] /\ aged' \in [Event -> BOOLEAN]
  BY <1>1, SetType, Zenon DEF TableTypeOK, Queue
<1>5. QED
  BY <1>2, <1>3, <1>4 DEF TableTypeOK

LEMMA BackoffType ==
  ASSUME TableTypeOK, NEW S \in SUBSET Event, Backoff(S)
  PROVE  TableTypeOK'
<1>1. "failed" \in Status /\ FALSE \in BOOLEAN
  BY DEF Status
<1>2. status' \in [Event -> Status]
  BY <1>1, SetType DEF TableTypeOK, Backoff
<1>3. retryCount' \in [Event -> Nat] /\ claims' \in [Event -> Nat]
  BY BumpType DEF TableTypeOK, Backoff
<1>4. due' \in [Event -> BOOLEAN] /\ aged' \in [Event -> BOOLEAN]
  BY <1>1, SetType, Zenon DEF TableTypeOK, Backoff
<1>5. QED
  BY <1>2, <1>3, <1>4 DEF TableTypeOK

LEMMA FinishType ==
  ASSUME TableTypeOK, NEW S \in SUBSET Event, NEW final \in Status,
         Finish(S, final)
  PROVE  TableTypeOK'
<1>1. status' \in [Event -> Status]
  BY SetType DEF TableTypeOK, Finish
<1>2. aged' \in [Event -> BOOLEAN]
  BY SetType, Zenon DEF TableTypeOK, Finish
<1>3. QED
  BY <1>1, <1>2 DEF TableTypeOK, Finish

\* what a claim of the rows of S does, whichever way they were chosen
ClaimEffect(S) ==
  /\ \A e \in S : status[e] \in {"pending", "failed"}
  /\ status' = Set(status, S, "processing")
  /\ aged' = Set(aged, S, FALSE)
  /\ claims' = Bump(claims, S)
  /\ UNCHANGED <<retryCount, due>>

LEMMA ClaimRowsClaims ==
  ASSUME NEW S \in SUBSET Event, ClaimRows(S)
  PROVE  ClaimEffect(S)
<1>1. \A e \in S : status[e] \in {"pending", "failed"}
  BY DEF ClaimRows, Oldest, Claimable
<1>2. QED
  BY <1>1 DEF ClaimRows, ClaimEffect

LEMMA ClaimType ==
  ASSUME TableTypeOK, NEW S \in SUBSET Event, ClaimEffect(S)
  PROVE  TableTypeOK'
<1>1. "processing" \in Status /\ FALSE \in BOOLEAN
  BY DEF Status
<1>2. status' \in [Event -> Status]
  BY <1>1, SetType DEF TableTypeOK, ClaimEffect
<1>3. claims' \in [Event -> Nat]
  BY BumpType DEF TableTypeOK, ClaimEffect
<1>4. aged' \in [Event -> BOOLEAN]
  BY <1>1, SetType, Zenon DEF TableTypeOK, ClaimEffect
<1>5. QED
  BY <1>2, <1>3, <1>4 DEF TableTypeOK, ClaimEffect

LEMMA UpdateType ==
  ASSUME TableTypeOK, NEW k \in Decision, NEW S \in SUBSET Event, Update(k, S)
  PROVE  TableTypeOK'
<1>1. CASE markSucceeded(S)
  BY <1>1, FinishType DEF markSucceeded, Status
<1>2. CASE scheduleRetry(S)
  <2>1. {e \in S : retryCount[e] < RowMaxRetries[e]} \in SUBSET Event
    OBVIOUS
  <2>2. QED
    BY <1>2, <2>1, BackoffType DEF scheduleRetry
<1>3. CASE moveToDLQ(S)
  BY <1>3, FinishType DEF moveToDLQ, Status
<1>4. QED
  BY <1>1, <1>2, <1>3 DEF Update

(* The groups of a batch, whatever the results. *)

LEMMA GroupsType ==
  ASSUME NEW B \in SUBSET Event, NEW results \in [B -> Outcome], NEW retries
  PROVE  groupBatchResults(results, retries) \in [Decision -> SUBSET Event]
  BY DEF groupBatchResults

LEMMA AbandonedType ==
  ASSUME WorkerTypeOK, NEW w \in Worker, NEW K \in SUBSET Decision
  PROVE  Abandoned(w, K) \in SUBSET Statement
  BY DEF Abandoned, WorkerTypeOK, Statement

(* The worker's half of each step keeps the types. *)

LEMMA GroupType ==
  ASSUME WorkerTypeOK, NEW w \in Worker, Group(w)
  PROVE  WorkerTypeOK'
<1>1. PICK results \in [batch[w] -> Outcome] :
        pend' = [pend EXCEPT ![w] = groupBatchResults(results, seenRetries[w])]
  BY DEF Group
<1>2. groupBatchResults(results, seenRetries[w]) \in [Decision -> SUBSET Event]
  BY <1>1, GroupsType DEF WorkerTypeOK
<1>3. pend' \in [Worker -> [Decision -> SUBSET Event]]
  BY <1>1, <1>2 DEF WorkerTypeOK
<1>4. QED
  BY <1>3 DEF WorkerTypeOK, Group, Phase, NotSeen

LEMMA FaultType ==
  ASSUME faults \in 0..MaxFaults, Fault
  PROVE  faults' \in 0..MaxFaults
  BY MaxFaultsAssumption DEF Fault

LEMMA SettleType ==
  ASSUME WorkerTypeOK, NEW w \in Worker, NEW k \in Decision, Settle(w, k)
  PROVE  WorkerTypeOK'
  BY DEF WorkerTypeOK, Settle, Phase

LEMMA RejectType ==
  ASSUME WorkerTypeOK, NEW w \in Worker, NEW k \in Decision, Reject(w, k)
  PROVE  WorkerTypeOK'
<1>1. Abandoned(w, Decision \ {k}) \in SUBSET Statement
  BY AbandonedType
<1>2. faults' \in 0..MaxFaults
  BY FaultType DEF Reject, WorkerTypeOK
<1>3. NoEvents \in [Decision -> SUBSET Event]
  BY DEF NoEvents
<1>4. QED
  BY <1>1, <1>2, <1>3 DEF WorkerTypeOK, Reject, Phase

LEMMA CrashType ==
  ASSUME WorkerTypeOK, NEW w \in Worker, Crash(w)
  PROVE  WorkerTypeOK'
<1>1. Abandoned(w, Decision) \in SUBSET Statement
  BY AbandonedType
<1>2. faults' \in 0..MaxFaults
  BY FaultType DEF Crash, WorkerTypeOK
<1>3. NoEvents \in [Decision -> SUBSET Event]
  BY DEF NoEvents
<1>4. QED
  BY <1>1, <1>2, <1>3 DEF WorkerTypeOK, Crash, Phase, NotSeen

LEMMA ReceiveType ==
  ASSUME WorkerTypeOK, TableTypeOK, NEW w \in Worker, NEW S \in SUBSET Event,
         Receive(w, S, retryCount)
  PROVE  WorkerTypeOK'
<1>1. [e \in Event |-> IF e \in S THEN retryCount[e] ELSE 0] \in [Event -> Nat]
  BY DEF TableTypeOK
<1>2. QED
  BY <1>1 DEF WorkerTypeOK, Receive, Phase

LEMMA AcceptType ==
  ASSUME WorkerTypeOK, NEW w \in Worker, NEW e \in Event, Accept(w, e)
  PROVE  WorkerTypeOK'
  BY DEF WorkerTypeOK, Accept

LEMMA StartType ==
  ASSUME WorkerTypeOK, NEW w \in Worker, Start(w)
  PROVE  WorkerTypeOK'
  BY DEF WorkerTypeOK, Start, Phase

LEMMA RetireType ==
  ASSUME WorkerTypeOK, NEW s \in late, Retire(s)
  PROVE  WorkerTypeOK'
  BY DEF WorkerTypeOK, Retire

LEMMA MissReceiptType ==
  ASSUME WorkerTypeOK, NEW w \in Worker, MissReceipt(w)
  PROVE  WorkerTypeOK'
  BY FaultType DEF WorkerTypeOK, MissReceipt

LEMMA ClockType ==
  ASSUME TableTypeOK, NEW e \in Event, BecomeDue(e) \/ GrowOld(e)
  PROVE  TableTypeOK'
<1>1. CASE BecomeDue(e)
  BY <1>1, Zenon DEF TableTypeOK, BecomeDue
<1>2. CASE GrowOld(e)
  BY <1>2, Zenon DEF TableTypeOK, GrowOld
<1>3. QED
  BY <1>1, <1>2

LEMMA TableStutter ==
  ASSUME TableTypeOK, UNCHANGED tableVars
  PROVE  TableTypeOK'
  BY DEF TableTypeOK, tableVars

LEMMA WorkerStutter ==
  ASSUME WorkerTypeOK, UNCHANGED workerVars
  PROVE  WorkerTypeOK'
  BY DEF WorkerTypeOK, workerVars

LEMMA TypeInit ==
  ASSUME OutboxInit
  PROVE  TypeOK
<1>1. TableTypeOK
  BY DEF OutboxInit, TableInit, TableTypeOK, Status
<1>2. WorkerTypeOK
  BY MaxFaultsAssumption
     DEF OutboxInit, WorkerInit, WorkerTypeOK, Phase, NoEvents, NotSeen
<1>3. QED
  BY <1>1, <1>2, OutboxAssumption DEF OutboxInit, TypeOK

\* Each column, program counter and statement keeps its type through every
\* step of workers, scheduler, clock and operator.
LEMMA TypeStep ==
  ASSUME TypeOK, [Next]_vars
  PROVE  TypeOK'
<1> USE DEF TypeOK
<1>1. ASSUME NEW w \in Worker, ClaimPendingEvents(w) PROVE TypeOK'
  <2>1. PICK S \in SUBSET Event : ClaimRows(S) /\ Receive(w, S, retryCount)
    BY <1>1 DEF ClaimPendingEvents
  <2>2. TableTypeOK' /\ WorkerTypeOK'
    BY <2>1, ClaimRowsClaims, ClaimType, ReceiveType
  <2>3. QED
    BY <1>1, <2>2 DEF ClaimPendingEvents, adminVars
<1>2. ASSUME NEW w \in Worker, ClaimAnswerLost(w) PROVE TypeOK'
  <2>1. PICK S \in SUBSET Event : ClaimRows(S)
    BY <1>2 DEF ClaimAnswerLost
  <2>2. TableTypeOK' /\ WorkerTypeOK'
    BY <1>2, <2>1, ClaimRowsClaims, ClaimType, MissReceiptType DEF ClaimAnswerLost
  <2>3. QED
    BY <1>2, <2>2 DEF ClaimAnswerLost, adminVars
<1>3. ASSUME NEW w \in Worker, NEW e \in Event, Deliver(w, e) PROVE TypeOK'
  BY <1>3, AcceptType, TableStutter DEF Deliver, adminVars
<1>4. ASSUME NEW w \in Worker, PublishEnds(w) PROVE TypeOK'
  BY <1>4, GroupType, TableStutter DEF PublishEnds, adminVars
<1>5. ASSUME NEW w \in Worker, NEW k \in Decision, UpdateLands(w, k)
      PROVE  TypeOK'
  <2>1. pend[w][k] \in SUBSET Event
    BY DEF WorkerTypeOK
  <2>2. QED
    BY <1>5, <2>1, SettleType, UpdateType DEF UpdateLands, adminVars
<1>6. ASSUME NEW w \in Worker, NEW k \in Decision, UpdateRejects(w, k)
      PROVE  TypeOK'
  <2>1. pend[w][k] \in SUBSET Event
    BY DEF WorkerTypeOK
  <2>2. QED
    BY <1>6, <2>1, RejectType, UpdateType, TableStutter
       DEF UpdateRejects, adminVars
<1>7. ASSUME NEW w \in Worker, ProcessDies(w) PROVE TypeOK'
  BY <1>7, CrashType, TableStutter DEF ProcessDies, adminVars
<1>8. ASSUME NEW w \in Worker, ProcessStarts(w) PROVE TypeOK'
  BY <1>8, StartType, TableStutter DEF ProcessStarts, adminVars
<1>9. ASSUME NEW e \in Event, CreateEvent(e) PROVE TypeOK'
  BY <1>9, QueueType, WorkerStutter DEF CreateEvent, adminVars
<1>10. ASSUME NEW e \in Event, Clock(e) PROVE TypeOK'
  BY <1>10, ClockType, WorkerStutter DEF Clock, adminVars
<1>11. ASSUME NEW e \in Event, ReplayEvent(e) PROVE TypeOK'
  BY <1>11, QueueType, WorkerStutter, OutboxAssumption
     DEF ReplayEvent, Replay
<1>12. ASSUME NEW s \in late, LateUpdate(s) PROVE TypeOK'
  <2>1. s.kind \in Decision /\ s.evs \in SUBSET Event
    BY DEF WorkerTypeOK, Statement
  <2>2. QED
    BY <1>12, <2>1, RetireType, UpdateType, TableStutter
       DEF LateUpdate, adminVars
<1>13. ASSUME RecoverStaleEvents PROVE TypeOK'
  <2>1. {e \in Event : Stale(e)} \in SUBSET Event
    OBVIOUS
  <2>2. QED
    BY <1>13, <2>1, BackoffType, WorkerStutter
       DEF RecoverStaleEvents, adminVars
<1>14. ASSUME ReplaySelect PROVE TypeOK'
  <2>1. selected' \in SUBSET Event
    BY <1>14 DEF ReplaySelect, Selectable
  <2>2. QED
    BY <1>14, <2>1, TableStutter, WorkerStutter, OutboxAssumption
       DEF ReplaySelect, Replay
<1>15. ASSUME ReplayUpdate PROVE TypeOK'
  BY <1>15, QueueType, WorkerStutter DEF ReplayUpdate
<1>16. CASE UNCHANGED vars
  BY <1>16, TableStutter, WorkerStutter DEF vars, adminVars
<1>17. QED
  BY <1>1, <1>2, <1>3, <1>4, <1>5, <1>6, <1>7, <1>8, <1>9, <1>10, <1>11,
     <1>12, <1>13, <1>14, <1>15, <1>16
     DEF Next, WorkerStep, EventStep

\* Each variable of the model of PostgreSQL keeps its type.
THEOREM TypeCorrect == Spec => []TypeOK
<1>. QED
  BY TypeInit, TypeStep, PTL DEF Spec

-----------------------------------------------------------------------------
(* Nothing undelivered is called succeeded.  The claim has to be carried     *)
(* through the results of a publish, the UPDATEs a worker awaits, and those  *)
(* that are late.                                                            *)

PromisedInv ==
  /\ \A w \in Worker : sent[w] \subseteq accepted
  /\ \A w \in Worker : pend[w]["succeeded"] \subseteq accepted
  /\ \A s \in late : s.kind = "succeeded" => s.evs \subseteq accepted

AcceptedInv == SucceededWasAccepted /\ PromisedInv

LEMMA UpdateSucceeds ==
  ASSUME TableTypeOK, NEW k \in Decision, NEW S \in SUBSET Event, Update(k, S),
         NEW e \in Event, status'[e] = "succeeded", status[e] # "succeeded"
  PROVE  k = "succeeded" /\ e \in S
  BY DEF Update, markSucceeded, scheduleRetry, moveToDLQ, Finish, Backoff, Set

LEMMA SucceededGroup ==
  ASSUME NEW B \in SUBSET Event, NEW results \in [B -> Outcome], NEW retries
  PROVE  \A e \in groupBatchResults(results, retries)["succeeded"] :
           e \in B /\ results[e] = "success"
  BY DEF groupBatchResults, decideRetry, Decision, Outcome

LEMMA GroupPromises ==
  ASSUME WorkerTypeOK, PromisedInv, NEW w \in Worker, Group(w)
  PROVE  PromisedInv'
<1>1. PICK results \in [batch[w] -> Outcome] :
        /\ \A e \in batch[w] : results[e] = "success" => e \in sent[w]
        /\ pend' = [pend EXCEPT ![w] = groupBatchResults(results, seenRetries[w])]
  BY DEF Group
<1>2. batch[w] \in SUBSET Event
  BY DEF WorkerTypeOK
<1>3. groupBatchResults(results, seenRetries[w])["succeeded"] \subseteq accepted
  BY <1>1, <1>2, SucceededGroup DEF PromisedInv
<1>4. \A v \in Worker : pend'[v]["succeeded"] \subseteq accepted
  BY <1>1, <1>3 DEF PromisedInv, WorkerTypeOK
<1>5. \A v \in Worker : sent'[v] \subseteq accepted
  BY DEF Group, PromisedInv, WorkerTypeOK
<1>6. QED
  BY <1>4, <1>5 DEF PromisedInv, Group

LEMMA AbandonedPromises ==
  ASSUME PromisedInv, NEW w \in Worker, NEW K \in SUBSET Decision
  PROVE  \A s \in Abandoned(w, K) : s.kind = "succeeded" => s.evs \subseteq accepted
  BY DEF Abandoned, PromisedInv

LEMMA AcceptedInit ==
  ASSUME OutboxInit
  PROVE  AcceptedInv
  BY DEF OutboxInit, TableInit, WorkerInit, AcceptedInv, PromisedInv,
         SucceededWasAccepted, NoEvents, Decision

\* What is called succeeded, or is about to be by an UPDATE on its way, has been
\* taken.
LEMMA AcceptedStep ==
  ASSUME TypeOK, AcceptedInv, [Next]_vars
  PROVE  AcceptedInv'
<1> USE DEF TypeOK
<1>a. PromisedInv /\ SucceededWasAccepted
  BY DEF AcceptedInv
<1>b. SUFFICES PromisedInv' /\ SucceededWasAccepted'
  BY DEF AcceptedInv
<1>c. UNCHANGED workerVars => PromisedInv'
  BY <1>a DEF PromisedInv, workerVars
<1>d. UNCHANGED tableVars /\ accepted \subseteq accepted' => SucceededWasAccepted'
  BY <1>a DEF SucceededWasAccepted, tableVars
<1>1. ASSUME NEW w \in Worker, ClaimPendingEvents(w)
      PROVE  PromisedInv' /\ SucceededWasAccepted'
  <2>1. PICK S \in SUBSET Event : ClaimRows(S) /\ Receive(w, S, retryCount)
    BY <1>1 DEF ClaimPendingEvents
  <2>2. QED
    BY <1>a, <2>1 DEF PromisedInv, SucceededWasAccepted, ClaimRows, Receive, Set
<1>2. ASSUME NEW w \in Worker, ClaimAnswerLost(w)
      PROVE  PromisedInv' /\ SucceededWasAccepted'
  <2>1. PICK S \in SUBSET Event : ClaimRows(S)
    BY <1>2 DEF ClaimAnswerLost
  <2>2. QED
    BY <1>2, <1>a, <2>1
       DEF PromisedInv, SucceededWasAccepted, ClaimRows, ClaimAnswerLost,
           MissReceipt, Set
<1>3. ASSUME NEW w \in Worker, NEW e \in Event, Deliver(w, e)
      PROVE  PromisedInv' /\ SucceededWasAccepted'
  <2>1. PromisedInv'
    BY <1>3, <1>a DEF PromisedInv, Deliver, Accept, WorkerTypeOK
  <2>2. QED
    BY <1>3, <1>d, <2>1 DEF Deliver, Accept
<1>4. ASSUME NEW w \in Worker, PublishEnds(w)
      PROVE  PromisedInv' /\ SucceededWasAccepted'
  BY <1>4, <1>a, <1>d, GroupPromises DEF PublishEnds, Group
<1>5. ASSUME NEW w \in Worker, NEW k \in Decision, UpdateLands(w, k)
      PROVE  PromisedInv' /\ SucceededWasAccepted'
  <2>1. PromisedInv'
    BY <1>5, <1>a DEF PromisedInv, UpdateLands, Settle, WorkerTypeOK
  <2>2. pend[w][k] \in SUBSET Event
    BY DEF WorkerTypeOK
  <2>3. SucceededWasAccepted'
    BY <1>5, <1>a, <2>2, UpdateSucceeds
       DEF SucceededWasAccepted, PromisedInv, UpdateLands, Settle
  <2>4. QED
    BY <2>1, <2>3
<1>6. ASSUME NEW w \in Worker, NEW k \in Decision, UpdateRejects(w, k)
      PROVE  PromisedInv' /\ SucceededWasAccepted'
  <2>1. PromisedInv'
    BY <1>6, <1>a, AbandonedPromises
       DEF PromisedInv, UpdateRejects, Reject, WorkerTypeOK, NoEvents, Decision
  <2>2. pend[w][k] \in SUBSET Event
    BY DEF WorkerTypeOK
  <2>3. CASE Update(k, pend[w][k])
    BY <1>6, <1>a, <2>1, <2>2, <2>3, UpdateSucceeds
       DEF SucceededWasAccepted, PromisedInv, UpdateRejects, Reject
  <2>4. CASE UNCHANGED tableVars
    BY <1>6, <1>d, <2>1, <2>4 DEF UpdateRejects, Reject
  <2>5. QED
    BY <1>6, <2>3, <2>4 DEF UpdateRejects
<1>7. ASSUME NEW w \in Worker, ProcessDies(w)
      PROVE  PromisedInv' /\ SucceededWasAccepted'
  <2>1. PromisedInv'
    BY <1>7, <1>a, AbandonedPromises
       DEF PromisedInv, ProcessDies, Crash, WorkerTypeOK, NoEvents, Decision
  <2>2. QED
    BY <1>7, <1>d, <2>1 DEF ProcessDies, Crash
<1>8. ASSUME NEW w \in Worker, ProcessStarts(w)
      PROVE  PromisedInv' /\ SucceededWasAccepted'
  BY <1>8, <1>a, <1>d DEF PromisedInv, ProcessStarts, Start
<1>9. ASSUME NEW e \in Event, CreateEvent(e)
      PROVE  PromisedInv' /\ SucceededWasAccepted'
  BY <1>9, <1>a, <1>c DEF CreateEvent, Queue, Set, SucceededWasAccepted, workerVars
<1>10. ASSUME NEW e \in Event, Clock(e)
       PROVE  PromisedInv' /\ SucceededWasAccepted'
  BY <1>10, <1>a, <1>c
     DEF Clock, BecomeDue, GrowOld, SucceededWasAccepted, workerVars
<1>11. ASSUME NEW e \in Event, ReplayEvent(e)
       PROVE  PromisedInv' /\ SucceededWasAccepted'
  BY <1>11, <1>a, <1>c DEF ReplayEvent, Queue, Set, SucceededWasAccepted, workerVars
<1>12. ASSUME NEW s \in late, LateUpdate(s)
       PROVE  PromisedInv' /\ SucceededWasAccepted'
  <2>1. PromisedInv'
    BY <1>12, <1>a DEF PromisedInv, LateUpdate, Retire
  <2>2. s.kind \in Decision /\ s.evs \in SUBSET Event
    BY DEF WorkerTypeOK, Statement
  <2>3. CASE Update(s.kind, s.evs)
    BY <1>12, <1>a, <2>1, <2>2, <2>3, UpdateSucceeds
       DEF SucceededWasAccepted, PromisedInv, LateUpdate, Retire
  <2>4. CASE UNCHANGED tableVars
    BY <1>12, <1>d, <2>1, <2>4 DEF LateUpdate, Retire
  <2>5. QED
    BY <1>12, <2>3, <2>4 DEF LateUpdate
<1>13. ASSUME RecoverStaleEvents
       PROVE  PromisedInv' /\ SucceededWasAccepted'
  BY <1>13, <1>a, <1>c
     DEF RecoverStaleEvents, Backoff, Set, SucceededWasAccepted, workerVars
<1>14. ASSUME ReplaySelect
       PROVE  PromisedInv' /\ SucceededWasAccepted'
  BY <1>14, <1>c, <1>d DEF ReplaySelect, workerVars
<1>15. ASSUME ReplayUpdate
       PROVE  PromisedInv' /\ SucceededWasAccepted'
  BY <1>15, <1>a, <1>c
     DEF ReplayUpdate, Queue, Set, SucceededWasAccepted, workerVars
<1>16. CASE UNCHANGED vars
  BY <1>16, <1>c, <1>d DEF vars, workerVars
<1>17. QED
  BY <1>1, <1>2, <1>3, <1>4, <1>5, <1>6, <1>7, <1>8, <1>9, <1>10, <1>11,
     <1>12, <1>13, <1>14, <1>15, <1>16
     DEF Next, WorkerStep, EventStep

\* AcceptedInv is an invariant of the model of PostgreSQL.
THEOREM AcceptedInvariant == Spec => []AcceptedInv
<1>. QED
  BY AcceptedInit, AcceptedStep, TypeCorrect, PTL DEF Spec

\* An event the table calls "succeeded" has been taken by its destination, at
\* whatever speed the workers run and whatever fails.
THEOREM NothingSucceedsUndelivered == Spec => []SucceededWasAccepted
<1>1. AcceptedInv => SucceededWasAccepted
  BY DEF AcceptedInv
<1>2. QED
  BY <1>1, AcceptedInvariant, PTL

-----------------------------------------------------------------------------
(* No row exceeds its retry budget: every statement that counts a retry      *)
(* tests the row it counts it on.                                            *)

LEMMA BackoffWithinBudget ==
  ASSUME TableTypeOK, RetryBudget, NEW S \in SUBSET Event, Backoff(S),
         \A e \in S : retryCount[e] < RowMaxRetries[e]
  PROVE  RetryBudget'
  BY RowMaxRetriesAssumption DEF TableTypeOK, RetryBudget, Backoff, Bump

LEMMA QueueWithinBudget ==
  ASSUME TableTypeOK, RetryBudget, NEW S \in SUBSET Event, Queue(S)
  PROVE  RetryBudget'
  BY RowMaxRetriesAssumption DEF TableTypeOK, RetryBudget, Queue, Set

LEMMA UpdateWithinBudget ==
  ASSUME TableTypeOK, RetryBudget, NEW k \in Decision, NEW S \in SUBSET Event,
         Update(k, S)
  PROVE  RetryBudget'
<1>1. CASE scheduleRetry(S)
  <2> DEFINE hit == {e \in S : retryCount[e] < RowMaxRetries[e]}
  <2>1. Backoff(hit)
    BY <1>1 DEF scheduleRetry
  <2>2. hit \in SUBSET Event /\ \A e \in hit : retryCount[e] < RowMaxRetries[e]
    OBVIOUS
  <2>3. QED
    BY <2>1, <2>2, BackoffWithinBudget
<1>2. CASE markSucceeded(S) \/ moveToDLQ(S)
  BY <1>2 DEF markSucceeded, moveToDLQ, Finish, RetryBudget
<1>3. QED
  BY <1>1, <1>2 DEF Update

LEMMA BudgetInit ==
  ASSUME OutboxInit
  PROVE  RetryBudget
  BY RowMaxRetriesAssumption DEF OutboxInit, TableInit, RetryBudget

LEMMA BudgetStep ==
  ASSUME TypeOK, RetryBudget, [Next]_vars
  PROVE  RetryBudget'
<1> USE DEF TypeOK
<1>a. UNCHANGED retryCount => RetryBudget'
  BY DEF RetryBudget
<1>1. ASSUME NEW w \in Worker, ClaimPendingEvents(w) \/ ClaimAnswerLost(w)
      PROVE  RetryBudget'
  BY <1>1, <1>a DEF ClaimPendingEvents, ClaimAnswerLost, ClaimRows
<1>2. ASSUME NEW w \in Worker, NEW e \in Event, Deliver(w, e)
      PROVE  RetryBudget'
  BY <1>2, <1>a DEF Deliver, tableVars
<1>3. ASSUME NEW w \in Worker, PublishEnds(w) \/ ProcessDies(w) \/ ProcessStarts(w)
      PROVE  RetryBudget'
  BY <1>3, <1>a DEF PublishEnds, ProcessDies, ProcessStarts, tableVars
<1>4. ASSUME NEW w \in Worker, NEW k \in Decision,
             UpdateLands(w, k) \/ UpdateRejects(w, k)
      PROVE  RetryBudget'
  <2>1. pend[w][k] \in SUBSET Event
    BY DEF WorkerTypeOK
  <2>2. UNCHANGED tableVars \/ Update(k, pend[w][k])
    BY <1>4 DEF UpdateLands, UpdateRejects
  <2>3. QED
    BY <1>a, <2>1, <2>2, UpdateWithinBudget DEF tableVars
<1>5. ASSUME NEW e \in Event, CreateEvent(e) \/ ReplayEvent(e)
      PROVE  RetryBudget'
  BY <1>5, QueueWithinBudget DEF CreateEvent, ReplayEvent
<1>6. ASSUME NEW e \in Event, Clock(e) PROVE RetryBudget'
  BY <1>6, <1>a DEF Clock, BecomeDue, GrowOld
<1>7. ASSUME NEW s \in late, LateUpdate(s) PROVE RetryBudget'
  <2>1. s.kind \in Decision /\ s.evs \in SUBSET Event
    BY DEF WorkerTypeOK, Statement
  <2>2. QED
    BY <1>7, <1>a, <2>1, UpdateWithinBudget DEF LateUpdate, tableVars
<1>8. ASSUME RecoverStaleEvents PROVE RetryBudget'
  <2> DEFINE stale == {e \in Event : Stale(e)}
  <2>1. Backoff(stale)
    BY <1>8 DEF RecoverStaleEvents
  <2>2. stale \in SUBSET Event /\ \A e \in stale : retryCount[e] < RowMaxRetries[e]
    BY DEF Stale
  <2>3. QED
    BY <2>1, <2>2, BackoffWithinBudget
<1>9. ASSUME ReplaySelect PROVE RetryBudget'
  BY <1>9, <1>a DEF ReplaySelect, tableVars
<1>10. ASSUME ReplayUpdate PROVE RetryBudget'
  BY <1>10, QueueWithinBudget DEF ReplayUpdate
<1>11. CASE UNCHANGED vars
  BY <1>11, <1>a DEF vars, tableVars
<1>12. QED
  BY <1>1, <1>2, <1>3, <1>4, <1>5, <1>6, <1>7, <1>8, <1>9, <1>10, <1>11
     DEF Next, WorkerStep, EventStep

\* Retries and recoveries together never exceed the max_retries of a row.
THEOREM RetriesWithinBudget == Spec => []RetryBudget
<1>. QED
  BY BudgetInit, BudgetStep, TypeCorrect, PTL DEF Spec

-----------------------------------------------------------------------------
(***************************************************************************)
(* Claims on PostgreSQL are exclusive, for every set of events and workers *)
(* and every value of the bounds, if holders are prompt and no claim comes *)
(* between the halves of a range replay.  The argument: an event in use is *)
(* "processing" and its claim is young, so no claim, recovery or replay    *)
(* can reach it, and each UPDATE that takes it out of "processing" is the  *)
(* end of its use.                                                         *)
(***************************************************************************)

\* who has what: worker variables only
Ownership ==
  /\ \A w \in Worker : phase[w] \notin {"reading", "publishing"} => batch[w] = {}
  /\ \A w \in Worker : phase[w] # "writing" => \A k \in Decision : pend[w][k] = {}
  /\ \A w \in Worker : \A j, k \in Decision : \A e \in Event :
       e \in pend[w][j] /\ e \in pend[w][k] => j = k
  /\ ClaimIsExclusive

\* what the table says of events in use
InUseIsFresh ==
  \A e \in Event : InUse(e) => status[e] = "processing" /\ ~aged[e]

\* a row that a range replay has selected is nobody's claim until its UPDATE
SelectedIsQuiet ==
  \A e \in selected : status[e] \in {"pending", "failed", "dlq"}

ClaimInv ==
  /\ SelectedIsQuiet
  /\ Ownership
  /\ InUseIsFresh
  /\ DecidesOnCurrentCount
  /\ EveryClaimIsCounted

-----------------------------------------------------------------------------
(* The worker's half of each step: who has what afterwards. *)

LEMMA ClaimOwns ==
  ASSUME WorkerTypeOK, Ownership, NEW w \in Worker, NEW S \in SUBSET Event,
         phase[w] = "polling", \A e \in S : ~InUse(e),
         NEW p \in {"reading", "publishing"}, phase' = [phase EXCEPT ![w] = p],
         batch' = [batch EXCEPT ![w] = S], UNCHANGED <<pend, late>>
  PROVE  /\ Ownership'
         /\ \A e \in Event : InUse(e)' => InUse(e) \/ e \in S
<1>1. \A v \in Worker : batch'[v] = IF v = w THEN S ELSE batch[v]
  BY DEF WorkerTypeOK
<1>2. \A v \in Worker : phase'[v] = IF v = w THEN p ELSE phase[v]
  BY DEF WorkerTypeOK
<1>3. pend' = pend /\ late' = late
  OBVIOUS
<1>4. \A v \in Worker, e \in Event :
        Holds(v, e)' <=> Holds(v, e) \/ (v = w /\ e \in S)
  BY <1>1, <1>3 DEF Holds, Ownership
<1>5. \A e \in Event : InUse(e)' => InUse(e) \/ e \in S
  BY <1>3, <1>4 DEF InUse
<1>6. ClaimIsExclusive'
  BY <1>3, <1>4 DEF Ownership, ClaimIsExclusive, InUse
<1>7. QED
  BY <1>1, <1>2, <1>3, <1>5, <1>6 DEF Ownership

LEMMA GroupsDisjoint ==
  ASSUME NEW B \in SUBSET Event, NEW results \in [B -> Outcome], NEW retries
  PROVE  \A j, k \in Decision : \A e \in Event :
           LET groups == groupBatchResults(results, retries) IN
             /\ e \in groups[j] /\ e \in groups[k] => j = k
             /\ e \in groups[j] => e \in B
  BY DEF groupBatchResults

LEMMA GroupOwns ==
  ASSUME WorkerTypeOK, Ownership, NEW w \in Worker, Group(w)
  PROVE  /\ Ownership'
         /\ \A e \in Event : InUse(e)' => InUse(e)
<1>1. PICK results \in [batch[w] -> Outcome] :
        pend' = [pend EXCEPT ![w] = groupBatchResults(results, seenRetries[w])]
  BY DEF Group
<1> DEFINE groups == groupBatchResults(results, seenRetries[w])
<1>2. batch[w] \in SUBSET Event
  BY DEF WorkerTypeOK
<1>3. \A j, k \in Decision : \A e \in Event :
        /\ e \in groups[j] /\ e \in groups[k] => j = k
        /\ e \in groups[j] => e \in batch[w]
  BY <1>1, <1>2, GroupsDisjoint
<1>4. \A v \in Worker : /\ pend'[v] = IF v = w THEN groups ELSE pend[v]
                        /\ batch'[v] = IF v = w THEN {} ELSE batch[v]
                        /\ phase'[v] = IF v = w THEN "writing" ELSE phase[v]
  BY <1>1 DEF Group, WorkerTypeOK
<1> HIDE DEF groups
<1>5. late' = late /\ phase[w] = "publishing"
  BY DEF Group
<1>6. \A v \in Worker, e \in Event : Holds(v, e)' => Holds(v, e)
  BY <1>3, <1>4 DEF Holds
<1>7. \A e \in Event : InUse(e)' => InUse(e)
  BY <1>5, <1>6 DEF InUse
<1>8. ClaimIsExclusive'
  BY <1>5, <1>6 DEF Ownership, ClaimIsExclusive
<1>9. QED
  BY <1>3, <1>4, <1>5, <1>7, <1>8 DEF Ownership

LEMMA SettleOwns ==
  ASSUME WorkerTypeOK, Ownership, NEW w \in Worker, NEW k \in Decision,
         Settle(w, k)
  PROVE  /\ Ownership'
         /\ \A e \in Event : InUse(e)' => InUse(e) /\ e \notin pend[w][k]
<1>1. \A v \in Worker, j \in Decision :
        pend'[v][j] = IF v = w /\ j = k THEN {} ELSE pend[v][j]
  BY DEF Settle, WorkerTypeOK
<1>2. /\ batch' = batch /\ late' = late /\ phase[w] = "writing"
      /\ \A v \in Worker : v # w => phase'[v] = phase[v]
      /\ phase'[w] # "writing" => \A j \in Decision \ {k} : pend[w][j] = {}
      /\ phase'[w] # "publishing"
  BY DEF Settle, WorkerTypeOK
<1>3. batch[w] = {}
  BY <1>2 DEF Ownership
<1>4. \A v \in Worker, e \in Event :
        Holds(v, e)' => Holds(v, e) /\ (v = w => e \notin pend[w][k])
  BY <1>1, <1>2, <1>3 DEF Holds, Ownership
<1>5. \A e \in Event : e \in pend[w][k] => Holds(w, e)
  BY DEF Holds
<1>6. \A e \in Event : InUse(e)' => InUse(e) /\ e \notin pend[w][k]
  BY <1>2, <1>4, <1>5 DEF InUse, Ownership, ClaimIsExclusive
<1>7. ClaimIsExclusive'
  BY <1>2, <1>4 DEF Ownership, ClaimIsExclusive
<1>8. QED
  BY <1>1, <1>2, <1>6, <1>7 DEF Ownership

\* What Reject and Crash have in common: the UPDATEs of K become late, and the
\* worker keeps nothing.
LEMMA AbandonOwns ==
  ASSUME WorkerTypeOK, Ownership, NEW w \in Worker, NEW K \in SUBSET Decision,
         late' = late \cup Abandoned(w, K),
         pend' = [pend EXCEPT ![w] = NoEvents],
         batch' = [batch EXCEPT ![w] = {}],
         NEW p \in {"polling", "down"}, phase' = [phase EXCEPT ![w] = p]
  PROVE  /\ Ownership'
         /\ \A e \in Event : InUse(e)' =>
              InUse(e) /\ \A k \in Decision \ K : e \notin pend[w][k]
<1>1. \A v \in Worker : /\ \A j \in Decision :
                             pend'[v][j] = IF v = w THEN {} ELSE pend[v][j]
                        /\ batch'[v] = IF v = w THEN {} ELSE batch[v]
                        /\ phase'[v] = IF v = w THEN p ELSE phase[v]
  BY DEF WorkerTypeOK, NoEvents
<1>2. \A s \in Abandoned(w, K) : \E j \in K :
        s = [by |-> w, kind |-> j, evs |-> pend[w][j]]
  BY DEF Abandoned
<1>3. \A s \in Abandoned(w, K) : \A e \in s.evs : Holds(w, e)
  BY <1>2 DEF Holds
<1>4. \A v \in Worker, e \in Event : Holds(v, e)' => v # w /\ Holds(v, e)
  BY <1>1 DEF Holds
<1>5. \A s, t \in Abandoned(w, K) : \A e \in Event :
        e \in s.evs /\ e \in t.evs => s = t
  BY <1>2 DEF Ownership
<1>6. ClaimIsExclusive'
  <2> SUFFICES ASSUME NEW e \in Event
               PROVE  /\ \A v, u \in Worker : Holds(v, e)' /\ Holds(u, e)' => v = u
                      /\ \A s \in late' : e \in s.evs =>
                           /\ \A v \in Worker : ~Holds(v, e)'
                           /\ \A t \in late' : e \in t.evs => s = t
    BY DEF ClaimIsExclusive
  <2>1. \A v, u \in Worker : Holds(v, e)' /\ Holds(u, e)' => v = u
    BY <1>4 DEF Ownership, ClaimIsExclusive
  <2>2. ASSUME NEW s \in late', e \in s.evs, NEW v \in Worker PROVE ~Holds(v, e)'
    BY <2>2, <1>3, <1>4 DEF Ownership, ClaimIsExclusive
  <2>3. ASSUME NEW s \in late', NEW t \in late', e \in s.evs, e \in t.evs
        PROVE  s = t
    BY <2>3, <1>3, <1>5 DEF Ownership, ClaimIsExclusive
  <2>4. QED
    BY <2>1, <2>2, <2>3
<1>7. ASSUME NEW e \in Event, InUse(e)'
      PROVE  InUse(e) /\ \A k \in Decision \ K : e \notin pend[w][k]
  <2>1. CASE \E v \in Worker : Holds(v, e)'
    <3>1. PICK v \in Worker : v # w /\ Holds(v, e)
      BY <2>1, <1>4
    <3>2. ~Holds(w, e)
      BY <3>1 DEF Ownership, ClaimIsExclusive
    <3>3. QED
      BY <3>1, <3>2 DEF InUse, Holds
  <2>2. CASE \E s \in late : e \in s.evs
    <3>1. ~Holds(w, e)
      BY <2>2 DEF Ownership, ClaimIsExclusive
    <3>2. QED
      BY <2>2, <3>1 DEF InUse, Holds
  <2>3. CASE \E s \in Abandoned(w, K) : e \in s.evs
    <3>1. PICK j \in K : e \in pend[w][j]
      BY <2>3, <1>2
    <3>2. QED
      BY <3>1 DEF InUse, Holds, Ownership
  <2>4. QED
    BY <1>7, <2>1, <2>2, <2>3 DEF InUse
<1>8. QED
  BY <1>1, <1>6, <1>7 DEF Ownership

LEMMA RetireOwns ==
  ASSUME WorkerTypeOK, Ownership, NEW s \in late, Retire(s)
  PROVE  /\ Ownership'
         /\ \A e \in Event : InUse(e)' => InUse(e) /\ e \notin s.evs
<1>1. pend' = pend /\ batch' = batch /\ phase' = phase /\ late' = late \ {s}
  BY DEF Retire
<1>2. \A v \in Worker, e \in Event : Holds(v, e)' <=> Holds(v, e)
  BY <1>1 DEF Holds
<1>3. \A e \in Event : InUse(e)' => InUse(e) /\ e \notin s.evs
  BY <1>1, <1>2 DEF InUse, Ownership, ClaimIsExclusive
<1>4. ClaimIsExclusive'
  BY <1>1, <1>2 DEF Ownership, ClaimIsExclusive
<1>5. QED
  BY <1>1, <1>3, <1>4 DEF Ownership

LEMMA IdleOwns ==
  ASSUME Ownership, UNCHANGED <<batch, pend, late>>,
         UNCHANGED phase \/
           \E w \in Worker : phase[w] = "down" /\ phase' = [phase EXCEPT ![w] = "polling"],
         WorkerTypeOK
  PROVE  /\ Ownership'
         /\ \A e \in Event : InUse(e)' <=> InUse(e)
<1>1. \A v \in Worker, e \in Event : Holds(v, e)' <=> Holds(v, e)
  BY DEF Holds
<1>2. \A e \in Event : InUse(e)' <=> InUse(e)
  BY <1>1 DEF InUse
<1>3. ClaimIsExclusive'
  BY <1>1 DEF Ownership, ClaimIsExclusive
<1>4. \A v \in Worker :
        \/ phase'[v] = phase[v]
        \/ phase[v] = "down" /\ phase'[v] = "polling"
  BY DEF WorkerTypeOK
<1>5. QED
  BY <1>2, <1>3, <1>4 DEF Ownership

-----------------------------------------------------------------------------
(* The table's half of each step. *)

\* the rows outside S are as they were
Untouched(S) ==
  \A e \in Event \ S : /\ status'[e] = status[e]
                       /\ retryCount'[e] = retryCount[e]
                       /\ aged'[e] = aged[e]
                       /\ claims'[e] = claims[e]

LEMMA StatementsAreLocal ==
  ASSUME TableTypeOK, NEW S \in SUBSET Event
  PROVE  /\ Queue(S) => Untouched(S)
         /\ Backoff(S) => Untouched(S)
         /\ ClaimEffect(S) => Untouched(S)
         /\ \A k \in Decision : Update(k, S) => Untouched(S)
<1>1. Queue(S) => Untouched(S)
  BY Zenon DEF Queue, Untouched, Set
<1>2. ASSUME NEW T \in SUBSET S, Backoff(T) PROVE Untouched(S)
  BY <1>2 DEF Backoff, Untouched, Set, Bump
<1>3. ClaimEffect(S) => Untouched(S)
  BY DEF ClaimEffect, Untouched, Set, Bump
<1>4. ASSUME NEW final, Finish(S, final) PROVE Untouched(S)
  BY <1>4 DEF Finish, Untouched, Set
<1>5. {e \in S : retryCount[e] < RowMaxRetries[e]} \in SUBSET S
  OBVIOUS
<1>6. \A k \in Decision : Update(k, S) => Untouched(S)
  BY <1>2, <1>4, <1>5 DEF Update, markSucceeded, scheduleRetry, moveToDLQ
<1>7. QED
  BY <1>1, <1>2, <1>3, <1>6

LEMMA FreshAway ==
  ASSUME InUseIsFresh, NEW S \in SUBSET Event, Untouched(S),
         \A e \in Event : InUse(e)' => InUse(e) /\ e \notin S
  PROVE  InUseIsFresh'
  BY DEF InUseIsFresh, Untouched

LEMMA CountAway ==
  ASSUME DecidesOnCurrentCount, NEW S \in SUBSET Event, Untouched(S),
         WorkerTypeOK',
         \A e \in Event : InUse(e)' => e \notin S,
         \A v \in Worker : phase'[v] = "publishing" =>
           /\ phase[v] = "publishing"
           /\ batch'[v] = batch[v]
           /\ seenRetries'[v] = seenRetries[v]
  PROVE  DecidesOnCurrentCount'
<1>1. \A v \in Worker : \A e \in batch'[v] : e \in Event /\ InUse(e)'
  BY DEF WorkerTypeOK, InUse, Holds
<1>2. QED
  BY <1>1 DEF DecidesOnCurrentCount, Untouched

LEMMA ClaimCounts ==
  ASSUME TableTypeOK, EveryClaimIsCounted, NEW S \in SUBSET Event, ClaimEffect(S)
  PROVE  EveryClaimIsCounted'
  BY DEF TableTypeOK, EveryClaimIsCounted, ClaimEffect, Set, Bump

LEMMA QueueCounts ==
  ASSUME TableTypeOK, EveryClaimIsCounted, NEW S \in SUBSET Event, Queue(S)
  PROVE  EveryClaimIsCounted'
  BY DEF TableTypeOK, EveryClaimIsCounted, Queue, Set

LEMMA BackoffCounts ==
  ASSUME TableTypeOK, EveryClaimIsCounted, NEW S \in SUBSET Event, Backoff(S),
         \A e \in S : status[e] = "processing"
  PROVE  EveryClaimIsCounted'
  BY DEF TableTypeOK, EveryClaimIsCounted, Backoff, Set, Bump

LEMMA UpdateCounts ==
  ASSUME TableTypeOK, EveryClaimIsCounted, NEW k \in Decision,
         NEW S \in SUBSET Event, Update(k, S),
         \A e \in S : status[e] = "processing"
  PROVE  EveryClaimIsCounted'
<1>1. CASE scheduleRetry(S)
  <2>1. {e \in S : retryCount[e] < RowMaxRetries[e]} \in SUBSET Event
    OBVIOUS
  <2>2. QED
    BY <1>1, <2>1, BackoffCounts DEF scheduleRetry
<1>2. CASE markSucceeded(S) \/ moveToDLQ(S)
  BY <1>2 DEF TableTypeOK, EveryClaimIsCounted, markSucceeded, moveToDLQ, Finish, Set
<1>3. QED
  BY <1>1, <1>2 DEF Update

LEMMA ClaimedAreFresh ==
  ASSUME NEW S \in SUBSET Event, ClaimEffect(S)
  PROVE  \A e \in S : /\ status[e] \in {"pending", "failed"}
                      /\ status'[e] = "processing" /\ ~aged'[e]
                      /\ retryCount'[e] = retryCount[e]
  BY DEF ClaimEffect, Set

-----------------------------------------------------------------------------
(* The two halves together. *)

\* An UPDATE on rows in use, which are in use no longer when it has landed, or
\* no statement at all.
LEMMA EndOfUse ==
  ASSUME TypeOK, TypeOK', ClaimInv, Ownership', UNCHANGED selected,
         NEW k \in Decision, NEW S \in SUBSET Event,
         Update(k, S) \/ UNCHANGED tableVars,
         \A e \in S : InUse(e),
         \A e \in Event : InUse(e)' => InUse(e) /\ e \notin S,
         \A v \in Worker : phase'[v] = "publishing" =>
           /\ phase[v] = "publishing"
           /\ batch'[v] = batch[v]
           /\ seenRetries'[v] = seenRetries[v]
  PROVE  ClaimInv'
<1>1. Untouched(S)
  BY StatementsAreLocal DEF TypeOK, Untouched, tableVars
<1>2. InUseIsFresh'
  BY <1>1, FreshAway DEF ClaimInv
<1>3. DecidesOnCurrentCount'
  BY <1>1, CountAway DEF ClaimInv, TypeOK
<1>4. \A e \in S : status[e] = "processing"
  BY DEF ClaimInv, InUseIsFresh
<1>5. EveryClaimIsCounted'
  <2>1. CASE Update(k, S)
    BY <1>4, <2>1, UpdateCounts DEF ClaimInv, TypeOK
  <2>2. CASE UNCHANGED tableVars
    BY <2>2 DEF ClaimInv, EveryClaimIsCounted, tableVars
  <2>3. QED
    BY <2>1, <2>2
<1>6. SelectedIsQuiet'
  BY <1>1, <1>4 DEF ClaimInv, SelectedIsQuiet, Untouched, TypeOK
<1>7. QED
  BY <1>2, <1>3, <1>5, <1>6 DEF ClaimInv

\* A step of a worker that runs no statement.
LEMMA NoStatement ==
  ASSUME TypeOK, TypeOK', ClaimInv, Ownership', UNCHANGED <<tableVars, adminVars>>,
         \A e \in Event : InUse(e)' => InUse(e),
         \A v \in Worker : phase'[v] = "publishing" =>
           /\ phase[v] = "publishing"
           /\ batch'[v] = batch[v]
           /\ seenRetries'[v] = seenRetries[v]
  PROVE  ClaimInv'
<1>1. UNCHANGED tableVars /\ UNCHANGED selected
  BY DEF adminVars
<1>2. "dlq" \in Decision /\ {} \in SUBSET Event
  BY DEF Decision
<1>3. QED
  BY <1>1, <1>2, EndOfUse

\* A statement on rows that are not in use, by somebody else than a worker.
LEMMA OutsideUse ==
  ASSUME TypeOK, TypeOK', ClaimInv, SelectedIsQuiet', UNCHANGED workerVars,
         NEW S \in SUBSET Event, Untouched(S), \A e \in S : ~InUse(e),
         EveryClaimIsCounted'
  PROVE  ClaimInv'
<1>1. Ownership' /\ \A e \in Event : InUse(e)' <=> InUse(e)
  BY IdleOwns DEF ClaimInv, TypeOK, workerVars
<1>2. InUseIsFresh'
  BY <1>1, FreshAway DEF ClaimInv
<1>3. DecidesOnCurrentCount'
  BY <1>1, CountAway DEF ClaimInv, TypeOK, workerVars
<1>4. QED
  BY <1>1, <1>2, <1>3 DEF ClaimInv

\* A claim leaves the selected rows alone.
LEMMA QuietAfterClaim ==
  ASSUME ~SlowReplays, TypeOK, ClaimInv, UNCHANGED selected,
         NEW S \in SUBSET Event, Uncontended(S), Untouched(S)
  PROVE  SelectedIsQuiet'
  BY DEF TypeOK, ClaimInv, SelectedIsQuiet, Uncontended, Untouched

LEMMA NotInUse ==
  ASSUME ClaimInv, NEW e \in Event, status[e] # "processing" \/ aged[e]
  PROVE  ~InUse(e)
  BY DEF ClaimInv, InUseIsFresh

LEMMA ClaimStep ==
  ASSUME ~SlowHolders, ~SlowReplays, TypeOK, TypeOK', ClaimInv, [Next]_vars
  PROVE  ClaimInv'
<1> USE DEF TypeOK
<1>1. ASSUME NEW w \in Worker, ClaimPendingEvents(w) PROVE ClaimInv'
  <2>1. PICK S \in SUBSET Event :
          Uncontended(S) /\ ClaimEffect(S) /\ Receive(w, S, retryCount)
    BY <1>1, ClaimRowsClaims DEF ClaimPendingEvents
  <2>2. \A e \in S : /\ status[e] \in {"pending", "failed"}
                     /\ status'[e] = "processing" /\ ~aged'[e]
                     /\ retryCount'[e] = retryCount[e]
    BY <2>1, ClaimedAreFresh
  <2>3. \A e \in S : ~InUse(e)
    BY <2>2, NotInUse
  <2>4. Ownership' /\ \A e \in Event : InUse(e)' => InUse(e) \/ e \in S
    BY <2>1, <2>3, ClaimOwns DEF ClaimInv, Receive
  <2>5. Untouched(S)
    BY <2>1, StatementsAreLocal
  <2>6. InUseIsFresh'
    BY <2>2, <2>4, <2>5 DEF ClaimInv, InUseIsFresh, Untouched
  <2>7. retryCount' = retryCount
    BY <2>1 DEF ClaimEffect
  <2>8. \A v \in Worker :
          /\ batch'[v] = IF v = w THEN S ELSE batch[v]
          /\ v # w => phase'[v] = phase[v] /\ seenRetries'[v] = seenRetries[v]
    BY <2>1 DEF Receive, WorkerTypeOK
  <2>9. \A e \in S : seenRetries'[w][e] = retryCount[e]
    BY <2>1 DEF Receive, WorkerTypeOK
  <2>10. DecidesOnCurrentCount'
    BY <2>7, <2>8, <2>9 DEF ClaimInv, DecidesOnCurrentCount
  <2>11. EveryClaimIsCounted'
    BY <2>1, <2>2, ClaimCounts DEF ClaimInv
  <2>12. SelectedIsQuiet'
    BY <1>1, <2>1, <2>5, QuietAfterClaim DEF ClaimPendingEvents, adminVars
  <2>13. QED
    BY <2>4, <2>6, <2>10, <2>11, <2>12 DEF ClaimInv
<1>2. ASSUME NEW w \in Worker, ClaimAnswerLost(w) PROVE ClaimInv'
  <2>1. PICK S \in SUBSET Event : Uncontended(S) /\ ClaimEffect(S)
    BY <1>2, ClaimRowsClaims DEF ClaimAnswerLost
  <2>2. \A e \in S : status[e] \in {"pending", "failed"}
    BY <2>1, ClaimedAreFresh
  <2>3. \A e \in S : ~InUse(e)
    BY <2>2, NotInUse
  <2>4. Ownership' /\ \A e \in Event : InUse(e)' <=> InUse(e)
    BY <1>2, IdleOwns DEF ClaimInv, ClaimAnswerLost, MissReceipt
  <2>5. Untouched(S)
    BY <2>1, StatementsAreLocal
  <2>6. InUseIsFresh'
    BY <2>3, <2>4, <2>5, FreshAway DEF ClaimInv
  <2>7. DecidesOnCurrentCount'
    BY <1>2, <2>3, <2>4, <2>5, CountAway DEF ClaimInv, ClaimAnswerLost, MissReceipt
  <2>8. EveryClaimIsCounted'
    BY <2>1, <2>2, ClaimCounts DEF ClaimInv
  <2>9. SelectedIsQuiet'
    BY <1>2, <2>1, <2>5, QuietAfterClaim DEF ClaimAnswerLost, adminVars
  <2>10. QED
    BY <2>4, <2>6, <2>7, <2>8, <2>9 DEF ClaimInv
<1>3. ASSUME NEW w \in Worker, NEW e \in Event, Deliver(w, e) PROVE ClaimInv'
  <2>1. Ownership' /\ \A x \in Event : InUse(x)' <=> InUse(x)
    BY <1>3, IdleOwns DEF ClaimInv, Deliver, Accept
  <2>2. QED
    BY <1>3, <2>1
       DEF ClaimInv, Deliver, Accept, InUseIsFresh, DecidesOnCurrentCount,
           EveryClaimIsCounted, SelectedIsQuiet, tableVars, adminVars
<1>4. ASSUME NEW w \in Worker, PublishEnds(w) PROVE ClaimInv'
  <2>1. Ownership' /\ \A e \in Event : InUse(e)' => InUse(e)
    BY <1>4, GroupOwns DEF ClaimInv, PublishEnds
  <2>2. \A v \in Worker : phase'[v] = "publishing" =>
          /\ phase[v] = "publishing"
          /\ batch'[v] = batch[v]
          /\ seenRetries'[v] = seenRetries[v]
    BY <1>4 DEF PublishEnds, Group, WorkerTypeOK
  <2>3. QED
    BY <1>4, <2>1, <2>2, NoStatement DEF PublishEnds
<1>5. ASSUME NEW w \in Worker, NEW k \in Decision, UpdateLands(w, k)
      PROVE  ClaimInv'
  <2>1. pend[w][k] \in SUBSET Event /\ \A e \in pend[w][k] : InUse(e)
    BY DEF WorkerTypeOK, InUse, Holds
  <2>2. Ownership' /\ \A e \in Event : InUse(e)' => InUse(e) /\ e \notin pend[w][k]
    BY <1>5, SettleOwns DEF ClaimInv, UpdateLands
  <2>3. \A v \in Worker : phase'[v] = "publishing" =>
          /\ phase[v] = "publishing"
          /\ batch'[v] = batch[v]
          /\ seenRetries'[v] = seenRetries[v]
    BY <1>5 DEF UpdateLands, Settle, WorkerTypeOK
  <2>4. QED
    BY <1>5, <2>1, <2>2, <2>3, EndOfUse DEF ClaimInv, UpdateLands, adminVars
<1>6. ASSUME NEW w \in Worker, NEW k \in Decision, UpdateRejects(w, k)
      PROVE  ClaimInv'
  <2>1. pend[w][k] \in SUBSET Event /\ \A e \in pend[w][k] : InUse(e)
    BY DEF WorkerTypeOK, InUse, Holds
  <2>2. batch' = [batch EXCEPT ![w] = {}]
    BY <1>6 DEF UpdateRejects, Reject, ClaimInv, Ownership, WorkerTypeOK
  <2>3. Ownership' /\ \A e \in Event : InUse(e)' => InUse(e) /\ e \notin pend[w][k]
    <3>1. /\ late' = late \cup Abandoned(w, Decision \ {k})
          /\ pend' = [pend EXCEPT ![w] = NoEvents]
          /\ phase' = [phase EXCEPT ![w] = "polling"]
      BY <1>6 DEF UpdateRejects, Reject
    <3>2. /\ Decision \ {k} \in SUBSET Decision
          /\ k \in Decision \ (Decision \ {k})
          /\ "polling" \in {"polling", "down"}
      OBVIOUS
    <3>3. /\ Ownership'
          /\ \A e \in Event : InUse(e)' =>
               InUse(e) /\ \A j \in Decision \ (Decision \ {k}) : e \notin pend[w][j]
      BY <2>2, <3>1, <3>2, AbandonOwns DEF ClaimInv
    <3>4. QED
      BY <3>2, <3>3
  <2>4. \A v \in Worker : phase'[v] = "publishing" =>
          /\ phase[v] = "publishing"
          /\ batch'[v] = batch[v]
          /\ seenRetries'[v] = seenRetries[v]
    BY <1>6 DEF UpdateRejects, Reject, WorkerTypeOK
  <2>5. QED
    BY <1>6, <2>1, <2>3, <2>4, EndOfUse DEF ClaimInv, UpdateRejects, adminVars
<1>7. ASSUME NEW w \in Worker, ProcessDies(w) PROVE ClaimInv'
  <2>1. Ownership' /\ \A e \in Event : InUse(e)' => InUse(e)
    BY <1>7, AbandonOwns DEF ClaimInv, ProcessDies, Crash
  <2>2. \A v \in Worker : phase'[v] = "publishing" =>
          /\ phase[v] = "publishing"
          /\ batch'[v] = batch[v]
          /\ seenRetries'[v] = seenRetries[v]
    BY <1>7 DEF ProcessDies, Crash, WorkerTypeOK
  <2>3. QED
    BY <1>7, <2>1, <2>2, NoStatement DEF ProcessDies
<1>8. ASSUME NEW w \in Worker, ProcessStarts(w) PROVE ClaimInv'
  <2>1. Ownership' /\ \A e \in Event : InUse(e)' <=> InUse(e)
    BY <1>8, IdleOwns DEF ClaimInv, ProcessStarts, Start
  <2>2. \A v \in Worker : phase'[v] = "publishing" =>
          /\ phase[v] = "publishing"
          /\ batch'[v] = batch[v]
          /\ seenRetries'[v] = seenRetries[v]
    BY <1>8 DEF ProcessStarts, Start, WorkerTypeOK
  <2>3. QED
    BY <1>8, <2>1, <2>2, NoStatement DEF ProcessStarts
<1>9. ASSUME NEW e \in Event, CreateEvent(e) \/ ReplayEvent(e) PROVE ClaimInv'
  <2>1. ~InUse(e)
    BY <1>9, NotInUse DEF CreateEvent, ReplayEvent
  <2>2. Queue({e}) /\ UNCHANGED <<workerVars, selected>>
    BY <1>9 DEF CreateEvent, ReplayEvent, adminVars
  <2>3. Untouched({e}) /\ EveryClaimIsCounted'
    BY <2>2, StatementsAreLocal, QueueCounts DEF ClaimInv
  <2>4. SelectedIsQuiet'
    BY <2>2 DEF ClaimInv, SelectedIsQuiet, Queue, Set
  <2>5. QED
    BY <2>1, <2>2, <2>3, <2>4, OutsideUse
<1>10. ASSUME NEW e \in Event, Clock(e) PROVE ClaimInv'
  <2>0. SelectedIsQuiet' /\ UNCHANGED workerVars
    BY <1>10 DEF Clock, BecomeDue, GrowOld, ClaimInv, SelectedIsQuiet, adminVars
  <2>1. CASE BecomeDue(e)
    <3>1. Untouched({}) /\ EveryClaimIsCounted'
      BY <2>1 DEF BecomeDue, Untouched, ClaimInv, EveryClaimIsCounted
    <3>2. QED
      BY <2>0, <3>1, OutsideUse
  <2>2. CASE GrowOld(e)
    <3>1. ~InUse(e)
      BY <1>10, <2>2 DEF Clock, BecomeDue, GrowOld
    <3>2. Untouched({e}) /\ EveryClaimIsCounted'
      BY <2>2 DEF GrowOld, Untouched, ClaimInv, EveryClaimIsCounted, TableTypeOK
    <3>3. QED
      BY <2>0, <3>1, <3>2, OutsideUse
  <2>3. QED
    BY <1>10, <2>1, <2>2 DEF Clock
<1>11. ASSUME NEW s \in late, LateUpdate(s) PROVE ClaimInv'
  <2>1. /\ s.kind \in Decision /\ s.evs \in SUBSET Event
        /\ \A e \in s.evs : InUse(e)
    BY DEF WorkerTypeOK, Statement, InUse
  <2>2. Ownership' /\ \A e \in Event : InUse(e)' => InUse(e) /\ e \notin s.evs
    BY <1>11, RetireOwns DEF ClaimInv, LateUpdate
  <2>3. \A v \in Worker : phase'[v] = "publishing" =>
          /\ phase[v] = "publishing"
          /\ batch'[v] = batch[v]
          /\ seenRetries'[v] = seenRetries[v]
    BY <1>11 DEF LateUpdate, Retire
  <2>4. QED
    BY <1>11, <2>1, <2>2, <2>3, EndOfUse DEF ClaimInv, LateUpdate, adminVars
<1>12. ASSUME RecoverStaleEvents PROVE ClaimInv'
  <2> DEFINE stale == {e \in Event : Stale(e)}
  <2>1. /\ stale \in SUBSET Event
        /\ \A e \in stale : status[e] = "processing" /\ ~InUse(e)
    BY NotInUse DEF Stale
  <2>2. Backoff(stale) /\ UNCHANGED <<workerVars, selected>>
    BY <1>12 DEF RecoverStaleEvents, adminVars
  <2>3. Untouched(stale) /\ EveryClaimIsCounted'
    BY <2>1, <2>2, StatementsAreLocal, BackoffCounts DEF ClaimInv
  <2>4. SelectedIsQuiet'
    BY <2>1, <2>2, <2>3 DEF ClaimInv, SelectedIsQuiet, Untouched
  <2>5. QED
    BY <2>1, <2>2, <2>3, <2>4, OutsideUse
<1>13. ASSUME ReplaySelect PROVE ClaimInv'
  <2>1. UNCHANGED <<tableVars, workerVars>> /\ selected' \in Selectable
    BY <1>13 DEF ReplaySelect
  <2>2. Untouched({}) /\ EveryClaimIsCounted'
    BY <2>1 DEF Untouched, ClaimInv, EveryClaimIsCounted, tableVars
  <2>3. SelectedIsQuiet'
    BY <2>1 DEF SelectedIsQuiet, Selectable, tableVars
  <2>4. QED
    BY <2>1, <2>2, <2>3, OutsideUse
<1>14. ASSUME ReplayUpdate PROVE ClaimInv'
  <2>1. Queue(selected) /\ UNCHANGED workerVars /\ selected' = {}
    BY <1>14 DEF ReplayUpdate
  <2>2. \A e \in selected : e \in Event /\ ~InUse(e)
    BY NotInUse DEF ClaimInv, SelectedIsQuiet
  <2>3. Untouched(selected) /\ EveryClaimIsCounted'
    BY <2>1, StatementsAreLocal, QueueCounts DEF ClaimInv
  <2>4. SelectedIsQuiet'
    BY <2>1 DEF SelectedIsQuiet
  <2>5. QED
    BY <2>1, <2>2, <2>3, <2>4, OutsideUse
<1>15. CASE UNCHANGED vars
  <2>1. Untouched({}) /\ EveryClaimIsCounted' /\ SelectedIsQuiet' /\ UNCHANGED workerVars
    BY <1>15 DEF Untouched, ClaimInv, EveryClaimIsCounted, SelectedIsQuiet, vars,
                 tableVars, adminVars
  <2>2. QED
    BY <2>1, OutsideUse
<1>16. QED
  BY <1>1, <1>2, <1>3, <1>4, <1>5, <1>6, <1>7, <1>8, <1>9, <1>10, <1>11, <1>12,
     <1>13, <1>14, <1>15 DEF Next, WorkerStep, EventStep

LEMMA ClaimInit ==
  ASSUME OutboxInit
  PROVE  ClaimInv
<1>1. \A e \in Event : ~InUse(e) /\ \A w \in Worker : ~Holds(w, e)
  BY DEF OutboxInit, WorkerInit, InUse, Holds, NoEvents
<1>2. Ownership
  BY <1>1 DEF OutboxInit, WorkerInit, Ownership, ClaimIsExclusive, NoEvents
<1>3. EveryClaimIsCounted
  BY DEF OutboxInit, TableInit, EveryClaimIsCounted
<1>4. DecidesOnCurrentCount
  BY DEF OutboxInit, WorkerInit, DecidesOnCurrentCount
<1>5. QED
  BY <1>1, <1>2, <1>3, <1>4 DEF ClaimInv, InUseIsFresh, SelectedIsQuiet, OutboxInit

\* ClaimInv is an invariant: with prompt holders and no claim amid a range
\* replay, whatever is in use is a young claim, so only the holder's own UPDATE
\* ends it.
THEOREM ClaimsInvariant ==
  ASSUME ~SlowHolders, ~SlowReplays
  PROVE  Spec => []ClaimInv
<1>1. OutboxInit => ClaimInv
  BY ClaimInit
<1>2. TypeOK /\ TypeOK' /\ ClaimInv /\ [Next]_vars => ClaimInv'
  BY ClaimStep
<1>3. QED
  BY <1>1, <1>2, TypeCorrect, PTL DEF Spec

\* Under these assumptions no event is ever in the hands of two workers, nor is
\* an UPDATE late while somebody else has the event.
THEOREM ClaimsAreExclusive ==
  ASSUME ~SlowHolders, ~SlowReplays
  PROVE  Spec => []ClaimIsExclusive
<1>1. ClaimInv => ClaimIsExclusive
  BY DEF ClaimInv, Ownership
<1>2. QED
  BY <1>1, ClaimsInvariant, PTL

\* Under the same assumptions the retry count a worker decides on is the one
\* in the table.
THEOREM RetryCountsAreCurrent ==
  ASSUME ~SlowHolders, ~SlowReplays
  PROVE  Spec => []DecidesOnCurrentCount
<1>1. ClaimInv => DecidesOnCurrentCount
  BY DEF ClaimInv
<1>2. QED
  BY <1>1, ClaimsInvariant, PTL

\* Under the same assumptions every claim costs a retry or ends the event.
THEOREM ClaimsAreCounted ==
  ASSUME ~SlowHolders, ~SlowReplays
  PROVE  Spec => []EveryClaimIsCounted
<1>1. ClaimInv => EveryClaimIsCounted
  BY DEF ClaimInv
<1>2. QED
  BY <1>1, ClaimsInvariant, PTL

-----------------------------------------------------------------------------
(***************************************************************************)
(* The outbox on PostgreSQL implements EventDelivery, and its rows change  *)
(* status only as documented, under the same assumptions.                  *)
(* Every UPDATE that ends an attempt hits rows in use, which ClaimInv says *)
(* are "processing"; that an event completed this way has been taken is    *)
(* the invariant AcceptedInv.                                              *)
(***************************************************************************)

\* the rows of S go from a status in `from` to the status `to`, and no others
Moves(S, from, to) ==
  /\ \A e \in S : status[e] \in from /\ status'[e] = to
  /\ \A e \in Event \ S : status'[e] = status[e]

\* what the steps of the model do to the statuses and to `accepted`
Claimed == \E S \in SUBSET Event : Moves(S, {"pending", "failed"}, "processing")

Succeeded ==
  \E S \in SUBSET Event : S \subseteq accepted /\ Moves(S, {"processing"}, "succeeded")

Failed == \E S \in SUBSET Event : Moves(S, {"processing"}, "failed")

DeadLettered == \E S \in SUBSET Event : Moves(S, {"processing"}, "dlq")

Created == \E e \in Event : Moves({e}, {"absent"}, "pending")

Replayed == \E S \in SUBSET Event : Moves(S, {"pending", "failed", "dlq"}, "pending")

Delivered ==
  /\ \E e \in Event : status[e] = "processing" /\ accepted' = accepted \cup {e}
  /\ UNCHANGED status

StatusStep ==
  \/ /\ Claimed \/ Succeeded \/ Failed \/ DeadLettered \/ Created \/ Replayed
     /\ UNCHANGED accepted
  \/ Delivered
  \/ UNCHANGED <<status, accepted>>

-----------------------------------------------------------------------------

LEMMA ClaimMoves ==
  ASSUME TableTypeOK, NEW S \in SUBSET Event, ClaimEffect(S)
  PROVE  Claimed
<1>1. Untouched(S)
  BY StatementsAreLocal
<1>2. Moves(S, {"pending", "failed"}, "processing")
  BY <1>1, ClaimedAreFresh DEF Moves, Untouched
<1>3. QED
  BY <1>2 DEF Claimed

LEMMA BackoffMoves ==
  ASSUME TableTypeOK, NEW S \in SUBSET Event, Backoff(S),
         \A e \in S : status[e] = "processing"
  PROVE  Failed
<1>1. Moves(S, {"processing"}, "failed")
  BY DEF Moves, Backoff, Set
<1>2. QED
  BY <1>1 DEF Failed

\* An UPDATE on rows in use ends their attempt in one of the three ways.
LEMMA UpdateMoves ==
  ASSUME TableTypeOK, NEW k \in Decision, NEW S \in SUBSET Event, Update(k, S),
         \A e \in S : status[e] = "processing",
         k = "succeeded" => S \subseteq accepted
  PROVE  Succeeded \/ Failed \/ DeadLettered
<1>1. CASE k = "succeeded" /\ markSucceeded(S)
  <2>1. Moves(S, {"processing"}, "succeeded")
    BY <1>1 DEF Moves, markSucceeded, Finish, Set
  <2>2. QED
    BY <1>1, <2>1 DEF Succeeded
<1>2. CASE scheduleRetry(S)
  <2>1. {e \in S : retryCount[e] < RowMaxRetries[e]} \in SUBSET Event
    OBVIOUS
  <2>2. QED
    BY <1>2, <2>1, BackoffMoves DEF scheduleRetry
<1>3. CASE moveToDLQ(S)
  <2>1. Moves(S, {"processing"}, "dlq")
    BY <1>3 DEF Moves, moveToDLQ, Finish, Set
  <2>2. QED
    BY <2>1 DEF DeadLettered
<1>4. QED
  BY <1>1, <1>2, <1>3 DEF Update

LEMMA QueueMoves ==
  ASSUME TableTypeOK, NEW S \in SUBSET Event, Queue(S), NEW from,
         \A e \in S : status[e] \in from
  PROVE  Moves(S, from, "pending")
  BY DEF Moves, Queue, Set

LEMMA EveryStepMoves ==
  ASSUME ~SlowReplays, TypeOK, ClaimInv, AcceptedInv, [Next]_vars
  PROVE  StatusStep
<1> USE DEF TypeOK
<1>a. \A e \in Event : InUse(e) => status[e] = "processing"
  BY DEF ClaimInv, InUseIsFresh
<1>1. ASSUME NEW w \in Worker, ClaimPendingEvents(w) \/ ClaimAnswerLost(w)
      PROVE  StatusStep
  BY <1>1, ClaimRowsClaims, ClaimMoves
     DEF ClaimPendingEvents, ClaimAnswerLost, Receive, MissReceipt, StatusStep
<1>2. ASSUME NEW w \in Worker, NEW e \in Event, Deliver(w, e) PROVE StatusStep
  <2>1. status[e] = "processing"
    BY <1>a, <1>2 DEF Deliver, Accept, InUse, Holds
  <2>2. QED
    BY <1>2, <2>1 DEF Deliver, Accept, tableVars, StatusStep, Delivered
<1>3. ASSUME NEW w \in Worker, PublishEnds(w) \/ ProcessDies(w) \/ ProcessStarts(w)
      PROVE  StatusStep
  BY <1>3 DEF PublishEnds, Group, ProcessDies, Crash, ProcessStarts, Start, tableVars,
              StatusStep
<1>4. ASSUME NEW w \in Worker, NEW k \in Decision, UpdateLands(w, k) \/ UpdateRejects(w, k)
      PROVE  StatusStep
  <2>1. /\ pend[w][k] \in SUBSET Event
        /\ \A e \in pend[w][k] : status[e] = "processing"
    BY <1>a DEF WorkerTypeOK, InUse, Holds
  <2>2. k = "succeeded" => pend[w][k] \subseteq accepted
    BY DEF AcceptedInv, PromisedInv
  <2>3. UNCHANGED accepted
    BY <1>4 DEF UpdateLands, UpdateRejects, Settle, Reject
  <2>4. CASE Update(k, pend[w][k])
    BY <2>1, <2>2, <2>3, <2>4, UpdateMoves DEF StatusStep
  <2>5. CASE UNCHANGED tableVars
    BY <2>3, <2>5 DEF StatusStep, tableVars
  <2>6. QED
    BY <1>4, <2>4, <2>5 DEF UpdateLands, UpdateRejects
<1>5. ASSUME NEW e \in Event, CreateEvent(e) PROVE StatusStep
  <2>1. Moves({e}, {"absent"}, "pending")
    BY <1>5, QueueMoves DEF CreateEvent
  <2>2. QED
    BY <1>5, <2>1 DEF CreateEvent, workerVars, StatusStep, Created
<1>6. ASSUME NEW e \in Event, ReplayEvent(e) PROVE StatusStep
  <2>1. Moves({e}, {"pending", "failed", "dlq"}, "pending")
    BY <1>6, QueueMoves DEF ReplayEvent
  <2>2. QED
    BY <1>6, <2>1 DEF ReplayEvent, workerVars, StatusStep, Replayed
<1>7. ASSUME NEW e \in Event, Clock(e) PROVE StatusStep
  BY <1>7 DEF Clock, BecomeDue, GrowOld, workerVars, StatusStep
<1>8. ASSUME NEW s \in late, LateUpdate(s) PROVE StatusStep
  <2>1. /\ s.kind \in Decision /\ s.evs \in SUBSET Event
        /\ \A e \in s.evs : status[e] = "processing"
    BY <1>a DEF WorkerTypeOK, Statement, InUse
  <2>2. s.kind = "succeeded" => s.evs \subseteq accepted
    BY DEF AcceptedInv, PromisedInv
  <2>3. UNCHANGED accepted
    BY <1>8 DEF LateUpdate, Retire
  <2>4. CASE Update(s.kind, s.evs)
    BY <2>1, <2>2, <2>3, <2>4, UpdateMoves DEF StatusStep
  <2>5. CASE UNCHANGED tableVars
    BY <2>3, <2>5 DEF StatusStep, tableVars
  <2>6. QED
    BY <1>8, <2>4, <2>5 DEF LateUpdate
<1>9. ASSUME RecoverStaleEvents PROVE StatusStep
  <2>1. /\ {e \in Event : Stale(e)} \in SUBSET Event
        /\ \A e \in {x \in Event : Stale(x)} : status[e] = "processing"
    BY DEF Stale
  <2>2. QED
    BY <1>9, <2>1, BackoffMoves DEF RecoverStaleEvents, workerVars, StatusStep
<1>10. ASSUME ReplaySelect PROVE StatusStep
  BY <1>10 DEF ReplaySelect, tableVars, workerVars, StatusStep
<1>11. ASSUME ReplayUpdate PROVE StatusStep
  <2>1. Moves(selected, {"pending", "failed", "dlq"}, "pending")
    BY <1>11, QueueMoves DEF ReplayUpdate, ClaimInv, SelectedIsQuiet
  <2>2. QED
    BY <1>11, <2>1 DEF ReplayUpdate, workerVars, StatusStep, Replayed
<1>12. CASE UNCHANGED vars
  BY <1>12 DEF vars, tableVars, workerVars, StatusStep
<1>13. QED
  BY <1>1, <1>2, <1>3, <1>4, <1>5, <1>6, <1>7, <1>8, <1>9, <1>10, <1>11, <1>12
     DEF Next, WorkerStep, EventStep

-----------------------------------------------------------------------------

LEMMA MovesAreDocumented ==
  ASSUME StatusStep
  PROVE  [\A e \in Event : status'[e] # status[e] =>
            DocumentedChange(status[e], status'[e])]_status
  BY DEF StatusStep, Claimed, Succeeded, Failed, DeadLettered, Created, Replayed,
         Delivered, Moves, DocumentedChange

\* With prompt holders, and range replays that no claim comes between, a row
\* changes status only along the documented transitions; "succeeded" is final.
THEOREM ChangesAreDocumented ==
  ASSUME ~SlowHolders, ~SlowReplays
  PROVE  Spec => OnlyDocumentedChanges
<1>1. TypeOK /\ ClaimInv /\ AcceptedInv /\ [Next]_vars
        => [\A e \in Event : status'[e] # status[e] =>
              DocumentedChange(status[e], status'[e])]_status
  BY EveryStepMoves, MovesAreDocumented
<1>2. QED
  BY <1>1, TypeCorrect, ClaimsInvariant, AcceptedInvariant, PTL
     DEF Spec, OnlyDocumentedChanges

-----------------------------------------------------------------------------
(* The refinement *)

\* The stage of each status.
LEMMA StageOfStatus ==
  /\ StageOf("absent") = "absent"
  /\ StageOf("pending") = "queued"
  /\ StageOf("processing") = "queued"
  /\ StageOf("failed") = "queued"
  /\ StageOf("succeeded") = "delivered"
  /\ StageOf("dlq") = "dead"
  BY DEF StageOf

\* The stages after rows moved to one status.
LEMMA StageMoves ==
  ASSUME NEW S \in SUBSET Event, NEW from, NEW to, Moves(S, from, to)
  PROVE  Stage' = [e \in Event |-> IF e \in S THEN StageOf(to) ELSE Stage[e]]
<1>1. \A e \in Event : StageOf(status'[e]) = IF e \in S THEN StageOf(to) ELSE Stage[e]
  BY DEF Stage, Moves
<1>2. Stage' = [e \in Event |-> StageOf(status'[e])]
  BY DEF Stage
<1>3. QED
  BY <1>1, <1>2

LEMMA PromiseInit ==
  ASSUME OutboxInit
  PROVE  Promise!Init
<1>1. \A e \in Event : StageOf(status[e]) = "absent"
  BY StageOfStatus DEF OutboxInit, TableInit
<1>2. Stage = [e \in Event |-> "absent"]
  BY <1>1 DEF Stage
<1>3. QED
  BY <1>2 DEF OutboxInit, WorkerInit, Promise!Init

LEMMA MovesArePromised ==
  ASSUME StatusStep
  PROVE  [Promise!Next]_<<Stage, accepted>>
<1>a. \A e \in Event : Stage[e] = StageOf(status[e])
  BY DEF Stage
<1>2. CASE (Claimed \/ Failed) /\ UNCHANGED accepted
  <2>1. PICK S \in SUBSET Event :
          \/ Moves(S, {"pending", "failed"}, "processing")
          \/ Moves(S, {"processing"}, "failed")
    BY <1>2 DEF Claimed, Failed
  <2>2. Stage' = [e \in Event |-> IF e \in S THEN "queued" ELSE Stage[e]]
    BY <2>1, StageMoves, StageOfStatus
  <2>3. \A e \in S : Stage[e] = "queued"
    BY <1>a, <2>1, StageOfStatus DEF Moves
  <2>4. Stage' = Stage
    BY <2>2, <2>3 DEF Stage
  <2>5. QED
    BY <1>2, <2>4
<1>3. CASE Succeeded /\ UNCHANGED accepted
  <2>1. PICK S \in SUBSET Event : 
          S \subseteq accepted /\ Moves(S, {"processing"}, "succeeded")
    BY <1>3 DEF Succeeded
  <2>2. Stage' = [e \in Event |-> IF e \in S THEN "delivered" ELSE Stage[e]]
    BY <2>1, StageMoves, StageOfStatus
  <2>3. \A e \in S : Stage[e] = "queued"
    BY <1>a, <2>1, StageOfStatus DEF Moves
  <2>4. Promise!Complete(S)
    BY <1>3, <2>1, <2>2, <2>3 DEF Promise!Complete, Promise!Move
  <2>5. QED
    BY <2>4 DEF Promise!Next
<1>4. CASE DeadLettered /\ UNCHANGED accepted
  <2>1. PICK S \in SUBSET Event : Moves(S, {"processing"}, "dlq")
    BY <1>4 DEF DeadLettered
  <2>2. Stage' = [e \in Event |-> IF e \in S THEN "dead" ELSE Stage[e]]
    BY <2>1, StageMoves, StageOfStatus
  <2>3. \A e \in S : Stage[e] = "queued"
    BY <1>a, <2>1, StageOfStatus DEF Moves
  <2>4. Promise!GiveUp(S)
    BY <1>4, <2>1, <2>2, <2>3 DEF Promise!GiveUp, Promise!Move
  <2>5. QED
    BY <2>4 DEF Promise!Next
<1>5. CASE Created /\ UNCHANGED accepted
  <2>1. PICK e \in Event : Moves({e}, {"absent"}, "pending")
    BY <1>5 DEF Created
  <2>2. Stage' = [x \in Event |-> IF x \in {e} THEN "queued" ELSE Stage[x]]
    BY <2>1, StageMoves, StageOfStatus
  <2>3. Stage[e] = "absent"
    BY <1>a, <2>1, StageOfStatus DEF Moves
  <2>4. Promise!Enqueue(e)
    BY <1>5, <2>2, <2>3 DEF Promise!Enqueue, Promise!Move
  <2>5. QED
    BY <2>4 DEF Promise!Next
<1>6. CASE Replayed /\ UNCHANGED accepted
  <2>1. PICK S \in SUBSET Event : Moves(S, {"pending", "failed", "dlq"}, "pending")
    BY <1>6 DEF Replayed
  <2>2. Stage' = [x \in Event |-> IF x \in S THEN "queued" ELSE Stage[x]]
    BY <2>1, StageMoves, StageOfStatus
  <2>3. \A e \in S : Stage[e] = "queued" \/ Stage[e] = "dead"
    BY <1>a, <2>1, StageOfStatus DEF Moves
  <2> DEFINE dead == {e \in S : Stage[e] = "dead"}
  <2>4. Stage' = [x \in Event |-> IF x \in dead THEN "queued" ELSE Stage[x]]
    BY <2>2, <2>3
  <2>5. Promise!Requeue(dead)
    BY <1>6, <2>4 DEF Promise!Requeue, Promise!Move
  <2>6. dead \in SUBSET Event
    OBVIOUS
  <2>7. QED
    BY <2>5, <2>6 DEF Promise!Next
<1>7. CASE Delivered
  <2>1. PICK e \in Event : status[e] = "processing" /\ accepted' = accepted \cup {e}
    BY <1>7 DEF Delivered
  <2>2. Stage[e] = "queued" /\ Stage' = Stage
    BY <1>7, <1>a, <2>1, StageOfStatus DEF Delivered, Stage
  <2>3. Promise!Take(e)
    BY <2>1, <2>2 DEF Promise!Take
  <2>4. QED
    BY <2>3 DEF Promise!Next
<1>8. CASE UNCHANGED <<status, accepted>>
  BY <1>8 DEF Stage
<1>9. QED
  BY <1>2, <1>3, <1>4, <1>5, <1>6, <1>7, <1>8 DEF StatusStep

\* The outbox on PostgreSQL keeps the promise of EventDelivery.
THEOREM DeliveryIsImplemented ==
  ASSUME ~SlowHolders, ~SlowReplays
  PROVE  Spec => KeepsPromise
<1>1. OutboxInit => Promise!Init
  BY PromiseInit
<1>2. TypeOK /\ ClaimInv /\ AcceptedInv /\ [Next]_vars => [Promise!Next]_<<Stage, accepted>>
  BY EveryStepMoves, MovesArePromised
<1>3. QED
  BY <1>1, <1>2, TypeCorrect, ClaimsInvariant, AcceptedInvariant, PTL
     DEF Spec, KeepsPromise, Promise!Spec

-----------------------------------------------------------------------------
(***************************************************************************)
(* Without a fault no row is stranded, if no row's max_retries is below    *)
(* the worker's.  The row that would be is one that scheduleRetry leaves   *)
(* as it is; the argument is that the retry group only holds rows with a   *)
(* retry to spare, because the count a worker decides on is the current    *)
(* one and nobody else counts a retry before the UPDATE has landed.        *)
(***************************************************************************)

\* what the worker does not drop, as long as nothing fails
NothingDropped ==
  /\ late = {}
  /\ \A e \in Event : status[e] = "processing" => \E w \in Worker : Holds(w, e)
  /\ \A w \in Worker : \A e \in pend[w]["retry"] : retryCount[e] < MaxRetries

DropInv == faults = 0 => NothingDropped

\* The retry group of a batch only holds events with a retry to spare.
LEMMA RetryGroup ==
  ASSUME NEW B \in SUBSET Event, NEW results \in [B -> Outcome],
         NEW retries \in [Event -> Nat]
  PROVE  \A e \in groupBatchResults(results, retries)["retry"] :
           e \in B /\ retries[e] < MaxRetries
  BY MaxRetriesAssumption DEF groupBatchResults, decideRetry, Decision, Outcome

\* Every event of a batch is in one of its groups.
LEMMA GroupsCover ==
  ASSUME NEW B \in SUBSET Event, NEW results \in [B -> Outcome], NEW retries
  PROVE  \A e \in B : \E k \in Decision : e \in groupBatchResults(results, retries)[k]
  BY DEF groupBatchResults, decideRetry, Decision, Outcome

\* Rows outside S are as they were, no row of S is "processing" or in use, and
\* nobody has less than before.
LEMMA DropsNothing ==
  ASSUME NothingDropped, ClaimInv, WorkerTypeOK, late' = {},
         NEW S \in SUBSET Event, Untouched(S),
         \A e \in S : status'[e] # "processing",
         \A w \in Worker, e \in Event : e \notin S /\ Holds(w, e) => Holds(w, e)',
         \A w \in Worker : \A e \in pend'[w]["retry"] :
           e \in pend[w]["retry"] /\ e \notin S
  PROVE  NothingDropped'
<1>1. ASSUME NEW e \in Event, status'[e] = "processing"
      PROVE  \E w \in Worker : Holds(w, e)'
  BY <1>1 DEF NothingDropped, Untouched
<1>2. ASSUME NEW w \in Worker, NEW e \in pend'[w]["retry"]
      PROVE  retryCount'[e] < MaxRetries
  <2>1. e \in pend[w]["retry"] /\ e \in Event \ S
    BY DEF WorkerTypeOK, Decision
  <2>2. QED
    BY <2>1 DEF NothingDropped, Untouched
<1>3. QED
  BY <1>1, <1>2 DEF NothingDropped

\* The same of a step that changes no worker.
LEMMA DropsNothingOutside ==
  ASSUME NothingDropped, ClaimInv, WorkerTypeOK, UNCHANGED workerVars,
         NEW S \in SUBSET Event, Untouched(S),
         \A e \in S : status'[e] # "processing" /\ ~InUse(e)
  PROVE  NothingDropped'
<1>1. late' = {} /\ batch' = batch /\ pend' = pend
  BY DEF NothingDropped, workerVars
<1>2. \A w \in Worker, e \in Event : Holds(w, e) => Holds(w, e)'
  BY <1>1 DEF Holds
<1>3. \A w \in Worker : \A e \in pend[w]["retry"] : e \in Event /\ InUse(e)
  BY DEF InUse, Holds, WorkerTypeOK, Decision
<1>4. QED
  BY <1>1, <1>2, <1>3, DropsNothing

LEMMA ClaimDropsNothing ==
  ASSUME TypeOK, ClaimInv, NothingDropped, NEW w \in Worker, NEW S \in SUBSET Event,
         ClaimEffect(S), Receive(w, S, retryCount)
  PROVE  NothingDropped'
<1> USE DEF TypeOK
<1>1. Untouched(S) /\ \A e \in S : retryCount'[e] = retryCount[e]
  BY StatementsAreLocal, ClaimedAreFresh
<1>2. /\ pend' = pend /\ late' = late /\ phase[w] = "polling"
      /\ \A v \in Worker : batch'[v] = IF v = w THEN S ELSE batch[v]
  BY DEF Receive, WorkerTypeOK
<1>3. batch[w] = {}
  BY <1>2 DEF ClaimInv, Ownership
<1>4. \A v \in Worker, e \in Event : Holds(v, e) => Holds(v, e)'
  BY <1>2, <1>3 DEF Holds
<1>5. \A e \in S : Holds(w, e)'
  BY <1>2 DEF Holds
<1>6. \A e \in Event : status'[e] = "processing" => \E v \in Worker : Holds(v, e)'
  BY <1>1, <1>4, <1>5 DEF NothingDropped, Untouched
<1>7. \A v \in Worker : \A e \in pend'[v]["retry"] : retryCount'[e] < MaxRetries
  BY <1>2 DEF NothingDropped, ClaimEffect
<1>8. QED
  BY <1>2, <1>6, <1>7 DEF NothingDropped

LEMMA GroupDropsNothing ==
  ASSUME TypeOK, ClaimInv, NothingDropped, NEW w \in Worker, PublishEnds(w)
  PROVE  NothingDropped'
<1> USE DEF TypeOK
<1>1. PICK results \in [batch[w] -> Outcome] :
        pend' = [pend EXCEPT ![w] = groupBatchResults(results, seenRetries[w])]
  BY DEF PublishEnds, Group
<1> DEFINE groups == groupBatchResults(results, seenRetries[w])
<1>2. /\ late' = late /\ phase[w] = "publishing"
      /\ \A v \in Worker : /\ pend'[v] = IF v = w THEN groups ELSE pend[v]
                           /\ batch'[v] = IF v = w THEN {} ELSE batch[v]
      /\ status' = status /\ retryCount' = retryCount
  BY <1>1 DEF PublishEnds, Group, WorkerTypeOK, tableVars
<1>3. batch[w] \in SUBSET Event /\ seenRetries[w] \in [Event -> Nat]
  BY DEF WorkerTypeOK
<1>4. \A e \in groups["retry"] : e \in batch[w] /\ seenRetries[w][e] < MaxRetries
  BY <1>3, RetryGroup
<1>5. \A e \in batch[w] : \E k \in Decision : e \in groups[k]
  BY <1>3, GroupsCover
<1> HIDE DEF groups
<1>6. \A e \in groups["retry"] : retryCount[e] < MaxRetries
  BY <1>2, <1>4 DEF ClaimInv, DecidesOnCurrentCount
<1>7. \A k \in Decision : pend[w][k] = {}
  BY <1>2 DEF ClaimInv, Ownership
<1>8. \A v \in Worker, e \in Event : Holds(v, e) => Holds(v, e)'
  BY <1>2, <1>5, <1>7 DEF Holds
<1>9. \A v \in Worker : \A e \in pend'[v]["retry"] : retryCount'[e] < MaxRetries
  BY <1>2, <1>6 DEF NothingDropped
<1>10. \A e \in Event : status'[e] = "processing" => \E v \in Worker : Holds(v, e)'
  BY <1>2, <1>8 DEF NothingDropped
<1>11. QED
  BY <1>2, <1>9, <1>10 DEF NothingDropped

LEMMA UpdateDropsNothing ==
  ASSUME \A e \in Event : RowMaxRetries[e] >= MaxRetries,
         TypeOK, ClaimInv, NothingDropped, NEW w \in Worker, NEW k \in Decision,
         UpdateLands(w, k)
  PROVE  NothingDropped'
<1> USE DEF TypeOK
<1>1. PICK S \in SUBSET Event : S = pend[w][k]
  BY DEF WorkerTypeOK
<1>2. Update(k, S) /\ Settle(w, k)
  BY <1>1 DEF UpdateLands
<1>3. Untouched(S)
  BY <1>2, StatementsAreLocal
<1>4. \A e \in S : status'[e] # "processing"
  <2>1. CASE k = "succeeded" /\ markSucceeded(S)
    BY <2>1 DEF markSucceeded, Finish, Set
  <2>2. CASE k = "retry" /\ scheduleRetry(S)
    <3>1. \A e \in S : retryCount[e] < RowMaxRetries[e]
      BY <1>1, <2>2, MaxRetriesAssumption, RowMaxRetriesAssumption
         DEF NothingDropped, TableTypeOK
    <3>2. QED
      BY <2>2, <3>1 DEF scheduleRetry, Backoff, Set
  <2>3. CASE k = "dlq" /\ moveToDLQ(S)
    BY <2>3 DEF moveToDLQ, Finish, Set
  <2>4. QED
    BY <1>2, <2>1, <2>2, <2>3 DEF Update
<1>5. /\ batch' = batch /\ late' = late
      /\ \A v \in Worker, j \in Decision :
           pend'[v][j] = IF v = w /\ j = k THEN {} ELSE pend[v][j]
  BY <1>2 DEF Settle, WorkerTypeOK
<1>6. \A v \in Worker, e \in Event : e \notin S /\ Holds(v, e) => Holds(v, e)'
  BY <1>1, <1>5 DEF Holds
<1>7. \A e \in Event : InUse(e)' => e \notin S
  BY <1>1, <1>2, SettleOwns DEF ClaimInv
<1>8. ASSUME NEW v \in Worker, NEW e \in pend'[v]["retry"]
      PROVE  e \in pend[v]["retry"] /\ e \notin S
  <2>1. "retry" \in Decision
    BY DEF Decision
  <2>2. e \in pend[v]["retry"]
    BY <1>5, <2>1
  <2>3. e \in Event
    BY <2>1, <2>2 DEF WorkerTypeOK
  <2>4. InUse(e)'
    BY <2>1 DEF InUse, Holds
  <2>5. QED
    BY <1>7, <2>2, <2>3, <2>4
<1>9. late' = {}
  BY <1>5 DEF NothingDropped
<1>10. QED
  BY <1>3, <1>4, <1>6, <1>8, <1>9, DropsNothing

LEMMA FaultCounts ==
  ASSUME WorkerTypeOK, Fault
  PROVE  faults' # 0
  BY DEF Fault, WorkerTypeOK

LEMMA StepDropsNothing ==
  ASSUME ~SlowHolders, ~SlowReplays,
         \A e \in Event : RowMaxRetries[e] >= MaxRetries,
         TypeOK, ClaimInv, DropInv, [Next]_vars
  PROVE  DropInv'
<1> SUFFICES ASSUME faults' = 0 PROVE NothingDropped'
  BY DEF DropInv
<1> USE DEF TypeOK
<1>a. Fault => FALSE
  BY FaultCounts
<1>b. ASSUME UNCHANGED faults PROVE NothingDropped
  BY <1>b DEF DropInv
<1>c. ASSUME UNCHANGED <<batch, pend, late, faults>>, UNCHANGED tableVars
      PROVE  NothingDropped'
  BY <1>b, <1>c DEF NothingDropped, Holds, tableVars
<1>d. ASSUME UNCHANGED workerVars, NEW S \in SUBSET Event, Untouched(S),
             \A e \in S : status'[e] # "processing" /\ ~InUse(e)
      PROVE  NothingDropped'
  BY <1>b, <1>d, DropsNothingOutside DEF workerVars
<1>e. \A e \in Event : InUse(e) => status[e] = "processing" /\ ~aged[e]
  BY DEF ClaimInv, InUseIsFresh
<1>1. ASSUME NEW w \in Worker, ClaimPendingEvents(w) PROVE NothingDropped'
  <2>1. PICK S \in SUBSET Event : ClaimEffect(S) /\ Receive(w, S, retryCount)
    BY <1>1, ClaimRowsClaims DEF ClaimPendingEvents
  <2>2. UNCHANGED faults
    BY <2>1 DEF Receive
  <2>3. QED
    BY <1>b, <2>1, <2>2, ClaimDropsNothing
<1>2. ASSUME NEW w \in Worker, ClaimAnswerLost(w) PROVE NothingDropped'
  BY <1>a, <1>2 DEF ClaimAnswerLost, MissReceipt
<1>3. ASSUME NEW w \in Worker, NEW e \in Event, Deliver(w, e) PROVE NothingDropped'
  BY <1>c, <1>3 DEF Deliver, Accept
<1>4. ASSUME NEW w \in Worker, PublishEnds(w) PROVE NothingDropped'
  <2>1. UNCHANGED faults
    BY <1>4 DEF PublishEnds, Group
  <2>2. QED
    BY <1>b, <1>4, <2>1, GroupDropsNothing
<1>5. ASSUME NEW w \in Worker, NEW k \in Decision, UpdateLands(w, k)
      PROVE  NothingDropped'
  <2>1. UNCHANGED faults
    BY <1>5 DEF UpdateLands, Settle
  <2>2. QED
    BY <1>b, <1>5, <2>1, UpdateDropsNothing
<1>6. ASSUME NEW w \in Worker, NEW k \in Decision, UpdateRejects(w, k)
      PROVE  NothingDropped'
  BY <1>a, <1>6 DEF UpdateRejects, Reject
<1>7. ASSUME NEW w \in Worker, ProcessDies(w) PROVE NothingDropped'
  BY <1>a, <1>7 DEF ProcessDies, Crash
<1>8. ASSUME NEW w \in Worker, ProcessStarts(w) PROVE NothingDropped'
  BY <1>c, <1>8 DEF ProcessStarts, Start
<1>9. ASSUME NEW e \in Event, CreateEvent(e) \/ ReplayEvent(e) PROVE NothingDropped'
  <2>1. UNCHANGED workerVars /\ Queue({e}) /\ status[e] # "processing"
    BY <1>9 DEF CreateEvent, ReplayEvent
  <2>2. Untouched({e}) /\ status'[e] = "pending"
    BY <2>1, StatementsAreLocal DEF Queue, Set
  <2>3. QED
    BY <1>d, <1>e, <2>1, <2>2
<1>10. ASSUME NEW e \in Event, Clock(e) PROVE NothingDropped'
  <2>1. /\ UNCHANGED <<batch, pend, late, faults>>
        /\ status' = status /\ retryCount' = retryCount
    BY <1>10 DEF Clock, BecomeDue, GrowOld, workerVars
  <2>2. NothingDropped
    BY <1>b, <2>1
  <2>3. QED
    BY <2>1, <2>2 DEF NothingDropped, Holds
<1>11. ASSUME NEW s \in late, LateUpdate(s) PROVE NothingDropped'
  <2>1. NothingDropped
    BY <1>b, <1>11 DEF LateUpdate, Retire
  <2>2. QED
    BY <2>1 DEF NothingDropped
<1>12. ASSUME RecoverStaleEvents PROVE NothingDropped'
  <2>1. NothingDropped
    BY <1>b, <1>12 DEF RecoverStaleEvents, workerVars
  <2>2. PICK e \in Event : Stale(e)
    BY <1>12 DEF RecoverStaleEvents
  <2>3. InUse(e)
    BY <2>1, <2>2 DEF NothingDropped, Stale, InUse
  <2>4. QED
    BY <1>e, <2>2, <2>3 DEF Stale
<1>13. ASSUME ReplaySelect PROVE NothingDropped'
  BY <1>c, <1>13 DEF ReplaySelect, workerVars
<1>14. ASSUME ReplayUpdate PROVE NothingDropped'
  <2>1. UNCHANGED workerVars /\ Queue(selected)
    BY <1>14 DEF ReplayUpdate
  <2>2. Untouched(selected) /\ \A e \in selected : status'[e] = "pending"
    BY <2>1, StatementsAreLocal DEF Queue, Set
  <2>3. \A e \in selected : ~InUse(e)
    BY <1>e DEF ClaimInv, SelectedIsQuiet
  <2>4. QED
    BY <1>d, <2>1, <2>2, <2>3
<1>15. CASE UNCHANGED vars
  BY <1>c, <1>15 DEF vars, workerVars
<1>16. QED
  BY <1>1, <1>2, <1>3, <1>4, <1>5, <1>6, <1>7, <1>8, <1>9, <1>10, <1>11, <1>12,
     <1>13, <1>14, <1>15
     DEF Next, WorkerStep, EventStep

\* With prompt holders, range replays that no claim comes between, and rows
\* whose max_retries is not below the worker's, a row is "processing" with
\* nobody working on it only if something failed: scheduleRetry, which skips
\* rows without a retry to spare, is never asked to skip one.
THEOREM RowsAreStrandedByFaultsOnly ==
  ASSUME ~SlowHolders, ~SlowReplays,
         \A e \in Event : RowMaxRetries[e] >= MaxRetries
  PROVE  Spec => []StrandedOnlyByFault
<1>1. OutboxInit => DropInv
  BY DEF OutboxInit, TableInit, WorkerInit, DropInv, NothingDropped, NoEvents, Decision
<1>2. TypeOK /\ ClaimInv /\ DropInv /\ [Next]_vars => DropInv'
  BY StepDropsNothing
<1>3. TypeOK /\ DropInv => StrandedOnlyByFault
  BY DEF TypeOK, WorkerTypeOK, DropInv, NothingDropped, StrandedOnlyByFault, InUse
<1>4. QED
  BY <1>1, <1>2, <1>3, TypeCorrect, ClaimsInvariant, PTL DEF Spec

-----------------------------------------------------------------------------
(***************************************************************************)
(* The outbox on MySQL.  Most of its steps are those of PostgreSQL; the    *)
(* claim takes two, and the recovery takes two and does not test its rows  *)
(* again in the second.                                                    *)
(***************************************************************************)
CONSTANT Scheduler
VARIABLE recovering

MySql == INSTANCE OutboxMySql

\* the steps that are the same on both databases
Shared ==
  \/ \E w \in Worker :
       \/ \E e \in Event : Deliver(w, e)
       \/ PublishEnds(w)
       \/ \E k \in Decision : UpdateLands(w, k) \/ UpdateRejects(w, k)
       \/ ProcessDies(w)
       \/ ProcessStarts(w)
  \/ \E e \in Event : EventStep(e)
  \/ \E s \in late : LateUpdate(s)
  \/ ReplaySelect
  \/ ReplayUpdate
  \/ UNCHANGED vars

\* the two halves of a claim
Commits(w) ==
  /\ \E S \in SUBSET Event : Uncontended(S) /\ ClaimEffect(S) /\ TakeIds(w, S)
  /\ UNCHANGED adminVars

Reads(w) ==
  /\ ReadRows(w, retryCount) \/ LoseIds(w)
  /\ UNCHANGED <<tableVars, adminVars>>

\* the two halves of a recovery, the second of which may fail
Selects(m) ==
  /\ recovering' = [recovering EXCEPT ![m] = {e \in Event : Stale(e)}]
  /\ UNCHANGED vars

Recovers(m) ==
  /\ Backoff(recovering[m])
  /\ recovering' = [recovering EXCEPT ![m] = {}]
  /\ UNCHANGED <<workerVars, adminVars>>

Forgets(m) ==
  /\ Fault
  /\ recovering' = [recovering EXCEPT ![m] = {}]
  /\ UNCHANGED <<tableVars, adminVars, phase, batch, seenRetries, sent, pend, late,
                 accepted>>

MySqlStep ==
  \/ /\ Shared \/ \E w \in Worker : Commits(w) \/ Reads(w)
     /\ UNCHANGED recovering
  \/ \E m \in Scheduler : Selects(m) \/ Recovers(m) \/ Forgets(m)

LEMMA SameTable ==
  ASSUME NEW S \in SUBSET Event
  PROVE  /\ MySql!Queue(S) <=> Queue(S)
         /\ MySql!Backoff(S) <=> Backoff(S)
         /\ \A k \in Decision : MySql!Update(k, S) <=> Update(k, S)
  BY DEF MySql!Queue, Queue, MySql!Backoff, Backoff, MySql!Update, Update,
         MySql!markSucceeded, markSucceeded, MySql!scheduleRetry, scheduleRetry,
         MySql!moveToDLQ, moveToDLQ, MySql!Finish, Finish, MySql!Set, Set,
         MySql!Bump, Bump

LEMMA SameWorkers ==
  ASSUME NEW w \in Worker
  PROVE  /\ MySql!PublishEnds(w) <=> PublishEnds(w)
         /\ MySql!ProcessDies(w) <=> ProcessDies(w)
         /\ MySql!ProcessStarts(w) <=> ProcessStarts(w)
         /\ \A e \in Event : MySql!Deliver(w, e) <=> Deliver(w, e)
         /\ \A k \in Decision : MySql!Settle(w, k) <=> Settle(w, k)
         /\ \A k \in Decision : MySql!Reject(w, k) <=> Reject(w, k)
<1> USE DEF MySql!tableVars, tableVars, MySql!adminVars, adminVars,
            MySql!Decision, Decision, MySql!NoEvents, NoEvents, MySql!NotSeen, NotSeen,
            MySql!Fault, Fault, MySql!Abandoned, Abandoned
<1>1. MySql!PublishEnds(w) <=> PublishEnds(w)
  BY DEF MySql!PublishEnds, PublishEnds, MySql!Group, Group, MySql!Outcome, Outcome,
         MySql!groupBatchResults, groupBatchResults, MySql!decideRetry, decideRetry
<1>2. MySql!ProcessDies(w) <=> ProcessDies(w)
  BY DEF MySql!ProcessDies, ProcessDies, MySql!Crash, Crash
<1>3. MySql!ProcessStarts(w) <=> ProcessStarts(w)
  BY DEF MySql!ProcessStarts, ProcessStarts, MySql!Start, Start
<1>4. \A e \in Event : MySql!Deliver(w, e) <=> Deliver(w, e)
  BY DEF MySql!Deliver, Deliver, MySql!Accept, Accept
<1>5. \A k \in Decision : MySql!Settle(w, k) <=> Settle(w, k)
  BY DEF MySql!Settle, Settle
<1>6. \A k \in Decision : MySql!Reject(w, k) <=> Reject(w, k)
  BY DEF MySql!Reject, Reject
<1>7. QED
  BY <1>1, <1>2, <1>3, <1>4, <1>5, <1>6

LEMMA SameEvents ==
  ASSUME NEW e \in Event
  PROVE  MySql!EventStep(e) => EventStep(e) /\ UNCHANGED recovering
<1> USE DEF MySql!workerVars, workerVars, MySql!adminVars, adminVars
<1>1. {e} \in SUBSET Event
  OBVIOUS
<1>2. MySql!CreateEvent(e) => CreateEvent(e) /\ UNCHANGED recovering
  BY <1>1, SameTable DEF MySql!CreateEvent, CreateEvent
<1>3. MySql!ReplayEvent(e) => ReplayEvent(e) /\ UNCHANGED recovering
  BY <1>1, SameTable DEF MySql!ReplayEvent, ReplayEvent, MySql!Replay, Replay
<1>4. MySql!Clock(e) => Clock(e)
  BY DEF MySql!Clock, Clock, MySql!BecomeDue, BecomeDue, MySql!GrowOld, GrowOld,
         MySql!InUse, InUse, MySql!Holds, Holds, MySql!Decision, Decision
<1>5. QED
  BY <1>2, <1>3, <1>4 DEF MySql!EventStep, EventStep

LEMMA SameReplays ==
  ASSUME TypeOK
  PROVE  /\ MySql!ReplaySelect => ReplaySelect /\ UNCHANGED recovering
         /\ MySql!ReplayUpdate => ReplayUpdate /\ UNCHANGED recovering
<1> USE DEF MySql!workerVars, workerVars, MySql!tableVars, tableVars
<1>1. MySql!ReplaySelect => ReplaySelect /\ UNCHANGED recovering
  BY DEF MySql!ReplaySelect, ReplaySelect, MySql!Replay, Replay, MySql!Selectable, Selectable
<1>2. selected \in SUBSET Event
  BY DEF TypeOK
<1>3. MySql!ReplayUpdate => ReplayUpdate /\ UNCHANGED recovering
  BY <1>2, SameTable DEF MySql!ReplayUpdate, ReplayUpdate
<1>4. QED
  BY <1>1, <1>3

LEMMA SameUpdates ==
  ASSUME TypeOK, NEW w \in Worker, NEW k \in Decision
  PROVE  MySql!UpdateLands(w, k) \/ MySql!UpdateRejects(w, k)
           => (UpdateLands(w, k) \/ UpdateRejects(w, k)) /\ UNCHANGED recovering
<1> USE DEF MySql!tableVars, tableVars, MySql!adminVars, adminVars
<1>1. pend[w][k] \in SUBSET Event
  BY DEF TypeOK, WorkerTypeOK
<1>2. MySql!UpdateLands(w, k) => UpdateLands(w, k) /\ UNCHANGED recovering
  BY <1>1, SameTable, SameWorkers DEF MySql!UpdateLands, UpdateLands
<1>3. MySql!UpdateRejects(w, k) => UpdateRejects(w, k) /\ UNCHANGED recovering
  BY <1>1, SameTable, SameWorkers DEF MySql!UpdateRejects, UpdateRejects
<1>4. QED
  BY <1>2, <1>3

LEMMA SameLateUpdates ==
  ASSUME TypeOK, NEW s \in late
  PROVE  MySql!LateUpdate(s) => LateUpdate(s) /\ UNCHANGED recovering
<1>1. s.kind \in Decision /\ s.evs \in SUBSET Event
  BY DEF TypeOK, WorkerTypeOK, Statement
<1>2. QED
  BY <1>1, SameTable
     DEF MySql!LateUpdate, LateUpdate, MySql!Retire, Retire,
         MySql!tableVars, tableVars, MySql!adminVars, adminVars

LEMMA MySqlClaims ==
  ASSUME NEW w \in Worker
  PROVE  /\ MySql!ClaimCommits(w) => Commits(w) /\ UNCHANGED recovering
         /\ MySql!ClaimReads(w) => Reads(w) /\ UNCHANGED recovering
<1>1. ASSUME NEW S \in SUBSET Event, MySql!ClaimRows(S)
      PROVE  ClaimEffect(S)
  BY <1>1 DEF MySql!ClaimRows, MySql!Claimable, ClaimEffect, MySql!Set, Set, MySql!Bump, Bump
<1>2. ASSUME MySql!ClaimCommits(w) PROVE Commits(w) /\ UNCHANGED recovering
  BY <1>1, <1>2
     DEF MySql!ClaimCommits, Commits, MySql!Uncontended, Uncontended, MySql!TakeIds, TakeIds,
         MySql!adminVars, adminVars
<1>3. MySql!ClaimReads(w) => Reads(w) /\ UNCHANGED recovering
  BY DEF MySql!ClaimReads, Reads, MySql!ReadRows, ReadRows, MySql!LoseIds, LoseIds,
         MySql!Fault, Fault, MySql!tableVars, tableVars, MySql!adminVars, adminVars
<1>4. QED
  BY <1>2, <1>3

LEMMA MySqlRecovers ==
  ASSUME NEW m \in Scheduler, recovering \in [Scheduler -> SUBSET Event],
         MySql!MaintenanceStep(m)
  PROVE  Selects(m) \/ Recovers(m) \/ Forgets(m)
<1> USE DEF MySql!tableVars, tableVars, MySql!workerVars, workerVars,
            MySql!adminVars, adminVars, MySql!vars, vars
<1>1. CASE MySql!RecoverSelect(m)
  BY <1>1 DEF MySql!RecoverSelect, MySql!Stale, Stale, Selects
<1>2. CASE MySql!RecoverUpdate(m)
  <2>1. recovering[m] \in SUBSET Event
    OBVIOUS
  <2>2. QED
    BY <1>2, <2>1, SameTable DEF MySql!RecoverUpdate, Recovers
<1>3. CASE MySql!RecoverFails(m)
  BY <1>3 DEF MySql!RecoverFails, Forgets, MySql!Fault, Fault
<1>4. QED
  BY <1>1, <1>2, <1>3 DEF MySql!MaintenanceStep

LEMMA MySqlSteps ==
  ASSUME TypeOK, recovering \in [Scheduler -> SUBSET Event], [MySql!Next]_(MySql!mysqlVars)
  PROVE  MySqlStep
<1>1. ASSUME NEW w \in Worker, MySql!WorkerStep(w) PROVE MySqlStep
  <2>1. CASE MySql!ClaimCommits(w) \/ MySql!ClaimReads(w)
    BY <2>1, MySqlClaims DEF MySqlStep
  <2>2. ASSUME NEW k \in Decision, MySql!UpdateLands(w, k) \/ MySql!UpdateRejects(w, k)
        PROVE  MySqlStep
    BY <2>2, SameUpdates DEF MySqlStep, Shared
  <2>3. CASE MySql!Elsewhere(w)
    BY <2>3, SameWorkers DEF MySql!Elsewhere, MySqlStep, Shared
  <2>4. QED
    BY <1>1, <2>1, <2>2, <2>3 DEF MySql!WorkerStep, MySql!Decision, Decision
<1>2. ASSUME NEW e \in Event, MySql!EventStep(e) PROVE MySqlStep
  BY <1>2, SameEvents DEF MySqlStep, Shared
<1>3. ASSUME NEW s \in late, MySql!LateUpdate(s) PROVE MySqlStep
  BY <1>3, SameLateUpdates DEF MySqlStep, Shared
<1>4. ASSUME NEW m \in Scheduler, MySql!MaintenanceStep(m) PROVE MySqlStep
  BY <1>4, MySqlRecovers DEF MySqlStep
<1>5. CASE MySql!ReplaySelect \/ MySql!ReplayUpdate
  BY <1>5, SameReplays DEF MySqlStep, Shared
<1>6. CASE UNCHANGED MySql!mysqlVars
  BY <1>6 DEF MySqlStep, Shared, MySql!mysqlVars, MySql!vars, vars, MySql!tableVars, tableVars,
              MySql!workerVars, workerVars, MySql!adminVars, adminVars
<1>7. QED
  BY <1>1, <1>2, <1>3, <1>4, <1>5, <1>6 DEF MySql!Next

LEMMA SharedAreNext == ASSUME Shared PROVE [Next]_vars
  BY DEF Shared, Next, WorkerStep

LEMMA MySqlInit ==
  ASSUME MySql!Init
  PROVE  OutboxInit /\ recovering = [m \in Scheduler |-> {}]
  BY DEF MySql!Init, MySql!OutboxInit, OutboxInit, MySql!TableInit, TableInit,
         MySql!WorkerInit, WorkerInit, MySql!NoEvents, NoEvents, MySql!NotSeen, NotSeen,
         MySql!Decision, Decision

-----------------------------------------------------------------------------
(* Types, and what is called succeeded, whatever the timing *)

MySqlTypeOK == TypeOK /\ recovering \in [Scheduler -> SUBSET Event]

LEMMA MySqlTypeStep ==
  ASSUME MySqlTypeOK, MySqlStep
  PROVE  MySqlTypeOK'
<1> USE DEF MySqlTypeOK
<1>1. CASE Shared /\ UNCHANGED recovering
  BY <1>1, SharedAreNext, TypeStep
<1>2. ASSUME NEW w \in Worker, Commits(w), UNCHANGED recovering PROVE MySqlTypeOK'
  <2>1. PICK S \in SUBSET Event : ClaimEffect(S) /\ TakeIds(w, S)
    BY <1>2 DEF Commits
  <2>2. TableTypeOK'
    BY <2>1, ClaimType DEF TypeOK
  <2>3. WorkerTypeOK'
    BY <2>1 DEF TypeOK, WorkerTypeOK, TakeIds, Phase
  <2>4. QED
    BY <1>2, <2>2, <2>3 DEF Commits, TypeOK, adminVars
<1>3. ASSUME NEW w \in Worker, Reads(w), UNCHANGED recovering PROVE MySqlTypeOK'
  <2>1. TableTypeOK'
    BY <1>3, TableStutter DEF Reads, TypeOK
  <2>2. CASE ReadRows(w, retryCount)
    <3>1. [e \in Event |-> IF e \in batch[w] THEN retryCount[e] ELSE 0] \in [Event -> Nat]
      BY DEF TypeOK, TableTypeOK
    <3>2. WorkerTypeOK'
      BY <2>2, <3>1 DEF TypeOK, WorkerTypeOK, ReadRows, Phase
    <3>3. QED
      BY <1>3, <2>1, <3>2 DEF Reads, TypeOK, adminVars
  <2>3. CASE LoseIds(w)
    <3>1. WorkerTypeOK'
      BY <2>3, FaultType DEF TypeOK, WorkerTypeOK, LoseIds, Phase
    <3>2. QED
      BY <1>3, <2>1, <3>1 DEF Reads, TypeOK, adminVars
  <2>4. QED
    BY <1>3, <2>2, <2>3 DEF Reads
<1>4. ASSUME NEW m \in Scheduler, Selects(m) PROVE MySqlTypeOK'
  <2>1. recovering' \in [Scheduler -> SUBSET Event]
    BY <1>4 DEF Selects
  <2>2. QED
    BY <1>4, <2>1, TypeStep DEF Selects
<1>5. ASSUME NEW m \in Scheduler, Recovers(m) PROVE MySqlTypeOK'
  <2>1. recovering[m] \in SUBSET Event
    OBVIOUS
  <2>2. TableTypeOK' /\ WorkerTypeOK'
    BY <1>5, <2>1, BackoffType, WorkerStutter DEF Recovers, TypeOK
  <2>3. QED
    BY <1>5, <2>2 DEF Recovers, TypeOK, adminVars
<1>6. ASSUME NEW m \in Scheduler, Forgets(m) PROVE MySqlTypeOK'
  <2>1. TableTypeOK' /\ WorkerTypeOK'
    BY <1>6, TableStutter, FaultType DEF Forgets, TypeOK, WorkerTypeOK
  <2>2. QED
    BY <1>6, <2>1 DEF Forgets, TypeOK, adminVars
<1>7. QED
  BY <1>1, <1>2, <1>3, <1>4, <1>5, <1>6 DEF MySqlStep

\* Each column, program counter and statement of the outbox on MySQL keeps its
\* type, and so do the ids that schedulers have selected.
THEOREM MySqlTypeCorrect == MySql!Spec => []MySqlTypeOK
<1>1. MySql!Init => MySqlTypeOK
  BY MySqlInit, TypeInit DEF MySqlTypeOK
<1>2. MySqlTypeOK /\ [MySql!Next]_(MySql!mysqlVars) => MySqlTypeOK'
  BY MySqlSteps, MySqlTypeStep DEF MySqlTypeOK
<1>3. QED
  BY <1>1, <1>2, PTL DEF MySql!Spec

LEMMA MySqlAcceptedStep ==
  ASSUME MySqlTypeOK, AcceptedInv, MySqlStep
  PROVE  AcceptedInv'
<1>1. CASE Shared
  BY <1>1, SharedAreNext, AcceptedStep DEF MySqlTypeOK
<1>2. ASSUME NEW w \in Worker, Commits(w) PROVE AcceptedInv'
  <2>1. PICK S \in SUBSET Event : ClaimEffect(S) /\ TakeIds(w, S)
    BY <1>2 DEF Commits
  <2>2. QED
    BY <2>1 DEF AcceptedInv, PromisedInv, SucceededWasAccepted, ClaimEffect, TakeIds, Set
<1>3. ASSUME NEW w \in Worker, Reads(w) PROVE AcceptedInv'
  BY <1>3 DEF Reads, ReadRows, LoseIds, tableVars, AcceptedInv, PromisedInv,
              SucceededWasAccepted
<1>4. ASSUME NEW m \in Scheduler, Selects(m) PROVE AcceptedInv'
  BY <1>4, AcceptedStep DEF Selects, MySqlTypeOK
<1>5. ASSUME NEW m \in Scheduler, Recovers(m) PROVE AcceptedInv'
  BY <1>5 DEF Recovers, Backoff, Set, workerVars, AcceptedInv, PromisedInv,
              SucceededWasAccepted
<1>6. ASSUME NEW m \in Scheduler, Forgets(m) PROVE AcceptedInv'
  BY <1>6 DEF Forgets, tableVars, AcceptedInv, PromisedInv, SucceededWasAccepted
<1>7. QED
  BY <1>1, <1>2, <1>3, <1>4, <1>5, <1>6 DEF MySqlStep

\* Although recoveries and replays write rows they have read before, and any
\* number of schedulers do, no event is called "succeeded" on MySQL that no
\* destination has taken.
THEOREM MySqlSucceedsDelivered == MySql!Spec => []AcceptedInv
<1>1. MySql!Init => AcceptedInv
  BY MySqlInit, AcceptedInit
<1>2. MySqlTypeOK /\ AcceptedInv /\ [MySql!Next]_(MySql!mysqlVars) => AcceptedInv'
  BY MySqlSteps, MySqlAcceptedStep DEF MySqlTypeOK
<1>3. QED
  BY <1>1, <1>2, MySqlTypeCorrect, PTL DEF MySql!Spec

-----------------------------------------------------------------------------
(* One scheduler, with prompt holders and range replays: what it has selected *)
(* stays stale until it updates it, since nobody else ends a stale claim.     *)

OneScheduler == \A m, n \in Scheduler : m = n

RecoveringIsStale == \A m \in Scheduler : \A e \in recovering[m] : Stale(e)

LEMMA StaleIsLeft ==
  ASSUME TypeOK, ClaimInv, NEW S \in SUBSET Event, Untouched(S), NEW e \in Event, Stale(e),
         e \notin S
  PROVE  status'[e] = "processing" /\ aged'[e] /\ retryCount'[e] < RowMaxRetries[e]
  BY DEF Stale, Untouched

LEMMA SharedLeaveStale ==
  ASSUME TypeOK, ClaimInv, Shared, NEW e \in Event, Stale(e)
  PROVE  status'[e] = "processing" /\ aged'[e] /\ retryCount'[e] < RowMaxRetries[e]
<1> DEFINE Still == status'[e] = "processing" /\ aged'[e] /\ retryCount'[e] < RowMaxRetries[e]
<1> SUFFICES Still
  OBVIOUS
<1> USE DEF TypeOK
<1>a. ~InUse(e) /\ status[e] = "processing"
  BY NotInUse DEF Stale
<1>b. UNCHANGED tableVars => Still
  BY DEF tableVars, Stale
<1>1. ASSUME NEW S \in SUBSET Event, Untouched(S), e \notin S PROVE Still
  BY <1>1, StaleIsLeft
<1> HIDE DEF Still
<1>2. ASSUME NEW w \in Worker, NEW x \in Event, Deliver(w, x) PROVE Still
  BY <1>2, <1>b DEF Deliver
<1>3. ASSUME NEW w \in Worker, PublishEnds(w) \/ ProcessDies(w) \/ ProcessStarts(w)
      PROVE  Still
  BY <1>3, <1>b DEF PublishEnds, ProcessDies, ProcessStarts
<1>4. ASSUME NEW w \in Worker, NEW k \in Decision, UpdateLands(w, k) \/ UpdateRejects(w, k)
      PROVE  Still
  <2>1. pend[w][k] \in SUBSET Event /\ e \notin pend[w][k]
    BY <1>a DEF WorkerTypeOK, InUse, Holds
  <2>2. UNCHANGED tableVars \/ Update(k, pend[w][k])
    BY <1>4 DEF UpdateLands, UpdateRejects
  <2>3. QED
    BY <1>b, <1>1, <2>1, <2>2, StatementsAreLocal
<1>5. ASSUME NEW x \in Event, CreateEvent(x) \/ ReplayEvent(x) PROVE Still
  <2>1. Queue({x}) /\ x # e
    BY <1>5, <1>a DEF CreateEvent, ReplayEvent
  <2>2. QED
    BY <1>1, <2>1, StatementsAreLocal
<1>6. ASSUME NEW x \in Event, Clock(x) PROVE Still
  BY <1>6 DEF Clock, BecomeDue, GrowOld, Stale, Still, TableTypeOK
<1>7. ASSUME NEW s \in late, LateUpdate(s) PROVE Still
  <2>1. s.kind \in Decision /\ s.evs \in SUBSET Event /\ e \notin s.evs
    BY <1>a DEF WorkerTypeOK, Statement, InUse
  <2>2. UNCHANGED tableVars \/ Update(s.kind, s.evs)
    BY <1>7 DEF LateUpdate
  <2>3. QED
    BY <1>b, <1>1, <2>1, <2>2, StatementsAreLocal
<1>8. ASSUME ReplaySelect PROVE Still
  BY <1>8, <1>b DEF ReplaySelect
<1>9. ASSUME ReplayUpdate PROVE Still
  <2>1. Queue(selected) /\ selected \in SUBSET Event /\ e \notin selected
    BY <1>9, <1>a DEF ReplayUpdate, ClaimInv, SelectedIsQuiet
  <2>2. QED
    BY <1>1, <2>1, StatementsAreLocal
<1>10. CASE UNCHANGED vars
  BY <1>10, <1>b DEF vars
<1>11. QED
  BY <1>2, <1>3, <1>4, <1>5, <1>6, <1>7, <1>8, <1>9, <1>10 DEF Shared, EventStep

LEMMA RecoveringStaysStale ==
  ASSUME OneScheduler, MySqlTypeOK, ClaimInv, RecoveringIsStale, MySqlStep
  PROVE  RecoveringIsStale'
<1> SUFFICES ASSUME NEW m \in Scheduler, NEW e \in recovering'[m]
             PROVE  status'[e] = "processing" /\ aged'[e] /\ retryCount'[e] < RowMaxRetries[e]
  BY DEF RecoveringIsStale, Stale
<1> USE DEF MySqlTypeOK
<1>a. UNCHANGED tableVars /\ Stale(e) => status'[e] = "processing" /\ aged'[e]
                                          /\ retryCount'[e] < RowMaxRetries[e]
  BY DEF Stale, tableVars
<1>1. CASE Shared /\ UNCHANGED recovering
  BY <1>1, SharedLeaveStale DEF RecoveringIsStale
<1>2. ASSUME NEW w \in Worker, Commits(w), UNCHANGED recovering
      PROVE  status'[e] = "processing" /\ aged'[e] /\ retryCount'[e] < RowMaxRetries[e]
  <2>1. PICK S \in SUBSET Event : ClaimEffect(S)
    BY <1>2 DEF Commits
  <2>2. e \in Event /\ Stale(e) /\ e \notin S
    BY <1>2, <2>1 DEF RecoveringIsStale, ClaimEffect, Stale
  <2>3. Untouched(S)
    BY <2>1, StatementsAreLocal DEF TypeOK
  <2>4. QED
    BY <2>2, <2>3, StaleIsLeft
<1>3. ASSUME NEW w \in Worker, Reads(w), UNCHANGED recovering
      PROVE  status'[e] = "processing" /\ aged'[e] /\ retryCount'[e] < RowMaxRetries[e]
  BY <1>3, <1>a DEF Reads, RecoveringIsStale
<1>4. ASSUME NEW n \in Scheduler, Selects(n)
      PROVE  status'[e] = "processing" /\ aged'[e] /\ retryCount'[e] < RowMaxRetries[e]
  BY <1>4, <1>a DEF Selects, RecoveringIsStale, vars
<1>5. ASSUME NEW n \in Scheduler, Recovers(n) PROVE FALSE
  BY <1>5 DEF Recovers, OneScheduler
<1>6. ASSUME NEW n \in Scheduler, Forgets(n) PROVE FALSE
  BY <1>6 DEF Forgets, OneScheduler
<1>7. QED
  BY <1>1, <1>2, <1>3, <1>4, <1>5, <1>6 DEF MySqlStep

\* The first half of a claim: from then on the worker has the rows.
LEMMA CommitKeepsClaims ==
  ASSUME ~SlowReplays, MySqlTypeOK, MySqlTypeOK', ClaimInv, NEW w \in Worker, Commits(w)
  PROVE  ClaimInv'
<1> USE DEF MySqlTypeOK, TypeOK
<1>1. PICK S \in SUBSET Event : Uncontended(S) /\ ClaimEffect(S) /\ TakeIds(w, S)
  BY DEF Commits
<1>2. \A e \in S : /\ status[e] \in {"pending", "failed"}
                   /\ status'[e] = "processing" /\ ~aged'[e]
  BY <1>1, ClaimedAreFresh
<1>3. \A e \in S : ~InUse(e)
  BY <1>2, NotInUse
<1>4. Ownership' /\ \A e \in Event : InUse(e)' => InUse(e) \/ e \in S
  BY <1>1, <1>3, ClaimOwns DEF ClaimInv, TakeIds
<1>5. Untouched(S)
  BY <1>1, StatementsAreLocal
<1>6. InUseIsFresh'
  BY <1>2, <1>4, <1>5 DEF ClaimInv, InUseIsFresh, Untouched
<1>7. /\ retryCount' = retryCount /\ seenRetries' = seenRetries
      /\ \A v \in Worker : phase'[v] = "publishing" =>
           phase[v] = "publishing" /\ batch'[v] = batch[v]
  BY <1>1 DEF ClaimEffect, TakeIds, WorkerTypeOK
<1>8. DecidesOnCurrentCount'
  BY <1>7 DEF ClaimInv, DecidesOnCurrentCount
<1>9. EveryClaimIsCounted'
  BY <1>1, ClaimCounts DEF ClaimInv
<1>10. SelectedIsQuiet'
  BY <1>1, <1>5, QuietAfterClaim DEF Commits, adminVars
<1>11. QED
  BY <1>4, <1>6, <1>8, <1>9, <1>10 DEF ClaimInv

\* The second half: the worker learns the retry counts, or loses the rows.
LEMMA ReadKeepsClaims ==
  ASSUME MySqlTypeOK, MySqlTypeOK', ClaimInv, NEW w \in Worker, Reads(w)
  PROVE  ClaimInv'
<1> USE DEF MySqlTypeOK, TypeOK
<1>1. CASE ReadRows(w, retryCount)
  <2>1. /\ UNCHANGED <<batch, pend, late>> /\ phase[w] = "reading"
        /\ \A v \in Worker : phase'[v] = IF v = w THEN "publishing" ELSE phase[v]
    BY <1>1 DEF ReadRows, WorkerTypeOK
  <2>2. \A v \in Worker, e \in Event : Holds(v, e)' <=> Holds(v, e)
    BY <2>1 DEF Holds
  <2>3. \A e \in Event : InUse(e)' <=> InUse(e)
    BY <2>1, <2>2 DEF InUse
  <2>4. ClaimIsExclusive'
    BY <2>1, <2>2 DEF ClaimInv, Ownership, ClaimIsExclusive
  <2>5. Ownership'
    BY <2>1, <2>4 DEF ClaimInv, Ownership
  <2>6. \A v \in Worker : \A e \in batch[v] : e \in Event
    BY DEF WorkerTypeOK
  <2>7. \A v \in Worker : \A e \in Event :
          seenRetries'[v][e] = IF v # w THEN seenRetries[v][e]
                               ELSE IF e \in batch[w] THEN retryCount[e] ELSE 0
    BY <1>1 DEF ReadRows, WorkerTypeOK
  <2>8. DecidesOnCurrentCount'
    BY <2>1, <2>6, <2>7 DEF Reads, tableVars, ClaimInv, DecidesOnCurrentCount
  <2>9. QED
    BY <2>3, <2>5, <2>8
       DEF Reads, tableVars, adminVars, ClaimInv, InUseIsFresh, SelectedIsQuiet,
           EveryClaimIsCounted
<1>2. CASE LoseIds(w)
  <2>1. phase[w] = "reading" /\ \A k \in Decision : pend[w][k] = {}
    BY <1>2 DEF LoseIds, ClaimInv, Ownership
  <2>2. pend[w] = NoEvents
    BY <2>1 DEF NoEvents, WorkerTypeOK
  <2>3. pend' = [pend EXCEPT ![w] = NoEvents]
    BY <1>2, <2>2 DEF LoseIds, WorkerTypeOK
  <2>4. Abandoned(w, {}) = {}
    BY DEF Abandoned
  <2>5. /\ late' = late \cup Abandoned(w, {}) /\ batch' = [batch EXCEPT ![w] = {}]
        /\ phase' = [phase EXCEPT ![w] = "polling"]
    BY <1>2, <2>4 DEF LoseIds
  <2>6. /\ Ownership'
        /\ \A e \in Event : InUse(e)' =>
             InUse(e) /\ \A k \in Decision \ {} : e \notin pend[w][k]
    <3>1. {} \in SUBSET Decision /\ "polling" \in {"polling", "down"}
      OBVIOUS
    <3>2. QED
      BY <2>3, <2>5, <3>1, AbandonOwns DEF ClaimInv
  <2>7. \A v \in Worker : phase'[v] = "publishing" =>
          /\ phase[v] = "publishing"
          /\ batch'[v] = batch[v]
          /\ seenRetries'[v] = seenRetries[v]
    BY <1>2 DEF LoseIds, WorkerTypeOK
  <2>8. QED
    BY <2>6, <2>7, NoStatement DEF Reads
<1>3. QED
  BY <1>1, <1>2 DEF Reads

\* A recovery updates rows that are still stale, hence in nobody's hands.
LEMMA RecoveryKeepsClaims ==
  ASSUME MySqlTypeOK, MySqlTypeOK', ClaimInv, RecoveringIsStale, NEW m \in Scheduler,
         Recovers(m)
  PROVE  ClaimInv'
<1> USE DEF MySqlTypeOK, TypeOK
<1>1. PICK S \in SUBSET Event : S = recovering[m]
  OBVIOUS
<1>2. \A e \in S : status[e] = "processing" /\ ~InUse(e)
  BY <1>1, NotInUse DEF RecoveringIsStale, Stale
<1>3. Backoff(S) /\ UNCHANGED <<workerVars, selected>>
  BY <1>1 DEF Recovers, adminVars
<1>4. Untouched(S) /\ EveryClaimIsCounted'
  BY <1>2, <1>3, StatementsAreLocal, BackoffCounts DEF ClaimInv
<1>5. SelectedIsQuiet'
  BY <1>2, <1>3, <1>4 DEF ClaimInv, SelectedIsQuiet, Untouched
<1>6. QED
  BY <1>2, <1>3, <1>4, <1>5, OutsideUse

LEMMA MySqlClaimStep ==
  ASSUME ~SlowHolders, ~SlowReplays, MySqlTypeOK, MySqlTypeOK', ClaimInv, RecoveringIsStale,
         MySqlStep
  PROVE  ClaimInv'
<1> USE DEF MySqlTypeOK
<1>1. CASE Shared
  BY <1>1, SharedAreNext, ClaimStep
<1>2. ASSUME NEW w \in Worker, Commits(w) \/ Reads(w) PROVE ClaimInv'
  BY <1>2, CommitKeepsClaims, ReadKeepsClaims
<1>3. ASSUME NEW m \in Scheduler, Selects(m) PROVE ClaimInv'
  BY <1>3, ClaimStep DEF Selects
<1>4. ASSUME NEW m \in Scheduler, Recovers(m) PROVE ClaimInv'
  BY <1>4, RecoveryKeepsClaims
<1>5. ASSUME NEW m \in Scheduler, Forgets(m) PROVE ClaimInv'
  <2>1. Ownership' /\ \A e \in Event : InUse(e)' <=> InUse(e)
    BY <1>5, IdleOwns DEF Forgets, ClaimInv, TypeOK
  <2>2. QED
    BY <1>5, <2>1, NoStatement DEF Forgets
<1>6. QED
  BY <1>1, <1>2, <1>3, <1>4, <1>5 DEF MySqlStep

LEMMA MySqlBudgetStep ==
  ASSUME MySqlTypeOK, RetryBudget, RecoveringIsStale, MySqlStep
  PROVE  RetryBudget'
<1> USE DEF MySqlTypeOK
<1>a. UNCHANGED retryCount => RetryBudget'
  BY DEF RetryBudget
<1>1. CASE Shared
  BY <1>1, SharedAreNext, BudgetStep
<1>2. ASSUME NEW w \in Worker, Commits(w) \/ Reads(w) PROVE RetryBudget'
  BY <1>2, <1>a DEF Commits, ClaimEffect, Reads, tableVars
<1>3. ASSUME NEW m \in Scheduler, Selects(m) \/ Forgets(m) PROVE RetryBudget'
  BY <1>3, <1>a DEF Selects, Forgets, vars, tableVars
<1>4. ASSUME NEW m \in Scheduler, Recovers(m) PROVE RetryBudget'
  <2>1. recovering[m] \in SUBSET Event
    OBVIOUS
  <2>2. \A e \in recovering[m] : retryCount[e] < RowMaxRetries[e]
    BY DEF RecoveringIsStale, Stale
  <2>3. QED
    BY <1>4, <2>1, <2>2, BackoffWithinBudget DEF Recovers, TypeOK
<1>5. QED
  BY <1>1, <1>2, <1>3, <1>4 DEF MySqlStep

LEMMA MySqlStepMoves ==
  ASSUME ~SlowReplays, MySqlTypeOK, ClaimInv, AcceptedInv, RecoveringIsStale, MySqlStep
  PROVE  StatusStep
<1> USE DEF MySqlTypeOK
<1>1. CASE Shared
  BY <1>1, SharedAreNext, EveryStepMoves
<1>2. ASSUME NEW w \in Worker, Commits(w) PROVE StatusStep
  BY <1>2, ClaimMoves DEF Commits, TakeIds, StatusStep, TypeOK
<1>3. ASSUME NEW w \in Worker, Reads(w) PROVE StatusStep
  BY <1>3 DEF Reads, ReadRows, LoseIds, tableVars, StatusStep
<1>4. ASSUME NEW m \in Scheduler, Selects(m) \/ Forgets(m) PROVE StatusStep
  BY <1>4 DEF Selects, Forgets, vars, tableVars, workerVars, StatusStep
<1>5. ASSUME NEW m \in Scheduler, Recovers(m) PROVE StatusStep
  <2>1. recovering[m] \in SUBSET Event /\ \A e \in recovering[m] : status[e] = "processing"
    BY DEF RecoveringIsStale, Stale
  <2>2. QED
    BY <1>5, <2>1, BackoffMoves DEF Recovers, workerVars, StatusStep, TypeOK
<1>6. QED
  BY <1>1, <1>2, <1>3, <1>4, <1>5 DEF MySqlStep

MySqlInv == ClaimInv /\ RecoveringIsStale

\* With one scheduler, prompt holders and range replays, what a recovery has
\* selected on MySQL stays stale, and what is in use stays with its holder.
THEOREM MySqlClaimsInvariant ==
  ASSUME ~SlowHolders, ~SlowReplays, OneScheduler
  PROVE  MySql!Spec => []MySqlInv
<1>1. MySql!Init => MySqlInv
  BY MySqlInit, ClaimInit DEF MySqlInv, RecoveringIsStale
<1>2. MySqlTypeOK /\ MySqlTypeOK' /\ MySqlInv /\ [MySql!Next]_(MySql!mysqlVars) => MySqlInv'
  BY MySqlSteps, MySqlClaimStep, RecoveringStaysStale DEF MySqlTypeOK, MySqlInv
<1>3. QED
  BY <1>1, <1>2, MySqlTypeCorrect, PTL DEF MySql!Spec

\* Under these assumptions no event on MySQL is in the hands of two workers, and
\* no UPDATE is late while somebody else has its event.
THEOREM MySqlClaimsAreExclusive ==
  ASSUME ~SlowHolders, ~SlowReplays, OneScheduler
  PROVE  MySql!Spec => []ClaimIsExclusive
<1>1. MySqlInv => ClaimIsExclusive
  BY DEF MySqlInv, ClaimInv, Ownership
<1>2. QED
  BY <1>1, MySqlClaimsInvariant, PTL

\* Under these assumptions the retry count that a worker on MySQL reads after its
\* claim is still the one in the table when it decides on a retry.
THEOREM MySqlCountsAreCurrent ==
  ASSUME ~SlowHolders, ~SlowReplays, OneScheduler
  PROVE  MySql!Spec => []DecidesOnCurrentCount
<1>1. MySqlInv => DecidesOnCurrentCount
  BY DEF MySqlInv, ClaimInv
<1>2. QED
  BY <1>1, MySqlClaimsInvariant, PTL

\* Under these assumptions attempts and recoveries on MySQL never use more than
\* the retry budget of a row, although the recovery's UPDATE does not test it.
THEOREM MySqlRetriesWithinBudget ==
  ASSUME ~SlowHolders, ~SlowReplays, OneScheduler
  PROVE  MySql!Spec => []RetryBudget
<1>1. MySql!Init => RetryBudget
  BY MySqlInit, BudgetInit
<1>2. MySqlTypeOK /\ MySqlInv /\ RetryBudget /\ [MySql!Next]_(MySql!mysqlVars) => RetryBudget'
  BY MySqlSteps, MySqlBudgetStep DEF MySqlTypeOK, MySqlInv
<1>3. QED
  BY <1>1, <1>2, MySqlTypeCorrect, MySqlClaimsInvariant, PTL DEF MySql!Spec

\* Under these assumptions a row on MySQL changes status only along the documented
\* transitions; "succeeded" is final.
THEOREM MySqlChangesAreDocumented ==
  ASSUME ~SlowHolders, ~SlowReplays, OneScheduler
  PROVE  MySql!Spec => OnlyDocumentedChanges
<1>1. MySqlTypeOK /\ MySqlInv /\ AcceptedInv /\ [MySql!Next]_(MySql!mysqlVars)
        => [\A e \in Event : status'[e] # status[e] =>
              DocumentedChange(status[e], status'[e])]_status
  BY MySqlSteps, MySqlStepMoves, MovesAreDocumented DEF MySqlTypeOK, MySqlInv
<1>2. QED
  BY <1>1, MySqlTypeCorrect, MySqlClaimsInvariant, MySqlSucceedsDelivered, PTL
     DEF MySql!Spec, OnlyDocumentedChanges

\* Under these assumptions the outbox on MySQL keeps the promise of EventDelivery.
THEOREM MySqlDeliveryIsImplemented ==
  ASSUME ~SlowHolders, ~SlowReplays, OneScheduler
  PROVE  MySql!Spec => KeepsPromise
<1>1. MySql!Init => Promise!Init
  BY MySqlInit, PromiseInit
<1>2. MySqlTypeOK /\ MySqlInv /\ AcceptedInv /\ [MySql!Next]_(MySql!mysqlVars)
        => [Promise!Next]_<<Stage, accepted>>
  BY MySqlSteps, MySqlStepMoves, MovesArePromised DEF MySqlTypeOK, MySqlInv
<1>3. QED
  BY <1>1, <1>2, MySqlTypeCorrect, MySqlClaimsInvariant, MySqlSucceedsDelivered, PTL
     DEF MySql!Spec, KeepsPromise, Promise!Spec

=============================================================================

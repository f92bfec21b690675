----------------------------- MODULE OutboxMySql -----------------------------
(***************************************************************************)
(* The outbox on MySQL: the workers of OutboxWorker on the statements of   *)
(* MySQLEventRepository, MySQLMaintenance and MySQLEventService.           *)
(*                                                                         *)
(* Without UPDATE ... RETURNING, what is one statement on PostgreSQL takes *)
(* two here: a claim commits its rows and then reads them back, and the    *)
(* stale recovery selects ids and then updates them whatever they are by   *)
(* then.  Single statements, and the claim's transaction, are atomic.      *)
(***************************************************************************)
EXTENDS Outbox

CONSTANT Scheduler     \* maintenance schedulers: one per worker process

VARIABLE recovering    \* ids each scheduler has selected and not yet updated

mysqlVars == <<vars, recovering>>

Init == OutboxInit /\ recovering = [m \in Scheduler |-> {}]

-----------------------------------------------------------------------------
(* MySQLEventRepository *)

\* Mutant: a claimed row can be claimed again.
Claimable_Twice(e) == status[e] \in {"pending", "processing", "failed"} /\ due[e]

Claimable(e) == status[e] = "pending" \/ (status[e] = "failed" /\ due[e])

\* SELECT ... LIMIT ? FOR UPDATE SKIP LOCKED in no particular order, UPDATE
\* and COMMIT, which claim the rows of S.
ClaimRows(S) ==
  /\ \E skipped \in SUBSET Locked :
       LET free == {e \in Event \ skipped : Claimable(e)} IN
         /\ S \subseteq free /\ S # {}
         /\ S = free \/ Cardinality(S) = BatchSize
  /\ Cardinality(S) <= BatchSize
  /\ status' = Set(status, S, "processing")
  /\ aged' = Set(aged, S, FALSE)
  /\ claims' = Bump(claims, S)
  /\ UNCHANGED <<retryCount, due>>

markSucceeded(S) == Finish(S, "succeeded")

\* Rows whose retry budget is used up are silently left as they are.
scheduleRetry(S) == Backoff({e \in S : retryCount[e] < RowMaxRetries[e]})

moveToDLQ(S) == Finish(S, "dlq")

\* the UPDATE that a decision calls for
Update(k, S) ==
  \/ k = "succeeded" /\ markSucceeded(S)
  \/ k = "retry" /\ scheduleRetry(S)
  \/ k = "dlq" /\ moveToDLQ(S)

-----------------------------------------------------------------------------
(* The workers on this table *)

CreateEvent(e) ==
  /\ status[e] = "absent"
  /\ Queue({e})
  /\ UNCHANGED <<workerVars, adminVars, recovering>>

ClaimCommits(w) ==
  /\ \E S \in SUBSET Event : Uncontended(S) /\ ClaimRows(S) /\ TakeIds(w, S)
  /\ UNCHANGED <<adminVars, recovering>>

ClaimReads(w) ==
  /\ ReadRows(w, retryCount) \/ LoseIds(w)
  /\ UNCHANGED <<tableVars, adminVars, recovering>>

UpdateLands(w, k) ==
  /\ Settle(w, k)
  /\ Update(k, pend[w][k])
  /\ UNCHANGED <<adminVars, recovering>>

\* The UPDATE fails, or commits and its answer is lost.
UpdateRejects(w, k) ==
  /\ Reject(w, k)
  /\ UNCHANGED tableVars \/ Update(k, pend[w][k])
  /\ UNCHANGED <<adminVars, recovering>>

LateUpdate(s) ==
  /\ Retire(s)
  /\ UNCHANGED tableVars \/ Update(s.kind, s.evs)
  /\ UNCHANGED <<adminVars, recovering>>

-----------------------------------------------------------------------------
(* MySQLMaintenance *)

\* Mutant: the retry budget is not tested.
Stale_NoBudget(e) == status[e] = "processing" /\ aged[e]

Stale(e) == status[e] = "processing" /\ aged[e] /\ retryCount[e] < RowMaxRetries[e]

\* A scheduler selects the ids of the stale rows, one recovery at a time, ...
RecoverSelect(m) ==
  /\ recovering[m] = {}
  /\ \E e \in Event : Stale(e)
  /\ recovering' = [recovering EXCEPT ![m] = {e \in Event : Stale(e)}]
  /\ UNCHANGED vars

\* ... and then updates these rows, whatever has become of them, ...
RecoverUpdate(m) ==
  /\ recovering[m] # {}
  /\ Backoff(recovering[m])
  /\ recovering' = [recovering EXCEPT ![m] = {}]
  /\ UNCHANGED <<workerVars, adminVars>>

\* ... or its process dies, or its connection fails, in between.
RecoverFails(m) ==
  /\ recovering[m] # {}
  /\ Fault
  /\ recovering' = [recovering EXCEPT ![m] = {}]
  /\ UNCHANGED <<tableVars, adminVars, phase, batch, seenRetries, sent, pend,
                 late, accepted>>

-----------------------------------------------------------------------------
(* MySQLEventService, called by the admin API *)

\* The SELECT before it only chooses the answer; this UPDATE has its own guard.
ReplayEvent(e) ==
  /\ status[e] \in {"failed", "dlq"}
  /\ Replay
  /\ Queue({e})
  /\ UNCHANGED <<workerVars, selected, recovering>>

\* Replaying a range is a SELECT of rows in one status, up to a limit, ...
ReplaySelect ==
  /\ selected = {}
  /\ Replay
  /\ selected' \in Selectable
  /\ UNCHANGED <<tableVars, workerVars, recovering>>

\* ... and then an UPDATE of these rows, whatever has become of them.
ReplayUpdate ==
  /\ selected # {}
  /\ Queue(selected)
  /\ selected' = {}
  /\ UNCHANGED <<workerVars, replays, recovering>>

-----------------------------------------------------------------------------

\* steps of a worker outside the database, as on any adapter
Elsewhere(w) ==
  /\ \/ \E e \in Event : Deliver(w, e)
     \/ PublishEnds(w)
     \/ ProcessDies(w)
     \/ ProcessStarts(w)
  /\ UNCHANGED recovering

WorkerStep(w) ==
  \/ ClaimCommits(w)
  \/ ClaimReads(w)
  \/ \E k \in Decision : UpdateLands(w, k) \/ UpdateRejects(w, k)
  \/ Elsewhere(w)

EventStep(e) ==
  \/ CreateEvent(e)
  \/ Clock(e) /\ UNCHANGED recovering
  \/ ReplayEvent(e)

MaintenanceStep(m) == RecoverSelect(m) \/ RecoverUpdate(m) \/ RecoverFails(m)

Next ==
  \/ \E w \in Worker : WorkerStep(w)
  \/ \E e \in Event : EventStep(e)
  \/ \E s \in late : LateUpdate(s)
  \/ \E m \in Scheduler : MaintenanceStep(m)
  \/ ReplaySelect
  \/ ReplayUpdate

Spec == Init /\ [][Next]_mysqlVars

=============================================================================

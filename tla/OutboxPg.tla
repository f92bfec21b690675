------------------------------ MODULE OutboxPg ------------------------------
(***************************************************************************)
(* The outbox on PostgreSQL: the workers of OutboxWorker, the statements   *)
(* of PgEventRepository, the stale recovery of PgMaintenance and the       *)
(* replay operations of PgEventService, all on one table.                  *)
(*                                                                         *)
(* Every statement is one atomic step: under READ COMMITTED an UPDATE      *)
(* waits for the row locks it needs and then tests its WHERE clause again  *)
(* on the row as it is.  What is not atomic is a sequence of statements,   *)
(* and what happens between a claim and the UPDATE that ends it.           *)
(***************************************************************************)
EXTENDS Outbox

-----------------------------------------------------------------------------
(* PgEventRepository *)

\* Mutant: a claimed row can be claimed again.
Claimable_Twice(e) == status[e] \in {"pending", "processing", "failed"} /\ due[e]

Claimable(e) == status[e] \in {"pending", "failed"} /\ due[e]

\* UPDATE ... SET status = 'processing' WHERE id IN (SELECT ... FOR UPDATE
\* SKIP LOCKED), which returns the rows of S.
ClaimRows(S) ==
  /\ \E skipped \in SUBSET Locked :
       S = Oldest({e \in Event \ skipped : Claimable(e)}, BatchSize)
  /\ S # {}
  /\ status' = Set(status, S, "processing")
  /\ aged' = Set(aged, S, FALSE)
  /\ claims' = Bump(claims, S)
  /\ UNCHANGED <<retryCount, due>>

markSucceeded(S) == Finish(S, "succeeded")

\* Rows whose retry budget is used up are silently left as they are.
scheduleRetry(S) == Backoff({e \in S : retryCount[e] < RowMaxRetries[e]})

\* Mutant: a status the schema does not have.
moveToDLQ_Typo(S) == Finish(S, "dead")

moveToDLQ(S) == Finish(S, "dlq")

\* the UPDATE that a decision calls for
Update(k, S) ==
  \/ k = "succeeded" /\ markSucceeded(S)
  \/ k = "retry" /\ scheduleRetry(S)
  \/ k = "dlq" /\ moveToDLQ(S)

-----------------------------------------------------------------------------
(* The workers on this table *)

\* PgEventService.createEvent, or the SDK's publish: the row becomes visible.
CreateEvent(e) ==
  /\ status[e] = "absent"
  /\ Queue({e})
  /\ UNCHANGED <<workerVars, adminVars>>

ClaimPendingEvents(w) ==
  /\ \E S \in SUBSET Event : Uncontended(S) /\ ClaimRows(S) /\ Receive(w, S, retryCount)
  /\ UNCHANGED adminVars

ClaimAnswerLost(w) ==
  /\ \E S \in SUBSET Event : Uncontended(S) /\ ClaimRows(S)
  /\ MissReceipt(w)
  /\ UNCHANGED adminVars

UpdateLands(w, k) ==
  /\ Settle(w, k)
  /\ Update(k, pend[w][k])
  /\ UNCHANGED adminVars

\* The UPDATE fails, or commits and its answer is lost.
UpdateRejects(w, k) ==
  /\ Reject(w, k)
  /\ UNCHANGED tableVars \/ Update(k, pend[w][k])
  /\ UNCHANGED adminVars

LateUpdate(s) ==
  /\ Retire(s)
  /\ UNCHANGED tableVars \/ Update(s.kind, s.evs)
  /\ UNCHANGED adminVars

-----------------------------------------------------------------------------
(* PgMaintenance *)

\* Mutant: recovery stops one retry short of the budget.
Stale_OffByOne(e) ==
  status[e] = "processing" /\ aged[e] /\ retryCount[e] + 1 < RowMaxRetries[e]

Stale(e) == status[e] = "processing" /\ aged[e] /\ retryCount[e] < RowMaxRetries[e]

\* Mutant: stale rows go back to "pending" and no retry is counted.
RecoverStaleEvents_Free ==
  /\ \E e \in Event : Stale(e)
  /\ status' = Set(status, {e \in Event : Stale(e)}, "pending")
  /\ aged' = Set(aged, {e \in Event : Stale(e)}, FALSE)
  /\ UNCHANGED <<retryCount, due, claims, workerVars, adminVars>>

\* One UPDATE, run by the scheduler of any live process.
RecoverStaleEvents ==
  /\ \E w \in Worker : phase[w] # "down"
  /\ \E e \in Event : Stale(e)
  /\ Backoff({e \in Event : Stale(e)})
  /\ UNCHANGED <<workerVars, adminVars>>

-----------------------------------------------------------------------------
(* PgEventService, called by the admin API *)

\* The SELECT before it only chooses the answer; this UPDATE has its own guard.
ReplayEvent(e) ==
  /\ status[e] \in {"failed", "dlq"}
  /\ Replay
  /\ Queue({e})
  /\ UNCHANGED <<workerVars, selected>>

\* Replaying a range is a SELECT of rows in one status, up to a limit, ...
ReplaySelect ==
  /\ selected = {}
  /\ Replay
  /\ selected' \in Selectable
  /\ UNCHANGED <<tableVars, workerVars>>

\* ... and then an UPDATE of these rows, whatever has become of them.
ReplayUpdate ==
  /\ selected # {}
  /\ Queue(selected)
  /\ selected' = {}
  /\ UNCHANGED <<workerVars, replays>>

-----------------------------------------------------------------------------

WorkerStep(w) ==
  \/ ClaimPendingEvents(w)
  \/ ClaimAnswerLost(w)
  \/ \E e \in Event : Deliver(w, e)
  \/ PublishEnds(w)
  \/ \E k \in Decision : UpdateLands(w, k) \/ UpdateRejects(w, k)
  \/ ProcessDies(w)
  \/ ProcessStarts(w)

EventStep(e) == CreateEvent(e) \/ Clock(e) \/ ReplayEvent(e)

Next ==
  \/ \E w \in Worker : WorkerStep(w)
  \/ \E e \in Event : EventStep(e)
  \/ \E s \in late : LateUpdate(s)
  \/ RecoverStaleEvents
  \/ ReplaySelect
  \/ ReplayUpdate

Spec == OutboxInit /\ [][Next]_vars

-----------------------------------------------------------------------------
(* Fairness: a live loop polls, publish() returns or throws (the publishers *)
(* bound it by timeouts), a statement is answered, the clock runs, the      *)
(* recovery timer fires, and a dead process is started again.               *)

Fairness ==
  /\ \A w \in Worker :
       /\ WF_vars(ClaimPendingEvents(w))
       /\ WF_vars(PublishEnds(w))
       /\ \A k \in Decision : WF_vars(UpdateLands(w, k))
       /\ WF_vars(ProcessStarts(w))
  /\ \A e \in Event : WF_vars(Clock(e))
  /\ WF_vars(\E s \in late : LateUpdate(s))
  /\ WF_vars(RecoverStaleEvents)
  /\ WF_vars(ReplayUpdate)

FairSpec == Spec /\ Fairness
=============================================================================

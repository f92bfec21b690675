------------------------------- MODULE Outbox -------------------------------
(***************************************************************************)
(* The parts of the outbox that do not depend on the database adapter: the *)
(* workers (OutboxWorker), the clock, the bookkeeping of replays, and what *)
(* is expected of the whole.  OutboxPg and OutboxMySql add the statements  *)
(* of their adapter and the next-state relation.                           *)
(***************************************************************************)
EXTENDS OutboxWorker

CONSTANTS
  SlowHolders,   \* may a claim outlive staleEventThresholdMs in use?
  SlowReplays,   \* may a row be claimed amid the two halves of a range replay?
  MaxReplays     \* bound on replays of either kind

ASSUME OutboxAssumption ==
  /\ SlowHolders \in BOOLEAN
  /\ SlowReplays \in BOOLEAN
  /\ MaxReplays \in Nat

VARIABLES
  selected,     \* rows that a range replay has selected and not yet updated
  replays       \* replays so far

adminVars == <<selected, replays>>
vars == <<tableVars, workerVars, adminVars>>

TypeOK ==
  /\ TableTypeOK
  /\ WorkerTypeOK
  /\ selected \in SUBSET Event
  /\ replays \in 0..MaxReplays

OutboxInit ==
  /\ TableInit
  /\ WorkerInit
  /\ selected = {}
  /\ replays = 0

\* The clock, as the queries see it.  Unless holders are slow, whoever has
\* an event in use is done with it before the claim counts as stale.
Clock(e) ==
  /\ BecomeDue(e) \/ (GrowOld(e) /\ (SlowHolders \/ ~InUse(e)))
  /\ UNCHANGED <<workerVars, adminVars>>

Replay == replays < MaxReplays /\ replays' = replays + 1

\* the rows a range replay may select: some of one status, up to a limit
Selectable ==
  UNION {SUBSET {e \in Event : status[e] = wanted} : wanted \in {"failed", "dlq"}}
    \ {{}}

\* Unless replays are slow, nobody claims a row that one has selected and is
\* about to update.
Uncontended(S) == SlowReplays \/ S \cap selected = {}

-----------------------------------------------------------------------------
(* Steps of a worker that do not touch the table *)

\* The destination takes an event of the batch ...
Deliver(w, e) ==
  /\ Accept(w, e)
  /\ UNCHANGED <<tableVars, adminVars>>

\* ... and the publisher returns, or throws.
PublishEnds(w) ==
  /\ Group(w)
  /\ UNCHANGED <<tableVars, adminVars>>

ProcessDies(w) ==
  /\ Crash(w)
  /\ UNCHANGED <<tableVars, adminVars>>

ProcessStarts(w) ==
  /\ Start(w)
  /\ UNCHANGED <<tableVars, adminVars>>

-----------------------------------------------------------------------------
(* Properties that hold whatever the timing *)

\* An event that the table calls succeeded has been taken by a destination:
\* no late UPDATE, recovery or replay turns an undelivered event into one.
SucceededWasAccepted ==
  \A e \in Event : status[e] = "succeeded" => e \in accepted

\* Failed attempts and recoveries together, however they interleave, never
\* use more than the row's retry budget.
RetryBudget == \A e \in Event : retryCount[e] <= RowMaxRetries[e]

-----------------------------------------------------------------------------
(* Properties of prompt holders, who are done with an event before its claim *)
(* counts as stale, and of range replays that no claim comes between.        *)

\* No event is in the hands of two workers, and an UPDATE that nobody awaits
\* any more is the only claim on its rows: SKIP LOCKED, the status column and
\* the stale threshold together make the claim exclusive.
ClaimIsExclusive ==
  \A e \in Event :
    /\ \A v, w \in Worker : Holds(v, e) /\ Holds(w, e) => v = w
    /\ \A s \in late : e \in s.evs =>
         /\ \A w \in Worker : ~Holds(w, e)
         /\ \A t \in late : e \in t.evs => s = t

\* The retry decision is never taken on an outdated retry count, although the
\* worker read it before a publish that may take long.
DecidesOnCurrentCount ==
  \A w \in Worker :
    phase[w] = "publishing" =>
      \A e \in batch[w] : seenRetries[w][e] = retryCount[e]

\* Each claim, hence each call of the publisher, costs a retry or ends the
\* event: crashes, lost answers and recoveries give no attempt for free.
EveryClaimIsCounted ==
  \A e \in Event :
    claims[e] = retryCount[e] +
      IF status[e] \in {"processing", "succeeded", "dlq"} THEN 1 ELSE 0

\* The status changes only as the diagram of docs/event-lifecycle.md shows
\* and the replay endpoint adds; in particular "succeeded" is final.
DocumentedChange(from, to) ==
  \/ from = "absent" /\ to = "pending"
  \/ from \in {"pending", "failed"} /\ to = "processing"
  \/ from = "processing" /\ to \in {"succeeded", "failed", "dlq"}
  \/ from \in {"failed", "dlq"} /\ to = "pending"

OnlyDocumentedChanges ==
  [][\A e \in Event : status'[e] # status[e] =>
       DocumentedChange(status[e], status'[e])]_status

\* The promise of EventDelivery is kept: a pending, claimed or failed row is a
\* queued event.
StageOf(s) ==
  CASE s = "absent" -> "absent"
    [] s \in {"pending", "processing", "failed"} -> "queued"
    [] s = "succeeded" -> "delivered"
    [] s = "dlq" -> "dead"

Stage == [e \in Event |-> StageOf(status[e])]

Promise == INSTANCE EventDelivery WITH stage <- Stage, taken <- accepted

KeepsPromise == Promise!Spec

-----------------------------------------------------------------------------
(* Properties of rows whose max_retries is not below the worker's maxRetries *)

\* A row is "processing" with nobody working on it only if a process died or
\* a statement failed: the worker itself never drops an event of its batch.
StrandedOnlyByFault ==
  \A e \in Event : status[e] = "processing" /\ ~InUse(e) => faults > 0

\* Every event that is queued, with a retry budget that leaves room for the
\* faults, is eventually delivered or dead-lettered.
EveryEventSettles ==
  \A e \in Event :
    RowMaxRetries[e] >= MaxRetries + MaxFaults =>
      (status[e] = "pending" ~> status[e] \in Terminal)

-----------------------------------------------------------------------------
(* What the documentation says, and the code does not do *)

\* "Recover events stuck in processing state": an event whose claim has gone
\* stale does not stay in "processing".
StaleEventsAreRecovered ==
  \A e \in Event :
    status[e] = "processing" /\ aged[e] ~> status[e] # "processing"

=============================================================================

---------------------------- MODULE OutboxWorker ----------------------------
(***************************************************************************)
(* The poll loop of an OutboxWorker: claim a batch, publish it, group the  *)
(* results, and issue up to three concurrent UPDATEs, one per group, that  *)
(* Promise.all awaits.                                                     *)
(*                                                                         *)
(* Only the worker's half of each step is here.  The effect on the table   *)
(* is a statement of the database adapter, and the module of the adapter   *)
(* (OutboxPg, OutboxMySql) joins the two.                                  *)
(*                                                                         *)
(* Promise.all rejects as soon as one UPDATE fails, and the loop goes on   *)
(* to its next poll while the other UPDATEs are still on their way: these, *)
(* and the UPDATEs a dying process leaves behind, are in `late` and may    *)
(* land at any later time or never.                                        *)
(***************************************************************************)
EXTENDS OutboxTable

CONSTANTS
  Worker,        \* worker loops, each in a process of its own
  BatchSize,     \* config.batchSize
  MaxRetries,    \* config.maxRetries
  MaxFaults      \* bound on crashes, failed UPDATEs and lost answers

ASSUME BatchSizeAssumption == BatchSize \in Nat \ {0}
ASSUME MaxRetriesAssumption == MaxRetries \in Nat
ASSUME MaxFaultsAssumption == MaxFaults \in Nat

VARIABLES
  phase,        \* where the loop of each worker is
  batch,        \* the events it has claimed and not yet grouped
  seenRetries,  \* retryCount of each of them as the claim returned it
  sent,         \* those of them that the destination has taken
  pend,         \* the UPDATEs it awaits: a set of events per decision
  late,         \* UPDATEs on their way that nobody awaits
  accepted,     \* history: events that a destination has ever taken
  faults        \* faults so far

workerVars == <<phase, batch, seenRetries, sent, pend, late, accepted, faults>>

Phase == {"polling", "reading", "publishing", "writing", "down"}
Decision == {"succeeded", "retry", "dlq"}
Outcome == {"success", "retryable", "fatal"}
Statement == [by : Worker, kind : Decision, evs : SUBSET Event]

NoEvents == [k \in Decision |-> {}]
NotSeen == [e \in Event |-> 0]

WorkerTypeOK ==
  /\ phase \in [Worker -> Phase]
  /\ batch \in [Worker -> SUBSET Event]
  /\ seenRetries \in [Worker -> [Event -> Nat]]
  /\ sent \in [Worker -> SUBSET Event]
  /\ pend \in [Worker -> [Decision -> SUBSET Event]]
  /\ late \in SUBSET Statement
  /\ accepted \in SUBSET Event
  /\ faults \in 0..MaxFaults

WorkerInit ==
  /\ phase = [w \in Worker |-> "polling"]
  /\ batch = [w \in Worker |-> {}]
  /\ seenRetries = [w \in Worker |-> NotSeen]
  /\ sent = [w \in Worker |-> {}]
  /\ pend = [w \in Worker |-> NoEvents]
  /\ late = {}
  /\ accepted = {}
  /\ faults = 0

\* worker w has the event in its batch, or awaits an UPDATE of its row
Holds(w, e) == e \in batch[w] \/ \E k \in Decision : e \in pend[w][k]

\* somebody may still publish e or change its row
InUse(e) ==
  \/ \E w \in Worker : Holds(w, e)
  \/ \E s \in late : e \in s.evs

\* rows that an UPDATE on its way may have locked
Locked ==
  {e \in Event :
     \/ \E w \in Worker, k \in Decision : e \in pend[w][k]
     \/ \E s \in late : e \in s.evs}

Fault == faults < MaxFaults /\ faults' = faults + 1

-----------------------------------------------------------------------------

\* A poll claimed the rows of S, and returned them with the retry counts
\* `seen`.  (A poll that finds nothing sleeps and changes nothing.)
Receive(w, S, seen) ==
  /\ phase[w] = "polling"
  /\ S # {}
  /\ phase' = [phase EXCEPT ![w] = "publishing"]
  /\ batch' = [batch EXCEPT ![w] = S]
  /\ seenRetries' =
       [seenRetries EXCEPT ![w] =
          [e \in Event |-> IF e \in S THEN seen[e] ELSE 0]]
  /\ UNCHANGED <<sent, pend, late, accepted, faults>>

\* An adapter that claims first and reads the rows afterwards (MySQL): the
\* claim of the rows of S is committed, ...
TakeIds(w, S) ==
  /\ phase[w] = "polling"
  /\ S # {}
  /\ phase' = [phase EXCEPT ![w] = "reading"]
  /\ batch' = [batch EXCEPT ![w] = S]
  /\ UNCHANGED <<seenRetries, sent, pend, late, accepted, faults>>

\* Mutant: the retry count is not mapped, and reads as 0.
ReadRows_Unmapped(w, seen) ==
  /\ phase[w] = "reading"
  /\ phase' = [phase EXCEPT ![w] = "publishing"]
  /\ seenRetries' = [seenRetries EXCEPT ![w] = NotSeen]
  /\ UNCHANGED <<batch, sent, pend, late, accepted, faults>>

\* ... and the rows are read, with the retry counts they have by now, ...
ReadRows(w, seen) ==
  /\ phase[w] = "reading"
  /\ phase' = [phase EXCEPT ![w] = "publishing"]
  /\ seenRetries' =
       [seenRetries EXCEPT ![w] =
          [e \in Event |-> IF e \in batch[w] THEN seen[e] ELSE 0]]
  /\ UNCHANGED <<batch, sent, pend, late, accepted, faults>>

\* ... or the read fails, and the claimed events are forgotten.
LoseIds(w) ==
  /\ phase[w] = "reading"
  /\ Fault
  /\ phase' = [phase EXCEPT ![w] = "polling"]
  /\ batch' = [batch EXCEPT ![w] = {}]
  /\ UNCHANGED <<seenRetries, sent, pend, late, accepted>>

\* The claim took effect but its answer was lost: the worker logs "Polling
\* failed" and polls again.
MissReceipt(w) ==
  /\ phase[w] = "polling"
  /\ Fault
  /\ UNCHANGED <<phase, batch, seenRetries, sent, pend, late, accepted>>

\* While publisher.publish(batch) runs, the destination takes event e.
Accept(w, e) ==
  /\ phase[w] = "publishing"
  /\ e \in batch[w] \ sent[w]
  /\ sent' = [sent EXCEPT ![w] = @ \cup {e}]
  /\ accepted' = accepted \cup {e}
  /\ UNCHANGED <<phase, batch, seenRetries, pend, late, faults>>

\* Mutant: one retry too many.
decideRetry_OffByOne(outcome, retries) ==
  CASE outcome = "success" -> "succeeded"
    [] outcome = "fatal" \/ (outcome = "retryable" /\ retries > MaxRetries)
         -> "dlq"
    [] OTHER -> "retry"

decideRetry(outcome, retries) ==
  CASE outcome = "success" -> "succeeded"
    [] outcome = "fatal" \/ (outcome = "retryable" /\ retries >= MaxRetries)
         -> "dlq"
    [] OTHER -> "retry"

groupBatchResults(results, retries) ==
  [k \in Decision |->
     {e \in DOMAIN results : decideRetry(results[e], retries[e]) = k}]

\* Mutant: an event without a result counts as published.
Group_MissingIsSuccess(w) ==
  /\ phase[w] = "publishing"
  /\ \E results \in [batch[w] -> Outcome] :
       pend' = [pend EXCEPT ![w] = groupBatchResults(results, seenRetries[w])]
  /\ phase' = [phase EXCEPT ![w] = "writing"]
  /\ batch' = [batch EXCEPT ![w] = {}]
  /\ seenRetries' = [seenRetries EXCEPT ![w] = NotSeen]
  /\ sent' = [sent EXCEPT ![w] = {}]
  /\ UNCHANGED <<late, accepted, faults>>

\* publish() returns or throws, with any outcome for each event: it reports
\* success only of what the destination took, but the destination may have
\* taken more.  The loop groups the results and issues the UPDATEs.
Group(w) ==
  /\ phase[w] = "publishing"
  /\ \E results \in [batch[w] -> Outcome] :
       /\ \A e \in batch[w] : results[e] = "success" => e \in sent[w]
       /\ pend' = [pend EXCEPT ![w] =
                     groupBatchResults(results, seenRetries[w])]
  /\ phase' = [phase EXCEPT ![w] = "writing"]
  /\ batch' = [batch EXCEPT ![w] = {}]
  /\ seenRetries' = [seenRetries EXCEPT ![w] = NotSeen]
  /\ sent' = [sent EXCEPT ![w] = {}]
  /\ UNCHANGED <<late, accepted, faults>>

\* The UPDATE of decision k is done.  After the last one the loop polls again.
Settle(w, k) ==
  /\ phase[w] = "writing" /\ pend[w][k] # {}
  /\ pend' = [pend EXCEPT ![w][k] = {}]
  /\ phase' = [phase EXCEPT ![w] =
                 IF \A j \in Decision \ {k} : pend[w][j] = {}
                   THEN "polling" ELSE "writing"]
  /\ UNCHANGED <<batch, seenRetries, sent, late, accepted, faults>>

\* The UPDATEs of worker w for the decisions K, once nobody awaits them.  A
\* late UPDATE equal to one that is already late is not told apart from it.
Abandoned(w, K) ==
  {[by |-> w, kind |-> k, evs |-> pend[w][k]] : k \in {j \in K : pend[w][j] # {}}}

\* The promise of the UPDATE of decision k rejects.  Promise.all rejects with
\* it, the poll loop logs the error and goes on, and the others are late.
Reject(w, k) ==
  /\ phase[w] = "writing" /\ pend[w][k] # {}
  /\ Fault
  /\ late' = late \cup Abandoned(w, Decision \ {k})
  /\ pend' = [pend EXCEPT ![w] = NoEvents]
  /\ phase' = [phase EXCEPT ![w] = "polling"]
  /\ UNCHANGED <<batch, seenRetries, sent, accepted>>

\* A late UPDATE reaches the table, or never will.
Retire(s) ==
  /\ s \in late
  /\ late' = late \ {s}
  /\ UNCHANGED <<phase, batch, seenRetries, sent, pend, accepted, faults>>

\* The process dies: its batch is forgotten, its UPDATEs are late.
Crash(w) ==
  /\ phase[w] # "down"
  /\ Fault
  /\ phase' = [phase EXCEPT ![w] = "down"]
  /\ batch' = [batch EXCEPT ![w] = {}]
  /\ seenRetries' = [seenRetries EXCEPT ![w] = NotSeen]
  /\ sent' = [sent EXCEPT ![w] = {}]
  /\ late' = late \cup Abandoned(w, Decision)
  /\ pend' = [pend EXCEPT ![w] = NoEvents]
  /\ UNCHANGED accepted

\* The process is started again, and its loop polls.
Start(w) ==
  /\ phase[w] = "down"
  /\ phase' = [phase EXCEPT ![w] = "polling"]
  /\ UNCHANGED <<batch, seenRetries, sent, pend, late, accepted, faults>>

=============================================================================

---------------------------- MODULE OutboxTable ----------------------------
(***************************************************************************)
(* The outbox_events table, as the workers, the maintenance scheduler and  *)
(* the API see it.  A row is abstracted to the columns that decide what    *)
(* happens to it next.  Times are abstracted to the two comparisons with   *)
(* NOW() that the queries make: has next_retry_at passed, and is           *)
(* processing_started_at older than the stale threshold.  The second one   *)
(* counts only while the row is "processing", and is FALSE otherwise.      *)
(*                                                                         *)
(* An event is a number: its place in created_at order.  Rows may become   *)
(* visible in any order, since created_at is taken inside the caller's     *)
(* transaction and other transactions may commit first.  No two events     *)
(* share an idempotency key, so the unique index never refuses a write.    *)
(***************************************************************************)
EXTENDS Naturals, FiniteSets

CONSTANTS
  Event,            \* the events that may be published, by age
  RowMaxRetries     \* max_retries of each row, chosen when it is published

ASSUME EventAssumption == Event \subseteq Nat /\ IsFiniteSet(Event)
ASSUME RowMaxRetriesAssumption == RowMaxRetries \in [Event -> Nat]

VARIABLES
  status,       \* status of each row; "absent" before it is inserted
  retryCount,   \* retry_count of each row
  due,          \* next_retry_at is NULL or has passed
  aged,         \* processing_started_at is older than the stale threshold
  claims        \* history: claims of the row since it was last queued afresh

tableVars == <<status, retryCount, due, aged, claims>>

\* The "cancelled" status of the schema is set by no code and is left out.
Status == {"absent", "pending", "processing", "succeeded", "failed", "dlq"}

Terminal == {"succeeded", "dlq"}

TableTypeOK ==
  /\ status \in [Event -> Status]
  /\ retryCount \in [Event -> Nat]
  /\ due \in [Event -> BOOLEAN]
  /\ aged \in [Event -> BOOLEAN]
  /\ claims \in [Event -> Nat]

TableInit ==
  /\ status = [e \in Event |-> "absent"]
  /\ retryCount = [e \in Event |-> 0]
  /\ due = [e \in Event |-> TRUE]
  /\ aged = [e \in Event |-> FALSE]
  /\ claims = [e \in Event |-> 0]

-----------------------------------------------------------------------------

\* column `col` with the value v in the rows of S
Set(col, S, v) == [e \in Event |-> IF e \in S THEN v ELSE col[e]]

\* column `col` incremented in the rows of S
Bump(col, S) == [e \in Event |-> IF e \in S THEN col[e] + 1 ELSE col[e]]

\* the (at most) n oldest members of S: ORDER BY created_at ASC LIMIT n
Oldest(S, n) == {e \in S : Cardinality({x \in S : x < e}) < n}

\* A row as publish() inserts it and as a replay leaves it: pending, no
\* retries used, nothing to wait for.
Queue(S) ==
  /\ status' = Set(status, S, "pending")
  /\ retryCount' = Set(retryCount, S, 0)
  /\ due' = Set(due, S, TRUE)
  /\ aged' = Set(aged, S, FALSE)
  /\ claims' = Set(claims, S, 0)

\* A row as a failed attempt leaves it: one retry used, waiting for its time.
Backoff(S) ==
  /\ status' = Set(status, S, "failed")
  /\ retryCount' = Bump(retryCount, S)
  /\ due' = Set(due, S, FALSE)
  /\ aged' = Set(aged, S, FALSE)
  /\ UNCHANGED claims

\* A row as an attempt with a final outcome leaves it.
Finish(S, final) ==
  /\ status' = Set(status, S, final)
  /\ aged' = Set(aged, S, FALSE)
  /\ UNCHANGED <<retryCount, due, claims>>

\* The clock reaches the next_retry_at of row e; only in failed rows does
\* any query look at it.
BecomeDue(e) ==
  /\ status[e] = "failed" /\ ~due[e]
  /\ due' = [due EXCEPT ![e] = TRUE]
  /\ UNCHANGED <<status, retryCount, aged, claims>>

\* The clock takes the processing_started_at of row e past the threshold.
GrowOld(e) ==
  /\ status[e] = "processing" /\ ~aged[e]
  /\ aged' = [aged EXCEPT ![e] = TRUE]
  /\ UNCHANGED <<status, retryCount, due, claims>>

=============================================================================

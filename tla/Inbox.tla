------------------------------- MODULE Inbox -------------------------------
(***************************************************************************)
(* The inbox: consumers receive messages from an at-least-once source, and *)
(* each call of receive() or receiveBatch() runs in a transaction of the   *)
(* consumer, together with the business logic.                             *)
(*                                                                         *)
(* A message stands for its idempotency key.  Rows are inserted one by one *)
(* in the order of the batch, with ON CONFLICT DO NOTHING or INSERT        *)
(* IGNORE: an insert that meets an uncommitted row of another transaction  *)
(* waits for its end, and transactions that wait for each other in a       *)
(* circle lose one of them.  receiveBatch() then reads the rows back, in   *)
(* the same transaction, to tell what it inserted from what was there.     *)
(***************************************************************************)
EXTENDS Naturals, Sequences, FiniteSets

CONSTANTS
  Consumer,
  Message,
  Api,           \* "sdk" (InboxyClient) or "repository" (InboxRepository)
  Database,      \* "postgresql" or "mysql"
  MaxBatch,      \* bound on the length of a batch
  MaxFaults,     \* bound on rollbacks, crashes and lost acknowledgements
  MaxForgets     \* bound on the times a record is cleaned up

ASSUME InboxAssumption ==
  /\ Api \in {"sdk", "repository"}
  /\ Database \in {"postgresql", "mysql"}
  /\ MaxBatch \in Nat \ {0}
  /\ MaxFaults \in Nat
  /\ MaxForgets \in Nat

VARIABLES
  row,        \* status of the committed row of each message, or "none"
  phase,      \* where each consumer is in its transaction
  job,        \* the messages it was called with, in order
  inserted,   \* how many of them it has tried to insert
  fresh,      \* the rows it has inserted and not yet committed
  view,       \* the rows that were committed when it began, while it inserts
  todo,       \* places in the batch that it was told are new
  flagged,    \* messages it has marked as failed
  effects,    \* business effects committed for each message
  forgotten,  \* history: times the row of each message was cleaned up
  acked,      \* messages the source need not deliver any more
  faults      \* faults so far

tableVars == <<row, effects, forgotten>>
txVars == <<job, inserted, fresh, view, todo, flagged>>
vars == <<tableVars, phase, txVars, acked, faults>>

Batch == UNION {[1..n -> Message] : n \in 1..MaxBatch}
Place == 1..MaxBatch

InboxTypeOK ==
  /\ row \in [Message -> {"none", "processed", "failed"}]
  /\ phase \in [Consumer -> {"idle", "inserting", "working"}]
  /\ job \in [Consumer -> Batch \cup {<<>>}]
  /\ inserted \in [Consumer -> 0..MaxBatch]
  /\ fresh \in [Consumer -> SUBSET Message]
  /\ view \in [Consumer -> SUBSET Message]
  /\ todo \in [Consumer -> SUBSET Place]
  /\ flagged \in [Consumer -> SUBSET Message]
  /\ effects \in [Message -> Nat]
  /\ forgotten \in [Message -> Nat]
  /\ acked \in SUBSET Message
  /\ faults \in 0..MaxFaults

Init ==
  /\ row = [m \in Message |-> "none"]
  /\ phase = [c \in Consumer |-> "idle"]
  /\ job = [c \in Consumer |-> <<>>]
  /\ inserted = [c \in Consumer |-> 0]
  /\ fresh = [c \in Consumer |-> {}]
  /\ view = [c \in Consumer |-> {}]
  /\ todo = [c \in Consumer |-> {}]
  /\ flagged = [c \in Consumer |-> {}]
  /\ effects = [m \in Message |-> 0]
  /\ forgotten = [m \in Message |-> 0]
  /\ acked = {}
  /\ faults = 0

Fault == faults < MaxFaults /\ faults' = faults + 1

\* the messages of a batch
Elems(b) == {b[i] : i \in DOMAIN b}

Recorded == {m \in Message : row[m] # "none"}

-----------------------------------------------------------------------------
(* Receiving *)

\* The source delivers the messages of b; the consumer begins a transaction
\* and calls receive() or receiveBatch().  The SDK refuses a batch that names
\* a key twice.
Deliver(c, b) ==
  /\ phase[c] = "idle"
  /\ Api = "sdk" => \A i, j \in DOMAIN b : b[i] = b[j] => i = j
  /\ phase' = [phase EXCEPT ![c] = "inserting"]
  /\ job' = [job EXCEPT ![c] = b]
  /\ view' = [view EXCEPT ![c] = Recorded]
  /\ UNCHANGED <<tableVars, inserted, fresh, todo, flagged, acked, faults>>

\* the message whose row consumer c inserts next
Inserting(c) == phase[c] = "inserting" /\ inserted[c] < Len(job[c])
Pending(c) == job[c][inserted[c] + 1]

\* ON CONFLICT DO NOTHING and INSERT IGNORE: the rows that c has inserted
\* after the row of m, which changes nothing if the key is there already.
WithRow(c, m) == IF m \in Recorded THEN fresh[c] ELSE fresh[c] \cup {m}

\* Mutant: an uncommitted row of somebody else is a duplicate.
Insert_NoWait(c) ==
  /\ Inserting(c)
  /\ LET m == Pending(c)
         exists == m \in Recorded \/ \E d \in Consumer : m \in fresh[d] IN
       fresh' = [fresh EXCEPT ![c] = IF exists THEN @ ELSE @ \cup {m}]
  /\ inserted' = [inserted EXCEPT ![c] = @ + 1]
  /\ UNCHANGED <<tableVars, phase, job, view, todo, flagged, acked, faults>>

\* Mutant: there is no unique index.
Insert_NotUnique(c) ==
  /\ Inserting(c)
  /\ fresh' = [fresh EXCEPT ![c] = @ \cup {Pending(c)}]
  /\ inserted' = [inserted EXCEPT ![c] = @ + 1]
  /\ UNCHANGED <<tableVars, phase, job, view, todo, flagged, acked, faults>>

\* Mutant: the transaction waits for its own row.
Insert_WaitsForItself(c) ==
  /\ Inserting(c)
  /\ LET m == Pending(c) IN
       /\ \A d \in Consumer : m \notin fresh[d]
       /\ fresh' = [fresh EXCEPT ![c] = WithRow(c, m)]
  /\ inserted' = [inserted EXCEPT ![c] = @ + 1]
  /\ UNCHANGED <<tableVars, phase, job, view, todo, flagged, acked, faults>>

\* One row of the INSERT, which waits for an uncommitted row of somebody else.
Insert(c) ==
  /\ Inserting(c)
  /\ LET m == Pending(c) IN
       /\ \A d \in Consumer \ {c} : m \notin fresh[d]
       /\ fresh' = [fresh EXCEPT ![c] = WithRow(c, m)]
  /\ inserted' = [inserted EXCEPT ![c] = @ + 1]
  /\ UNCHANGED <<tableVars, phase, job, view, todo, flagged, acked, faults>>

AllInserted(c) == phase[c] = "inserting" /\ inserted[c] = Len(job[c])

\* the transaction of c ends, and nothing of it is left
Close(c) ==
  /\ phase' = [phase EXCEPT ![c] = "idle"]
  /\ job' = [job EXCEPT ![c] = <<>>]
  /\ inserted' = [inserted EXCEPT ![c] = 0]
  /\ fresh' = [fresh EXCEPT ![c] = {}]
  /\ view' = [view EXCEPT ![c] = {}]
  /\ todo' = [todo EXCEPT ![c] = {}]
  /\ flagged' = [flagged EXCEPT ![c] = {}]

\* consumer c is told that the places of S are new and the others duplicates
Tell(c, S) ==
  /\ todo' = [todo EXCEPT ![c] = S]
  /\ phase' = [phase EXCEPT ![c] = "working"]
  /\ view' = [view EXCEPT ![c] = {}]
  /\ UNCHANGED <<job, inserted, fresh, flagged>>

\* receive(): RETURNING, or the number of affected rows, says it all.
Affected(c) == {i \in {1} : job[c][i] \in fresh[c]}

ReceiveAnswers(c) ==
  /\ AllInserted(c) /\ Len(job[c]) = 1
  /\ Tell(c, Affected(c))
  /\ UNCHANGED <<tableVars, acked, faults>>

\* What the SELECT of receiveBatch may find besides the transaction's own
\* rows.  On MySQL (REPEATABLE READ) it sees the rows of the time of the
\* transaction's first read, which the consumer may have made at the start.
Readable(c) ==
  {Recorded} \cup (IF Database = "mysql" THEN {view[c]} ELSE {})

\* On PostgreSQL a place is new if the id found for its key is among those
\* that RETURNING returned.
Returned(c) == {i \in DOMAIN job[c] : job[c][i] \in fresh[c]}

\* On MySQL it is if the id found is the one generated for this very place.
Generated(c) ==
  {i \in Returned(c) : \A j \in 1..(i - 1) : job[c][j] # job[c][i]}

\* Mutant: a row that is found counts as new.
NewPlaces_Found(c) == {i \in DOMAIN job[c] : job[c][i] \in fresh[c] \cup Recorded}

\* which places of the batch are new
NewPlaces(c) == IF Database = "mysql" THEN Generated(c) ELSE Returned(c)

\* receiveBatch(): a key that is not found is a duplicate to the SDK, and an
\* error, hence a rollback, to the repositories.
ReceiveBatchAnswers(c) ==
  /\ AllInserted(c)
  /\ \E rows \in Readable(c) :
       IF Api = "repository" /\ ~(Elems(job[c]) \subseteq fresh[c] \cup rows)
         THEN Close(c)
         ELSE Tell(c, NewPlaces(c))
  /\ UNCHANGED <<tableVars, acked, faults>>

\* The id that markFailed() is called with is that of a new message.
Failable(c, m) == m \notin flagged[c] /\ \E i \in todo[c] : job[c][i] = m

\* markFailed(), in the same transaction, instead of the business logic
MarkFailed(c, m) ==
  /\ phase[c] = "working"
  /\ Failable(c, m)
  /\ flagged' = [flagged EXCEPT ![c] = @ \cup {m}]
  /\ UNCHANGED <<tableVars, phase, job, inserted, fresh, view, todo, acked, faults>>

\* the status that c leaves in the row it has inserted for m
StatusOf(c, m) == IF m \in flagged[c] THEN "failed" ELSE "processed"

\* COMMIT, with the business effects of every place that is new; then the
\* source is told, unless the consumer dies first.
Commit(c) ==
  /\ phase[c] = "working"
  /\ row' = [m \in Message |->
               IF m \in fresh[c] THEN StatusOf(c, m) ELSE row[m]]
  /\ effects' = [m \in Message |->
                   effects[m] + IF m \in flagged[c] THEN 0
                                ELSE Cardinality({i \in todo[c] : job[c][i] = m})]
  /\ \/ acked' = acked \cup Elems(job[c]) /\ UNCHANGED faults
     \/ Fault /\ UNCHANGED acked
  /\ Close(c)
  /\ UNCHANGED forgotten

\* The business logic throws, the connection is lost, the consumer dies.
Rollback(c) ==
  /\ phase[c] # "idle"
  /\ Fault
  /\ Close(c)
  /\ UNCHANGED <<tableVars, acked>>

WaitsFor(c, d) == c # d /\ Inserting(c) /\ Pending(c) \in fresh[d]

\* The database breaks a circle of transactions that wait for each other.
DeadlockVictim(c) ==
  /\ \E D \in SUBSET Consumer :
       c \in D /\ \A d \in D : \E e \in D : WaitsFor(d, e)
  /\ Close(c)
  /\ UNCHANGED <<tableVars, acked, faults>>

-----------------------------------------------------------------------------
(* Cleaning up *)

\* The rows whose processed_at may be past the retention period: any
\* processed one, as far as the model knows.
Removable == {m \in Message : row[m] = "processed"}

\* the table after a DELETE of the rows of S
Without(S) == [m \in Message |-> IF m \in S THEN "none" ELSE row[m]]

\* The DELETE removes the rows of S, and their keys are new again.
cleanupProcessedEvents(S) ==
  /\ S # {}
  /\ \A m \in S : forgotten[m] < MaxForgets
  /\ row' = Without(S)
  /\ forgotten' = [m \in Message |->
                     IF m \in S THEN forgotten[m] + 1 ELSE forgotten[m]]
  /\ UNCHANGED <<effects, phase, txVars, acked, faults>>

-----------------------------------------------------------------------------

\* cleanupProcessedInboxEvents(), the job of the maintenance scheduler
InboxCleanup == \E S \in SUBSET Removable : cleanupProcessedEvents(S)

ConsumerStep(c) ==
  \/ \E b \in Batch : Deliver(c, b)
  \/ Insert(c)
  \/ ReceiveAnswers(c)
  \/ ReceiveBatchAnswers(c)
  \/ \E m \in Message : MarkFailed(c, m)
  \/ Commit(c)
  \/ Rollback(c)
  \/ DeadlockVictim(c)

Next ==
  \/ \E c \in Consumer : ConsumerStep(c)
  \/ InboxCleanup

Spec == Init /\ [][Next]_vars

\* The source delivers again what is not acknowledged, alone if need be;
\* statements are answered, and transactions end.
Fairness ==
  /\ \A m \in Message :
       SF_vars(m \notin acked /\ \E c \in Consumer : Deliver(c, <<m>>))
  /\ \A c \in Consumer :
       /\ WF_vars(Insert(c))
       /\ WF_vars(ReceiveAnswers(c) \/ ReceiveBatchAnswers(c))
       /\ WF_vars(Commit(c))
  /\ WF_vars(\E c \in Consumer : DeadlockVictim(c))

FairSpec == Spec /\ Fairness

-----------------------------------------------------------------------------
(* Properties *)

\* "Processed exactly once, even if delivered multiple times": the business
\* effect of a message has been committed once for the row it has now, and
\* once for each row that was cleaned up; a failed message has no effect.
HandledOnce ==
  \A m \in Message :
    effects[m] = forgotten[m] + IF row[m] = "processed" THEN 1 ELSE 0

\* A message the source was told to forget is recorded, or its record was
\* cleaned up: nobody takes a row for a duplicate that is then rolled back.
NothingLost ==
  \A m \in acked : row[m] # "none" \/ forgotten[m] > 0

\* "Permanently deduplicated but flagged": a failed row is neither processed
\* again nor cleaned up.
FailedIsKept ==
  [][\A m \in Message : row[m] = "failed" => row'[m] = "failed"]_row

FateOf(r) ==
  CASE r = "none" -> "new"
    [] r = "processed" -> "handled"
    [] r = "failed" -> "flagged"

Fate == [m \in Message |-> FateOf(row[m])]

Promise == INSTANCE ExactlyOnce WITH fate <- Fate

\* The inbox keeps the promise of ExactlyOnce: record and effect go together.
HandlesExactlyOnce == Promise!Spec

\* A message that the source keeps delivering is acknowledged in the end,
\* although batches deadlock, fail and are read from an old snapshot.
EveryMessageSettles == \A m \in Message : <>(m \in acked)

=============================================================================

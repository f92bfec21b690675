---------------------------- MODULE OutboxyClient ----------------------------
(***************************************************************************)
(* Publishing: applications call publish() and publishBatch() of the SDK   *)
(* in transactions of their own, while workers settle events and the       *)
(* maintenance takes the keys of delivered ones away.                      *)
(*                                                                         *)
(* Rows are inserted one by one in the order of the batch.  An insert that *)
(* meets a key which another transaction has written, or whose row it has  *)
(* locked, waits for the end of that transaction; of transactions that     *)
(* wait in a circle the database rolls one back.  The workers' UPDATEs     *)
(* wait for row locks too; their claims, which skip locked rows, do not    *)
(* change the stage of an event.                                           *)
(***************************************************************************)
EXTENDS Naturals, Sequences, FiniteSets

CONSTANTS
  Client,
  Id,            \* the ids the database, or the SDK, may generate
  Key,
  NoKey,         \* stands for NULL
  Database,      \* "postgresql" or "mysql"
  MaxRows,       \* bound on the rows, and answers, of a transaction
  ChunkSize      \* rows per INSERT: maxParameters over the number of columns

ASSUME ClientAssumption ==
  /\ NoKey \notin Key
  /\ Database \in {"postgresql", "mysql"}
  /\ MaxRows \in Nat \ {0}
  /\ ChunkSize \in Nat \ {0}

VARIABLES
  stage,      \* committed rows: where each event is in its life
  key,        \* their idempotency_key
  phase,      \* where each client is in its transaction, and which call it makes
  job,        \* the keys of the rows it is to write, in order
  fresh,      \* rows inserted in the transaction, uncommitted: [id, key]
  locked,     \* committed rows that ON CONFLICT DO UPDATE has locked
  result,     \* the answers for those dealt with so far: [id, key]
  answers,    \* what earlier calls in the transaction have returned
  told        \* history: what calls in committed transactions have returned

tableVars == <<stage, key>>
callVars == <<job, result>>
txVars == <<fresh, locked, answers>>
vars == <<tableVars, phase, callVars, txVars, told>>

Answer == [id : Id, key : Key \cup {NoKey}]

ClientTypeOK ==
  /\ stage \in [Id -> {"absent", "queued", "dead", "delivered"}]
  /\ key \in [Id -> Key \cup {NoKey}]
  /\ phase \in [Client -> {"idle", "open", "publish", "publishBatch", "aborted"}]
  /\ job \in [Client -> Seq(Key \cup {NoKey})]
  /\ fresh \in [Client -> SUBSET Answer]
  /\ locked \in [Client -> SUBSET Id]
  /\ result \in [Client -> Seq(Answer)]
  /\ answers \in [Client -> SUBSET Answer]
  /\ told \in SUBSET Answer

Init ==
  /\ stage = [i \in Id |-> "absent"]
  /\ key = [i \in Id |-> NoKey]
  /\ phase = [c \in Client |-> "idle"]
  /\ job = [c \in Client |-> <<>>]
  /\ fresh = [c \in Client |-> {}]
  /\ locked = [c \in Client |-> {}]
  /\ result = [c \in Client |-> <<>>]
  /\ answers = [c \in Client |-> {}]
  /\ told = {}

-----------------------------------------------------------------------------
(* The table as a statement of client c sees it *)

Open(i) == stage[i] \in {"queued", "dead"}

\* Mutant: the index covers the events that may still be delivered.
InIndex_QueuedOnly(i) == stage[i] = "queued"

\* The rows that the unique index covers, if their key is not NULL: on
\* PostgreSQL it is partial, WHERE status != 'succeeded'.
InIndex(i) == Open(i) \/ (Database = "mysql" /\ stage[i] = "delivered")

Committed(k) == {i \in Id : InIndex(i) /\ key[i] = k}
Own(c, k) == {a.id : a \in {b \in fresh[c] : b.key = k}}

\* the row that stands in the way of another one with key k
Conflicts(c, k) == IF k = NoKey THEN {} ELSE Committed(k) \cup Own(c, k)

\* Mutant: a transaction waits for its own rows.
Waits_ForItself(c, k) ==
  k # NoKey /\ \E d \in Client :
    Own(d, k) # {} \/ (d # c /\ locked[d] \cap Committed(k) # {})

WaitsFor(c, d, k) ==
  /\ c # d /\ k # NoKey
  /\ Own(d, k) # {} \/ locked[d] \cap Committed(k) # {}

Waits(c, k) == \E d \in Client : WaitsFor(c, d, k)

-----------------------------------------------------------------------------
(* A call *)

Elems(q) == {q[n] : n \in DOMAIN q}

\* A random UUID is never seen twice, not even one of a row that is no more.
Seen == told \cup UNION {fresh[c] \cup answers[c] \cup Elems(result[c]) : c \in Client}
Unused == {i \in Id : stage[i] = "absent"} \ {a.id : a \in Seen}
NewId == CHOOSE i \in Unused : TRUE

\* what a client may call with: the keys of the events, none of them twice
Batch == {b \in UNION {[1..n -> Key \cup {NoKey}] : n \in 1..MaxRows} :
            \A m, n \in DOMAIN b : b[m] = b[n] /\ b[m] # NoKey => m = n}

\* Validation has refused a batch that names a key twice.
Call(c, f, b) ==
  /\ phase[c] \in {"idle", "open"}
  /\ f = "publish" => Len(b) = 1
  /\ Cardinality(answers[c]) + Len(b) <= MaxRows
  /\ job' = [job EXCEPT ![c] = b]
  /\ phase' = [phase EXCEPT ![c] = f]
  /\ UNCHANGED <<tableVars, result, txVars, told>>

Calling(c) == phase[c] \in {"publish", "publishBatch"}
Inserting(c) == Calling(c) /\ Len(result[c]) < Len(job[c])
Asked(c) == job[c][Len(result[c]) + 1]

\* The statement of client c has dealt with its next row, and answers i for it.
Done(c, i) ==
  /\ result' = [result EXCEPT ![c] = Append(@, [id |-> i, key |-> Asked(c)])]
  /\ UNCHANGED <<tableVars, phase, job, answers, told>>

\* No conflict: a new row.
InsertRow(c) ==
  /\ Inserting(c) /\ ~Waits(c, Asked(c))
  /\ Conflicts(c, Asked(c)) = {} /\ Unused # {}
  /\ fresh' = [fresh EXCEPT ![c] = @ \cup {[id |-> NewId, key |-> Asked(c)]}]
  /\ UNCHANGED locked
  /\ Done(c, NewId)

\* Mutant: the conflict does nothing, so the row is not locked.
Absorb_DoNothing(c) ==
  /\ Inserting(c) /\ ~Waits(c, Asked(c)) /\ phase[c] = "publish"
  /\ \E i \in Conflicts(c, Asked(c)) : Done(c, i)
  /\ UNCHANGED <<fresh, locked>>

\* Mutant: also PostgreSQL answers with an id of no row.
Absorb_NewId(c) ==
  /\ Inserting(c) /\ ~Waits(c, Asked(c)) /\ phase[c] = "publish" /\ Unused # {}
  /\ \E i \in Conflicts(c, Asked(c)) :
       locked' = [locked EXCEPT ![c] = @ \cup ({i} \cap Committed(Asked(c)))]
  /\ Done(c, NewId)
  /\ UNCHANGED fresh

\* DO UPDATE, and ON DUPLICATE KEY UPDATE: a committed row i in the way of the
\* next one is set to what it is, which locks it.
Touch(c, i) ==
  locked' = [locked EXCEPT ![c] = @ \cup ({i} \cap Committed(Asked(c)))]

\* publish() and a conflict: the row in the way is updated, which locks it.
\* PostgreSQL returns its id; on MySQL the SDK returns the id it generated for the
\* new row, which is not inserted.
Absorb(c) ==
  /\ Inserting(c) /\ ~Waits(c, Asked(c)) /\ phase[c] = "publish"
  /\ \E i \in Conflicts(c, Asked(c)) :
       /\ Touch(c, i)
       /\ \/ Database = "postgresql" /\ Done(c, i)
          \/ Database = "mysql" /\ Unused # {} /\ Done(c, NewId)
  /\ UNCHANGED fresh

\* the rows of the INSERT under way: those since the last full chunk
Chunk(c) ==
  {result[c][n] : n \in ((Len(result[c]) \div ChunkSize) * ChunkSize + 1)..Len(result[c])}

\* publishBatch() and a conflict: the INSERT fails and the call throws.  MySQL
\* undoes the statement; in PostgreSQL the transaction can only be rolled back.
Refuse(c) ==
  /\ Inserting(c) /\ ~Waits(c, Asked(c)) /\ phase[c] = "publishBatch"
  /\ Conflicts(c, Asked(c)) # {}
  /\ phase' = [phase EXCEPT ![c] = IF Database = "mysql" THEN "open" ELSE "aborted"]
  /\ fresh' = [fresh EXCEPT ![c] = IF Database = "mysql" THEN @ \ Chunk(c) ELSE @]
  /\ job' = [job EXCEPT ![c] = <<>>]
  /\ result' = [result EXCEPT ![c] = <<>>]
  /\ UNCHANGED <<tableVars, locked, answers, told>>

\* All rows are dealt with, and the call returns their ids.
Return(c) ==
  /\ Calling(c) /\ Len(result[c]) = Len(job[c])
  /\ answers' = [answers EXCEPT ![c] = @ \cup Elems(result[c])]
  /\ phase' = [phase EXCEPT ![c] = "open"]
  /\ job' = [job EXCEPT ![c] = <<>>]
  /\ result' = [result EXCEPT ![c] = <<>>]
  /\ UNCHANGED <<tableVars, fresh, locked, told>>

-----------------------------------------------------------------------------
(* The end of a transaction *)

Close(c) ==
  /\ phase' = [phase EXCEPT ![c] = "idle"]
  /\ job' = [job EXCEPT ![c] = <<>>]
  /\ fresh' = [fresh EXCEPT ![c] = {}]
  /\ locked' = [locked EXCEPT ![c] = {}]
  /\ result' = [result EXCEPT ![c] = <<>>]
  /\ answers' = [answers EXCEPT ![c] = {}]

\* the rows of c become visible, each with the status "pending"
Commit(c) ==
  /\ phase[c] = "open"
  /\ stage' = [i \in Id |-> IF \E a \in fresh[c] : a.id = i THEN "queued" ELSE stage[i]]
  /\ key' = [i \in Id |-> IF \E a \in fresh[c] : a.id = i
                            THEN (CHOOSE a \in fresh[c] : a.id = i).key ELSE key[i]]
  /\ told' = told \cup answers[c]
  /\ Close(c)

\* The application rolls back or dies, at any time.
Rollback(c) ==
  /\ phase[c] # "idle"
  /\ Close(c)
  /\ UNCHANGED <<tableVars, told>>

\* The database breaks a circle of transactions that wait for each other.
DeadlockVictim(c) ==
  /\ \E D \in SUBSET Client :
       c \in D /\ \A d \in D : Inserting(d) /\ \E e \in D : WaitsFor(d, e, Asked(d))
  /\ Close(c)
  /\ UNCHANGED <<tableVars, told>>

-----------------------------------------------------------------------------
(* Other users of the table *)

Locked(i) == \E c \in Client : i \in locked[c]

Settle(i, from, to) ==
  /\ stage[i] = from /\ ~Locked(i)
  /\ stage' = [stage EXCEPT ![i] = to]
  /\ UNCHANGED <<key, phase, callVars, txVars, told>>

markSucceeded(i) == Settle(i, "queued", "delivered")
moveToDLQ(i) == Settle(i, "queued", "dead")
ReplayEvent(i) == Settle(i, "dead", "queued")

\* rows whose key may be cleaned up, if processed_at is long enough ago
Stale(i) == stage[i] = "delivered" /\ key[i] # NoKey

WithoutKeys(S) == [i \in Id |-> IF i \in S THEN NoKey ELSE key[i]]

cleanupStaleIdempotencyKeys(S) ==
  /\ S # {} /\ \A i \in S : Stale(i) /\ ~Locked(i)
  /\ key' = WithoutKeys(S)
  /\ UNCHANGED <<stage, phase, callVars, txVars, told>>

-----------------------------------------------------------------------------

Step(c) == InsertRow(c) \/ Absorb(c) \/ Refuse(c) \/ Return(c)

ClientStep(c) ==
  \/ \E f \in {"publish", "publishBatch"}, b \in Batch : Call(c, f, b)
  \/ Step(c)
  \/ Commit(c)
  \/ Rollback(c)
  \/ DeadlockVictim(c)

EventStep(i) == markSucceeded(i) \/ moveToDLQ(i) \/ ReplayEvent(i)

Next ==
  \/ \E c \in Client : ClientStep(c)
  \/ \E i \in Id : EventStep(i)
  \/ \E S \in SUBSET Id : cleanupStaleIdempotencyKeys(S)

Spec == Init /\ [][Next]_vars

\* The bound on ids: the next row needs one, and all are used up.
OutOfIds(c) ==
  Inserting(c) /\ ~Waits(c, Asked(c)) /\ Conflicts(c, Asked(c)) = {} /\ Unused = {}

\* Statements are answered and locks granted in turn; a transaction does not make
\* calls for ever, but nothing ends it during a call: an application may wait
\* without a timeout.  Only the bound on ids makes statements fail.
Fairness ==
  /\ \A c \in Client :
       /\ SF_vars(Step(c))
       /\ SF_vars(~Calling(c) /\ (Commit(c) \/ Rollback(c)))
       /\ WF_vars(OutOfIds(c) /\ Rollback(c))
  /\ WF_vars(\E c \in Client : DeadlockVictim(c))

FairSpec == Spec /\ Fairness

-----------------------------------------------------------------------------
(* Properties *)

\* "Returns the same event ID as the first": at no time do two rows that are
\* not delivered, committed or not, have one key.
OneOpenRowPerKey ==
  \A k \in Key :
    LET open == {i \in Id : Open(i) /\ key[i] = k}
        new == {a \in UNION {fresh[c] : c \in Client} : a.key = k} IN
    Cardinality(open) + Cardinality(new) <= 1

\* The event of a call that has returned is not dropped: as long as its
\* transaction may commit, there is a row with its key that is not delivered yet.
NoEventIsDropped ==
  \A c \in Client : phase[c] # "aborted" =>
    \A a \in answers[c] : a.key # NoKey =>
      Own(c, a.key) # {} \/ \E i \in Id : Open(i) /\ key[i] = a.key

Promise == INSTANCE KeyedOutbox

\* On PostgreSQL publishing in transactions keeps the promise of KeyedOutbox:
\* what a call returns still holds when its transaction commits.
PublishesOnce == Promise!Spec

\* Every call returns, throws, or is rolled back by a deadlock.
CallsEnd == \A c \in Client : Calling(c) ~> ~Calling(c)

=============================================================================

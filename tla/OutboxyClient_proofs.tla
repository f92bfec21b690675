------------------------- MODULE OutboxyClient_proofs -------------------------
(***************************************************************************)
(* The SDK on PostgreSQL implements KeyedOutbox: what a call returns still *)
(* holds when its transaction commits.  An answer is a row that the        *)
(* transaction has inserted, whose key nobody else can use before it ends, *)
(* or a row that it has locked, which nobody can settle before it ends.    *)
(* That keys are used once holds on both databases.                        *)
(***************************************************************************)
EXTENDS OutboxyClient, FiniteSetTheorems, TLAPS

\* Type correctness, on both databases.

LEMMA AskedIsKey ==
  ASSUME ClientTypeOK, NEW c \in Client, Inserting(c)
  PROVE  Asked(c) \in Key \cup {NoKey} /\ Len(result[c]) + 1 \in 1..Len(job[c])
<1>1. job[c] \in Seq(Key \cup {NoKey}) /\ result[c] \in Seq(Answer)
  BY DEF ClientTypeOK
<1>2. Len(job[c]) \in Nat /\ Len(result[c]) \in Nat
  BY <1>1
<1>3. Len(result[c]) + 1 \in 1..Len(job[c])
  BY <1>2 DEF Inserting
<1>4. QED
  BY <1>1, <1>3 DEF Asked

\* What the statement does when it has dealt with a row.
LEMMA DoneEffect ==
  ASSUME ClientTypeOK, NEW c \in Client, Inserting(c), NEW i \in Id, Done(c, i)
  PROVE  LET a == [id |-> i, key |-> Asked(c)] IN
         /\ result' \in [Client -> Seq(Answer)]
         /\ \A d \in Client \ {c} : result'[d] = result[d]
         /\ Elems(result'[c]) = Elems(result[c]) \cup {a}
         /\ UNCHANGED <<stage, key, phase, job, answers, told>>
<1> DEFINE n == Len(result[c]) + 1
           a == [id |-> i, key |-> Asked(c)]
<1>1. result' = [result EXCEPT ![c] = Append(result[c], a)]
      /\ UNCHANGED <<stage, key, phase, job, answers, told>>
  BY DEF Done, tableVars
<1>2. result[c] \in Seq(Answer) /\ Len(result[c]) \in Nat
  BY DEF ClientTypeOK
<1>3. a \in Answer
  BY AskedIsKey DEF Answer
<1> HIDE DEF a
<1>4. result'[c] = Append(result[c], a) /\ \A d \in Client \ {c} : result'[d] = result[d]
  BY <1>1 DEF ClientTypeOK
<1>5. result' \in [Client -> Seq(Answer)]
  BY <1>1, <1>2, <1>3 DEF ClientTypeOK
<1>6. Elems(result'[c]) = Elems(result[c]) \cup {a}
  <2>1. DOMAIN result[c] = 1..Len(result[c]) /\ DOMAIN result'[c] = 1..n
    BY <1>2, <1>3, <1>4
  <2>2. /\ \A m \in 1..Len(result[c]) : result'[c][m] = result[c][m]
        /\ result'[c][n] = a
    BY <1>2, <1>3, <1>4
  <2>3. 1..n = (1..Len(result[c])) \cup {n}
    BY <1>2
  <2>4. QED
    BY <2>1, <2>2, <2>3 DEF Elems
<1>7. QED
  BY <1>1, <1>4, <1>5, <1>6 DEF a

LEMMA NewIdIsUnused ==
  ASSUME Unused # {}
  PROVE  NewId \in Unused /\ NewId \in Id
  BY DEF NewId, Unused

LEMMA BatchType ==
  ASSUME NEW b \in Batch
  PROVE  b \in Seq(Key \cup {NoKey})
<1>1. PICK k \in 1..MaxRows : b \in [1..k -> Key \cup {NoKey}]
  BY DEF Batch
<1>2. QED
  BY <1>1

LEMMA ConflictsAreIds ==
  ASSUME ClientTypeOK, NEW c \in Client, NEW k
  PROVE  Conflicts(c, k) \subseteq Id
  BY DEF Conflicts, Committed, Own, ClientTypeOK, Answer

LEMMA CloseType ==
  ASSUME ClientTypeOK, NEW c \in Client, Close(c), UNCHANGED <<tableVars, told>>
  PROVE  ClientTypeOK'
<1>1. <<>> \in Seq(Answer) /\ <<>> \in Seq(Key \cup {NoKey})
  OBVIOUS
<1>2. job' \in [Client -> Seq(Key \cup {NoKey})] /\ result' \in [Client -> Seq(Answer)]
  BY <1>1 DEF Close, ClientTypeOK
<1>3. phase' \in [Client -> {"idle", "open", "publish", "publishBatch", "aborted"}]
  BY DEF Close, ClientTypeOK
<1>4. fresh' \in [Client -> SUBSET Answer] /\ answers' \in [Client -> SUBSET Answer]
  BY DEF Close, ClientTypeOK
<1>5. locked' \in [Client -> SUBSET Id]
  BY DEF Close, ClientTypeOK
<1>6. QED
  BY <1>2, <1>3, <1>4, <1>5 DEF ClientTypeOK, tableVars

LEMMA TypeStep ==
  ASSUME ClientTypeOK, [Next]_vars
  PROVE  ClientTypeOK'
<1>0. <<>> \in Seq(Answer) /\ <<>> \in Seq(Key \cup {NoKey})
  OBVIOUS
<1>1. ASSUME NEW c \in Client, NEW f \in {"publish", "publishBatch"}, NEW b \in Batch,
             Call(c, f, b)
      PROVE  ClientTypeOK'
  BY <1>1, BatchType DEF Call, ClientTypeOK, tableVars, txVars
<1>2. ASSUME NEW c \in Client, InsertRow(c) PROVE ClientTypeOK'
  <2>1. Asked(c) \in Key \cup {NoKey} /\ NewId \in Id /\ Inserting(c) /\ Done(c, NewId)
    BY <1>2, AskedIsKey, NewIdIsUnused DEF InsertRow
  <2>2. result' \in [Client -> Seq(Answer)]
    BY <2>1, DoneEffect
  <2>3. fresh' \in [Client -> SUBSET Answer]
    BY <1>2, <2>1 DEF InsertRow, ClientTypeOK, Answer
  <2>4. QED
    BY <1>2, <2>2, <2>3 DEF InsertRow, Done, ClientTypeOK, tableVars
<1>3. ASSUME NEW c \in Client, Absorb(c) PROVE ClientTypeOK'
  <2>1. PICK i \in Conflicts(c, Asked(c)) :
          locked' = [locked EXCEPT ![c] = @ \cup ({i} \cap Committed(Asked(c)))]
    BY <1>3 DEF Absorb, Touch
  <2>2. i \in Id
    BY ConflictsAreIds
  <2>3. PICK j \in Id : Done(c, j)
    BY <1>3, ConflictsAreIds, NewIdIsUnused DEF Absorb, Touch
  <2>4. result' \in [Client -> Seq(Answer)]
    BY <1>3, <2>3, DoneEffect DEF Absorb, Touch
  <2>5. locked' \in [Client -> SUBSET Id]
    BY <2>1, <2>2 DEF ClientTypeOK
  <2>6. QED
    BY <1>3, <2>3, <2>4, <2>5 DEF Absorb, Done, ClientTypeOK, tableVars, Touch
<1>4. ASSUME NEW c \in Client, Refuse(c) PROVE ClientTypeOK'
  <2>1. phase' \in [Client -> {"idle", "open", "publish", "publishBatch", "aborted"}]
    BY <1>4 DEF Refuse, ClientTypeOK
  <2>2. fresh' \in [Client -> SUBSET Answer]
    BY <1>4 DEF Refuse, ClientTypeOK
  <2>3. job' \in [Client -> Seq(Key \cup {NoKey})] /\ result' \in [Client -> Seq(Answer)]
    BY <1>0, <1>4 DEF Refuse, ClientTypeOK
  <2>4. QED
    BY <1>4, <2>1, <2>2, <2>3 DEF Refuse, ClientTypeOK, tableVars
<1>5. ASSUME NEW c \in Client, Return(c) PROVE ClientTypeOK'
  <2>1. Elems(result[c]) \subseteq Answer
    BY DEF Elems, ClientTypeOK
  <2>2. QED
    BY <1>0, <1>5, <2>1 DEF Return, ClientTypeOK, tableVars
<1>6. ASSUME NEW c \in Client, Commit(c) PROVE ClientTypeOK'
  <2>1. \A i \in Id : (\E a \in fresh[c] : a.id = i) =>
          (CHOOSE a \in fresh[c] : a.id = i).key \in Key \cup {NoKey}
    BY DEF ClientTypeOK, Answer
  <2>2. key' \in [Id -> Key \cup {NoKey}]
    BY <1>6, <2>1 DEF Commit, ClientTypeOK
  <2>3. stage' \in [Id -> {"absent", "queued", "dead", "delivered"}]
    BY <1>6 DEF Commit, ClientTypeOK
  <2>4. told' \in SUBSET Answer
    BY <1>6 DEF Commit, ClientTypeOK
  <2>5. QED
    BY <1>0, <1>6, <2>2, <2>3, <2>4 DEF Commit, Close, ClientTypeOK
<1>7. ASSUME NEW c \in Client, Rollback(c) \/ DeadlockVictim(c) PROVE ClientTypeOK'
  BY <1>7, CloseType DEF Rollback, DeadlockVictim
<1>8. ASSUME NEW i \in Id, EventStep(i) PROVE ClientTypeOK'
  BY <1>8 DEF EventStep, markSucceeded, moveToDLQ, ReplayEvent, Settle, ClientTypeOK,
              callVars, txVars
<1>9. ASSUME NEW S \in SUBSET Id, cleanupStaleIdempotencyKeys(S) PROVE ClientTypeOK'
  BY <1>9 DEF cleanupStaleIdempotencyKeys, ClientTypeOK, callVars, txVars, WithoutKeys
<1>10. CASE UNCHANGED vars
  BY <1>10 DEF vars, tableVars, callVars, txVars, ClientTypeOK
<1>11. QED
  BY <1>1, <1>2, <1>3, <1>4, <1>5, <1>6, <1>7, <1>8, <1>9, <1>10
     DEF Next, ClientStep, Step

LEMMA TypeInit == Init => ClientTypeOK
  BY DEF Init, ClientTypeOK, Answer

\* Every variable keeps its type, on both databases.
THEOREM ClientTypeCorrect == Spec => []ClientTypeOK
<1>1. QED
  BY TypeInit, TypeStep, PTL DEF Spec

-----------------------------------------------------------------------------
(* Rows that are not committed yet have ids of their own. *)

Written(c) == {a.id : a \in fresh[c]}

OutsideCalls == \A c \in Client : ~Calling(c) => result[c] = <<>>

IdsAreAbsent == \A c \in Client : \A i \in Written(c) : stage[i] = "absent"

IdsAreApart == \A c, d \in Client : c # d => Written(c) \cap Written(d) = {}

IdsAreUnique == \A c \in Client : \A a, b \in fresh[c] : a.id = b.id => a = b

IdsInv == OutsideCalls /\ IdsAreAbsent /\ IdsAreApart /\ IdsAreUnique

\* Calls end and transactions close: fewer rows are uncommitted.
LEMMA FewerRows ==
  ASSUME ClientTypeOK, IdsInv, OutsideCalls',
         \A d \in Client : fresh'[d] \subseteq fresh[d],
         \A d \in Client : \A i \in Id :
           i \in Written(d) /\ i \in Written(d)' /\ stage[i] = "absent" => stage'[i] = "absent"
  PROVE  IdsInv'
<1>1. \A d \in Client : Written(d)' \subseteq Written(d) /\ Written(d) \subseteq Id
  BY DEF Written, ClientTypeOK, Answer
<1>2. IdsAreAbsent'
  BY <1>1 DEF IdsInv, IdsAreAbsent, Written
<1>3. IdsAreApart'
  BY <1>1 DEF IdsInv, IdsAreApart
<1>4. IdsAreUnique'
  BY DEF IdsInv, IdsAreUnique
<1>5. QED
  BY <1>2, <1>3, <1>4 DEF IdsInv

\* The statement goes on.
LEMMA DoneOutsideCalls ==
  ASSUME ClientTypeOK, IdsInv, NEW c \in Client, Inserting(c), NEW i \in Id, Done(c, i)
  PROVE  OutsideCalls'
<1>1. /\ \A d \in Client \ {c} : result'[d] = result[d]
      /\ UNCHANGED phase
  BY DoneEffect
<1>2. \A d \in Client : Calling(d)' = Calling(d)
  BY <1>1 DEF Calling
<1>3. QED
  BY <1>1, <1>2 DEF Inserting, IdsInv, OutsideCalls

\* An insert takes an id that nobody has.
LEMMA InsertKeepsIds ==
  ASSUME ClientTypeOK, IdsInv, NEW c \in Client, InsertRow(c)
  PROVE  IdsInv'
<1>1. PICK a \in Answer : a = [id |-> NewId, key |-> Asked(c)] /\ a.id \in Unused
  <2>1. NewId \in Unused /\ NewId \in Id /\ Asked(c) \in Key \cup {NoKey}
    BY AskedIsKey, NewIdIsUnused DEF InsertRow
  <2>2. [id |-> NewId, key |-> Asked(c)] \in Answer
    BY <2>1 DEF Answer
  <2>3. [id |-> NewId, key |-> Asked(c)].id \in Unused
    BY <2>1
  <2>4. QED
    BY <2>2, <2>3
<1>2. /\ fresh'[c] = fresh[c] \cup {a} /\ \A d \in Client \ {c} : fresh'[d] = fresh[d]
      /\ UNCHANGED stage
  BY <1>1 DEF InsertRow, Done, tableVars, ClientTypeOK
<1>3. \A d \in Client : a.id \notin Written(d)
  BY <1>1 DEF Written, Unused, Seen
<1>4. Written(c)' = Written(c) \cup {a.id} /\ \A d \in Client \ {c} : Written(d)' = Written(d)
  BY <1>2 DEF Written
<1>5. OutsideCalls'
  BY NewIdIsUnused, DoneOutsideCalls DEF InsertRow
<1>6. IdsAreAbsent'
  BY <1>1, <1>2, <1>4 DEF IdsInv, IdsAreAbsent, Unused
<1>7. IdsAreApart'
  BY <1>3, <1>4 DEF IdsInv, IdsAreApart
<1>8. IdsAreUnique'
  BY <1>2, <1>3 DEF IdsInv, IdsAreUnique, Written
<1>9. QED
  BY <1>5, <1>6, <1>7, <1>8 DEF IdsInv

LEMMA CloseKeepsIds ==
  ASSUME ClientTypeOK, IdsInv, NEW c \in Client, Close(c),
         \A i \in Id : i \notin Written(c) => stage'[i] = stage[i]
  PROVE  IdsInv'
<1>1. /\ phase'[c] = "idle" /\ fresh'[c] = {} /\ result'[c] = <<>>
      /\ \A d \in Client \ {c} : /\ phase'[d] = phase[d]
                                 /\ fresh'[d] = fresh[d] /\ result'[d] = result[d]
  BY DEF Close, ClientTypeOK
<1>2. OutsideCalls'
  BY <1>1 DEF IdsInv, OutsideCalls, Calling
<1>3. \A d \in Client : fresh'[d] \subseteq fresh[d]
  BY <1>1
<1>4. \A d \in Client : \A i \in Id : i \in Written(d) /\ i \in Written(d)' => i \notin Written(c)
  <2>1. Written(c)' = {}
    BY <1>1 DEF Written
  <2>2. QED
    BY <2>1 DEF IdsInv, IdsAreApart
<1>5. QED
  BY <1>2, <1>3, <1>4, FewerRows

LEMMA IdsStep ==
  ASSUME ClientTypeOK, IdsInv, [Next]_vars
  PROVE  IdsInv'
<1>1. ASSUME NEW c \in Client, NEW f \in {"publish", "publishBatch"}, NEW b \in Batch,
             Call(c, f, b)
      PROVE  IdsInv'
  <2>1. OutsideCalls'
    BY <1>1 DEF Call, IdsInv, OutsideCalls, Calling, ClientTypeOK
  <2>2. UNCHANGED <<stage, fresh>>
    BY <1>1 DEF Call, tableVars, txVars
  <2>3. QED
    BY <2>1, <2>2, FewerRows
<1>2. ASSUME NEW c \in Client, InsertRow(c) PROVE IdsInv'
  BY <1>2, InsertKeepsIds
<1>3. ASSUME NEW c \in Client, Absorb(c) PROVE IdsInv'
  <2>1. PICK i \in Id : Done(c, i)
    BY <1>3, ConflictsAreIds, NewIdIsUnused DEF Absorb, Touch
  <2>2. Inserting(c) /\ UNCHANGED fresh
    BY <1>3 DEF Absorb, Touch
  <2>3. OutsideCalls' /\ UNCHANGED stage
    BY <2>1, <2>2, DoneEffect, DoneOutsideCalls
  <2>4. QED
    BY <2>2, <2>3, FewerRows
<1>4. ASSUME NEW c \in Client, Refuse(c) \/ Return(c) PROVE IdsInv'
  <2>1. \A d \in Client : fresh'[d] \subseteq fresh[d]
    <3>1. CASE Refuse(c)
      BY <3>1 DEF Refuse, ClientTypeOK
    <3>2. CASE Return(c)
      BY <3>2 DEF Return, ClientTypeOK
    <3>3. QED
      BY <1>4, <3>1, <3>2
  <2>2. UNCHANGED stage /\ result' = [result EXCEPT ![c] = <<>>]
        /\ \A d \in Client \ {c} : phase'[d] = phase[d]
    BY <1>4 DEF Refuse, Return, tableVars, ClientTypeOK
  <2>3. OutsideCalls'
    BY <2>2 DEF IdsInv, OutsideCalls, Calling, ClientTypeOK
  <2>4. QED
    BY <2>1, <2>2, <2>3, FewerRows
<1>5. ASSUME NEW c \in Client, Commit(c) PROVE IdsInv'
  <2>1. \A i \in Id : i \notin Written(c) => stage'[i] = stage[i]
    BY <1>5 DEF Commit, Written
  <2>2. QED
    BY <1>5, <2>1, CloseKeepsIds DEF Commit
<1>6. ASSUME NEW c \in Client, Rollback(c) \/ DeadlockVictim(c) PROVE IdsInv'
  BY <1>6, CloseKeepsIds DEF Rollback, DeadlockVictim, tableVars
<1>7. ASSUME UNCHANGED <<phase, callVars, txVars>>,
             \A i \in Id : stage[i] = "absent" => stage'[i] = "absent"
      PROVE  IdsInv'
  <2>1. OutsideCalls'
    BY <1>7 DEF IdsInv, OutsideCalls, Calling, callVars
  <2>2. QED
    BY <1>7, <2>1, FewerRows DEF txVars
<1>8. ASSUME NEW i \in Id, EventStep(i) PROVE IdsInv'
  <2>1. \A j \in Id : stage[j] = "absent" => stage'[j] = "absent"
    BY <1>8 DEF EventStep, markSucceeded, moveToDLQ, ReplayEvent, Settle, ClientTypeOK
  <2>2. UNCHANGED <<phase, callVars, txVars>>
    BY <1>8 DEF EventStep, markSucceeded, moveToDLQ, ReplayEvent, Settle
  <2>3. QED
    BY <1>7, <2>1, <2>2
<1>9. ASSUME NEW S \in SUBSET Id, cleanupStaleIdempotencyKeys(S) PROVE IdsInv'
  BY <1>7, <1>9 DEF cleanupStaleIdempotencyKeys, WithoutKeys
<1>10. CASE UNCHANGED vars
  BY <1>7, <1>10 DEF vars, tableVars
<1>11. QED
  BY <1>1, <1>2, <1>3, <1>4, <1>5, <1>6, <1>8, <1>9, <1>10 DEF Next, ClientStep, Step

LEMMA IdsInit ==
  ASSUME Init
  PROVE  IdsInv
<1>1. \A c \in Client : result[c] = <<>> /\ fresh[c] = {}
  BY DEF Init
<1>2. \A c \in Client : Written(c) = {}
  BY <1>1 DEF Written
<1>3. QED
  BY <1>1, <1>2 DEF IdsInv, OutsideCalls, IdsAreAbsent, IdsAreApart, IdsAreUnique

-----------------------------------------------------------------------------
(* A key is used once, also by rows that are not committed yet. *)

NewKeysAreUnique ==
  \A c, d \in Client : \A a \in fresh[c], b \in fresh[d] :
    a.key = b.key /\ a.key # NoKey => c = d /\ a = b

NewKeysAreFree ==
  \A c \in Client : \A a \in fresh[c] : a.key # NoKey =>
    \A i \in Id : Open(i) => key[i] # a.key

KeysInv == Promise!OneOpenEventPerKey /\ NewKeysAreUnique /\ NewKeysAreFree

\* Nothing opens, no key appears, and fewer rows are new.
LEMMA FewerKeys ==
  ASSUME KeysInv,
         \A i \in Id : Open(i)' /\ key'[i] # NoKey => Open(i) /\ key'[i] = key[i],
         \A d \in Client : fresh'[d] \subseteq fresh[d]
  PROVE  KeysInv'
<1>1. Promise!OneOpenEventPerKey'
  BY DEF KeysInv, Promise!OneOpenEventPerKey, Promise!Open, Open
<1>2. NewKeysAreUnique'
  BY DEF KeysInv, NewKeysAreUnique
<1>3. NewKeysAreFree'
  <2>1. SUFFICES ASSUME NEW c \in Client, NEW a \in fresh'[c], a.key # NoKey,
                        NEW i \in Id, Open(i)'
                 PROVE  key'[i] # a.key
    BY DEF NewKeysAreFree
  <2>2. CASE key'[i] = NoKey
    BY <2>1, <2>2
  <2>3. CASE key'[i] # NoKey
    BY <2>1, <2>3 DEF KeysInv, NewKeysAreFree
  <2>4. QED
    BY <2>2, <2>3
<1>4. QED
  BY <1>1, <1>2, <1>3 DEF KeysInv

LEMMA InsertKeepsKeys ==
  ASSUME ClientTypeOK, KeysInv, NEW c \in Client, InsertRow(c)
  PROVE  KeysInv'
<1>0. PICK a \in Answer : a = [id |-> NewId, key |-> Asked(c)]
  BY AskedIsKey, NewIdIsUnused DEF InsertRow, Answer
<1>1. /\ fresh'[c] = fresh[c] \cup {a} /\ \A d \in Client \ {c} : fresh'[d] = fresh[d]
      /\ UNCHANGED <<stage, key>>
  BY <1>0 DEF InsertRow, Done, ClientTypeOK, tableVars
<1>2. a.key # NoKey =>
        /\ \A i \in Id : Open(i) => key[i] # a.key
        /\ \A d \in Client : \A b \in fresh[d] : b.key # a.key
  <2>1. SUFFICES ASSUME a.key # NoKey
                 PROVE  /\ \A i \in Id : Open(i) => key[i] # a.key
                        /\ \A d \in Client : \A b \in fresh[d] : b.key # a.key
    OBVIOUS
  <2>2. Committed(a.key) = {} /\ Own(c, a.key) = {}
    BY <1>0, <2>1 DEF InsertRow, Conflicts
  <2>3. \A d \in Client \ {c} : Own(d, a.key) = {}
    BY <1>0, <2>1 DEF InsertRow, Waits, WaitsFor
  <2>4. \A i \in Id : Open(i) => key[i] # a.key
    BY <2>2 DEF Committed, InIndex
  <2>5. \A d \in Client : \A b \in fresh[d] : b.key # a.key
    BY <2>2, <2>3 DEF Own
  <2>6. QED
    BY <2>4, <2>5
<1>3. Promise!OneOpenEventPerKey'
  BY <1>1 DEF KeysInv, Promise!OneOpenEventPerKey, Promise!Open
<1>4. NewKeysAreUnique'
  BY <1>1, <1>2 DEF KeysInv, NewKeysAreUnique
<1>5. NewKeysAreFree'
  <2>1. \A i \in Id : Open(i)' = Open(i)
    BY <1>1 DEF Open
  <2>2. QED
    BY <1>1, <1>2, <2>1 DEF KeysInv, NewKeysAreFree
<1>6. QED
  BY <1>3, <1>4, <1>5 DEF KeysInv

\* What a commit does to the table, row by row.
LEMMA CommitRows ==
  ASSUME ClientTypeOK, IdsInv, NEW c \in Client, Commit(c)
  PROVE  /\ \A a \in fresh[c] : stage'[a.id] = "queued" /\ key'[a.id] = a.key
         /\ \A i \in Id \ Written(c) : stage'[i] = stage[i] /\ key'[i] = key[i]
         /\ fresh'[c] = {} /\ \A d \in Client \ {c} : fresh'[d] = fresh[d]
<1>1. \A i \in Id \ Written(c) : stage'[i] = stage[i] /\ key'[i] = key[i]
  BY DEF Commit, Written
<1>2. ASSUME NEW a \in fresh[c]
      PROVE  stage'[a.id] = "queued" /\ key'[a.id] = a.key
  <2>1. a.id \in Id
    BY DEF ClientTypeOK, Answer
  <2>2. \A b \in fresh[c] : b.id = a.id => b = a
    BY DEF IdsInv, IdsAreUnique
  <2>3. (CHOOSE b \in fresh[c] : b.id = a.id) = a
    BY <2>2
  <2>4. QED
    BY <2>1, <2>3 DEF Commit
<1>3. fresh'[c] = {} /\ \A d \in Client \ {c} : fresh'[d] = fresh[d]
  BY DEF Commit, Close, ClientTypeOK
<1>4. QED
  BY <1>1, <1>2, <1>3

LEMMA CommitKeepsKeys ==
  ASSUME ClientTypeOK, IdsInv, KeysInv, NEW c \in Client, Commit(c)
  PROVE  KeysInv'
<1>1. /\ \A a \in fresh[c] : stage'[a.id] = "queued" /\ key'[a.id] = a.key
      /\ \A i \in Id \ Written(c) : stage'[i] = stage[i] /\ key'[i] = key[i]
      /\ fresh'[c] = {} /\ \A d \in Client \ {c} : fresh'[d] = fresh[d]
  BY CommitRows
\* An open row was open before, or is one of those of c.
<1>2. \A i \in Id : Open(i)' =>
        \/ i \notin Written(c) /\ Open(i) /\ key'[i] = key[i]
        \/ \E a \in fresh[c] : a.id = i /\ key'[i] = a.key
  BY <1>1 DEF Open, Written
<1>3. Promise!OneOpenEventPerKey'
  <2>1. SUFFICES ASSUME NEW i \in Id, NEW j \in Id, Open(i)', Open(j)',
                        key'[i] = key'[j], key'[i] # NoKey
                 PROVE  i = j
    BY DEF Promise!OneOpenEventPerKey, Promise!Open, Open
  <2>0. \/ j \notin Written(c) /\ Open(j) /\ key'[j] = key[j]
        \/ \E b \in fresh[c] : b.id = j /\ key'[j] = b.key
    BY <1>2, <2>1 DEF Open
  <2>2. CASE i \notin Written(c) /\ Open(i) /\ key'[i] = key[i]
    <3>1. j \notin Written(c) /\ Open(j) /\ key'[j] = key[j]
      BY <2>0, <2>1, <2>2 DEF KeysInv, NewKeysAreFree
    <3>2. QED
      BY <2>1, <2>2, <3>1 DEF KeysInv, Promise!OneOpenEventPerKey, Promise!Open, Open
  <2>3. CASE \E a \in fresh[c] : a.id = i /\ key'[i] = a.key
    <3>1. \E b \in fresh[c] : b.id = j /\ key'[j] = b.key
      BY <2>0, <2>1, <2>3 DEF KeysInv, NewKeysAreFree
    <3>2. QED
      BY <2>1, <2>3, <3>1 DEF KeysInv, NewKeysAreUnique
  <2>4. QED
    BY <1>2, <2>1, <2>2, <2>3
<1>4. NewKeysAreUnique'
  BY <1>1 DEF KeysInv, NewKeysAreUnique
<1>5. NewKeysAreFree'
  <2>1. SUFFICES ASSUME NEW d \in Client, NEW b \in fresh'[d], b.key # NoKey,
                        NEW i \in Id, Open(i)'
                 PROVE  key'[i] # b.key
    BY DEF NewKeysAreFree
  <2>2. d # c /\ b \in fresh[d]
    BY <1>1
  <2>3. CASE i \notin Written(c) /\ Open(i) /\ key'[i] = key[i]
    BY <2>1, <2>2, <2>3 DEF KeysInv, NewKeysAreFree
  <2>4. CASE \E a \in fresh[c] : a.id = i /\ key'[i] = a.key
    BY <2>1, <2>2, <2>4 DEF KeysInv, NewKeysAreUnique
  <2>5. QED
    BY <1>2, <2>1, <2>3, <2>4
<1>6. QED
  BY <1>3, <1>4, <1>5 DEF KeysInv

LEMMA KeysStep ==
  ASSUME ClientTypeOK, IdsInv, KeysInv, [Next]_vars
  PROVE  KeysInv'
<1>0. ASSUME UNCHANGED tableVars, \A d \in Client : fresh'[d] \subseteq fresh[d]
      PROVE  KeysInv'
  <2>1. \A i \in Id : Open(i)' = Open(i) /\ key'[i] = key[i]
    BY <1>0 DEF tableVars, Open
  <2>2. QED
    BY <1>0, <2>1, FewerKeys
<1>1. ASSUME NEW c \in Client, NEW f \in {"publish", "publishBatch"}, NEW b \in Batch,
             Call(c, f, b)
      PROVE  KeysInv'
  BY <1>0, <1>1 DEF Call, txVars
<1>2. ASSUME NEW c \in Client, InsertRow(c) PROVE KeysInv'
  BY <1>2, InsertKeepsKeys
<1>3. ASSUME NEW c \in Client, Absorb(c) PROVE KeysInv'
  <2>1. UNCHANGED tableVars /\ UNCHANGED fresh
    BY <1>3 DEF Absorb, Done, Touch
  <2>2. QED
    BY <1>0, <2>1
<1>4. ASSUME NEW c \in Client, Refuse(c) PROVE KeysInv'
  <2>1. UNCHANGED tableVars /\ \A d \in Client : fresh'[d] \subseteq fresh[d]
    BY <1>4 DEF Refuse, ClientTypeOK
  <2>2. QED
    BY <1>0, <2>1
<1>5. ASSUME NEW c \in Client, Return(c) PROVE KeysInv'
  BY <1>0, <1>5 DEF Return
<1>6. ASSUME NEW c \in Client, Commit(c) PROVE KeysInv'
  BY <1>6, CommitKeepsKeys
<1>7. ASSUME NEW c \in Client, Rollback(c) \/ DeadlockVictim(c) PROVE KeysInv'
  <2>1. UNCHANGED tableVars /\ \A d \in Client : fresh'[d] \subseteq fresh[d]
    BY <1>7 DEF Rollback, DeadlockVictim, Close, ClientTypeOK
  <2>2. QED
    BY <1>0, <2>1
<1>8. ASSUME NEW i \in Id, EventStep(i) PROVE KeysInv'
  <2>1. UNCHANGED <<key, fresh>>
    BY <1>8 DEF EventStep, markSucceeded, moveToDLQ, ReplayEvent, Settle, txVars
  <2>2. \A j \in Id : Open(j)' => Open(j)
    BY <1>8 DEF EventStep, markSucceeded, moveToDLQ, ReplayEvent, Settle, Open, ClientTypeOK
  <2>3. QED
    BY <2>1, <2>2, FewerKeys
<1>9. ASSUME NEW S \in SUBSET Id, cleanupStaleIdempotencyKeys(S) PROVE KeysInv'
  <2>1. UNCHANGED <<stage, fresh>>
        /\ \A j \in Id : key'[j] = IF j \in S THEN NoKey ELSE key[j]
    BY <1>9 DEF cleanupStaleIdempotencyKeys, txVars, WithoutKeys
  <2>2. QED
    BY <2>1, FewerKeys DEF Open
<1>10. CASE UNCHANGED vars
  BY <1>0, <1>10 DEF vars, txVars
<1>11. QED
  BY <1>1, <1>2, <1>3, <1>4, <1>5, <1>6, <1>7, <1>8, <1>9, <1>10
     DEF Next, ClientStep, Step

LEMMA KeysInit ==
  ASSUME Init
  PROVE  KeysInv
  BY DEF Init, KeysInv, Promise!OneOpenEventPerKey, Promise!Open, Open, NewKeysAreUnique,
         NewKeysAreFree

\* The invariant that holds on both databases.
LEMMA RowsInvariant == Spec => [](ClientTypeOK /\ IdsInv /\ KeysInv)
<1>1. Init => ClientTypeOK /\ IdsInv /\ KeysInv
  BY TypeInit, IdsInit, KeysInit
<1>2. ClientTypeOK /\ IdsInv /\ KeysInv /\ [Next]_vars => (ClientTypeOK /\ IdsInv /\ KeysInv)'
  BY TypeStep, IdsStep, KeysStep
<1>3. QED
  BY <1>1, <1>2, PTL DEF Spec

\* Two rows that are not delivered never have one key, on both databases.
THEOREM KeysAreUsedOnce == Spec => []OneOpenRowPerKey
<1>1. ASSUME ClientTypeOK, KeysInv, NEW k \in Key
      PROVE  LET open == {i \in Id : Open(i) /\ key[i] = k}
                 new == {a \in UNION {fresh[c] : c \in Client} : a.key = k} IN
             Cardinality(open) + Cardinality(new) <= 1
  <2> DEFINE open == {i \in Id : Open(i) /\ key[i] = k}
             new == {a \in UNION {fresh[c] : c \in Client} : a.key = k}
  <2>1. k # NoKey
    BY ClientAssumption
  <2>2. \A i, j \in open : i = j
    BY <1>1, <2>1 DEF KeysInv, Promise!OneOpenEventPerKey, Promise!Open, Open
  <2>3. \A a, b \in new : a = b
    BY <1>1, <2>1 DEF KeysInv, NewKeysAreUnique
  <2>4. open = {} \/ new = {}
    BY <1>1, <2>1 DEF KeysInv, NewKeysAreFree
  <2> HIDE DEF open, new
  <2>5. open = {} \/ \E i : open = {i}
    BY <2>2
  <2>6. new = {} \/ \E a : new = {a}
    BY <2>3
  <2>7. Cardinality(open) \in {0, 1} /\ (open = {} => Cardinality(open) = 0)
    BY <2>5, FS_EmptySet, FS_Singleton
  <2>8. Cardinality(new) \in {0, 1} /\ (new = {} => Cardinality(new) = 0)
    BY <2>6, FS_EmptySet, FS_Singleton
  <2>9. Cardinality(open) + Cardinality(new) <= 1
    BY <2>4, <2>7, <2>8
  <2>10. QED
    BY <2>9 DEF open, new
<1>2. ClientTypeOK /\ KeysInv => OneOpenRowPerKey
  BY <1>1 DEF OneOpenRowPerKey
<1>3. QED
  BY <1>2, RowsInvariant, PTL

-----------------------------------------------------------------------------
(* On PostgreSQL an answer holds until the transaction ends. *)

LocksInv == \A c \in Client : \A i \in locked[c] : Open(i) /\ key[i] # NoKey

\* Answer a is a row of the transaction, or one that it has locked.
Holds(c, a) == a \in fresh[c] \/ (a.id \in locked[c] /\ key[a.id] = a.key)

AnswersHold ==
  \A c \in Client : phase[c] # "aborted" =>
    \A a \in answers[c] \cup Elems(result[c]) : Holds(c, a)

RowsAreAnswers ==
  \A c \in Client : phase[c] # "aborted" =>
    fresh[c] \subseteq answers[c] \cup Elems(result[c])

AnswersInv == LocksInv /\ AnswersHold /\ RowsAreAnswers

\* The row in the way of a call, and what the call makes of it.
LEMMA AbsorbEffect ==
  ASSUME Database = "postgresql", ClientTypeOK, NEW c \in Client, Absorb(c)
  PROVE  \E a \in Answer :
           /\ \A d \in Client \ {c} : result'[d] = result[d] /\ locked'[d] = locked[d]
           /\ Elems(result'[c]) = Elems(result[c]) \cup {a}
           /\ locked[c] \subseteq locked'[c]
           /\ \A i \in locked'[c] \ locked[c] : Open(i) /\ key[i] # NoKey
           /\ Holds(c, a)'
           /\ UNCHANGED <<stage, key, phase, fresh, answers, told>>
<1>1. PICK k \in Key \cup {NoKey} : k = Asked(c)
  BY AskedIsKey DEF Absorb, Touch
<1>2. PICK i \in Conflicts(c, k) :
        /\ locked' = [locked EXCEPT ![c] = @ \cup ({i} \cap Committed(k))]
        /\ Done(c, i)
  BY <1>1 DEF Absorb, Touch
<1>3. i \in Id /\ Inserting(c) /\ UNCHANGED fresh
  BY ConflictsAreIds DEF Absorb, Touch
<1>4. k # NoKey /\ (i \in Committed(k) \/ i \in Own(c, k))
  BY DEF Conflicts
<1>5. PICK a \in Answer : a = [id |-> i, key |-> k]
  BY <1>3 DEF Answer
<1>6. /\ \A d \in Client \ {c} : result'[d] = result[d]
      /\ Elems(result'[c]) = Elems(result[c]) \cup {a}
      /\ UNCHANGED <<stage, key, phase, answers, told>>
  BY <1>1, <1>2, <1>3, <1>5, DoneEffect
<1>7. locked'[c] = locked[c] \cup ({i} \cap Committed(k))
      /\ \A d \in Client \ {c} : locked'[d] = locked[d]
  BY <1>2 DEF ClientTypeOK
<1>8. \A j \in Committed(k) : Open(j) /\ key[j] = k
  BY DEF Committed, InIndex
<1>9. Holds(c, a)'
  <2>1. CASE i \in Committed(k)
    BY <1>6, <1>7, <1>8, <1>5, <2>1 DEF Holds
  <2>2. CASE i \in Own(c, k)
    <3>1. PICK b \in fresh[c] : b.id = i /\ b.key = k
      BY <2>2 DEF Own
    <3>2. b = a
      BY <1>5, <3>1 DEF ClientTypeOK, Answer
    <3>3. QED
      BY <1>3, <3>2 DEF Holds
  <2>3. QED
    BY <1>4, <2>1, <2>2
<1>10. \A j \in locked'[c] \ locked[c] : Open(j) /\ key[j] # NoKey
  BY <1>4, <1>7, <1>8
<1>11. QED
  BY <1>3, <1>6, <1>7, <1>9, <1>10

LEMMA AbsorbKeepsAnswers ==
  ASSUME Database = "postgresql", ClientTypeOK, AnswersInv, NEW c \in Client, Absorb(c)
  PROVE  AnswersInv'
<1>1. PICK a \in Answer :
        /\ \A d \in Client \ {c} : result'[d] = result[d] /\ locked'[d] = locked[d]
        /\ Elems(result'[c]) = Elems(result[c]) \cup {a}
        /\ locked[c] \subseteq locked'[c]
        /\ \A i \in locked'[c] \ locked[c] : Open(i) /\ key[i] # NoKey
        /\ Holds(c, a)'
        /\ UNCHANGED <<stage, key, phase, fresh, answers, told>>
  BY AbsorbEffect
<1>2. \A i : Open(i)' = Open(i)
  BY <1>1 DEF Open
<1>3. LocksInv'
  BY <1>1, <1>2 DEF AnswersInv, LocksInv
<1>4. \A d \in Client : \A b : Holds(d, b) => Holds(d, b)'
  BY <1>1 DEF Holds
<1>5. AnswersHold'
  BY <1>1, <1>4 DEF AnswersInv, AnswersHold
<1>6. RowsAreAnswers'
  BY <1>1 DEF AnswersInv, RowsAreAnswers
<1>7. QED
  BY <1>3, <1>5, <1>6 DEF AnswersInv

LEMMA InsertKeepsAnswers ==
  ASSUME ClientTypeOK, AnswersInv, NEW c \in Client, InsertRow(c)
  PROVE  AnswersInv'
<1>1. PICK a \in Answer : a = [id |-> NewId, key |-> Asked(c)]
  BY AskedIsKey, NewIdIsUnused DEF InsertRow, Answer
<1>2. NewId \in Id /\ Inserting(c) /\ Done(c, NewId)
  BY NewIdIsUnused DEF InsertRow
<1>3. /\ \A d \in Client \ {c} : result'[d] = result[d]
      /\ Elems(result'[c]) = Elems(result[c]) \cup {a}
      /\ UNCHANGED <<stage, key, phase, answers>>
  BY <1>1, <1>2, DoneEffect
<1>4. fresh'[c] = fresh[c] \cup {a} /\ UNCHANGED locked
      /\ \A d \in Client \ {c} : fresh'[d] = fresh[d]
  BY <1>1 DEF InsertRow, ClientTypeOK
<1>5. LocksInv'
  BY <1>3, <1>4 DEF AnswersInv, LocksInv, Open
<1>6. \A d \in Client : \A b : Holds(d, b) => Holds(d, b)'
  BY <1>3, <1>4 DEF Holds
<1>7. Holds(c, a)'
  BY <1>4 DEF Holds
<1>8. AnswersHold'
  BY <1>3, <1>6, <1>7 DEF AnswersInv, AnswersHold
<1>9. RowsAreAnswers'
  BY <1>3, <1>4 DEF AnswersInv, RowsAreAnswers
<1>10. QED
  BY <1>5, <1>8, <1>9 DEF AnswersInv

LEMMA ReturnKeepsAnswers ==
  ASSUME ClientTypeOK, AnswersInv, NEW c \in Client, Return(c)
  PROVE  AnswersInv'
<1>1. /\ UNCHANGED <<stage, key, fresh, locked>>
      /\ phase[c] # "aborted"
      /\ \A d \in Client \ {c} :
           phase'[d] = phase[d] /\ result'[d] = result[d] /\ answers'[d] = answers[d]
      /\ result'[c] = <<>> /\ answers'[c] = answers[c] \cup Elems(result[c])
  BY DEF Return, Calling, tableVars, ClientTypeOK
<1>2. Elems(result'[c]) = {}
  BY <1>1 DEF Elems
<1>3. LocksInv'
  BY <1>1 DEF AnswersInv, LocksInv, Open
<1>4. \A d \in Client : \A b : Holds(d, b)' = Holds(d, b)
  BY <1>1 DEF Holds
<1>5. AnswersHold'
  BY <1>1, <1>2, <1>4 DEF AnswersInv, AnswersHold
<1>6. RowsAreAnswers'
  BY <1>1, <1>2 DEF AnswersInv, RowsAreAnswers
<1>7. QED
  BY <1>3, <1>5, <1>6 DEF AnswersInv

\* The end of a transaction disturbs no row that another one has locked.
LEMMA CloseKeepsAnswers ==
  ASSUME ClientTypeOK, AnswersInv, NEW c \in Client, Close(c),
         \A d \in Client : \A i \in locked[d] : stage'[i] = stage[i] /\ key'[i] = key[i]
  PROVE  AnswersInv'
<1>1. /\ fresh'[c] = {} /\ locked'[c] = {} /\ answers'[c] = {} /\ result'[c] = <<>>
      /\ \A d \in Client \ {c} :
           /\ phase'[d] = phase[d] /\ fresh'[d] = fresh[d] /\ locked'[d] = locked[d]
           /\ result'[d] = result[d] /\ answers'[d] = answers[d]
  BY DEF Close, ClientTypeOK
<1>2. Elems(result'[c]) = {}
  BY <1>1 DEF Elems
<1>3. LocksInv'
  BY <1>1 DEF AnswersInv, LocksInv, Open
<1>4. \A d \in Client \ {c} : \A b : Holds(d, b) => Holds(d, b)'
  BY <1>1 DEF Holds
<1>5. AnswersHold'
  BY <1>1, <1>2, <1>4 DEF AnswersInv, AnswersHold
<1>6. RowsAreAnswers'
  BY <1>1 DEF AnswersInv, RowsAreAnswers
<1>7. QED
  BY <1>3, <1>5, <1>6 DEF AnswersInv

\* Others leave locked rows alone.
LEMMA OthersKeepAnswers ==
  ASSUME AnswersInv, UNCHANGED <<phase, fresh, locked, result, answers>>,
         \A d \in Client : \A i \in locked[d] : stage'[i] = stage[i] /\ key'[i] = key[i]
  PROVE  AnswersInv'
<1>1. LocksInv'
  BY DEF AnswersInv, LocksInv, Open
<1>2. \A d \in Client : \A b : Holds(d, b) => Holds(d, b)'
  BY DEF Holds
<1>3. AnswersHold'
  BY <1>2 DEF AnswersInv, AnswersHold
<1>4. RowsAreAnswers'
  BY DEF AnswersInv, RowsAreAnswers
<1>5. QED
  BY <1>1, <1>3, <1>4 DEF AnswersInv

LEMMA RefuseKeepsAnswers ==
  ASSUME Database = "postgresql", ClientTypeOK, AnswersInv, NEW c \in Client, Refuse(c)
  PROVE  AnswersInv'
<1>1. /\ UNCHANGED <<stage, key, locked, answers>>
      /\ phase'[c] = "aborted"
      /\ \A d \in Client \ {c} :
           phase'[d] = phase[d] /\ result'[d] = result[d] /\ fresh'[d] = fresh[d]
  BY DEF Refuse, tableVars, ClientTypeOK
<1>2. LocksInv'
  BY <1>1 DEF AnswersInv, LocksInv, Open
<1>3. \A d \in Client \ {c} : \A b : Holds(d, b) => Holds(d, b)'
  BY <1>1 DEF Holds
<1>4. AnswersHold'
  BY <1>1, <1>3 DEF AnswersInv, AnswersHold
<1>5. RowsAreAnswers'
  BY <1>1 DEF AnswersInv, RowsAreAnswers
<1>6. QED
  BY <1>2, <1>4, <1>5 DEF AnswersInv

LEMMA CallKeepsAnswers ==
  ASSUME ClientTypeOK, AnswersInv, NEW c \in Client,
         NEW f \in {"publish", "publishBatch"}, NEW b \in Batch, Call(c, f, b)
  PROVE  AnswersInv'
<1>1. /\ UNCHANGED <<stage, key, fresh, locked, result, answers>>
      /\ \A d \in Client : phase'[d] # "aborted" => phase[d] # "aborted"
  BY DEF Call, tableVars, txVars, ClientTypeOK
<1>2. LocksInv'
  BY <1>1 DEF AnswersInv, LocksInv, Open
<1>3. \A d \in Client : \A x : Holds(d, x) => Holds(d, x)'
  BY <1>1 DEF Holds
<1>4. AnswersHold'
  BY <1>1, <1>3 DEF AnswersInv, AnswersHold
<1>5. RowsAreAnswers'
  BY <1>1 DEF AnswersInv, RowsAreAnswers
<1>6. QED
  BY <1>2, <1>4, <1>5 DEF AnswersInv

LEMMA AnswersStep ==
  ASSUME Database = "postgresql", ClientTypeOK, IdsInv, AnswersInv, [Next]_vars
  PROVE  AnswersInv'
<1>1. ASSUME NEW c \in Client, NEW f \in {"publish", "publishBatch"}, NEW b \in Batch,
             Call(c, f, b)
      PROVE  AnswersInv'
  BY <1>1, CallKeepsAnswers
<1>2. ASSUME NEW c \in Client, Step(c) PROVE AnswersInv'
  BY <1>2, InsertKeepsAnswers, AbsorbKeepsAnswers, RefuseKeepsAnswers, ReturnKeepsAnswers
     DEF Step
<1>3. ASSUME NEW c \in Client, Commit(c) PROVE AnswersInv'
  <2>1. ASSUME NEW d \in Client, NEW i \in locked[d]
        PROVE  stage'[i] = stage[i] /\ key'[i] = key[i]
    <3>1. i \in Id /\ stage[i] # "absent"
      BY <2>1 DEF AnswersInv, LocksInv, Open, ClientTypeOK
    <3>2. i \notin Written(c)
      BY <3>1 DEF IdsInv, IdsAreAbsent
    <3>3. QED
      BY <1>3, <3>1, <3>2, CommitRows
  <2>2. Close(c)
    BY <1>3 DEF Commit
  <2>3. QED
    BY <2>1, <2>2, CloseKeepsAnswers
<1>4. ASSUME NEW c \in Client, Rollback(c) \/ DeadlockVictim(c) PROVE AnswersInv'
  BY <1>4, CloseKeepsAnswers DEF Rollback, DeadlockVictim, tableVars
<1>5. ASSUME NEW i \in Id, EventStep(i) PROVE AnswersInv'
  <2>1. /\ UNCHANGED <<key, phase, fresh, locked, result, answers>>
        /\ ~Locked(i) /\ \A j \in Id \ {i} : stage'[j] = stage[j]
    BY <1>5 DEF EventStep, markSucceeded, moveToDLQ, ReplayEvent, Settle, callVars, txVars,
                ClientTypeOK
  <2>2. \A d \in Client : \A j \in locked[d] : j \in Id \ {i}
    BY <2>1 DEF Locked, ClientTypeOK
  <2>3. QED
    BY <2>1, <2>2, OthersKeepAnswers
<1>6. ASSUME NEW S \in SUBSET Id, cleanupStaleIdempotencyKeys(S) PROVE AnswersInv'
  <2>1. /\ UNCHANGED <<stage, phase, fresh, locked, result, answers>>
        /\ \A j \in Id \ S : key'[j] = key[j]
    BY <1>6 DEF cleanupStaleIdempotencyKeys, callVars, txVars, WithoutKeys
  <2>2. \A d \in Client : \A j \in locked[d] : j \in Id \ S
    BY <1>6 DEF cleanupStaleIdempotencyKeys, Locked, ClientTypeOK, WithoutKeys
  <2>3. QED
    BY <2>1, <2>2, OthersKeepAnswers
<1>7. CASE UNCHANGED vars
  BY <1>7, OthersKeepAnswers DEF vars, tableVars, callVars, txVars
<1>8. QED
  BY <1>1, <1>2, <1>3, <1>4, <1>5, <1>6, <1>7 DEF Next, ClientStep

LEMMA AnswersInit ==
  ASSUME Init
  PROVE  AnswersInv
<1>1. \A c \in Client : answers[c] = {} /\ result[c] = <<>> /\ fresh[c] = {} /\ locked[c] = {}
  BY DEF Init
<1>2. \A c \in Client : Elems(result[c]) = {}
  BY <1>1 DEF Elems
<1>3. QED
  BY <1>1, <1>2 DEF AnswersInv, LocksInv, AnswersHold, RowsAreAnswers

LEMMA AnswersInvariant ==
  ASSUME Database = "postgresql"
  PROVE  Spec => []AnswersInv
<1>1. Init => AnswersInv
  BY AnswersInit
<1>2. ClientTypeOK /\ IdsInv /\ AnswersInv /\ [Next]_vars => AnswersInv'
  BY AnswersStep
<1>3. QED
  BY <1>1, <1>2, RowsInvariant, PTL DEF Spec

\* On PostgreSQL the event of a call that has returned is not dropped while its
\* transaction may commit.
THEOREM EventsAreNotDropped ==
  ASSUME Database = "postgresql"
  PROVE  Spec => []NoEventIsDropped
<1>1. ClientTypeOK /\ AnswersInv => NoEventIsDropped
  <2> SUFFICES ASSUME ClientTypeOK, AnswersInv, NEW c \in Client, phase[c] # "aborted",
                      NEW a \in answers[c], a.key # NoKey
               PROVE  Own(c, a.key) # {} \/ \E i \in Id : Open(i) /\ key[i] = a.key
    BY DEF NoEventIsDropped
  <2>1. Holds(c, a)
    BY DEF AnswersInv, AnswersHold
  <2>2. CASE a \in fresh[c]
    BY <2>2 DEF Own
  <2>3. CASE a.id \in locked[c] /\ key[a.id] = a.key
    BY <2>3 DEF AnswersInv, LocksInv, ClientTypeOK
  <2>4. QED
    BY <2>1, <2>2, <2>3 DEF Holds
<1>2. QED
  BY <1>1, RowsInvariant, AnswersInvariant, PTL

\* A commit publishes what the calls of the transaction have returned.
LEMMA CommitPublishes ==
  ASSUME ClientTypeOK, IdsInv, AnswersInv, KeysInv', NEW c \in Client, Commit(c)
  PROVE  \E A \in SUBSET Promise!Answer : Promise!Publish(A)
<1>1. /\ \A a \in fresh[c] : stage'[a.id] = "queued" /\ key'[a.id] = a.key
      /\ \A i \in Id \ Written(c) : stage'[i] = stage[i] /\ key'[i] = key[i]
  BY CommitRows
<1>2. phase[c] = "open" /\ told' = told \cup answers[c]
  BY DEF Commit
<1>3. Elems(result[c]) = {}
  BY <1>2 DEF IdsInv, OutsideCalls, Calling, Elems
<1>4. fresh[c] \subseteq answers[c] /\ \A a \in answers[c] : Holds(c, a)
  BY <1>2, <1>3 DEF AnswersInv, RowsAreAnswers, AnswersHold
<1>5. answers[c] \subseteq Promise!Answer
  BY DEF ClientTypeOK, Answer, Promise!Answer
<1>6. ASSUME NEW a \in answers[c]
      PROVE  /\ stage[a.id] # "absent" => Open(a.id) /\ key[a.id] = a.key /\ a.key # NoKey
             /\ stage'[a.id] = IF stage[a.id] = "absent" THEN "queued" ELSE stage[a.id]
             /\ key'[a.id] = a.key
  <2>1. CASE a \in fresh[c]
    <3>1. stage[a.id] = "absent"
      BY <2>1 DEF IdsInv, IdsAreAbsent, Written
    <3>2. QED
      BY <1>1, <2>1, <3>1
  <2>2. CASE a.id \in locked[c] /\ key[a.id] = a.key
    <3>1. a.id \in Id /\ Open(a.id) /\ key[a.id] # NoKey
      BY <2>2 DEF AnswersInv, LocksInv, ClientTypeOK
    <3>2. stage[a.id] # "absent" /\ a.id \notin Written(c)
      BY <3>1 DEF Open, IdsInv, IdsAreAbsent
    <3>3. QED
      BY <1>1, <2>2, <3>1, <3>2
  <2>3. QED
    BY <1>4, <2>1, <2>2 DEF Holds
<1>7. ASSUME NEW i \in Id, ~\E a \in answers[c] : a.id = i
      PROVE  stage'[i] = stage[i] /\ key'[i] = key[i]
  <2>1. i \notin Written(c)
    BY <1>4, <1>7 DEF Written
  <2>2. QED
    BY <1>1, <2>1
<1>8. Promise!OneOpenEventPerKey'
  BY DEF KeysInv
<1>9. Promise!Publish(answers[c])
  BY <1>2, <1>6, <1>7, <1>8 DEF Promise!Publish, Promise!Open, Open
<1>10. QED
  BY <1>5, <1>9

\* On PostgreSQL, publishing in transactions implements KeyedOutbox.
THEOREM PublishingIsImplemented ==
  ASSUME Database = "postgresql"
  PROVE  Spec => PublishesOnce
<1>1. Init => Promise!Init
  BY DEF Init, Promise!Init
<1>2. ClientTypeOK /\ IdsInv /\ KeysInv' /\ AnswersInv /\ [Next]_vars
        => [Promise!Next]_<<stage, key, told>>
  <2> SUFFICES ASSUME ClientTypeOK, IdsInv, KeysInv', AnswersInv, [Next]_vars
               PROVE  [Promise!Next]_<<stage, key, told>>
    OBVIOUS
  <2>1. ASSUME NEW c \in Client, Commit(c) PROVE Promise!Next
    BY <2>1, CommitPublishes DEF Promise!Next
  <2>2. ASSUME NEW i \in Id, EventStep(i) PROVE Promise!Next
    BY <2>2 DEF EventStep, markSucceeded, moveToDLQ, ReplayEvent, Settle, Promise!Next,
                Promise!Change, Promise!Move
  <2>3. ASSUME NEW S \in SUBSET Id, cleanupStaleIdempotencyKeys(S) PROVE Promise!Next
    BY <2>3 DEF cleanupStaleIdempotencyKeys, Stale, WithoutKeys, Promise!Next,
                Promise!Release
  <2>4. ASSUME NEW c \in Client, Step(c) \/ Rollback(c) \/ DeadlockVictim(c)
        PROVE  UNCHANGED <<stage, key, told>>
    BY <2>4 DEF Step, InsertRow, Absorb, Refuse, Return, Done, Rollback, DeadlockVictim,
                tableVars, Touch
  <2>5. ASSUME NEW c \in Client, NEW f \in {"publish", "publishBatch"}, NEW b \in Batch,
               Call(c, f, b)
        PROVE  UNCHANGED <<stage, key, told>>
    BY <2>5 DEF Call, tableVars
  <2>6. CASE UNCHANGED vars
    BY <2>6 DEF vars, tableVars
  <2>7. QED
    BY <2>1, <2>2, <2>3, <2>4, <2>5, <2>6 DEF Next, ClientStep
<1>3. QED
  BY <1>1, <1>2, RowsInvariant, AnswersInvariant, PTL DEF Spec, PublishesOnce, Promise!Spec

=============================================================================

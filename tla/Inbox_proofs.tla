---------------------------- MODULE Inbox_proofs ----------------------------
(***************************************************************************)
(* Theorems about Inbox for every set of consumers and messages, both      *)
(* databases, both interfaces and every value of the bounds.               *)
(***************************************************************************)
EXTENDS Inbox, FiniteSetTheorems, SequenceTheorems, WellFoundedInduction, TLAPS

(* What a consumer was called with. *)

LEMMA BatchProperties ==
  ASSUME NEW b \in Batch
  PROVE  /\ Len(b) \in 0..MaxBatch
         /\ DOMAIN b = 1..Len(b)
         /\ \A i \in 1..Len(b) : b[i] \in Message
<1>1. PICK n \in 1..MaxBatch : b \in [1..n -> Message]
  BY DEF Batch
<1>2. n \in Nat
  BY InboxAssumption
<1>3. b \in Seq(Message)
  BY <1>1, <1>2, SeqDef
<1>4. Len(b) \in Nat /\ DOMAIN b = 1..Len(b)
  BY <1>3, LenProperties
<1>5. 1..Len(b) = 1..n
  BY <1>1, <1>4
<1>6. Len(b) = n
  <2>1. n \in 1..n /\ (Len(b) > 0 => Len(b) \in 1..Len(b))
    BY <1>2, <1>4
  <2>2. n \in 1..Len(b) /\ (Len(b) > 0 => Len(b) \in 1..n)
    BY <1>5, <2>1, Zenon
  <2>3. n \in Nat /\ Len(b) \in Nat
    BY <1>2, <1>4
  <2>4. QED
    BY <2>2, <2>3
<1>7. QED
  BY <1>1, <1>2, <1>4, <1>6, InboxAssumption

LEMMA JobProperties ==
  ASSUME InboxTypeOK, NEW c \in Consumer
  PROVE  /\ Len(job[c]) \in 0..MaxBatch
         /\ DOMAIN job[c] = 1..Len(job[c])
         /\ \A i \in 1..Len(job[c]) : job[c][i] \in Message
<1>1. CASE job[c] = <<>>
  BY <1>1, InboxAssumption
<1>2. CASE job[c] \in Batch
  BY <1>2, BatchProperties
<1>3. QED
  BY <1>1, <1>2 DEF InboxTypeOK

LEMMA PendingIsAsked ==
  ASSUME InboxTypeOK, NEW c \in Consumer, Inserting(c)
  PROVE  /\ Pending(c) \in Message
         /\ inserted[c] + 1 \in 1..Len(job[c])
         /\ inserted[c] + 1 \in 0..MaxBatch
<1>1. inserted[c] \in Nat /\ Len(job[c]) \in Nat /\ Len(job[c]) <= MaxBatch
  BY JobProperties, InboxAssumption DEF InboxTypeOK
<1>2. inserted[c] + 1 \in 1..Len(job[c])
  BY <1>1 DEF Inserting
<1>3. QED
  BY <1>1, <1>2, JobProperties, InboxAssumption DEF Pending

LEMMA NewPlacesArePlaces ==
  ASSUME InboxTypeOK, NEW c \in Consumer
  PROVE  NewPlaces(c) \in SUBSET (1..Len(job[c])) /\ 1..Len(job[c]) \subseteq Place
  BY JobProperties, InboxAssumption DEF NewPlaces, Place, Returned, Generated

-----------------------------------------------------------------------------
(* Types *)

LEMMA CloseType ==
  ASSUME InboxTypeOK, NEW c \in Consumer, Close(c)
  PROVE  /\ phase' \in [Consumer -> {"idle", "inserting", "working"}]
         /\ job' \in [Consumer -> Batch \cup {<<>>}]
         /\ inserted' \in [Consumer -> 0..MaxBatch]
         /\ fresh' \in [Consumer -> SUBSET Message]
         /\ view' \in [Consumer -> SUBSET Message]
         /\ todo' \in [Consumer -> SUBSET Place]
         /\ flagged' \in [Consumer -> SUBSET Message]
  BY InboxAssumption DEF InboxTypeOK, Close

LEMMA TellType ==
  ASSUME InboxTypeOK, NEW c \in Consumer, NEW S \in SUBSET Place, Tell(c, S),
         UNCHANGED <<tableVars, acked, faults>>
  PROVE  InboxTypeOK'
  BY DEF InboxTypeOK, Tell, tableVars, Batch, Place

LEMMA EffectsType ==
  ASSUME InboxTypeOK, NEW c \in Consumer, NEW m \in Message
  PROVE  Cardinality({i \in todo[c] : job[c][i] = m}) \in Nat
<1>1. IsFiniteSet(Place)
  BY FS_Interval, InboxAssumption DEF Place
<1>2. {i \in todo[c] : job[c][i] = m} \in SUBSET Place
  BY DEF InboxTypeOK
<1>3. QED
  BY <1>1, <1>2, FS_Subset, FS_CardinalityType

LEMMA TypeStep ==
  ASSUME InboxTypeOK, [Next]_vars
  PROVE  InboxTypeOK'
<1>1. ASSUME NEW c \in Consumer, NEW b \in Batch, Deliver(c, b)
      PROVE  InboxTypeOK'
  <2>1. Recorded \in SUBSET Message
    BY DEF Recorded
  <2>2. QED
    BY <1>1, <2>1 DEF Deliver, InboxTypeOK, tableVars, Batch, Place
<1>2. ASSUME NEW c \in Consumer, Insert(c)
      PROVE  InboxTypeOK'
  <2>1. Pending(c) \in Message /\ inserted[c] + 1 \in 0..MaxBatch
    BY <1>2, PendingIsAsked DEF Insert, WithRow
  <2>2. /\ inserted' \in [Consumer -> 0..MaxBatch]
        /\ fresh' \in [Consumer -> SUBSET Message]
    BY <1>2, <2>1 DEF Insert, InboxTypeOK, WithRow
  <2>3. QED
    BY <1>2, <2>2 DEF Insert, InboxTypeOK, tableVars, Batch, Place, WithRow
<1>3. ASSUME NEW c \in Consumer, ReceiveAnswers(c)
      PROVE  InboxTypeOK'
  <2>1. {i \in {1} : job[c][i] \in fresh[c]} \in SUBSET Place
    BY InboxAssumption DEF Place
  <2>2. QED
    BY <1>3, <2>1, TellType DEF ReceiveAnswers, Affected
<1>4. ASSUME NEW c \in Consumer, ReceiveBatchAnswers(c)
      PROVE  InboxTypeOK'
  <2>1. CASE Close(c)
    BY <1>4, <2>1, CloseType DEF ReceiveBatchAnswers, InboxTypeOK, tableVars
  <2>2. CASE Tell(c, NewPlaces(c))
    BY <1>4, <2>2, NewPlacesArePlaces, TellType DEF ReceiveBatchAnswers
  <2>3. QED
    BY <1>4, <2>1, <2>2 DEF ReceiveBatchAnswers
<1>5. ASSUME NEW c \in Consumer, NEW m \in Message, MarkFailed(c, m)
      PROVE  InboxTypeOK'
  BY <1>5 DEF MarkFailed, InboxTypeOK, tableVars, Batch, Place, Failable
<1>6. ASSUME NEW c \in Consumer, Commit(c)
      PROVE  InboxTypeOK'
  <2>1. Elems(job[c]) \in SUBSET Message
    BY JobProperties DEF Elems
  <2>2. effects' \in [Message -> Nat]
    BY <1>6, EffectsType DEF Commit, InboxTypeOK
  <2>3. row' \in [Message -> {"none", "processed", "failed"}]
    BY <1>6 DEF Commit, InboxTypeOK, StatusOf
  <2>4. acked' \in SUBSET Message /\ faults' \in 0..MaxFaults
    BY <1>6, <2>1, InboxAssumption DEF Commit, Fault, InboxTypeOK, StatusOf
  <2>5. QED
    BY <1>6, <2>2, <2>3, <2>4, CloseType DEF Commit, InboxTypeOK, StatusOf
<1>7. ASSUME NEW c \in Consumer, Rollback(c)
      PROVE  InboxTypeOK'
  <2>1. faults' \in 0..MaxFaults
    BY <1>7, InboxAssumption DEF Rollback, Fault, InboxTypeOK
  <2>2. QED
    BY <1>7, <2>1, CloseType DEF Rollback, InboxTypeOK, tableVars
<1>8. ASSUME NEW c \in Consumer, DeadlockVictim(c)
      PROVE  InboxTypeOK'
  BY <1>8, CloseType DEF DeadlockVictim, InboxTypeOK, tableVars
<1>9. ASSUME NEW S \in SUBSET Removable, cleanupProcessedEvents(S)
      PROVE  InboxTypeOK'
  <2>1. /\ row' \in [Message -> {"none", "processed", "failed"}]
        /\ forgotten' \in [Message -> Nat]
    BY <1>9 DEF cleanupProcessedEvents, InboxTypeOK, Without
  <2>2. QED
    BY <1>9, <2>1 DEF cleanupProcessedEvents, InboxTypeOK, txVars, Batch, Place, Without
<1>10. CASE UNCHANGED vars
  BY <1>10 DEF vars, tableVars, txVars, InboxTypeOK, Batch, Place
<1>11. QED
  BY <1>1, <1>2, <1>3, <1>4, <1>5, <1>6, <1>7, <1>8, <1>9, <1>10 DEF Next, ConsumerStep, InboxCleanup

LEMMA TypeInit == Init => InboxTypeOK
  BY InboxAssumption DEF Init, InboxTypeOK

\* Every variable of the inbox keeps its type.
THEOREM InboxTypeCorrect == Spec => []InboxTypeOK
<1>1. QED
  BY TypeInit, TypeStep, PTL DEF Spec

-----------------------------------------------------------------------------
(* Records and acknowledgements *)

\* A consumer without a transaction has inserted nothing, and one that has
\* not been answered knows of nothing new.
ClosedIsClean ==
  \A c \in Consumer :
    /\ phase[c] = "idle" => inserted[c] = 0 /\ fresh[c] = {}
    /\ phase[c] # "working" => todo[c] = {} /\ flagged[c] = {}

\* An answer comes after the last row has been inserted.
AnswersComeLast ==
  \A c \in Consumer :
    /\ inserted[c] <= Len(job[c])
    /\ phase[c] = "working" => inserted[c] = Len(job[c])

\* The unique index: an uncommitted row has no committed one beside it ...
FreshIsNew == \A c \in Consumer : \A m \in fresh[c] : row[m] = "none"

\* ... and no uncommitted one of another transaction.
FreshIsExclusive ==
  \A c, d \in Consumer : c # d => fresh[c] \cap fresh[d] = {}

\* What is new to a consumer, or flagged by it, is a row it has inserted.
TodoIsFresh ==
  \A c \in Consumer :
    /\ \A i \in todo[c] : i \in 1..Len(job[c]) /\ job[c][i] \in fresh[c]
    /\ flagged[c] \subseteq fresh[c]

Known(m) == row[m] # "none" \/ forgotten[m] > 0

\* Whatever a consumer has tried to insert is recorded, was, or will be when
\* it commits.
AskedIsKnown ==
  \A c \in Consumer :
    \A i \in 1..inserted[c] : job[c][i] \in fresh[c] \/ Known(job[c][i])

RecordInv ==
  /\ ClosedIsClean
  /\ AnswersComeLast
  /\ FreshIsNew
  /\ FreshIsExclusive
  /\ TodoIsFresh
  /\ AskedIsKnown
  /\ NothingLost

LEMMA RecordInit == Init => RecordInv
<1>1. SUFFICES ASSUME Init PROVE RecordInv
  OBVIOUS
<1>2. Len(<<>>) = 0
  OBVIOUS
<1>3. ClosedIsClean /\ AnswersComeLast
  BY <1>1, <1>2 DEF Init, ClosedIsClean, AnswersComeLast
<1>4. FreshIsNew /\ FreshIsExclusive /\ TodoIsFresh
  BY <1>1 DEF Init, FreshIsNew, FreshIsExclusive, TodoIsFresh
<1>5. AskedIsKnown /\ NothingLost
  BY <1>1 DEF Init, AskedIsKnown, NothingLost
<1>6. QED
  BY <1>3, <1>4, <1>5 DEF RecordInv

\* A transaction that ends without a trace.
LEMMA CloseKeepsRecords ==
  ASSUME InboxTypeOK, RecordInv, NEW c \in Consumer, Close(c),
         UNCHANGED <<tableVars, acked>>
  PROVE  RecordInv'
<1>1. Len(<<>>) = 0
  OBVIOUS
<1>2. QED
  BY <1>1 DEF InboxTypeOK, Close, tableVars, RecordInv, ClosedIsClean, AnswersComeLast,
       FreshIsNew, FreshIsExclusive, TodoIsFresh, AskedIsKnown, NothingLost, Known

\* An answer that names as new only places whose row the consumer inserted.
LEMMA TellKeepsRecords ==
  ASSUME InboxTypeOK, RecordInv, NEW c \in Consumer, NEW S, Tell(c, S), AllInserted(c),
         \A i \in S : i \in 1..Len(job[c]) /\ job[c][i] \in fresh[c],
         UNCHANGED <<tableVars, acked>>
  PROVE  RecordInv'
<1>1. ClosedIsClean'
  BY DEF InboxTypeOK, Tell, AllInserted, RecordInv, ClosedIsClean
<1>2. AnswersComeLast' /\ FreshIsNew' /\ FreshIsExclusive'
  BY JobProperties DEF InboxTypeOK, Tell, AllInserted, tableVars, RecordInv, AnswersComeLast,
       FreshIsNew, FreshIsExclusive
<1>3. TodoIsFresh'
  BY DEF InboxTypeOK, Tell, AllInserted, RecordInv, TodoIsFresh, ClosedIsClean
<1>4. AskedIsKnown' /\ NothingLost'
  BY DEF InboxTypeOK, Tell, tableVars, RecordInv, AskedIsKnown, NothingLost, Known
<1>5. QED
  BY <1>1, <1>2, <1>3, <1>4 DEF RecordInv

LEMMA InsertKeepsRecords ==
  ASSUME InboxTypeOK, RecordInv, NEW c \in Consumer, Insert(c)
  PROVE  RecordInv'
<1> DEFINE m == Pending(c)
<1>1. m \in Message /\ inserted[c] + 1 \in 1..Len(job[c]) /\ inserted[c] \in Nat
  BY PendingIsAsked, InboxAssumption DEF Insert, InboxTypeOK, WithRow
<1>2. /\ fresh' = [fresh EXCEPT ![c] = IF m \in Recorded THEN @ ELSE @ \cup {m}]
      /\ \A d \in Consumer \ {c} : m \notin fresh[d]
      /\ inserted' = [inserted EXCEPT ![c] = @ + 1]
      /\ phase[c] = "inserting"
      /\ UNCHANGED <<row, forgotten, phase, job, todo, flagged, acked>>
  BY DEF Insert, Inserting, tableVars, WithRow
<1>3. ClosedIsClean' /\ AnswersComeLast'
  BY <1>1, <1>2, JobProperties
     DEF InboxTypeOK, RecordInv, ClosedIsClean, AnswersComeLast
<1>4. FreshIsNew' /\ FreshIsExclusive'
  BY <1>1, <1>2 DEF InboxTypeOK, RecordInv, FreshIsNew, FreshIsExclusive, Recorded
<1>5. TodoIsFresh'
  BY <1>1, <1>2 DEF InboxTypeOK, RecordInv, TodoIsFresh
<1>6. AskedIsKnown'
  <2>1. SUFFICES ASSUME NEW d \in Consumer, NEW i \in 1..(inserted'[d])
                 PROVE  job[d][i] \in fresh'[d] \/ Known(job[d][i])
    BY <1>2 DEF AskedIsKnown, Known
  <2>2. CASE d = c /\ i = inserted[c] + 1
    <3>1. job[d][i] = m
      BY <2>2 DEF Pending
    <3>2. QED
      BY <1>1, <1>2, <2>2, <3>1 DEF InboxTypeOK, Recorded, Known
  <2>3. CASE ~(d = c /\ i = inserted[c] + 1)
    <3>1. i \in 1..inserted[d]
      BY <1>1, <1>2, <2>3 DEF InboxTypeOK
    <3>2. job[d][i] \in fresh[d] \/ Known(job[d][i])
      BY <3>1 DEF RecordInv, AskedIsKnown
    <3>3. QED
      BY <1>2, <3>2 DEF InboxTypeOK
  <2>4. QED
    BY <2>2, <2>3
<1>7. NothingLost'
  BY <1>2 DEF RecordInv, NothingLost
<1>8. QED
  BY <1>3, <1>4, <1>5, <1>6, <1>7 DEF RecordInv

LEMMA CommitKeepsRecords ==
  ASSUME InboxTypeOK, RecordInv, NEW c \in Consumer, Commit(c)
  PROVE  RecordInv'
<1> DEFINE New == fresh[c]
<1>1. /\ phase[c] = "working"
      /\ \A m \in Message : row[m] # "none" \/ m \in New => row'[m] # "none"
      /\ \A m \in Message : m \notin New => row'[m] = row[m]
      /\ forgotten' = forgotten
  BY DEF Commit, InboxTypeOK, StatusOf
<1>2. Close(c)
  BY DEF Commit, StatusOf
<1>3. Len(<<>>) = 0
  OBVIOUS
<1>4. ClosedIsClean' /\ AnswersComeLast' /\ TodoIsFresh'
  BY <1>2, <1>3 DEF InboxTypeOK, Close, RecordInv, ClosedIsClean, AnswersComeLast, TodoIsFresh
<1>5. FreshIsExclusive'
  BY <1>2 DEF InboxTypeOK, Close, RecordInv, FreshIsExclusive
<1>6. FreshIsNew'
  BY <1>1, <1>2 DEF InboxTypeOK, Close, RecordInv, FreshIsNew, FreshIsExclusive
<1>7. AskedIsKnown'
  <2>1. SUFFICES ASSUME NEW d \in Consumer, NEW i \in 1..(inserted'[d])
                 PROVE  (job[d][i] \in fresh[d] \/ Known(job[d][i]))'
    BY DEF AskedIsKnown, Known
  <2>2. d # c /\ job'[d] = job[d] /\ inserted'[d] = inserted[d] /\ fresh'[d] = fresh[d]
    BY <1>2, <2>1 DEF InboxTypeOK, Close
  <2>3. job[d][i] \in Message
    BY <2>2, JobProperties, InboxAssumption DEF InboxTypeOK, RecordInv, AnswersComeLast
  <2>4. job[d][i] \in fresh[d] \/ Known(job[d][i])
    BY <2>2 DEF RecordInv, AskedIsKnown
  <2>5. \A m \in Message : Known(m) => Known(m)'
    BY <1>1 DEF Known
  <2>6. QED
    BY <2>2, <2>3, <2>4, <2>5 DEF Known, InboxTypeOK
<1>8. NothingLost'
  <2>1. ASSUME NEW m \in Elems(job[c]) PROVE m \in Message /\ (Known(m) \/ m \in New)
    <3>1. PICK i \in 1..Len(job[c]) : m = job[c][i]
      BY JobProperties DEF Elems
    <3>2. Len(job[c]) = inserted[c]
      BY <1>1 DEF RecordInv, AnswersComeLast
    <3>3. QED
      BY <3>1, <3>2, JobProperties DEF RecordInv, AskedIsKnown
  <2>2. acked' \subseteq acked \cup Elems(job[c])
    BY DEF Commit, StatusOf
  <2>3. QED
    BY <1>1, <2>1, <2>2 DEF InboxTypeOK, RecordInv, NothingLost, Known
<1>9. QED
  BY <1>4, <1>5, <1>6, <1>7, <1>8 DEF RecordInv

LEMMA CleanupKeepsRecords ==
  ASSUME InboxTypeOK, RecordInv, NEW S \in SUBSET Removable, cleanupProcessedEvents(S)
  PROVE  RecordInv'
<1>1. /\ \A m \in Message : Known(m) => Known(m)'
      /\ \A m \in Message : row[m] = "none" => row'[m] = "none"
  BY DEF cleanupProcessedEvents, InboxTypeOK, Known, Without
<1>2. UNCHANGED <<phase, job, inserted, fresh, todo, flagged, acked>>
  BY DEF cleanupProcessedEvents, txVars, Without
<1>3. ClosedIsClean' /\ AnswersComeLast' /\ FreshIsExclusive' /\ TodoIsFresh'
  BY <1>2 DEF RecordInv, ClosedIsClean, AnswersComeLast, FreshIsExclusive, TodoIsFresh
<1>4. FreshIsNew' /\ NothingLost'
  BY <1>1, <1>2 DEF InboxTypeOK, RecordInv, FreshIsNew, NothingLost, Known
<1>5. AskedIsKnown'
  <2>1. SUFFICES ASSUME NEW d \in Consumer, NEW i \in 1..inserted[d]
                 PROVE  job[d][i] \in fresh[d] \/ Known(job[d][i])'
    BY <1>2 DEF AskedIsKnown, Known
  <2>2. job[d][i] \in Message
    BY JobProperties, InboxAssumption DEF InboxTypeOK, RecordInv, AnswersComeLast
  <2>3. QED
    BY <1>1, <1>2, <2>1, <2>2 DEF RecordInv, AskedIsKnown, Known
<1>6. QED
  BY <1>3, <1>4, <1>5 DEF RecordInv

LEMMA RecordStep ==
  ASSUME InboxTypeOK, RecordInv, [Next]_vars
  PROVE  RecordInv'
<1>1. ASSUME NEW c \in Consumer, NEW b \in Batch, Deliver(c, b)
      PROVE  RecordInv'
  <2>2. Len(b) \in Nat
    BY BatchProperties, InboxAssumption
  <2>3. /\ phase[c] = "idle" /\ phase' = [phase EXCEPT ![c] = "inserting"]
        /\ job' = [job EXCEPT ![c] = b]
        /\ UNCHANGED <<row, forgotten, inserted, fresh, todo, flagged, acked>>
    BY <1>1 DEF Deliver, tableVars
  <2>4. QED
    BY <2>2, <2>3 DEF InboxTypeOK, RecordInv, ClosedIsClean, AnswersComeLast,
         FreshIsNew, FreshIsExclusive, TodoIsFresh, AskedIsKnown, NothingLost, Known
<1>2. ASSUME NEW c \in Consumer, ReceiveAnswers(c)
      PROVE  RecordInv'
  <2>1. PICK S : /\ S = {i \in {1} : job[c][i] \in fresh[c]}
                 /\ Tell(c, S)
    BY <1>2 DEF ReceiveAnswers, Affected
  <2>2. QED
    BY <1>2, <2>1, TellKeepsRecords DEF ReceiveAnswers, Affected
<1>3. ASSUME NEW c \in Consumer, ReceiveBatchAnswers(c)
      PROVE  RecordInv'
  <2>1. CASE Close(c)
    BY <1>3, <2>1, CloseKeepsRecords DEF ReceiveBatchAnswers
  <2>2. CASE Tell(c, NewPlaces(c))
    <3>1. \A i \in NewPlaces(c) : i \in 1..Len(job[c]) /\ job[c][i] \in fresh[c]
      BY JobProperties DEF NewPlaces, Returned, Generated
    <3>2. QED
      BY <1>3, <2>2, <3>1, TellKeepsRecords DEF ReceiveBatchAnswers
  <2>3. QED
    BY <1>3, <2>1, <2>2 DEF ReceiveBatchAnswers
<1>4. ASSUME NEW c \in Consumer, NEW m \in Message, MarkFailed(c, m)
      PROVE  RecordInv'
  <2>1. m \in fresh[c]
    BY <1>4 DEF MarkFailed, RecordInv, TodoIsFresh, Failable
  <2>2. /\ flagged' = [flagged EXCEPT ![c] = @ \cup {m}] /\ phase[c] = "working"
        /\ UNCHANGED <<row, forgotten, phase, job, inserted, fresh, todo, acked>>
    BY <1>4 DEF MarkFailed, tableVars, Failable
  <2>3. QED
    BY <2>1, <2>2 DEF InboxTypeOK, RecordInv, ClosedIsClean, AnswersComeLast,
         FreshIsNew, FreshIsExclusive, TodoIsFresh, AskedIsKnown, NothingLost, Known
<1>5. ASSUME NEW c \in Consumer, Rollback(c) \/ DeadlockVictim(c)
      PROVE  RecordInv'
  BY <1>5, CloseKeepsRecords DEF Rollback, DeadlockVictim
<1>6. CASE UNCHANGED vars
  BY <1>6 DEF vars, tableVars, txVars, RecordInv, ClosedIsClean, AnswersComeLast,
       FreshIsNew, FreshIsExclusive, TodoIsFresh, AskedIsKnown, NothingLost, Known
<1>7. QED
  BY <1>1, <1>2, <1>3, <1>4, <1>5, <1>6, InsertKeepsRecords, CommitKeepsRecords,
     CleanupKeepsRecords DEF Next, ConsumerStep, InboxCleanup

\* Rows of uncommitted transactions are unique, and all that was ever asked
\* for is recorded, was, or is in an open transaction.
THEOREM RecordInvariant == Spec => [](InboxTypeOK /\ RecordInv)
<1>1. QED
  BY TypeInit, TypeStep, RecordInit, RecordStep, PTL DEF Spec

\* A message the source was told to forget has been recorded.
THEOREM NothingIsLost == Spec => []NothingLost
<1>1. RecordInv => NothingLost
  BY DEF RecordInv
<1>2. QED
  BY <1>1, RecordInvariant, PTL

\* A failed row is never processed again nor cleaned up.
THEOREM FailedRowsAreKept == Spec => FailedIsKept
<1>1. ASSUME InboxTypeOK, RecordInv, [Next]_vars
      PROVE  [\A m \in Message : row[m] = "failed" => row'[m] = "failed"]_row
  <2>1. ASSUME NEW c \in Consumer, Commit(c), NEW m \in Message, row[m] = "failed"
        PROVE  row'[m] = "failed"
    <3>1. m \notin fresh[c]
      BY <1>1, <2>1 DEF RecordInv, FreshIsNew
    <3>2. QED
      BY <2>1, <3>1 DEF Commit, StatusOf
  <2>2. ASSUME NEW S \in SUBSET Removable, cleanupProcessedEvents(S),
               NEW m \in Message, row[m] = "failed"
        PROVE  row'[m] = "failed"
    BY <2>2 DEF cleanupProcessedEvents, Removable, Without
  <2>3. CASE UNCHANGED row
    BY <2>3
  <2>4. QED
    BY <1>1, <2>1, <2>2, <2>3
       DEF Next, ConsumerStep, Deliver, Insert, ReceiveAnswers, ReceiveBatchAnswers,
           MarkFailed, Rollback, DeadlockVictim, vars, tableVars, WithRow, Failable, Affected, InboxCleanup
<1>2. QED
  BY <1>1, RecordInvariant, PTL DEF Spec, FailedIsKept

-----------------------------------------------------------------------------
(***************************************************************************)
(* A message is handled once, and the inbox implements ExactlyOnce, with   *)
(* the SDK, which refuses batches that repeat a key, and with the MySQL    *)
(* repository, which tells a key's first place from its others.  A         *)
(* consumer that commits must have been told of exactly one place for each *)
(* row it has inserted: that is what OnePlacePerRow adds to RecordInv.     *)
(***************************************************************************)

PlacesOf(c, S, m) == {i \in S : job[c][i] = m}

\* The SDK's batches name a key once.
JobsDoNotRepeat ==
  Api = "sdk" =>
    \A c \in Consumer :
      \A i, j \in 1..Len(job[c]) : job[c][i] = job[c][j] => i = j

FreshIsAsked ==
  \A c \in Consumer :
    \A m \in fresh[c] : \E i \in 1..inserted[c] : job[c][i] = m

\* Of the places of a row it inserted a consumer was told that one is new.
OnePlaceEach(c) ==
  phase[c] = "working" =>
    \A m \in fresh[c] : \E i \in todo[c] : PlacesOf(c, todo[c], m) = {i}

OnePlacePerRow == \A c \in Consumer : OnePlaceEach(c)

OnceInv ==
  /\ JobsDoNotRepeat
  /\ FreshIsAsked
  /\ OnePlacePerRow
  /\ HandledOnce

-----------------------------------------------------------------------------
(* The answers *)

\* Every key of a batch has a first place.
LEMMA FirstPlace ==
  ASSUME NEW P \in SUBSET Nat, P # {}
  PROVE  \E i \in P : \A j \in P : i <= j
<1>1. PICK i \in P : \A j \in P : <<j, i>> \notin OpToRel(<, Nat)
  BY WFMin, NatLessThanWellFounded, Zenon
<1>2. \A j \in P : ~(j < i)
  BY <1>1, Zenon DEF OpToRel
<1>3. QED
  BY <1>2

LEMMA AllAreInserted ==
  ASSUME InboxTypeOK, NEW c \in Consumer, FreshIsAsked, AllInserted(c), NEW m \in fresh[c]
  PROVE  \E i \in 1..Len(job[c]) : job[c][i] = m
  BY DEF FreshIsAsked, AllInserted

LEMMA BatchAnswerIsUnique ==
  ASSUME Api = "sdk" \/ Database = "mysql", InboxTypeOK, OnceInv,
         NEW c \in Consumer, AllInserted(c), NEW m \in fresh[c]
  PROVE  \E i \in NewPlaces(c) : PlacesOf(c, NewPlaces(c), m) = {i}
<1> DEFINE P == {i \in 1..Len(job[c]) : job[c][i] = m}
<1>1. P # {} /\ P \in SUBSET Nat /\ DOMAIN job[c] = 1..Len(job[c]) /\ Len(job[c]) \in Nat
  BY AllAreInserted, JobProperties, InboxAssumption DEF OnceInv
<1>2. PICK i \in P : \A j \in P : i <= j
  BY <1>1, FirstPlace
<1>3. i \in NewPlaces(c)
  BY <1>1, <1>2 DEF NewPlaces, Returned, Generated
<1>4. ASSUME NEW j \in NewPlaces(c), job[c][j] = m
      PROVE  j = i
  <2>1. j \in P
    BY <1>1, <1>4 DEF NewPlaces, Returned, Generated
  <2>2. CASE Api = "sdk"
    BY <2>1, <2>2 DEF OnceInv, JobsDoNotRepeat
  <2>3. CASE Database = "mysql"
    <3>1. \A k \in 1..(j - 1) : job[c][k] # job[c][j]
      BY <2>3 DEF NewPlaces, Returned, Generated
    <3>2. i \notin 1..(j - 1)
      BY <1>2, <1>4, <3>1
    <3>3. QED
      BY <1>1, <1>2, <2>1, <3>2
  <2>4. QED
    BY <2>2, <2>3
<1>5. QED
  BY <1>2, <1>3, <1>4 DEF PlacesOf

LEMMA SingleAnswerIsUnique ==
  ASSUME InboxTypeOK, OnceInv, NEW c \in Consumer, AllInserted(c), Len(job[c]) = 1,
         NEW m \in fresh[c], NEW S, S = {i \in {1} : job[c][i] \in fresh[c]}
  PROVE  \E i \in S : PlacesOf(c, S, m) = {i}
<1>1. job[c][1] = m
  BY AllAreInserted DEF OnceInv
<1>2. QED
  BY <1>1 DEF PlacesOf

LEMMA OtherPlacesStay ==
  ASSUME OnePlacePerRow, NEW d \in Consumer,
         UNCHANGED <<phase[d], job[d], fresh[d], todo[d]>>
  PROVE  OnePlaceEach(d)'
<1>1. OnePlaceEach(d)
  BY DEF OnePlacePerRow
<1>2. \A m : PlacesOf(d, todo[d], m)' = PlacesOf(d, todo[d], m)
  BY DEF PlacesOf
<1>3. QED
  BY <1>1, <1>2 DEF OnePlaceEach

LEMMA TellKeepsOnce ==
  ASSUME InboxTypeOK, OnceInv, NEW c \in Consumer, NEW S, Tell(c, S),
         \A m \in fresh[c] : \E i \in S : PlacesOf(c, S, m) = {i},
         UNCHANGED <<tableVars, acked, faults>>
  PROVE  OnceInv'
<1>1. /\ todo' = [todo EXCEPT ![c] = S] /\ phase' = [phase EXCEPT ![c] = "working"]
      /\ UNCHANGED <<row, effects, forgotten, job, inserted, fresh>>
  BY DEF Tell, tableVars
<1>2. JobsDoNotRepeat' /\ FreshIsAsked' /\ HandledOnce'
  BY <1>1 DEF OnceInv, JobsDoNotRepeat, FreshIsAsked, HandledOnce
<1>3. ASSUME NEW d \in Consumer PROVE OnePlaceEach(d)'
  <2>1. CASE d = c
    <3>1. todo'[c] = S
      BY <1>1 DEF InboxTypeOK
    <3>2. \A m : PlacesOf(c, todo[c], m)' = PlacesOf(c, S, m)
      BY <1>1, <3>1 DEF PlacesOf
    <3>3. QED
      BY <1>1, <2>1, <3>1, <3>2 DEF OnePlaceEach
  <2>2. CASE d # c
    BY <1>1, <2>2, OtherPlacesStay DEF InboxTypeOK, OnceInv
  <2>3. QED
    BY <2>1, <2>2
<1>4. QED
  BY <1>2, <1>3 DEF OnceInv, OnePlacePerRow

-----------------------------------------------------------------------------
(* The other steps *)

LEMMA CloseKeepsJobs ==
  ASSUME InboxTypeOK, OnceInv, NEW c \in Consumer, Close(c)
  PROVE  JobsDoNotRepeat' /\ FreshIsAsked' /\ OnePlacePerRow'
<1>1. Len(<<>>) = 0
  OBVIOUS
<1>2. JobsDoNotRepeat'
  BY <1>1 DEF InboxTypeOK, OnceInv, JobsDoNotRepeat, Close
<1>3. FreshIsAsked'
  BY DEF InboxTypeOK, OnceInv, FreshIsAsked, Close
<1>4. ASSUME NEW d \in Consumer PROVE OnePlaceEach(d)'
  <2>1. CASE d = c
    BY <2>1 DEF InboxTypeOK, Close, OnePlaceEach
  <2>2. CASE d # c
    BY <2>2, OtherPlacesStay DEF InboxTypeOK, Close, OnceInv
  <2>3. QED
    BY <2>1, <2>2
<1>5. QED
  BY <1>2, <1>3, <1>4 DEF OnePlacePerRow

\* A commit brings one effect for each new row that is not flagged.
LEMMA CommitEffects ==
  ASSUME InboxTypeOK, RecordInv, OnceInv, NEW c \in Consumer, Commit(c), NEW m \in Message
  PROVE  effects'[m] = effects[m] + IF m \in fresh[c] \ flagged[c] THEN 1 ELSE 0
<1> DEFINE n == Cardinality(PlacesOf(c, todo[c], m))
<1>1. phase[c] = "working" /\ effects[m] \in Nat
  BY DEF Commit, InboxTypeOK, StatusOf
<1>2. effects'[m] = effects[m] + IF m \in flagged[c] THEN 0 ELSE n
  BY DEF Commit, PlacesOf, StatusOf
<1>3. CASE m \in flagged[c]
  BY <1>1, <1>2, <1>3
<1>4. CASE m \notin fresh[c]
  <2>1. PlacesOf(c, todo[c], m) = {}
    BY <1>4 DEF RecordInv, TodoIsFresh, PlacesOf
  <2>2. n = 0
    BY <2>1, FS_EmptySet
  <2>3. QED
    BY <1>1, <1>2, <1>4, <2>2
<1>5. CASE m \in fresh[c] \ flagged[c]
  <2>1. PICK i \in todo[c] : PlacesOf(c, todo[c], m) = {i}
    BY <1>1, <1>5 DEF OnceInv, OnePlacePerRow, OnePlaceEach
  <2>2. n = 1
    BY <2>1, FS_Singleton
  <2>3. QED
    BY <1>2, <1>5, <2>2
<1>6. QED
  BY <1>3, <1>4, <1>5

LEMMA CommitHandlesOnce ==
  ASSUME InboxTypeOK, RecordInv, OnceInv, NEW c \in Consumer, Commit(c)
  PROVE  HandledOnce'
<1>1. SUFFICES ASSUME NEW m \in Message
               PROVE  (effects[m] = forgotten[m] + IF row[m] = "processed" THEN 1 ELSE 0)'
  BY DEF HandledOnce
<1>2. /\ effects[m] = forgotten[m] + IF row[m] = "processed" THEN 1 ELSE 0
      /\ forgotten'[m] = forgotten[m] /\ forgotten[m] \in Nat
  BY DEF OnceInv, HandledOnce, Commit, InboxTypeOK, StatusOf
<1>3. row'[m] = IF m \notin fresh[c] THEN row[m]
                ELSE IF m \in flagged[c] THEN "failed" ELSE "processed"
  BY DEF Commit, StatusOf
<1>4. m \in flagged[c] => m \in fresh[c]
  BY DEF RecordInv, TodoIsFresh
<1>5. m \in fresh[c] => row[m] = "none"
  BY DEF RecordInv, FreshIsNew
<1>6. QED
  BY <1>2, <1>3, <1>4, <1>5, CommitEffects

LEMMA CleanupKeepsOnce ==
  ASSUME InboxTypeOK, OnceInv, NEW S \in SUBSET Removable, cleanupProcessedEvents(S)
  PROVE  OnceInv'
<1>1. UNCHANGED <<effects, phase, job, inserted, fresh, todo>>
  BY DEF cleanupProcessedEvents, txVars, Without
<1>2. JobsDoNotRepeat' /\ FreshIsAsked' /\ OnePlacePerRow'
  BY <1>1 DEF OnceInv, JobsDoNotRepeat, FreshIsAsked, OnePlacePerRow, OnePlaceEach, PlacesOf
<1>3. HandledOnce'
  BY <1>1 DEF InboxTypeOK, OnceInv, HandledOnce, cleanupProcessedEvents, Removable, Without
<1>4. QED
  BY <1>2, <1>3 DEF OnceInv

LEMMA InsertKeepsOnce ==
  ASSUME InboxTypeOK, OnceInv, NEW c \in Consumer, Insert(c)
  PROVE  OnceInv'
<1> DEFINE m == Pending(c)
<1>1. m \in Message /\ inserted[c] \in Nat /\ m = job[c][inserted[c] + 1]
  BY PendingIsAsked, InboxAssumption DEF Insert, Pending, InboxTypeOK, WithRow
<1>2. /\ fresh' = [fresh EXCEPT ![c] = IF m \in Recorded THEN @ ELSE @ \cup {m}]
      /\ inserted' = [inserted EXCEPT ![c] = @ + 1]
      /\ phase[c] = "inserting"
      /\ UNCHANGED <<row, effects, forgotten, phase, job, todo>>
  BY DEF Insert, Inserting, tableVars, WithRow
<1>3. JobsDoNotRepeat' /\ HandledOnce'
  BY <1>2 DEF OnceInv, JobsDoNotRepeat, HandledOnce
<1>4. ASSUME NEW d \in Consumer PROVE OnePlaceEach(d)'
  <2>1. CASE d = c
    BY <1>2, <2>1 DEF OnePlaceEach
  <2>2. CASE d # c
    BY <1>2, <2>2, OtherPlacesStay DEF InboxTypeOK, OnceInv
  <2>3. QED
    BY <2>1, <2>2
<1>5. FreshIsAsked'
  <2>1. SUFFICES ASSUME NEW d \in Consumer, NEW x \in fresh'[d]
                 PROVE  \E i \in 1..(inserted'[d]) : job[d][i] = x
    BY <1>2 DEF FreshIsAsked
  <2>2. CASE x \in fresh[d]
    <3>1. PICK i \in 1..inserted[d] : job[d][i] = x
      BY <2>2 DEF OnceInv, FreshIsAsked
    <3>2. i \in 1..(inserted'[d])
      BY <1>1, <1>2, <3>1 DEF InboxTypeOK
    <3>3. QED
      BY <3>1, <3>2
  <2>3. CASE x \notin fresh[d]
    <3>1. d = c /\ x = m
      BY <1>2, <2>3 DEF InboxTypeOK
    <3>2. inserted[c] + 1 \in 1..(inserted'[c])
      BY <1>1, <1>2 DEF InboxTypeOK
    <3>3. QED
      BY <1>1, <3>1, <3>2
  <2>4. QED
    BY <2>2, <2>3
<1>6. QED
  BY <1>3, <1>4, <1>5 DEF OnceInv, OnePlacePerRow

LEMMA DeliverKeepsOnce ==
  ASSUME InboxTypeOK, RecordInv, OnceInv, NEW c \in Consumer, NEW b \in Batch, Deliver(c, b)
  PROVE  OnceInv'
<1>1. /\ phase[c] = "idle" /\ phase' = [phase EXCEPT ![c] = "inserting"]
      /\ job' = [job EXCEPT ![c] = b]
      /\ Api = "sdk" => \A i, j \in DOMAIN b : b[i] = b[j] => i = j
      /\ UNCHANGED <<row, effects, forgotten, inserted, fresh, todo>>
  BY DEF Deliver, tableVars
<1>2. fresh[c] = {}
  BY <1>1 DEF RecordInv, ClosedIsClean
<1>3. JobsDoNotRepeat'
  BY <1>1, BatchProperties DEF InboxTypeOK, OnceInv, JobsDoNotRepeat
<1>4. FreshIsAsked'
  BY <1>1, <1>2 DEF InboxTypeOK, OnceInv, FreshIsAsked
<1>5. OnePlacePerRow'
  BY <1>1 DEF InboxTypeOK, OnceInv, OnePlacePerRow, OnePlaceEach, PlacesOf
<1>6. HandledOnce'
  BY <1>1 DEF OnceInv, HandledOnce
<1>7. QED
  BY <1>3, <1>4, <1>5, <1>6 DEF OnceInv

LEMMA OnceStep ==
  ASSUME Api = "sdk" \/ Database = "mysql",
         InboxTypeOK, RecordInv, OnceInv, [Next]_vars
  PROVE  OnceInv'
<1>1. ASSUME NEW c \in Consumer, ReceiveAnswers(c)
      PROVE  OnceInv'
  <2>1. PICK S : S = {i \in {1} : job[c][i] \in fresh[c]} /\ Tell(c, S)
    BY <1>1 DEF ReceiveAnswers, Affected
  <2>2. \A m \in fresh[c] : \E i \in S : PlacesOf(c, S, m) = {i}
    BY <1>1, <2>1, SingleAnswerIsUnique DEF ReceiveAnswers, Affected
  <2>3. QED
    BY <1>1, <2>1, <2>2, TellKeepsOnce DEF ReceiveAnswers, Affected
<1>2. ASSUME NEW c \in Consumer, Close(c), UNCHANGED tableVars
      PROVE  OnceInv'
  <2>1. HandledOnce'
    BY <1>2 DEF OnceInv, HandledOnce, tableVars
  <2>2. QED
    BY <1>2, <2>1, CloseKeepsJobs DEF OnceInv
<1>3. ASSUME NEW c \in Consumer, ReceiveBatchAnswers(c)
      PROVE  OnceInv'
  <2>1. CASE Close(c)
    BY <1>2, <1>3, <2>1 DEF ReceiveBatchAnswers
  <2>2. CASE Tell(c, NewPlaces(c))
    <3>1. \A m \in fresh[c] : \E i \in NewPlaces(c) : PlacesOf(c, NewPlaces(c), m) = {i}
      BY <1>3, BatchAnswerIsUnique DEF ReceiveBatchAnswers
    <3>2. QED
      BY <1>3, <2>2, <3>1, TellKeepsOnce DEF ReceiveBatchAnswers
  <2>3. QED
    BY <1>3, <2>1, <2>2 DEF ReceiveBatchAnswers
<1>4. ASSUME NEW c \in Consumer, NEW m \in Message, MarkFailed(c, m)
      PROVE  OnceInv'
  BY <1>4 DEF MarkFailed, tableVars, OnceInv, JobsDoNotRepeat, FreshIsAsked,
       OnePlacePerRow, OnePlaceEach, PlacesOf, HandledOnce, Failable
<1>5. ASSUME NEW c \in Consumer, Commit(c)
      PROVE  OnceInv'
  BY <1>5, CloseKeepsJobs, CommitHandlesOnce DEF Commit, OnceInv, StatusOf
<1>6. ASSUME NEW c \in Consumer, Rollback(c) \/ DeadlockVictim(c)
      PROVE  OnceInv'
  BY <1>2, <1>6 DEF Rollback, DeadlockVictim
<1>7. CASE UNCHANGED vars
  BY <1>7 DEF vars, tableVars, txVars, OnceInv, JobsDoNotRepeat, FreshIsAsked,
       OnePlacePerRow, OnePlaceEach, PlacesOf, HandledOnce
<1>8. QED
  BY <1>1, <1>3, <1>4, <1>5, <1>6, <1>7, DeliverKeepsOnce, InsertKeepsOnce, CleanupKeepsOnce
     DEF Next, ConsumerStep, InboxCleanup

LEMMA OnceInit == Init => OnceInv
<1>1. SUFFICES ASSUME Init PROVE OnceInv
  OBVIOUS
<1>2. Len(<<>>) = 0
  OBVIOUS
<1>3. JobsDoNotRepeat
  BY <1>1, <1>2 DEF Init, JobsDoNotRepeat
<1>4. FreshIsAsked /\ OnePlacePerRow /\ HandledOnce
  BY <1>1 DEF Init, FreshIsAsked, OnePlacePerRow, OnePlaceEach, HandledOnce
<1>5. QED
  BY <1>3, <1>4 DEF OnceInv

\* Each row of an open transaction answers for one place of its batch, and each
\* record for one effect.
THEOREM OnceInvariant ==
  ASSUME Api = "sdk" \/ Database = "mysql"
  PROVE  Spec => []OnceInv
<1>1. InboxTypeOK /\ RecordInv /\ OnceInv /\ [Next]_vars => OnceInv'
  BY OnceStep
<1>2. QED
  BY <1>1, OnceInit, RecordInvariant, PTL DEF Spec

\* With the SDK, or the MySQL repository, the effect of a message is committed
\* once for each row the message has or had, whatever fails in between.
THEOREM MessagesAreHandledOnce ==
  ASSUME Api = "sdk" \/ Database = "mysql"
  PROVE  Spec => []HandledOnce
<1>1. OnceInv => HandledOnce
  BY DEF OnceInv
<1>2. QED
  BY <1>1, OnceInvariant, PTL

-----------------------------------------------------------------------------
(* Refinement *)

LEMMA FateOfStatus ==
  /\ FateOf("none") = "new"
  /\ FateOf("processed") = "handled"
  /\ FateOf("failed") = "flagged"
  BY DEF FateOf

\* A commit settles the rows it inserted.
LEMMA CommitSettles ==
  ASSUME InboxTypeOK, InboxTypeOK', RecordInv, OnceInv, NEW c \in Consumer, Commit(c)
  PROVE  \E H, F \in SUBSET Message : Promise!Settle(H, F)
<1> DEFINE H == fresh[c] \ flagged[c]
           F == flagged[c]
<1>1. H \in SUBSET Message /\ F \in SUBSET Message /\ F \subseteq fresh[c]
  BY DEF InboxTypeOK, RecordInv, TodoIsFresh
<1>2. \A m \in H \cup F : Fate[m] = "new"
  BY <1>1, FateOfStatus DEF Fate, RecordInv, FreshIsNew
<1>3. \A m \in Message :
        FateOf(row'[m]) = IF m \in H THEN "handled" ELSE IF m \in F THEN "flagged" ELSE Fate[m]
  <2>1. SUFFICES ASSUME NEW m \in Message
                 PROVE  FateOf(row'[m]) = IF m \in H THEN "handled"
                                          ELSE IF m \in F THEN "flagged" ELSE Fate[m]
    OBVIOUS
  <2>2. /\ m \in H => row'[m] = "processed"
        /\ m \in F => row'[m] = "failed"
        /\ m \notin H \cup F => row'[m] = row[m]
    BY <1>1 DEF Commit, StatusOf
  <2>3. Fate[m] = FateOf(row[m])
    BY DEF Fate
  <2>4. QED
    BY <2>2, <2>3, FateOfStatus
<1>4. Fate' = [m \in Message |-> IF m \in H THEN "handled"
                                 ELSE IF m \in F THEN "flagged" ELSE Fate[m]]
  BY <1>3 DEF Fate
<1>5. effects' = [m \in Message |-> IF m \in H THEN effects[m] + 1 ELSE effects[m]]
  <2>1. \A m \in Message : effects'[m] = IF m \in H THEN effects[m] + 1 ELSE effects[m]
    BY CommitEffects DEF InboxTypeOK
  <2>2. effects' \in [Message -> Nat]
    BY DEF InboxTypeOK
  <2>3. QED
    BY <2>1, <2>2
<1>6. Promise!Settle(H, F)
  BY <1>2, <1>4, <1>5 DEF Promise!Settle
<1>7. QED
  BY <1>1, <1>6

LEMMA CleanupForgets ==
  ASSUME InboxTypeOK, NEW S \in SUBSET Removable, cleanupProcessedEvents(S)
  PROVE  \E T \in SUBSET Message : Promise!Forget(T)
<1>1. S \in SUBSET Message /\ \A m \in S : Fate[m] = "handled"
  BY FateOfStatus DEF Removable, Fate
<1>2. \A m \in Message : FateOf(row'[m]) = IF m \in S THEN "new" ELSE Fate[m]
  <2>1. SUFFICES ASSUME NEW m \in Message
                 PROVE  FateOf(row'[m]) = IF m \in S THEN "new" ELSE Fate[m]
    OBVIOUS
  <2>2. row'[m] = IF m \in S THEN "none" ELSE row[m]
    BY DEF cleanupProcessedEvents, Without
  <2>3. Fate[m] = FateOf(row[m])
    BY DEF Fate
  <2>4. QED
    BY <2>2, <2>3, FateOfStatus
<1>3. Fate' = [m \in Message |-> IF m \in S THEN "new" ELSE Fate[m]]
  BY <1>2 DEF Fate
<1>4. Promise!Forget(S)
  BY <1>1, <1>3 DEF Promise!Forget, cleanupProcessedEvents
<1>5. QED
  BY <1>1, <1>4

\* With the SDK, or the MySQL repository, the inbox implements ExactlyOnce.
THEOREM ExactlyOnceIsImplemented ==
  ASSUME Api = "sdk" \/ Database = "mysql"
  PROVE  Spec => HandlesExactlyOnce
<1>1. Init => Promise!Init
  <2> SUFFICES ASSUME Init PROVE Promise!Init
    OBVIOUS
  <2>1. \A m \in Message : FateOf(row[m]) = "new"
    BY FateOfStatus DEF Init
  <2>2. Fate = [m \in Message |-> "new"]
    BY <2>1 DEF Fate
  <2>3. QED
    BY <2>2 DEF Init, Promise!Init
<1>2. InboxTypeOK /\ InboxTypeOK' /\ RecordInv /\ OnceInv /\ [Next]_vars
        => [Promise!Next]_<<Fate, effects>>
  <2> SUFFICES ASSUME InboxTypeOK, InboxTypeOK', RecordInv, OnceInv, [Next]_vars
               PROVE  [Promise!Next]_<<Fate, effects>>
    OBVIOUS
  <2>1. ASSUME NEW c \in Consumer, Commit(c)
        PROVE  Promise!Next
    BY <2>1, CommitSettles DEF Promise!Next
  <2>2. ASSUME NEW S \in SUBSET Removable, cleanupProcessedEvents(S)
        PROVE  Promise!Next
    BY <2>2, CleanupForgets DEF Promise!Next
  <2>3. CASE UNCHANGED <<row, effects>>
    BY <2>3 DEF Fate
  <2>4. QED
    BY <2>1, <2>2, <2>3
       DEF Next, ConsumerStep, Deliver, Insert, ReceiveAnswers, ReceiveBatchAnswers,
           MarkFailed, Rollback, DeadlockVictim, vars, tableVars, WithRow, Failable, Affected, InboxCleanup
<1>3. QED
  BY <1>1, <1>2, RecordInvariant, OnceInvariant, PTL
     DEF Spec, HandlesExactlyOnce, Promise!Spec

=============================================================================

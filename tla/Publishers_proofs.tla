-------------------------- MODULE Publishers_proofs --------------------------
(***************************************************************************)
(* The publishers implement PublishContract, and keep the order of a batch *)
(* in each partition, for every set of events, routes and partitions and   *)
(* every value of the bounds.                                              *)
(***************************************************************************)
EXTENDS Publishers, FiniteSetTheorems, SequenceTheorems, TLAPS

RequestState == {"sent", "handled", "trickling", "settled"}
Produce == [group : Topics, part : Partition, call : 1 .. MaxCalls, messages : Seq(Event)]

Types ==
  /\ route \in Route
  /\ publisher \in {"none", "http", "kafka", "error"}
  /\ producer \in BOOLEAN /\ calling \in BOOLEAN
  /\ batches \in Seq(Seq(Event)) /\ Len(batches) <= MaxCalls
  /\ DOMAIN request \subseteq Groups /\ request \in [DOMAIN request -> RequestState]
  /\ DOMAIN results \subseteq asked /\ \A e \in DOMAIN results : results[e] \in Outcome
  /\ DOMAIN outcome \subseteq Event /\ \A e \in DOMAIN outcome : outcome[e] \in Outcome
  /\ taken \subseteq asked /\ refused \subseteq asked
  /\ produce \subseteq Produce
  /\ log \in [Topics \X Partition -> Seq(Message)]
  /\ \A p \in DOMAIN log : Len(log[p]) <= MaxAppends

\* between two calls nothing is left of the first one
Between ==
  /\ calling => batches # <<>> /\ Batch # <<>>
  /\ ~calling => request = <<>> /\ results = <<>>

\* only Kafka has produce requests, and they are of calls that were made
Produced_OfCalls ==
  /\ publisher # "kafka" => produce = {} /\ \A p \in DOMAIN log : log[p] = <<>>
  /\ \A r \in produce : r.call <= Len(batches)
  /\ \A p \in DOMAIN log : \A j \in DOMAIN log[p] : log[p][j].call <= Len(batches)

\* the messages of the open call are events of its batch, and taken once appended
AppendedIsTaken ==
  calling =>
    /\ \A r \in produce : r.call = Len(batches) => ToSet(r.messages) \subseteq asked
    /\ \A p \in DOMAIN log : \A j \in DOMAIN log[p] :
         log[p][j].call = Len(batches) => log[p][j].event \in taken

\* the results gathered so far are true
ResultsAreTrue ==
  \A e \in DOMAIN results :
    /\ results[e] = "success" => e \in taken
    /\ results[e] = "fatal" => e \in refused

ContractInv ==
  /\ Types
  /\ Between
  /\ Produced_OfCalls
  /\ AppendedIsTaken
  /\ ResultsAreTrue

-----------------------------------------------------------------------------
(* Sequences of distinct events, and topics *)

LEMMA ElementsInSet ==
  ASSUME NEW S, NEW s \in Seq(S)
  PROVE  ToSet(s) \subseteq S
  BY DEF ToSet

LEMMA NonEmptyHasElements ==
  ASSUME NEW S, NEW s \in Seq(S), s # <<>>
  PROVE  ToSet(s) # {}
<1>1. 1 \in DOMAIN s
  OBVIOUS
<1>2. QED
  BY <1>1, Zenon DEF ToSet

LEMMA SetToSeqsIsSeq ==
  ASSUME NEW S, IsFiniteSet(S), NEW s \in SetToSeqs(S)
  PROVE  /\ s \in Seq(S)
         /\ \A i, j \in DOMAIN s : s[i] = s[j] => i = j
         /\ \A x \in S : \E i \in DOMAIN s : s[i] = x
<1>1. Cardinality(S) \in Nat
  BY FS_CardinalityType
<1>2. /\ s \in [1..Cardinality(S) -> S]
      /\ \A i, j \in 1..Cardinality(S) : i # j => s[i] # s[j]
  BY Zenon DEF SetToSeqs
<1>3. s \in Seq(S)
  BY <1>1, <1>2, SMT
<1>4. \A x \in S : \E i \in DOMAIN s : s[i] = x
  <2> DEFINE R == {s[i] : i \in 1..Cardinality(S)}
  <2>1. R \subseteq S
    BY <1>2
  <2>2. s \in Bijection(1..Cardinality(S), R)
    BY <1>2 DEF Bijection, Injection, Surjection, IsInjective
  <2>3. IsFiniteSet(R) /\ Cardinality(R) = Cardinality(1..Cardinality(S))
    BY <2>2, <1>1, FS_Interval, FS_Bijection DEF ExistsBijection
  <2>4. Cardinality(1..Cardinality(S)) = Cardinality(S)
    BY <1>1, FS_Interval
  <2>5. R = S
    BY <2>1, <2>3, <2>4, FS_Subset
  <2>6. QED
    BY <2>5, <1>2
<1>5. QED
  BY <1>2, <1>3, <1>4

LEMMA TopicsOfUrls ==
  /\ \A u \in Urls : extractTopicFromUrl(u) \in Topics
  /\ \A t \in Topics : extractTopicFromUrl(t) = t
<1>1. \A u \in Urls : extractTopicFromUrl(u) \in Topics
  BY DEF Topics
<1>2. \A u : extractTopicFromUrl(extractTopicFromUrl(u)) = extractTopicFromUrl(u)
  BY DEF extractTopicFromUrl
<1>3. QED
  BY <1>1, <1>2 DEF Topics

-----------------------------------------------------------------------------
(* What a step does to the results, and to what is taken and refused *)

\* the call stays as it is, and so do the requests on their way
CallGoesOn ==
  UNCHANGED <<route, publisher, producer, calling, batches, outcome, produce, log>>

\* group g is settled with results that are true of its events
SettlesTruly(g) ==
  /\ g \in Open
  /\ request' = [request EXCEPT ![g] = "settled"]
  /\ \E new \in [EventsOf(g) -> Outcome], S \in SUBSET EventsOf(g) :
       /\ results' = [e \in EventsOf(g) \cup DOMAIN results |->
                        IF e \in EventsOf(g) THEN new[e] ELSE results[e]]
       /\ refused' = refused \cup S
       /\ \A e \in EventsOf(g) : /\ new[e] = "success" => e \in taken
                                 /\ new[e] = "fatal" => e \in S
  /\ CallGoesOn /\ UNCHANGED taken

LEMMA UniformResults ==
  ASSUME NEW g, NEW o \in Outcome
  PROVE  buildUniformResults(g, o) \in [EventsOf(g) -> Outcome]
  BY DEF buildUniformResults

LEMMA SettlesWith ==
  ASSUME NEW g, g \in Open, NEW new \in [EventsOf(g) -> Outcome], NEW S \in SUBSET EventsOf(g),
         Settle(g, new), refused' = refused \cup S, CallGoesOn, UNCHANGED taken,
         \A e \in EventsOf(g) : /\ new[e] = "success" => e \in taken
                                /\ new[e] = "fatal" => e \in S
  PROVE  SettlesTruly(g)
<1>1. DOMAIN new = EventsOf(g)
  OBVIOUS
<1>2. QED
  BY <1>1, Zenon DEF SettlesTruly, Settle

LEMMA AnswersSuccessTruly ==
  ASSUME NEW g, AnswersSuccess(g)
  PROVE  SettlesTruly(g)
<1> DEFINE new == buildUniformResults(g, "success")
<1>1. new \in [EventsOf(g) -> Outcome]
  BY UniformResults DEF Outcome
<1>2. \A e \in EventsOf(g) : new[e] = "success" /\ e \in taken
  BY DEF buildUniformResults, AnswersSuccess
<1>3. /\ g \in Open /\ Settle(g, new) /\ CallGoesOn /\ UNCHANGED taken
      /\ refused' = refused \cup {}
  BY DEF AnswersSuccess, Answering, CallGoesOn
<1> HIDE DEF new
<1>4. QED
  BY <1>1, <1>2, <1>3, SettlesWith

LEMMA AnswersEachTruly ==
  ASSUME NEW g, AnswersEach(g)
  PROVE  SettlesTruly(g)
<1>0. PICK S \in SUBSET EventsOf(g) :
        \E named \in [S -> {"success", "retryable", "not retryable", "failed"}] :
          /\ \A e \in EventsOf(g) \ taken : e \in S /\ named[e] # "success"
          /\ Settle(g, parseIndividualResults(g, named))
          /\ refused' = refused \cup {e \in S : named[e] = "not retryable"}
  BY Zenon DEF AnswersEach
<1>1. PICK named \in [S -> {"success", "retryable", "not retryable", "failed"}] :
        /\ \A e \in EventsOf(g) \ taken : e \in S /\ named[e] # "success"
        /\ Settle(g, parseIndividualResults(g, named))
        /\ refused' = refused \cup {e \in S : named[e] = "not retryable"}
  BY <1>0
<1> DEFINE new == parseIndividualResults(g, named)
           No == {e \in S : named[e] = "not retryable"}
<1>2. new \in [EventsOf(g) -> Outcome]
  BY DEF parseIndividualResults, Outcome
<1>3. \A e \in EventsOf(g) : /\ new[e] = "success" => e \in taken
                             /\ new[e] = "fatal" => e \in No
  BY <1>1 DEF parseIndividualResults
<1>4. g \in Open /\ CallGoesOn /\ UNCHANGED taken /\ No \in SUBSET EventsOf(g)
  BY <1>1 DEF AnswersEach, Answering, CallGoesOn
<1>5. Settle(g, new) /\ refused' = refused \cup No
  BY <1>1
<1> HIDE DEF new, No
<1>6. QED
  BY <1>2, <1>3, <1>4, <1>5, SettlesWith

\* a group fails as a whole, for good only if it is refused as a whole
LEMMA FailsTruly ==
  ASSUME NEW g, g \in Open, NEW fatal \in BOOLEAN,
         Settle(g, buildUniformResults(g, IF fatal THEN "fatal" ELSE "retryable")),
         refused' = IF fatal THEN refused \cup EventsOf(g) ELSE refused,
         CallGoesOn, UNCHANGED taken
  PROVE  SettlesTruly(g)
<1> DEFINE o == IF fatal THEN "fatal" ELSE "retryable"
           new == buildUniformResults(g, o)
           S == IF fatal THEN EventsOf(g) ELSE {}
<1>1. new \in [EventsOf(g) -> Outcome]
  BY UniformResults DEF Outcome
<1>2. \A e \in EventsOf(g) : /\ new[e] = "success" => e \in taken
                             /\ new[e] = "fatal" => e \in S
  BY DEF buildUniformResults
<1>3. S \in SUBSET EventsOf(g) /\ refused' = refused \cup S
  OBVIOUS
<1>4. Settle(g, new)
  OBVIOUS
<1> HIDE DEF new, S
<1>5. QED
  BY <1>1, <1>2, <1>3, <1>4, SettlesWith

LEMMA AnswersFailureTruly ==
  ASSUME NEW g, AnswersFailure(g)
  PROVE  SettlesTruly(g)
<1>1. PICK status \in {"5xx", "408 or 429", "another"} :
        /\ Settle(g, buildUniformResults(g, IF status = "another" THEN "fatal" ELSE "retryable"))
        /\ refused' = IF status = "another" THEN refused \cup EventsOf(g) ELSE refused
  BY DEF AnswersFailure
<1>2. g \in Open /\ CallGoesOn /\ UNCHANGED taken
  BY DEF AnswersFailure, Answering, CallGoesOn
<1>3. QED
  BY <1>1, <1>2, FailsTruly, Zenon

LEMMA RequestBreaksTruly ==
  ASSUME NEW g, RequestBreaks(g)
  PROVE  SettlesTruly(g)
<1>1. /\ Settle(g, buildUniformResults(g, IF FALSE THEN "fatal" ELSE "retryable"))
      /\ refused' = IF FALSE THEN refused \cup EventsOf(g) ELSE refused
  BY DEF RequestBreaks
<1>2. g \in Open /\ CallGoesOn /\ UNCHANGED taken
  BY DEF RequestBreaks, CallGoesOn
<1>3. QED
  BY <1>1, <1>2, FailsTruly, Zenon

LEMMA SendRejectsTruly ==
  ASSUME NEW g, SendRejects(g)
  PROVE  SettlesTruly(g)
<1>1. PICK error \in {"permanent", "transient"} :
        /\ Settle(g, buildUniformResults(g,
             IF isRetryableKafkaError(error) THEN "retryable" ELSE "fatal"))
        /\ refused' = IF error = "permanent" THEN refused \cup EventsOf(g) ELSE refused
  BY DEF SendRejects
<1> DEFINE fatal == error = "permanent"
<1>2. (IF isRetryableKafkaError(error) THEN "retryable" ELSE "fatal")
        = (IF fatal THEN "fatal" ELSE "retryable")
  BY DEF isRetryableKafkaError
<1>3. g \in Open /\ CallGoesOn /\ UNCHANGED taken
  BY DEF SendRejects, CallGoesOn
<1>4. Settle(g, buildUniformResults(g, IF fatal THEN "fatal" ELSE "retryable"))
  BY <1>1, <1>2
<1>5. fatal \in BOOLEAN /\ refused' = IF fatal THEN refused \cup EventsOf(g) ELSE refused
  BY <1>1
<1> HIDE DEF fatal
<1>6. QED
  BY <1>3, <1>4, <1>5, FailsTruly

\* what a send that resolves says was appended was taken
LEMMA SendResolvesTruly ==
  ASSUME ContractInv, NEW g, SendResolves(g)
  PROVE  SettlesTruly(g)
<1> DEFINE new == buildUniformResults(g, "success")
<1>1. new \in [EventsOf(g) -> Outcome]
  BY UniformResults DEF Outcome
<1>2. g \in Open /\ CallGoesOn /\ UNCHANGED taken /\ Settle(g, new) /\ refused' = refused \cup {}
  BY DEF SendResolves, CallGoesOn
<1>3. calling /\ extractTopicFromUrl(g) \in Topics
  <2>1. g \in DOMAIN request /\ g \in Groups
    BY <1>2 DEF Open, ContractInv, Types
  <2>2. calling
    BY <2>1 DEF ContractInv, Between, Types
  <2>3. QED
    BY <2>1, <2>2, TopicsOfUrls DEF Groups
<1>4. ASSUME NEW e \in EventsOf(g)
      PROVE  e \in taken
  <2>1. PICK p \in Partition :
          [event |-> e, call |-> Len(batches)] \in ToSet(log[<<extractTopicFromUrl(g), p>>])
    BY <1>4 DEF SendResolves, Sent
  <2> DEFINE q == <<extractTopicFromUrl(g), p>>
  <2>2. q \in DOMAIN log
    BY <1>3 DEF ContractInv, Types
  <2>3. PICK j \in DOMAIN log[q] : log[q][j] = [event |-> e, call |-> Len(batches)]
    BY <2>1 DEF ToSet
  <2>4. log[q][j].event = e /\ log[q][j].call = Len(batches)
    BY <2>3
  <2> HIDE DEF q
  <2>5. QED
    BY <2>2, <2>4, <1>3 DEF ContractInv, AppendedIsTaken
<1>5. \A e \in EventsOf(g) : new[e] = "success" /\ e \in taken
  BY <1>4 DEF buildUniformResults
<1> HIDE DEF new
<1>6. QED
  BY <1>1, <1>2, <1>5, SettlesWith

-----------------------------------------------------------------------------
(* ContractInv is inductive *)

LEMMA OutcomeOfOpenCall ==
  ASSUME ContractInv, NEW g \in Open
  PROVE  /\ calling /\ asked = ToSet(Batch) /\ asked # {} /\ asked \subseteq Event
         /\ EventsOf(g) \subseteq asked
<1>1. calling
  BY DEF ContractInv, Between, Types, Open
<1>2. batches \in Seq(Seq(Event)) /\ batches # <<>> /\ Batch # <<>>
  BY <1>1 DEF ContractInv, Types, Between
<1>3. Batch \in Seq(Event)
  BY <1>2 DEF Batch, Last
<1>4. ToSet(Batch) # {} /\ ToSet(Batch) \subseteq Event
  BY <1>2, <1>3, ElementsInSet, NonEmptyHasElements
<1>5. QED
  BY <1>1, <1>4 DEF asked, EventsOf

LEMMA Settled ==
  ASSUME ContractInv, NEW g, SettlesTruly(g)
  PROVE  ContractInv'
<1>1. PICK new \in [EventsOf(g) -> Outcome], S \in SUBSET EventsOf(g) :
        /\ results' = [e \in EventsOf(g) \cup DOMAIN results |->
                         IF e \in EventsOf(g) THEN new[e] ELSE results[e]]
        /\ refused' = refused \cup S
        /\ \A e \in EventsOf(g) : /\ new[e] = "success" => e \in taken
                                  /\ new[e] = "fatal" => e \in S
  BY DEF SettlesTruly
<1>2. g \in Open /\ request' = [request EXCEPT ![g] = "settled"] /\ CallGoesOn /\ UNCHANGED taken
  BY DEF SettlesTruly
<1>3. asked' = asked /\ Batch' = Batch /\ calling /\ EventsOf(g) \subseteq asked
  BY <1>2, OutcomeOfOpenCall DEF CallGoesOn, asked, Batch
<1>4. DOMAIN results' = EventsOf(g) \cup DOMAIN results
  BY <1>1
<1>5. Types'
  <2>1. DOMAIN request' = DOMAIN request /\ request' \in [DOMAIN request -> RequestState]
    BY <1>2 DEF ContractInv, Types, RequestState
  <2>2. DOMAIN results' \subseteq asked /\ \A e \in DOMAIN results' : results'[e] \in Outcome
    BY <1>1, <1>3, <1>4 DEF ContractInv, Types
  <2>3. refused' \subseteq asked
    BY <1>1, <1>3 DEF ContractInv, Types
  <2>4. QED
    BY <1>2, <1>3, <2>1, <2>2, <2>3 DEF ContractInv, Types, CallGoesOn
<1>6. Between'
  BY <1>2, <1>3 DEF ContractInv, Between, CallGoesOn
<1>7. Produced_OfCalls'
  BY <1>2 DEF ContractInv, Produced_OfCalls, CallGoesOn
<1>8. AppendedIsTaken'
  BY <1>2, <1>3 DEF ContractInv, AppendedIsTaken, CallGoesOn
<1>9. ResultsAreTrue'
  BY <1>1, <1>2, <1>4 DEF ContractInv, ResultsAreTrue
<1>10. QED
  BY <1>5, <1>6, <1>7, <1>8, <1>9 DEF ContractInv

\* what the webhook does before it answers
LEMMA WebhookKeeps ==
  ASSUME ContractInv, NEW g, WebhookTakes(g) \/ WebhookTrickles(g)
  PROVE  ContractInv'
<1>1. g \in Open /\ CallGoesOn /\ UNCHANGED <<refused, results>>
  BY DEF WebhookTakes, WebhookTrickles, CallGoesOn
<1>2. \E v \in RequestState : request' = [request EXCEPT ![g] = v]
  BY DEF WebhookTakes, WebhookTrickles, RequestState
<1>3. \E S \in SUBSET EventsOf(g) : taken' = taken \cup S
  <2>1. CASE WebhookTakes(g)
    BY <2>1 DEF WebhookTakes
  <2>2. CASE WebhookTrickles(g)
    <3>1. taken' = taken \cup {}
      BY <2>2 DEF WebhookTrickles
    <3>2. QED
      BY <3>1, Zenon
  <2>3. QED
    BY <2>1, <2>2
<1>4. asked' = asked /\ Batch' = Batch /\ calling /\ EventsOf(g) \subseteq asked
  BY <1>1, OutcomeOfOpenCall DEF CallGoesOn, asked, Batch
<1>5. Types'
  <2>1. DOMAIN request' = DOMAIN request /\ request' \in [DOMAIN request -> RequestState]
    BY <1>2 DEF ContractInv, Types
  <2>2. taken' \subseteq asked
    BY <1>3, <1>4 DEF ContractInv, Types
  <2>3. QED
    BY <1>1, <1>4, <2>1, <2>2 DEF ContractInv, Types, CallGoesOn
<1>6. Between'
  BY <1>1, <1>4 DEF ContractInv, Between, CallGoesOn
<1>7. Produced_OfCalls'
  BY <1>1 DEF ContractInv, Produced_OfCalls, CallGoesOn
<1>8. AppendedIsTaken'
  BY <1>1, <1>3, <1>4 DEF ContractInv, AppendedIsTaken, CallGoesOn
<1>9. ResultsAreTrue'
  BY <1>1, <1>3 DEF ContractInv, ResultsAreTrue
<1>10. QED
  BY <1>5, <1>6, <1>7, <1>8, <1>9 DEF ContractInv

LEMMA FactoryKeeps ==
  ASSUME ContractInv, createPublisher \/ initialize \/ shutdown
  PROVE  ContractInv'
<1>1. UNCHANGED <<route, callVars, taken, refused, produce, log>>
  BY DEF createPublisher, initialize, shutdown
<1>2. publisher' \in {"none", "http", "kafka", "error"} /\ producer' \in BOOLEAN
  BY DEF createPublisher, initialize, shutdown, ContractInv, Types
<1>3. publisher' # "kafka" => publisher # "kafka"
  BY DEF createPublisher, initialize, shutdown
<1>4. asked' = asked /\ Batch' = Batch
  BY <1>1 DEF callVars, asked, Batch
<1>5. Types'
  BY <1>1, <1>2, <1>4 DEF ContractInv, Types, callVars
<1>6. Between'
  BY <1>1, <1>4 DEF ContractInv, Between, callVars
<1>7. Produced_OfCalls'
  BY <1>1, <1>3 DEF ContractInv, Produced_OfCalls, callVars
<1>8. AppendedIsTaken'
  BY <1>1, <1>4 DEF ContractInv, AppendedIsTaken, callVars
<1>9. ResultsAreTrue'
  BY <1>1 DEF ContractInv, ResultsAreTrue, callVars
<1>10. QED
  BY <1>5, <1>6, <1>7, <1>8, <1>9 DEF ContractInv

LEMMA ReturnKeeps ==
  ASSUME ContractInv, Returns
  PROVE  ContractInv'
<1>1. /\ calling /\ ~calling' /\ calling' \in BOOLEAN
      /\ request' = <<>> /\ results' = <<>> /\ taken' = {} /\ refused' = {}
      /\ UNCHANGED <<route, publisher, producer, batches, produce, log>>
  BY DEF Returns
<1>2. asked \subseteq Event
  <2>1. batches \in Seq(Seq(Event)) /\ batches # <<>>
    BY <1>1 DEF ContractInv, Types, Between
  <2>2. Batch \in Seq(Event)
    BY <2>1 DEF Batch, Last
  <2>3. QED
    BY <2>2, <1>1 DEF asked, ToSet
<1>3. DOMAIN outcome' = asked /\ \A e \in asked : outcome'[e] \in Outcome
  BY DEF Returns, ContractInv, Types, Outcome
<1>4. DOMAIN request' = {} /\ DOMAIN results' = {}
  BY <1>1
<1>5. Types'
  BY <1>1, <1>2, <1>3, <1>4, SMT DEF ContractInv, Types, asked
<1>6. Between'
  BY <1>1 DEF ContractInv, Between
<1>7. Produced_OfCalls'
  BY <1>1 DEF ContractInv, Produced_OfCalls
<1>8. AppendedIsTaken'
  BY <1>1 DEF ContractInv, AppendedIsTaken
<1>9. ResultsAreTrue'
  BY <1>4 DEF ContractInv, ResultsAreTrue
<1>10. QED
  BY <1>5, <1>6, <1>7, <1>8, <1>9 DEF ContractInv

\* a call begins: nothing is left of the one before
LEMMA CallStarts ==
  ASSUME ContractInv, NEW batch \in Seq(Event), Call(batch)
  PROVE  /\ ~calling /\ calling' /\ batch # <<>>
         /\ batches' \in Seq(Seq(Event)) /\ Len(batches') <= MaxCalls /\ batches' # <<>>
         /\ Batch' = batch /\ asked' = ToSet(batch)
         /\ asked = {} /\ taken' = {} /\ refused' = {} /\ results' = <<>>
         /\ taken = {} /\ refused = {} /\ outcome' = <<>>
         /\ publisher # "http" => Len(batches') = Len(batches) + 1
<1>1. ~calling /\ calling' /\ batch # <<>> /\ outcome' = <<>>
  BY DEF Call
<1>2. batches' = IF publisher = "http" THEN <<batch>> ELSE Append(batches, batch)
  BY DEF Call
<1>3. batches \in Seq(Seq(Event)) /\ Len(batches') <= MaxCalls
  BY DEF ContractInv, Types, Call
<1>4. batches' \in Seq(Seq(Event)) /\ batches' # <<>> /\ batches'[Len(batches')] = batch
  <2>1. CASE publisher = "http"
    <3>1. batches' = <<batch>>
      BY <1>2, <2>1
    <3>2. QED
      BY <3>1
  <2>2. CASE publisher # "http"
    <3>1. batches' = Append(batches, batch)
      BY <1>2, <2>2
    <3>2. QED
      BY <1>3, <3>1
  <2>3. QED
    BY <2>1, <2>2
<1>5. Batch' = batch
  BY <1>4 DEF Batch, Last
<1>6. asked' = ToSet(batch) /\ asked = {}
  BY <1>1, <1>5 DEF asked
<1>7. taken = {} /\ refused = {} /\ results = <<>>
  BY <1>1, <1>6 DEF ContractInv, Types, Between
<1>8. UNCHANGED <<taken, refused, results>>
  BY DEF Call
<1>9. publisher # "http" => Len(batches') = Len(batches) + 1
  BY <1>2, <1>3
<1>10. QED
  BY <1>1, <1>3, <1>4, <1>5, <1>6, <1>7, <1>8, <1>9

LEMMA GroupsOfEvents ==
  ASSUME ContractInv, NEW e \in Event
  PROVE  /\ Group(e) \in Groups
         /\ publisher = "kafka" => Group(e) \in Topics
<1>1. route[e].url \in Urls
  BY DEF ContractInv, Types, Urls
<1>2. QED
  BY <1>1, TopicsOfUrls DEF Group, Groups

LEMMA NewRecordBatch ==
  ASSUME ContractInv, publisher = "kafka",
         NEW batch \in Seq(Event), NEW spread, NEW r \in Produced(batch, spread)
  PROVE  /\ r.group \in Topics /\ r.part \in Partition /\ r.call = Len(batches) + 1
         /\ r.messages \in Seq(Event) /\ ToSet(r.messages) \subseteq ToSet(batch)
         /\ r = [group |-> r.group, part |-> r.part, call |-> r.call, messages |-> r.messages]
<1>1. PICK d \in ToSet(batch), p \in Partition : r \in RecordBatches(Group(d), p, batch, spread)
  BY DEF Produced
<1>2. PICK m \in Messages(Group(d), p, batch, spread) :
        r = [group |-> Group(d), part |-> p, call |-> Len(batches) + 1, messages |-> m]
  BY <1>1 DEF RecordBatches
<1> DEFINE T == {e \in ToSet(batch) :
                   /\ Group(e) = Group(d)
                   /\ PartOf(generatePartitionKey(route[e].aggregateId), spread[e]) = p}
<1>3. ToSet(batch) \subseteq Event
  BY ElementsInSet
<1>4. T \subseteq ToSet(batch) /\ IsFiniteSet(T)
  <2>1. T \in SUBSET Event
    BY <1>3
  <2> HIDE DEF T
  <2>2. IsFiniteSet(T)
    BY <2>1, FS_Subset, PublishersAssumption
  <2>3. QED
    BY <2>2 DEF T
<1>5. m \in SetToSeqs(T)
  BY <1>2 DEF InOrder, Messages
<1> HIDE DEF T
<1>6. m \in Seq(T)
  BY <1>4, <1>5, SetToSeqsIsSeq
<1>7. ToSet(m) \subseteq ToSet(batch) /\ m \in Seq(Event)
  <2>1. ToSet(m) \subseteq T
    BY <1>6, ElementsInSet
  <2>2. T \subseteq Event
    BY <1>3, <1>4
  <2>3. QED
    BY <1>4, <1>6, <2>1, <2>2
<1>8. Group(d) \in Topics
  BY <1>3, GroupsOfEvents
<1>9. QED
  BY <1>2, <1>7, <1>8

LEMMA PublishKeeps ==
  ASSUME ContractInv, NEW batch \in Seq(Event),
         HttpPublish(batch) \/ KafkaPublish(batch) \/ PublishThrows(batch)
  PROVE  ContractInv'
<1>1. Call(batch) /\ UNCHANGED <<route, publisher, producer, log>>
  BY DEF HttpPublish, KafkaPublish, PublishThrows
<1> DEFINE New == {r \in produce' : r \notin produce}
<1>2. /\ \A r \in New : /\ r \in Produce /\ r.call = Len(batches) + 1
                        /\ ToSet(r.messages) \subseteq ToSet(batch)
      /\ produce \subseteq produce' /\ publisher # "kafka" => produce' = produce
  <2>1. CASE UNCHANGED produce
    BY <2>1
  <2>2. CASE KafkaPublish(batch)
    <3>1. PICK spread \in [ToSet(batch) -> Partition] :
            produce' = produce \cup Produced(batch, spread)
      BY <2>2 DEF KafkaPublish
    <3>2. publisher = "kafka"
      BY <2>2 DEF KafkaPublish
    <3>3. Len(batches) + 1 \in 1..MaxCalls
      BY <1>1, <3>2, CallStarts, PublishersAssumption DEF ContractInv, Types
    <3>4. ASSUME NEW r \in Produced(batch, spread)
          PROVE  /\ r \in Produce /\ r.call = Len(batches) + 1
                 /\ ToSet(r.messages) \subseteq ToSet(batch)
      BY <3>2, <3>3, NewRecordBatch DEF Produce
    <3>5. QED
      BY <3>1, <3>2, <3>4, Zenon
  <2>3. QED
    BY <2>1, <2>2 DEF HttpPublish, PublishThrows
<1>3. /\ ~calling /\ calling' /\ batch # <<>>
      /\ batches' \in Seq(Seq(Event)) /\ Len(batches') <= MaxCalls /\ batches' # <<>>
      /\ Batch' = batch /\ asked' = ToSet(batch)
      /\ taken' = {} /\ refused' = {} /\ results' = <<>> /\ outcome' = <<>>
      /\ publisher # "http" => Len(batches') = Len(batches) + 1
  BY <1>1, CallStarts
<1>4. DOMAIN results' = {} /\ DOMAIN outcome' = {}
  BY <1>3
<1>5. Types'
  <2>1. DOMAIN request' \subseteq Groups /\ request' \in [DOMAIN request' -> RequestState]
    <3>1. CASE request' = <<>>
      BY <3>1
    <3>2. CASE request' = [g \in {Group(e) : e \in ToSet(batch)} |-> "sent"]
      <4>1. ToSet(batch) \subseteq Event
        BY ElementsInSet
      <4>2. {Group(e) : e \in ToSet(batch)} \subseteq Groups
        BY <4>1, GroupsOfEvents
      <4> DEFINE G == {Group(e) : e \in ToSet(batch)}
      <4>3. request' = [g \in G |-> "sent"] /\ G \subseteq Groups
        BY <3>2, <4>2
      <4> HIDE DEF G
      <4>4. QED
        BY <4>3 DEF RequestState
    <3>3. QED
      BY <3>1, <3>2 DEF HttpPublish, KafkaPublish, PublishThrows
  <2>2. produce' \subseteq Produce
    BY <1>2 DEF ContractInv, Types
  <2>3. calling' \in BOOLEAN
    BY DEF HttpPublish, KafkaPublish, PublishThrows, Call
  <2>4. QED
    BY <1>1, <1>3, <1>4, <2>1, <2>2, <2>3 DEF ContractInv, Types
<1>6. Between'
  BY <1>3 DEF Between
<1>7. Produced_OfCalls'
  <2>1. CASE publisher = "http"
    BY <1>1, <1>2, <2>1 DEF ContractInv, Produced_OfCalls
  <2>2. CASE publisher # "http"
    <3>1. Len(batches) \in Nat /\ Len(batches') = Len(batches) + 1
      BY <1>3, <2>2 DEF ContractInv, Types
    <3>2. \A r \in produce' : r.call <= Len(batches')
      <4>1. ASSUME NEW r \in produce
            PROVE  r.call <= Len(batches')
        BY <3>1 DEF ContractInv, Types, Produce, Produced_OfCalls
      <4>2. QED
        BY <1>2, <3>1, <4>1
    <3>3. ASSUME NEW p \in DOMAIN log, NEW j \in DOMAIN log[p]
          PROVE  log[p][j].call <= Len(batches')
      <4>1. log[p][j] \in Message
        BY DEF ContractInv, Types
      <4>2. log[p][j].call <= Len(batches) /\ log[p][j].call \in Int
        BY <4>1 DEF ContractInv, Produced_OfCalls, Message
      <4>3. QED
        BY <3>1, <4>2
    <3>4. QED
      BY <1>1, <1>2, <3>2, <3>3 DEF ContractInv, Produced_OfCalls
  <2>3. QED
    BY <2>1, <2>2
<1>8. AppendedIsTaken'
  <2>1. CASE publisher = "http"
    BY <1>1, <1>2, <2>1 DEF ContractInv, Produced_OfCalls, AppendedIsTaken
  <2>2. CASE publisher # "http"
    <3>1. Len(batches) \in Nat /\ Len(batches') = Len(batches) + 1
      BY <1>3, <2>2 DEF ContractInv, Types
    <3>2. ASSUME NEW r \in produce', r.call = Len(batches')
          PROVE  ToSet(r.messages) \subseteq asked'
      <4>1. r \notin produce
        BY <3>1, <3>2 DEF ContractInv, Produced_OfCalls
      <4>2. QED
        BY <1>2, <1>3, <4>1
    <3>3. ASSUME NEW p \in DOMAIN log, NEW j \in DOMAIN log[p]
          PROVE  log[p][j].call # Len(batches')
      BY <3>1 DEF ContractInv, Produced_OfCalls
    <3>4. QED
      BY <1>1, <3>2, <3>3 DEF AppendedIsTaken
  <2>3. QED
    BY <2>1, <2>2
<1>9. ResultsAreTrue'
  BY <1>4 DEF ResultsAreTrue
<1>10. QED
  BY <1>5, <1>6, <1>7, <1>8, <1>9 DEF ContractInv

\* the messages of a record batch as they are appended
Appended(r) == [i \in DOMAIN r.messages |-> [event |-> r.messages[i], call |-> r.call]]

LEMMA LandsIn ==
  ASSUME ContractInv, NEW r, RecordsLand(r)
  PROVE  /\ r \in Produce /\ Appended(r) \in Seq(Message)
         /\ Len(Appended(r)) = Len(r.messages) /\ DOMAIN Appended(r) = DOMAIN r.messages
         /\ \E p \in DOMAIN log :
              /\ p = <<r.group, r.part>> /\ log[p] \in Seq(Message)
              /\ Len(log[p] \o Appended(r)) <= MaxAppends
              /\ log' = [log EXCEPT ![p] = log[p] \o Appended(r)]
<1>1. r \in Produce
  BY DEF RecordsLand, ContractInv, Types
<1>2. /\ Appended(r) \in Seq(Message)
      /\ Len(Appended(r)) = Len(r.messages) /\ DOMAIN Appended(r) = DOMAIN r.messages
  <2>1. r.messages \in Seq(Event) /\ r.call \in 1..MaxCalls
    BY <1>1 DEF Produce
  <2>2. PICK n \in Nat : DOMAIN r.messages = 1..n /\ Len(r.messages) = n
    BY <2>1
  <2>3. Appended(r) \in [1..n -> Message]
    BY <2>1, <2>2 DEF Appended, Message
  <2>4. Appended(r) \in Seq(Message)
    BY <2>3
  <2>5. QED
    BY <2>2, <2>3, <2>4
<1>3. extractTopicFromUrl(r.group) = r.group /\ <<r.group, r.part>> \in DOMAIN log
  BY <1>1, TopicsOfUrls DEF Produce, ContractInv, Types
<1> DEFINE p == <<r.group, r.part>>
<1>4. Len(log[p]) + Len(r.messages) <= MaxAppends
      /\ log' = [log EXCEPT ![p] = log[p] \o Appended(r)]
  BY <1>3, Zenon DEF RecordsLand, Appended
<1>5. log[p] \in Seq(Message)
  BY <1>3 DEF ContractInv, Types
<1>6. Len(log[p] \o Appended(r)) <= MaxAppends
  <2> HIDE DEF p
  <2>1. Len(log[p] \o Appended(r)) = Len(log[p]) + Len(Appended(r))
    BY <1>2, <1>5, ConcatProperties
  <2>2. QED
    BY <2>1, <1>2, <1>4
<1>7. QED
  BY <1>1, <1>2, <1>3, <1>4, <1>5, <1>6

\* every message of the log was there or comes from the record batch
LEMMA LogAfterLanding ==
  ASSUME ContractInv, NEW r, RecordsLand(r), NEW q \in DOMAIN log', NEW j \in DOMAIN log'[q]
  PROVE  /\ q \in DOMAIN log
         /\ \/ j \in DOMAIN log[q] /\ log'[q][j] = log[q][j]
            \/ \E i \in DOMAIN r.messages :
                 /\ q = <<r.group, r.part>> /\ j = Len(log[q]) + i
                 /\ log'[q][j] = [event |-> r.messages[i], call |-> r.call]
<1>1. PICK p \in DOMAIN log :
        /\ p = <<r.group, r.part>> /\ log[p] \in Seq(Message)
        /\ log' = [log EXCEPT ![p] = log[p] \o Appended(r)]
  BY LandsIn
<1>2. q \in DOMAIN log
  BY <1>1
<1>3. CASE q # p
  BY <1>1, <1>3
<1>4. CASE q = p
  <2>1. log'[q] = log[q] \o Appended(r) /\ log[q] \in Seq(Message)
    BY <1>1, <1>4
  <2>2. Appended(r) \in Seq(Message) /\ DOMAIN Appended(r) = DOMAIN r.messages
    BY LandsIn
  <2>3. CASE j \in 1..Len(log[q])
    BY <1>2, <2>1, <2>2, <2>3
  <2>4. CASE j \notin 1..Len(log[q])
    <3> DEFINE i == j - Len(log[q])
    <3>1. i \in DOMAIN Appended(r) /\ j = Len(log[q]) + i /\ log'[q][j] = Appended(r)[i]
      BY <2>1, <2>2, <2>4
    <3>2. Appended(r)[i] = [event |-> r.messages[i], call |-> r.call]
      BY <3>1, <2>2 DEF Appended
    <3> HIDE DEF i
    <3>3. QED
      BY <1>1, <1>2, <1>4, <2>2, <3>1, <3>2
  <2>5. QED
    BY <2>3, <2>4
<1>5. QED
  BY <1>3, <1>4

LEMMA LandingKeeps ==
  ASSUME ContractInv, NEW r, RecordsLand(r)
  PROVE  ContractInv'
<1>1. /\ UNCHANGED <<route, publisher, producer, callVars, refused>>
      /\ taken' = taken \cup (asked \cap ToSet(r.messages))
      /\ r \in produce /\ produce' \subseteq produce
  BY DEF RecordsLand
<1>2. asked' = asked /\ Batch' = Batch
  BY <1>1 DEF callVars, asked, Batch
<1>3. r \in Produce
  BY <1>1 DEF ContractInv, Types
<1>4. Types'
  <2>1. PICK p \in DOMAIN log :
          /\ log[p] \in Seq(Message) /\ Len(log[p] \o Appended(r)) <= MaxAppends
          /\ log' = [log EXCEPT ![p] = log[p] \o Appended(r)]
    BY LandsIn
  <2>2. log[p] \o Appended(r) \in Seq(Message)
    BY <2>1, LandsIn
  <2>3. /\ log' \in [Topics \X Partition -> Seq(Message)]
        /\ \A q \in DOMAIN log' : Len(log'[q]) <= MaxAppends
    BY <2>1, <2>2 DEF ContractInv, Types
  <2>4. taken' \subseteq asked'
    BY <1>1, <1>2 DEF ContractInv, Types
  <2>5. QED
    BY <1>1, <1>2, <2>3, <2>4 DEF ContractInv, Types, callVars
<1>5. Between'
  BY <1>1, <1>2 DEF ContractInv, Between, callVars
<1>6. Produced_OfCalls'
  <2>1. publisher = "kafka" /\ publisher' = "kafka" /\ r.call <= Len(batches)
    BY <1>1 DEF ContractInv, Produced_OfCalls
  <2>2. \A s \in produce' : s.call <= Len(batches')
    BY <1>1 DEF ContractInv, Produced_OfCalls, callVars
  <2>3. ASSUME NEW q \in DOMAIN log', NEW j \in DOMAIN log'[q]
        PROVE  log'[q][j].call <= Len(batches')
    <3>1. CASE q \in DOMAIN log /\ j \in DOMAIN log[q] /\ log'[q][j] = log[q][j]
      BY <1>1, <3>1 DEF ContractInv, Produced_OfCalls, callVars
    <3>2. CASE log'[q][j].call = r.call
      BY <1>1, <2>1, <3>2 DEF callVars
    <3>3. QED
      BY <2>3, <3>1, <3>2, LogAfterLanding
  <2>4. QED
    BY <2>1, <2>2, <2>3 DEF Produced_OfCalls
<1>7. AppendedIsTaken'
  <2>1. SUFFICES ASSUME calling
                 PROVE  AppendedIsTaken'
    BY <1>1 DEF AppendedIsTaken, callVars
  <2>2. \A s \in produce' : s.call = Len(batches') => ToSet(s.messages) \subseteq asked'
    BY <1>1, <1>2, <2>1 DEF ContractInv, AppendedIsTaken, callVars
  <2>3. ASSUME NEW q \in DOMAIN log', NEW j \in DOMAIN log'[q],
               log'[q][j].call = Len(batches')
        PROVE  log'[q][j].event \in taken'
    <3>1. CASE q \in DOMAIN log /\ j \in DOMAIN log[q] /\ log'[q][j] = log[q][j]
      BY <1>1, <2>1, <2>3, <3>1 DEF ContractInv, AppendedIsTaken, callVars
    <3>2. ASSUME NEW i \in DOMAIN r.messages,
                 log'[q][j] = [event |-> r.messages[i], call |-> r.call]
          PROVE  log'[q][j].event \in taken'
      <4>1. r.call = Len(batches) /\ log'[q][j].event = r.messages[i]
        BY <1>1, <2>3, <3>2 DEF callVars
      <4>2. r.messages[i] \in ToSet(r.messages)
        BY DEF ToSet
      <4>3. ToSet(r.messages) \subseteq asked
        BY <1>1, <2>1, <4>1 DEF ContractInv, AppendedIsTaken
      <4>4. QED
        BY <1>1, <4>1, <4>2, <4>3
    <3>3. QED
      BY <2>3, <3>1, <3>2, LogAfterLanding
  <2>4. QED
    BY <2>2, <2>3 DEF AppendedIsTaken
<1>8. ResultsAreTrue'
  BY <1>1 DEF ContractInv, ResultsAreTrue, callVars
<1>9. QED
  BY <1>4, <1>5, <1>6, <1>7, <1>8 DEF ContractInv

-----------------------------------------------------------------------------
(* The theorems *)

\* the batches that are published: no event is in one twice
Distinct == {b \in Seq(Event) : \A i, j \in DOMAIN b : b[i] = b[j] => i = j}

\* the steps of Next, in the groups of the lemmas
LEMMA StepsOfNext ==
  ASSUME ContractInv, Next
  PROVE  \/ createPublisher \/ initialize \/ shutdown
         \/ \E batch \in Distinct :
              HttpPublish(batch) \/ KafkaPublish(batch) \/ PublishThrows(batch)
         \/ \E g \in Groups : WebhookTakes(g) \/ WebhookTrickles(g)
         \/ \E g \in Groups : SettlesTruly(g)
         \/ \E r \in produce : RecordsLand(r)
         \/ Returns
<1>1. ASSUME NEW S \in SUBSET Event, NEW batch \in SetToSeqs(S)
      PROVE  batch \in Distinct
  <2>1. IsFiniteSet(S)
    BY FS_Subset, PublishersAssumption
  <2>2. batch \in Seq(S) /\ \A i, j \in DOMAIN batch : batch[i] = batch[j] => i = j
    BY <2>1, SetToSeqsIsSeq
  <2>3. QED
    BY <2>2 DEF Distinct
<1>2. ASSUME NEW g \in Groups,
             \/ AnswersSuccess(g) \/ AnswersEach(g) \/ AnswersFailure(g) \/ RequestBreaks(g)
             \/ SendResolves(g) \/ SendRejects(g)
      PROVE  SettlesTruly(g)
  BY <1>2, AnswersSuccessTruly, AnswersEachTruly, AnswersFailureTruly, RequestBreaksTruly,
     SendResolvesTruly, SendRejectsTruly
<1>3. QED
  BY <1>1, <1>2, Zenon DEF Next

LEMMA ContractInvariant == Spec => []ContractInv
<1>1. Init => ContractInv
  <2> SUFFICES ASSUME Init PROVE ContractInv
    OBVIOUS
  <2>1. /\ batches = <<>> /\ request = <<>> /\ results = <<>> /\ outcome = <<>>
        /\ DOMAIN request = {} /\ DOMAIN results = {} /\ DOMAIN outcome = {}
        /\ ~calling /\ asked = {} /\ Len(batches) = 0
    BY DEF Init, asked
  <2>2. /\ log \in [Topics \X Partition -> Seq(Message)]
        /\ \A p \in DOMAIN log : log[p] = <<>> /\ Len(log[p]) = 0 /\ DOMAIN log[p] = {}
    BY DEF Init
  <2>3. batches \in Seq(Seq(Event)) /\ request \in [DOMAIN request -> RequestState]
    BY <2>1
  <2>4. Types
    <3>1. Len(batches) <= MaxCalls /\ \A p \in DOMAIN log : Len(log[p]) <= MaxAppends
      BY <2>1, <2>2, PublishersAssumption
    <3>2. route \in Route /\ publisher = "none" /\ ~producer /\ producer \in BOOLEAN
          /\ calling \in BOOLEAN /\ taken = {} /\ refused = {} /\ produce = {}
      BY DEF Init
    <3>3. QED
      BY <2>1, <2>2, <2>3, <3>1, <3>2 DEF Types
  <2>5. QED
    BY <2>1, <2>2, <2>4
       DEF Init, ContractInv, Between, Produced_OfCalls, AppendedIsTaken, ResultsAreTrue
<1>2. ContractInv /\ [Next]_vars => ContractInv'
  <2> SUFFICES ASSUME ContractInv, [Next]_vars PROVE ContractInv'
    OBVIOUS
  <2>1. CASE Next
    BY <2>1, StepsOfNext, FactoryKeeps, PublishKeeps, WebhookKeeps, Settled, LandingKeeps,
       ReturnKeeps DEF Distinct
  <2>2. CASE UNCHANGED vars
    BY <2>2 DEF vars, callVars, ContractInv, Types, Between, Produced_OfCalls,
                AppendedIsTaken, ResultsAreTrue, asked, Batch
  <2>3. QED
    BY <2>1, <2>2
<1>3. QED
  BY <1>1, <1>2, PTL DEF Spec

\* Every variable of the publisher model keeps its type, for every set of
\* events, routes and partitions, whichever publisher the factory makes.
THEOREM PublishersTypeCorrect == Spec => []PublishersTypeOK
<1>1. ContractInv => PublishersTypeOK
  <2> SUFFICES ASSUME ContractInv PROVE PublishersTypeOK
    OBVIOUS
  <2>1. asked \subseteq Event
    <3>1. CASE calling
      <4>1. batches \in Seq(Seq(Event)) /\ batches # <<>>
        BY <3>1 DEF ContractInv, Types, Between
      <4>2. Batch \in Seq(Event)
        BY <4>1 DEF Batch, Last
      <4>3. QED
        BY <4>2, ElementsInSet DEF asked
    <3>2. CASE ~calling
      BY <3>2 DEF asked
    <3>3. QED
      BY <3>1, <3>2 DEF ContractInv, Types
  <2>2. \A c \in DOMAIN batches : ToSet(batches[c]) \subseteq Event
    BY ElementsInSet DEF ContractInv, Types
  <2>3. \A r \in produce : r.part \in Partition /\ ToSet(r.messages) \subseteq Event
    BY ElementsInSet DEF ContractInv, Types, Produce
  <2>4. \A p \in DOMAIN log : ToSet(log[p]) \subseteq Message
    BY ElementsInSet DEF ContractInv, Types
  <2>5. QED
    BY <2>1, <2>2, <2>3, <2>4 DEF ContractInv, Types, PublishersTypeOK, RequestState
<1>2. QED
  BY <1>1, ContractInvariant, PTL

\* the step of the contract that each step of a publisher is
LEMMA SettlesAsContract ==
  ASSUME ContractInv, NEW g, SettlesTruly(g)
  PROVE  \E S \in SUBSET Event : Contract!Refuse(S)
<1>1. PICK S \in SUBSET EventsOf(g) : refused' = refused \cup S
  BY DEF SettlesTruly
<1>2. g \in Open /\ CallGoesOn /\ UNCHANGED taken
  BY DEF SettlesTruly
<1>3. asked' = asked /\ asked # {} /\ asked \subseteq Event /\ EventsOf(g) \subseteq asked
  BY <1>2, OutcomeOfOpenCall DEF CallGoesOn, asked, Batch
<1>4. Contract!Refuse(S)
  BY <1>1, <1>2, <1>3 DEF Contract!Refuse, CallGoesOn
<1>5. QED
  BY <1>1, <1>3, <1>4

LEMMA WebhookAsContract ==
  ASSUME ContractInv, NEW g, WebhookTakes(g) \/ WebhookTrickles(g)
  PROVE  \/ \E S \in SUBSET Event : Contract!Take(S)
         \/ UNCHANGED <<asked, taken, refused, outcome>>
<1>1. g \in Open /\ CallGoesOn /\ UNCHANGED refused
  BY DEF WebhookTakes, WebhookTrickles, CallGoesOn
<1>2. asked' = asked /\ asked # {} /\ asked \subseteq Event /\ EventsOf(g) \subseteq asked
  BY <1>1, OutcomeOfOpenCall DEF CallGoesOn, asked, Batch
<1>3. CASE WebhookTakes(g)
  <2>1. PICK S \in SUBSET EventsOf(g) : taken' = taken \cup S
    BY <1>3 DEF WebhookTakes
  <2>2. Contract!Take(S)
    BY <1>1, <1>2, <2>1 DEF Contract!Take, CallGoesOn
  <2>3. QED
    BY <1>2, <2>1, <2>2
<1>4. CASE WebhookTrickles(g)
  BY <1>1, <1>2, <1>4 DEF WebhookTrickles, CallGoesOn
<1>5. QED
  BY <1>3, <1>4

LEMMA PublishAsContract ==
  ASSUME ContractInv, NEW batch \in Seq(Event),
         HttpPublish(batch) \/ KafkaPublish(batch) \/ PublishThrows(batch)
  PROVE  \E S \in SUBSET Event : Contract!Ask(S)
<1>1. Call(batch)
  BY DEF HttpPublish, KafkaPublish, PublishThrows
<1>2. /\ batch # <<>> /\ asked' = ToSet(batch) /\ asked = {} /\ outcome' = <<>>
      /\ taken' = {} /\ refused' = {} /\ taken = {} /\ refused = {}
  BY <1>1, CallStarts
<1>3. ToSet(batch) # {} /\ ToSet(batch) \subseteq Event
  BY <1>2, ElementsInSet, NonEmptyHasElements
<1>4. Contract!Ask(ToSet(batch))
  BY <1>2, <1>3 DEF Contract!Ask
<1>5. QED
  BY <1>3, <1>4

LEMMA LandingAsContract ==
  ASSUME ContractInv, NEW r, RecordsLand(r)
  PROVE  \/ \E S \in SUBSET Event : Contract!Take(S)
         \/ UNCHANGED <<asked, taken, refused, outcome>>
<1> DEFINE S == asked \cap ToSet(r.messages)
<1>1. /\ UNCHANGED <<callVars, refused>>
      /\ taken' = taken \cup S /\ r \in produce
  BY DEF RecordsLand
<1>2. asked' = asked
  BY <1>1 DEF callVars, asked, Batch
<1>3. CASE asked = {}
  BY <1>1, <1>2, <1>3 DEF callVars
<1>4. CASE asked # {}
  <2>1. ToSet(r.messages) \subseteq Event
    BY <1>1, ElementsInSet DEF ContractInv, Types, Produce
  <2>2. S \in SUBSET Event /\ S \subseteq asked
    BY <2>1
  <2> HIDE DEF S
  <2>3. Contract!Take(S)
    BY <1>1, <1>2, <1>4, <2>2 DEF Contract!Take, callVars
  <2>4. QED
    BY <2>2, <2>3
<1>5. QED
  BY <1>3, <1>4

LEMMA ReturnAsContract ==
  ASSUME ContractInv, Returns
  PROVE  Contract!Answer
<1>1. calling /\ ~calling' /\ taken' = {} /\ refused' = {}
  BY DEF Returns
<1>2. asked # {}
  <2>1. batches \in Seq(Seq(Event)) /\ batches # <<>> /\ Batch # <<>>
    BY <1>1 DEF ContractInv, Types, Between
  <2>2. Batch \in Seq(Event)
    BY <2>1 DEF Batch, Last
  <2>3. QED
    BY <1>1, <2>1, <2>2, NonEmptyHasElements DEF asked
<1>3. asked' = {}
  BY <1>1 DEF asked
<1>4. outcome' = [e \in asked |-> IF e \in DOMAIN results THEN results[e] ELSE "retryable"]
  BY DEF Returns
<1>5. outcome' \in [asked -> Contract!Outcome]
  BY <1>4 DEF ContractInv, Types, Outcome, Contract!Outcome
<1>6. \A e \in asked : /\ outcome'[e] = "success" => e \in taken
                       /\ outcome'[e] = "fatal" => e \in refused
  BY <1>4 DEF ContractInv, ResultsAreTrue
<1>7. QED
  BY <1>1, <1>2, <1>3, <1>5, <1>6 DEF Contract!Answer

\* Both publishers implement PublishContract, for every batch and every route:
\* one outcome for each event, success only of what its own destination took,
\* a fatal failure only of what its own destination refused, whichever requests
\* are lost, answered late or sent again.
THEOREM PublishersKeepContract == Spec => KeepsContract
<1>1. Init => Contract!Init
  BY DEF Init, Contract!Init, asked
<1>2. ContractInv /\ [Next]_vars => [Contract!Next]_<<asked, taken, refused, outcome>>
  <2> SUFFICES ASSUME ContractInv, [Next]_vars
               PROVE  [Contract!Next]_<<asked, taken, refused, outcome>>
    OBVIOUS
  <2>1. CASE UNCHANGED vars
    BY <2>1 DEF vars, callVars, asked, Batch
  <2>2. CASE createPublisher \/ initialize \/ shutdown
    <3>1. UNCHANGED <<callVars, taken, refused>>
      BY <2>2 DEF createPublisher, initialize, shutdown
    <3>2. QED
      BY <3>1 DEF callVars, asked, Batch
  <2>3. CASE \E batch \in Distinct :
               HttpPublish(batch) \/ KafkaPublish(batch) \/ PublishThrows(batch)
    BY <2>3, PublishAsContract DEF Contract!Next, Distinct
  <2>4. CASE \E g \in Groups : WebhookTakes(g) \/ WebhookTrickles(g)
    BY <2>4, WebhookAsContract DEF Contract!Next
  <2>5. CASE \E g \in Groups : SettlesTruly(g)
    BY <2>5, SettlesAsContract DEF Contract!Next
  <2>6. CASE \E r \in produce : RecordsLand(r)
    BY <2>6, LandingAsContract DEF Contract!Next
  <2>7. CASE Returns
    BY <2>7, ReturnAsContract DEF Contract!Next
  <2>8. QED
    BY <2>1, <2>2, <2>3, <2>4, <2>5, <2>6, <2>7, StepsOfNext
<1>3. QED
  BY <1>1, <1>2, ContractInvariant, PTL DEF Spec, KeepsContract, Contract!Spec

-----------------------------------------------------------------------------
(* The order of a batch *)

\* events of one aggregate and topic, e before f in the batch of call c
Precedes(e, f, c) ==
  /\ generatePartitionKey(route[e].aggregateId) # NoKey
  /\ route[e].aggregateId = route[f].aggregateId
  /\ extractTopicFromUrl(route[e].url) = extractTopicFromUrl(route[f].url)
  /\ \E a, b \in DOMAIN batches[c] : a < b /\ batches[c][a] = e /\ batches[c][b] = f

\* what precedes a message of a record batch is in it, and in front of it
BatchInOrder(r) ==
  \A j \in DOMAIN r.messages : \A e \in Event :
    Precedes(e, r.messages[j], r.call) => \E i \in 1 .. j - 1 : r.messages[i] = e

LogInOrder ==
  \A p \in DOMAIN log : \A j \in DOMAIN log[p] : \A e \in Event :
    Precedes(e, log[p][j].event, log[p][j].call)
      => \E i \in 1 .. j - 1 : log[p][i] = [event |-> e, call |-> log[p][j].call]

OrderInv == LogInOrder /\ \A r \in produce : BatchInOrder(r)

LEMMA NewBatchInOrder ==
  ASSUME ContractInv, publisher = "kafka", NEW batch \in Distinct, KafkaPublish(batch),
         NEW spread, NEW r \in Produced(batch, spread)
  PROVE  BatchInOrder(r)'
<1>1. PICK d \in ToSet(batch), p \in Partition : r \in RecordBatches(Group(d), p, batch, spread)
  BY DEF Produced
<1>2. PICK m \in Messages(Group(d), p, batch, spread) :
        r = [group |-> Group(d), part |-> p, call |-> Len(batches) + 1, messages |-> m]
  BY <1>1 DEF RecordBatches
<1> DEFINE T == {e \in ToSet(batch) :
                   /\ Group(e) = Group(d)
                   /\ PartOf(generatePartitionKey(route[e].aggregateId), spread[e]) = p}
<1>3. batch \in Seq(Event) /\ ToSet(batch) \subseteq Event
  BY ElementsInSet DEF Distinct
<1>4. T \subseteq Event /\ IsFiniteSet(T)
  <2>1. T \in SUBSET Event
    BY <1>3
  <2> HIDE DEF T
  <2>2. QED
    BY <2>1, FS_Subset, PublishersAssumption
<1>5. /\ m \in SetToSeqs(T)
      /\ \A i, j \in DOMAIN m : \A a, b \in DOMAIN batch :
           i < j /\ m[i] = batch[a] /\ m[j] = batch[b] => a < b
  BY <1>2 DEF InOrder, Messages
<1>6. m \in Seq(T) /\ \A x \in T : \E i \in DOMAIN m : m[i] = x
  <2> HIDE DEF T
  <2>1. QED
    BY <1>4, <1>5, SetToSeqsIsSeq
<1>7. /\ batches'[r.call] = batch /\ r.messages = m /\ UNCHANGED <<route, publisher>>
  <2>1. batches' = Append(batches, batch) /\ batches \in Seq(Seq(Event))
    BY DEF KafkaPublish, Call, ContractInv, Types
  <2>2. QED
    BY <1>2, <1>3, <2>1 DEF KafkaPublish
<1>8. SUFFICES ASSUME NEW j \in DOMAIN m, NEW e \in Event, Precedes(e, m[j], r.call)'
               PROVE  \E i \in 1 .. j - 1 : m[i] = e
  BY <1>7 DEF BatchInOrder
<1>9. PICK a \in DOMAIN batch, b \in DOMAIN batch : a < b /\ batch[a] = e /\ batch[b] = m[j]
  BY <1>7, <1>8 DEF Precedes
<1>10. /\ generatePartitionKey(route[e].aggregateId) # NoKey
       /\ route[e].aggregateId = route[m[j]].aggregateId
       /\ extractTopicFromUrl(route[e].url) = extractTopicFromUrl(route[m[j]].url)
  BY <1>7, <1>8 DEF Precedes
<1>11. e \in T
  <2>1. m[j] \in T
    BY <1>6
  <2>2. e \in ToSet(batch)
    BY <1>9 DEF ToSet
  <2>3. Group(e) = Group(m[j])
    BY <1>10 DEF Group
  <2>4. PartOf(generatePartitionKey(route[e].aggregateId), spread[e])
          = PartOf(generatePartitionKey(route[m[j]].aggregateId), spread[m[j]])
    BY <1>10 DEF PartOf
  <2>5. QED
    BY <2>1, <2>2, <2>3, <2>4
<1>12. PICK i \in DOMAIN m : m[i] = e
  BY <1>6, <1>11
<1> HIDE DEF T
<1>13. i \in Nat /\ j \in Nat /\ i >= 1 /\ a \in Nat /\ b \in Nat
  BY <1>3, <1>6
<1>14. i # j
  BY <1>9, <1>12, <1>13 DEF Distinct
<1>15. ~(j < i)
  BY <1>5, <1>9, <1>12, <1>13
<1>16. QED
  BY <1>12, <1>13, <1>14, <1>15

\* nothing changes about the calls that were made
LEMMA CallsStay ==
  ASSUME ContractInv, UNCHANGED route, NEW c,
         \/ UNCHANGED batches
         \/ /\ c \in 1..Len(batches)
            /\ \E batch \in Seq(Event) : batches' = Append(batches, batch)
  PROVE  \A e, f : Precedes(e, f, c)' <=> Precedes(e, f, c)
<1>1. batches'[c] = batches[c]
  BY DEF ContractInv, Types
<1>2. QED
  BY <1>1 DEF Precedes

LEMMA OrderUnchanged ==
  ASSUME ContractInv, OrderInv, UNCHANGED <<route, batches, produce, log>>
  PROVE  OrderInv'
<1>1. \A c : \A e, f : Precedes(e, f, c)' <=> Precedes(e, f, c)
  BY CallsStay
<1>2. QED
  BY <1>1 DEF OrderInv, LogInOrder, BatchInOrder

LEMMA PublishOrders ==
  ASSUME ContractInv, OrderInv, NEW batch \in Distinct,
         HttpPublish(batch) \/ KafkaPublish(batch) \/ PublishThrows(batch)
  PROVE  OrderInv'
<1>1. CASE HttpPublish(batch)
  BY <1>1 DEF HttpPublish, ContractInv, Produced_OfCalls, OrderInv, LogInOrder
<1>2. CASE ~HttpPublish(batch)
  <2>1. /\ batches' = Append(batches, batch) /\ batch \in Seq(Event)
        /\ publisher = "kafka" /\ UNCHANGED <<route, log>>
    BY <1>2 DEF KafkaPublish, PublishThrows, Call, Distinct
  <2>2. \A c \in 1..Len(batches) : \A e, f : Precedes(e, f, c)' <=> Precedes(e, f, c)
    BY <2>1, CallsStay
  <2>3. LogInOrder'
    <3>1. ASSUME NEW p \in DOMAIN log, NEW j \in DOMAIN log[p]
          PROVE  log[p][j].call \in 1..Len(batches)
      <4>1. log[p][j] \in Message /\ batches \in Seq(Seq(Event))
        BY DEF ContractInv, Types
      <4>2. QED
        BY <4>1 DEF Message, ContractInv, Produced_OfCalls
    <3>2. QED
      BY <2>1, <2>2, <3>1 DEF OrderInv, LogInOrder
  <2>4. ASSUME NEW r \in produce
        PROVE  BatchInOrder(r)'
    <3>1. r.call \in 1..Len(batches)
      <4>1. r \in Produce /\ batches \in Seq(Seq(Event))
        BY DEF ContractInv, Types
      <4>2. QED
        BY <4>1 DEF Produce, ContractInv, Produced_OfCalls
    <3>2. BatchInOrder(r)
      BY DEF OrderInv
    <3>3. QED
      BY <2>2, <3>1, <3>2 DEF BatchInOrder
  <2>5. ASSUME NEW r \in produce', r \notin produce
        PROVE  BatchInOrder(r)'
    <3>1. KafkaPublish(batch)
      BY <1>2, <2>5 DEF PublishThrows
    <3>2. PICK spread \in [ToSet(batch) -> Partition] : r \in Produced(batch, spread)
      BY <2>5, <3>1 DEF KafkaPublish
    <3>3. QED
      BY <2>1, <3>1, <3>2, NewBatchInOrder
  <2>6. QED
    BY <2>3, <2>4, <2>5 DEF OrderInv
<1>3. QED
  BY <1>1, <1>2

LEMMA LandingOrders ==
  ASSUME ContractInv, OrderInv, NEW r, RecordsLand(r)
  PROVE  OrderInv'
<1>1. UNCHANGED <<route, batches>> /\ r \in produce /\ produce' \subseteq produce
  BY DEF RecordsLand, callVars
<1>2. \A c : \A e, f : Precedes(e, f, c)' <=> Precedes(e, f, c)
  BY <1>1, CallsStay
<1>3. \A s \in produce' : BatchInOrder(s)'
  BY <1>1, <1>2 DEF OrderInv, BatchInOrder
<1>4. PICK p \in DOMAIN log :
        /\ p = <<r.group, r.part>> /\ log[p] \in Seq(Message)
        /\ log' = [log EXCEPT ![p] = log[p] \o Appended(r)]
  BY LandsIn
<1>5. /\ Appended(r) \in Seq(Message) /\ DOMAIN Appended(r) = DOMAIN r.messages
      /\ r.messages \in Seq(Event)
  BY LandsIn DEF Produce
<1>6. LogInOrder'
  <2>1. SUFFICES ASSUME NEW q \in DOMAIN log', NEW j \in DOMAIN log'[q], NEW e \in Event,
                        Precedes(e, log'[q][j].event, log'[q][j].call)
                 PROVE  \E i \in 1 .. j - 1 :
                          log'[q][i] = [event |-> e, call |-> log'[q][j].call]
    BY <1>2 DEF LogInOrder
  <2>2. /\ q \in DOMAIN log /\ log[q] \in Seq(Message)
        /\ \A i \in DOMAIN log[q] : i \in DOMAIN log'[q] /\ log'[q][i] = log[q][i]
    <3>1. q \in DOMAIN log /\ log[q] \in Seq(Message)
      BY <1>4 DEF ContractInv, Types
    <3>2. CASE q # p
      BY <1>4, <3>1, <3>2
    <3>3. CASE q = p
      <4>1. log'[q] = log[q] \o Appended(r)
        BY <1>4, <3>3
      <4>2. QED
        BY <1>5, <3>1, <4>1, ConcatProperties
    <3>4. QED
      BY <3>1, <3>2, <3>3
  <2>3. CASE j \in DOMAIN log[q] /\ log'[q][j] = log[q][j]
    <3>1. PICK i \in 1 .. j - 1 : log[q][i] = [event |-> e, call |-> log[q][j].call]
      BY <2>1, <2>2, <2>3 DEF OrderInv, LogInOrder
    <3>2. i \in DOMAIN log[q]
      BY <2>2, <2>3
    <3>3. QED
      BY <2>2, <2>3, <3>1, <3>2
  <2>4. ASSUME NEW k \in DOMAIN r.messages, q = <<r.group, r.part>>, j = Len(log[q]) + k,
               log'[q][j] = [event |-> r.messages[k], call |-> r.call]
        PROVE  \E i \in 1 .. j - 1 : log'[q][i] = [event |-> e, call |-> log'[q][j].call]
    <3>1. BatchInOrder(r)
      BY <1>1 DEF OrderInv
    <3>2. PICK i \in 1 .. k - 1 : r.messages[i] = e
      BY <2>1, <2>4, <3>1 DEF BatchInOrder
    <3>3. i \in DOMAIN r.messages
      BY <1>5, <3>2
    <3>4. log'[q] = log[q] \o Appended(r)
      BY <1>4, <2>4
    <3>5. Len(log[q]) \in Nat /\ i \in 1..Len(Appended(r)) /\ k \in Nat
      BY <1>5, <2>2, <3>3
    <3>6. log'[q][Len(log[q]) + i] = Appended(r)[i]
      BY <1>5, <2>2, <3>4, <3>5, ConcatProperties
    <3>7. Appended(r)[i] = [event |-> e, call |-> r.call]
      BY <3>2, <3>3 DEF Appended
    <3>8. Len(log[q]) + i \in 1 .. j - 1
      BY <2>4, <3>2, <3>5
    <3>9. QED
      BY <2>4, <3>6, <3>7, <3>8
  <2>5. QED
    BY <2>3, <2>4, LogAfterLanding
<1>7. QED
  BY <1>3, <1>6 DEF OrderInv

\* In every partition, and in every call that carried them both, the events of
\* an aggregate appear first in the order of the batch, for every set of events,
\* routes and partitions, whatever is lost, late or sent again.
THEOREM OrderIsKept == Spec => []OrderOfABatch
<1>1. Init => OrderInv
  BY DEF Init, OrderInv, LogInOrder
<1>2. ContractInv /\ OrderInv /\ [Next]_vars => OrderInv'
  <2> SUFFICES ASSUME ContractInv, OrderInv, [Next]_vars PROVE OrderInv'
    OBVIOUS
  <2>1. CASE UNCHANGED <<route, batches, produce, log>>
    BY <2>1, OrderUnchanged
  <2>2. CASE UNCHANGED vars
    BY <2>1, <2>2 DEF vars, callVars
  <2>3. CASE createPublisher \/ initialize \/ shutdown
    BY <2>1, <2>3 DEF createPublisher, initialize, shutdown, callVars
  <2>4. CASE \E batch \in Distinct :
               HttpPublish(batch) \/ KafkaPublish(batch) \/ PublishThrows(batch)
    BY <2>4, PublishOrders
  <2>5. CASE \E g \in Groups : WebhookTakes(g) \/ WebhookTrickles(g) \/ SettlesTruly(g)
    BY <2>1, <2>5 DEF WebhookTakes, WebhookTrickles, SettlesTruly, CallGoesOn
  <2>6. CASE \E r \in produce : RecordsLand(r)
    BY <2>6, LandingOrders
  <2>7. CASE Returns
    BY <2>1, <2>7 DEF Returns
  <2>8. QED
    BY <2>2, <2>3, <2>4, <2>5, <2>6, <2>7, StepsOfNext
<1>3. ContractInv /\ OrderInv => OrderOfABatch
  BY Zenon DEF OrderInv, LogInOrder, Precedes, OrderOfABatch
<1>4. QED
  BY <1>1, <1>2, <1>3, ContractInvariant, PTL DEF Spec

=============================================================================

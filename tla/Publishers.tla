----------------------------- MODULE Publishers -----------------------------
(***************************************************************************)
(* A worker's calls of publisher.publish(), with the HTTP and the Kafka    *)
(* publisher, and the destinations they talk to.                           *)
(*                                                                         *)
(* publish() groups the events of a batch by destination, sends one        *)
(* request per group, all at the same time, and returns the results of all *)
(* of them when the last one is settled.  A request may be lost, before or *)
(* after it had its effect; a produce request may be sent again, or land   *)
(* after kafkajs has given it up; a webhook may answer for each event.     *)
(*                                                                         *)
(* Of a destination it is assumed that it tells the truth: a webhook that  *)
(* answers 2xx has taken every event it does not name as failed.           *)
(***************************************************************************)
EXTENDS Naturals, Sequences, SequencesExt

CONSTANTS
  Event,         \* numbered as they were created
  Route,         \* the url and the aggregateId of each event, to choose from
  Partition,     \* of every topic
  Home,          \* the partition that the partitioner gives to each key
  MaxCalls,      \* bound on the calls of publish()
  MaxAppends     \* bound on the messages in a partition

ASSUME PublishersAssumption ==
  /\ IsFiniteSet(Event)
  /\ MaxCalls \in Nat /\ MaxAppends \in Nat

VARIABLES
  route,       \* the destinationUrl and the aggregateId of each event
  publisher,   \* what the factory has made
  producer,    \* has the Kafka publisher a producer?
  calling,     \* is a call open?
  batches,     \* the argument of each call so far
  request,     \* the state of the request of each group of the open call
  results,     \* the Map that the groups fill
  taken, refused, outcome,   \* as in PublishContract
  produce,     \* produce requests on their way to a partition
  log          \* the messages of each partition of each topic

callVars == <<calling, batches, request, results, outcome>>
vars == <<route, publisher, producer, callVars, taken, refused, produce, log>>

Outcome == {"success", "retryable", "fatal"}
Message == [event : Event, call : 1 .. MaxCalls]

Urls == UNION {{r[e].url : e \in Event} : r \in Route}
NoKey == "no key"

-----------------------------------------------------------------------------
extractTopicFromUrl(url) == [url EXCEPT !.prefix = ""]

generatePartitionKey(aggregateId) ==
  IF aggregateId \in {"null", ""} THEN NoKey ELSE aggregateId

\* Mutant: "kafka://t" and "t" are told apart.
Group_ByUrl(e) == route[e].url

(* What the requests are grouped by: a url as it is written, or a topic.   *)
Group(e) ==
  IF publisher = "kafka" THEN extractTopicFromUrl(route[e].url) ELSE route[e].url

Topics == {extractTopicFromUrl(u) : u \in Urls}
Groups == Urls \cup Topics

Batch == Last(batches)
Open == {g \in DOMAIN request : request[g] # "settled"}

EventsOf(g) == {e \in ToSet(Batch) : Group(e) = g}

asked == IF calling THEN ToSet(Batch) ELSE {}

PublishersTypeOK ==
  /\ route \in Route
  /\ publisher \in {"none", "http", "kafka", "error"}
  /\ producer \in BOOLEAN /\ calling \in BOOLEAN
  /\ Len(batches) <= MaxCalls /\ \A c \in DOMAIN batches : ToSet(batches[c]) \subseteq Event
  /\ DOMAIN request \subseteq Groups
  /\ \A g \in DOMAIN request : request[g] \in {"sent", "handled", "trickling", "settled"}
  /\ DOMAIN results \subseteq asked /\ \A e \in DOMAIN results : results[e] \in Outcome
  /\ DOMAIN outcome \subseteq Event /\ \A e \in DOMAIN outcome : outcome[e] \in Outcome
  /\ taken \subseteq Event /\ refused \subseteq Event
  /\ \A r \in produce : r.part \in Partition /\ ToSet(r.messages) \subseteq Event
  /\ \A p \in DOMAIN log : ToSet(log[p]) \subseteq Message /\ Len(log[p]) <= MaxAppends

Init ==
  /\ route \in Route
  /\ publisher = "none" /\ producer = FALSE
  /\ calling = FALSE
  /\ batches = <<>> /\ request = <<>> /\ results = <<>> /\ outcome = <<>>
  /\ taken = {} /\ refused = {}
  /\ produce = {}
  /\ log = [p \in Topics \X Partition |-> <<>>]

-----------------------------------------------------------------------------
(* HTTP unless Kafka is asked for, which needs brokers.                    *)
createPublisher ==
  /\ publisher = "none"
  /\ \E type \in {"unset", "http", "kafka"}, brokers \in {"unset", "given"} :
       publisher' = IF type # "kafka" THEN "http"
                    ELSE IF brokers = "given" THEN "kafka" ELSE "error"
  /\ UNCHANGED <<route, producer, callVars, taken, refused, produce, log>>

(* connect() succeeds; until then, and after shutdown(), there is no       *)
(* producer.                                                               *)
initialize ==
  /\ publisher = "kafka" /\ ~producer /\ batches = <<>>
  /\ producer' = TRUE
  /\ UNCHANGED <<route, publisher, callVars, taken, refused, produce, log>>

shutdown ==
  /\ producer /\ batches # <<>>
  /\ producer' = FALSE
  /\ UNCHANGED <<route, publisher, callVars, taken, refused, produce, log>>

(* The worker calls publish() with the rows in the order the claim has     *)
(* returned them, which is not always that of created_at.  The calls of    *)
(* the HTTP publisher leave nothing behind: only the last one is kept.     *)
Call(batch) ==
  /\ ~calling /\ calling' = TRUE
  /\ batch # <<>>
  /\ batches' = IF publisher = "http" THEN <<batch>> ELSE Append(batches, batch)
  /\ Len(batches') <= MaxCalls
  /\ outcome' = <<>>
  /\ UNCHANGED <<taken, refused, results>>

HttpPublish(batch) ==
  /\ publisher = "http"
  /\ Call(batch)
  /\ request' = [g \in {Group(e) : e \in ToSet(batch)} |-> "sent"]
  /\ UNCHANGED <<route, publisher, producer, produce, log>>

PartOf(key, spread) == IF key = NoKey THEN spread ELSE Home[key]

(* The one sequence of the events of S in which they are as in the batch.  *)
InOrder(S, batch) ==
  {m \in SetToSeqs(S) :
     \A i, j \in DOMAIN m : \A a, b \in DOMAIN batch :
       i < j /\ m[i] = batch[a] /\ m[j] = batch[b] => a < b}

(* The keyed messages of a group go to the partition of their key, the     *)
(* others are spread; those for one partition are one record batch.        *)
Messages(g, p, batch, spread) ==
  InOrder({e \in ToSet(batch) :
             Group(e) = g /\ PartOf(generatePartitionKey(route[e].aggregateId), spread[e]) = p},
          batch)

RecordBatches(g, p, batch, spread) ==
  {[group |-> g, part |-> p, call |-> Len(batches) + 1, messages |-> m] :
     m \in Messages(g, p, batch, spread) \ {<<>>}}

Produced(batch, spread) ==
  UNION {RecordBatches(Group(e), p, batch, spread) : e \in ToSet(batch), p \in Partition}

KafkaPublish(batch) ==
  /\ publisher = "kafka" /\ producer
  /\ Call(batch)
  /\ request' = [g \in {Group(e) : e \in ToSet(batch)} |-> "sent"]
  /\ \E spread \in [ToSet(batch) -> Partition] :
       produce' = produce \cup Produced(batch, spread)
  /\ UNCHANGED <<route, publisher, producer, log>>

(* Without a producer publish() throws, the tracing wrapper throws it on,  *)
(* and the worker takes every event for a retryable failure.               *)
PublishThrows(batch) ==
  /\ publisher = "kafka" /\ ~producer
  /\ Call(batch) /\ request' = <<>>
  /\ UNCHANGED <<route, publisher, producer, produce, log>>

-----------------------------------------------------------------------------
(* The results of a group go into the Map; its request is settled.         *)
Settle(g, new) ==
  /\ results' = [e \in DOMAIN new \cup DOMAIN results |->
                    IF e \in DOMAIN new THEN new[e] ELSE results[e]]
  /\ request' = [request EXCEPT ![g] = "settled"]

buildUniformResults(g, o) == [e \in EventsOf(g) |-> o]

\* Mutant: a failure is final unless it is said to be retryable.
parseIndividualResults_FinalByDefault(g, named) ==
  [e \in EventsOf(g) |->
     IF e \notin DOMAIN named THEN "success"
     ELSE CASE named[e] = "success" -> "success"
            [] named[e] \in {"not retryable", "failed"} -> "fatal"
            [] OTHER -> "retryable"]

(* An event that the answer does not name has succeeded; a failure is      *)
(* retryable unless it says otherwise.                                     *)
parseIndividualResults(g, named) ==
  [e \in EventsOf(g) |->
     IF e \notin DOMAIN named THEN "success"
     ELSE CASE named[e] = "success" -> "success"
            [] named[e] = "not retryable" -> "fatal"
            [] OTHER -> "retryable"]

(* The webhook has the request and takes some of its events.               *)
WebhookTakes(g) ==
  /\ publisher = "http" /\ g \in Open /\ request[g] = "sent"
  /\ request' = [request EXCEPT ![g] = "handled"]
  /\ \E S \in SUBSET EventsOf(g) : taken' = taken \cup S
  /\ UNCHANGED <<route, publisher, producer, calling, batches, results, outcome, refused, produce, log>>

(* The head of the answer comes in time, and then one piece of its body    *)
(* after the other, each before bodyTimeout.                               *)
WebhookTrickles(g) ==
  /\ publisher = "http" /\ g \in Open /\ request[g] = "handled"
  /\ request' = [request EXCEPT ![g] = "trickling"]
  /\ UNCHANGED <<route, publisher, producer, calling, batches, results, outcome, taken, refused, produce, log>>

Answering(g) ==
  publisher = "http" /\ g \in Open /\ request[g] \in {"handled", "trickling"}

(* 2xx, with a body that has no results.                                   *)
AnswersSuccess(g) ==
  /\ Answering(g)
  /\ EventsOf(g) \subseteq taken
  /\ Settle(g, buildUniformResults(g, "success"))
  /\ UNCHANGED <<route, publisher, producer, calling, batches, outcome, taken, refused, produce, log>>

(* 2xx, with results for some of the events.                               *)
AnswersEach(g) ==
  /\ Answering(g)
  /\ \E S \in SUBSET EventsOf(g) :
       \E named \in [S -> {"success", "retryable", "not retryable", "failed"}] :
         /\ \A e \in EventsOf(g) \ taken : e \in S /\ named[e] # "success"
         /\ Settle(g, parseIndividualResults(g, named))
         /\ refused' = refused \cup {e \in S : named[e] = "not retryable"}
  /\ UNCHANGED <<route, publisher, producer, calling, batches, outcome, taken, produce, log>>

(* Any other status: the webhook refuses the events unless it is an error  *)
(* of its own, or busy.                                                    *)
AnswersFailure(g) ==
  /\ Answering(g)
  /\ \E status \in {"5xx", "408 or 429", "another"} :
       /\ Settle(g, buildUniformResults(g, IF status = "another" THEN "fatal" ELSE "retryable"))
       /\ refused' = IF status = "another"
                     THEN refused \cup EventsOf(g) ELSE refused
  /\ UNCHANGED <<route, publisher, producer, calling, batches, outcome, taken, produce, log>>

\* Mutant: no headersTimeout: what was received is waited for.
RequestBreaks_NoTimeout(g) ==
  /\ publisher = "http" /\ g \in Open /\ request[g] = "sent"
  /\ Settle(g, buildUniformResults(g, "retryable"))
  /\ UNCHANGED <<route, publisher, producer, calling, batches, outcome, taken, refused, produce, log>>

(* No connection, a connection that breaks, or no answer in time, whatever *)
(* the webhook did with the request.                                       *)
RequestBreaks(g) ==
  /\ publisher = "http" /\ g \in Open
  /\ Settle(g, buildUniformResults(g, "retryable"))
  /\ UNCHANGED <<route, publisher, producer, calling, batches, outcome, taken, refused, produce, log>>

-----------------------------------------------------------------------------
(* A record batch is appended to its partition, maybe after send() has     *)
(* given it up, maybe again because the acknowledgement was lost.          *)
RecordsLand(r) ==
  /\ r \in produce
  /\ LET p == <<extractTopicFromUrl(r.group), r.part>> IN
       /\ Len(log[p]) + Len(r.messages) <= MaxAppends
       /\ log' = [log EXCEPT ![p] = @ \o [i \in DOMAIN r.messages |->
                                         [event |-> r.messages[i], call |-> r.call]]]
  /\ \/ produce' = produce \ {r}
     \/ r.call = Len(batches) /\ r.group \in Open /\ UNCHANGED produce
  /\ taken' = taken \cup (asked \cap ToSet(r.messages))
  /\ UNCHANGED <<route, publisher, producer, callVars, refused>>

(* Every message of the group has been appended in this call.              *)
Sent(g) ==
  \A e \in EventsOf(g) : \E p \in Partition :
    [event |-> e, call |-> Len(batches)] \in ToSet(log[<<extractTopicFromUrl(g), p>>])

SendResolves(g) ==
  /\ publisher = "kafka" /\ g \in Open
  /\ Sent(g)
  /\ Settle(g, buildUniformResults(g, "success"))
  /\ UNCHANGED <<route, publisher, producer, calling, batches, outcome, taken, refused, produce, log>>

isRetryableKafkaError(error) == error # "permanent"

(* One failed partition fails the group, with what the others appended.    *)
SendRejects(g) ==
  /\ publisher = "kafka" /\ g \in Open
  /\ \E error \in {"permanent", "transient"} :
       /\ Settle(g, buildUniformResults(g,
            IF isRetryableKafkaError(error) THEN "retryable" ELSE "fatal"))
       /\ refused' = IF error = "permanent"
                     THEN refused \cup EventsOf(g) ELSE refused
  /\ UNCHANGED <<route, publisher, producer, calling, batches, outcome, taken, produce, log>>

-----------------------------------------------------------------------------
\* Mutant: the Map outlives the call.
Returns_KeepsMap ==
  /\ calling /\ Open = {}
  /\ calling' = FALSE
  /\ outcome' = [e \in asked |-> IF e \in DOMAIN results THEN results[e] ELSE "retryable"]
  /\ request' = <<>> /\ taken' = {} /\ refused' = {}
  /\ UNCHANGED <<route, publisher, producer, batches, results, produce, log>>

(* With the last group settled publish() returns, and the worker reads the *)
(* result of each event; one that has none is a retryable failure.         *)
Returns ==
  /\ calling /\ Open = {}
  /\ calling' = FALSE
  /\ outcome' = [e \in asked |-> IF e \in DOMAIN results THEN results[e] ELSE "retryable"]
  /\ request' = <<>> /\ results' = <<>> /\ taken' = {} /\ refused' = {}
  /\ UNCHANGED <<route, publisher, producer, batches, produce, log>>

Next ==
  \/ createPublisher \/ initialize \/ shutdown
  \/ \E S \in SUBSET Event : \E batch \in SetToSeqs(S) :
       HttpPublish(batch) \/ KafkaPublish(batch) \/ PublishThrows(batch)
  \/ \E g \in Groups :
       \/ WebhookTakes(g) \/ WebhookTrickles(g)
       \/ AnswersSuccess(g) \/ AnswersEach(g) \/ AnswersFailure(g) \/ RequestBreaks(g)
       \/ SendResolves(g) \/ SendRejects(g)
  \/ \E r \in produce : RecordsLand(r)
  \/ Returns

Spec == Init /\ [][Next]_vars

(* headersTimeout, bodyTimeout and kafkajs's bounded retries end every     *)
(* request, except one whose answer keeps trickling in.                    *)
TimesOut(g) ==
  \/ g \in DOMAIN request /\ request[g] # "trickling" /\ RequestBreaks(g)
  \/ SendRejects(g)

FairSpec ==
  /\ Spec
  /\ \A g \in Groups : WF_vars(TimesOut(g))
  /\ WF_vars(Returns)

-----------------------------------------------------------------------------
Contract == INSTANCE PublishContract

(* Both publishers keep to what the worker relies on: one outcome for each *)
(* event of a batch, success only of what its own destination took,        *)
(* dead-lettering only of what its own destination refused, whatever       *)
(* happens to the requests of the other destinations of the batch.         *)
KeepsContract == Contract!Spec

(* In each partition, and in each call that carried them both, the events  *)
(* of an aggregate appear first in the order of the batch, under resends   *)
(* and late produce requests and with either spelling of the topic.  (The  *)
(* order of a batch is not that of creation, and an event that is retried  *)
(* is overtaken by younger ones.)                                          *)
OrderOfABatch ==
  \A p \in DOMAIN log : \A j \in DOMAIN log[p] : \A e \in Event :
    LET later == log[p][j]
        carried == batches[later.call]
    IN /\ generatePartitionKey(route[e].aggregateId) # NoKey
       /\ route[e].aggregateId = route[later.event].aggregateId
       /\ extractTopicFromUrl(route[e].url) = extractTopicFromUrl(route[later.event].url)
       /\ \E a, b \in DOMAIN carried : a < b /\ carried[a] = e /\ carried[b] = later.event
       => \E i \in 1 .. j - 1 : log[p][i] = [event |-> e, call |-> later.call]

(* A call returns although destinations do not answer, unless one lets its *)
(* answer trickle.                                                         *)
CallsReturn ==
  calling ~> ~calling \/ \E g \in DOMAIN request : request[g] = "trickling"
=============================================================================

----------------------------- MODULE KeyedOutbox -----------------------------
(***************************************************************************)
(* What publishing with idempotency keys promises, with no transactions,   *)
(* locks or statements: a transaction publishes all of its events in one   *)
(* step, which tells the application an event for each call.  A key has at *)
(* most one event that is not delivered, and a call with the key of such   *)
(* an event is told that event.  A delivered event gives its key back.     *)
(***************************************************************************)
CONSTANTS Id, Key, NoKey

VARIABLES
  stage,     \* where each event is in its life, as in EventDelivery
  key,       \* the idempotency key of each event, or NoKey
  told       \* the pairs of event and key that applications have been told

Answer == [id : Id, key : Key \cup {NoKey}]

Open(i) == stage[i] \in {"queued", "dead"}

OneOpenEventPerKey ==
  \A i, j \in Id : Open(i) /\ Open(j) /\ key[i] = key[j] /\ key[i] # NoKey => i = j

Init ==
  /\ stage = [i \in Id |-> "absent"]
  /\ key = [i \in Id |-> NoKey]
  /\ told = {}

\* A transaction is told the answers of A: new events, or open ones with the
\* same key.  Nothing else is new.
Publish(A) ==
  /\ told' = told \cup A
  /\ \A a \in A :
       stage[a.id] # "absent" => Open(a.id) /\ key[a.id] = a.key /\ a.key # NoKey
  /\ \A i \in Id :
       IF \E a \in A : a.id = i
         THEN /\ stage'[i] = IF stage[i] = "absent" THEN "queued" ELSE stage[i]
              /\ \A a \in A : a.id = i => key'[i] = a.key
         ELSE stage'[i] = stage[i] /\ key'[i] = key[i]
  /\ OneOpenEventPerKey'

\* what becomes of an event afterwards
Move(i, from, to) ==
  /\ stage[i] = from
  /\ stage' = [stage EXCEPT ![i] = to]
  /\ UNCHANGED <<key, told>>

Change(i) ==
  Move(i, "queued", "delivered") \/ Move(i, "queued", "dead") \/ Move(i, "dead", "queued")

\* delivered events forget their keys
Release(S) ==
  /\ \A i \in S : stage[i] = "delivered"
  /\ key' = [i \in Id |-> IF i \in S THEN NoKey ELSE key[i]]
  /\ UNCHANGED <<stage, told>>

Next ==
  \/ \E i \in Id : Change(i)
  \/ \E S \in SUBSET Id : Release(S)
  \/ \E A \in SUBSET Answer : Publish(A)

Spec == Init /\ [][Next]_<<stage, key, told>>

=============================================================================

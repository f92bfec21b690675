--------------------------- MODULE PublishContract ---------------------------
(***************************************************************************)
(* What the worker relies on when it calls publisher.publish(events): the  *)
(* call has one outcome for each event, success only of an event that its  *)
(* destination has taken during the call, and a fatal failure, which dead- *)
(* letters the event at once, only of one that the destination refused.    *)
(* A retryable failure may hide an event that was taken.                   *)
(***************************************************************************)
CONSTANT Event

VARIABLES
  asked,     \* the events of the open call, none between calls
  taken,     \* those of them that their destination has taken
  refused,   \* those that it has refused for good
  outcome    \* the outcomes of the last call, once it has returned

Outcome == {"success", "retryable", "fatal"}

Init == asked = {} /\ taken = {} /\ refused = {} /\ outcome = <<>>

Ask(S) ==
  /\ asked = {} /\ S # {}
  /\ asked' = S /\ outcome' = <<>>
  /\ UNCHANGED <<taken, refused>>

Take(S) ==
  /\ asked # {} /\ S \subseteq asked
  /\ taken' = taken \cup S
  /\ UNCHANGED <<asked, refused, outcome>>

Refuse(S) ==
  /\ asked # {} /\ S \subseteq asked
  /\ refused' = refused \cup S
  /\ UNCHANGED <<asked, taken, outcome>>

Answer ==
  /\ asked # {}
  /\ outcome' \in [asked -> Outcome]
  /\ \A e \in asked :
       /\ outcome'[e] = "success" => e \in taken
       /\ outcome'[e] = "fatal" => e \in refused
  /\ asked' = {} /\ taken' = {} /\ refused' = {}

Next == Answer \/ \E S \in SUBSET Event : Ask(S) \/ Take(S) \/ Refuse(S)

Spec == Init /\ [][Next]_<<asked, taken, refused, outcome>>
=============================================================================

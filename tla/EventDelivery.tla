---------------------------- MODULE EventDelivery ----------------------------
(***************************************************************************)
(* What the outbox promises for an event, with no workers, claims, retries *)
(* or statements: once queued it stays queued until it ends as delivered,  *)
(* which it may only when a destination has taken it, or as dead; a dead   *)
(* event may be queued again, a delivered one never is.  The destination   *)
(* may take a queued event any number of times (at-least-once delivery).   *)
(***************************************************************************)
CONSTANT Event

VARIABLES
  stage,     \* where each event is in its life
  taken      \* events that a destination has taken

Stage == {"absent", "queued", "delivered", "dead"}

Init ==
  /\ stage = [e \in Event |-> "absent"]
  /\ taken = {}

\* the events of S, all in stage `from`, go to stage `to` together
Move(S, from, to) ==
  /\ \A e \in S : stage[e] = from
  /\ stage' = [e \in Event |-> IF e \in S THEN to ELSE stage[e]]
  /\ UNCHANGED taken

Enqueue(e) == Move({e}, "absent", "queued")

Take(e) ==
  /\ stage[e] = "queued"
  /\ taken' = taken \cup {e}
  /\ UNCHANGED stage

Complete(S) == S \subseteq taken /\ Move(S, "queued", "delivered")

GiveUp(S) == Move(S, "queued", "dead")

Requeue(S) == Move(S, "dead", "queued")

Next ==
  \/ \E e \in Event : Enqueue(e) \/ Take(e)
  \/ \E S \in SUBSET Event : Complete(S) \/ GiveUp(S) \/ Requeue(S)

Spec == Init /\ [][Next]_<<stage, taken>>

=============================================================================

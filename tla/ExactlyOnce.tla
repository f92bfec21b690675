----------------------------- MODULE ExactlyOnce -----------------------------
(***************************************************************************)
(* What an inbox promises: a message that is handled has its business      *)
(* effect together with the record of it, once; a message flagged as       *)
(* failed has none and is never looked at again.  Only a record that is    *)
(* forgotten lets its message in a second time.                            *)
(***************************************************************************)
EXTENDS Naturals

CONSTANT Message

VARIABLES
  fate,      \* what is recorded of each message
  effects    \* how many times its effect has been applied

Init ==
  /\ fate = [m \in Message |-> "new"]
  /\ effects = [m \in Message |-> 0]

\* a transaction handles the messages of H and flags those of F
Settle(H, F) ==
  /\ H \cap F = {}
  /\ \A m \in H \cup F : fate[m] = "new"
  /\ fate' = [m \in Message |-> IF m \in H THEN "handled"
                                ELSE IF m \in F THEN "flagged" ELSE fate[m]]
  /\ effects' = [m \in Message |-> IF m \in H THEN effects[m] + 1 ELSE effects[m]]

Forget(S) ==
  /\ \A m \in S : fate[m] = "handled"
  /\ fate' = [m \in Message |-> IF m \in S THEN "new" ELSE fate[m]]
  /\ UNCHANGED effects

Next ==
  \/ \E H, F \in SUBSET Message : Settle(H, F)
  \/ \E S \in SUBSET Message : Forget(S)

Spec == Init /\ [][Next]_<<fate, effects>>

=============================================================================

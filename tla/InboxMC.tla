------------------------------ MODULE InboxMC ------------------------------
(* Instances of Inbox for TLC. *)
EXTENDS Inbox, TLC

CONSTANTS c1, c2, m1, m2

Symmetry == Permutations(Consumer) \cup Permutations(Message)

ConsumerSymmetry == Permutations(Consumer)

=============================================================================

----------------------------- MODULE OutboxPgMC -----------------------------
(* Instances of OutboxPg for TLC. *)
EXTENDS OutboxPg, TLC

CONSTANTS w1, w2

\* rows published with the same max_retries
MCRowMax1 == [e \in Event |-> 1]
MCRowMax2 == [e \in Event |-> 2]

Symmetry == Permutations(Worker)

=============================================================================

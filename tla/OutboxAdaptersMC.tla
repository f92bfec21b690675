--------------------------- MODULE OutboxAdaptersMC ---------------------------
(* Instances of OutboxAdapters for TLC. *)
EXTENDS OutboxAdapters

CONSTANTS w1, w2, m1

\* rows published with different max_retries
MCRowMaxMixed == [e \in Event |-> IF e = 1 THEN 1 ELSE 3]
=============================================================================

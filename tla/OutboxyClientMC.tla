--------------------------- MODULE OutboxyClientMC ---------------------------
(* Instances of OutboxyClient for TLC. *)
EXTENDS OutboxyClient

CONSTANTS c1, c2, k1, k2

=============================================================================

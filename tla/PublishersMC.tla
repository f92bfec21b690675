---------------------------- MODULE PublishersMC ----------------------------
(***************************************************************************)
(* Two events, two partitions, two calls.  The routes have both          *)
(* spellings of a topic, two topics, an aggregate with two events, and     *)
(* events without a key.                                                   *)
(***************************************************************************)
EXTENDS Publishers

To(prefix, name, aggregate) ==
  [url |-> [prefix |-> prefix, name |-> name], aggregateId |-> aggregate]

MCHome == [a |-> 1]

MCRoute ==
  { << To("kafka://", "t", "a"), To("", "t", "a") >>,
    << To("", "t", ""), To("kafka://", "t", "null") >>,
    << To("", "t", "a"), To("", "u", "a") >> }
=============================================================================

------------------------- MODULE MCStreamProcessor -------------------------
(* A partition with messages of every kind, two sinks and dead letter sinks. *)
EXTENDS StreamProcessor, TLC

CONSTANTS s1, s2, l1, l2

AllKinds   == <<"plain", "poison", "garbled", "filtered", "plain", "empty">>
Parseable  == <<"plain", "filtered", "plain", "poison", "plain">>
OneGarbled == <<"plain", "garbled", "plain">>
AllPlain   == <<"plain", "plain", "plain">>

Symmetric == Permutations(Sinks) \cup Permutations(DeadLetters)
=============================================================================

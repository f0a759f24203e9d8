---------------------------- MODULE MCAgencyOrder ----------------------------
(* One vehicle that is registered; a point of telemetry, or two against    *)
(* the order of their timestamps.                                          *)
EXTENDS AgencyOrder, TLC

CONSTANTS d1

OneDevice  == {d1}
OneList    == {<<"off_hours">>}
Batches2   == {<<1>>, <<2, 1>>}

Symmetric == Permutations(Requests)
=============================================================================

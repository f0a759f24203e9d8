----------------------- MODULE MCGeographyLifecycle -----------------------
(* Two geographies, the first already drafted, and the requests of the     *)
(* configuration racing on them.                                           *)
EXTENDS GeographyLifecycle, TLC

CONSTANTS g1, g2

Drafted == {g1}
Symmetric == Permutations(Requests)
=============================================================================

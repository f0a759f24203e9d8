-------------------------- MODULE MCComplianceCount --------------------------
(* Two rules over three events, of which two may be of one vehicle.        *)
EXTENDS ComplianceCount

CONSTANTS v1, v2, v3

MCVehicles == {v1, v2, v3}

MCBounds == {b \in [min : {0, 1, 2}, max : {0, 1, 3}] : b.min <= b.max}

MCEventLists == {<<v1, v2, v3>>, <<v1, v2, v1>>}

=============================================================================

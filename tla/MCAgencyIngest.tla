--------------------------- MODULE MCAgencyIngest ---------------------------
(* One or two vehicles, the events and the telemetry batches of the runs.  *)
EXTENDS AgencyIngest, TLC

CONSTANTS d1, d2

OneDevice == {d1}

(* Event types: of one element and of two, and the last event.             *)
Lengths  == {<<"off_hours">>, <<"trip_end", "trip_start">>}
Three    == {<<"off_hours">>, <<"trip_end", "trip_start">>, <<"decommissioned">>}
OneList  == {<<"off_hours">>}
LastEvents == {<<"off_hours">>, <<"decommissioned">>}

(* Batches: a point each, and one against the order of its timestamps.     *)
OnePoint   == {<<1>>}
Points2    == {<<1>>, <<2>>}
Descending == Points2 \cup {<<2, 1>>}

Symmetric == Permutations(Requests)
=============================================================================

--------------------------- MODULE MCServiceProcess ---------------------------
(* Two services in a process.                                              *)
EXTENDS ServiceProcess, TLC

CONSTANTS a, b

Symmetric == Permutations(Services)
=============================================================================

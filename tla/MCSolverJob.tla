------------------------------- MODULE MCSolverJob -------------------------------
(* An instance of SolverJob for TLC: three intents for a worker of one job at a time. *)
EXTENDS SolverJob

CONSTANTS i1, i2, i3
=============================================================================

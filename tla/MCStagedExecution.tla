--------------------------- MODULE MCStagedExecution ---------------------------
(* An instance of StagedExecution for TLC: two stages on X Layer. *)
EXTENDS StagedExecution

CONSTANTS t1, null

OneChain == <<196, 196>>
=============================================================================

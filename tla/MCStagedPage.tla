------------------------------ MODULE MCStagedPage ------------------------------
(* Instances of StagedPage for TLC. *)
EXTENDS StagedPage

CONSTANTS t1, null

Bridged == <<1, 196>>
=============================================================================

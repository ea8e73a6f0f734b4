-------------------------- MODULE MCProgramExecution --------------------------
(* Instances of ProgramExecution for TLC. *)
EXTENDS ProgramExecution

CONSTANTS q1, s1, s2, t1, t2, null

\* A batch of s1's may be followed by an atomic program, of its own or of s2.
MixedLanes == {x \in Offers : x[1] = s2 \/ x[2] = 2}
OnlyBatches == {}
=============================================================================

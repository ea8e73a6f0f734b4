--------------------------- MODULE MCDecisionIntake ---------------------------
(* Instances of DecisionIntake for TLC. *)
EXTENDS DecisionIntake

CONSTANTS q1, q2, s1, s2, null

\* A policy with an objective has one for every revision, and one without has none.
EveryOffer == Offers
=============================================================================

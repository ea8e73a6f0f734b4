----------------------------- MODULE MCRiskControls -----------------------------
(* An instance of RiskControls for TLC: programs under limits nobody changes. *)
EXTENDS RiskControls

CONSTANTS w1, v1

OneLimit == {[route |-> 2, wallet |-> 2, protocol |-> 3]}
ProgramsOnly == {[calls |-> 0, programs |-> 3, tick |-> 5]}
=============================================================================

------------------------------- MODULE MCOutside -------------------------------
(* What runs outside the exchange, for TLC: the stages in the owner's wallet, the *)
(* contracts, the worker of a solver and the replay service.  They share no state: *)
(* a behaviour is one of a single component ("part").                             *)
EXTENDS StagedPage, SolverJob, RiskControls, ReplayCapacity, TLC

CONSTANTS null, x1, x2, y1, y2, Parts

Narrow == [route |-> 1, wallet |-> 1, protocol |-> 2]
Wide == [route |-> 2, wallet |-> 2, protocol |-> 3]
TwoLimits == {Narrow, Wide}

\* Many calls of the owner, or many programs.
ManyCalls == [calls |-> 3, programs |-> 0, tick |-> 4]
ManyPrograms == [calls |-> 1, programs |-> 3, tick |-> 5]
CallsOrPrograms == {ManyCalls, ManyPrograms}

\* Tabs, jobs and wallets are interchangeable, and so are the contracts' verifiers.
SlotSymmetry == Permutations({x1, x2}) \cup Permutations({y1, y2})

\* A stage on Ethereum and one on X Layer; one kind of mishap happens, and calls die but
\* in a reorganisation.
TwoChains == <<1, 196>>
OneMishap == {{"abort", "divert"}, {"abort", "redeliver"}, {"reorganise"}, {"abort", "revoke"}}

VARIABLE part

OutsideInit ==
  /\ part \in Parts
  /\ PageInit /\ WorkerInit /\ RiskInit /\ CapacityInit
  /\ part # "risk" => /\ bound = ManyPrograms /\ config.limits = Narrow /\ config.verifier = y1
                      /\ ~config.open /\ config.paused /\ config.allowed = {}

OutsideNext ==
  /\ part' = part
  /\ IF part = "staged" THEN Next /\ UNCHANGED <<shown, todo>> ELSE UNCHANGED pageVars
  /\ IF part = "worker" THEN WorkerNext ELSE UNCHANGED workerVars
  /\ IF part = "risk" THEN RiskNext ELSE UNCHANGED riskVars
  /\ IF part = "replay" THEN CapacityNext ELSE UNCHANGED capacityVars

OutsideSpec ==
  OutsideInit /\ [][OutsideNext]_<<part, pageVars, workerVars, riskVars, capacityVars>>
=============================================================================

------------------------------ MODULE HouseSolver ------------------------------
(***************************************************************************)
(* The platform's own solver on a general-asset intent                     *)
(* (lib/orchestrator/run-general-asset-solver): a publication first builds *)
(* and verifies a program, then creates the intent and stores the program  *)
(* as revision 1 of the house, one repository call after the other.  Every *)
(* call is one action, and the house is registered with its run.  A        *)
(* publication may be posted twice, any call may throw, and the process    *)
(* may die at any await.                                                   *)
(***************************************************************************)
EXTENDS ExchangeStore

CONSTANTS
  House,         \* cobiaCodingAgentProfile
  Publications,  \* bound on the requests that publish the intent
  Blocks         \* blocks a program may be verified at

ASSUME HouseAssumption == House \in Solvers /\ "none" \notin Blocks

VARIABLES
  house,      \* each publication: its next await and what it has verified
  runBlock,   \* the block of the house's stored run
  artifacts   \* whether every artifact of its submission is stored

houseVars == <<house, runBlock, artifacts>>
houseStore == <<storeVars, houseVars>>

Solution == <<House, 1>>
AtRest == [at |-> "rest", until |-> 0, block |-> "none", owns |-> FALSE]

HouseInit ==
  /\ house = [h \in Publications |-> AtRest]
  /\ runBlock = "none" /\ artifacts = FALSE

\* Where the three looks at the verification's window lead.
AfterWindow == [window1 |-> "insert", window2 |-> "mark", window3 |-> "attest"]
Tried == DOMAIN AfterWindow \cup {"insert", "artifacts", "mark", "attest", "complete"}

IsAwaiting(h, at) == house[h].at = at
Awaits(h, at) == house' = [house EXCEPT ![h].at = at]
Rests(h) == house' = [house EXCEPT ![h] = AtRest]

\* The catch block fails the submission if the request knows of one, and the run.
Catches(h) == Awaits(h, IF house[h].owns THEN "failSubmission" ELSE "failRun")

-----------------------------------------------------------------------------
\* The program is built, verified and validated before anything is stored.
SolveFirst(h, until, block) ==
  /\ IsAwaiting(h, "rest")
  /\ now < until /\ until <= ClosesAt
  /\ house' = [house EXCEPT ![h] = [at |-> "publish", until |-> until, block |-> block, owns |-> FALSE]]
  /\ UNCHANGED <<storeVars, runBlock, artifacts>>

\* A repeated publication of the policy returns the stored intent.
PublishIntent(h) ==
  /\ IsAwaiting(h, "publish")
  /\ IF intent = "absent" THEN CreateIntent ELSE UNCHANGED storeVars
  /\ Awaits(h, "createRun")
  /\ UNCHANGED <<runBlock, artifacts>>

\* A stored run with another block conflicts.
CreateHouseRun(h) ==
  /\ IsAwaiting(h, "createRun")
  /\ CreateRun(Solution)
  /\ runBlock' = IF run[Solution] = "absent" THEN house[h].block ELSE runBlock
  /\ IF runBlock' = house[h].block THEN Awaits(h, "startRun") ELSE Rests(h)
  /\ UNCHANGED <<now, intentVars, claims, subVars, artifacts>>

StartHouseRun(h) ==
  /\ IsAwaiting(h, "startRun")
  /\ IF RunCanStart(Solution)
     THEN StartRun(Solution) /\ Awaits(h, "window1") ELSE UNCHANGED run /\ Rests(h)
  /\ UNCHANGED <<now, intentVars, claims, subVars, runBlock, artifacts>>

CheckHouseWindow(h) ==
  /\ house[h].at \in DOMAIN AfterWindow
  /\ IF now < house[h].until THEN Awaits(h, AfterWindow[house[h].at]) ELSE Catches(h)
  /\ UNCHANGED <<storeVars, runBlock, artifacts>>

\* The clock append compares was read with the window.  The request knows of the
\* submission once append has answered.
AppendSolution(h, answered) ==
  /\ IsAwaiting(h, "insert")
  /\ IF IsNextRevision(Solution)
     THEN /\ AppendRevision(Solution, house[h].until, FALSE)
          /\ house' = [house EXCEPT ![h].owns = answered, ![h].at = IF answered THEN "artifacts" ELSE "failRun"]
     ELSE Catches(h) /\ UNCHANGED <<sub, validUntil>>
  /\ UNCHANGED <<now, intentVars, claims, run, verdict, runBlock, artifacts>>

\* Mutant: an artifact that cannot be stored is left out.
StoreWhatCanBe(h, all) ==
  /\ verdict' = [verdict EXCEPT ![Solution] = "accepted"]
  /\ artifacts' = all
  /\ Awaits(h, "window2")

\* Seven artifacts, the authorization last; the first that fails is the end.
StoreAll(h, all) ==
  /\ verdict' \in {verdict, [verdict EXCEPT ![Solution] = "accepted"]}
  /\ artifacts' = all
  /\ IF all THEN verdict'[Solution] = "accepted" /\ Awaits(h, "window2") ELSE Catches(h)

StoreSolution(h, all) ==
  /\ IsAwaiting(h, "artifacts")
  /\ StoreAll(h, all)
  /\ UNCHANGED <<now, intentVars, claims, run, sub, validUntil, runBlock>>

ResolveSolution(h, from, to, next) ==
  /\ IsAwaiting(h, from)
  /\ IF CanResolve(Solution, to) THEN Resolve(Solution, to) /\ Awaits(h, next)
     ELSE Catches(h) /\ UNCHANGED <<sub, selected, intent>>
  /\ UNCHANGED <<now, snapshot, claims, run, validUntil, verdict, runBlock, artifacts>>

MarkSolution(h) == ResolveSolution(h, "mark", "verified", "window3")
AttestSolution(h) == ResolveSolution(h, "attest", "attested", "complete")

CompleteHouseRun(h) ==
  /\ IsAwaiting(h, "complete")
  /\ IF RunCanFinish(Solution, "completed")
     THEN FinishRun(Solution, "completed") /\ Rests(h) ELSE UNCHANGED run /\ Catches(h)
  /\ UNCHANGED <<now, intentVars, claims, subVars, runBlock, artifacts>>

HouseThrows(h) ==
  /\ house[h].at \in Tried
  /\ Catches(h)
  /\ UNCHANGED <<storeVars, runBlock, artifacts>>

\* A submission that was attested already is not failed, and the run fails all the
\* same.
FailSolution(h) ==
  /\ IsAwaiting(h, "failSubmission")
  /\ IF CanResolve(Solution, "failed") THEN Resolve(Solution, "failed") ELSE UNCHANGED <<sub, selected, intent>>
  /\ Awaits(h, "failRun")
  /\ UNCHANGED <<now, snapshot, claims, run, validUntil, verdict, runBlock, artifacts>>

FailHouseRun(h) ==
  /\ IsAwaiting(h, "failRun")
  /\ IF RunCanFinish(Solution, "failed") THEN FinishRun(Solution, "failed") ELSE UNCHANGED run
  /\ Rests(h)
  /\ UNCHANGED <<now, intentVars, claims, subVars, runBlock, artifacts>>

HouseDies(h) ==
  /\ ~IsAwaiting(h, "rest") /\ Rests(h)
  /\ UNCHANGED <<storeVars, runBlock, artifacts>>

HouseNext ==
  \/ Tick /\ UNCHANGED houseVars
  \/ \E h \in Publications :
       \/ \E until \in 1..ClosesAt, block \in Blocks : SolveFirst(h, until, block)
       \/ \E yes \in BOOLEAN : AppendSolution(h, yes) \/ StoreSolution(h, yes)
       \/ PublishIntent(h) \/ CreateHouseRun(h) \/ StartHouseRun(h) \/ CheckHouseWindow(h)
       \/ MarkSolution(h) \/ AttestSolution(h) \/ CompleteHouseRun(h)
       \/ HouseThrows(h) \/ FailSolution(h) \/ FailHouseRun(h) \/ HouseDies(h)

HouseSpec == StoreInit /\ HouseInit /\ [][HouseNext]_houseStore

-----------------------------------------------------------------------------
\* A program of the house has authority only with all its artifacts, whichever
\* publication stored it and whichever of its calls threw, and a run is completed
\* only by the publication whose program has it.
HouseAuthorityIsWhole ==
  /\ sub[Solution] = "attested" => artifacts /\ verdict[Solution] = "accepted"
  /\ run[Solution] = "completed" => sub[Solution] = "attested"
  /\ \A g, h \in Publications : house[g].owns /\ house[h].owns => g = h
=============================================================================

--------------------------------- MODULE MCSite ---------------------------------
(* Components of the web site, for TLC: a behaviour is one of a single component *)
(* ("part"), and the others stay in an initial state.  The house and the intake   *)
(* work on the same tables, each on an intent of its own.                         *)
EXTENDS DecisionIntake, HouseSolver, WalletAuth, CompileLeases, IntentComposer,
        CommercePlacement, GuidedExecution, TLC

CONSTANTS s1, null, x1, x2, y1, y2, Parts

\* What goes wrong in a guided execution: a few things together.
GuidedScenarios ==
  {[upsets |-> {"gone", "rpc"}, blocks |-> 3], [upsets |-> {"expiry"}, blocks |-> 4],
   [upsets |-> {"other"}, blocks |-> 3], [upsets |-> {"reorg"}, blocks |-> 3]}

\* Requests are interchangeable, and so are accounts.
SiteSymmetry == Permutations({x1, x2}) \cup Permutations({y1, y2})

VARIABLE part

SiteInit ==
  /\ part \in Parts
  /\ Init /\ HouseInit /\ AuthInit /\ LeaseInit /\ ComposerInit /\ CommerceInit /\ GuidedInit
  /\ part # "composer" => account = y1 /\ page.goal = "g1"
  /\ part # "guided" => scenario = [upsets |-> {"other"}, blocks |-> 3]

SiteNext ==
  /\ part' = part
  /\ CASE part = "intake" -> Next /\ UNCHANGED houseVars
       [] part = "house" -> HouseNext /\ UNCHANGED intakeVars
       [] OTHER -> UNCHANGED <<vars, houseVars>>
  /\ IF part = "auth" THEN AuthNext ELSE UNCHANGED authVars
  /\ IF part = "leases" THEN LeaseNext ELSE UNCHANGED leaseVars
  /\ IF part = "composer" THEN ComposerNext ELSE UNCHANGED composerVars
  /\ IF part = "commerce" THEN CommerceNext ELSE UNCHANGED commerceVars
  /\ IF part = "guided" THEN GuidedNext ELSE UNCHANGED guidedVars

SiteSpec ==
  SiteInit /\ [][SiteNext]_<<part, vars, houseVars, authVars, leaseVars, composerVars, commerceVars,
                              guidedVars>>

\* TablesAgree, of the behaviours of the intake: the house claims nothing, and its catch
\* block may fail the run of a program that has authority.
CommunityTablesAgree == part = "intake" => TablesAgree

\* ImplementsLedger, of the behaviours that touch its tables.
OffTheTables == part \notin {"intake", "house"}
CommunityImplementsLedger == Ledger!Init /\ [][OffTheTables \/ Ledger!Next]_(Ledger!ledger)

\* HouseAuthorityIsWhole, of the behaviours in which the house is at work.
HouseProgramsAreWhole == part = "house" => HouseAuthorityIsWhole
=============================================================================

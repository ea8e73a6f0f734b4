-------------------------- MODULE HouseSolver_proofs --------------------------
(***************************************************************************)
(* Proofs, for any number of publications of one intent, that the house    *)
(* gives authority to no half-stored program, completes no run but that of *)
(* its own program, and implements the same ledger as the community's      *)
(* intake, although it takes neither a claim nor the solver's lock.        *)
(***************************************************************************)
EXTENDS HouseSolver, DecisionIntake_proofs

HouseSteps == {"rest", "publish", "createRun", "startRun", "window1", "insert", "artifacts", "window2",
               "mark", "window3", "attest", "complete", "failSubmission", "failRun"}
HouseWork == [at : HouseSteps, until : 0..ClosesAt, block : Blocks \cup {"none"}, owns : BOOLEAN]

HouseTypeOK ==
  /\ StoreTypeOK
  /\ house \in [Publications -> HouseWork]
  /\ runBlock \in Blocks \cup {"none"} /\ artifacts \in BOOLEAN

\* The publication knows of the program as its own; the program is stored in full.
Owns(h) == house[h].owns
Whole == artifacts /\ verdict[Solution] = "accepted"

\* A publication that appended the program is the only one, and knows how far the
\* program has come.
OwnersKnow ==
  \A h \in Publications :
    LET at == house[h].at IN
    /\ at \in {"artifacts", "window2", "mark", "window3", "attest", "complete", "failSubmission"} => Owns(h)
    /\ Owns(h) => sub[Solution] # "absent"
    /\ at \in {"artifacts", "window2", "mark"} => sub[Solution] = "proposed"
    /\ at \in {"window2", "mark"} => Whole
    /\ at \in {"window3", "attest"} => sub[Solution] = "verified"
    /\ at = "complete" => sub[Solution] = "attested"

\* Only whole programs get past "proposed", and the house executes nothing.
WholePrograms ==
  /\ sub[Solution] \in {"verified", "attested"} => Whole
  /\ run[Solution] = "completed" => sub[Solution] = "attested"

\* The inductive invariant.  That a completed run has authority follows from what the
\* one publication that owns the program knows of it at each await.
HouseInv ==
  /\ HouseTypeOK
  /\ OwnersKnow
  /\ WholePrograms
  /\ \A g, h \in Publications : Owns(g) /\ Owns(h) => g = h
  /\ intent # "executed" /\ \A x \in Offers : sub[x] # "executed"

-----------------------------------------------------------------------------
(* The moves of a publication *)

\* The house's revision is an offer.
LEMMA SolutionIsAnOffer == Solution \in Offers /\ Solution[2] = 1
BY HouseAssumption, StoreAssumption DEF Solution, Offers, Revisions

\* A publication that moves on without writing a row, and does not come to own the
\* program, keeps the invariant where it goes on to knows no less.
LEMMA HouseMoves ==
  ASSUME HouseInv, NEW h \in Publications, UNCHANGED <<intent, sub, verdict, artifacts>>, HouseTypeOK',
         \A g \in Publications \ {h} : house'[g] = house[g],
         Owns(h)' => Owns(h),
         \/ house'[h].at \in {"rest", "publish", "createRun", "startRun", "window1", "insert", "failSubmission", "failRun"}
         \/ Owns(h)' /\ house[h].at = "window2" /\ house'[h].at = "mark"
         \/ Owns(h)' /\ house[h].at = "window3" /\ house'[h].at = "attest",
         run'[Solution] = "completed" => run[Solution] = "completed" \/ sub[Solution] = "attested",
         house'[h].at = "failSubmission" => Owns(h)'
  PROVE  HouseInv'
<1>1. OwnersKnow'
  BY DEF HouseInv, OwnersKnow, Owns, Whole
<1>2. WholePrograms' /\ \A f, g \in Publications : Owns(f)' /\ Owns(g)' => f = g
  BY DEF HouseInv, WholePrograms, Owns, Whole
<1>3. QED
  BY <1>1, <1>2 DEF HouseInv

\* Where a publication may go, and what that changes of it.
LEMMA HouseGoes ==
  ASSUME HouseTypeOK, NEW h \in Publications,
         Catches(h) \/ Rests(h) \/ \E at \in HouseSteps \ {"failSubmission"} : Awaits(h, at)
  PROVE  /\ house' \in [Publications -> HouseWork]
         /\ \A g \in Publications \ {h} : house'[g] = house[g]
         /\ Owns(h)' => Owns(h)
         /\ Catches(h) => house'[h].at \in {"failSubmission", "failRun"}
         /\ house'[h].at = "failSubmission" => Owns(h)'
         /\ Rests(h) => house'[h].at = "rest"
         /\ \A at \in HouseSteps : Awaits(h, at) => house'[h].at = at /\ (Owns(h)' <=> Owns(h))
<1>1. AtRest \in HouseWork
  BY StoreAssumption DEF AtRest, HouseWork, HouseSteps
<1>2. house[h] \in HouseWork
  BY DEF HouseTypeOK
<1>3. \A at \in HouseSteps : [house[h] EXCEPT !.at = at] \in HouseWork
  BY <1>2 DEF HouseWork
<1>4. ASSUME NEW at \in HouseSteps, Awaits(h, at)
      PROVE  /\ house' \in [Publications -> HouseWork] /\ house'[h].at = at
             /\ \A g \in Publications \ {h} : house'[g] = house[g]
             /\ (Owns(h)' <=> Owns(h))
  <2>1. house' = [house EXCEPT ![h] = [house[h] EXCEPT !.at = at]]
    BY <1>4 DEF Awaits, HouseTypeOK
  <2>2. QED
    BY <1>2, <1>3, <2>1 DEF HouseTypeOK, HouseWork, Owns, Whole
<1>5. CASE Rests(h)
  <2>1. /\ house' \in [Publications -> HouseWork] /\ house'[h].at = "rest" /\ ~Owns(h)'
        /\ \A g \in Publications \ {h} : house'[g] = house[g]
    BY <1>1, <1>5 DEF Rests, HouseTypeOK, AtRest, Owns, Whole
  <2>2. "failSubmission" \in HouseSteps /\ "failRun" \in HouseSteps
    BY DEF HouseSteps
  <2>3. ~Catches(h) /\ \A at \in HouseSteps : Awaits(h, at) => at = "rest" /\ ~Owns(h)
    BY <1>4, <2>1, <2>2 DEF Catches
  <2>4. QED
    BY <2>1, <2>3
<1>6. CASE Catches(h)
  <2>1. PICK at \in {"failSubmission", "failRun"} :
          at \in HouseSteps /\ Awaits(h, at) /\ (at = "failSubmission" => Owns(h))
    BY <1>6 DEF Catches, HouseSteps, Owns
  <2>2. ~Rests(h) \/ house'[h].at = "rest"
    BY <1>5
  <2>3. QED
    BY <1>4, <2>1, <2>2
<1>7. QED
  BY <1>4, <1>5, <1>6

-----------------------------------------------------------------------------
(* The calls *)

\* The tables that stay are well-formed.
LEMMA HouseTypesKept ==
  ASSUME HouseTypeOK, house' \in [Publications -> HouseWork],
         now' \in Times, intent' \in IntentStates, snapshot' \in BOOLEAN, UNCHANGED <<selected, claims>>,
         run' \in [Offers -> RunStates], UNCHANGED subVars,
         runBlock' \in Blocks \cup {"none"}, artifacts' \in BOOLEAN
  PROVE  HouseTypeOK'
BY DEF HouseTypeOK, StoreTypeOK, subVars

\* The program is solved before anything is stored.
LEMMA SolveFirstKeeps ==
  ASSUME HouseInv, NEW h \in Publications, NEW until \in 1..ClosesAt, NEW block \in Blocks,
         SolveFirst(h, until, block)
  PROVE  HouseInv'
<1> DEFINE work == [at |-> "publish", until |-> until, block |-> block, owns |-> FALSE]
<1>1. work \in HouseWork /\ work.at = "publish" /\ work.owns = FALSE
  BY StoreAssumption DEF HouseWork, HouseSteps
<1>2. house' = [house EXCEPT ![h] = work] /\ UNCHANGED <<storeVars, runBlock, artifacts>>
  BY DEF SolveFirst
<1> HIDE DEF work
<1>3. /\ house' \in [Publications -> HouseWork] /\ house'[h] = work
      /\ \A g \in Publications \ {h} : house'[g] = house[g]
  BY <1>1, <1>2 DEF HouseInv, HouseTypeOK
<1>4. HouseTypeOK' /\ UNCHANGED <<intent, sub, verdict, run>>
  BY <1>2, <1>3 DEF HouseInv, HouseTypeOK, StoreTypeOK, storeVars
<1>5. QED
  BY <1>1, <1>2, <1>3, <1>4, HouseMoves DEF Owns, Whole

\* The calls that write no revision: the window, the throws and the end of a process.
LEMMA HouseReadsKeep ==
  ASSUME HouseInv, NEW h \in Publications,
         CheckHouseWindow(h) \/ HouseThrows(h) \/ HouseDies(h)
  PROVE  HouseInv'
<1>1. UNCHANGED <<storeVars, runBlock, artifacts>>
  BY DEF CheckHouseWindow, HouseThrows, HouseDies
<1>2. \/ Catches(h) \/ Rests(h)
      \/ house[h].at = "window1" /\ Awaits(h, "insert")
      \/ house[h].at = "window2" /\ Awaits(h, "mark")
      \/ house[h].at = "window3" /\ Awaits(h, "attest")
  BY DEF CheckHouseWindow, HouseThrows, HouseDies, AfterWindow
<1>3. {"insert", "mark", "attest"} \subseteq HouseSteps
  BY DEF HouseSteps
<1>4. /\ house' \in [Publications -> HouseWork] /\ (Owns(h)' => Owns(h))
      /\ house'[h].at = "failSubmission" => Owns(h)'
      /\ \A g \in Publications \ {h} : house'[g] = house[g]
  BY <1>2, <1>3, HouseGoes DEF HouseInv
<1>5. HouseTypeOK' /\ UNCHANGED <<intent, sub, verdict, run>>
  BY <1>1, <1>4 DEF HouseInv, HouseTypeOK, StoreTypeOK, storeVars, Owns, Whole
<1>6. \/ house'[h].at \in {"rest", "insert", "failSubmission", "failRun"}
      \/ Owns(h)' /\ house[h].at = "window2" /\ house'[h].at = "mark"
      \/ Owns(h)' /\ house[h].at = "window3" /\ house'[h].at = "attest"
  BY <1>2, <1>3, HouseGoes DEF HouseInv, OwnersKnow
<1>7. QED
  BY <1>1, <1>4, <1>5, <1>6, HouseMoves DEF Owns, Whole

\* The clock.
LEMMA HouseTickKeeps ==
  ASSUME HouseInv, Tick, UNCHANGED houseVars
  PROVE  HouseInv'
<1>1. now' \in Times /\ UNCHANGED <<intentVars, claims, run, subVars, houseVars>>
  BY StoreAssumption DEF Tick, HouseInv, HouseTypeOK, StoreTypeOK, Times
<1>2. QED
  BY <1>1 DEF HouseInv, HouseTypeOK, StoreTypeOK, OwnersKnow, WholePrograms, intentVars, subVars, houseVars, Owns, Whole

\* The intent and the run of the house are created, started, completed and failed.
LEMMA HouseRunKeeps ==
  ASSUME HouseInv, NEW h \in Publications,
         PublishIntent(h) \/ CreateHouseRun(h) \/ StartHouseRun(h) \/ CompleteHouseRun(h) \/ FailHouseRun(h)
  PROVE  HouseInv'
<1>1. /\ now' = now /\ UNCHANGED <<snapshot, selected, claims, subVars, artifacts>>
      /\ intent' = intent \/ intent' = "collecting"
  BY DEF PublishIntent, CreateIntent, CreateHouseRun, StartHouseRun, CompleteHouseRun, FailHouseRun,
         storeVars, subVars, intentVars
<1>2. Catches(h) \/ Rests(h) \/ \E at \in {"createRun", "startRun", "window1"} : Awaits(h, at)
  BY DEF PublishIntent, CreateHouseRun, StartHouseRun, CompleteHouseRun, FailHouseRun
<1>3. {"createRun", "startRun", "window1"} \subseteq HouseSteps
  BY DEF HouseSteps
<1>4. /\ house' \in [Publications -> HouseWork] /\ (Owns(h)' => Owns(h))
      /\ house'[h].at = "failSubmission" => Owns(h)'
      /\ \A g \in Publications \ {h} : house'[g] = house[g]
      /\ house'[h].at \in {"rest", "createRun", "startRun", "window1", "failSubmission", "failRun"}
  BY <1>2, <1>3, HouseGoes DEF HouseInv
<1>5. /\ run' \in [Offers -> RunStates]
      /\ run'[Solution] = "completed" => run[Solution] = "completed" \/ house[h].at = "complete"
  BY SolutionIsAnOffer
  DEF PublishIntent, CreateIntent, CreateHouseRun, StartHouseRun, CompleteHouseRun, FailHouseRun, CreateRun, StartRun,
      FinishRun, IsAwaiting, RunStates, HouseInv, HouseTypeOK, StoreTypeOK, storeVars
<1>6. runBlock' \in Blocks \cup {"none"}
  BY DEF PublishIntent, CreateHouseRun, StartHouseRun, CompleteHouseRun, FailHouseRun,
         HouseInv, HouseTypeOK, HouseWork
<1>7. now' \in Times /\ intent' \in IntentStates /\ intent' # "executed" /\ snapshot' \in BOOLEAN /\ artifacts' \in BOOLEAN
  BY <1>1 DEF HouseInv, HouseTypeOK, StoreTypeOK, IntentStates
<1>8. HouseTypeOK'
  BY <1>1, <1>4, <1>5, <1>6, <1>7, HouseTypesKept DEF HouseInv, Owns, Whole
<1>9. house[h].at = "complete" => sub[Solution] = "attested"
  BY DEF HouseInv, OwnersKnow
<1>10. OwnersKnow'
  BY <1>1, <1>4 DEF HouseInv, OwnersKnow, subVars, Owns, Whole
<1>11. WholePrograms' /\ \A f, g \in Publications : Owns(f)' /\ Owns(g)' => f = g
  BY <1>1, <1>4, <1>5, <1>9 DEF HouseInv, WholePrograms, subVars, Owns, Whole
<1>12. QED
  BY <1>1, <1>7, <1>8, <1>10, <1>11 DEF HouseInv, subVars

\* What append writes for the house: its revision is new, and displaces none.
LEMMA HouseAppends ==
  ASSUME StoreTypeOK, IsNextRevision(Solution), NEW until, AppendRevision(Solution, until, FALSE)
  PROVE  /\ sub[Solution] = "absent" /\ sub' = [sub EXCEPT ![Solution] = "proposed"]
         /\ validUntil' = [validUntil EXCEPT ![Solution] = until]
<1>1. Solution \in Offers /\ sub[Solution] = "absent"
  BY SolutionIsAnOffer, StoreAssumption DEF IsNextRevision, Offered, Offers, Revisions
<1>2. QED
  BY <1>1 DEF AppendRevision, StoreTypeOK

\* The program is appended once: after that its revision is not the next one.
LEMMA AppendSolutionKeeps ==
  ASSUME HouseInv, NEW h \in Publications, NEW answered \in BOOLEAN, AppendSolution(h, answered)
  PROVE  HouseInv'
<1>1. UNCHANGED <<now, intentVars, claims, run, verdict, runBlock, artifacts>> /\ house[h].at = "insert"
  BY DEF AppendSolution, IsAwaiting
<1>2. CASE /\ IsNextRevision(Solution) /\ AppendRevision(Solution, house[h].until, FALSE)
           /\ house' = [house EXCEPT ![h].owns = answered, ![h].at = IF answered THEN "artifacts" ELSE "failRun"]
  <2> DEFINE work == [house[h] EXCEPT !.owns = answered, !.at = IF answered THEN "artifacts" ELSE "failRun"]
  <2>1. house[h] \in HouseWork
    BY DEF HouseInv, HouseTypeOK
  <2>2. work \in HouseWork /\ work.at \in {"artifacts", "failRun"} /\ work.owns = answered
        /\ (work.at = "artifacts" => answered)
    BY <2>1 DEF HouseWork, HouseSteps
  <2>3. house' = [house EXCEPT ![h] = work]
    BY <1>2, <2>1 DEF HouseWork, HouseInv, HouseTypeOK
  <2> HIDE DEF work
  <2>4. /\ house' \in [Publications -> HouseWork] /\ house'[h] = work
        /\ \A g \in Publications \ {h} : house'[g] = house[g]
    BY <2>2, <2>3 DEF HouseInv, HouseTypeOK
  <2>5. Solution \in Offers /\ sub[Solution] = "absent"
    BY <1>2, SolutionIsAnOffer, HouseAppends DEF HouseInv, HouseTypeOK
  <2>6. /\ sub' = [sub EXCEPT ![Solution] = "proposed"]
        /\ validUntil' = [validUntil EXCEPT ![Solution] = house[h].until]
    BY <1>2, HouseAppends DEF HouseInv, HouseTypeOK
  <2>7. HouseTypeOK'
    BY <1>1, <2>1, <2>4, <2>6 DEF HouseInv, HouseTypeOK, StoreTypeOK, SubStates, HouseWork, intentVars
  <2>8. sub'[Solution] = "proposed"
    BY <2>5, <2>6 DEF HouseInv, HouseTypeOK, StoreTypeOK
  <2>9. \A g \in Publications : ~Owns(g)
    BY <2>5 DEF HouseInv, OwnersKnow
  <2>10. \A g \in Publications \ {h} :
           house[g].at \notin {"artifacts", "window2", "mark", "window3", "attest", "complete", "failSubmission"}
    BY <2>9 DEF HouseInv, OwnersKnow
  <2>11. OwnersKnow'
    BY <2>2, <2>4, <2>8, <2>9, <2>10 DEF OwnersKnow, Owns
  <2>12. WholePrograms' /\ \A f, g \in Publications : Owns(f)' /\ Owns(g)' => f = g
    BY <1>1, <2>4, <2>5, <2>8, <2>9 DEF HouseInv, WholePrograms, Owns
  <2>13. \A x \in Offers : sub'[x] # "executed"
    BY <2>6 DEF HouseInv, HouseTypeOK, StoreTypeOK
  <2>14. QED
    BY <1>1, <2>7, <2>11, <2>12, <2>13 DEF HouseInv, intentVars
<1>3. CASE Catches(h) /\ UNCHANGED <<sub, validUntil>>
  <2>1. /\ house' \in [Publications -> HouseWork] /\ (Owns(h)' => Owns(h))
        /\ house'[h].at = "failSubmission" => Owns(h)'
        /\ \A g \in Publications \ {h} : house'[g] = house[g]
        /\ house'[h].at \in {"failSubmission", "failRun"}
    BY <1>3, HouseGoes DEF HouseInv
  <2>2. HouseTypeOK' /\ UNCHANGED <<intent, sub, verdict, run, artifacts>>
    BY <1>1, <1>3, <2>1 DEF HouseInv, HouseTypeOK, StoreTypeOK, intentVars
  <2>3. QED
    BY <2>1, <2>2, HouseMoves
<1>4. QED
  BY <1>2, <1>3 DEF AppendSolution

\* Only with every artifact, the verdict among them, does the publication go on.
LEMMA StoreSolutionKeeps ==
  ASSUME HouseInv, NEW h \in Publications, NEW all \in BOOLEAN, StoreSolution(h, all)
  PROVE  HouseInv'
<1>1. /\ UNCHANGED <<now, intentVars, claims, run, sub, validUntil, runBlock>> /\ artifacts' = all
      /\ Owns(h) /\ sub[Solution] = "proposed" /\ verdict' \in {verdict, [verdict EXCEPT ![Solution] = "accepted"]}
  BY DEF StoreSolution, StoreAll, IsAwaiting, HouseInv, OwnersKnow
<1>2. Catches(h) \/ (Whole' /\ Awaits(h, "window2"))
  BY DEF StoreSolution, StoreAll, Whole
<1>3. "window2" \in HouseSteps
  BY DEF HouseSteps
<1>4. /\ house' \in [Publications -> HouseWork] /\ (Owns(h)' => Owns(h))
      /\ house'[h].at = "failSubmission" => Owns(h)'
      /\ \A g \in Publications \ {h} : house'[g] = house[g]
      /\ \/ house'[h].at \in {"failSubmission", "failRun"}
         \/ Whole' /\ house'[h].at = "window2" /\ Owns(h)'
  BY <1>1, <1>2, <1>3, HouseGoes DEF HouseInv
<1>5. HouseTypeOK'
  BY <1>1, <1>4 DEF HouseInv, HouseTypeOK, StoreTypeOK, intentVars
<1>6. \A g \in Publications \ {h} : ~Owns(g) /\ ~Owns(g)'
  BY <1>1, <1>4 DEF HouseInv, Owns
<1>7. \A g \in Publications \ {h} :
        house'[g].at \notin {"artifacts", "window2", "mark", "window3", "attest", "complete", "failSubmission"}
  BY <1>4, <1>6 DEF HouseInv, OwnersKnow
<1>8. OwnersKnow'
  BY <1>1, <1>4, <1>6, <1>7 DEF OwnersKnow
<1>9. WholePrograms' /\ \A f, g \in Publications : Owns(f)' /\ Owns(g)' => f = g
  BY <1>1, <1>6 DEF HouseInv, WholePrograms
<1>10. QED
  BY <1>1, <1>5, <1>8, <1>9 DEF HouseInv, intentVars

\* The decisions on the program: each is made by the publication that owns it, or
\* refused.
LEMMA ResolveSolutionKeeps ==
  ASSUME HouseInv, NEW h \in Publications, MarkSolution(h) \/ AttestSolution(h) \/ FailSolution(h), Owns(h)
  PROVE  HouseInv'
<1>1. UNCHANGED <<now, snapshot, claims, run, validUntil, verdict, runBlock, artifacts>>
  BY DEF MarkSolution, AttestSolution, ResolveSolution, FailSolution
<1>2. \A g \in Publications \ {h} : ~Owns(g)
  BY DEF HouseInv
<1>3. {"window3", "complete", "failRun"} \subseteq HouseSteps
  BY DEF HouseSteps
<1>4. CASE /\ UNCHANGED <<sub, selected, intent>>
           /\ Catches(h) \/ Awaits(h, "failRun")
  <2>1. /\ house' \in [Publications -> HouseWork] /\ (Owns(h)' => Owns(h))
        /\ house'[h].at = "failSubmission" => Owns(h)'
        /\ \A g \in Publications \ {h} : house'[g] = house[g]
        /\ house'[h].at \in {"failSubmission", "failRun"}
    BY <1>3, <1>4, HouseGoes DEF HouseInv
  <2>2. HouseTypeOK'
    BY <1>1, <1>4, <2>1 DEF HouseInv, HouseTypeOK, StoreTypeOK
  <2>3. QED
    BY <1>1, <1>4, <2>1, <2>2, HouseMoves
<1>5. ASSUME NEW to \in {"verified", "attested", "failed"}, NEW next \in {"window3", "complete", "failRun"},
             Resolve(Solution, to), Awaits(h, next),
             \/ to = "verified" /\ next = "window3" /\ house[h].at = "mark"
             \/ to = "attested" /\ next = "complete" /\ house[h].at = "attest"
             \/ to = "failed" /\ next = "failRun"
      PROVE  HouseInv'
  <2>1. /\ house' \in [Publications -> HouseWork] /\ Owns(h)' /\ house'[h].at = next
        /\ \A g \in Publications \ {h} : house'[g] = house[g]
    BY <1>3, <1>5, HouseGoes DEF HouseInv
  <2>2. /\ sub[Solution] \in {"proposed", "verified"} /\ sub' = [sub EXCEPT ![Solution] = to]
        /\ UNCHANGED <<selected, intent>>
    BY <1>5 DEF Resolve, CanResolve, AllowedTransition
  <2>3. sub'[Solution] = to
    BY <2>2, SolutionIsAnOffer DEF HouseInv, HouseTypeOK, StoreTypeOK
  <2>4. HouseTypeOK'
    BY <1>1, <2>1, <2>2 DEF HouseInv, HouseTypeOK, StoreTypeOK, SubStates
  <2>5. \A g \in Publications \ {h} :
          /\ ~Owns(g)'
          /\ house'[g].at \notin {"artifacts", "window2", "mark", "window3", "attest", "complete", "failSubmission"}
    BY <1>2, <2>1 DEF HouseInv, OwnersKnow, Owns
  <2>6. OwnersKnow'
    BY <1>5, <2>1, <2>3, <2>5 DEF OwnersKnow
  <2>7. Whole' = Whole /\ (to \in {"verified", "attested"} => Whole)
    BY <1>1, <1>5 DEF HouseInv, OwnersKnow, WholePrograms, Whole
  <2>8. WholePrograms' /\ \A f, g \in Publications : Owns(f)' /\ Owns(g)' => f = g
    BY <1>1, <1>5, <2>2, <2>3, <2>5, <2>7 DEF HouseInv, WholePrograms
  <2>9. QED
    BY <2>2, <2>4, <2>6, <2>8 DEF HouseInv
<1>6. QED
  BY <1>4, <1>5 DEF MarkSolution, AttestSolution, ResolveSolution, FailSolution, IsAwaiting

\* A publication that does not own the program decides nothing about it.
LEMMA OnlyOwnersDecide ==
  ASSUME HouseInv, NEW h \in Publications, MarkSolution(h) \/ AttestSolution(h) \/ FailSolution(h)
  PROVE  Owns(h)
BY DEF MarkSolution, AttestSolution, ResolveSolution, FailSolution, IsAwaiting, HouseInv, OwnersKnow

-----------------------------------------------------------------------------
(* The invariant *)

\* Nothing is stored and every publication is at rest at first.
LEMMA HouseBegins == StoreInit /\ HouseInit => HouseInv
<1> SUFFICES ASSUME StoreInit, HouseInit PROVE HouseInv
  OBVIOUS
<1>1. StoreTypeOK
  <2>1. /\ now \in Times /\ intent \in IntentStates /\ selected \in Offers \cup {None} /\ claims \subseteq Offers
        /\ run \in [Offers -> RunStates] /\ sub \in [Offers -> SubStates]
        /\ validUntil \in [Offers -> 0..ClosesAt] /\ verdict \in [Offers -> {"none", "accepted", "rejected"}]
    BY StoreAssumption DEF StoreInit, Times, IntentStates, RunStates, SubStates
  <2>2. snapshot \in BOOLEAN
    BY DEF StoreInit
  <2>3. QED
    BY <2>1, <2>2 DEF StoreTypeOK
<1>2. AtRest \in HouseWork /\ AtRest.at = "rest" /\ AtRest.owns = FALSE
  BY StoreAssumption DEF AtRest, HouseWork, HouseSteps
<1>3. \A h \in Publications : house[h].at = "rest" /\ ~Owns(h)
  BY <1>2 DEF HouseInit, Owns
<1>4. artifacts \in BOOLEAN
  BY DEF HouseInit
<1>5. HouseTypeOK
  BY <1>1, <1>2, <1>4 DEF HouseInit, HouseTypeOK
<1>6. /\ Solution \in Offers /\ \A x \in Offers : sub[x] = "absent" /\ run[x] = "absent"
      /\ intent = "absent"
  BY SolutionIsAnOffer DEF StoreInit
<1>7. QED
  BY <1>3, <1>5, <1>6 DEF HouseInv, OwnersKnow, WholePrograms

\* Every call of every publication, answered, thrown or never ended.
LEMMA HouseGoesOn == HouseInv /\ [HouseNext]_houseStore => HouseInv'
<1> SUFFICES ASSUME HouseInv, [HouseNext]_houseStore PROVE HouseInv'
  OBVIOUS
<1>1. CASE UNCHANGED houseStore
  BY <1>1 DEF houseStore, storeVars, houseVars, HouseInv, HouseTypeOK, StoreTypeOK, OwnersKnow, WholePrograms,
              Owns, Whole
<1>2. CASE Tick /\ UNCHANGED houseVars
  BY <1>2, HouseTickKeeps
<1>3. ASSUME NEW h \in Publications, NEW until \in 1..ClosesAt, NEW block \in Blocks, SolveFirst(h, until, block)
      PROVE  HouseInv'
  BY <1>3, SolveFirstKeeps
<1>4. ASSUME NEW h \in Publications, NEW yes \in BOOLEAN, AppendSolution(h, yes) \/ StoreSolution(h, yes)
      PROVE  HouseInv'
  BY <1>4, AppendSolutionKeeps, StoreSolutionKeeps
<1>5. ASSUME NEW h \in Publications,
             \/ PublishIntent(h) \/ CreateHouseRun(h) \/ StartHouseRun(h) \/ CompleteHouseRun(h) \/ FailHouseRun(h)
      PROVE  HouseInv'
  BY <1>5, HouseRunKeeps
<1>6. ASSUME NEW h \in Publications, MarkSolution(h) \/ AttestSolution(h) \/ FailSolution(h) PROVE HouseInv'
  BY <1>6, OnlyOwnersDecide, ResolveSolutionKeeps
<1>7. ASSUME NEW h \in Publications, CheckHouseWindow(h) \/ HouseThrows(h) \/ HouseDies(h) PROVE HouseInv'
  BY <1>7, HouseReadsKeep
<1>8. QED
  BY <1>1, <1>2, <1>3, <1>4, <1>5, <1>6, <1>7 DEF HouseNext

\* The invariant holds of every behaviour of the house.
THEOREM HouseInvariant == HouseSpec => []HouseInv
<1>1. StoreInit /\ HouseInit => HouseInv
  BY HouseBegins
<1>2. HouseInv /\ [HouseNext]_houseStore => HouseInv'
  BY HouseGoesOn
<1>3. QED
  BY <1>1, <1>2, PTL DEF HouseSpec

\* run-general-asset-solver: a program of the house has authority only with all its
\* artifacts stored, its run is completed only by the publication that owns it, and
\* no second publication ever owns it, whichever call threw or process died.
THEOREM HouseAuthority == HouseSpec => []HouseAuthorityIsWhole
<1>1. HouseInv => HouseAuthorityIsWhole
  BY DEF HouseInv, WholePrograms, Whole, Owns, HouseAuthorityIsWhole
<1>2. QED
  BY <1>1, HouseInvariant, PTL

-----------------------------------------------------------------------------
(* The ledger *)

\* No intent is executed by the house.
LEMMA HouseUsesNothing == ASSUME HouseInv PROVE Used = {} /\ OutcomeRecorded
BY DEF HouseInv, Used, OutcomeRecorded

\* What a call of the house does to revisions and the clock.
LEMMA HouseWriters ==
  ASSUME HouseInv, [HouseNext]_houseStore
  PROVE  \/ UNCHANGED sub /\ (now' = now \/ now' = now + 1)
         \/ \E until \in 0..ClosesAt : now' = now /\ IsNextRevision(Solution) /\ AppendRevision(Solution, until, FALSE)
         \/ \E to \in {"verified", "attested", "failed"} : now' = now /\ Resolve(Solution, to)
<1>1. CASE UNCHANGED houseStore
  BY <1>1 DEF houseStore, storeVars
<1>2. CASE Tick /\ UNCHANGED houseVars
  BY <1>2 DEF Tick, subVars
<1>3. ASSUME NEW h \in Publications, NEW until \in 1..ClosesAt, NEW block \in Blocks, SolveFirst(h, until, block)
      PROVE  UNCHANGED <<now, sub>>
  BY <1>3 DEF SolveFirst, storeVars
<1>4. ASSUME NEW h \in Publications, NEW yes \in BOOLEAN, AppendSolution(h, yes)
      PROVE  \/ UNCHANGED <<now, sub>>
             \/ \E until \in 0..ClosesAt : now' = now /\ IsNextRevision(Solution) /\ AppendRevision(Solution, until, FALSE)
  BY <1>4 DEF AppendSolution, HouseInv, HouseTypeOK, HouseWork
<1>5. ASSUME NEW h \in Publications,
             \/ \E yes \in BOOLEAN : StoreSolution(h, yes)
             \/ PublishIntent(h) \/ CreateHouseRun(h) \/ StartHouseRun(h) \/ CompleteHouseRun(h) \/ FailHouseRun(h)
             \/ CheckHouseWindow(h) \/ HouseThrows(h) \/ HouseDies(h)
      PROVE  UNCHANGED <<now, sub>>
  BY <1>5 DEF StoreSolution, PublishIntent, CreateIntent, CreateHouseRun, StartHouseRun, CompleteHouseRun, FailHouseRun,
              CheckHouseWindow, HouseThrows, HouseDies, storeVars, subVars
<1>6. ASSUME NEW h \in Publications, MarkSolution(h) \/ AttestSolution(h) \/ FailSolution(h)
      PROVE  \/ UNCHANGED <<now, sub>>
             \/ \E to \in {"verified", "attested", "failed"} : now' = now /\ Resolve(Solution, to)
  BY <1>6 DEF MarkSolution, AttestSolution, ResolveSolution, FailSolution
<1>7. QED
  BY <1>1, <1>2, <1>3, <1>4, <1>5, <1>6 DEF HouseNext

\* The house appends a first revision, which displaces none.
LEMMA HousePublishes ==
  ASSUME HouseInv, HouseInv', now' = now, NEW until \in 0..ClosesAt,
         IsNextRevision(Solution), AppendRevision(Solution, until, FALSE)
  PROVE  Ledger!PublishRevision(Solution)
<1>1. /\ Solution \in Offers /\ Solution[2] = 1 /\ sub[Solution] = "absent"
      /\ sub' = [sub EXCEPT ![Solution] = "proposed"] /\ sub \in [Offers -> SubStates]
  BY SolutionIsAnOffer, HouseAppends DEF HouseInv, HouseTypeOK, StoreTypeOK
<1>2. Used = {} /\ Used' = {}
  BY HouseUsesNothing DEF HouseInv, Used
<1> HIDE DEF Solution
<1>3. Offered' = Offered \cup {Solution} /\ Solution \notin Offered
  BY <1>1 DEF Offered
<1>4. AttestedOffers' = AttestedOffers /\ RetiredOffers' = RetiredOffers
  BY <1>1 DEF AttestedOffers, RetiredOffers
<1>5. QED
  BY <1>1, <1>2, <1>3, <1>4 DEF Ledger!PublishRevision, AttestedOffers, RetiredOffers

\* Every step of the house is a step of the ledger, or leaves it alone.
LEMMA HouseLedgerStep == HouseInv /\ HouseInv' /\ [HouseNext]_houseStore => [Ledger!Next]_(Ledger!ledger)
<1> SUFFICES ASSUME HouseInv, HouseInv', [HouseNext]_houseStore PROVE [Ledger!Next]_(Ledger!ledger)
  OBVIOUS
<1>1. Used = {} /\ Used' = {} /\ OutcomeRecorded
  BY HouseUsesNothing DEF HouseInv, Used
<1>2. CASE UNCHANGED sub /\ (now' = now \/ now' = now + 1)
  BY <1>1, <1>2 DEF Ledger!Next, Ledger!Advance, Ledger!ledger, Offered
<1>3. PICK x \in Ledger!Offers : x = Solution
  BY SolutionIsAnOffer DEF Ledger!Offers, Ledger!Revisions, Offers, Revisions
<1>4. ASSUME NEW until \in 0..ClosesAt, now' = now, IsNextRevision(Solution), AppendRevision(Solution, until, FALSE)
      PROVE  Ledger!Next
  <2>1. Ledger!PublishRevision(x)
    BY <1>3, <1>4, HousePublishes
  <2>2. QED
    BY <2>1 DEF Ledger!Next
<1>5. ASSUME NEW to \in {"verified", "attested", "failed"}, now' = now, Resolve(Solution, to)
      PROVE  [Ledger!Next]_(Ledger!ledger)
  <2>1. Ledger!Grant(x) \/ Ledger!Retire(x) \/ UNCHANGED Ledger!ledger
    BY <1>1, <1>3, <1>5, SolutionIsAnOffer, ResolveDecides DEF HouseInv, HouseTypeOK
  <2>2. QED
    BY <2>1 DEF Ledger!Next
<1>6. QED
  BY <1>2, <1>4, <1>5, HouseWriters

\* The platform's own solver, which writes the tables without the intake, keeps the
\* promise the intake makes: authority granted once, in time and to what was decided
\* neither way before.
THEOREM HouseImplementsLedger == HouseSpec => ImplementsLedger
<1>1. StoreInit => Ledger!Init
  BY DEF StoreInit, Ledger!Init, Offered, Used
<1>2. QED
  BY <1>1, HouseLedgerStep, HouseInvariant, PTL DEF HouseSpec, ImplementsLedger, Ledger!Spec
=============================================================================

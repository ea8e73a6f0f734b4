------------------------- MODULE DecisionIntake_proofs -------------------------
(***************************************************************************)
(* Proofs about the decision intake, for any solvers, any number of        *)
(* requests, every revision limit and close, whatever fails or dies, and   *)
(* for open and general-asset intents alike.                               *)
(***************************************************************************)
EXTENDS DecisionIntake, TLAPS

\* The inductive invariant.  TablesAgree is not inductive alone: that a handler
\* finishes a run consistently with its submission follows from what it relies on
\* between awaits (HandlersOwnTheirRows), which another handler of the same offer
\* would invalidate (OneHandlerPerOffer).
IntakeInv ==
  /\ TypeOK
  /\ OneHandlerPerOffer
  /\ HandlersOwnTheirRows
  /\ AppendsOwnTheSolver
  /\ TablesAgree
  /\ AuthorityIsVerified
  /\ HistoryIsContiguous

\* The intent names the revision that was executed, which at most is superseded
\* since.  The intake executes nothing, and keeps this whoever else does.
OutcomeRecorded ==
  /\ \A x \in Offers : sub[x] = "executed" => selected = x /\ intent = "executed"
  /\ intent = "executed" => selected \in Offers /\ sub[selected] \in {"executed", "superseded"}

\* What has become of a revision that append found to be displaceable.
Displaced == {"verified", "attested", "executed", "failed"}

-----------------------------------------------------------------------------
(* The initial state *)

\* Nothing is stored and nothing is in flight at first.
LEMMA InitInv == Init => IntakeInv
<1> SUFFICES ASSUME Init PROVE IntakeInv
  OBVIOUS
<1> USE DEF Init, StoreInit
<1>1. TypeOK
  <2>1. /\ now \in Times /\ intent \in IntentStates /\ selected \in Offers \cup {None}
        /\ claims \subseteq Offers
    BY StoreAssumption DEF Times, IntentStates
  <2>2. snapshot \in BOOLEAN
    OBVIOUS
  <2>3. /\ run \in [Offers -> RunStates] /\ sub \in [Offers -> SubStates]
        /\ validUntil \in [Offers -> 0..ClosesAt]
        /\ verdict \in [Offers -> {"none", "accepted", "rejected"}]
    BY StoreAssumption DEF RunStates, SubStates
  <2>4. /\ pc \in [Requests -> Steps] /\ offer \in [Requests -> Offers \cup {None}]
        /\ \A q \in Requests : offer[q] = None <=> pc[q] = "idle"
    BY DEF Steps
  <2>5. /\ started \in [Requests -> Times]
        /\ deadline \in [Requests -> 0..ClosesAt]
        /\ window \in [Requests -> 0..ClosesAt]
    BY StoreAssumption DEF Times
  <2>6. QED
    BY <2>1, <2>2, <2>3, <2>4, <2>5 DEF TypeOK, StoreTypeOK
<1>2. OneHandlerPerOffer /\ HandlersOwnTheirRows
  BY DEF OneHandlerPerOffer, HandlersOwnTheirRows, PastClaim
<1>3. TablesAgree /\ AuthorityIsVerified /\ HistoryIsContiguous
  BY DEF TablesAgree, AuthorityIsVerified, HistoryIsContiguous, Offered
<1>4. AppendsOwnTheSolver
  BY DEF AppendsOwnTheSolver, Appending
<1>5. QED
  BY <1>1, <1>2, <1>3, <1>4 DEF IntakeInv

-----------------------------------------------------------------------------
(* What is not disturbed *)

\* The null of an offer column is no offer.
LEMMA NoneIsNoOffer == None \notin Offers
BY StoreAssumption DEF Offers, Revisions

\* A step that leaves the revisions and their verdicts alone keeps what is said
\* of them.
LEMMA RevisionsKept ==
  ASSUME IntakeInv, UNCHANGED <<sub, verdict>>
  PROVE  AuthorityIsVerified' /\ HistoryIsContiguous'
BY DEF IntakeInv, AuthorityIsVerified, HistoryIsContiguous, Offered

\* A step that leaves the rows alone keeps what relates them.
LEMMA RowsKept ==
  ASSUME IntakeInv, UNCHANGED <<claims, run, sub, verdict>>
  PROVE  TablesAgree' /\ AuthorityIsVerified' /\ HistoryIsContiguous'
BY RevisionsKept DEF IntakeInv, TablesAgree, Offered

\* Time and the tables of the intent play no part in what a handler relies on.
LEMMA IntentKept ==
  ASSUME IntakeInv, TypeOK', UNCHANGED <<claims, run, subVars, intakeVars>>
  PROVE  IntakeInv'
<1>1. OneHandlerPerOffer' /\ HandlersOwnTheirRows'
  BY DEF IntakeInv, OneHandlerPerOffer, HandlersOwnTheirRows, PastClaim, subVars, intakeVars
<1>2. AppendsOwnTheSolver'
  BY DEF IntakeInv, AppendsOwnTheSolver, Appending, IsNextRevision, Offered, subVars, intakeVars
<1>3. QED
  BY <1>1, <1>2, RowsKept DEF IntakeInv, subVars

\* What the appends under way rely on outlives any step of a handler that is not
\* one of them, adds no revision and takes no verdict back.
LEMMA AppendKept ==
  ASSUME IntakeInv, NEW q \in Requests, Offered' = Offered,
         \A y \in Offers : verdict[y] = "accepted" /\ sub[y] \in Displaced
                            => verdict'[y] = "accepted" /\ sub'[y] \in Displaced,
         \A p \in Requests \ {q} : pc'[p] = pc[p] /\ offer'[p] = offer[p],
         pc'[q] \notin {"insert", "displace"}
  PROVE  AppendsOwnTheSolver'
<1>1. /\ Appending' \subseteq Appending
      /\ \A p \in Appending' : pc'[p] = pc[p] /\ offer'[p] = offer[p] /\ offer[p] \in Offers
  BY DEF Appending, IntakeInv, TypeOK
<1>2. ASSUME NEW p \in Appending', pc'[p] = "displace" PROVE Predecessor(offer[p]) \in Offers
  BY <1>1, <1>2, StoreAssumption
  DEF IntakeInv, AppendsOwnTheSolver, Predecessor, Offers, Revisions
<1>3. QED
  BY <1>1, <1>2 DEF IntakeInv, AppendsOwnTheSolver, IsNextRevision, Displaced, Predecessor

-----------------------------------------------------------------------------
(* Steps that move a request and write no row *)

\* The artifacts of the program are stored.
LEMMA StoreArtifactsInv ==
  ASSUME IntakeInv, NEW q \in Requests, StoreArtifacts(q)
  PROVE  IntakeInv'
<1> USE DEF StoreArtifacts, Goto, storeVars
<1>1. TypeOK'
  BY StoreAssumption DEF IntakeInv, TypeOK, StoreTypeOK, Steps
<1>2. OneHandlerPerOffer'
  BY DEF IntakeInv, TypeOK, StoreTypeOK, OneHandlerPerOffer, PastClaim
<1>3. HandlersOwnTheirRows'
  BY DEF IntakeInv, TypeOK, StoreTypeOK, OneHandlerPerOffer, HandlersOwnTheirRows, TablesAgree,
         PastClaim, Offered
<1>4. TablesAgree' /\ AuthorityIsVerified' /\ HistoryIsContiguous'
  BY RowsKept DEF storeVars
<1>5. AppendsOwnTheSolver'
  BY AppendKept DEF IntakeInv, TypeOK, Offered
<1>6. QED
  BY <1>1, <1>2, <1>3, <1>4, <1>5 DEF IntakeInv

\* The verifier throws.
LEMMA VerifierFailsInv ==
  ASSUME IntakeInv, NEW q \in Requests, VerifierFails(q)
  PROVE  IntakeInv'
<1> USE DEF VerifierFails, Goto, storeVars
<1>1. TypeOK'
  BY StoreAssumption DEF IntakeInv, TypeOK, StoreTypeOK, Steps
<1>2. OneHandlerPerOffer'
  BY DEF IntakeInv, TypeOK, StoreTypeOK, OneHandlerPerOffer, PastClaim
<1>3. HandlersOwnTheirRows'
  BY DEF IntakeInv, TypeOK, StoreTypeOK, OneHandlerPerOffer, HandlersOwnTheirRows, TablesAgree,
         PastClaim, Offered
<1>4. TablesAgree' /\ AuthorityIsVerified' /\ HistoryIsContiguous'
  BY RowsKept DEF storeVars
<1>5. AppendsOwnTheSolver'
  BY AppendKept DEF IntakeInv, TypeOK, Offered
<1>6. QED
  BY <1>1, <1>2, <1>3, <1>4, <1>5 DEF IntakeInv

\* The verifier answers.
LEMMA VerifierAnswersInv ==
  ASSUME IntakeInv, NEW q \in Requests, VerifierAnswers(q)
  PROVE  IntakeInv'
<1> USE DEF VerifierAnswers, Goto, storeVars
<1>1. TypeOK'
  BY StoreAssumption DEF IntakeInv, TypeOK, StoreTypeOK, Steps
<1>2. OneHandlerPerOffer'
  BY DEF IntakeInv, TypeOK, StoreTypeOK, OneHandlerPerOffer, PastClaim
<1>3. HandlersOwnTheirRows'
  BY DEF IntakeInv, TypeOK, StoreTypeOK, OneHandlerPerOffer, HandlersOwnTheirRows, TablesAgree,
         PastClaim, Offered
<1>4. TablesAgree' /\ AuthorityIsVerified' /\ HistoryIsContiguous'
  BY RowsKept DEF storeVars
<1>5. AppendsOwnTheSolver'
  BY AppendKept DEF IntakeInv, TypeOK, Offered
<1>6. QED
  BY <1>1, <1>2, <1>3, <1>4, <1>5 DEF IntakeInv

\* A verdict without an objective cannot be stored: the error leaves the handler.
LEMMA VerdictIsUnstorableInv ==
  ASSUME IntakeInv, NEW q \in Requests, VerdictIsUnstorable(q)
  PROVE  IntakeInv'
<1> USE DEF VerdictIsUnstorable, Leave, storeVars
<1>1. TypeOK'
  BY StoreAssumption DEF IntakeInv, TypeOK, StoreTypeOK, Steps, Times
<1>2. OneHandlerPerOffer'
  BY DEF IntakeInv, TypeOK, StoreTypeOK, OneHandlerPerOffer, PastClaim
<1>3. HandlersOwnTheirRows'
  BY DEF IntakeInv, TypeOK, StoreTypeOK, OneHandlerPerOffer, HandlersOwnTheirRows, TablesAgree,
         PastClaim, Offered
<1>4. TablesAgree' /\ AuthorityIsVerified' /\ HistoryIsContiguous'
  BY RowsKept DEF storeVars
<1>5. AppendsOwnTheSolver'
  BY AppendKept DEF IntakeInv, TypeOK, Offered
<1>6. QED
  BY <1>1, <1>2, <1>3, <1>4, <1>5 DEF IntakeInv

\* The artifacts of an accepted verdict are stored, and the window is looked at.
LEMMA StoreResultsInv ==
  ASSUME IntakeInv, NEW q \in Requests, StoreResults(q)
  PROVE  IntakeInv'
<1> USE DEF StoreResults, Goto, storeVars
<1>1. TypeOK'
  BY StoreAssumption DEF IntakeInv, TypeOK, StoreTypeOK, Steps
<1>2. OneHandlerPerOffer'
  BY DEF IntakeInv, TypeOK, StoreTypeOK, OneHandlerPerOffer, PastClaim
<1>3. HandlersOwnTheirRows'
  BY DEF IntakeInv, TypeOK, StoreTypeOK, OneHandlerPerOffer, HandlersOwnTheirRows, TablesAgree,
         PastClaim, Offered
<1>4. TablesAgree' /\ AuthorityIsVerified' /\ HistoryIsContiguous'
  BY RowsKept DEF storeVars
<1>5. AppendsOwnTheSolver'
  BY AppendKept DEF IntakeInv, TypeOK, Offered
<1>6. QED
  BY <1>1, <1>2, <1>3, <1>4, <1>5 DEF IntakeInv

\* The second look, after the revision is verified.
LEMMA RecheckWindowInv ==
  ASSUME IntakeInv, NEW q \in Requests, RecheckWindow(q)
  PROVE  IntakeInv'
<1> USE DEF RecheckWindow, Goto, storeVars
<1>1. TypeOK'
  BY StoreAssumption DEF IntakeInv, TypeOK, StoreTypeOK, Steps
<1>2. OneHandlerPerOffer'
  BY DEF IntakeInv, TypeOK, StoreTypeOK, OneHandlerPerOffer, PastClaim
<1>3. HandlersOwnTheirRows'
  BY DEF IntakeInv, TypeOK, StoreTypeOK, OneHandlerPerOffer, HandlersOwnTheirRows, TablesAgree,
         PastClaim, Offered
<1>4. TablesAgree' /\ AuthorityIsVerified' /\ HistoryIsContiguous'
  BY RowsKept DEF storeVars
<1>5. AppendsOwnTheSolver'
  BY AppendKept DEF IntakeInv, TypeOK, Offered
<1>6. QED
  BY <1>1, <1>2, <1>3, <1>4, <1>5 DEF IntakeInv

\* A request dies.
LEMMA AbortInv ==
  ASSUME IntakeInv, NEW q \in Requests, Abort(q)
  PROVE  IntakeInv'
<1> USE DEF Abort, Leave, storeVars
<1>1. TypeOK'
  BY StoreAssumption DEF IntakeInv, TypeOK, StoreTypeOK, Steps, Times
<1>2. OneHandlerPerOffer'
  BY DEF IntakeInv, TypeOK, StoreTypeOK, OneHandlerPerOffer, PastClaim
<1>3. HandlersOwnTheirRows'
  BY DEF IntakeInv, TypeOK, StoreTypeOK, OneHandlerPerOffer, HandlersOwnTheirRows, TablesAgree,
         PastClaim, Offered
<1>4. TablesAgree' /\ AuthorityIsVerified' /\ HistoryIsContiguous'
  BY RowsKept DEF storeVars
<1>5. AppendsOwnTheSolver'
  BY AppendKept DEF IntakeInv, TypeOK, Offered
<1>6. QED
  BY <1>1, <1>2, <1>3, <1>4, <1>5 DEF IntakeInv

-----------------------------------------------------------------------------
(* Steps that write a claim or a run *)

\* The run endpoint creates a run.
LEMMA CreateExternalRunInv ==
  ASSUME IntakeInv, NEW q \in Requests, CreateExternalRun(q)
  PROVE  IntakeInv'
<1> USE DEF CreateExternalRun, Goto, intentVars, subVars, CreateRun
<1>1. TypeOK'
  BY StoreAssumption DEF IntakeInv, TypeOK, StoreTypeOK, Steps, RunStates
<1>2. OneHandlerPerOffer'
  BY DEF IntakeInv, TypeOK, StoreTypeOK, OneHandlerPerOffer, PastClaim
<1>3. HandlersOwnTheirRows'
  BY DEF IntakeInv, TypeOK, StoreTypeOK, OneHandlerPerOffer, HandlersOwnTheirRows, TablesAgree,
         PastClaim, Offered
<1>4. TablesAgree'
  BY DEF IntakeInv, TypeOK, StoreTypeOK, OneHandlerPerOffer, HandlersOwnTheirRows, TablesAgree,
         PastClaim, Offered
<1>5. AuthorityIsVerified' /\ HistoryIsContiguous'
  BY RevisionsKept
<1>6. AppendsOwnTheSolver'
  BY AppendKept DEF IntakeInv, TypeOK, Offered
<1>7. QED
  BY <1>1, <1>2, <1>3, <1>4, <1>5, <1>6 DEF IntakeInv

\* The run endpoint starts a run.
LEMMA StartExternalRunInv ==
  ASSUME IntakeInv, NEW q \in Requests, StartExternalRun(q)
  PROVE  IntakeInv'
<1> USE DEF StartExternalRun, Leave, intentVars, subVars, StartRun, RunCanStart
<1>1. TypeOK'
  BY StoreAssumption DEF IntakeInv, TypeOK, StoreTypeOK, Steps, RunStates, Times
<1>2. OneHandlerPerOffer'
  BY DEF IntakeInv, TypeOK, StoreTypeOK, OneHandlerPerOffer, PastClaim
<1>3. HandlersOwnTheirRows'
  BY DEF IntakeInv, TypeOK, StoreTypeOK, OneHandlerPerOffer, HandlersOwnTheirRows, TablesAgree,
         PastClaim, Offered
<1>4. TablesAgree'
  BY DEF IntakeInv, TypeOK, StoreTypeOK, OneHandlerPerOffer, HandlersOwnTheirRows, TablesAgree,
         PastClaim, Offered
<1>5. AuthorityIsVerified' /\ HistoryIsContiguous'
  BY RevisionsKept
<1>6. AppendsOwnTheSolver'
  BY AppendKept DEF IntakeInv, TypeOK, Offered
<1>7. QED
  BY <1>1, <1>2, <1>3, <1>4, <1>5, <1>6 DEF IntakeInv

\* A decision consumes its claim, or finds it consumed: here a second handler of the
\* offer is kept out.
LEMMA ClaimInv ==
  ASSUME IntakeInv, NEW q \in Requests, Claim(q)
  PROVE  IntakeInv'
<1> USE DEF Claim, Goto, Leave, intentVars, subVars, ConsumeClaim, ClaimIsFresh
<1>1. TypeOK'
  BY StoreAssumption DEF IntakeInv, TypeOK, StoreTypeOK, Steps, Times
<1>2. OneHandlerPerOffer'
  BY DEF IntakeInv, TypeOK, StoreTypeOK, OneHandlerPerOffer, HandlersOwnTheirRows, PastClaim
<1>3. HandlersOwnTheirRows'
  BY DEF IntakeInv, TypeOK, StoreTypeOK, OneHandlerPerOffer, HandlersOwnTheirRows, TablesAgree,
         PastClaim, Offered
<1>4. TablesAgree'
  BY DEF IntakeInv, TypeOK, StoreTypeOK, OneHandlerPerOffer, HandlersOwnTheirRows, TablesAgree,
         PastClaim, Offered
<1>5. AuthorityIsVerified' /\ HistoryIsContiguous'
  BY RevisionsKept
<1>6. AppendsOwnTheSolver'
  BY AppendKept DEF IntakeInv, TypeOK, Offered
<1>7. QED
  BY <1>1, <1>2, <1>3, <1>4, <1>5, <1>6 DEF IntakeInv

\* A claimed decision creates its run, or finds the one the run endpoint created.
LEMMA CreateDecisionRunInv ==
  ASSUME IntakeInv, NEW q \in Requests, CreateDecisionRun(q)
  PROVE  IntakeInv'
<1> USE DEF CreateDecisionRun, Goto, intentVars, subVars, CreateRun
<1>1. TypeOK'
  BY StoreAssumption DEF IntakeInv, TypeOK, StoreTypeOK, Steps, RunStates
<1>2. OneHandlerPerOffer'
  BY DEF IntakeInv, TypeOK, StoreTypeOK, OneHandlerPerOffer, PastClaim
<1>3. HandlersOwnTheirRows'
  BY DEF IntakeInv, TypeOK, StoreTypeOK, OneHandlerPerOffer, HandlersOwnTheirRows, TablesAgree,
         PastClaim, Offered
<1>4. TablesAgree'
  BY DEF IntakeInv, TypeOK, StoreTypeOK, OneHandlerPerOffer, HandlersOwnTheirRows, TablesAgree,
         PastClaim, Offered
<1>5. AuthorityIsVerified' /\ HistoryIsContiguous'
  BY RevisionsKept
<1>6. AppendsOwnTheSolver'
  BY AppendKept DEF IntakeInv, TypeOK, Offered
<1>7. QED
  BY <1>1, <1>2, <1>3, <1>4, <1>5, <1>6 DEF IntakeInv

\* A claimed decision starts its run.
LEMMA StartDecisionRunInv ==
  ASSUME IntakeInv, NEW q \in Requests, StartDecisionRun(q)
  PROVE  IntakeInv'
<1> USE DEF StartDecisionRun, Goto, intentVars, subVars, StartRun, RunCanStart
<1>1. TypeOK'
  BY StoreAssumption DEF IntakeInv, TypeOK, StoreTypeOK, Steps, RunStates
<1>2. OneHandlerPerOffer'
  BY DEF IntakeInv, TypeOK, StoreTypeOK, OneHandlerPerOffer, PastClaim
<1>3. HandlersOwnTheirRows'
  BY DEF IntakeInv, TypeOK, StoreTypeOK, OneHandlerPerOffer, HandlersOwnTheirRows, TablesAgree,
         PastClaim, Offered
<1>4. TablesAgree'
  BY DEF IntakeInv, TypeOK, StoreTypeOK, OneHandlerPerOffer, HandlersOwnTheirRows, TablesAgree,
         PastClaim, Offered
<1>5. AuthorityIsVerified' /\ HistoryIsContiguous'
  BY RevisionsKept
<1>6. AppendsOwnTheSolver'
  BY AppendKept DEF IntakeInv, TypeOK, Offered
<1>7. QED
  BY <1>1, <1>2, <1>3, <1>4, <1>5, <1>6 DEF IntakeInv

\* The run of an abstention ends.
LEMMA AbstainInv ==
  ASSUME IntakeInv, NEW q \in Requests, Abstain(q)
  PROVE  IntakeInv'
<1> USE DEF Abstain, Leave, intentVars, subVars, FinishRun, RunCanFinish
<1>1. TypeOK'
  BY StoreAssumption DEF IntakeInv, TypeOK, StoreTypeOK, Steps, RunStates, Times
<1>2. OneHandlerPerOffer'
  BY DEF IntakeInv, TypeOK, StoreTypeOK, OneHandlerPerOffer, PastClaim
<1>3. HandlersOwnTheirRows'
  BY DEF IntakeInv, TypeOK, StoreTypeOK, OneHandlerPerOffer, HandlersOwnTheirRows, TablesAgree,
         PastClaim, Offered
<1>4. TablesAgree'
  BY DEF IntakeInv, TypeOK, StoreTypeOK, OneHandlerPerOffer, HandlersOwnTheirRows, TablesAgree,
         PastClaim, Offered
<1>5. AuthorityIsVerified' /\ HistoryIsContiguous'
  BY RevisionsKept
<1>6. AppendsOwnTheSolver'
  BY AppendKept DEF IntakeInv, TypeOK, Offered
<1>7. QED
  BY <1>1, <1>2, <1>3, <1>4, <1>5, <1>6 DEF IntakeInv

\* The run of an attested revision ends.
LEMMA CompleteRunInv ==
  ASSUME IntakeInv, NEW q \in Requests, CompleteRun(q)
  PROVE  IntakeInv'
<1> USE DEF CompleteRun, Leave, intentVars, subVars, FinishRun, RunCanFinish
<1>1. TypeOK'
  BY StoreAssumption DEF IntakeInv, TypeOK, StoreTypeOK, Steps, RunStates, Times
<1>2. OneHandlerPerOffer'
  BY DEF IntakeInv, TypeOK, StoreTypeOK, OneHandlerPerOffer, PastClaim
<1>3. HandlersOwnTheirRows'
  BY DEF IntakeInv, TypeOK, StoreTypeOK, OneHandlerPerOffer, HandlersOwnTheirRows, TablesAgree,
         PastClaim, Offered
<1>4. TablesAgree'
  BY DEF IntakeInv, TypeOK, StoreTypeOK, OneHandlerPerOffer, HandlersOwnTheirRows, TablesAgree,
         PastClaim, Offered
<1>5. AuthorityIsVerified' /\ HistoryIsContiguous'
  BY RevisionsKept
<1>6. AppendsOwnTheSolver'
  BY AppendKept DEF IntakeInv, TypeOK, Offered
<1>7. QED
  BY <1>1, <1>2, <1>3, <1>4, <1>5, <1>6 DEF IntakeInv

\* The run of a rejected or failed revision ends.
LEMMA FailRunInv ==
  ASSUME IntakeInv, NEW q \in Requests, FailRun(q)
  PROVE  IntakeInv'
<1> USE DEF FailRun, Leave, intentVars, subVars, FinishRun, RunCanFinish
<1>1. TypeOK'
  BY StoreAssumption DEF IntakeInv, TypeOK, StoreTypeOK, Steps, RunStates, Times
<1>2. OneHandlerPerOffer'
  BY DEF IntakeInv, TypeOK, StoreTypeOK, OneHandlerPerOffer, PastClaim
<1>3. HandlersOwnTheirRows'
  BY DEF IntakeInv, TypeOK, StoreTypeOK, OneHandlerPerOffer, HandlersOwnTheirRows, TablesAgree,
         PastClaim, Offered
<1>4. TablesAgree'
  BY DEF IntakeInv, TypeOK, StoreTypeOK, OneHandlerPerOffer, HandlersOwnTheirRows, TablesAgree,
         PastClaim, Offered
<1>5. AuthorityIsVerified' /\ HistoryIsContiguous'
  BY RevisionsKept
<1>6. AppendsOwnTheSolver'
  BY AppendKept DEF IntakeInv, TypeOK, Offered
<1>7. QED
  BY <1>1, <1>2, <1>3, <1>4, <1>5, <1>6 DEF IntakeInv

-----------------------------------------------------------------------------
(* Steps that write a revision *)

\* Deciding a stored revision neither adds one nor displaces one.
LEMMA DecisionKeepsHistory ==
  ASSUME IntakeInv, NEW x \in Offers, NEW to \in SubStates \ {"absent", "superseded"},
         sub[x] # "absent", sub' = [sub EXCEPT ![x] = to]
  PROVE  HistoryIsContiguous'
<1>1. sub \in [Offers -> SubStates]
  BY DEF IntakeInv, TypeOK, StoreTypeOK
<1>2. Offered' = Offered
  BY <1>1 DEF Offered
<1>3. \A y \in Offered : sub'[y] = "superseded" => sub[y] = "superseded"
  BY <1>1 DEF Offered
<1>4. QED
  BY <1>2, <1>3 DEF IntakeInv, HistoryIsContiguous

\* The revisions of the solver are read, under the lock on its row.
LEMMA ReadRevisionsInv ==
  ASSUME IntakeInv, NEW q \in Requests, ReadRevisions(q)
  PROVE  IntakeInv'
<1> USE DEF ReadRevisions, Goto, storeVars
<1>1. TypeOK'
  BY StoreAssumption DEF IntakeInv, TypeOK, StoreTypeOK, Steps
<1>2. OneHandlerPerOffer'
  BY DEF IntakeInv, TypeOK, StoreTypeOK, OneHandlerPerOffer, PastClaim
<1>3. HandlersOwnTheirRows'
  BY DEF IntakeInv, TypeOK, StoreTypeOK, OneHandlerPerOffer, HandlersOwnTheirRows, TablesAgree,
         PastClaim, Offered
<1>4. TablesAgree' /\ AuthorityIsVerified' /\ HistoryIsContiguous'
  BY RowsKept DEF storeVars
<1>5. CASE pc'[q] = "failRun"
  <2>1. AppendsOwnTheSolver'
    BY <1>5, AppendKept DEF IntakeInv, TypeOK, Offered
  <2>2. QED
    BY <1>1, <1>2, <1>3, <1>4, <2>1 DEF IntakeInv
<1>6. CASE pc'[q] # "failRun"
  <2>1. /\ CanAppend(offer[q], started[q], deadline[q])
        /\ pc'[q] = "displace" => Displaces(offer[q])
        /\ Appending' = Appending \cup {q}
        /\ \A p \in Requests \ {q} : pc'[p] = pc[p]
        /\ offer' = offer /\ offer[q] \in Offers
    BY <1>6 DEF IntakeInv, TypeOK, Appending
  <2>2. pc'[q] = "displace" =>
          /\ offer[q][2] > 1 /\ verdict[Predecessor(offer[q])] = "accepted"
          /\ sub[Predecessor(offer[q])] \in {"verified", "attested"}
    <3>1. offer[q][2] > 1 => Predecessor(offer[q]) \in Offers
      BY <2>1, StoreAssumption DEF Predecessor, Offers, Revisions
    <3>2. QED
      BY <2>1, <3>1 DEF IntakeInv, AuthorityIsVerified, Displaces
  <2>3. AppendsOwnTheSolver'
    BY <2>1, <2>2 DEF IntakeInv, AppendsOwnTheSolver, CanAppend, IsNextRevision, Offered, Appending
  <2>4. QED
    BY <1>1, <1>2, <1>3, <1>4, <2>3 DEF IntakeInv
<1>7. QED
  BY <1>5, <1>6

\* What is known of an append when it writes.
LEMMA AppendFacts ==
  ASSUME IntakeInv, NEW q \in Appending
  PROVE  /\ q \in Requests /\ q \in PastClaim /\ offer[q] \in Offers /\ IsNextRevision(offer[q])
         /\ sub[offer[q]] = "absent"
         /\ pc[q] = "displace" =>
              /\ Predecessor(offer[q]) \in Offers /\ verdict[Predecessor(offer[q])] = "accepted"
              /\ sub[Predecessor(offer[q])] \in Displaced
<1>1. q \in Requests /\ q \in PastClaim /\ offer[q] \in Offers
  BY DEF Appending, PastClaim, IntakeInv, TypeOK
<1>2. offer[q][2] > 1 => Predecessor(offer[q]) \in Offers
  BY <1>1, StoreAssumption DEF Predecessor, Offers, Revisions
<1>3. QED
  BY <1>1, <1>2 DEF IntakeInv, AppendsOwnTheSolver, HandlersOwnTheirRows, Appending, Displaced

\* A revision is appended, displacing its predecessor, or the transaction fails.
LEMMA AppendProgramInv ==
  ASSUME IntakeInv, NEW q \in Requests, AppendProgram(q)
  PROVE  IntakeInv'
<1> DEFINE x == offer[q]
<1>1. q \in Appending
  BY DEF AppendProgram
<1>2. CASE UNCHANGED <<sub, validUntil>> /\ Goto(q, "failRun")
  <2> USE <1>2 DEF AppendProgram, Goto, intentVars
  <2>1. TypeOK'
    BY StoreAssumption DEF IntakeInv, TypeOK, StoreTypeOK, Steps, Appending
  <2>2. OneHandlerPerOffer' /\ HandlersOwnTheirRows'
    BY DEF IntakeInv, TypeOK, OneHandlerPerOffer, HandlersOwnTheirRows, PastClaim, Appending
  <2>3. TablesAgree' /\ AuthorityIsVerified' /\ HistoryIsContiguous'
    BY RowsKept
  <2>4. AppendsOwnTheSolver'
    BY AppendKept DEF IntakeInv, TypeOK, Offered
  <2>5. QED
    BY <2>1, <2>2, <2>3, <2>4 DEF IntakeInv
<1>3. CASE AppendRevision(x, deadline[q], pc[q] = "displace") /\ Goto(q, "artifacts")
  <2>1. /\ sub \in [Offers -> SubStates] /\ sub' \in [Offers -> SubStates] /\ sub'[x] = "proposed"
        /\ \A y \in Offers \ {x} :
             sub'[y] = sub[y] \/ (/\ pc[q] = "displace" /\ y = Predecessor(x)
                                  /\ sub'[y] = "superseded" /\ sub[y] \in Displaced
                                  /\ verdict[y] = "accepted")
    BY <1>1, <1>3, AppendFacts DEF IntakeInv, TypeOK, StoreTypeOK, AppendRevision, SubStates
  <2>2. /\ UNCHANGED <<now, intentVars, claims, run, verdict, offer, started, deadline, window>>
        /\ pc' = [pc EXCEPT ![q] = "artifacts"]
        /\ validUntil' = [validUntil EXCEPT ![x] = deadline[q]]
    BY <1>3 DEF AppendProgram, Goto, AppendRevision
  <2>3. /\ x \in Offers /\ q \in PastClaim /\ sub[x] = "absent" /\ IsNextRevision(x)
        /\ pc[q] \in {"insert", "displace"}
    BY <1>1, AppendFacts DEF Appending
  <2>4. TypeOK'
    BY <2>1, <2>2, <2>3 DEF IntakeInv, TypeOK, StoreTypeOK, Steps, Times, intentVars
  <2>5. OneHandlerPerOffer' /\ PastClaim' = PastClaim
    BY <2>2, <2>3 DEF IntakeInv, TypeOK, OneHandlerPerOffer, PastClaim
  <2>6. Offered' = Offered \cup {x}
    BY <2>1, <2>3 DEF Offered, Displaced
  <2>7. HandlersOwnTheirRows'
    <3>1. ASSUME NEW p \in PastClaim, p # q
          PROVE  /\ pc'[p] = pc[p] /\ offer'[p] = offer[p] /\ offer[p] # x /\ offer[p] \in Offers
                 /\ sub'[offer[p]] = sub[offer[p]] \/
                      (sub[offer[p]] \in Displaced /\ sub'[offer[p]] = "superseded")
      BY <2>1, <2>2, <2>3, <3>1 DEF IntakeInv, TypeOK, OneHandlerPerOffer, PastClaim
    <3>2. /\ pc'[q] = "artifacts" /\ offer'[q] = x /\ x \in claims' /\ run'[x] = "running"
      BY <2>2, <2>3 DEF IntakeInv, TypeOK, HandlersOwnTheirRows
    <3>3. \A p \in PastClaim : p # q => offer[p] \in claims /\ run' = run /\ claims' = claims /\ verdict' = verdict
      BY <2>2 DEF IntakeInv, HandlersOwnTheirRows
    <3> HIDE DEF x
    <3>4. QED
      BY <2>1, <2>5, <3>1, <3>2, <3>3 DEF IntakeInv, HandlersOwnTheirRows, Displaced
  <2>8. TablesAgree'
    BY <2>1, <2>2, <2>3, <2>6 DEF IntakeInv, TablesAgree, HandlersOwnTheirRows, Displaced
  <2>9. AuthorityIsVerified'
    BY <2>1, <2>2 DEF IntakeInv, AuthorityIsVerified
  <2>10. HistoryIsContiguous'
    <3>1. x[2] > 1 => Predecessor(x) \in Offered
      BY <2>3, StoreAssumption DEF IsNextRevision
    <3>2. ASSUME NEW y \in Offered, y = Predecessor(x) PROVE <<y[1], y[2] + 1>> = x
      BY <2>3, <3>2, StoreAssumption DEF Predecessor, Offers, Revisions
    <3>3. \A y \in Offered : sub'[y] = "superseded" => sub[y] = "superseded" \/ y = Predecessor(x)
      BY <2>1, <2>3 DEF Offered
    <3> HIDE DEF x
    <3>4. QED
      BY <2>1, <2>6, <3>1, <3>2, <3>3 DEF IntakeInv, HistoryIsContiguous
  <2>11. AppendsOwnTheSolver'
    <3>1. ASSUME NEW p \in Appending'
          PROVE  /\ p \in Appending /\ p # q /\ pc'[p] = pc[p] /\ offer'[p] = offer[p]
                 /\ offer[p][1] # x[1]
      BY <1>1, <2>2, <3>1 DEF Appending, IntakeInv, TypeOK, AppendsOwnTheSolver
    <3>2. ASSUME NEW p \in Appending' PROVE IsNextRevision(offer[p])'
      BY <2>6, <3>1, <3>2 DEF IntakeInv, AppendsOwnTheSolver, IsNextRevision, Predecessor
    <3>3. ASSUME NEW p \in Appending', pc'[p] = "displace"
          PROVE  LET z == Predecessor(offer[p]) IN
                 offer[p][2] > 1 /\ verdict'[z] = "accepted" /\ sub'[z] \in Displaced
      <4>1. p \in Appending /\ pc[p] = "displace" /\ offer[p][1] # x[1]
        BY <3>1, <3>3
      <4>2. LET z == Predecessor(offer[p]) IN
            z \in Offers /\ z # x /\ z # Predecessor(x) /\ sub[z] \in Displaced
        BY <4>1, AppendFacts DEF Predecessor
      <4>3. QED
        BY <2>1, <2>2, <4>1, <4>2 DEF IntakeInv, AppendsOwnTheSolver, Displaced
    <3>4. \A p, r \in Appending' : offer'[p][1] = offer'[r][1] => p = r
      BY <3>1 DEF IntakeInv, AppendsOwnTheSolver
    <3>5. QED
      BY <3>1, <3>2, <3>3, <3>4 DEF AppendsOwnTheSolver, Displaced
  <2>12. QED
    BY <2>2, <2>4, <2>5, <2>7, <2>8, <2>9, <2>10, <2>11 DEF IntakeInv, intentVars
<1>4. QED
  BY <1>2, <1>3 DEF AppendProgram

\* A refusal is stored.
LEMMA StoreRefusalInv ==
  ASSUME IntakeInv, NEW q \in Requests, StoreRefusal(q)
  PROVE  IntakeInv'
<1> USE DEF StoreRefusal, StoreVerdict, Goto, intentVars, subVars
<1>1. TypeOK'
  BY StoreAssumption DEF IntakeInv, TypeOK, StoreTypeOK, Steps
<1>2. OneHandlerPerOffer'
  BY DEF IntakeInv, TypeOK, StoreTypeOK, OneHandlerPerOffer, PastClaim
<1>3. HandlersOwnTheirRows'
  BY DEF IntakeInv, TypeOK, StoreTypeOK, OneHandlerPerOffer, HandlersOwnTheirRows, TablesAgree,
         PastClaim, Offered
<1>4. TablesAgree'
  BY DEF IntakeInv, TypeOK, StoreTypeOK, OneHandlerPerOffer, HandlersOwnTheirRows, TablesAgree,
         PastClaim, Offered
<1>5. AuthorityIsVerified'
  BY DEF IntakeInv, TypeOK, StoreTypeOK, HandlersOwnTheirRows, AuthorityIsVerified, PastClaim
<1>6. HistoryIsContiguous'
  BY DEF IntakeInv, TypeOK, StoreTypeOK, HandlersOwnTheirRows, HistoryIsContiguous,
         PastClaim, Offered
<1>7. AppendsOwnTheSolver'
  BY AppendKept DEF IntakeInv, TypeOK, StoreTypeOK, HandlersOwnTheirRows, PastClaim, Offered, Displaced
<1>8. QED
  BY <1>1, <1>2, <1>3, <1>4, <1>5, <1>6, <1>7 DEF IntakeInv

\* An acceptance is stored.
LEMMA StoreAcceptanceInv ==
  ASSUME IntakeInv, NEW q \in Requests, StoreAcceptance(q)
  PROVE  IntakeInv'
<1> USE DEF StoreAcceptance, StoreVerdict, Goto, intentVars, subVars
<1>1. TypeOK'
  BY StoreAssumption DEF IntakeInv, TypeOK, StoreTypeOK, Steps
<1>2. OneHandlerPerOffer'
  BY DEF IntakeInv, TypeOK, StoreTypeOK, OneHandlerPerOffer, PastClaim
<1>3. HandlersOwnTheirRows'
  BY DEF IntakeInv, TypeOK, StoreTypeOK, OneHandlerPerOffer, HandlersOwnTheirRows, TablesAgree,
         PastClaim, Offered
<1>4. TablesAgree'
  BY DEF IntakeInv, TypeOK, StoreTypeOK, OneHandlerPerOffer, HandlersOwnTheirRows, TablesAgree,
         PastClaim, Offered
<1>5. AuthorityIsVerified'
  BY DEF IntakeInv, TypeOK, StoreTypeOK, HandlersOwnTheirRows, AuthorityIsVerified, PastClaim
<1>6. HistoryIsContiguous'
  BY DEF IntakeInv, TypeOK, StoreTypeOK, HandlersOwnTheirRows, HistoryIsContiguous,
         PastClaim, Offered
<1>7. AppendsOwnTheSolver'
  BY AppendKept DEF IntakeInv, TypeOK, StoreTypeOK, HandlersOwnTheirRows, PastClaim, Offered, Displaced
<1>8. QED
  BY <1>1, <1>2, <1>3, <1>4, <1>5, <1>6, <1>7 DEF IntakeInv

\* A revision is marked verified.
LEMMA MarkVerifiedInv ==
  ASSUME IntakeInv, NEW q \in Requests, MarkVerified(q)
  PROVE  IntakeInv'
<1> USE DEF MarkVerified, Goto, intentVars, subVars, Resolve, CanResolve, AllowedTransition
<1>1. TypeOK'
  BY StoreAssumption DEF IntakeInv, TypeOK, StoreTypeOK, Steps, SubStates
<1>2. OneHandlerPerOffer'
  BY DEF IntakeInv, TypeOK, StoreTypeOK, OneHandlerPerOffer, PastClaim
<1>3. HandlersOwnTheirRows'
  BY DEF IntakeInv, TypeOK, StoreTypeOK, OneHandlerPerOffer, HandlersOwnTheirRows, TablesAgree,
         PastClaim, Offered
<1>4. TablesAgree'
  BY DEF IntakeInv, TypeOK, StoreTypeOK, OneHandlerPerOffer, HandlersOwnTheirRows, TablesAgree,
         PastClaim, Offered
<1>5. AuthorityIsVerified'
  BY DEF IntakeInv, TypeOK, StoreTypeOK, HandlersOwnTheirRows, AuthorityIsVerified, PastClaim
<1>6. HistoryIsContiguous'
  <2>1. offer[q] \in Offers /\ sub[offer[q]] # "absent"
    BY DEF IntakeInv, TypeOK, HandlersOwnTheirRows, PastClaim
  <2>2. CASE UNCHANGED sub
    BY <2>2 DEF IntakeInv, HistoryIsContiguous, Offered
  <2>3. CASE sub' = [sub EXCEPT ![offer[q]] = "verified"]
    BY <2>1, <2>3, DecisionKeepsHistory DEF SubStates
  <2>4. QED
    BY <2>2, <2>3
<1>7. AppendsOwnTheSolver'
  BY AppendKept DEF IntakeInv, TypeOK, StoreTypeOK, HandlersOwnTheirRows, PastClaim, Offered, Displaced
<1>8. QED
  BY <1>1, <1>2, <1>3, <1>4, <1>5, <1>6, <1>7 DEF IntakeInv

\* A revision is granted authority, or is superseded or expired and is not.
LEMMA AttestInv ==
  ASSUME IntakeInv, NEW q \in Requests, Attest(q)
  PROVE  IntakeInv'
<1> USE DEF Attest, Goto, Leave, intentVars, subVars, Resolve, CanResolve, AllowedTransition
<1>1. TypeOK'
  BY StoreAssumption DEF IntakeInv, TypeOK, StoreTypeOK, Steps, SubStates, Times
<1>2. OneHandlerPerOffer'
  BY DEF IntakeInv, TypeOK, StoreTypeOK, OneHandlerPerOffer, PastClaim
<1>3. HandlersOwnTheirRows'
  BY DEF IntakeInv, TypeOK, StoreTypeOK, OneHandlerPerOffer, HandlersOwnTheirRows, TablesAgree,
         PastClaim, Offered
<1>4. TablesAgree'
  BY DEF IntakeInv, TypeOK, StoreTypeOK, OneHandlerPerOffer, HandlersOwnTheirRows, TablesAgree,
         PastClaim, Offered
<1>5. AuthorityIsVerified'
  BY DEF IntakeInv, TypeOK, StoreTypeOK, HandlersOwnTheirRows, AuthorityIsVerified, PastClaim
<1>6. HistoryIsContiguous'
  <2>1. offer[q] \in Offers /\ sub[offer[q]] # "absent"
    BY DEF IntakeInv, TypeOK, HandlersOwnTheirRows, PastClaim
  <2>2. CASE UNCHANGED sub
    BY <2>2 DEF IntakeInv, HistoryIsContiguous, Offered
  <2>3. CASE sub' = [sub EXCEPT ![offer[q]] = "attested"]
    BY <2>1, <2>3, DecisionKeepsHistory DEF SubStates
  <2>4. QED
    BY <2>2, <2>3
<1>7. AppendsOwnTheSolver'
  BY AppendKept DEF IntakeInv, TypeOK, StoreTypeOK, HandlersOwnTheirRows, PastClaim, Offered, Displaced
<1>8. QED
  BY <1>1, <1>2, <1>3, <1>4, <1>5, <1>6, <1>7 DEF IntakeInv

\* A revision is rejected.
LEMMA RejectProgramInv ==
  ASSUME IntakeInv, NEW q \in Requests, RejectProgram(q)
  PROVE  IntakeInv'
<1> USE DEF RejectProgram, Goto, intentVars, subVars, Resolve, CanResolve, AllowedTransition
<1>1. TypeOK'
  BY StoreAssumption DEF IntakeInv, TypeOK, StoreTypeOK, Steps, SubStates
<1>2. OneHandlerPerOffer'
  BY DEF IntakeInv, TypeOK, StoreTypeOK, OneHandlerPerOffer, PastClaim
<1>3. HandlersOwnTheirRows'
  BY DEF IntakeInv, TypeOK, StoreTypeOK, OneHandlerPerOffer, HandlersOwnTheirRows, TablesAgree,
         PastClaim, Offered
<1>4. TablesAgree'
  BY DEF IntakeInv, TypeOK, StoreTypeOK, OneHandlerPerOffer, HandlersOwnTheirRows, TablesAgree,
         PastClaim, Offered
<1>5. AuthorityIsVerified'
  BY DEF IntakeInv, TypeOK, StoreTypeOK, HandlersOwnTheirRows, AuthorityIsVerified, PastClaim
<1>6. HistoryIsContiguous'
  <2>1. offer[q] \in Offers /\ sub[offer[q]] # "absent"
    BY DEF IntakeInv, TypeOK, HandlersOwnTheirRows, PastClaim
  <2>2. CASE UNCHANGED sub
    BY <2>2 DEF IntakeInv, HistoryIsContiguous, Offered
  <2>3. CASE sub' = [sub EXCEPT ![offer[q]] = "rejected"]
    BY <2>1, <2>3, DecisionKeepsHistory DEF SubStates
  <2>4. QED
    BY <2>2, <2>3
<1>7. AppendsOwnTheSolver'
  BY AppendKept DEF IntakeInv, TypeOK, StoreTypeOK, HandlersOwnTheirRows, PastClaim, Offered, Displaced
<1>8. QED
  BY <1>1, <1>2, <1>3, <1>4, <1>5, <1>6, <1>7 DEF IntakeInv

\* A revision is failed, or has been superseded and is not.
LEMMA FailProgramInv ==
  ASSUME IntakeInv, NEW q \in Requests, FailProgram(q)
  PROVE  IntakeInv'
<1> USE DEF FailProgram, Goto, Leave, intentVars, subVars, Resolve, CanResolve, AllowedTransition
<1>1. TypeOK'
  BY StoreAssumption DEF IntakeInv, TypeOK, StoreTypeOK, Steps, SubStates, Times
<1>2. OneHandlerPerOffer'
  BY DEF IntakeInv, TypeOK, StoreTypeOK, OneHandlerPerOffer, PastClaim
<1>3. HandlersOwnTheirRows'
  BY DEF IntakeInv, TypeOK, StoreTypeOK, OneHandlerPerOffer, HandlersOwnTheirRows, TablesAgree,
         PastClaim, Offered
<1>4. TablesAgree'
  BY DEF IntakeInv, TypeOK, StoreTypeOK, OneHandlerPerOffer, HandlersOwnTheirRows, TablesAgree,
         PastClaim, Offered
<1>5. AuthorityIsVerified'
  BY DEF IntakeInv, TypeOK, StoreTypeOK, HandlersOwnTheirRows, AuthorityIsVerified, PastClaim
<1>6. HistoryIsContiguous'
  <2>1. offer[q] \in Offers /\ sub[offer[q]] # "absent"
    BY DEF IntakeInv, TypeOK, HandlersOwnTheirRows, PastClaim
  <2>2. CASE UNCHANGED sub
    BY <2>2 DEF IntakeInv, HistoryIsContiguous, Offered
  <2>3. CASE sub' = [sub EXCEPT ![offer[q]] = "failed"]
    BY <2>1, <2>3, DecisionKeepsHistory DEF SubStates
  <2>4. QED
    BY <2>2, <2>3
<1>7. AppendsOwnTheSolver'
  BY AppendKept DEF IntakeInv, TypeOK, StoreTypeOK, HandlersOwnTheirRows, PastClaim, Offered, Displaced
<1>8. QED
  BY <1>1, <1>2, <1>3, <1>4, <1>5, <1>6, <1>7 DEF IntakeInv


-----------------------------------------------------------------------------
(* The environment: time, publication and arrivals *)

\* The clock and the publication of the intent disturb no handler.
LEMMA EnvironmentInv ==
  ASSUME IntakeInv, Tick \/ Publish, UNCHANGED intakeVars
  PROVE  IntakeInv'
<1> USE DEF Publish, CreateIntent, CreateSnapshot, intentVars, subVars, intakeVars
<1>1. CASE Tick
  BY <1>1, StoreAssumption, IntentKept DEF IntakeInv, TypeOK, StoreTypeOK, Tick, Times
<1>2. CASE CreateIntent
  BY <1>2, IntentKept DEF IntakeInv, TypeOK, StoreTypeOK, IntentStates
<1>3. CASE CreateSnapshot
  BY <1>3, IntentKept DEF IntakeInv, TypeOK, StoreTypeOK
<1>4. QED
  BY <1>1, <1>2, <1>3

\* A request that arrives has claimed nothing yet.
LEMMA ReceiveInv ==
  ASSUME IntakeInv, NEW q \in Requests, Receive(q)
  PROVE  IntakeInv'
<1>1. PICK x \in Offers, until \in 0..ClosesAt, step \in {"claim", "createRun"} : Arrive(q, x, until, step)
  BY StoreAssumption DEF Receive, ReceiveProgram, ReceiveAbstention, ReceiveRunClaim
<1> USE <1>1 DEF Arrive
<1>2. TypeOK'
  BY StoreAssumption, NoneIsNoOffer DEF IntakeInv, TypeOK, StoreTypeOK, Steps, Times, storeVars
<1>3. OneHandlerPerOffer' /\ HandlersOwnTheirRows'
  BY DEF IntakeInv, TypeOK, OneHandlerPerOffer, HandlersOwnTheirRows, PastClaim, storeVars
<1>4. TablesAgree' /\ AuthorityIsVerified' /\ HistoryIsContiguous'
  BY RowsKept DEF storeVars
<1>5. AppendsOwnTheSolver'
  BY AppendKept DEF IntakeInv, TypeOK, Offered, storeVars
<1>6. QED
  BY <1>2, <1>3, <1>4, <1>5 DEF IntakeInv, storeVars

-----------------------------------------------------------------------------
(* The invariant *)

\* Every step of Next preserves the invariant, one action at a time.
LEMMA NextInv == IntakeInv /\ [Next]_vars => IntakeInv'
<1> SUFFICES ASSUME IntakeInv, [Next]_vars PROVE IntakeInv'
  OBVIOUS
<1>1. CASE UNCHANGED vars
  <2>1. TypeOK'
    BY <1>1 DEF IntakeInv, TypeOK, StoreTypeOK, vars, storeVars, intakeVars
  <2>2. QED
    BY <1>1, <2>1, IntentKept DEF IntakeInv, vars, storeVars, subVars
<1>2. CASE (Tick \/ Publish) /\ UNCHANGED intakeVars
  BY <1>2, EnvironmentInv
<1>3. ASSUME NEW q \in Requests, Receive(q) PROVE IntakeInv'
  BY <1>3, ReceiveInv
<1>4. ASSUME NEW q \in Requests, Proceed(q) PROVE IntakeInv'
  BY <1>4, CreateExternalRunInv, StartExternalRunInv, ClaimInv, CreateDecisionRunInv, StartDecisionRunInv,
     AbstainInv, ReadRevisionsInv, AppendProgramInv, StoreArtifactsInv, VerifierFailsInv,
     VerifierAnswersInv, StoreRefusalInv, StoreAcceptanceInv, VerdictIsUnstorableInv, StoreResultsInv, MarkVerifiedInv, RecheckWindowInv, AttestInv, CompleteRunInv,
     RejectProgramInv, FailProgramInv, FailRunInv
  DEF Proceed
<1>5. ASSUME NEW q \in Requests, Abort(q) PROVE IntakeInv'
  BY <1>5, AbortInv
<1>6. QED
  BY <1>1, <1>2, <1>3, <1>4, <1>5 DEF Next

\* The invariant holds of every behaviour of the intake.
THEOREM IntakeInvariant == Spec => []IntakeInv
BY InitInv, NextInv, PTL DEF Spec

\* Type correctness: every row and every request is always well formed, and a
\* request holds an offer exactly while it is in flight.
THEOREM TypeCorrect == Spec => []TypeOK
<1>1. IntakeInv => TypeOK
  BY DEF IntakeInv
<1>2. QED
  BY <1>1, IntakeInvariant, PTL

\* Whatever is delivered twice, signed twice or aborted, one handler at most works
\* on an offer (the claim row of decision-intake.ts).
THEOREM OneHandler == Spec => []OneHandlerPerOffer
<1>1. IntakeInv => OneHandlerPerOffer
  BY DEF IntakeInv
<1>2. QED
  BY <1>1, IntakeInvariant, PTL

\* What a handler of decision-intake.ts relies on between two awaits stays true.
THEOREM HandlersUndisturbed == Spec => []HandlersOwnTheirRows
<1>1. IntakeInv => HandlersOwnTheirRows
  BY DEF IntakeInv
<1>2. QED
  BY <1>1, IntakeInvariant, PTL

\* What append checked under the lock of a solver's row is still so when it writes.
THEOREM AppendsSerialized == Spec => []AppendsOwnTheSolver
<1>1. IntakeInv => AppendsOwnTheSolver
  BY DEF IntakeInv
<1>2. QED
  BY <1>1, IntakeInvariant, PTL

\* The run and submission tables never contradict each other.
THEOREM TablesConsistent == Spec => []TablesAgree
<1>1. IntakeInv => TablesAgree
  BY DEF IntakeInv
<1>2. QED
  BY <1>1, IntakeInvariant, PTL

\* No revision has, or ever had, authority without an accepted verdict.
THEOREM VerifiedAuthority == Spec => []AuthorityIsVerified
<1>1. IntakeInv => AuthorityIsVerified
  BY DEF IntakeInv
<1>2. QED
  BY <1>1, IntakeInvariant, PTL

\* A solver's revisions are 1, 2, 3..., each displaced only by the next.
THEOREM ContiguousHistory == Spec => []HistoryIsContiguous
<1>1. IntakeInv => HistoryIsContiguous
  BY DEF IntakeInv
<1>2. QED
  BY <1>1, IntakeInvariant, PTL

-----------------------------------------------------------------------------
(* Action properties *)

\* The only steps that write a revision: it is appended, or decided.
LEMMA RevisionWriters ==
  ASSUME IntakeInv, [Next]_vars
  PROVE  \/ UNCHANGED sub
         \/ \E q \in Requests : AppendProgram(q) /\ AppendRevision(offer[q], deadline[q], pc[q] = "displace")
         \/ now' = now /\ \E q \in PastClaim, to \in {"verified", "attested", "rejected", "failed"} :
                            Resolve(offer[q], to)
<1>1. CASE UNCHANGED vars
  BY <1>1 DEF vars, storeVars
<1>2. CASE (Tick \/ Publish) /\ UNCHANGED intakeVars
  BY <1>2 DEF Tick, Publish, CreateIntent, CreateSnapshot, subVars
<1>3. ASSUME NEW q \in Requests, Receive(q) PROVE UNCHANGED sub
  BY <1>3 DEF Receive, ReceiveProgram, ReceiveAbstention, ReceiveRunClaim, Arrive, storeVars
<1>4. ASSUME NEW q \in Requests, Abort(q) PROVE UNCHANGED sub
  BY <1>4 DEF Abort, storeVars
<1>5. ASSUME NEW q \in Requests, AppendProgram(q)
      PROVE UNCHANGED sub \/ AppendRevision(offer[q], deadline[q], pc[q] = "displace")
  BY <1>5 DEF AppendProgram
<1>6. ASSUME NEW q \in Requests, MarkVerified(q) \/ Attest(q) \/ RejectProgram(q) \/ FailProgram(q)
      PROVE /\ q \in PastClaim
            /\ \/ UNCHANGED sub
               \/ now' = now /\ \E to \in {"verified", "attested", "rejected", "failed"} :
                                  Resolve(offer[q], to)
  BY <1>6 DEF MarkVerified, Attest, RejectProgram, FailProgram, PastClaim
<1>7. ASSUME NEW q \in Requests,
             \/ CreateExternalRun(q) \/ StartExternalRun(q) \/ Claim(q) \/ CreateDecisionRun(q)
             \/ StartDecisionRun(q) \/ Abstain(q) \/ ReadRevisions(q) \/ StoreArtifacts(q) \/ VerifierFails(q)
             \/ VerifierAnswers(q) \/ StoreRefusal(q) \/ StoreAcceptance(q) \/ VerdictIsUnstorable(q)
             \/ StoreResults(q) \/ RecheckWindow(q)
             \/ CompleteRun(q) \/ FailRun(q)
      PROVE UNCHANGED sub
  BY <1>7 DEF CreateExternalRun, StartExternalRun, Claim, CreateDecisionRun, StartDecisionRun, Abstain,
      ReadRevisions, StoreArtifacts, VerifierFails, VerifierAnswers, StoreRefusal, StoreAcceptance, VerdictIsUnstorable,
      StoreResults, RecheckWindow, StoreVerdict, CompleteRun, FailRun, subVars, storeVars
<1>8. QED
  BY <1>1, <1>2, <1>3, <1>4, <1>5, <1>6, <1>7 DEF Next, Proceed

\* Only a resolution to "attested" grants authority, and it checks the clock itself.
LEMMA GrantStep ==
  ASSUME IntakeInv, [Next]_vars, NEW x \in Offers, sub[x] # "attested", sub'[x] = "attested"
  PROVE  now < ClosesAt /\ now < validUntil[x]
<1>1. sub \in [Offers -> SubStates] /\ validUntil[x] \in 0..ClosesAt /\ now \in Nat
  BY StoreAssumption DEF IntakeInv, TypeOK, StoreTypeOK, Times
<1>2. PICK q \in PastClaim : Resolve(offer[q], "attested") /\ offer[q] = x
  BY <1>1, RevisionWriters DEF AppendRevision, Resolve
<1>3. now < validUntil[x]
  BY <1>2 DEF Resolve, CanResolve
<1>4. QED
  BY <1>1, <1>3, StoreAssumption

\* Authority is granted only before the close and within the revision's validity,
\* however long the verifier and the clock of the request took.
THEOREM TimelyGrants == Spec => GrantedInTime
<1>1. IntakeInv /\ [Next]_vars =>
        [\A x \in Offers : sub[x] # "attested" /\ sub'[x] = "attested"
                            => now < ClosesAt /\ now < validUntil[x]]_vars
  BY GrantStep
<1>2. QED
  BY <1>1, IntakeInvariant, PTL DEF Spec, GrantedInTime

\* What each kind of writer may do to a revision without authority.
LEMMA LossStep ==
  ASSUME IntakeInv, [Next]_vars, NEW x \in Offers
  PROVE  /\ sub[x] \in Ended => sub'[x] \in Ended
         /\ sub[x] = "attested" => sub'[x] \in {"attested", "superseded", "executed"}
<1>1. sub \in [Offers -> SubStates]
  BY DEF IntakeInv, TypeOK, StoreTypeOK
<1>2. ASSUME NEW q \in Requests, AppendProgram(q), AppendRevision(offer[q], deadline[q], pc[q] = "displace")
      PROVE  sub'[x] = sub[x] \/ sub[x] = "absent" \/ sub'[x] = "superseded"
  BY <1>1, <1>2, AppendFacts DEF AppendRevision, AppendProgram
<1>3. ASSUME NEW q \in PastClaim, NEW to \in {"verified", "attested", "rejected", "failed"}, Resolve(offer[q], to)
      PROVE  sub'[x] = sub[x] \/ sub[x] \in {"proposed", "verified"}
  BY <1>1, <1>3 DEF Resolve, CanResolve, AllowedTransition
<1>4. QED
  BY <1>2, <1>3, RevisionWriters DEF Ended

\* A revision that lost its authority, or was refused it, stays without it.
THEOREM AuthorityLostForGood == Spec => AuthorityNeverReturns
<1>1. IntakeInv /\ [Next]_vars =>
        [\A x \in Offers :
           /\ sub[x] \in Ended => sub'[x] \in Ended
           /\ sub[x] = "attested" => sub'[x] \in {"attested", "superseded", "executed"}]_vars
  BY LossStep
<1>2. QED
  BY <1>1, IntakeInvariant, PTL DEF Spec, AuthorityNeverReturns

-----------------------------------------------------------------------------
(* The intake implements the authority ledger *)

AttestedOffers == {x \in Offers : sub[x] = "attested"}
RetiredOffers == {x \in Offers : sub[x] \in {"rejected", "failed", "superseded"}}

\* The empty tables are the empty ledger.
LEMMA LedgerInit == Init => Ledger!Init
BY DEF Init, StoreInit, Ledger!Init, Offered, Used

\* Time passes one second at a time, the ledger's Advance, and the intake selects
\* nothing.
LEMMA ClockAdvances ==
  ASSUME [Next]_vars
  PROVE  /\ now' = now \/ now' = now + 1
         /\ (selected' = selected /\ intent' = intent) \/ (UNCHANGED <<sub, selected>> /\ intent = "absent" /\ intent' = "collecting")
<1>1. CASE UNCHANGED vars
  BY <1>1 DEF vars, storeVars
<1>2. CASE (Tick \/ Publish) /\ UNCHANGED intakeVars
  BY <1>2 DEF Tick, Publish, CreateIntent, CreateSnapshot, intentVars, subVars
<1>3. ASSUME NEW q \in Requests, Receive(q) \/ Abort(q) PROVE UNCHANGED <<now, selected, intent>>
  BY <1>3 DEF Receive, ReceiveProgram, ReceiveAbstention, ReceiveRunClaim, Arrive, Abort, storeVars
<1>4. ASSUME NEW q \in Requests, Proceed(q) PROVE UNCHANGED <<now, selected, intent>>
  BY <1>4 DEF Proceed, CreateExternalRun, StartExternalRun, Claim, CreateDecisionRun, StartDecisionRun,
      Abstain, ReadRevisions, AppendProgram, StoreArtifacts, VerifierFails, VerifierAnswers, StoreRefusal,
      StoreAcceptance, VerdictIsUnstorable, StoreResults, StoreVerdict, MarkVerified, RecheckWindow, Attest, CompleteRun, RejectProgram, FailProgram, FailRun, storeVars,
      intentVars, Resolve
<1>5. QED
  BY <1>1, <1>2, <1>3, <1>4 DEF Next

\* A step of the intake leaves the outcome as it is recorded.
LEMMA OutcomeKept ==
  ASSUME IntakeInv, OutcomeRecorded, [Next]_vars
  PROVE  OutcomeRecorded' /\ Used' = Used
<1>1. sub \in [Offers -> SubStates]
  BY DEF IntakeInv, TypeOK, StoreTypeOK
<1>2. CASE UNCHANGED sub
  BY <1>2, ClockAdvances DEF OutcomeRecorded, Used
<1>3. ASSUME NEW q \in Requests, AppendProgram(q), AppendRevision(offer[q], deadline[q], pc[q] = "displace")
      PROVE  OutcomeRecorded' /\ Used' = Used
  <2>1. selected' = selected /\ intent' = intent
    BY <1>3 DEF AppendProgram, intentVars
  <2>2. offer[q] \in Offers /\ sub[offer[q]] = "absent"
    BY <1>3, AppendFacts DEF AppendProgram
  <2>3. \A y \in Offers : sub'[y] \in {"proposed", "superseded", sub[y]} /\ (sub'[y] = "proposed" => y = offer[q] \/ sub[y] = "proposed")
    BY <1>3 DEF AppendRevision
  <2>4. QED
    BY <2>1, <2>2, <2>3 DEF OutcomeRecorded, Used
<1>4. ASSUME NEW q \in PastClaim, NEW to \in {"verified", "attested", "rejected", "failed"}, Resolve(offer[q], to)
      PROVE  OutcomeRecorded' /\ Used' = Used
  <2>1. sub[offer[q]] \in {"proposed", "verified"} /\ sub' = [sub EXCEPT ![offer[q]] = to]
        /\ selected' = selected /\ intent' = intent
    BY <1>4 DEF Resolve, CanResolve, AllowedTransition
  <2>2. QED
    BY <1>1, <2>1 DEF OutcomeRecorded, Used
<1>5. QED
  BY <1>2, <1>3, <1>4, RevisionWriters

\* What was executed is no revision that waits to be decided.
LEMMA UsedIsDecided ==
  ASSUME OutcomeRecorded, NEW x \in Offers, sub[x] \in {"absent", "proposed", "verified", "rejected", "failed"}
  PROVE  x \notin Used
BY DEF OutcomeRecorded, Used

\* An append is the publication of a revision, with its predecessor displaced when
\* it was found verified or attested and has not failed or been executed since.
LEMMA AppendPublishes ==
  ASSUME IntakeInv, OutcomeRecorded, Used' = Used, NEW q \in Requests, AppendProgram(q),
         AppendRevision(offer[q], deadline[q], pc[q] = "displace")
  PROVE  offer[q] \in Offers /\ Ledger!PublishRevision(offer[q])
<1> DEFINE x == offer[q]
           displaced == {y \in {Predecessor(x)} \cap Offers :
                           pc[q] = "displace" /\ sub[y] \in {"verified", "attested", "executed"}} \ Used
<1>1. /\ sub \in [Offers -> SubStates] /\ x \in Offers /\ sub[x] = "absent" /\ IsNextRevision(x)
      /\ pc[q] = "displace" => Predecessor(x) \in Offers /\ sub[Predecessor(x)] \in Displaced
  BY AppendFacts DEF AppendProgram, IntakeInv, TypeOK, StoreTypeOK
<1>2. \A y \in Offers :
        sub'[y] = IF y = x THEN "proposed"
                  ELSE IF pc[q] = "displace" /\ y = Predecessor(x) THEN "superseded"
                  ELSE sub[y]
  BY <1>1 DEF AppendRevision
<1>3. \A y \in Offers : pc[q] = "displace" /\ y = Predecessor(x) => y \in displaced \/ sub[y] = "failed" \/ y \in Used
  BY <1>1 DEF Displaced
<1>4. x \notin Offered /\ (x[2] > 1 => Predecessor(x) \in Offered) /\ x \notin displaced
  BY <1>1, StoreAssumption DEF IsNextRevision, Offered, Offers, Revisions
<1>5. now' = now
  BY DEF AppendProgram
<1>6. displaced \subseteq {Predecessor(x)} \cap (Offered \ ((RetiredOffers \ Used) \cup Used))
  BY DEF Offered, RetiredOffers
<1>7. \A y \in displaced : /\ y \in Offers /\ sub[y] \notin {"absent", "rejected", "failed", "superseded"}
                           /\ y = Predecessor(x) /\ pc[q] = "displace" /\ y \notin Used
  OBVIOUS
<1>8. \A y \in Used : sub[y] # "attested"
  BY UsedIsDecided DEF OutcomeRecorded, Used
<1> HIDE DEF x, displaced
<1>9. Offered' = Offered \cup {x}
  BY <1>1, <1>2 DEF Offered, Displaced
<1>10. AttestedOffers' = AttestedOffers \ displaced
  BY <1>1, <1>2, <1>3, <1>4, <1>7, <1>8 DEF AttestedOffers
<1>11. RetiredOffers' \ Used = (RetiredOffers \ Used) \cup displaced
  BY <1>1, <1>2, <1>3, <1>4, <1>7 DEF RetiredOffers
<1>12. QED
  BY <1>1, <1>4, <1>5, <1>6, <1>9, <1>10, <1>11
  DEF Ledger!PublishRevision, Ledger!Predecessor, Predecessor, AttestedOffers, RetiredOffers, x

\* A decision on a revision is a grant, a retirement, or of no consequence yet.
LEMMA ResolveDecides ==
  ASSUME StoreTypeOK, OutcomeRecorded, Used' = Used, now' = now,
         NEW x \in Offers, NEW to \in {"verified", "attested", "rejected", "failed"},
         Resolve(x, to)
  PROVE  Ledger!Grant(x) \/ Ledger!Retire(x) \/ UNCHANGED Ledger!ledger
<1>1. /\ sub \in [Offers -> SubStates] /\ sub' = [sub EXCEPT ![x] = to]
      /\ sub[x] \in {"proposed", "verified"}
  BY DEF StoreTypeOK, Resolve, CanResolve, AllowedTransition
<1>2. Offered' = Offered /\ x \notin Used /\ x \in Offered
  BY <1>1, UsedIsDecided DEF Offered
<1>3. x \notin AttestedOffers \cup RetiredOffers
  BY <1>1 DEF AttestedOffers, RetiredOffers
<1>4. CASE to = "attested"
  <2>1. now < ClosesAt
    BY <1>4, StoreAssumption DEF StoreTypeOK, Times, Resolve, CanResolve
  <2>2. AttestedOffers' = AttestedOffers \cup {x} /\ RetiredOffers' = RetiredOffers
    BY <1>1, <1>4 DEF AttestedOffers, RetiredOffers
  <2>3. QED
    BY <1>2, <1>3, <2>1, <2>2
    DEF Ledger!Grant, Ledger!Undecided, AttestedOffers, RetiredOffers
<1>5. CASE to \in {"rejected", "failed"}
  <2>1. AttestedOffers' = AttestedOffers /\ RetiredOffers' = RetiredOffers \cup {x}
    BY <1>1, <1>5 DEF AttestedOffers, RetiredOffers
  <2>2. RetiredOffers' \ Used = (RetiredOffers \ Used) \cup {x}
    BY <1>2, <2>1
  <2>3. QED
    BY <1>2, <1>3, <2>1, <2>2 DEF Ledger!Retire, Ledger!Undecided, AttestedOffers, RetiredOffers
<1>6. CASE to = "verified"
  <2>1. AttestedOffers' = AttestedOffers /\ RetiredOffers' = RetiredOffers
    BY <1>1, <1>6 DEF AttestedOffers, RetiredOffers
  <2>2. QED
    BY <1>2, <2>1 DEF Ledger!ledger, AttestedOffers, RetiredOffers
<1>7. QED
  BY <1>4, <1>5, <1>6

\* Every step of the intake is a step of the ledger, or leaves it alone.
LEMMA LedgerStep == IntakeInv /\ OutcomeRecorded /\ [Next]_vars => [Ledger!Next]_(Ledger!ledger)
<1> SUFFICES ASSUME IntakeInv, OutcomeRecorded, [Next]_vars PROVE [Ledger!Next]_(Ledger!ledger)
  OBVIOUS
<1>1. Used' = Used
  BY OutcomeKept
<1>2. CASE UNCHANGED sub
  BY <1>1, <1>2, ClockAdvances DEF Ledger!Next, Ledger!Advance, Ledger!ledger, Offered
<1>3. ASSUME NEW q \in Requests, AppendProgram(q), AppendRevision(offer[q], deadline[q], pc[q] = "displace")
      PROVE  Ledger!Next
  <2>1. offer[q] \in Offers /\ Ledger!PublishRevision(offer[q])
    BY <1>1, <1>3, AppendPublishes
  <2>2. PICK x \in Ledger!Offers : x = offer[q]
    BY <2>1 DEF Ledger!Offers, Ledger!Revisions, Offers, Revisions
  <2>3. Ledger!PublishRevision(x)
    BY <2>1, <2>2 DEF Ledger!PublishRevision, Ledger!Predecessor
  <2>4. QED
    BY <2>3 DEF Ledger!Next
<1>4. ASSUME now' = now, NEW q \in PastClaim, NEW to \in {"verified", "attested", "rejected", "failed"},
             Resolve(offer[q], to)
      PROVE  [Ledger!Next]_(Ledger!ledger)
  <2>1. offer[q] \in Offers
    BY DEF IntakeInv, TypeOK, PastClaim
  <2>2. QED
    BY <1>1, <1>4, <2>1, ResolveDecides DEF IntakeInv, TypeOK, Ledger!Next, Ledger!Offers, Ledger!Revisions, Offers, Revisions
<1>5. QED
  BY <1>2, <1>3, <1>4, RevisionWriters

\* The tables and handlers of the intake implement the authority ledger: authority
\* is granted once, in time, and displaced in order, for every interleaving.
THEOREM IntakeImplementsLedger == Spec => ImplementsLedger
<1>1. Init => OutcomeRecorded
  BY DEF Init, StoreInit, OutcomeRecorded
<1>2. IntakeInv /\ OutcomeRecorded /\ [Next]_vars => OutcomeRecorded'
  BY OutcomeKept
<1>3. QED
  BY <1>1, <1>2, LedgerInit, LedgerStep, IntakeInvariant, PTL DEF Spec, ImplementsLedger, Ledger!Spec
=============================================================================

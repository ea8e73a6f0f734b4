------------------------ MODULE ProgramExecution_proofs ------------------------
(***************************************************************************)
(* Proofs, for any solvers, offers, lanes and number of tabs, that what    *)
(* the routes record as executed was verified, confirmed on the chain and  *)
(* receipted, that an intent has one outcome, and that the routes and the  *)
(* intake together still implement the authority ledger.                   *)
(***************************************************************************)
EXTENDS ProgramExecution, DecisionIntake_proofs

TabSteps == {"idle", "preflight", "attribute", "resolve"}

TabsTypeOK ==
  /\ tabPc \in [Tabs -> TabSteps]
  /\ program \in [Tabs -> Offers \cup {None}]
  /\ handed \subseteq Offers /\ chain \subseteq Offers /\ receipts \subseteq Offers

\* What a tab's route relies on over an await: that the program it works on was
\* found on the chain, and that the artifact it resolves for is stored.
RoutesRely ==
  \A t \in Tabs :
    /\ tabPc[t] # "idle" => program[t] \in Offers
    /\ tabPc[t] = "attribute" => program[t] \in chain
    /\ tabPc[t] = "resolve" => program[t] \in chain \cap receipts

\* The inductive invariant: that of the intake, whose verdicts back what is executed,
\* and what the routes find on the chain and store.
ExecutionInv ==
  /\ IntakeInv
  /\ OutcomeRecorded
  /\ TabsTypeOK
  /\ RoutesRely
  /\ \A x \in Offers : sub[x] = "executed" => x \in chain \cap receipts

-----------------------------------------------------------------------------
\* The intake knows nothing of the routes: of the revisions it never makes one
\* executed that was not.
LEMMA IntakeKeepsExecution ==
  ASSUME ExecutionInv, [Next]_vars, UNCHANGED executionVars
  PROVE  ExecutionInv'
<1>1. IntakeInv' /\ OutcomeRecorded'
  BY NextInv, OutcomeKept DEF ExecutionInv
<1>2. TabsTypeOK' /\ RoutesRely'
  BY DEF ExecutionInv, TabsTypeOK, RoutesRely, executionVars
<1>3. \A x \in Offers : sub'[x] = "executed" => sub[x] = "executed"
  <2>1. sub \in [Offers -> SubStates]
    BY DEF ExecutionInv, IntakeInv, TypeOK, StoreTypeOK
  <2>2. QED
    BY <2>1, RevisionWriters DEF ExecutionInv, AppendRevision, Resolve
<1>4. QED
  BY <1>1, <1>2, <1>3 DEF ExecutionInv, executionVars

\* The routes and the wallet write no row until one resolves.
LEMMA TablesStay ==
  ASSUME ExecutionInv, UNCHANGED <<storeVars, intakeVars>>
  PROVE  IntakeInv' /\ OutcomeRecorded' /\ UNCHANGED <<sub, intent, selected>>
<1>1. UNCHANGED vars
  BY DEF vars
<1>2. UNCHANGED <<sub, intent, selected>>
  BY DEF storeVars
<1>3. QED
  BY <1>1, <1>2, NextInv, OutcomeKept DEF ExecutionInv

\* A tab asks for the calls of a program, is given them, or is refused; its wallet's
\* transactions confirm; its receipt is read and stored; it may die at any await.
LEMMA RoutesKeepExecution ==
  ASSUME ExecutionInv, UNCHANGED <<storeVars, intakeVars>>,
         \/ \E x \in Offers : Confirm(x)
         \/ \E t \in Tabs : \/ AnswerExecution(t) \/ StoreReceipt(t) \/ AbortRoute(t)
                            \/ \E x \in Offers : ReadExecution(t, x) \/ ReadReceipt(t, x)
  PROVE  ExecutionInv'
<1>1. IntakeInv' /\ OutcomeRecorded' /\ UNCHANGED sub
  BY TablesStay
<1> USE DEF ExecutionInv, TabsTypeOK, RoutesRely, TabSteps
<1>2. ASSUME NEW x \in Offers, Confirm(x) PROVE ExecutionInv'
  BY <1>1, <1>2 DEF Confirm, tabVars
<1>3. ASSUME NEW t \in Tabs, NEW x \in Offers, ReadExecution(t, x) \/ ReadReceipt(t, x) PROVE ExecutionInv'
  BY <1>1, <1>3 DEF ReadExecution, ReadReceipt, Open
<1>4. ASSUME NEW t \in Tabs, AnswerExecution(t) PROVE ExecutionInv'
  BY <1>1, <1>4 DEF AnswerExecution, Close
<1>5. ASSUME NEW t \in Tabs, StoreReceipt(t) PROVE ExecutionInv'
  BY <1>1, <1>5 DEF StoreReceipt, Advance, Close
<1>6. ASSUME NEW t \in Tabs, AbortRoute(t) PROVE ExecutionInv'
  BY <1>1, <1>6 DEF AbortRoute, Close
<1>7. QED
  BY <1>2, <1>3, <1>4, <1>5, <1>6

\* What a successful resolution writes.
LEMMA ResolvedAsExecuted ==
  ASSUME ExecutionInv, NEW x \in Offers, Resolve(x, "executed")
  PROVE  /\ sub[x] = "attested" /\ sub' = [sub EXCEPT ![x] = "executed"]
         /\ intent' = "executed" /\ selected' = x
         /\ intent # "executed" /\ \A y \in Offers : sub[y] # "executed"
<1>1. /\ sub[x] = "attested" /\ sub' = [sub EXCEPT ![x] = "executed"]
      /\ intent' = "executed" /\ selected' = x /\ selected \in {None, x}
  BY DEF Resolve, CanResolve, AllowedTransition
<1>2. intent # "executed"
  BY <1>1, NoneIsNoOffer DEF ExecutionInv, OutcomeRecorded
<1>3. QED
  BY <1>1, <1>2 DEF ExecutionInv, OutcomeRecorded

\* The receipt route makes its program the outcome, unless there is one already.
LEMMA ResolveExecutedKeeps ==
  ASSUME ExecutionInv, NEW t \in Tabs, ResolveExecuted(t)
  PROVE  ExecutionInv'
<1> DEFINE x == program[t]
<1>1. /\ x \in Offers /\ x \in chain \cap receipts
      /\ UNCHANGED <<now, snapshot, claims, run, validUntil, verdict, intakeVars, handed, chain, receipts>>
  BY DEF ResolveExecuted, ExecutionInv, RoutesRely
<1>2. TabsTypeOK' /\ RoutesRely'
  BY DEF ResolveExecuted, Close, ExecutionInv, TabsTypeOK, TabSteps, RoutesRely
<1>3. CASE UNCHANGED <<sub, intent, selected>>
  <2>1. UNCHANGED <<storeVars, intakeVars>>
    BY <1>1, <1>3 DEF storeVars
  <2>2. QED
    BY <1>1, <1>2, <2>1, TablesStay DEF ExecutionInv
<1>4. CASE Resolve(x, "executed")
  <2> HIDE DEF x
  <2>1. /\ sub[x] = "attested" /\ sub' = [sub EXCEPT ![x] = "executed"]
        /\ intent' = "executed" /\ selected' = x
    BY <1>1, <1>4, ResolvedAsExecuted
  <2>2. sub \in [Offers -> SubStates] /\ sub'[x] = "executed" /\ \A y \in Offers \ {x} : sub'[y] = sub[y]
    BY <1>1, <2>1 DEF ExecutionInv, IntakeInv, TypeOK, StoreTypeOK
  <2>3. TypeOK'
    BY <1>1, <2>1 DEF ExecutionInv, IntakeInv, TypeOK, StoreTypeOK, IntentStates, SubStates, intakeVars
  <2>4. OneHandlerPerOffer'
    BY <1>1 DEF ExecutionInv, IntakeInv, OneHandlerPerOffer, PastClaim, intakeVars
  <2>5. HandlersOwnTheirRows'
    <3> SUFFICES ASSUME NEW q \in PastClaim'
                 PROVE  LET y == offer[q] IN
                        /\ y \in claims
                        /\ pc[q] = "create" => sub'[y] = "absent" /\ run[y] \in {"absent", "queued", "running"}
                        /\ pc[q] = "start" => sub'[y] = "absent" /\ run[y] \in {"queued", "running"}
                        /\ pc[q] \notin {"create", "start"} => run[y] = "running"
                        /\ pc[q] \in {"abstain", "append", "insert", "displace"} => sub'[y] = "absent"
                        /\ pc[q] \in {"artifacts", "verify", "accepted", "refused",
                                         "results", "mark", "reject"} => sub'[y] = "proposed"
                        /\ pc[q] \in {"results", "mark"} => verdict[y] = "accepted"
                        /\ pc[q] \in {"expiry", "attest"} => sub'[y] \in {"verified", "superseded"}
                        /\ pc[q] = "complete" => sub'[y] \in {"attested", "superseded", "executed"}
                        /\ pc[q] = "cleanup" => sub'[y] \in {"proposed", "verified", "superseded"}
                        /\ pc[q] = "failRun" => sub'[y] \in {"absent", "rejected", "failed", "superseded"}
      BY <1>1 DEF HandlersOwnTheirRows, PastClaim, intakeVars
    <3>1. q \in PastClaim /\ offer[q] \in Offers /\ pc[q] \in Steps
      BY <1>1 DEF PastClaim, intakeVars, ExecutionInv, IntakeInv, TypeOK
    <3>2. offer[q] = x => pc[q] = "complete"
      BY <2>1, <3>1 DEF ExecutionInv, IntakeInv, HandlersOwnTheirRows, PastClaim, Steps
    <3>3. QED
      BY <2>2, <3>1, <3>2 DEF ExecutionInv, IntakeInv, HandlersOwnTheirRows
  <2>6. Offered' = Offered
    BY <1>1, <2>1, <2>2 DEF Offered
  <2>7. AppendsOwnTheSolver'
    <3> SUFFICES ASSUME NEW q \in Appending'
                 PROVE  LET y == offer[q] IN
                        /\ \A p \in Appending : offer[p][1] = y[1] => p = q
                        /\ IsNextRevision(y)'
                        /\ pc[q] = "displace" =>
                             /\ y[2] > 1 /\ verdict[Predecessor(y)] = "accepted"
                             /\ sub'[Predecessor(y)] \in {"verified", "attested", "executed", "failed"}
      BY <1>1 DEF AppendsOwnTheSolver, Appending, intakeVars, IsNextRevision, Predecessor
    <3>1. q \in Appending
      BY <1>1 DEF Appending, intakeVars
    <3>2. IsNextRevision(offer[q])'
      BY <1>1, <2>6, <3>1 DEF IsNextRevision, ExecutionInv, IntakeInv, AppendsOwnTheSolver, intakeVars
    <3>3. pc[q] = "displace" => Predecessor(offer[q]) \in Offers
      BY <3>1, AppendFacts DEF ExecutionInv
    <3>4. QED
      BY <1>1, <2>2, <3>1, <3>2, <3>3 DEF ExecutionInv, IntakeInv, AppendsOwnTheSolver, IsNextRevision, intakeVars
  <2>8. TablesAgree'
    BY <1>1, <2>1, <2>2, <2>6 DEF ExecutionInv, IntakeInv, TablesAgree
  <2>9. AuthorityIsVerified'
    BY <1>1, <2>1, <2>2 DEF ExecutionInv, IntakeInv, AuthorityIsVerified
  <2>10. HistoryIsContiguous'
    BY <1>1, <2>1, <2>2, <2>6 DEF ExecutionInv, IntakeInv, HistoryIsContiguous, Offered
  <2>11. OutcomeRecorded'
    BY <1>1, <1>4, <2>1, <2>2, ResolvedAsExecuted DEF OutcomeRecorded
  <2>12. \A y \in Offers : sub'[y] = "executed" => y \in chain' \cap receipts'
    BY <1>1, <2>2 DEF ExecutionInv
  <2>13. QED
    BY <1>2, <2>3, <2>4, <2>5, <2>7, <2>8, <2>9, <2>10, <2>11, <2>12 DEF ExecutionInv, IntakeInv
<1>5. QED
  BY <1>3, <1>4 DEF ResolveExecuted

-----------------------------------------------------------------------------
(* The invariant *)

\* Empty tables and idle tabs.
LEMMA ExecutionBegins == ExecutionInit => ExecutionInv
<1> SUFFICES ASSUME ExecutionInit PROVE ExecutionInv
  OBVIOUS
<1>1. IntakeInv
  BY InitInv DEF ExecutionInit, RoutesInit
<1>2. \A x \in Offers : sub[x] = "absent"
  BY DEF ExecutionInit, RoutesInit, Init, StoreInit
<1>3. OutcomeRecorded
  BY <1>2 DEF ExecutionInit, RoutesInit, Init, StoreInit, OutcomeRecorded
<1>4. TabsTypeOK /\ RoutesRely
  BY DEF ExecutionInit, RoutesInit, TabsTypeOK, TabSteps, RoutesRely
<1>5. QED
  BY <1>1, <1>2, <1>3, <1>4 DEF ExecutionInv

\* A step is of the intake, of a route that writes no table, or the resolution of a
\* receipt.
LEMMA ExecutionSteps ==
  ASSUME [ExecutionNext]_allVars
  PROVE  \/ [Next]_vars /\ UNCHANGED executionVars
         \/ /\ UNCHANGED <<storeVars, intakeVars>>
            /\ \/ \E x \in Offers : Confirm(x)
               \/ \E t \in Tabs : \/ AnswerExecution(t) \/ StoreReceipt(t) \/ AbortRoute(t)
                                  \/ \E x \in Offers : ReadExecution(t, x) \/ ReadReceipt(t, x)
         \/ \E t \in Tabs : ResolveExecuted(t)
<1>1. CASE UNCHANGED allVars
  BY <1>1 DEF allVars, vars
<1>2. CASE Next /\ UNCHANGED executionVars
  BY <1>2
<1>3. ASSUME NEW x \in Offers, Confirm(x) PROVE UNCHANGED <<storeVars, intakeVars>>
  BY <1>3 DEF Confirm
<1>4. ASSUME NEW t \in Tabs, \/ AnswerExecution(t) \/ StoreReceipt(t) \/ AbortRoute(t)
                             \/ \E x \in Offers : ReadExecution(t, x) \/ ReadReceipt(t, x)
      PROVE  UNCHANGED <<storeVars, intakeVars>>
  BY <1>4 DEF AnswerExecution, StoreReceipt, AbortRoute, ReadExecution, ReadReceipt
<1>5. QED
  BY <1>1, <1>2, <1>3, <1>4 DEF ExecutionNext, RouteStep

\* Every step of the intake, the routes, the wallet and the chain.
LEMMA ExecutionGoesOn == ExecutionInv /\ [ExecutionNext]_allVars => ExecutionInv'
BY ExecutionSteps, IntakeKeepsExecution, RoutesKeepExecution, ResolveExecutedKeeps

\* The invariant of the tables holds while programs are executed as well: the
\* receipt route never disturbs what a handler of decision-intake.ts relies on.
THEOREM ExecutionInvariant == ExecutionSpec => []ExecutionInv
<1>1. ExecutionInit => ExecutionInv
  BY ExecutionBegins
<1>2. ExecutionInv /\ [ExecutionNext]_allVars => ExecutionInv'
  BY ExecutionGoesOn
<1>3. QED
  BY <1>1, <1>2, PTL DEF ExecutionSpec

\* An executed submission was accepted by the verifier, its transactions are on the
\* chain and its receipt is stored, whichever tabs reported it (the receipt route,
\* solver-submissions.ts).
THEOREM ExecutionIsBacked == ExecutionSpec => []ExecutedIsBacked
<1>1. ExecutionInv => ExecutedIsBacked
  BY DEF ExecutionInv, IntakeInv, AuthorityIsVerified, ExecutedIsBacked
<1>2. QED
  BY <1>1, ExecutionInvariant, PTL

\* Two programs of an intent may both confirm, but the intent records one of them as
\* its outcome, and no other submission of it is ever executed.
THEOREM ExecutionHasOneOutcome == ExecutionSpec => []OneOutcome
<1>1. ExecutionInv => OneOutcome
  BY DEF ExecutionInv, OutcomeRecorded, OneOutcome
<1>2. QED
  BY <1>1, ExecutionInvariant, PTL

-----------------------------------------------------------------------------
(* The ledger, with executions *)

\* The resolution of a receipt is the use of a revision that has authority, the first.
LEMMA ResolveExecutedUses ==
  ASSUME ExecutionInv, NEW t \in Tabs, ResolveExecuted(t)
  PROVE  [Ledger!Next]_(Ledger!ledger)
<1> DEFINE x == program[t]
<1>1. x \in Offers /\ now' = now
  BY DEF ResolveExecuted, ExecutionInv, RoutesRely
<1>2. CASE UNCHANGED <<sub, intent, selected>>
  BY <1>1, <1>2 DEF Ledger!ledger, Offered, Used
<1>3. CASE Resolve(x, "executed")
  <2>1. /\ sub[x] = "attested" /\ sub' = [sub EXCEPT ![x] = "executed"]
        /\ intent' = "executed" /\ selected' = x /\ intent # "executed"
        /\ sub \in [Offers -> SubStates]
    BY <1>1, <1>3, ResolvedAsExecuted DEF ExecutionInv, IntakeInv, TypeOK, StoreTypeOK
  <2> HIDE DEF x
  <2>2. Used = {} /\ Used' = {x} /\ x \in AttestedOffers
    BY <1>1, <2>1 DEF Used, AttestedOffers
  <2>3. Offered' = Offered
    BY <1>1, <2>1 DEF Offered
  <2>4. AttestedOffers' = AttestedOffers \ {x}
    BY <1>1, <2>1 DEF AttestedOffers
  <2>5. RetiredOffers' = RetiredOffers /\ x \notin RetiredOffers
    BY <1>1, <2>1 DEF RetiredOffers
  <2>6. RetiredOffers' \ Used' = RetiredOffers \ Used
    BY <2>2, <2>5
  <2>7. Ledger!Use(x)
    BY <1>1, <2>2, <2>3, <2>4, <2>6 DEF Ledger!Use, AttestedOffers, RetiredOffers
  <2>8. PICK y \in Ledger!Offers : y = x
    BY <1>1 DEF Ledger!Offers, Ledger!Revisions, Offers, Revisions
  <2>9. Ledger!Use(y)
    BY <2>7, <2>8 DEF Ledger!Use
  <2>10. QED
    BY <2>9 DEF Ledger!Next
<1>4. QED
  BY <1>2, <1>3 DEF ResolveExecuted

\* Every step of the intake and the routes is a step of the ledger, or leaves it alone.
LEMMA ExecutionLedgerStep ==
  ExecutionInv /\ [ExecutionNext]_allVars => [Ledger!Next]_(Ledger!ledger)
<1> SUFFICES ASSUME ExecutionInv, [ExecutionNext]_allVars PROVE [Ledger!Next]_(Ledger!ledger)
  OBVIOUS
<1>1. CASE [Next]_vars
  BY <1>1, LedgerStep DEF ExecutionInv
<1>2. CASE UNCHANGED <<storeVars, intakeVars>>
  BY <1>2 DEF Ledger!ledger, Offered, Used, storeVars
<1>3. ASSUME NEW t \in Tabs, ResolveExecuted(t) PROVE [Ledger!Next]_(Ledger!ledger)
  BY <1>3, ResolveExecutedUses
<1>4. QED
  BY <1>1, <1>2, <1>3, ExecutionSteps

\* With executions the tables still implement the ledger: a program is used at most
\* once for an intent, and only one that had authority when it was resolved.
THEOREM ExecutionImplementsLedger == ExecutionSpec => ImplementsLedger
<1>1. ExecutionInit => Ledger!Init
  BY LedgerInit DEF ExecutionInit, RoutesInit
<1>2. QED
  BY <1>1, ExecutionLedgerStep, ExecutionInvariant, PTL DEF ExecutionSpec, ImplementsLedger, Ledger!Spec
=============================================================================

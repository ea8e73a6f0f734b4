--------------------------------- MODULE MCLive ---------------------------------
(* Executions, and what must eventually happen, for TLC: a behaviour is one of the *)
(* program routes beside the intake, of the intake when no request dies, of the    *)
(* owner's page for a staged program, or of a client of its routes that keeps      *)
(* asking ("part").                                                                *)
EXTENDS ProgramExecution

CONSTANTS q1, q2, s1, s2, t1, t2, null, Parts

\* A batch of s1's may be followed by an atomic program of s2.
SecondIsAtomic == {<<s2, 1>>}

VARIABLES
  part,
  authority, progress, stage, nonce, hash, receipt, delivery, sent, block, deep, arrived,
  given, call, shown, todo   \* of the staged program

\* The intake of a policy with an objective for the revisions of s1 only.
Scored == {<<s1, 1>>}
Fair == INSTANCE DecisionIntake WITH
  Requests <- {q1, q2}, Faults <- {"caught"}, Unscored <- Offers \ Scored

\* One stage on Ethereum and one on X Layer; the owner's other transactions, or
\* reorganisations, join in.
Staged == INSTANCE StagedPage WITH
  Last <- 2, ChainOf <- <<1, 196>>, MaxNonce <- 1, Tabs <- {t1}, Page <- t1,
  Mishaps <- {{"abort", "divert", "revoke"}, {"abort", "redeliver", "reorganise", "revoke"}},
  program <- progress, handed <- given

stagedVars == <<authority, progress, stage, nonce, hash, receipt, delivery, sent, block, deep, arrived,
                given, call, shown, todo>>
liveVars == <<part, allVars, stagedVars>>

LiveInit ==
  /\ part \in Parts
  /\ IF part = "intake" THEN Fair!Init ELSE Init
  /\ RoutesInit /\ Staged!PageInit

\* No request dies.
FairNext ==
  \/ (Tick \/ Publish) /\ UNCHANGED intakeVars
  \/ \E q \in {q1, q2} : Fair!Receive(q) \/ Fair!Proceed(q)

\* No call of the client dies, and the owner does nothing else with the wallet.
ClientNext ==
  /\ Staged!BeginCall(t1) \/ Staged!CallStep(t1) \/ Staged!ChainStep
  /\ \A c \in Staged!Chains : 0 \notin {sent'[c][i] : i \in DOMAIN sent'[c]}

LiveNext ==
  /\ part' = part
  /\ CASE part = "program" -> ExecutionNext
       [] part = "intake" -> FairNext /\ UNCHANGED executionVars
       [] OTHER -> UNCHANGED allVars
  /\ CASE part = "page" -> Staged!PageNext
       [] part = "client" -> ClientNext /\ UNCHANGED <<shown, todo>>
       [] OTHER -> UNCHANGED stagedVars

Of(which, A) == part = which /\ A /\ UNCHANGED <<part, allVars>>
Verified == Staged!VerifyBridge(t1) /\ call'[t1].at = "record" /\ UNCHANGED <<shown, todo>>

\* FairSpec of the intake, PageSpec of the page, and FairSpec of the client.
LiveSpec ==
  /\ LiveInit /\ [][LiveNext]_liveVars
  /\ \A q \in {q1, q2} :
       WF_liveVars(/\ part = "intake" /\ Fair!Proceed(q)
                   /\ UNCHANGED <<part, executionVars, stagedVars>>)
  /\ WF_liveVars(Of("page", Staged!Click)) /\ WF_liveVars(Of("page", Staged!Browser))
  /\ WF_liveVars(Of("page", Staged!Server)) /\ SF_liveVars(Of("page", Verified))
  /\ WF_liveVars(Of("client", Staged!CallStep(t1) /\ UNCHANGED <<shown, todo>>))
  /\ SF_liveVars(Of("client", Verified))
  /\ \A s \in Staged!Stages :
       SF_liveVars(Of("client", Staged!BeginReconcile(t1, s) /\ UNCHANGED <<shown, todo>>))
  /\ \A c \in Staged!Chains, n \in Staged!Places :
       WF_liveVars(/\ part \in {"page", "client"} /\ Staged!Deepen(c, n)
                   /\ UNCHANGED <<part, allVars, shown, todo>>)

\* Every stored program whose verdict can be stored gets past "proposed": it is
\* verified, rejected or failed, though the verifier throws, an append fails, or an
\* insert fails inside the try blocks (DecisionIntake, ProposalsAreDecided).
ScoredProposalsAreDecided ==
  \A x \in Scored : (part = "intake" /\ sub[x] = "proposed") ~> sub[x] # "proposed"

\* What the page calls final is final or frozen in the tables, and a stage it
\* offers to confirm again was never reported as sent by it.
ShownIsStored == Staged!ShownIsStored

\* A stage whose transaction is on the chain does not stay submitted while the program
\* has authority, whether the page or a client asks for it.
ReceiptsAreReconciled == Staged!ReceiptsAreReconciled

\* A client that keeps asking gets deliveries recorded; the page's button does not.
ClientDeliveriesAreRecorded ==
  \A s \in Staged!Stages :
    (part = "client" /\ stage[s] = "finalized" /\ arrived[s] \in Staged!Evidence)
      ~> ~(stage[s] = "finalized" /\ Staged!Live)
=============================================================================

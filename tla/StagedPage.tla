------------------------------- MODULE StagedPage -------------------------------
(***************************************************************************)
(* The owner's page for a general-asset program, which drives the routes   *)
(* of StagedExecution.  The page asks for what its buttons offer, and      *)
(* which buttons it offers depends on the states it was last told.         *)
(***************************************************************************)
EXTENDS StagedExecution

CONSTANT Page   \* the tab that shows the page

\* One tab is the page's, and None, no review yet, is none of the reviews it can show.
ASSUME PageAssumption ==
  /\ Page \in Tabs
  /\ None \notin [Stages -> StageStates \cup {"pending"}]

VARIABLES
  shown,  \* the state the page shows of each stage, or None before the review
  todo    \* what confirming a stage has left to do once its call is answered

pageVars == <<vars, shown, todo>>

Nothing == [at |-> "none", goal |-> 1, place |-> None]

PageInit == Init /\ shown = None /\ todo = Nothing

Done(s) == shown[s] \in {"delivered", "confirmed"}
Active(s) == shown # None /\ ~Done(s) /\ \A r \in 1..(s - 1) : Done(r)

-----------------------------------------------------------------------------
(* The buttons *)

Free == todo = Nothing /\ UNCHANGED <<shown, todo>>

ClickReview == Free /\ shown = None /\ BeginReview(Page)

ClickConfirm(s) ==
  Free /\ Active(s) /\ shown[s] \in {"pending", "prepared"} /\ BeginArm(Page, s)

ClickFinality(s) == Free /\ Active(s) /\ shown[s] = "submitted" /\ BeginReconcile(Page, s)

\* "Check bridge delivery" loads the review again.
ClickDelivery(s) ==
  Free /\ Active(s) /\ shown[s] = "finalized" /\ Bridge(s) /\ BeginReview(Page)

-----------------------------------------------------------------------------
(* The rest of executeStage, once a stage is armed *)

WalletSends ==
  /\ todo.at = "send"
  /\ Send(todo.goal, todo.place)
  /\ todo' = [todo EXCEPT !.at = "report"]
  /\ UNCHANGED shown

WalletRefuses ==
  /\ todo.at = "send" /\ May("abort")
  /\ todo' = Nothing
  /\ UNCHANGED <<vars, shown>>

Report ==
  /\ todo.at = "report"
  /\ BeginSubmitted(Page, todo.goal, todo.place)
  /\ UNCHANGED <<shown, todo>>

CheckOnce ==
  /\ todo.at = "check"
  /\ BeginReconcile(Page, todo.goal)
  /\ todo' = Nothing
  /\ UNCHANGED shown

\* Mutant: an armed stage is shown as submitted before the wallet is asked.
ShowsEarly(kind, s, value) ==
  CASE kind = "review" -> [r \in Stages |-> IF r = 1 THEN value ELSE "pending"]
    [] kind \in {"arm", "submitted"} -> [shown EXCEPT ![s] = "submitted"]
    [] kind = "reconcile" -> [shown EXCEPT ![s] = value]

\* An error ends what the page was doing; an answer is shown.
Shows(kind, s, value) ==
  CASE kind = "review" -> [r \in Stages |-> IF r = 1 THEN value ELSE "pending"]
    [] kind = "submitted" -> [shown EXCEPT ![s] = "submitted"]
    [] kind = "reconcile" -> [shown EXCEPT ![s] = value]
    [] kind = "arm" -> shown

Continues(kind, s, value) ==
  CASE kind = "arm" -> [at |-> "send", goal |-> s, place |-> value]
    [] kind = "submitted" -> [at |-> "check", goal |-> s, place |-> None]
    [] OTHER -> Nothing

PageReceive ==
  LET c == call[Page] IN
  /\ Receive(Page)
  /\ IF c.seen = None THEN shown' = shown /\ todo' = Nothing
     ELSE shown' = Shows(c.kind, c.goal, c.seen) /\ todo' = Continues(c.kind, c.goal, c.seen)

-----------------------------------------------------------------------------
Server ==
  /\ \/ Submit(Page) \/ ReadReceipt(Page) \/ ReadCanonical(Page) \/ Reconcile(Page)
     \/ VerifyBridge(Page) \/ RecordBridge(Page) \/ ReadNonce(Page) \/ Prepare(Page) \/ Arm(Page)
  /\ UNCHANGED <<shown, todo>>

World ==
  /\ \/ \E s \in Stages : Arrives(s)
     \/ \E c \in Chains : SendOther(c) \/ \E n \in Places : Mine(c, n) \/ Reorganise(c, n) \/ Deepen(c, n)
     \/ Revoke
  /\ UNCHANGED <<shown, todo>>

Click == ClickReview \/ \E s \in Stages : ClickConfirm(s) \/ ClickFinality(s) \/ ClickDelivery(s)

Browser == WalletSends \/ WalletRefuses \/ Report \/ CheckOnce \/ PageReceive

PageNext == Click \/ Browser \/ Server \/ World

\* The owner keeps using the button the page offers; the server answers, chains
\* finalise, and a delivery that can be verified sooner or later is.
PageSpec ==
  /\ PageInit /\ [][PageNext]_pageVars
  /\ WF_pageVars(Click) /\ WF_pageVars(Browser) /\ WF_pageVars(Server)
  /\ SF_pageVars(VerifyBridge(Page) /\ call'[Page].at = "record" /\ UNCHANGED <<shown, todo>>)
  /\ \A c \in Chains, n \in Places : WF_pageVars(Deepen(c, n) /\ UNCHANGED <<shown, todo>>)

-----------------------------------------------------------------------------
\* What the page calls final is final or frozen in the tables, and a stage it
\* offers to confirm again was never reported as sent by it.
ShownIsStored ==
  shown # None => \A s \in Stages :
    /\ Done(s) => stage[s] \in {shown[s], "reconciliation_required"}
    /\ shown[s] \in {"submitted", "finalized"} => hash[s] # None
=============================================================================

---------------------------- MODULE StagedExecution ----------------------------
(***************************************************************************)
(* Execution of an attested general-asset program: wallet transactions on  *)
(* several chains, one stage after the other, joined by bridges.  The      *)
(* tables and transactions of general-asset-executions.ts, the calls of    *)
(* the review and stage routes, one step per await, from any number of     *)
(* browser tabs, and the chains that mine, reorganise and deliver.         *)
(***************************************************************************)
EXTENDS Integers, Sequences

CONSTANTS
  Last,       \* the number of stages; stage s is the bundle's stages[s - 1]
  ChainOf,    \* the chain of each stage
  MaxNonce,   \* bound on the owner's transactions per chain
  Tabs,       \* bound on the calls in flight at once
  Mishaps,    \* bound: which mishaps may happen together, as sets of kinds
  None        \* the null of a nullable column

Stages == 1..Last
Chains == {ChainOf[s] : s \in Stages}
Nonces == 0..MaxNonce
Places == 0..(MaxNonce - 1)   \* the nonces a transaction was sent with

ASSUME StagedAssumption ==
  /\ Last \in 1..8
  /\ MaxNonce \in Nat
  /\ DOMAIN ChainOf = Stages
  /\ Mishaps \subseteq SUBSET {"abort", "divert", "redeliver", "reorganise", "revoke"}
  /\ None \notin Nonces
  /\ None \notin {"none", "b1", "b2", "reverted", "short", "d1", "d2"}

\* The bundle schema: a stage ends in a bridge when the next is on another chain,
\* and in nothing when it is the last or the next is on the same chain.
Bridge(s) == s < Last /\ ChainOf[s] # ChainOf[s + 1]

VARIABLES
  authority,  \* the submission is attested and its deadline has not passed
  program,    \* cobia_general_asset_programs.state, or "absent"
  stage,      \* cobia_general_asset_stages.state, or "absent"
  nonce,      \* expected_nonce
  hash,       \* transaction_hash: the place of the transaction on the stage's chain
  receipt,    \* the block of the receipt stored for the stage
  delivery,   \* the delivery evidence stored for the stage
  sent,       \* the owner's transactions on each chain, by nonce: a stage's, or 0
  block,      \* the canonical block of each, or how it failed there
  deep,       \* whether that block has the required confirmations
  arrived,    \* the bridge's delivery of each stage on the destination chain
  handed,     \* the stage transactions a wallet has been asked to send
  call        \* the call each tab has in flight

tables == <<program, stage, nonce, hash, receipt, delivery>>
chains == <<sent, block, deep, arrived>>
vars == <<authority, tables, chains, handed, call>>

StageStates == {"absent", "prepared", "broadcasting", "submitted", "finalized", "delivered",
                "confirmed", "reconciliation_required"}
Recorded == {"submitted", "finalized", "delivered", "confirmed"}
Evidence == {"d1", "d2"}
Failures == {"reverted", "short"}   \* "short": less than the final output was received
Idle == [kind |-> "none", at |-> "idle", goal |-> 1, seen |-> None]

\* A mishap may join those that have left a trace, when they may happen together.
May(m) ==
  \E together \in Mishaps :
    /\ m \in together
    /\ "revoke" \notin together => authority
    /\ "divert" \notin together => \A c \in Chains : \A i \in DOMAIN sent[c] : sent[c][i] # 0
    /\ "reorganise" \notin together => \A c \in Chains, n \in Places : block[c][n] # "b2"
    /\ "redeliver" \notin together => \A s \in Stages : arrived[s] # "d2"

Init ==
  /\ authority = TRUE
  /\ program = "absent"
  /\ stage = [s \in Stages |-> "absent"]
  /\ nonce = [s \in Stages |-> None] /\ hash = [s \in Stages |-> None]
  /\ receipt = [s \in Stages |-> None] /\ delivery = [s \in Stages |-> None]
  /\ sent = [c \in Chains |-> <<>>]
  /\ block = [c \in Chains |-> [n \in Places |-> "none"]]
  /\ deep = [c \in Chains |-> [n \in Places |-> FALSE]]
  /\ arrived = [s \in Stages |-> "none"]
  /\ handed = {}
  /\ call = [t \in Tabs |-> Idle]

-----------------------------------------------------------------------------
(* The repository transactions *)

\* Mutant: a source stage that is final opens the destination.
PredecessorFinal(s) == s > 1 => stage[s - 1] \in {"finalized", "delivered", "confirmed"}

PredecessorReady(s) == s > 1 => stage[s - 1] \in {"delivered", "confirmed"}

\* markReconciliation: a stage that is marked already is left alone.
Mark(s) ==
  /\ IF stage[s] = "reconciliation_required" THEN UNCHANGED <<stage, program>>
     ELSE stage' = [stage EXCEPT ![s] = "reconciliation_required"] /\ program' = "reconciliation_required"
  /\ UNCHANGED <<nonce, hash, receipt, delivery>>

\* A stored stage is returned when the request repeats it exactly, its nonce too;
\* a new one needs the predecessor's bridge to have delivered.
CanPrepare(s, n) ==
  IF stage[s] # "absent" THEN nonce[s] = n
  ELSE /\ program \in {"absent", "active"}
       /\ s > 1 => Bridge(s - 1)
       /\ PredecessorReady(s)

\* Mutant: the program's row is written again with every stage that is prepared.
PrepareStageAfresh(s, n) ==
  /\ CanPrepare(s, n) /\ program' = "active"
  /\ IF stage[s] # "absent" THEN UNCHANGED <<stage, nonce>>
     ELSE stage' = [stage EXCEPT ![s] = "prepared"] /\ nonce' = [nonce EXCEPT ![s] = n]
  /\ UNCHANGED <<hash, receipt, delivery>>

PrepareStage(s, n) ==
  /\ CanPrepare(s, n)
  /\ IF stage[s] # "absent" THEN UNCHANGED <<program, stage, nonce>>
     ELSE /\ program' = "active"
          /\ stage' = [stage EXCEPT ![s] = "prepared"]
          /\ nonce' = [nonce EXCEPT ![s] = n]
  /\ UNCHANGED <<hash, receipt, delivery>>

CanArm(s) ==
  /\ program = "active"
  /\ stage[s] = "broadcasting" \/ (stage[s] = "prepared" /\ PredecessorReady(s))

ArmStage(s) ==
  /\ CanArm(s)
  /\ stage' = [stage EXCEPT ![s] = "broadcasting"]
  /\ UNCHANGED <<program, nonce, hash, receipt, delivery>>

HashTaken(s, h) == \E r \in Stages \ {s} : ChainOf[r] = ChainOf[s] /\ hash[r] = h

\* The same hash again is returned; a second hash freezes the program.
CanRecord(s, h) ==
  \/ hash[s] = h /\ stage[s] \in Recorded
  \/ program = "active" /\ hash[s] \notin {None, h}
  \/ program = "active" /\ hash[s] = None /\ stage[s] = "broadcasting" /\ ~HashTaken(s, h)

RecordSubmission(s, h) ==
  /\ CanRecord(s, h)
  /\ CASE hash[s] = h -> UNCHANGED tables
       [] hash[s] \notin {None, h} -> Mark(s)
       [] hash[s] = None -> /\ stage' = [stage EXCEPT ![s] = "submitted"]
                            /\ hash' = [hash EXCEPT ![s] = h]
                            /\ UNCHANGED <<program, nonce, receipt, delivery>>

\* reconcileReceiptV4 on what was read of the chain.
Exact(s) == hash[s] = nonce[s] /\ sent[ChainOf[s]][hash[s] + 1] = s

\* Mutants: whose transaction it is, or whether it succeeded, is not compared.
VerdictOfAny(s, seen) ==
  IF seen.block = "reverted" \/ ~seen.canonical THEN "mismatch"
  ELSE IF ~seen.deep THEN "pending" ELSE IF seen.block = "short" THEN "mismatch" ELSE "final"

Verdict(s, seen) ==
  IF ~Exact(s) \/ seen.block = "reverted" \/ ~seen.canonical THEN "mismatch"
  ELSE IF ~seen.deep THEN "pending"
  ELSE IF seen.block # "short" /\ receipt[s] \in {None, seen.block} THEN "final" ELSE "mismatch"

\* A last stage is not confirmed while the program is to be reconciled: the row of
\* the program would be confirmed with a failure code, which its check forbids.
CanReconcile(s, seen) ==
  /\ stage[s] \in Recorded \cup {"reconciliation_required"}
  /\ stage[s] = "submitted" /\ ~Bridge(s) /\ Verdict(s, seen) = "final"
       => program # "reconciliation_required"

\* Mutant: the receipt is stored and the stage is not moved.
FinalizeReceiptOnly(s, seen) ==
  receipt' = [receipt EXCEPT ![s] = seen.block] /\ UNCHANGED <<program, stage, nonce, hash, delivery>>

\* Mutant: any stage's final receipt confirms the program.
FinalizeProgram(s, seen) ==
  /\ receipt' = [receipt EXCEPT ![s] = seen.block]
  /\ stage' = [stage EXCEPT ![s] = IF @ # "submitted" THEN @
                                   ELSE IF Bridge(s) THEN "finalized" ELSE "confirmed"]
  /\ program' = IF stage[s] = "submitted" THEN "confirmed" ELSE program
  /\ UNCHANGED <<nonce, hash, delivery>>

Finalize(s, seen) ==
  /\ receipt' = [receipt EXCEPT ![s] = seen.block]
  /\ stage' = [stage EXCEPT ![s] = IF @ # "submitted" THEN @
                                   ELSE IF Bridge(s) THEN "finalized" ELSE "confirmed"]
  /\ program' = IF stage[s] = "submitted" /\ ~Bridge(s) THEN "confirmed" ELSE program
  /\ UNCHANGED <<nonce, hash, delivery>>

ReconcileReceipt(s, seen) ==
  /\ CanReconcile(s, seen)
  /\ IF stage[s] = "reconciliation_required" THEN UNCHANGED tables
     ELSE CASE Verdict(s, seen) = "pending" -> UNCHANGED tables
            [] Verdict(s, seen) = "mismatch" -> Mark(s)
            [] Verdict(s, seen) = "final" -> Finalize(s, seen)

CanRecordDelivery(s) == delivery[s] # None \/ (program = "active" /\ stage[s] = "finalized")

\* Evidence that differs from what is stored freezes the program.
RecordBridgeDelivery(s, e) ==
  /\ CanRecordDelivery(s)
  /\ CASE delivery[s] = e -> UNCHANGED tables
       [] delivery[s] \notin {None, e} -> Mark(s)
       [] delivery[s] = None -> /\ delivery' = [delivery EXCEPT ![s] = e]
                                /\ stage' = [stage EXCEPT ![s] = "delivered"]
                                /\ UNCHANGED <<program, nonce, hash, receipt>>

-----------------------------------------------------------------------------
(* The calls: authority and deadline are read once, when a call begins *)

Quiet == UNCHANGED <<authority, tables, chains, handed>>
Writes == UNCHANGED <<authority, chains, handed>>

Goto(t, at, seen) == call' = [call EXCEPT ![t].at = at, ![t].seen = seen]
Answer(t, value) == Goto(t, "answered", value)

\* A repository transaction that throws is answered with an error, None.
Throws(t) == UNCHANGED tables /\ Answer(t, None)

Begin(t, kind, s, at, seen) ==
  /\ call[t].at = "idle" /\ authority
  /\ call' = [call EXCEPT ![t] = [kind |-> kind, at |-> at, goal |-> s, seen |-> seen]]
  /\ Quiet

\* The review prepares the first stage.
BeginReview(t) == Begin(t, "review", 1, "nonce", None)

\* Arming a destination stage reconciles its predecessor first.
BeginArm(t, s) ==
  \/ s = 1 /\ Begin(t, "arm", s, "nonce", None)
  \/ s > 1 /\ Bridge(s - 1) /\ hash[s - 1] # None /\ Begin(t, "arm", s, "receipt", None)

BeginReconcile(t, s) == hash[s] # None /\ Begin(t, "reconcile", s, "receipt", None)

\* The owner's client reports one of the owner's transactions.
BeginSubmitted(t, s, h) == h < Len(sent[ChainOf[s]]) /\ Begin(t, "submitted", s, "submit", h)

Submit(t) ==
  LET s == call[t].goal
      h == call[t].seen IN
  /\ call[t].at = "submit"
  /\ \/ RecordSubmission(s, h) /\ Answer(t, stage'[s])
     \/ ~CanRecord(s, h) /\ Throws(t)
  /\ Writes

-----------------------------------------------------------------------------
(* live-stage-reconciliation.ts, of the stage named or of an arm's predecessor *)

Part(t) == IF call[t].kind = "arm" THEN call[t].goal - 1 ELSE call[t].goal

\* It was the whole call, or the arm goes on.
Reconciled(t) ==
  IF call[t].kind = "arm" THEN Goto(t, "nonce", None) ELSE Answer(t, stage'[call[t].goal])

BlockOf(s) == block[ChainOf[s]][hash[s]]

ReadReceipt(t) ==
  LET b == BlockOf(Part(t)) IN
  /\ call[t].at = "receipt"
  /\ Quiet
  /\ IF b = "none" THEN Reconciled(t) ELSE Goto(t, "canonical", b)

ReadCanonical(t) ==
  LET s == Part(t) IN
  /\ call[t].at = "canonical"
  /\ Goto(t, "reconcile", [block |-> call[t].seen, canonical |-> BlockOf(s) = call[t].seen,
                           deep |-> deep[ChainOf[s]][hash[s]]])
  /\ Quiet

\* Mutant: the bridge is looked at only when the source becomes final.
ReconcileOnce(t) ==
  LET s == Part(t)
      seen == call[t].seen IN
  /\ call[t].at = "reconcile"
  /\ \/ /\ ReconcileReceipt(s, seen)
        /\ IF Bridge(s) /\ stage[s] = "submitted" /\ stage'[s] = "finalized"
             THEN Goto(t, "bridge", seen.block) ELSE Reconciled(t)
     \/ ~CanReconcile(s, seen) /\ Throws(t)
  /\ Writes

Reconcile(t) ==
  LET s == Part(t)
      seen == call[t].seen IN
  /\ call[t].at = "reconcile"
  /\ \/ /\ ReconcileReceipt(s, seen)
        /\ IF Bridge(s) /\ stage'[s] \in {"finalized", "delivered"}
             THEN Goto(t, "bridge", seen.block) ELSE Reconciled(t)
     \/ ~CanReconcile(s, seen) /\ Throws(t)
  /\ Writes

\* bridge-delivery-verifier.ts: the source receipt must still be canonical; the
\* delivery may not be final yet, or be reorganised between two reads of it.
VerifyBridge(t) ==
  LET s == Part(t) IN
  /\ call[t].at = "bridge"
  /\ Quiet
  /\ IF BlockOf(s) # call[t].seen THEN Goto(t, "record", "failure")
     ELSE \/ Reconciled(t)
          \/ arrived[s] # "none" /\ Goto(t, "record", "failure")
          \/ arrived[s] \in Evidence /\ Goto(t, "record", arrived[s])

RecordBridge(t) ==
  LET s == Part(t)
      e == call[t].seen IN
  /\ call[t].at = "record"
  /\ \/ e = "failure" /\ Mark(s) /\ Reconciled(t)
     \/ e # "failure" /\ RecordBridgeDelivery(s, e) /\ Reconciled(t)
     \/ e # "failure" /\ ~CanRecordDelivery(s) /\ Throws(t)
  /\ Writes

-----------------------------------------------------------------------------
(* From the nonce to the transaction handed out *)

ReadNonce(t) ==
  /\ call[t].at = "nonce"
  /\ Goto(t, "prepare", Len(sent[ChainOf[call[t].goal]]))
  /\ Quiet

Prepare(t) ==
  LET s == call[t].goal
      n == call[t].seen IN
  /\ call[t].at = "prepare"
  /\ \/ /\ PrepareStage(s, n)
        /\ IF call[t].kind = "arm" THEN Goto(t, "arm", n) ELSE Answer(t, stage'[s])
     \/ ~CanPrepare(s, n) /\ Throws(t)
  /\ Writes

\* Mutant: the transaction is answered before the stage is armed.
ArmUnrecorded(t) ==
  /\ call[t].at = "arm" /\ CanArm(call[t].goal)
  /\ UNCHANGED tables /\ Answer(t, call[t].seen)
  /\ Writes

\* The evidence is revalidated first, and may refuse.
Arm(t) ==
  LET s == call[t].goal IN
  /\ call[t].at = "arm"
  /\ \/ ArmStage(s) /\ Answer(t, call[t].seen)
     \/ ~CanArm(s) /\ Throws(t)
     \/ May("abort") /\ Throws(t)
  /\ Writes

\* The answer reaches the tab; that of an arm hands its transaction to the wallet.
Receive(t) ==
  /\ call[t].at = "answered"
  /\ handed' = IF call[t].kind = "arm" /\ call[t].seen # None
               THEN handed \cup {<<call[t].goal, call[t].seen>>} ELSE handed
  /\ call' = [call EXCEPT ![t] = Idle]
  /\ UNCHANGED <<authority, tables, chains>>

Abort(t) ==
  /\ call[t].at # "idle" /\ May("abort")
  /\ call' = [call EXCEPT ![t] = Idle]
  /\ Quiet

-----------------------------------------------------------------------------
(* The wallet, the chains and the bridge *)

\* A chain takes a transaction of the owner only with the next nonce.
Take(c, what) == Len(sent[c]) < MaxNonce /\ sent' = [sent EXCEPT ![c] = Append(@, what)]

Send(s, n) ==
  /\ <<s, n>> \in handed /\ n = Len(sent[ChainOf[s]])
  /\ Take(ChainOf[s], s)
  /\ UNCHANGED <<authority, tables, block, deep, arrived, handed, call>>

\* The owner uses the wallet for something else.
SendOther(c) ==
  /\ Take(c, 0) /\ May("divert")
  /\ UNCHANGED <<authority, tables, block, deep, arrived, handed, call>>

\* Mined; reorganised into another block, or out of the chain; finalised.
Mine(c, n) ==
  /\ n < Len(sent[c]) /\ block[c][n] = "none"
  /\ \E b \in IF \E s \in Stages : sent[c][n + 1] = s /\ ~Bridge(s)
            THEN {"b1", "reverted", "short"} ELSE {"b1", "reverted"} :
       block' = [block EXCEPT ![c][n] = b]
  /\ UNCHANGED <<authority, tables, sent, deep, arrived, handed, call>>

Reorganise(c, n) ==
  /\ block[c][n] = "b1" /\ May("reorganise")
  /\ block' = [block EXCEPT ![c][n] = "b2"]
  /\ deep' = [deep EXCEPT ![c][n] = FALSE]
  /\ UNCHANGED <<authority, tables, sent, arrived, handed, call>>

Deepen(c, n) ==
  /\ block[c][n] # "none" /\ ~deep[c][n]
  /\ deep' = [deep EXCEPT ![c][n] = TRUE]
  /\ UNCHANGED <<authority, tables, sent, block, arrived, handed, call>>

\* The bridge delivers what a mined source transaction sent, or less than agreed;
\* a delivery may be reorganised into another transaction.
Arrives(s) ==
  /\ Bridge(s) /\ arrived[s] # "d2" /\ (arrived[s] # "none" => May("redeliver"))
  /\ \E n \in Places : /\ n < Len(sent[ChainOf[s]]) /\ sent[ChainOf[s]][n + 1] = s
                       /\ block[ChainOf[s]][n] \in {"b1", "b2"}
  /\ arrived' \in {[arrived EXCEPT ![s] = e] :
                     e \in IF arrived[s] = "none" THEN {"d1", "short"} ELSE {"d2"}}
  /\ UNCHANGED <<authority, tables, sent, block, deep, handed, call>>

\* The deadline passes, or a later revision supersedes the submission.
Revoke ==
  /\ authority /\ May("revoke")
  /\ authority' = FALSE
  /\ UNCHANGED <<tables, chains, handed, call>>

-----------------------------------------------------------------------------
CallStep(t) ==
  \/ Submit(t) \/ ReadReceipt(t) \/ ReadCanonical(t) \/ Reconcile(t) \/ VerifyBridge(t)
  \/ RecordBridge(t) \/ ReadNonce(t) \/ Prepare(t) \/ Arm(t) \/ Receive(t)

BeginCall(t) ==
  \/ BeginReview(t)
  \/ \E s \in Stages : \/ BeginArm(t, s) \/ BeginReconcile(t, s)
                       \/ \E h \in Places : BeginSubmitted(t, s, h)

ChainStep ==
  \/ \E s \in Stages : Arrives(s) \/ \E n \in Places : Send(s, n)
  \/ \E c \in Chains : SendOther(c) \/ \E n \in Places : Mine(c, n) \/ Reorganise(c, n) \/ Deepen(c, n)

Next ==
  \/ \E t \in Tabs : BeginCall(t) \/ CallStep(t) \/ Abort(t)
  \/ ChainStep
  \/ Revoke

Spec == Init /\ [][Next]_vars

\* The server answers, chains finalise, some tab keeps asking for each stage's
\* status, and a delivery that can be verified sooner or later is.
FairSpec ==
  /\ Spec
  /\ \A t \in Tabs : /\ WF_vars(CallStep(t))
                      /\ SF_vars(VerifyBridge(t) /\ call'[t].at = "record")
                      /\ \A s \in Stages : SF_vars(BeginReconcile(t, s))
  /\ \A c \in Chains, n \in Places : WF_vars(Deepen(c, n))

-----------------------------------------------------------------------------
(* Safety *)

\* "The broadcasting state was committed before this exact transaction was
\* returned" (the stage route): whatever was lost, retried or armed from two tabs,
\* a stage transaction on a chain is one of an armed stage, under its stored nonce,
\* and so a stage is never sent twice.
SentIsArmed ==
  \A c \in Chains : \A i \in 1..Len(sent[c]) :
    LET s == sent[c][i] IN
    s # 0 => /\ nonce[s] = i - 1 /\ ChainOf[s] = c
             /\ stage[s] \notin {"absent", "prepared"}

\* A stage passes for final only with the receipt stored of the very transaction
\* that was attested, although the hash is the client's word.
FinalIsExact ==
  \A s \in Stages : stage[s] \in {"finalized", "delivered", "confirmed"} =>
    receipt[s] # None /\ hash[s] # None /\ Exact(s)

\* Nothing is prepared on a destination chain without stored evidence of the
\* delivery before it, and that evidence was once true of the bridge.
StagesInOrder ==
  \A s \in Stages : stage[s] # "absent" /\ s > 1 =>
    /\ delivery[s - 1] # None
    /\ stage[s - 1] \in {"delivered", "reconciliation_required"}
    /\ arrived[s - 1] \in Evidence

\* The receipt that confirms a program is reconciled without a look at the other
\* stages, and all the same it is that of the first stage without a bridge: every
\* stage before it is delivered, none is frozen, and none after it was prepared.
\* When all neighbours are on two chains it is the last stage.
ConfirmedInOrder ==
  program = "confirmed" =>
    \E s \in Stages :
      /\ ~Bridge(s)
      /\ \A r \in Stages : stage[r] = CASE r < s -> "delivered" [] r = s -> "confirmed" [] r > s -> "absent"

\* general-asset-v4-design.md: "A source receipt, bridge delivery, or destination
\* receipt cannot be skipped".  The schema admits neighbours on one chain, and then
\* the program is confirmed without the receipts of the stages that follow.
NoReceiptIsSkipped ==
  program = "confirmed" => \A s \in Stages : receipt[s] # None

\* general-asset-v4-design.md: after a mismatch the program cannot prepare another
\* send.  No call that was under way gets through either, and no later receipt or
\* delivery brings the program back.
MismatchFreezes ==
  [][program = "reconciliation_required" =>
       /\ program' = program
       /\ \A s \in Stages :
            stage'[s] # stage[s] => stage'[s] \in {"finalized", "reconciliation_required"}]_vars

-----------------------------------------------------------------------------
(* Liveness *)

Live == authority /\ program = "active"

\* A stage whose transaction is on the chain does not stay submitted: its receipt
\* is reconciled, or found wrong, as long as the program has authority.
ReceiptsAreReconciled ==
  \A s \in Stages :
    (stage[s] = "submitted" /\ BlockOf(s) # "none") ~> ~(stage[s] = "submitted" /\ Live)

\* v4-release-hardening.md: "polling a finalized bridge source verifies delivery and
\* calls `recordBridgeDelivery()`": a finalised stage whose bridge has delivered
\* does not stay finalised.
DeliveriesAreRecorded ==
  \A s \in Stages :
    (stage[s] = "finalized" /\ arrived[s] \in Evidence) ~> ~(stage[s] = "finalized" /\ Live)
=============================================================================

--------------------------- MODULE ProgramExecution ---------------------------
(***************************************************************************)
(* The owner executes an attested program of an open or composition        *)
(* intent, while solvers go on submitting (DecisionIntake): the execution  *)
(* route hands out the calls, the owner's wallet broadcasts them, and the  *)
(* receipt route attributes the confirmed transactions to the program.     *)
(* Routes are requests of the owner's browser tabs; they die at any await. *)
(***************************************************************************)
EXTENDS DecisionIntake

CONSTANTS
  Tabs,    \* bound on the owner's requests in flight
  Atomic   \* offers compiled for CobiaExecutorV3; the others are wallet-call batches

ASSUME ExecutionAssumption ==
  /\ ~GeneralAsset
  /\ Atomic \subseteq Offers

VARIABLES
  tabPc,     \* the await each route is at
  program,   \* the submission the route works on
  handed,    \* programs whose calls the wallet has been given
  chain,     \* programs whose transactions are confirmed
  receipts   \* submissions with a stored receipt artifact

tabVars == <<tabPc, program>>
executionVars == <<tabPc, program, handed, chain, receipts>>
allVars == <<storeVars, intakeVars, executionVars>>

RoutesInit ==
  /\ tabPc = [t \in Tabs |-> "idle"]
  /\ program = [t \in Tabs |-> None]
  /\ handed = {} /\ chain = {} /\ receipts = {}

ExecutionInit == Init /\ RoutesInit

Open(t, x, step) ==
  /\ tabPc[t] = "idle"
  /\ tabPc' = [tabPc EXCEPT ![t] = step]
  /\ program' = [program EXCEPT ![t] = x]

Advance(t, step) ==
  /\ tabPc' = [tabPc EXCEPT ![t] = step]
  /\ UNCHANGED program

Close(t) ==
  /\ tabPc' = [tabPc EXCEPT ![t] = "idle"]
  /\ program' = [program EXCEPT ![t] = None]

\* The program's own deadline.  The validity of its submission is the smaller of
\* that and the close, so a submission valid to the close may live any longer.
CallsLive(x) == now < validUntil[x] \/ validUntil[x] = ClosesAt

-----------------------------------------------------------------------------
(* The execution route *)

\* The context is read first; the chain reads that follow take their time.
ReadExecution(t, x) ==
  /\ sub[x] = "attested" /\ CallsLive(x)
  /\ Open(t, x, "preflight")
  /\ UNCHANGED <<storeVars, intakeVars, handed, chain, receipts>>

\* The preflight passes and the calls are returned, or it refuses.
AnswerExecution(t) ==
  /\ tabPc[t] = "preflight"
  /\ handed' \in {handed, handed \cup {program[t]}}
  /\ Close(t)
  /\ UNCHANGED <<storeVars, intakeVars, chain, receipts>>

-----------------------------------------------------------------------------
(* The wallet and the chain *)

\* ExecutorV3 spends the policy's nonce: one atomic program of an intent succeeds.
\* A batch has no such guard; its receipts only have to precede its deadline.
Confirm(x) ==
  /\ x \in handed \ chain /\ CallsLive(x)
  /\ x \in Atomic => chain \cap Atomic = {}
  /\ chain' = chain \cup {x}
  /\ UNCHANGED <<storeVars, intakeVars, tabVars, handed, receipts>>

-----------------------------------------------------------------------------
(* The receipt route *)

\* Mutant: what the wallet reports is taken for confirmed.
ReadReceiptUnconfirmed(t, x) ==
  /\ x \in handed
  /\ x \in Atomic => sub[x] = "attested"
  /\ Open(t, x, "attribute")
  /\ UNCHANGED <<storeVars, intakeVars, handed, chain, receipts>>

\* Only the atomic lane rebuilds the authorized call, which an attested state is
\* needed for; a batch receipt is matched to the stored calls whatever the state.
ReadReceipt(t, x) ==
  /\ x \in chain
  /\ x \in Atomic => sub[x] = "attested"
  /\ Open(t, x, "attribute")
  /\ UNCHANGED <<storeVars, intakeVars, handed, chain, receipts>>

\* A submission has at most one artifact of a kind: a second insert throws.
StoreReceipt(t) ==
  /\ tabPc[t] = "attribute"
  /\ \/ /\ program[t] \notin receipts
        /\ receipts' = receipts \cup {program[t]}
        /\ Advance(t, "resolve")
     \/ program[t] \in receipts /\ UNCHANGED receipts /\ Close(t)
  /\ UNCHANGED <<storeVars, intakeVars, handed, chain>>

ResolveExecuted(t) ==
  /\ tabPc[t] = "resolve"
  /\ \/ Resolve(program[t], "executed")
     \/ ~CanResolve(program[t], "executed") /\ UNCHANGED <<sub, intent, selected>>
  /\ Close(t)
  /\ UNCHANGED <<now, snapshot, claims, run, validUntil, verdict, intakeVars, handed, chain, receipts>>

AbortRoute(t) ==
  /\ "death" \in Faults /\ tabPc[t] # "idle"
  /\ Close(t)
  /\ UNCHANGED <<storeVars, intakeVars, handed, chain, receipts>>

-----------------------------------------------------------------------------
RouteStep(t) == AnswerExecution(t) \/ StoreReceipt(t) \/ ResolveExecuted(t)

ExecutionNext ==
  \/ Next /\ UNCHANGED executionVars
  \/ \E x \in Offers : Confirm(x)
  \/ \E t \in Tabs :
       \/ RouteStep(t) \/ AbortRoute(t)
       \/ \E x \in Offers : ReadExecution(t, x) \/ ReadReceipt(t, x)

ExecutionSpec == ExecutionInit /\ [][ExecutionNext]_allVars

\* The owner keeps retrying the receipt of a confirmed program.
FairExecutionSpec ==
  /\ ExecutionSpec
  /\ \A t \in Tabs : /\ WF_allVars(RouteStep(t))
                     /\ SF_allVars(\E x \in Offers : ReadReceipt(t, x))

-----------------------------------------------------------------------------
(* Safety *)

\* An executed program is one the verifier accepted, whose transactions are on
\* chain and whose receipt is stored, and the intent names it as its outcome.
ExecutedIsBacked ==
  \A x \in Offers : sub[x] = "executed" =>
    x \in chain /\ x \in receipts /\ verdict[x] = "accepted"

\* Two programs of one intent can both confirm on chain, but the intent records one
\* outcome, whichever receipt is resolved first, and an executed submission is the
\* one its intent selected (solver-submissions.ts, resolve).
OneOutcome ==
  /\ \A x \in Offers : sub[x] = "executed" => selected = x /\ intent = "executed"
  /\ intent = "executed" => sub[selected] \in {"executed", "superseded"}

\* solver-submissions.ts, resolve: no transition leads out of "executed".  An
\* append that found the revision attested supersedes it all the same.
ExecutedIsFinal ==
  [][\A x \in Offers : sub[x] = "executed" => sub'[x] = "executed"]_allVars

-----------------------------------------------------------------------------
(* Liveness *)

\* A confirmed program whose receipt is stored becomes the outcome of its intent,
\* unless it is superseded first or another program is.  AgentProgramView.tsx
\* offers "Retry receipt verification" for the request that fails on the way, but
\* once the receipt is stored every retry is refused by the artifact's unique key.
StoredReceiptIsResolved ==
  \A x \in Offers :
    x \in receipts /\ sub[x] = "attested" /\ intent = "collecting"
      ~> sub[x] # "attested" \/ intent = "executed"
=============================================================================

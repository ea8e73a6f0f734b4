---------------------------- MODULE DecisionIntake ----------------------------
(***************************************************************************)
(* The two endpoints a community solver calls on an intent: start a run    *)
(* (run-intake.ts) and submit a decision (decision-intake.ts).  Each       *)
(* request is a process that takes one step per awaited repository call;   *)
(* requests of one solver, of several, or the same one delivered twice     *)
(* interleave between any two steps, and the process may die at any await. *)
(***************************************************************************)
EXTENDS ExchangeStore

CONSTANTS
  Requests,   \* bound on the requests in flight at once
  Faults,     \* what goes wrong: processes die, repository calls fail where the handler
              \* catches it ("caught") or outside its try blocks ("uncaught")
  Unscored    \* the revisions whose accepted verdict has no objective

\* A policy with several outcomes, or with one that is no number, has no objective.
ASSUME IntakeAssumption ==
  /\ Faults \subseteq {"death", "caught", "uncaught"}
  /\ Unscored \subseteq (IF GeneralAsset THEN {} ELSE Offers)

VARIABLES
  pc,        \* the await each request is at; "idle" when its slot is free
  offer,     \* claim.solverId and claim.revision
  started,   \* nowSec, read once when the request arrives
  deadline,  \* the program's deadline, or the close if that is sooner; 0 to abstain
  window     \* verdict.verificationValidUntilSec of a general-asset program

intakeVars == <<pc, offer, started, deadline, window>>
vars == <<storeVars, intakeVars>>

Steps == {"idle", "createRun", "startRun",
          "claim", "create", "start", "abstain", "append", "insert", "displace",
          "artifacts", "verify",
          "accepted", "refused", "results", "mark", "expiry", "attest", "complete",
          "reject", "cleanup", "failRun"}

TypeOK ==
  /\ StoreTypeOK
  /\ pc \in [Requests -> Steps]
  /\ offer \in [Requests -> Offers \cup {None}]
  /\ \A q \in Requests : offer[q] = None <=> pc[q] = "idle"
  /\ started \in [Requests -> Times]
  /\ deadline \in [Requests -> 0..ClosesAt]
  /\ window \in [Requests -> 0..ClosesAt]

Init ==
  /\ StoreInit
  /\ pc = [q \in Requests |-> "idle"]
  /\ offer = [q \in Requests |-> None]
  /\ started = [q \in Requests |-> 0]
  /\ deadline = [q \in Requests |-> 0]
  /\ window = [q \in Requests |-> 0]

Goto(q, step) ==
  /\ pc' = [pc EXCEPT ![q] = step]
  /\ UNCHANGED <<offer, started, deadline, window>>

\* Mutant: the slot keeps the offer of the request before.
LeaveBehind(q) == Goto(q, "idle")

\* The response is sent, or the error thrown; the slot is free again.
Leave(q) ==
  /\ pc' = [pc EXCEPT ![q] = "idle"]
  /\ offer' = [offer EXCEPT ![q] = None]
  /\ started' = [started EXCEPT ![q] = 0]
  /\ deadline' = [deadline EXCEPT ![q] = 0]
  /\ window' = [window EXCEPT ![q] = 0]

-----------------------------------------------------------------------------
(* Arrival: everything read and checked before the first write. *)

CompetitionOpen == intent = "collecting" /\ now < ClosesAt /\ EvidenceStored

Arrive(q, x, until, step) ==
  /\ pc[q] = "idle" /\ CompetitionOpen
  /\ pc' = [pc EXCEPT ![q] = step]
  /\ offer' = [offer EXCEPT ![q] = x]
  /\ started' = [started EXCEPT ![q] = now]
  /\ deadline' = [deadline EXCEPT ![q] = until]
  /\ UNCHANGED <<storeVars, window>>

\* A signed decision to submit a program that has not expired.
ReceiveProgram(q, x, until) ==
  now < until /\ until <= ClosesAt /\ Arrive(q, x, until, "claim")

\* A general-asset intent takes no abstention and has no run endpoint.
ReceiveAbstention(q, x) == ~GeneralAsset /\ Arrive(q, x, 0, "claim")
ReceiveRunClaim(q, x) == ~GeneralAsset /\ Arrive(q, x, 0, "createRun")

-----------------------------------------------------------------------------
(* run-intake.ts *)

CreateExternalRun(q) ==
  /\ pc[q] = "createRun"
  /\ CreateRun(offer[q])
  /\ Goto(q, "startRun")
  /\ UNCHANGED <<now, intentVars, claims, subVars>>

StartExternalRun(q) ==
  /\ pc[q] = "startRun"
  /\ StartRun(offer[q]) \/ (~RunCanStart(offer[q]) /\ UNCHANGED run)
  /\ Leave(q)
  /\ UNCHANGED <<now, intentVars, claims, subVars>>

-----------------------------------------------------------------------------
(* decision-intake.ts: from the claim to the stored program *)

Claim(q) ==
  /\ pc[q] = "claim"
  /\ \/ ConsumeClaim(offer[q]) /\ Goto(q, "create")
     \/ ~ClaimIsFresh(offer[q]) /\ UNCHANGED claims /\ Leave(q)
  /\ UNCHANGED <<now, intentVars, run, subVars>>

CreateDecisionRun(q) ==
  /\ pc[q] = "create"
  /\ CreateRun(offer[q])
  /\ Goto(q, "start")
  /\ UNCHANGED <<now, intentVars, claims, subVars>>

StartDecisionRun(q) ==
  /\ pc[q] = "start"
  /\ StartRun(offer[q])
  /\ Goto(q, IF deadline[q] = 0 THEN "abstain" ELSE "append")
  /\ UNCHANGED <<now, intentVars, claims, subVars>>

Abstain(q) ==
  /\ pc[q] = "abstain"
  /\ FinishRun(offer[q], "abstained")
  /\ Leave(q)
  /\ UNCHANGED <<now, intentVars, claims, subVars>>

\* The requests inside append's transaction, which locks the row of the solver.
Appending == {q \in Requests : pc[q] \in {"insert", "displace"}}

ReadRevisions(q) ==
  /\ pc[q] = "append"
  /\ \A p \in Appending : offer[p][1] # offer[q][1]
  /\ Goto(q, IF ~CanAppend(offer[q], started[q], deadline[q]) THEN "failRun"
             ELSE IF Displaces(offer[q]) THEN "displace" ELSE "insert")
  /\ UNCHANGED storeVars

\* The transaction commits, or fails and is rolled back.
AppendProgram(q) ==
  /\ q \in Appending
  /\ \/ AppendRevision(offer[q], deadline[q], pc[q] = "displace") /\ Goto(q, "artifacts")
     \/ "caught" \in Faults /\ UNCHANGED <<sub, validUntil>> /\ Goto(q, "failRun")
  /\ UNCHANGED <<now, intentVars, claims, run, verdict>>

\* The artifacts are stored, or one of the inserts fails and is caught.
StoreArtifacts(q) ==
  /\ pc[q] = "artifacts"
  /\ Goto(q, "verify") \/ ("caught" \in Faults /\ Goto(q, "cleanup"))
  /\ UNCHANGED storeVars

-----------------------------------------------------------------------------
(* decision-intake.ts: the independent verifier and what its answer decides *)

\* Mutant: the error leaves the handler.
VerifierFailsUncaught(q) == pc[q] = "verify" /\ Leave(q) /\ UNCHANGED storeVars

VerifierFails(q) ==
  /\ pc[q] = "verify"
  /\ Goto(q, "cleanup")
  /\ UNCHANGED storeVars

\* Its verdict is what the handler awaits to store next.
VerifierAnswers(q) ==
  /\ pc[q] = "verify"
  /\ Goto(q, "accepted") \/ Goto(q, "refused")
  /\ UNCHANGED storeVars

StoreVerdict(q, v) ==
  /\ verdict' = [verdict EXCEPT ![offer[q]] = v]
  /\ UNCHANGED <<now, intentVars, claims, run, sub, validUntil>>

\* Mutant: the verdict is stored and not read.
StoreRefusalUnread(q) == pc[q] = "refused" /\ StoreVerdict(q, "rejected") /\ Goto(q, "mark")

StoreRefusal(q) == pc[q] = "refused" /\ StoreVerdict(q, "rejected") /\ Goto(q, "reject")

\* An accepted general-asset program carries the window of its authorization,
\* at most its deadline; one already past, or one whose artifacts do not match,
\* is rejected for want of them.
StoreAcceptance(q) ==
  /\ pc[q] = "accepted" /\ offer[q] \notin Unscored
  /\ StoreVerdict(q, "accepted")
  /\ \/ ~GeneralAsset /\ Goto(q, "results")
     \/ GeneralAsset /\ Goto(q, "reject")
     \/ /\ GeneralAsset
        /\ \E w \in 1..deadline[q] : now < w /\ window' = [window EXCEPT ![q] = w]
        /\ pc' = [pc EXCEPT ![q] = "results"]
        /\ UNCHANGED <<offer, started, deadline>>

\* An objective that is undefined is no canonical JSON: the verdict cannot be stored,
\* and the error leaves the handler.
VerdictIsUnstorable(q) ==
  /\ pc[q] = "accepted" /\ offer[q] \in Unscored
  /\ Leave(q)
  /\ UNCHANGED storeVars

\* Objective, execution and authorization are stored; then the clock is read.
StoreResults(q) ==
  /\ pc[q] = "results"
  /\ Goto(q, IF GeneralAsset /\ now >= window[q] THEN "reject" ELSE "mark")
  /\ UNCHANGED storeVars

MarkVerified(q) ==
  /\ pc[q] = "mark"
  /\ Resolve(offer[q], "verified")
  /\ Goto(q, IF GeneralAsset THEN "expiry" ELSE "attest")
  /\ UNCHANGED <<now, snapshot, claims, run, validUntil, verdict>>

RecheckWindow(q) ==
  /\ pc[q] = "expiry"
  /\ Goto(q, IF now < window[q] THEN "attest" ELSE "cleanup")
  /\ UNCHANGED storeVars

\* Mutant: the refusal fails the run and leaves the submission.
AttestOrFailRun(q) ==
  /\ pc[q] = "attest"
  /\ \/ Resolve(offer[q], "attested") /\ Goto(q, "complete")
     \/ /\ ~CanResolve(offer[q], "attested")
        /\ UNCHANGED <<sub, intent, selected>> /\ Goto(q, "failRun")
  /\ UNCHANGED <<now, snapshot, claims, run, validUntil, verdict>>

\* The row may have been superseded, or its validity may have lapsed, since it
\* was marked: the repository refuses and the error leaves the request.
Attest(q) ==
  /\ pc[q] = "attest"
  /\ \/ Resolve(offer[q], "attested") /\ Goto(q, "complete")
     \/ ~CanResolve(offer[q], "attested") /\ UNCHANGED <<sub, intent, selected>> /\ Leave(q)
  /\ UNCHANGED <<now, snapshot, claims, run, validUntil, verdict>>

CompleteRun(q) ==
  /\ pc[q] = "complete"
  /\ FinishRun(offer[q], "completed")
  /\ Leave(q)
  /\ UNCHANGED <<now, intentVars, claims, subVars>>

RejectProgram(q) ==
  /\ pc[q] = "reject"
  /\ Resolve(offer[q], "rejected")
  /\ Goto(q, "failRun")
  /\ UNCHANGED <<now, snapshot, claims, run, validUntil, verdict>>

FailProgram(q) ==
  /\ pc[q] = "cleanup"
  /\ \/ Resolve(offer[q], "failed") /\ Goto(q, "failRun")
     \/ ~CanResolve(offer[q], "failed") /\ UNCHANGED <<sub, intent, selected>> /\ Leave(q)
  /\ UNCHANGED <<now, snapshot, claims, run, validUntil, verdict>>

FailRun(q) ==
  /\ pc[q] = "failRun"
  /\ FinishRun(offer[q], "failed")
  /\ Leave(q)
  /\ UNCHANGED <<now, intentVars, claims, subVars>>

\* The awaits inside the handler's two try blocks.
Guarded == {"append", "insert", "displace", "artifacts", "verify"}

\* The process dies, or a repository call outside the try blocks throws, such as the
\* insert of one of the artifacts of a verdict: nothing is undone.
Abort(q) ==
  /\ pc[q] # "idle"
  /\ "death" \in Faults \/ ("uncaught" \in Faults /\ pc[q] \notin Guarded)
  /\ Leave(q)
  /\ UNCHANGED storeVars

-----------------------------------------------------------------------------
Publish == CreateIntent \/ CreateSnapshot

Receive(q) == \E x \in Offers :
  \/ \E until \in 1..ClosesAt : ReceiveProgram(q, x, until)
  \/ ReceiveAbstention(q, x)
  \/ ReceiveRunClaim(q, x)

\* What a request does on its own once it has arrived.
Proceed(q) ==
  \/ CreateExternalRun(q) \/ StartExternalRun(q)
  \/ Claim(q) \/ CreateDecisionRun(q) \/ StartDecisionRun(q) \/ Abstain(q)
  \/ ReadRevisions(q) \/ AppendProgram(q) \/ StoreArtifacts(q)
  \/ VerifierFails(q) \/ VerifierAnswers(q) \/ StoreRefusal(q)
  \/ StoreAcceptance(q) \/ VerdictIsUnstorable(q) \/ StoreResults(q)
  \/ MarkVerified(q) \/ RecheckWindow(q)
  \/ Attest(q) \/ CompleteRun(q)
  \/ RejectProgram(q) \/ FailProgram(q) \/ FailRun(q)

Next ==
  \/ (Tick \/ Publish) /\ UNCHANGED intakeVars
  \/ \E q \in Requests : Receive(q) \/ Proceed(q) \/ Abort(q)

Spec == Init /\ [][Next]_vars

\* A request that has arrived is driven on by the runtime until it answers.
FairSpec == Spec /\ \A q \in Requests : WF_vars(Proceed(q))

-----------------------------------------------------------------------------
(* Safety *)

PastClaim == {q \in Requests : pc[q] \notin {"idle", "createRun", "startRun", "claim"}}

\* A decision delivered twice, or two decisions signed for one revision, are
\* worked on by one request: the claim row is what keeps the second one out of
\* the run and submission rows (solver-decision-claims.ts, consume).
OneHandlerPerOffer ==
  \A p, q \in PastClaim : offer[p] = offer[q] => p = q

\* Between two awaits a handler relies on what it read or wrote before: whatever
\* the other handlers did since, its run and its revision are still where it left
\* them, except that a verified revision may have been superseded.
HandlersOwnTheirRows ==
  \A q \in PastClaim :
    LET x == offer[q] IN
    /\ x \in claims
    /\ pc[q] = "create" => sub[x] = "absent" /\ run[x] \in {"absent", "queued", "running"}
    /\ pc[q] = "start" => sub[x] = "absent" /\ run[x] \in {"queued", "running"}
    /\ pc[q] \notin {"create", "start"} => run[x] = "running"
    /\ pc[q] \in {"abstain", "append", "insert", "displace"} => sub[x] = "absent"
    /\ pc[q] \in {"artifacts", "verify", "accepted", "refused", "results", "mark", "reject"}
         => sub[x] = "proposed"
    /\ pc[q] \in {"results", "mark"} => verdict[x] = "accepted"
    /\ pc[q] \in {"expiry", "attest"} => sub[x] \in {"verified", "superseded"}
    /\ pc[q] = "complete" => sub[x] \in {"attested", "superseded", "executed"}
    /\ pc[q] = "cleanup" => sub[x] \in {"proposed", "verified", "superseded"}
    /\ pc[q] = "failRun" => sub[x] \in {"absent", "rejected", "failed", "superseded"}

\* What append checked is still so when it writes: its revision is the solver's next
\* one, for it holds the lock on the solver's row, and a predecessor it is going to
\* supersede was verified, whatever became of it in between.
AppendsOwnTheSolver ==
  \A q \in Appending :
    LET x == offer[q] IN
    /\ \A p \in Appending : offer[p][1] = x[1] => p = q
    /\ IsNextRevision(x)
    /\ pc[q] = "displace" => /\ x[2] > 1 /\ verdict[Predecessor(x)] = "accepted"
                             /\ sub[Predecessor(x)] \in {"verified", "attested", "executed", "failed"}

\* The run table and the submission table, written by separate transactions of
\* handlers that may die between them, never tell contradicting stories about a
\* revision, and neither decides one that no signed claim backs.
TablesAgree ==
  \A x \in Offers :
    /\ run[x] = "completed" => sub[x] \in {"attested", "superseded", "executed"}
    /\ run[x] = "failed" => sub[x] \in {"absent", "rejected", "failed", "superseded"}
    /\ run[x] = "abstained" => sub[x] = "absent"
    /\ x \in Offered => x \in claims /\ run[x] \notin {"absent", "queued"}
    /\ x \notin claims => run[x] \in {"absent", "queued", "running"}

\* A revision that has, or ever had, execution authority has the stored verdict
\* of the verifier behind it, whatever other revisions did meanwhile.
AuthorityIsVerified ==
  \A x \in Offers : sub[x] \in {"verified", "attested", "superseded", "executed"}
                      => verdict[x] = "accepted"

\* A solver's history has no gaps, and a revision is only ever displaced by the
\* next one, although append decides both from rows it read.
HistoryIsContiguous ==
  \A x \in Offered :
    /\ x[2] > 1 => Predecessor(x) \in Offered
    /\ sub[x] = "superseded" => <<x[1], x[2] + 1>> \in Offered

\* general-intent-product-design.md: only a solver's latest current revision can
\* rank.  Two handlers of one solver break it: append leaves a predecessor that
\* is still "proposed" alone, and its own handler attests it later.
OneCurrentPerSolver ==
  \A x, y \in Current : x[1] = y[1] => x = y

\* Authority is granted only while the competition is open and the revision
\* valid, however long ago its request read the clock.
GrantedInTime ==
  [][\A x \in Offers : sub[x] # "attested" /\ sub'[x] = "attested"
                        => now < ClosesAt /\ now < validUntil[x]]_vars

Ended == {"rejected", "superseded", "failed", "executed"}

\* A revision that lost, or was refused, its authority never gets it back: a late
\* answer of the verifier cannot revive a superseded, failed or rejected row.
AuthorityNeverReturns ==
  [][\A x \in Offers :
        /\ sub[x] \in Ended => sub'[x] \in Ended
        /\ sub[x] = "attested" => sub'[x] \in {"attested", "superseded", "executed"}]_vars

\* The revision recorded as the outcome of the intent.
Used == IF intent = "executed" THEN {selected} ELSE {}

\* What the intake implements: the promise about authority alone.
Ledger == INSTANCE AuthorityLedger WITH
  time <- now,
  published <- Offered,
  authority <- {x \in Offers : sub[x] = "attested"},
  retired <- {x \in Offers : sub[x] \in {"rejected", "failed", "superseded"}} \ Used,
  used <- Used

\* The four tables and all handlers, interleaved and aborted at will, implement
\* the ledger: authority is granted once, in time, and displaced in order.
ImplementsLedger == Ledger!Spec

-----------------------------------------------------------------------------
(* Liveness *)

\* Every stored program gets past "proposed": it is verified, rejected or failed,
\* though the verifier throws or an insert fails inside the try blocks.  It takes
\* that no process dies, that no call outside them fails, and that the verdicts can
\* be stored, which the verdicts of policies without an objective cannot.
ProposalsAreDecided ==
  \A x \in Offers : sub[x] = "proposed" ~> sub[x] # "proposed"

\* general-intent-solver-plugins-design.md: every run ends.  A run whose revision
\* is superseded, or outlives its validity, between its two resolutions does not.
ClaimedRunsEnd ==
  \A x \in Offers :
    x \in claims /\ run[x] = "running" ~> run[x] \in {"completed", "abstained", "failed"}
=============================================================================

---------------------------- MODULE ExchangeStore ----------------------------
(***************************************************************************)
(* The tables of the solver exchange, for one signed intent, and the       *)
(* transactions of the repositories that own them (apps/web/lib/db).  A    *)
(* transaction that locks the rows it reads is one operator, its checks    *)
(* and the rows it writes; append, which does not lock the predecessor it  *)
(* reads, is a read and a write (transactions are READ COMMITTED).  The    *)
(* handlers that call them, one await at a time, are in DecisionIntake and *)
(* ProgramExecution.                                                       *)
(*                                                                         *)
(* Definitions marked "Mutant" are used by no specification: each is the   *)
(* definition after it with a plausible mistake, for checking that the     *)
(* properties notice.                                                      *)
(*                                                                         *)
(* A row of the run, claim and submission tables is named by the unique    *)
(* key the three share: the solver and its revision, an "offer".           *)
(***************************************************************************)
EXTENDS Integers

CONSTANTS
  Solvers,        \* registered community solver identities
  MaxRevisions,   \* policy.competition.maxRevisionsPerSolver
  ClosesAt,       \* policy.competition.closesAt
  MaxTime,        \* bound on the clock
  GeneralAsset,   \* TRUE: policy.kind = "general-asset"; FALSE: an open or composition intent
  None            \* the null of a nullable column

ASSUME StoreAssumption ==
  /\ MaxRevisions \in 1..20
  /\ ClosesAt \in Nat
  /\ MaxTime \in Nat
  /\ GeneralAsset \in BOOLEAN
  /\ None \notin Solvers \X (1..MaxRevisions)

Revisions == 1..MaxRevisions
Offers == Solvers \X Revisions
Times == 0..MaxTime

VARIABLES
  now,         \* seconds, the clock the handlers and the database read
  intent,      \* cobia_intents.state, or "absent"
  snapshot,    \* whether cobia_open_intent_snapshots holds the intent's snapshot
  selected,    \* cobia_intents.selected_submission_id
  claims,      \* offers with a row in cobia_solver_decision_claims
  run,         \* cobia_solver_runs.state of each offer, or "absent"
  sub,         \* cobia_solver_submissions.state of each offer, or "absent"
  validUntil,  \* cobia_solver_submissions.valid_until
  verdict      \* the stored verdict artifact of each offer

intentVars == <<intent, snapshot, selected>>
subVars == <<sub, validUntil, verdict>>
storeVars == <<now, intent, snapshot, selected, claims, run, sub, validUntil, verdict>>

IntentStates == {"absent", "collecting", "selected", "executed"}
RunStates == {"absent", "queued", "running", "completed", "abstained", "failed"}
SubStates == {"absent", "proposed", "rejected", "verified", "attested",
              "superseded", "executed", "failed"}

StoreTypeOK ==
  /\ now \in Times
  /\ intent \in IntentStates
  /\ snapshot \in BOOLEAN
  /\ selected \in Offers \cup {None}
  /\ claims \subseteq Offers
  /\ run \in [Offers -> RunStates]
  /\ sub \in [Offers -> SubStates]
  /\ validUntil \in [Offers -> 0..ClosesAt]
  /\ verdict \in [Offers -> {"none", "accepted", "rejected"}]

StoreInit ==
  /\ now = 0
  /\ intent = "absent" /\ snapshot = FALSE /\ selected = None
  /\ claims = {}
  /\ run = [x \in Offers |-> "absent"]
  /\ sub = [x \in Offers |-> "absent"]
  /\ validUntil = [x \in Offers |-> 0]
  /\ verdict = [x \in Offers |-> "none"]

Tick ==
  /\ now < MaxTime
  /\ now' = now + 1
  /\ UNCHANGED <<intentVars, claims, run, subVars>>

-----------------------------------------------------------------------------
(* intents.ts and open-intent-snapshots.ts *)

\* A repeated publication of the same policy returns the stored row.
CreateIntent ==
  /\ intent = "absent"
  /\ intent' = "collecting"
  /\ UNCHANGED <<now, snapshot, selected, claims, run, subVars>>

\* Publication stores the snapshot in a second transaction; the evidence of a
\* general-asset intent is a column of the intent itself.
CreateSnapshot ==
  /\ ~GeneralAsset /\ intent # "absent" /\ ~snapshot
  /\ snapshot' = TRUE
  /\ UNCHANGED <<now, intent, selected, claims, run, subVars>>

\* The evidence a decision is checked against has been stored.
EvidenceStored == GeneralAsset \/ snapshot

-----------------------------------------------------------------------------
(* solver-decision-claims.ts *)

ClaimIsFresh(x) == x \notin claims

\* Mutant: a claim that is stored already is consumed again.
ConsumeClaimTwice(x) == claims' = claims \cup {x}

ConsumeClaim(x) == ClaimIsFresh(x) /\ claims' = claims \cup {x}

-----------------------------------------------------------------------------
(* solver-runs.ts *)

\* A stored run of the same offer is returned: an intent has one frozen anchor.
CreateRun(x) ==
  run' = IF run[x] = "absent" THEN [run EXCEPT ![x] = "queued"] ELSE run

RunCanStart(x) == run[x] \in {"queued", "running"}
StartRun(x) == RunCanStart(x) /\ run' = [run EXCEPT ![x] = "running"]

RunCanFinish(x, outcome) == run[x] \in {"running", outcome}
FinishRun(x, outcome) ==
  RunCanFinish(x, outcome) /\ run' = [run EXCEPT ![x] = outcome]

-----------------------------------------------------------------------------
(* solver-submissions.ts *)

Offered == {x \in Offers : sub[x] # "absent"}
Predecessor(x) == <<x[1], x[2] - 1>>

\* Mutant: the first revision may have any number.
StartsAnywhere(x) == \A y \in Offered : y[1] = x[1] => y[2] < x[2]

\* The latest stored revision of x's solver is the one before x.
IsNextRevision(x) ==
  /\ x[2] = 1 \/ Predecessor(x) \in Offered
  /\ \A y \in Offered : y[1] = x[1] => y[2] < x[2]

\* Mutant: a revision is not compared with those that are stored.
CanAppendOutOfOrder(x, observedAt, until) ==
  observedAt < ClosesAt /\ observedAt < until /\ until <= ClosesAt

\* append's checks: observedAt is the caller's clock reading, not the database's.
CanAppend(x, observedAt, until) ==
  /\ observedAt < ClosesAt
  /\ observedAt < until /\ until <= ClosesAt
  /\ IsNextRevision(x)

\* What append reads of the predecessor, which it does not lock.
Displaces(x) == x[2] > 1 /\ sub[Predecessor(x)] \in {"verified", "attested"}

\* What it writes: a predecessor it found displaceable is superseded whatever has
\* become of it since.
AppendRevision(x, until, displace) ==
  /\ sub' = [y \in Offers |-> IF y = x THEN "proposed"
                             ELSE IF displace /\ y = Predecessor(x) THEN "superseded" ELSE sub[y]]
  /\ validUntil' = [validUntil EXCEPT ![x] = until]

\* Mutant: a superseded revision whose verification ends late may be attested.
AllowsRevival(from, to) ==
  \/ from = "proposed" /\ to \in {"verified", "rejected", "failed"}
  \/ from \in {"verified", "superseded"} /\ to \in {"attested", "failed"}
  \/ from = "attested" /\ to = "executed"

AllowedTransition(from, to) ==
  \/ from = "proposed" /\ to \in {"verified", "rejected", "failed"}
  \/ from = "verified" /\ to \in {"attested", "failed"}
  \/ from = "attested" /\ to = "executed"

\* Mutants: validity is not checked; the selection is not.
CanResolveLate(x, to) ==
  AllowedTransition(sub[x], to) /\ (to = "executed" => selected \in {None, x})

CanResolveAny(x, to) ==
  AllowedTransition(sub[x], to) /\ (to = "attested" => now < validUntil[x])

CanResolve(x, to) ==
  /\ AllowedTransition(sub[x], to)
  /\ to = "attested" => now < validUntil[x]
  /\ to = "executed" => selected \in {None, x}

Resolve(x, to) ==
  /\ CanResolve(x, to)
  /\ sub' = [sub EXCEPT ![x] = to]
  /\ IF to = "executed" THEN selected' = x /\ intent' = "executed"
                        ELSE UNCHANGED <<selected, intent>>

\* projectSubmissionState: the revisions listed as current, the only ones that rank.
Current == {x \in Offers : sub[x] = "attested" /\ now < validUntil[x]}
=============================================================================

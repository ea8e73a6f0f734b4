# Cobia: a verification project

Cobia turns a person's intent ("swap this for that, under these limits") into a
signed policy, lets solvers compete with *programs* (wallet transactions) that
satisfy it, verifies every program independently, and lets the owner, whose keys
it never holds, execute one of them. What is stored about a program decides
whether its calls may be handed to a wallet. The models in this directory are
about that, and about what stands around it: signing in, compiling and publishing
an intent, paying a merchant, the worker of an external solver, the contracts'
limits. They ask who may write which row when, what a request relies on while it
awaits something, and what a crash, a lost answer, a race or a chain
reorganisation leaves behind.

- [Inventory](#inventory)
- [Modules and how they correspond to the code](#modules-and-how-they-correspond-to-the-code)
- [Runs](#runs)
- [What the runs found](#what-the-runs-found)
- [Proofs](#proofs)
- [Assumptions](#assumptions)
- [What is not modelled](#what-is-not-modelled)
- [Plan](#plan)

To repeat: `tlc -config X.cfg M` for the module `M` that `PROJECT.json` names for
`X.cfg`; `tlapm M_proofs.tla` for the eight modules of proofs.

## Inventory

Paths are under `apps/web/` unless they start with `packages/`, `contracts/`,
`examples/` or `apps/`.

| Part | State it keeps | Operations | What is hard | What makes it correct |
|---|---|---|---|---|
| Exchange store (`lib/db/intents.ts`, `open-intent-snapshots.ts`, `solver-decision-claims.ts`, `solver-runs.ts`, `solver-submissions.ts`) | intents, snapshots, claims, runs, submissions, artifacts | create, consume, start/finish, append, resolve, select, addArtifact | each is one READ COMMITTED transaction; `append` reads its predecessor without a lock | tables agree with each other; revisions in order; authority never returns; one outcome per intent |
| Run and decision intake (`lib/open-exchange/run-intake.ts`, `decision-intake.ts`) | nothing but its awaits | two endpoints solvers call | duplicate delivery, a process that dies between writes, clocks read long ago, late verdicts | one handler per claim; what a handler read stays true; every decision is decided |
| Program execution (`app/api/**/execution`, `**/receipt`) | receipt artifacts; the chain | preflight and calls; attribution of receipts | stale reads before long awaits, two tabs, two transactions that should be one | executed means confirmed, receipted and verified; one outcome |
| Staged execution (`lib/db/general-asset-executions.ts`, `general-asset-execution-records.ts`, the stage routes, `lib/execution-v4/*`) | programs, stages, nonce, hash, receipts, deliveries | review, arm, submitted, reconcile | two chains and a bridge, reorganisation, lost hashes, nonce moves, two tabs | nothing is sent twice, stages in order, a mismatch freezes for good |
| Owner's page (`components/intents/GeneralAssetExecutionView.tsx`) | what it last showed | review, confirm, check finality, check delivery | acts on remembered states | shows only what is stored; its buttons lead somewhere |
| House solver (`lib/orchestrator/run-general-asset-solver.ts`) and coding-agent competition | the same run and submission rows | build, create the intent, submit, verify, attest, clean up | ten calls in a row, any of which may throw; the publication posted twice | what it attests is a whole program, run and verdict |
| Guided execution V2 (`lib/execution-v2/*`, `lib/db/execution*.ts`) | sessions, steps, attempts with a nonce | start, prepare, arm, record, recover, confirm | a crash between broadcast and record; two tabs; a lost hash recovered by scanning blocks; one confirmation | at most one transaction per step lands; rows follow the route and the chain |
| Contracts (`contracts/src/*`) | limits, allowlist, pending changes, hourly buckets; nonces | propose, activate, reduce, pause, deny, execute | window edges, reused buckets, an old proposal after an incident | limits hold in each window; nothing is loosened before its delay |
| Wallet authentication (`lib/db/wallet-auth.ts`, `lib/wallet-auth/*`) | challenges, sessions | challenge, verify, create session | a clock read before an awaited update | a challenge makes one session |
| Intent compilation (`app/api/intents/compile`, `lib/db/wallet-auth.ts`) | attempts: lease, rate, cached draft | admit, complete, fail | counting rows, a lease that outlives its route | one compilation per owner at a time; rates hold |
| Composer and publication (`components/intents/IntentComposer.tsx`, `app/api/intents`) | the draft on the page; the intent | compile, review, sign, publish | the account or the goal changes during an await | what is published was drafted for, reviewed and signed by one account |
| Commerce (`lib/commerce/*`, `lib/db/commerce-placements.ts`) | a placement and its events | prepare, authorise, settle, reconcile | state read before an awaited merchant or chain; a payment that must not be sent twice | one payment; confirmed means paid on the chain |
| Success fee, payments, challenge rounds | quotes, purchases, rounds | none reachable, or without authority | | |
| Replay service (`apps/replay-service/src/*`), RPC brokers, caches | a counter of slots and a queue; budgets; promises | acquire/release; charge; get | slots lost or released twice | capacity never exceeded, no slot lost |
| Verifiers (`lib/open-exchange/*verifier*`, `packages/solvers`) | none | verify | wide pure functions of chain evidence | sound with respect to the policy |
| Domain algorithms (`packages/domain`) | none | allocate, score, assess, canonicalise | rounding, ties, order | agree with a reference definition |
| Open solver (`examples/open-solver`, `packages/solver-sdk`) | jobs, a limiter, a state file | poll, work, sign, submit, retry, restart | retry of what was already done; a waiter that is never woken; a state write that fails | attempts bounded; an answered intent is not reworked; waiters have workers |

How the parts interact. A publication writes the intent and, for open and
composition policies, a snapshot. Solvers, from outside, call the run and decision
endpoints; the decision endpoint writes claim, run, submission and artifacts and
awaits the independent verifier in between. The result, a submission that is
`attested`, is the only thing the execution routes look at: for an open or
composition program they hand out calls and later attribute receipts, which makes
the submission `executed` and fixes the intent's outcome; for a general-asset
program they create program and stage rows that live their own life, tied to the
submission only by "still attested and before its deadline". The parts share
nothing but those tables: the web application runs as any number of stateless
processes. Sign-in, compilation, commerce and guided execution have tables of their
own, joined to the others by the session's wallet; a general-asset publication first
runs the house solver and writes the intent only when that has a program. On chain,
CobiaExecutorV4 asks CobiaRiskManagerV2 before it spends, and nothing else of the
site's state is known there.

## Modules and how they correspond to the code

```
AuthorityLedger            what is promised about authority, abstractly
      ^  implements (refinement mapping in DecisionIntake)
ExchangeStore  <-- EXTENDS --  DecisionIntake  <-- EXTENDS --  ProgramExecution
     ^  EXTENDS                                          (owner, wallet, chain)
HouseSolver

StagedExecution  <-- EXTENDS --  StagedPage

WalletAuth  CompileLeases  IntentComposer  CommercePlacement      (the site)
GuidedExecution  SolverJob  RiskControls  ReplayCapacity          (outside its requests)

MCx: an instance of x for TLC; MCSite, MCOutside and MCLive host several

DecisionIntake_proofs   <-- EXTENDS --  ProgramExecution_proofs
                        <-- EXTENDS --  HouseSolver_proofs  <-- EXTENDS --  Site_proofs
StagedExecution_proofs  of StagedExecution and StagedPage
Site_proofs             of the four of the site, and of the house among them (MCSite)
Outside_proofs          of SolverJob and ReplayCapacity
GuidedExecution_proofs  RiskControls_proofs
```

**ExchangeStore** has one operator per repository transaction, with its checks as
conjuncts and the rows it writes as primed variables. Run, claim and submission
rows share the unique key (intent, solver, revision); the model follows one
intent, so a row is named by an *offer* `<<solver, revision>>`. `append` takes a
row lock on its solver, reads the other revisions without one, and writes; it is
therefore two steps (`CanAppend` and `Displaces` read, `Append` writes), and
`Append` supersedes the predecessor it read about by id whatever has become of
it. `Resolve` is `resolve`: transition table, validity when attesting, the
intent's selection when executing. Definitions marked "Mutant" are used by no
specification; they are versions with a plausible mistake.

**DecisionIntake** makes each HTTP request a process: `pc[q]` names the repository
call it awaits next, and the local variables are what the handler holds across
awaits (`claim.solverId/revision`, `nowSec`, the program's validity, the verdict's
window). One action per await; both catch blocks (`cleanup`, `failRun`). `Faults` says
what goes wrong: a repository call inside the try blocks fails ("caught"), one outside
them does ("uncaught"), or the process dies ("death"); the last two are `Abort`.
A request's arrival, in which the code reads clock, intent, evidence and checks
signatures, is one action: nothing is written before the claim, and each thing read
is checked again, or immutable, when it matters (append checks order and validity
itself). The verifier is three outcomes: accepted, rejected, thrown. Between its answer
and the attestation the handler stores verdict, evidence, replay, objective, execution
and authorization, outside the try blocks: `StoreAcceptance` or `StoreRefusal`, then
`StoreResults`, each an await of its own at which a request may end. A verdict whose
objective is undefined is not canonical JSON, and `VerdictIsUnstorable` is the error;
`Unscored` are the revisions whose policy has no objective.

**AuthorityLedger** is the abstract specification: revisions are published in
order; each is granted authority at most once and before the close; nothing but
its successor's publication retires one that has authority; at most one is used.
`ImplementsLedger` maps the submission table onto it.

**ProgramExecution** adds the owner: `ReadExecution`/`AnswerExecution` are the
execution route before and after the preflight's chain reads; `Confirm` is the
chain (ExecutorV3's nonce lets one atomic program of an intent succeed; a wallet
batch has no such guard); `ReadReceipt`, `StoreReceipt`, `ResolveExecuted` are the
receipt route's three stretches between awaits.

**StagedExecution** has the program and stage tables (`prepareStage`, `armStage`,
`recordSubmission`, `reconcileReceipt`, `recordBridgeDelivery`,
`markReconciliation` as operators) and the calls of the review and stage routes as
processes with one step per await, from any number of tabs. The chains are
sequences of the owner's transactions by nonce, so that "this hash is that stage's
transaction" is a fact of the model and not the client's word. A transaction is
mined, reorganised into another block, reverted, or delivers less than the final
minimum; a bridge delivers late, short, or is reorganised into another
transaction; the owner spends nonces on something else (`divert`); authority is
lost (`revoke`). `Mishaps` bounds which of these may happen together (`May`).

**StagedPage** is the page that drives those routes for one owner: which button is
offered in which shown state, and what `executeStage` goes on to do after each
answer.

**HouseSolver** is `publishAndRunGeneralAssetSolverV1` on the tables of
`ExchangeStore`: a program is built against a block before there is an intent, then
one action per repository call stores and attests it, and the catch block fails
what it can. The publication may be posted twice, any call may throw, and the
process may die anywhere.

**GuidedExecution** is the service of guided V2 routes: a caller is a tab with one
call or one wallet prompt at a time, one action per awaited read or write. `Start` and
`BeginAttempt` are `start`; the four actions of `advance` begin with `Start`
(prepare), `CallArm`, `ReportHash` or `ReportAnother` (submitted) and `CallResolve` or
`CallInspect`. The prompt is two actions, since the owner takes his time: `CheckPrompt`
checks the route's freshness and the pre-block, and `WalletSigns` signs, later, whatever
has become of either. `Scan` looks for a lost hash by nonce in a window of blocks,
`Inspect` at the step it was called for; `CancelStep` and `MarkReconcile` are what they
lead to, and `Look`, `Settle` and `ConfirmStep` resolve a step whose hash is known. The
chain numbers its blocks, mines, reverts and replaces its newest one; the wallet is used
for something else; the RPC fails.

**WalletAuth** and **CompileLeases** are the two lives of one repository. A route
reads the clock once, and its statements run later; the comparisons use that old
reading, as the code does. **IntentComposer** is the page: a draft is a record of
what it was compiled from, and each await is a point at which the owner may edit,
switch accounts or go back. The server's part of a publication is `StoreAndAnswer`.

**CommercePlacement** has the authorization and settlement routes as requests, a
merchant that may settle any payment it was sent, before or after it answers, and a
chain that replaces its newest block. `Append` of an event is compare-and-append: it
fails when the placement moved since it was read.

**SolverJob** is the worker: the watcher's poll, one process per intent from `begin`
through the limiter (`schedule`, `wait`, `woken`, `work`) to `submit` and the writes of
its state, with the attempt counter and delay, the chain of state writes that one
failure poisons, and a restart from the state file.

**RiskControls** is CobiaRiskManagerV2 whole, with what CobiaExecutorV4.execute asks
of it. Time is counted in ticks and the ring of hourly buckets is a function on
`0..Buckets - 1`, used again modulo its length.

**ReplayCapacity** is the gate of the replay service: a count of free slots, a queue,
and a release that hands its slot to the first waiter.

**Hosts.** `MCSite`, `MCOutside` and `MCLive` each hold several components and a
variable `part` that names the one a behaviour is about; the others keep their
initial state. `MCSite` has the intake, the house, sign-in, compilation, the composer,
commerce and guided execution; `MCOutside` the staged programs, the worker, the contracts
and the replay gate; `MCLive` the program routes beside the intake and whatever has a
liveness property: the intake under fair requests, the owner's page, and a client. The
components in a host do not interact in the code either (the house and the routes work
on different intents), so the reachable states are the sum of the components' and not
their product, and one run reports on all of them.
`PROJECT.json` maps every definition to the lines it stands for.

## Runs

All bounds are constants. Two of anything that races is enough here because every
conflict in the code is between a row's two users (a unique key, a row lock, a
compare before an update): a third user meets the same row in a state two can
already produce. For the intake this is not left to judgement; the theorems hold
for any number. The clock reaches the close, and validities and windows may end
before it, so that comparisons are met from below, at equality and from above.

| Run | Bounds | States (distinct) | Shows |
|---|---|---|---|
| `Site_components` | intake: 2 requests, 1 solver, 2 revisions of a general-asset intent, close 2, with every fault; house: 2 publications of an intent; auth: 2 requests, 2 nonces; leases: 2 routes, 2 owners, 4 leases, limits 2 and 3; composer: 2 accounts, 2 goals; commerce: 2 requests, 2 confirmations; guided: 2 callers, 2 steps, 3 or 4 blocks, four scenarios of upsets | 1.4 M | each site component keeps its promises, and the intake and the house the ledger's |
| `Outside_components` | staged: 2 stages and a bridge, 2 tabs, one kind of mishap, calls that die; worker: 2 intents, 1 slot, 2 attempts, a restart; contracts: 2 wallets, 2 limits, 3 owner calls or 3 programs, a window of 2 buckets of 2 ticks over 3 hours; replay: 4 requests, 2 slots, 1 waiter | 1.9 M | stages in order, frozen for good, confirmed in order, final exact, sent as armed; each part with a life of its own keeps its promises |
| `Live_components` | program: 2 solvers, a batch and an atomic program, 2 tabs, with every fault; intake: 2 requests, 2 offers of which one is scored, guarded calls that fail, fair; page: 1 tab; client: 1 tab; both fair | 157 k | executions are backed, one outcome, the ledger; proposals decided; the page shows what is stored, receipts reconciled, deliveries recorded |

The mishaps of staged execution are dying calls (`abort`), the owner's other
transactions (`divert`), a delivery that becomes another (`redeliver`), a chain that
replaces blocks (`reorganise`) and lost authority (`revoke`). With two tabs, all at once
make the space too large: the staged part of `Outside_components` has one of the last
four at a time, with dying calls except beside reorganisations, on chains of one
transaction each; the page of `Live_components` has all but `divert` together, or
`abort`, `divert` and `revoke`. That the safety properties of staged execution hold with
all of them at once, for any number of stages, tabs and nonces, is proved.

Why the other bounds are enough. *Leases*: a third lease of an owner is the first
that the per-minute limit of the model (2) refuses; the lease outlives its route by
one tick, so that a stale lease can be met. *Guided*: the recovery window is 2 blocks
and the chain has up to 4, so a transaction can land inside, at the edge of and
behind the window. *Commerce*: two confirmations of a chain that can replace its
newest block once is the least at which a confirmed payment can be threatened.
*Contracts*: with 2 buckets the third hour reuses the first one's slot, and 5 ticks
reach it; three owner calls make propose, tighten and activate, the sequence the
delay is about. *Worker*: 2 intents and 1 slot make a waiter. *Replay*: 4 requests
fill 2 slots and the queue, and have one refused.

`part` in `CommunityTablesAgree`, `CommunityImplementsLedger`, `HouseProgramsAreWhole`,
`ScoredProposalsAreDecided` and `ClientDeliveriesAreRecorded` says which behaviours the
property is about; each has a mutant that violates it there. `CommunityTablesAgree` is
`TablesAgree` of the community's solvers, whose runs nobody else fails; the house's
catch block may fail the run of a program that has authority (below).
`CommunityImplementsLedger` is `ImplementsLedger`: in the other parts the tables do not
change at all.

The runs that are expected to fail are in the next section.

Deadlock is not checked: every one of these systems may really stop. The intake
quiesces when the competition closes and the requests have been answered; an
execution ends when its program is executed or expired; a stage sequence ends
confirmed or frozen; a worker has no intent left. (With the bounds: the clock, the
slots, the nonces, the blocks.)

Fairness. *Intake*: weak fairness of `Proceed`, because a request that has arrived
is driven on by the runtime until it answers; nothing is assumed of solvers or of
the clock. What `ScoredProposalsAreDecided` says is conditional: no process dies, no
repository call fails outside the try blocks (those inside may), and the verdict has an
objective to store. Finding 3 is what becomes of it without the last. *ProgramExecution*: weak fairness of the routes' steps, and strong
fairness of reading a receipt, which is the owner who keeps pressing "Retry receipt
verification" (strong, since the slot is free again and again and not
continuously); it is what makes the counterexample of `ProgramExecution_retry` one
of an owner who never gives up. *StagedExecution*: weak fairness of calls under way and of
finalisation (`Deepen`), strong fairness of a tab asking to reconcile each stage,
and of the bridge check succeeding among the times it is tried: a delivery
that can be verified sooner or later is. Nothing on the server polls; without a
client that asks neither property would hold. *StagedPage*: weak fairness of the
page's own steps and of the owner's clicks on whatever single button it offers.
The page's wallet sends or refuses; otherwise no run assumes that a wallet, a miner,
a bridge or a solver ever acts. `MCLive` states these conditions, each for
the behaviours of its own part; its page and its client are two behaviours and
not two tabs. The other components have no liveness property: the worker's state
chain and the placement's events may be stuck for good by a failed write or an RPC
error (see below), so that what they would promise in the end is not true of the code.
`ReceiptsAreReconciled` and `DeliveriesAreRecorded` are conditional on the program
staying live: once its authority is gone the routes refuse to record anything,
which is what the code does (`stages/[stageId]/route.ts`, its context is checked first).

Each property of a passing run has a mutant in `PROJECT.json`: a mapped definition
with a mistake under which that run reports the property violated.

## What the runs found

Each of these is a run TLC ends with a counterexample, and an entry of "findings".

1. **Two current revisions** (`DecisionIntake_current`). `append` supersedes a
   predecessor only if it is `verified` or `attested`. Revision 2 appended while
   revision 1 is still being verified leaves it alone; then both are attested. The
   product design says only the latest current revision ranks. It takes a solver
   with two requests in flight.
2. **A run that never ends** (`DecisionIntake_runs_end`). The attestation is
   outside both try blocks. When it is refused (superseded meanwhile, or validity
   lapsed) the run stays `running`.
3. **A verdict that cannot be stored** (`DecisionIntake_objective`). A policy whose
   outcomes are not one number has no objective; the verdict of an accepted
   proposal then has the key with the value `undefined`, which canonical JSON refuses,
   outside both try blocks. Nothing dies, and the submission stays `proposed`, the run
   `running`, the claim consumed. `ScoredProposalsAreDecided` says what does hold.
4. **An executed revision overwritten** (`ProgramExecution_overwrite`). `append`
   reads revision 1 as attested; the receipt route resolves it as executed;
   `append` writes `superseded` over it. The intent still says executed.
5. **A receipt that cannot be retried** (`ProgramExecution_retry`). Artifact and
   resolution are two transactions; a process that dies between them leaves an
   artifact whose unique key refuses every retry.
6. **A program confirmed by its first receipt** (`StagedExecution_one_chain`). Neither
   the domain's schema, nor the bundle's, nor the verifier asks that neighbouring stages
   be on different chains. The first of two on one chain ends in no bridge, and
   `reconcileReceipt` confirms the program with the receipt of such a stage, last or
   not; the second can then be prepared by nobody. The v4 design says that no receipt can
   be skipped. `ConfirmedInOrder` says what holds on any chains: the stages before the
   one that confirms are delivered.
7. **The delivery button** (`StagedPage_delivery`). "Check bridge delivery" loads
   the review, which does not reconcile and is itself refused once the stage's own
   transaction has moved the nonce. Only a reconcile call records a delivery, and
   the page no longer offers one. That a client which does make that call succeeds is
   `ClientDeliveriesAreRecorded` of `Live_components`.
8. **One job too many** (`SolverJob_ceiling`). A finished job frees its slot and
   resolves a waiter's promise; a job that comes before the waiter goes on finds the slot
   free, and the waiter does not look again. The worker's test starts its jobs together
   and says that no more than the ceiling ever work. `WaitersHaveWorkers` is about the
   other side of that limiter only: no slot is lost.
9. **Nearly two limits in a day** (`RiskControls_day`). The window is the current
   hour and the 23 before it, which is 23 to 24 hours. A wallet spends its limit at
   the end of one hour and again when that hour's bucket is dropped, less than 24
   hours later. The design promises a rolling 24-hour window. `SpendingIsLimited`
   shows what does hold: the limit in every window of whole hours.

Dead ends and surprises that the models reproduce and that have no run of their own. But
for the first, no document or test that was read says otherwise:

- Two tables, two times. The execution route reads a submission's state, awaits the
  preflight and answers without looking again (`AnswerExecution`): a revision
  superseded meanwhile has its calls handed out. The product design
  (`2026-08-18-general-intent-product-design.md:245`) says that superseded programs
  cannot produce execution calls. A second look would narrow the time and not close
  it, since the answer still has to reach a wallet, so no property is stated of it;
  `ExecutedIsBacked` and `OneOutcome` say what such calls cannot do to the tables.
- `decision-intake.ts:264`: an abstention consumes a revision number without storing
  a submission, so that solver's next revision is refused as not sequential. A claim
  whose handler died can never be completed, since the claim is what is unique.
- `general-asset-execution-records.ts:129`: once the owner has used the wallet
  between preparation and arming, the stored nonce is never the wallet's again, and
  the stage can be prepared by nobody.
- `execution-v2/guided-step.ts:134`: a lost hash is looked for in 64 blocks; a
  transaction that was mined behind them leaves the step to be reconciled by hand.
- `execution-v2/resolve-submitted.ts:82`: an RPC that fails during the scan is taken
  for an answer, and freezes an attempt whose transaction may be well.
- `IntentComposer.tsx:365`: a goal edited while it is being compiled meets the draft of
  its older text at the review; what is published has the values of that draft, and
  the newer text as the goal it displays. `PublishedByItsDrafter` says what holds: one
  account drafted, reviewed and signed it.
- `commerce/authorization-service.ts:157`: a merchant that answers 402 and settles
  all the same leaves a placement that failed and was paid. `ConfirmedIsPaid` is one
  way only; so is a rejection after an RPC error (`x402-receipt-verifier.ts:128`).
- `ConfirmedIsPaid` needs two confirmations. The code configures 2; its schema would
  accept 1 (`x402-receipt-verifier.ts:123`), and the placement would then be
  confirmed by a block that is replaced.
- `run-general-asset-solver.ts:117`: the catch block fails the house's run although
  its submission is attested already, when `complete()` throws or when the same
  publication was posted twice. `HouseAuthorityIsWhole` says what remains true: what
  is attested has its program and its accepted verdict.
- `CobiaRiskManagerV2`: a denial cancels nothing that is pending, so that activating a
  wallet, once its delay has passed since the *proposal*, lifts a denial that came
  later, at once. `Loosens` counts a lifted denial as a loosening, and `LooseningWaits`
  says what the delay is worth: it has passed since the control was last proposed, or
  its proposal cancelled, and denying is neither.

## Proofs

Eight modules. Nothing in them depends on the instances above; every safety property
of the runs, the invariants and action properties, has a theorem, and so have the
refinements: intake, execution and house of the ledger, the page of the routes.

| Module | Theorems (and the property each states) | For any |
|---|---|---|
| `DecisionIntake_proofs` | eleven, below | solvers, requests, revision limit, close, kind of intent, faults, intents without an objective |
| `ProgramExecution_proofs` | `ExecutionInvariant`, `ExecutionIsBacked` (`ExecutedIsBacked`), `ExecutionHasOneOutcome` (`OneOutcome`), `ExecutionImplementsLedger` (`ImplementsLedger`) | the same, and tabs and atomic programs |
| `HouseSolver_proofs` | `HouseInvariant`, `HouseAuthority` (`HouseAuthorityIsWhole`), `HouseImplementsLedger` (`ImplementsLedger`) | publications, blocks, failures at any call |
| `StagedExecution_proofs` | `StagesAreArmed` (`SentIsArmed`), `FinalStagesAreExact` (`FinalIsExact`), `InOrder` (`StagesInOrder`), `ConfirmedPrograms` (`ConfirmedInOrder`), `Freezing` (`MismatchFreezes`), `PageUsesTheRoutes`, `PageShowsStored` (`ShownIsStored` of the page) | 1 to 8 stages on any chains, neighbours on one chain included; any tabs, nonces and mishaps |
| `GuidedExecution_proofs` | `GuidedInvariance`, `GuidedTypes`, `GuidedConfirmedIsLanded` (`ConfirmedIsLanded`), `GuidedRowsFollow` (`RowsFollowTheRoute`), `GuidedStepsLandOnce` (`StepsLandOnce`), `GuidedSettledStay` (`SettledRowsStay`) | routes, tabs, upsets, blocks, recovery window |
| `Site_proofs` | `OneSession` (`OneSessionPerChallenge`); `OneCompilation` (`OneCompilationPerOwner`), `AttemptsAreLimited` (`RateIsLimited`); `DraftersPublish` (`PublishedByItsDrafter`); `OnePayment` (`PaymentIsSentOnce`), `ConfirmedWasPaid` (`ConfirmedIsPaid`); `HouseAmongOthers` (`HouseProgramsAreWhole`) | owners, challenges, requests, limits, lifetimes, accounts, goals; `ConfirmedWasPaid` assumes two confirmations or more |
| `Outside_proofs` | `AttemptsBounded` (`AttemptsAreBounded`), `AnsweredStays` (`AnsweredIsNotReworked`), `NoSlotIsLost` (`WaitersHaveWorkers`); `SlotsConserved` (`SlotsAreConserved`) | finitely many intents, attempts, slots, restarts; replays, slots, queue |
| `RiskControls_proofs` | `DelayIsKept` (`LooseningWaits`), `WindowExact` (`WindowIsExact`), `SpendingLimited` (`SpendingIsLimited`) | wallets, verifiers, limits, delay, length of the window and of an hour, number of calls and programs |

The named assumptions of the modules are all the theorems use. They say that numbers
are of the code's ranges (`1..20` revisions, 1 to 8 stages), that a null is none of the
values it stands beside (`None` and rows, nonces or reviews; `"none"` and accounts), and
that finite things are finite. Three say more, because the code's configuration does: a
compile route is ended by the platform before its lease expires (60 and 90 seconds),
a limit is at least 1 and a route's limit is at most its wallet's, at most the
protocol's (`_validateLimits`), and the intents that ProgramExecution is about are not
general-asset ones, whose execution is staged.

### The intake

`DecisionIntake_proofs` proves, for any sets of solvers and requests, any revision
limit, any close and both kinds of intent, with any of `Faults` and `Unscored`:

| Theorem | Property |
|---|---|
| `IntakeInvariant` | the inductive invariant `IntakeInv` |
| `TypeCorrect`, `OneHandler`, `HandlersUndisturbed`, `AppendsSerialized`, `TablesConsistent`, `VerifiedAuthority`, `ContiguousHistory` | the intake's invariants in `Site_components`, one each (`TablesConsistent` is `TablesAgree`, of which the run checks the community's part) |
| `TimelyGrants`, `AuthorityLostForGood` | the two action properties |
| `IntakeImplementsLedger` | `Spec => ImplementsLedger`, the refinement |

The argument. What matters, that run and submission tables never contradict each
other, is not inductive: that `FinishRun(x, "completed")` follows a granted
submission is a fact about where the handler stands, not about the tables. So the
invariant carries `HandlersOwnTheirRows`, which says for each await what the
handler relies on. That survives the steps of other handlers only because no other
one works on the same offer (`OneHandlerPerOffer`, which the claim row gives), with
one exception: the handler of the *next* revision may supersede a verified one, and
the disjunctions in `HandlersOwnTheirRows` are exactly that exception.
`HistoryIsContiguous` needs that what `append` read about numbers is still so when
it writes, which is `AppendsOwnTheSolver`, the row lock, together with the weaker
fact that a predecessor found displaceable was verified and has not been rejected.
Those two and `AuthorityIsVerified` support each other and are proved together, one
lemma per action (or per group with the same footprint), one step per conjunct.

The invariant does not say that nothing is executed, although the intake executes
nothing: its lemmas allow for a submission that becomes `executed` between two of its
steps, and are used again when the receipt route does that. What the refinement needs
of it is `OutcomeRecorded`, that the intent names the submission that was executed; the
proof maps each action to `Advance`, `PublishRevision`, `Grant`, `Retire` or a stutter.

### Execution of a program

`ExecutionInv` is the intake's invariant with the owner's part: `RoutesRely`, that the
program of a receipt route was found on the chain, and that the artifact it resolves for
is stored. Both only grow, so no tab disturbs another. The one step of the routes that
touches the intake's tables is `ResolveExecuted`, and the one thing to show of it is
that every handler that relied on an attested or verified row can go on
(`ResolveExecutedKeeps`); it is here that `append` may write `superseded` over
`executed` (finding 4), which is why `OutcomeRecorded` lets the selected submission be
either. The refinement takes the intake's steps as they were proved and maps
`ResolveExecuted` to `Use`.

### The house

The house's solver takes no claim and no row lock; in `HouseInv` their place is taken by
*owning*: the publication that appended the program knows how far it has come
(`OwnersKnow`), and no two own it. A second publication that finds the run or the
submission taken learns so from a refused write, and its catch block may fail the run but
never touches the program. `HouseAmongOthers` is the same of the specification that
TLC checks, where the house is one of the parts.

### Staged execution

The invariant has two parts. *Tables* says how the tables and the chains agree:
every transaction of the repository preserves it by its own checks, whatever its
caller read before, so there is one lemma per transaction (`MarkStage`,
`PreparedStage`, `ArmedStage`, `SubmittedStage`, `FinalStage`, `DeliveredStage`) and
the awaits do not matter to it. *Carried* is what a call knows when it goes on after
an await: that the stage it prepared exists under the nonce it read, that a hash it
looks at is stored, that the delivery it verified was true. It survives everyone
else's steps because of `Grows`: what is prepared stays prepared under its nonce,
armed stays armed, a hash stays, a delivery stays a delivery, and chains only become
longer. That is where an abort, a second tab or a reorganisation could have hurt.

Three strengthenings are needed. `StagesInOrder` speaks of the stage before; that
*every* stage before the one which confirms the program is delivered needs `AllBefore`,
which is inductive by itself and spares an induction over stages. `ConfirmedInOrder` needs
`FrozenTogether`: no stage is frozen without its program, so that a receipt without a
bridge that finds the program unfrozen finds its predecessors delivered; and since the
program is then confirmed, no later stage is prepared. `FinalIsExact` survives the
chain's growth only because a stored hash is that of a transaction that was sent
(`HashIsSent`), which is what the routes' callers report and the model's
`BeginSubmitted` requires. `SentIsArmed` follows from `HandedIsArmed`: a wallet holds
only what was armed.

`Freezing` needs the invariant for one thing, that what a call brings to a
transaction is of the kind it expects; otherwise each transaction refuses a frozen
program by its own guard.

**The page.** `PageUsesTheRoutes` is `PageSpec => Spec`: every button makes a call any
tab may make, so that all of the above holds of what the page does. That in turn is
used for `PageShowsStored`, whose invariant `PageKnows` says three things: what is
shown as delivered, confirmed or submitted was so when it was learnt; an answer on its
way says what was stored; and what confirming a stage has left to do, it does with the
nonce that was handed out. They survive everything others do meanwhile because of
`DoneStay`: a stage that is delivered or confirmed is at most frozen, and a hash stays.

### Guided execution

`StepsLandOnce`, that arming, cancelling and arming again mines at most one
transaction of a step, rests on nonces: `GuidedInv` has every transaction of a step,
pending or mined, under the nonce that its row stores (`SignedAsStored`): a row is
written once and keeps its nonce through every cancellation, and an open prompt holds the
nonce of its row whatever has become of the step (`Remembers`). A chain has one
transaction per nonce. `ConfirmedHaveLanded` strengthens `ConfirmedIsLanded` by the block: it is
behind the newest one and cannot be replaced. A reverted, replaced or foreign
transaction is told apart from the step's by its hash alone (`OthersOnce`,
`HashesAreBound`). That the wallet's next nonce exists at all, the
least that neither chain nor pool has used, needs that a finite pool cannot hold them
all (a pigeonhole) and that a set of numbers has a least one.

### The site, the worker, the gate

`OneSession` carries that the request between its consuming update and its insert is
alone with its challenge. `ConfirmedWasPaid` carries, for each request past its chain
reads, that what it read at the required depth is still on the chain, which two
confirmations guarantee against a chain that replaces its newest block. `OnePayment`
carries that whoever is about to send is the one whose event the placement took.

`OneCompilation` is about leases that expire: a request that compiles holds a pending row
which outlives it (`RoutesHoldLeases`), because the platform ends the route before its
lease (`RoutesAreTimely`); another request, whose clock was read no later than now, finds
that row unexpired. `AttemptsAreLimited` has to do with rows that are inserted in another
order than their clocks were read; the query it rests on counts from one window before
its clock on and with no upper end, hence at least what any window around that clock
holds.
`DraftersPublish` needs that a publication past the route's checks has a draft of the
account whose signature was verified (`VerifiedIsDrafters`), whatever the page did
meanwhile.

For the worker, `WorkerInv` counts: every start but the last one is counted in memory
and on disk, except one per restart (`StartsAreCounted`), what may start has an attempt
left (`AttemptsAreLeft`), and an answer leaves memory only by a restart from a file
that has it, or after a rejected write that stops all later ones (`AnsweredIsKept`).
`NoSlotIsLost` is inductive as it stands but for its counting: a job that ends wakes a
waiter, which takes its place among those that work or were let in.
`SlotsConserved` carries that the queue lists the requests that wait, each once, so
that a slot handed on goes to a request that has none.

### Risk controls

`DelayIsKept` carries that the time of a pending change is the delay after its control
was last settled, since a proposal sets both and a tightening cancels what is pending.

That the ring of slots holds what the window spent is not inductive: it speaks of this
hour, and nothing follows from it for the next one, in which the oldest slot leaves the
window and is used again. The invariant says it of every hour to come, if nothing more
is spent (`ExactFromNowOn`); then time needs no argument at all, and a program that
spends needs one: a slot whose hour is another is a whole window or more old
(`SlotsRepeat`), so that what it loses was counted no longer. `SpendingLimited` follows:
`consumeUsd` compares with a sum that is exact.

### Induction over data

Recursive definitions are out of the prover's reach where the theorem has to range over
operators. What the window needs of sums is proved all the same, from one fact: the
strict subset order on finite sets is well founded, from which a set of numbers with a
member has a least one, and a set that holds 0 and with every number the next holds them
all (`UpwardsFromZero`). `Sum` is a recursive function on the prefixes of a sequence,
and the set of lengths up to which it is as claimed is such a set
(`SumOfPrefixes`, `SumWithAChange`, `SumWithOneMore`). `GreatestExists`, of the
last completed draft that a lease may be answered from, and the wallet's next nonce are
got the same way.

### Only model-checked

`ScoredProposalsAreDecided`, `ReceiptsAreReconciled` and `ClientDeliveriesAreRecorded`:
liveness rests on fairness and ENABLED, which the prover does not reach. The runs that
are expected to fail are counterexamples and have nothing to prove. The types of the
modules are parts of their invariants; only those of the intake and of guided execution
are theorems of their own.

## Assumptions

- Transactions are READ COMMITTED, the default of the database client the
  repositories use; `FOR UPDATE` rows and unique keys serialise, plain reads do
  not. A transaction whose reads are all locked or guarded by a unique key is one
  step.
- The handler's clock and the database's are one clock; a request reads it when it
  arrives, the database when it resolves.
- Signatures, commitments and schemas are checked before the first write and are
  deterministic: what does not pass does not arrive.
- A chain is one view of it: an RPC node that lags behind its own receipts, or two
  nodes that disagree, are not modelled.
- A transaction is replaced by nothing: a wallet's speed-up under another hash is
  not modelled (the code treats the second hash as a mismatch).

## What is not modelled

`PROJECT.json` "components" gives the reason for each. Of the parts that are:

- ExchangeStore: submissions of challenge rounds (never attested), listings, and
  `intents.select`, which no route calls at this commit: it overwrites an intent's
  state and selection whatever they were, so a caller would have to look first.
- ProgramExecution: the batch's calls one by one, the comparison of each transaction
  with its call, the success fee (off by a constant in the code).
- StagedExecution: a program whose submission loses authority after a broadcast is
  refused by the routes, so what happened on chain is not tracked further. No liveness
  property covers it: `ReceiptsAreReconciled` ends with the authority.
- StagedPage: more than one page; a stage left `broadcasting` by a closed page is
  offered by no button, and none is modelled.
- GuidedExecution: `failStep`, which nothing calls; more than one replaced block.
- HouseSolver: the sandboxes the coding agents run in and the coordinator of their
  competition, which writes no table.
- IntentComposer: what the language model and the schemas make of a goal; the
  publication of open and composition policies; the panels for portfolio and prices.
- CommercePlacement: plans and transfers compared field by field are one outcome.
- RiskControls: the executor's checks of calls and balances, and the adapter registry,
  which CobiaExecutorV4 does not call at this commit.

The larger part of the repository's lines is outside the models on purpose: React
pages, adapters and clients of external services, the domain's pure algorithms and
verifiers, schemas and deployment scripts. They keep no state whose order of changes
could go wrong; their correctness is that of functions, and their unit tests reach it.

## Plan

In the order of what matters most to execution authority. Done: all the modules above,
and a theorem for every safety property that a run checks.

| Next | Of | Runs, bounds | Theorems |
|---|---|---|---|
| `TtlCache`, `RpcBudget` | `ttl-async-cache.ts`, the brokers | 3 callers, failure and expiry during a load | a value that has expired is never returned |
| `Coordinator` | `competition-coordinator.ts` | 2 agents, failures at each await | every sandbox is closed |
| house and community | `HouseSolver` and `DecisionIntake` on one set of tables | | the two refinements as one, for a `Next` that takes steps of both |
| types | `CommercePlacement`, `WalletAuth`, `RiskControls` | | parts of the invariants as theorems of their own |

---------------------------- MODULE GuidedExecution ----------------------------
(***************************************************************************)
(* The guided execution of a purchased route (lib/execution-v2): one       *)
(* wallet transaction per step, whose row is prepared, armed before the    *)
(* wallet is asked, bound to the hash the wallet returns, and confirmed    *)
(* from the chain.  A caller is a tab of the owner: it has one call of the *)
(* service, or one wallet prompt, at a time.                               *)
(*                                                                         *)
(* A hash is the pair <<step, caller>>: a caller's wallet signs the        *)
(* transaction of a step once.  <<RouteLength, "owner">> is another        *)
(* transaction of the same wallet.  Blocks are numbered, the pre-block of  *)
(* the first step is any of them, and at most the newest block is ever     *)
(* replaced (the code asks for one confirmation).                          *)
(***************************************************************************)
EXTENDS Integers, Sequences, FiniteSets

CONSTANTS
  Callers,         \* tabs of the owner
  RouteLength,     \* transactions of the route
  RecoveryBlocks,  \* MAX_RECOVERY_BLOCKS
  Scenarios        \* what goes wrong together, and the bound on the chain

ASSUME GuidedAssumption ==
  /\ RouteLength \in Nat \ {0} /\ RecoveryBlocks \in Nat \ {0}
  /\ "owner" \notin Callers
  /\ \A x \in Scenarios : /\ x.upsets \subseteq {"gone", "rpc", "reorg", "other", "expiry"}
                          /\ x.blocks \in Nat

Ordinals == 0..(RouteLength - 1)
Hashes == (Ordinals \X Callers) \cup {<<RouteLength, "owner">>}
NoHash == <<-1, "none">>

VARIABLES
  attempt,   \* cobia_execution_attempts: state and next_ordinal
  step,      \* cobia_execution_steps of each ordinal
  fresh,     \* the purchased route still verifies (its quote has not expired)
  serve,     \* what each caller's call, or wallet prompt, does next
  height,    \* the newest block
  replaced,  \* the block that was reorganised away, -1 before that
  pool,      \* transactions broadcast and not mined: hash and nonce
  scenario,  \* the scenario of this behaviour
  mined      \* the wallet's transactions on the chain; the nonce is the index - 1

tableVars == <<attempt, step>>
chainVars == <<height, replaced, pool, scenario, mined>>
guidedVars == <<attempt, step, fresh, serve, chainVars>>

Row == [state |-> "absent", pre |-> 0, seen |-> -1, nonce |-> 0, hash |-> NoHash]
Rest == [at |-> "idle", do |-> "none", o |-> 0, row |-> Row]

GuidedInit ==
  /\ attempt = [state |-> "absent", next |-> 0]
  /\ step = [o \in Ordinals |-> Row]
  /\ fresh = TRUE
  /\ serve = [c \in Callers |-> Rest]
  /\ scenario \in Scenarios
  /\ height = 0 /\ replaced = -1 /\ pool = {} /\ mined = <<>>

-----------------------------------------------------------------------------
(* What the read client sees of the chain *)

\* Block b, captured when "seen" was the replaced block, is still canonical.
Canonical(b, seen) == replaced = seen \/ replaced # b

NonceUsed(n) == n < Len(mined) \/ \E t \in pool : t.nonce = n
PendingNonce == CHOOSE n \in 0..(Len(mined) + Cardinality(pool)) :
                  ~NonceUsed(n) /\ \A m \in 0..(n - 1) : NonceUsed(m)

Mined(h) == \E n \in DOMAIN mined : mined[n].hash = h
Entry(h) == CHOOSE n \in DOMAIN mined : mined[n].hash = h

\* assertAttribution: the receipt is of the prepared call, with its nonce.
Attributed(o, h) ==
  /\ h[1] = o
  /\ Entry(h) = step[o].nonce + 1
  /\ mined[Entry(h)].block > step[o].pre

-----------------------------------------------------------------------------
(* The handlers' bookkeeping *)

Goes(c, pc) == serve' = [serve EXCEPT ![c].at = pc]
Answers(c) == serve' = [serve EXCEPT ![c] = Rest]
At(c, pc) == serve[c].at = pc
Goal(c) == serve[c].o
OpenStates == {"prepared", "broadcasting", "submitted", "reconcile"}
SetStep(o, to) == step' = [step EXCEPT ![o].state = to]

-----------------------------------------------------------------------------
(* start, and what follows a confirmation: the next step is prepared *)

NeedsStep ==
  /\ attempt.state \in {"prepared", "active", "partial"}
  /\ \A o \in Ordinals : step[o].state \notin OpenStates

\* ensurePrepared: an open step is left alone, and a route that no longer verifies
\* throws; otherwise the next step is captured from the chain.
Capture(c) ==
  IF NeedsStep /\ fresh /\ attempt.next \in Ordinals
  THEN serve' = [serve EXCEPT ![c] =
         [Rest EXCEPT !.at = "prepare", !.o = attempt.next,
                      !.row = [state |-> "prepared", pre |-> height, seen |-> replaced,
                               nonce |-> PendingNonce, hash |-> NoHash]]]
  ELSE Answers(c)

\* start reads the attempt of the route; without one it is verified and begun.
Start(c) ==
  /\ At(c, "idle")
  /\ IF attempt.state = "absent" THEN fresh /\ Goes(c, "begin") ELSE NeedsStep /\ Capture(c)
  /\ UNCHANGED <<tableVars, fresh, chainVars>>

\* A second begin carries another proof and is refused.
BeginAttempt(c) ==
  /\ At(c, "begin")
  /\ IF attempt.state = "absent"
     THEN attempt' = [attempt EXCEPT !.state = "prepared"] /\ Goes(c, "ensure")
     ELSE Answers(c) /\ UNCHANGED attempt
  /\ UNCHANGED <<step, fresh, chainVars>>

EnsurePrepared(c) ==
  /\ At(c, "ensure")
  /\ Capture(c)
  /\ UNCHANGED <<tableVars, fresh, chainVars>>

\* Mutant: the row of a late preparation replaces the stored one.
CanStoreAnyway(o) == o <= attempt.next

\* A stored row is returned if it is the same and refused if not.
CanStore(o) ==
  /\ step[o].state = "absent"
  /\ attempt.state \notin {"reconcile", "failed", "complete"}
  /\ \A p \in Ordinals : step[p].state \notin {"prepared", "submitted", "reconcile"}
  /\ o = attempt.next

PrepareStep(c) ==
  /\ At(c, "prepare")
  /\ IF CanStore(Goal(c))
     THEN step' = [step EXCEPT ![Goal(c)] = serve[c].row] /\ attempt' = [attempt EXCEPT !.state = "active"]
     ELSE UNCHANGED tableVars
  /\ Answers(c)
  /\ UNCHANGED <<fresh, chainVars>>

-----------------------------------------------------------------------------
(* advance *)

\* The session is authenticated, and the step's state read and checked.
Calls(c, do, o, pc) ==
  /\ At(c, "idle")
  /\ serve' = [serve EXCEPT ![c] = [Rest EXCEPT !.at = pc, !.do = do, !.o = o]]
  /\ UNCHANGED <<tableVars, fresh, chainVars>>

CallArm(c, o) == step[o].state = "prepared" /\ Calls(c, "arm", o, "arm")
CallResolve(c, o) == step[o].state = "submitted" /\ Calls(c, "resolve", o, "look")
CallInspect(c, o, do) == step[o].state = "broadcasting" /\ Calls(c, do, o, "scan")

\* Arming a step that is armed already succeeds again.
ArmStep(c) ==
  /\ At(c, "arm")
  /\ IF step[Goal(c)].state \in {"prepared", "broadcasting"}
     THEN SetStep(Goal(c), "broadcasting") /\ Goes(c, "look")
     ELSE Answers(c) /\ UNCHANGED step
  /\ UNCHANGED <<attempt, fresh, chainVars>>

CanBind(o, h) == step[o].state = "broadcasting" /\ \A p \in Ordinals : step[p].hash # h

\* The hash is one the caller was told by its wallet or by the chain.
BindHash(c) ==
  LET o == Goal(c) h == serve[c].row.hash IN
  /\ At(c, "bind")
  /\ IF CanBind(o, h)
     THEN step' = [step EXCEPT ![o].state = "submitted", ![o].hash = h] /\ Goes(c, "look")
     ELSE UNCHANGED step /\ IF step[o].hash = h THEN Goes(c, "look") ELSE Answers(c)
  /\ UNCHANGED <<attempt, fresh, chainVars>>

\* inspectBroadcast scans the blocks after the pre-block for the step's nonce.
Scan(c) ==
  LET o == Goal(c)
      found == {n \in DOMAIN mined : n = step[o].nonce + 1 /\ mined[n].block > step[o].pre}
  IN
  /\ At(c, "scan")
  /\ IF step[o].state # "broadcasting" \/ height - step[o].pre > RecoveryBlocks
     THEN Answers(c)
     ELSE IF found = {} THEN Goes(c, "inspect")
     ELSE LET h == mined[step[o].nonce + 1].hash IN
          IF h[1] = o THEN serve' = [serve EXCEPT ![c].at = "bind", ![c].row.hash = h] ELSE Answers(c)
  /\ UNCHANGED <<tableVars, fresh, chainVars>>

Inspect(c) ==
  /\ At(c, "inspect")
  /\ Goes(c, IF PendingNonce > step[Goal(c)].nonce THEN "mark"
             ELSE IF serve[c].do = "cancel" THEN "cancel" ELSE "look")
  /\ UNCHANGED <<tableVars, fresh, chainVars>>

CancelStep(c) ==
  LET o == Goal(c) IN
  /\ At(c, "cancel")
  /\ IF step[o].state \in {"prepared", "broadcasting"}
     THEN SetStep(o, "prepared") /\ Goes(c, "look") ELSE Answers(c) /\ UNCHANGED step
  /\ UNCHANGED <<attempt, fresh, chainVars>>

\* A step in another state is refused.
MarkReconcile(c) ==
  LET o == Goal(c) IN
  /\ At(c, "mark")
  /\ IF step[o].state \in {"broadcasting", "submitted"}
     THEN SetStep(o, "reconcile") /\ attempt' = [attempt EXCEPT !.state = "reconcile"]
     ELSE UNCHANGED tableVars
  /\ Answers(c)
  /\ UNCHANGED <<fresh, chainVars>>

-----------------------------------------------------------------------------
(* resolveSubmitted *)

\* The end of every call: a submitted step is resolved, and a caller that armed the
\* step is told so, which is when its wallet is asked.  No receipt is pending, and
\* one of another call is an error.
Look(c) ==
  LET o == Goal(c) h == step[o].hash IN
  /\ At(c, "look")
  /\ IF step[o].state = "submitted" /\ Mined(h)
     THEN IF Attributed(o, h)
          THEN serve' = [serve EXCEPT ![c].at = "settle", ![c].row =
                 [Row EXCEPT !.hash = h, !.pre = mined[Entry(h)].block, !.seen = replaced]]
          ELSE Goes(c, "mark")
     ELSE IF step[o].state = "broadcasting" /\ serve[c].do = "arm"
     THEN serve' = [serve EXCEPT ![c].at = "prompt", ![c].row = step[o]]
     ELSE Answers(c)
  /\ UNCHANGED <<tableVars, fresh, chainVars>>

\* Mutant: a reverted transaction counts.
HoldsEvenReverted(o, h, block, seen) ==
  /\ Mined(h) /\ mined[Entry(h)].block = block
  /\ Canonical(block, seen) /\ Canonical(step[o].pre, step[o].seen)

\* Confirmed once more, in the same block, on the chain it was prepared on.
Holds(o, h, block, seen) ==
  /\ Mined(h) /\ mined[Entry(h)].block = block /\ mined[Entry(h)].ok
  /\ Canonical(block, seen) /\ Canonical(step[o].pre, step[o].seen)

Settle(c) ==
  LET r == serve[c].row IN
  /\ At(c, "settle")
  /\ IF height < r.pre + 1 THEN Answers(c)
     ELSE IF Holds(Goal(c), r.hash, r.pre, r.seen)
     THEN serve' = [serve EXCEPT ![c].at = "confirm", ![c].row = [Row EXCEPT !.hash = r.hash]]
     ELSE Goes(c, "mark")
  /\ UNCHANGED <<tableVars, fresh, chainVars>>

\* Whatever a read throws, a lost connection included, is a failed receipt.
RpcFails(c) ==
  /\ "rpc" \in scenario.upsets
  /\ At(c, "settle") \/ (At(c, "look") /\ step[Goal(c)].state = "submitted")
  /\ Goes(c, "mark")
  /\ UNCHANGED <<tableVars, fresh, chainVars>>

\* Mutant: a step that needs reconciliation is confirmed by a late answer.
CanConfirmLate(o, h) == step[o].hash = h /\ step[o].state \in {"submitted", "reconcile"}

CanConfirm(o, h) == step[o].hash = h /\ step[o].state = "submitted"

\* The next step is prepared in the same call.
ConfirmStep(c) ==
  LET o == Goal(c) IN
  /\ At(c, "confirm")
  /\ IF CanConfirm(o, serve[c].row.hash)
     THEN /\ SetStep(o, "confirmed")
          /\ attempt' = [state |-> IF o = RouteLength - 1 THEN "complete" ELSE "partial", next |-> o + 1]
          /\ IF o = RouteLength - 1 THEN Answers(c) ELSE Goes(c, "ensure")
     ELSE /\ UNCHANGED tableVars
          /\ IF step[o].state = "confirmed" /\ o < RouteLength - 1 THEN Goes(c, "ensure") ELSE Answers(c)
  /\ UNCHANGED <<fresh, chainVars>>

-----------------------------------------------------------------------------
(* The wallet of a caller (submitMainnetExecutionStepV2), and its report *)

\* Mutant: the wallet is left to choose the nonce.
SignedNonceFree(c) == PendingNonce

SignedNonce(c) == serve[c].row.nonce

Broadcast(h, n) == pool' = pool \cup {[hash |-> h, nonce |-> n]}

\* The route, the pre-block and the wallet are checked, and the wallet is asked.
CheckPrompt(c) ==
  /\ At(c, "prompt")
  /\ IF fresh /\ Canonical(serve[c].row.pre, serve[c].row.seen) THEN Goes(c, "sign") ELSE Answers(c)
  /\ UNCHANGED <<tableVars, fresh, chainVars>>

\* The owner approves in his own time, and a node refuses a nonce that is used up; any
\* error leaves the step armed.
WalletSigns(c) ==
  /\ At(c, "sign")
  /\ IF SignedNonce(c) >= Len(mined)
     THEN /\ Broadcast(<<Goal(c), c>>, SignedNonce(c))
          /\ serve' = [serve EXCEPT ![c].at = "report", ![c].row = [Row EXCEPT !.hash = <<Goal(c), c>>]]
     ELSE Answers(c) /\ UNCHANGED pool
  /\ UNCHANGED <<tableVars, fresh, height, replaced, mined, scenario>>

\* The report is a call of its own, which reads the step's state first.
ReportHash(c) ==
  /\ At(c, "report")
  /\ IF step[Goal(c)].state = "broadcasting" THEN Goes(c, "bind") ELSE Answers(c)
  /\ UNCHANGED <<tableVars, fresh, chainVars>>

\* A caller that reports a hash of the wallet that is not the step's.
ReportAnother(c, o, h) ==
  /\ At(c, "idle") /\ step[o].state = "broadcasting"
  /\ h[1] # o /\ (Mined(h) \/ \E t \in pool : t.hash = h)
  /\ serve' = [serve EXCEPT ![c] = [at |-> "bind", do |-> "submitted", o |-> o,
                                   row |-> [Row EXCEPT !.hash = h]]]
  /\ UNCHANGED <<tableVars, fresh, chainVars>>

\* The user declines, the tab is closed, or the handler dies at an await.
Gone(c) ==
  /\ "gone" \in scenario.upsets /\ serve[c].at # "idle"
  /\ Answers(c)
  /\ UNCHANGED <<tableVars, fresh, chainVars>>

-----------------------------------------------------------------------------
(* The chain, the wallet's other uses and the clock *)

MineNext(t, ok) ==
  /\ t \in pool /\ t.nonce = Len(mined) /\ height < scenario.blocks
  /\ mined' = Append(mined, [hash |-> t.hash, block |-> height + 1, ok |-> ok])
  /\ height' = height + 1
  /\ pool' = {u \in pool : u.nonce # t.nonce}
  /\ UNCHANGED <<tableVars, fresh, serve, replaced, scenario>>

EmptyBlock ==
  /\ height < scenario.blocks
  /\ height' = height + 1
  /\ UNCHANGED <<tableVars, fresh, serve, replaced, pool, mined, scenario>>

\* The newest block is replaced by an empty one; its transaction is pending again.
ReplaceNewest ==
  /\ "reorg" \in scenario.upsets /\ replaced = -1 /\ replaced' = height
  /\ IF mined # <<>> /\ mined[Len(mined)].block = height
     THEN /\ Broadcast(mined[Len(mined)].hash, Len(mined) - 1)
          /\ mined' = SubSeq(mined, 1, Len(mined) - 1)
     ELSE UNCHANGED <<pool, mined>>
  /\ UNCHANGED <<tableVars, fresh, serve, height, scenario>>

UseWallet ==
  /\ "other" \in scenario.upsets
  /\ ~Mined(<<RouteLength, "owner">>) /\ \A t \in pool : t.hash # <<RouteLength, "owner">>
  /\ Broadcast(<<RouteLength, "owner">>, PendingNonce)
  /\ UNCHANGED <<tableVars, fresh, serve, height, replaced, mined, scenario>>

Expire ==
  /\ "expiry" \in scenario.upsets /\ fresh /\ fresh' = FALSE
  /\ UNCHANGED <<tableVars, serve, chainVars>>

-----------------------------------------------------------------------------
Call(c) ==
  \/ Start(c) \/ BeginAttempt(c) \/ EnsurePrepared(c) \/ PrepareStep(c)
  \/ \E o \in Ordinals : \/ CallArm(c, o) \/ CallResolve(c, o)
                        \/ \E do \in {"recover", "cancel"} : CallInspect(c, o, do)
  \/ ArmStep(c) \/ BindHash(c) \/ Scan(c) \/ Inspect(c) \/ CancelStep(c) \/ MarkReconcile(c)
  \/ Look(c) \/ Settle(c) \/ RpcFails(c) \/ ConfirmStep(c)

Tab(c) ==
  \/ CheckPrompt(c) \/ WalletSigns(c) \/ ReportHash(c) \/ Gone(c)
  \/ \E o \in Ordinals, h \in Hashes : ReportAnother(c, o, h)

Chain ==
  \/ \E t \in pool, ok \in BOOLEAN : MineNext(t, ok)
  \/ EmptyBlock \/ ReplaceNewest \/ UseWallet \/ Expire

GuidedNext == Chain \/ \E c \in Callers : Call(c) \/ Tab(c)

GuidedSpec == GuidedInit /\ [][GuidedNext]_guidedVars

-----------------------------------------------------------------------------
\* A confirmed step is a transaction of its own that succeeded, with the nonce that
\* was stored when it was prepared, whatever hash a tab reported.
ConfirmedIsLanded ==
  \A o \in Ordinals : step[o].state = "confirmed" =>
    LET h == step[o].hash IN
    Mined(h) /\ h[1] = o /\ mined[Entry(h)].ok /\ Entry(h) = step[o].nonce + 1

\* The attempt counts the confirmed steps, only the next one is open, and the
\* attempt is complete or frozen exactly when its steps are.
RowsFollowTheRoute ==
  /\ \A o \in Ordinals : /\ o < attempt.next <=> step[o].state = "confirmed"
                         /\ o > attempt.next => step[o].state = "absent"
  /\ attempt.state = "complete" <=> attempt.next = RouteLength
  /\ attempt.state = "reconcile" <=> \E o \in Ordinals : step[o].state = "reconcile"

\* However often a step is armed, cancelled and armed again, by however many tabs,
\* at most one of its transactions is ever mined, and none before the step that
\* precedes it was confirmed.
StepsLandOnce ==
  \A m, n \in DOMAIN mined :
    /\ mined[m].hash[1] = mined[n].hash[1] => m = n
    /\ mined[n].hash[1] \in Ordinals \ {0} => step[mined[n].hash[1] - 1].state = "confirmed"

\* What a call in flight read is not written over what another one settled: a
\* confirmed or frozen step never changes, and a bound hash stays.
SettledRowsStay ==
  [][\A o \in Ordinals :
       /\ step[o].state \in {"confirmed", "reconcile"} => step'[o] = step[o]
       /\ step[o].hash # NoHash => step'[o].hash = step[o].hash]_guidedVars
=============================================================================

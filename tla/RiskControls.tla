------------------------------ MODULE RiskControls ------------------------------
(***************************************************************************)
(* The on-chain limits of general-asset execution: CobiaRiskManagerV2,     *)
(* which the owner loosens with a delay and tightens at once, and which    *)
(* CobiaExecutorV4 asks to record what each program spends.  A call is one *)
(* step; a call that reverts is no step.                                   *)
(*                                                                         *)
(* The time counts ticks, TicksPerHour to an hour; what was spent is kept  *)
(* in Buckets slots of an hour each, which are used again.                 *)
(***************************************************************************)
EXTENDS Naturals, Sequences, FiniteSets

CONSTANTS
  Wallets, Verifiers,
  LimitChoices,   \* the limits that may be proposed: route, wallet, protocol
  SpendChoices,   \* what a program may spend
  Buckets,        \* WINDOW_BUCKETS
  TicksPerHour,
  ChangeDelay,    \* CHANGE_DELAY
  RiskBounds      \* bounds, together, on the owner's calls, the programs and the time

ASSUME RiskAssumption ==
  /\ {Buckets, TicksPerHour} \subseteq Nat \ {0} /\ ChangeDelay \in Nat
  /\ RiskBounds \subseteq [calls : Nat, programs : Nat, tick : Nat \ {0}]
  /\ SpendChoices \subseteq Nat \ {0}
  /\ \A l \in LimitChoices : l.route \in 1..l.wallet /\ l.wallet \in 1..l.protocol /\ l.protocol \in Nat
  /\ Wallets \cap {"protocol", "limits", "verifier", "open", "unpause"} = {}

Controls == {"limits", "verifier", "open", "unpause"} \cup Wallets

VARIABLES
  tick,       \* block.timestamp
  config,     \* limits, verifierSigner, accessMode, paused, walletAllowed and walletDenied
  pending,    \* of each control the change proposed, and its time; time 0 is none
  hourly,     \* walletHourly of each wallet, and protocolHourly
  spent,      \* every program executed: a history variable
  settled,    \* when each control was last proposed, or tightened with what was proposed
              \* for it cancelled: a history variable
  calls,      \* how often the owner has called
  bound       \* the bounds of this behaviour

riskVars == <<tick, config, pending, hourly, spent, settled, calls, bound>>

\* Time 0 means that nothing is pending, so the chain is older than that.
Genesis == 1
NoChange == [value |-> "none", after |-> 0]
Ledgers == Wallets \cup {"protocol"}

\* The manager as deployed, or as its owner has opened it since.
RiskInit ==
  /\ tick = Genesis
  /\ config \in [limits : LimitChoices, verifier : Verifiers, open : BOOLEAN, paused : BOOLEAN,
                 allowed : SUBSET Wallets, denied : {{}}]
  /\ pending = [c \in Controls |-> NoChange]
  /\ hourly = [a \in Ledgers |-> [s \in 0..(Buckets - 1) |-> [hour |-> 0, usd |-> 0]]]
  /\ spent = <<>> /\ calls = 0 /\ bound \in RiskBounds
  /\ settled = [c \in Controls |-> 0]

-----------------------------------------------------------------------------
(* The owner *)

Calling == calls < bound.calls /\ calls' = calls + 1 /\ UNCHANGED <<tick, hourly, spent, bound>>
Settles(c) == settled' = [settled EXCEPT ![c] = tick]

\* Every proposal of the manager: the latest one counts, from now.
Propose(c, value) ==
  /\ Calling /\ Settles(c)
  /\ pending' = [pending EXCEPT ![c] = [value |-> value, after |-> tick + ChangeDelay]]
  /\ UNCHANGED config

\* _requireReady
Ready(c) == pending[c].after # 0 /\ tick >= pending[c].after

Activates(c) ==
  /\ Calling /\ Ready(c)
  /\ pending' = [pending EXCEPT ![c] = NoChange]
  /\ UNCHANGED settled

ActivateLimits == Activates("limits") /\ config' = [config EXCEPT !.limits = pending["limits"].value]
ActivateVerifier == Activates("verifier") /\ config' = [config EXCEPT !.verifier = pending["verifier"].value]
ActivateOpenAccess == Activates("open") /\ config' = [config EXCEPT !.open = TRUE]
ActivateUnpause == Activates("unpause") /\ config' = [config EXCEPT !.paused = FALSE]

\* An activation lifts a denial as well, even one that came after its proposal.
ActivateWallet(w) ==
  /\ Activates(w)
  /\ config' = [config EXCEPT !.allowed = @ \cup {w}, !.denied = @ \ {w}]

\* Mutant: tightening a control leaves what was proposed before.
TightensOnly(c) == Calling /\ Settles(c) /\ UNCHANGED pending

\* Tightening a control cancels what was proposed for it.
Tightens(c) == Calling /\ Settles(c) /\ pending' = [pending EXCEPT ![c] = NoChange]

\* No limit is raised.
ReduceLimits(l) ==
  /\ l.route <= config.limits.route /\ l.wallet <= config.limits.wallet
  /\ l.protocol <= config.limits.protocol
  /\ Tightens("limits") /\ config' = [config EXCEPT !.limits = l]

RemoveWallet(w) == Tightens(w) /\ config' = [config EXCEPT !.allowed = @ \ {w}]
SetAllowlistMode == Tightens("open") /\ config' = [config EXCEPT !.open = FALSE]
Pause == Tightens("unpause") /\ config' = [config EXCEPT !.paused = TRUE]

\* A denial cancels nothing: what was proposed for the wallet goes on waiting.
DenyWallet(w) ==
  /\ Calling /\ config' = [config EXCEPT !.denied = @ \cup {w}]
  /\ UNCHANGED <<pending, settled>>

-----------------------------------------------------------------------------
(* consumeUsd *)

HourOf(t) == t \div TicksPerHour
Sum(seq) ==
  LET upTo[n \in 0..Len(seq)] == IF n = 0 THEN 0 ELSE seq[n] + upTo[n - 1] IN upTo[Len(seq)]

\* Mutant: the oldest hour of the window is left out.
InWindowShort(bucketHour, hour) == bucketHour <= hour /\ hour - bucketHour < Buckets - 1

InWindow(bucketHour, hour) == bucketHour <= hour /\ hour - bucketHour < Buckets

\* _rollingWallet, _rollingProtocol
Rolling(a, hour) ==
  Sum([s \in 1..Buckets |-> IF InWindow(hourly[a][s - 1].hour, hour) THEN hourly[a][s - 1].usd ELSE 0])

\* _recordWallet, _recordProtocol: the slot of an older hour starts again.
Record(bucket, hour, usd) ==
  [hour |-> hour, usd |-> usd + IF bucket.hour = hour THEN bucket.usd ELSE 0]

\* isWalletAuthorized
Authorized(w) == w \notin config.denied /\ (config.open \/ w \in config.allowed)

\* Mutant: the protocol's cap is compared with what was spent before.
FitsBefore(w, usd) ==
  /\ usd <= config.limits.route
  /\ Rolling(w, HourOf(tick)) + usd <= config.limits.wallet
  /\ Rolling("protocol", HourOf(tick)) <= config.limits.protocol

Fits(w, usd) ==
  /\ usd <= config.limits.route
  /\ Rolling(w, HourOf(tick)) + usd <= config.limits.wallet
  /\ Rolling("protocol", HourOf(tick)) + usd <= config.limits.protocol

\* execute: the program carries the signature of the verifier in force.
Execute(w, usd, verifier) ==
  LET hour == HourOf(tick) slot == hour % Buckets IN
  /\ Len(spent) < bound.programs
  /\ verifier = config.verifier
  /\ ~config.paused /\ Authorized(w) /\ Fits(w, usd)
  /\ hourly' = [a \in Ledgers |->
       IF a \in {w, "protocol"} THEN [hourly[a] EXCEPT ![slot] = Record(@, hour, usd)] ELSE hourly[a]]
  /\ spent' = Append(spent, [wallet |-> w, usd |-> usd, at |-> tick])
  /\ UNCHANGED <<tick, config, pending, settled, calls, bound>>

RiskTick ==
  /\ tick < bound.tick /\ tick' = tick + 1
  /\ UNCHANGED <<config, pending, hourly, spent, settled, calls, bound>>

RiskNext ==
  \/ RiskTick
  \/ \E l \in LimitChoices : Propose("limits", l) \/ ReduceLimits(l)
  \/ \E v \in Verifiers : Propose("verifier", v)
  \/ \E c \in {"open", "unpause"} \cup Wallets : Propose(c, "none")
  \/ ActivateLimits \/ ActivateVerifier \/ ActivateOpenAccess \/ ActivateUnpause
  \/ SetAllowlistMode \/ Pause
  \/ \E w \in Wallets :
       \/ ActivateWallet(w) \/ RemoveWallet(w) \/ DenyWallet(w)
       \/ \E usd \in SpendChoices, v \in Verifiers : Execute(w, usd, v)

RiskSpec == RiskInit /\ [][RiskNext]_riskVars

-----------------------------------------------------------------------------
\* What wallets W spent at the times in T, by a ledger of programs.
SpentIn(ledger, W, T) ==
  Sum([n \in DOMAIN ledger |->
        IF ledger[n].wallet \in W /\ ledger[n].at \in T THEN ledger[n].usd ELSE 0])

HoursUpTo(hour) == {t \in Genesis..bound.tick : HourOf(t) <= hour /\ hour - HourOf(t) < Buckets}

\* The reused slots hold what the last hours spent, no less (a limit would be passed)
\* and no more ("no lifetime counter blocks use", general-asset-v4.md).
WindowIsExact ==
  LET hour == HourOf(tick) IN
  /\ \A w \in Wallets : Rolling(w, hour) = SpentIn(spent, {w}, HoursUpTo(hour))
  /\ Rolling("protocol", hour) = SpentIn(spent, Wallets, HoursUpTo(hour))

\* Whatever limits were changed to meanwhile, a program is executed within the limits
\* in force and the window of whole hours, over all wallets.
SpendingIsLimited ==
  [][spent' # spent =>
       LET w == spent'[Len(spent')].wallet window == HoursUpTo(HourOf(tick)) IN
       /\ SpentIn(spent', {w}, window) <= config.limits.wallet
       /\ SpentIn(spent', Wallets, window) <= config.limits.protocol]_riskVars

Loosens(c) ==
  CASE c = "limits" -> \E f \in {"route", "wallet", "protocol"} : config'.limits[f] > config.limits[f]
    [] c = "verifier" -> config'.verifier # config.verifier
    [] c = "open" -> config'.open /\ ~config.open
    [] c = "unpause" -> config.paused /\ ~config'.paused
    [] OTHER -> c \in (config'.allowed \ config.allowed) \cup (config.denied \ config'.denied)

\* "Increases wait, and reductions, pause and deny are immediate": nothing is loosened,
\* and no denial is lifted, within the delay after it was last proposed.  A reduction, a
\* removal, a closing and a pause start the wait again, so that no proposal made before
\* them undoes them; a denial does not, and is lifted by an activation pending before it.
LooseningWaits ==
  [][config' # config =>
       \A c \in Controls : Loosens(c) => tick >= settled[c] + ChangeDelay]_riskVars

\* general-asset-v4-design.md: "maximum per wallet in a rolling 24-hour window", of
\* any Buckets hours in a row.  The limits have not been changed.
RollingDayIsLimited ==
  calls = 0 =>
    \A w \in Wallets, from \in Genesis..bound.tick :
      SpentIn(spent, {w}, from..(from + Buckets * TicksPerHour - 1)) <= config.limits.wallet
=============================================================================

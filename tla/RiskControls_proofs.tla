-------------------------- MODULE RiskControls_proofs --------------------------
(***************************************************************************)
(* Proofs, for any wallets, limits, delays, window and number of calls.    *)
(*                                                                         *)
(* 1. CobiaRiskManagerV2 loosens nothing before the delay has passed since *)
(*    the control was last proposed or tightened. What is pending carries  *)
(*    a time; the invariant ties that time to the history of the control,  *)
(*    because every proposal sets both and every tightening cancels what   *)
(*    is pending.                                                          *)
(*                                                                         *)
(* 2. The ring of hourly slots holds what the window spent, and spending   *)
(*    stays within the limits. That the slots are right in this hour says  *)
(*    nothing of the next one, in which the oldest leaves the window; the  *)
(*    invariant says it of every hour to come (ExactFromNowOn). What a     *)
(*    sum becomes when one of its numbers changes or one is appended comes *)
(*    first, by induction over its prefixes.                               *)
(***************************************************************************)
EXTENDS RiskControls, FiniteSetTheorems, SequenceTheorems, WellFoundedInduction, TLAPS

ConfigType ==
  config \in [limits : LimitChoices, verifier : Verifiers, open : BOOLEAN, paused : BOOLEAN,
              allowed : SUBSET Wallets, denied : SUBSET Wallets]

ClockType ==
  /\ tick \in Nat
  /\ settled \in [Controls -> Nat]
  /\ DOMAIN pending = Controls

\* A pending change waits for the delay from the last time its control was settled.
PendingSinceSettled ==
  \A c \in Controls :
    /\ pending[c].after # 0 => pending[c].after = settled[c] + ChangeDelay
    /\ pending[c].after # 0 /\ c = "limits" => pending[c].value \in LimitChoices
    /\ pending[c].after # 0 /\ c = "verifier" => pending[c].value \in Verifiers

DelayInv == ConfigType /\ ClockType /\ PendingSinceSettled

\* The constants, in the form the provers use.
LEMMA RiskConstants ==
  /\ ChangeDelay \in Nat
  /\ {"limits", "verifier", "open", "unpause"} \subseteq Controls /\ Wallets \subseteq Controls
  /\ \A w \in Wallets : w \notin {"limits", "verifier", "open", "unpause"}
  /\ \A l \in LimitChoices : l.route \in Nat /\ l.wallet \in Nat /\ l.protocol \in Nat
BY RiskAssumption DEF Controls

\* Nothing is pending at the start.
LEMMA DelayInitInv == RiskInit => DelayInv
BY RiskConstants DEF RiskInit, DelayInv, ConfigType, ClockType, PendingSinceSettled, Genesis, NoChange

\* A proposal restarts the wait of its control.
LEMMA ProposeInv ==
  ASSUME DelayInv, NEW c \in Controls, NEW value, Propose(c, value),
         c = "limits" => value \in LimitChoices, c = "verifier" => value \in Verifiers
  PROVE  DelayInv'
<1>1. /\ UNCHANGED <<tick, config>>
      /\ pending' = [pending EXCEPT ![c] = [value |-> value, after |-> tick + ChangeDelay]]
      /\ settled' = [settled EXCEPT ![c] = tick]
  BY DEF Propose, Calling, Settles
<1>2. ConfigType' /\ ClockType'
  BY <1>1 DEF DelayInv, ConfigType, ClockType
<1>3. PendingSinceSettled'
  BY <1>1, RiskConstants DEF DelayInv, ClockType, PendingSinceSettled
<1>4. QED
  BY <1>2, <1>3 DEF DelayInv

\* A control that is cleared has nothing pending, whether it is settled or not.
LEMMA ClearInv ==
  ASSUME DelayInv, NEW c \in Controls, ConfigType', UNCHANGED tick,
         pending' = [pending EXCEPT ![c] = NoChange],
         settled' = settled \/ settled' = [settled EXCEPT ![c] = tick]
  PROVE  DelayInv'
<1>1. ClockType'
  BY DEF DelayInv, ClockType
<1>2. PendingSinceSettled'
  BY DEF DelayInv, ClockType, PendingSinceSettled, NoChange
<1>3. QED
  BY <1>1, <1>2 DEF DelayInv

\* Every call that changes a control and clears it.
LEMMA OwnerClears ==
  ASSUME DelayInv,
         \/ ActivateLimits \/ ActivateVerifier \/ ActivateOpenAccess \/ ActivateUnpause
         \/ SetAllowlistMode \/ Pause
         \/ \E l \in LimitChoices : ReduceLimits(l)
         \/ \E w \in Wallets : ActivateWallet(w) \/ RemoveWallet(w)
  PROVE  DelayInv'
<1>1. ConfigType'
  <2> USE DEF DelayInv, ConfigType
  <2>1. CASE ActivateLimits
    <3>1. pending["limits"].value \in LimitChoices
      BY <2>1, RiskConstants DEF ActivateLimits, Activates, Ready, PendingSinceSettled
    <3>2. QED
      BY <2>1, <3>1 DEF ActivateLimits
  <2>2. CASE ActivateVerifier
    <3>1. pending["verifier"].value \in Verifiers
      BY <2>2, RiskConstants DEF ActivateVerifier, Activates, Ready, PendingSinceSettled
    <3>2. QED
      BY <2>2, <3>1 DEF ActivateVerifier
  <2>3. CASE ActivateOpenAccess \/ ActivateUnpause \/ SetAllowlistMode \/ Pause
    BY <2>3 DEF ActivateOpenAccess, ActivateUnpause, SetAllowlistMode, Pause
  <2>4. ASSUME NEW l \in LimitChoices, ReduceLimits(l) PROVE ConfigType'
    BY <2>4 DEF ReduceLimits
  <2>5. ASSUME NEW w \in Wallets, ActivateWallet(w) \/ RemoveWallet(w) PROVE ConfigType'
    <3>1. config.allowed \cup {w} \in SUBSET Wallets /\ config.denied \ {w} \in SUBSET Wallets
      OBVIOUS
    <3>2. config.allowed \ {w} \in SUBSET Wallets
      OBVIOUS
    <3>3. CASE ActivateWallet(w)
      BY <3>1, <3>3 DEF ActivateWallet
    <3>4. CASE RemoveWallet(w)
      BY <3>2, <3>4 DEF RemoveWallet
    <3>5. QED
      BY <2>5, <3>3, <3>4
  <2>6. QED
    BY <2>1, <2>2, <2>3, <2>4, <2>5
<1>2. \E c \in Controls :
        /\ UNCHANGED tick /\ pending' = [pending EXCEPT ![c] = NoChange]
        /\ settled' = settled \/ settled' = [settled EXCEPT ![c] = tick]
  BY RiskConstants DEF ActivateLimits, ActivateVerifier, ActivateOpenAccess, ActivateUnpause, SetAllowlistMode,
     Pause, ReduceLimits, ActivateWallet, RemoveWallet, Activates, Tightens, Calling, Settles
<1>3. QED
  BY <1>1, <1>2, ClearInv

\* Every step preserves the invariant.
LEMMA DelayStepInv == DelayInv /\ [RiskNext]_riskVars => DelayInv'
<1> SUFFICES ASSUME DelayInv, [RiskNext]_riskVars PROVE DelayInv'
  OBVIOUS
<1>1. CASE RiskTick
  BY <1>1 DEF RiskTick, DelayInv, ConfigType, ClockType, PendingSinceSettled
<1>2. ASSUME NEW l \in LimitChoices, Propose("limits", l) PROVE DelayInv'
  BY <1>2, ProposeInv, RiskConstants
<1>3. ASSUME NEW v \in Verifiers, Propose("verifier", v) PROVE DelayInv'
  BY <1>3, ProposeInv, RiskConstants
<1>4. ASSUME NEW c \in {"open", "unpause"} \cup Wallets, Propose(c, "none") PROVE DelayInv'
  BY <1>4, ProposeInv, RiskConstants
<1>5. ASSUME NEW w \in Wallets, DenyWallet(w) PROVE DelayInv'
  BY <1>5 DEF DenyWallet, Calling, DelayInv, ConfigType, ClockType, PendingSinceSettled
<1>6. ASSUME NEW w \in Wallets, NEW usd \in SpendChoices, NEW v \in Verifiers, Execute(w, usd, v)
      PROVE  DelayInv'
  BY <1>6 DEF Execute, DelayInv, ConfigType, ClockType, PendingSinceSettled
<1>7. CASE UNCHANGED riskVars
  BY <1>7 DEF riskVars, DelayInv, ConfigType, ClockType, PendingSinceSettled
<1>8. QED
  BY <1>1, <1>2, <1>3, <1>4, <1>5, <1>6, <1>7, OwnerClears DEF RiskNext

LEMMA DelayAlways == RiskSpec => []DelayInv
BY DelayInitInv, DelayStepInv, PTL DEF RiskSpec

\* What an activation changes was pending for as long as its control was settled.
LEMMA ActivatesWaits ==
  ASSUME DelayInv, NEW c \in Controls, Activates(c)
  PROVE  tick >= settled[c] + ChangeDelay
BY DEF DelayInv, PendingSinceSettled, Activates, Ready

\* The controls a step leaves as they were, or tightens.
LEMMA UnchangedIsNotLoosened ==
  ASSUME DelayInv, NEW c \in Controls, config' = config
  PROVE  ~Loosens(c)
<1>1. \A f \in {"route", "wallet", "protocol"} : ~(config.limits[f] > config.limits[f])
  BY RiskConstants DEF DelayInv, ConfigType
<1>2. c \in {"limits", "verifier", "open", "unpause"} \/ c \in Wallets
  BY DEF Controls
<1>3. QED
  BY <1>1, <1>2, RiskConstants DEF Loosens

\* Only the activation of a control loosens it.
LEMMA LooseningActivates ==
  ASSUME DelayInv, RiskNext, NEW c \in Controls, Loosens(c)
  PROVE  Activates(c)
<1> USE RiskConstants
<1>1. CASE config' = config
  BY <1>1, UnchangedIsNotLoosened
<1>2. /\ config.limits \in LimitChoices
      /\ config \in [limits : LimitChoices, verifier : Verifiers, open : BOOLEAN, paused : BOOLEAN,
                     allowed : SUBSET Wallets, denied : SUBSET Wallets]
  BY DEF DelayInv, ConfigType
<1>3. CASE ActivateLimits
  <2>1. \A f \in {"verifier", "open", "paused", "allowed", "denied"} : config'[f] = config[f]
    BY <1>2, <1>3 DEF ActivateLimits
  <2>2. c = "limits"
    BY <1>2, <2>1 DEF Loosens, Controls
  <2>3. QED
    BY <1>3, <2>2 DEF ActivateLimits
<1>4. CASE ActivateVerifier
  <2>1. \A f \in {"limits", "open", "paused", "allowed", "denied"} : config'[f] = config[f]
    BY <1>2, <1>4 DEF ActivateVerifier
  <2>2. c = "verifier"
    BY <1>2, <2>1 DEF Loosens, Controls
  <2>3. QED
    BY <1>4, <2>2 DEF ActivateVerifier
<1>5. CASE ActivateOpenAccess
  <2>1. \A f \in {"limits", "verifier", "paused", "allowed", "denied"} : config'[f] = config[f]
    BY <1>2, <1>5 DEF ActivateOpenAccess
  <2>2. c = "open"
    BY <1>2, <2>1 DEF Loosens, Controls
  <2>3. QED
    BY <1>5, <2>2 DEF ActivateOpenAccess
<1>6. CASE ActivateUnpause
  <2>1. \A f \in {"limits", "verifier", "open", "allowed", "denied"} : config'[f] = config[f]
    BY <1>2, <1>6 DEF ActivateUnpause
  <2>2. c = "unpause"
    BY <1>2, <2>1 DEF Loosens, Controls
  <2>3. QED
    BY <1>6, <2>2 DEF ActivateUnpause
<1>7. ASSUME NEW w \in Wallets, ActivateWallet(w) PROVE Activates(c)
  <2>1. /\ \A f \in {"limits", "verifier", "open", "paused"} : config'[f] = config[f]
        /\ config'.allowed = config.allowed \cup {w} /\ config'.denied = config.denied \ {w}
    BY <1>2, <1>7 DEF ActivateWallet
  <2>2. c = w
    BY <1>2, <2>1 DEF Loosens, Controls
  <2>3. QED
    BY <1>7, <2>2 DEF ActivateWallet
<1>8. ASSUME NEW l \in LimitChoices, ReduceLimits(l) PROVE FALSE
  <2>1. /\ \A f \in {"verifier", "open", "paused", "allowed", "denied"} : config'[f] = config[f]
        /\ config'.limits = l
        /\ l.route <= config.limits.route /\ l.wallet <= config.limits.wallet
        /\ l.protocol <= config.limits.protocol
    BY <1>2, <1>8 DEF ReduceLimits
  <2>2. \A f \in {"route", "wallet", "protocol"} : ~(l[f] > config.limits[f])
    BY <1>2, <2>1
  <2>3. QED
    BY <1>2, <2>1, <2>2 DEF Loosens, Controls
<1>9. ASSUME NEW w \in Wallets, RemoveWallet(w) PROVE FALSE
  <2>1. /\ \A f \in {"limits", "verifier", "open", "paused"} : config'[f] = config[f]
        /\ config'.allowed = config.allowed \ {w} /\ config'.denied = config.denied
    BY <1>2, <1>9 DEF RemoveWallet
  <2>2. QED
    BY <1>2, <2>1 DEF Loosens, Controls
<1>10. CASE SetAllowlistMode
  <2>1. /\ \A f \in {"limits", "verifier", "paused", "allowed", "denied"} : config'[f] = config[f]
        /\ ~config'.open
    BY <1>2, <1>10 DEF SetAllowlistMode
  <2>2. QED
    BY <1>2, <2>1 DEF Loosens, Controls
<1>11. CASE Pause
  <2>1. /\ \A f \in {"limits", "verifier", "open", "allowed", "denied"} : config'[f] = config[f]
        /\ config'.paused
    BY <1>2, <1>11 DEF Pause
  <2>2. QED
    BY <1>2, <2>1 DEF Loosens, Controls
<1>12. ASSUME NEW w \in Wallets, DenyWallet(w) PROVE FALSE
  <2>1. /\ \A f \in {"limits", "verifier", "open", "paused", "allowed"} : config'[f] = config[f]
        /\ config'.denied = config.denied \cup {w}
    BY <1>2, <1>12 DEF DenyWallet
  <2>2. QED
    BY <1>2, <2>1 DEF Loosens, Controls
<1>13. QED
  BY <1>1, <1>3, <1>4, <1>5, <1>6, <1>7, <1>8, <1>9, <1>10, <1>11, <1>12 DEF RiskNext, RiskTick, Propose, Execute

\* "Increases wait, and reductions, pause and deny are immediate": no sequence of
\* the owner's calls loosens a control, or lifts a denial, within the delay after it
\* was last proposed, or tightened by a call that cancels what was proposed.
THEOREM DelayIsKept == RiskSpec => LooseningWaits
<1>1. DelayInv /\ [RiskNext]_riskVars =>
        [config' # config => \A c \in Controls : Loosens(c) => tick >= settled[c] + ChangeDelay]_riskVars
  BY LooseningActivates, ActivatesWaits
<1>2. RiskSpec =>
        [][config' # config => \A c \in Controls : Loosens(c) => tick >= settled[c] + ChangeDelay]_riskVars
  BY <1>1, DelayAlways, PTL DEF RiskSpec
<1>3. QED
  BY <1>2 DEF LooseningWaits
-----------------------------------------------------------------------------
(* Sums *)

\* A set of numbers has a least element: the numbers below each of its members are a
\* finite set, and the strict subset order on those is well-founded.
LEMMA LeastElement ==
  ASSUME NEW T, T \subseteq Nat, T # {}
  PROVE  \E x \in T : \A y \in T : x <= y
<1> DEFINE Below(x) == 0..(x - 1)
           All == {Below(x) : x \in T}
<1>1. \A x \in T : Below(x) \in FiniteSubsetsOf(Nat)
  <2> SUFFICES ASSUME NEW x \in T PROVE Below(x) \in FiniteSubsetsOf(Nat)
    OBVIOUS
  <2>1. IsFiniteSet(Below(x)) /\ Below(x) \subseteq Nat
    BY FS_Interval
  <2>2. QED
    BY <2>1 DEF FiniteSubsetsOf
<1>2. All \subseteq FiniteSubsetsOf(Nat) /\ All # {}
  BY <1>1
<1>3. IsWellFoundedOn(StrictSubsetOrdering(Nat), FiniteSubsetsOf(Nat))
  BY FS_StrictSubsetOrderingWellFounded
<1> HIDE DEF All
<1>4. PICK m \in All : \A b \in All : ~(<<b, m>> \in StrictSubsetOrdering(Nat))
  BY <1>2, <1>3, WFMin
<1>5. PICK x \in T : m = Below(x)
  BY <1>4 DEF All
<1>6. ASSUME NEW y \in T, y < x PROVE FALSE
  <2>1. Below(y) \subseteq Below(x) /\ Below(y) # Below(x) /\ y \in Below(x) /\ y \notin Below(y)
    BY <1>6
  <2>2. Below(y) \in All /\ Below(x) \subseteq Nat /\ Below(y) \subseteq Nat
    BY DEF All
  <2>3. <<Below(y), Below(x)>> \in StrictSubsetOrdering(Nat)
    BY <2>1, <2>2 DEF StrictSubsetOrdering
  <2>4. QED
    BY <2>2, <2>3, <1>4, <1>5
<1>7. QED
  BY <1>6

\* What holds of 0, and of the next number of each it holds of, holds of all.
LEMMA UpwardsFromZero ==
  ASSUME NEW S, 0 \in S, \A n \in Nat : n \in S => n + 1 \in S
  PROVE  Nat \subseteq S
<1> SUFFICES ASSUME NEW m \in Nat, m \notin S PROVE FALSE
  OBVIOUS
<1> DEFINE T == {n \in Nat : n \notin S}
<1>1. PICK x \in T : \A y \in T : x <= y
  BY LeastElement
<1>2. x # 0 /\ x \in Nat /\ x \notin S
  OBVIOUS
<1>3. x - 1 \in Nat /\ x - 1 \notin T
  BY <1>1, <1>2
<1>4. QED
  BY <1>2, <1>3

\* What Sum computes: the sums of the prefixes, of which it is the last.
Prefixes(x, N, g) == g \in [0..N -> Nat] /\ g[0] = 0 /\ \A k \in 1..N : g[k] = x[k] + g[k - 1]

\* Such prefixes exist, one longer at a time.
LEMMA PrefixesExist ==
  ASSUME NEW N \in Nat, NEW x \in [1..N -> Nat]
  PROVE  \E g : Prefixes(x, N, g)
<1> DEFINE S == {n \in Nat : n <= N => \E g : Prefixes(x, n, g)}
<1>1. 0 \in S
  <2>1. Prefixes(x, 0, [k \in 0..0 |-> 0])
    BY DEF Prefixes
  <2>2. QED
    BY <2>1
<1>2. ASSUME NEW n \in Nat, n \in S PROVE n + 1 \in S
  <2>1. SUFFICES ASSUME n + 1 <= N PROVE \E g : Prefixes(x, n + 1, g)
    OBVIOUS
  <2>2. PICK g : Prefixes(x, n, g)
    BY <1>2, <2>1
  <2> DEFINE h == [k \in 0..(n + 1) |-> IF k = n + 1 THEN x[k] + g[n] ELSE g[k]]
  <2>3. h \in [0..(n + 1) -> Nat] /\ h[0] = 0
    BY <2>1, <2>2 DEF Prefixes
  <2>4. ASSUME NEW k \in 1..(n + 1) PROVE h[k] = x[k] + h[k - 1]
    <3>1. CASE k = n + 1
      BY <3>1
    <3>2. CASE k # n + 1
      <4>1. k \in 1..n /\ k \in 0..(n + 1) /\ k - 1 \in 0..(n + 1) /\ k - 1 # n + 1
        BY <3>2
      <4>2. h[k] = g[k] /\ h[k - 1] = g[k - 1]
        BY <3>2, <4>1
      <4>3. QED
        BY <2>2, <4>1, <4>2 DEF Prefixes
    <3>3. QED
      BY <3>1, <3>2
  <2>5. QED
    BY <2>3, <2>4 DEF Prefixes
<1>3. Nat \subseteq S
  <2> HIDE DEF S
  <2>1. QED
    BY <1>1, <1>2, UpwardsFromZero
<1>4. QED
  BY <1>3

\* The recursive function of Sum is one of them.
LEMMA SumOfPrefixes ==
  ASSUME NEW N \in Nat, NEW x \in [1..N -> Nat]
  PROVE  \E g : Prefixes(x, N, g) /\ Sum(x) = g[N]
<1> DEFINE P(g) == g = [n \in 0..N |-> IF n = 0 THEN 0 ELSE x[n] + g[n - 1]]
           G == CHOOSE g : P(g)
<1>1. PICK h : Prefixes(x, N, h)
  BY PrefixesExist
<1>2. P(h)
  <2>1. ASSUME NEW n \in 0..N PROVE h[n] = IF n = 0 THEN 0 ELSE x[n] + h[n - 1]
    <3>1. n = 0 \/ n \in 1..N
      OBVIOUS
    <3>2. QED
      BY <1>1, <3>1 DEF Prefixes
  <2>2. h = [n \in 0..N |-> h[n]]
    BY <1>1 DEF Prefixes
  <2>3. QED
    BY <2>1, <2>2
<1>3. P(G)
  BY <1>2, Zenon
<1>4. Len(x) = N
  OBVIOUS
<1>5. Sum(x) = G[N]
  BY <1>4 DEF Sum
<1> HIDE DEF G
<1> DEFINE S == {n \in Nat : n <= N => G[n] = h[n]}
<1>6. 0 \in S
  BY <1>1, <1>3 DEF Prefixes
<1>7. ASSUME NEW n \in Nat, n \in S PROVE n + 1 \in S
  <2>1. SUFFICES ASSUME n + 1 <= N PROVE G[n + 1] = h[n + 1]
    OBVIOUS
  <2>2. n + 1 \in 0..N /\ n + 1 \in 1..N /\ n + 1 # 0 /\ (n + 1) - 1 = n
    BY <2>1
  <2>3. G[n + 1] = x[n + 1] + G[n] /\ h[n + 1] = x[n + 1] + h[n]
    BY <1>1, <1>3, <2>2 DEF Prefixes
  <2>4. QED
    BY <1>7, <2>1, <2>3
<1>8. N \in S
  <2> HIDE DEF S
  <2>1. QED
    BY <1>6, <1>7, UpwardsFromZero
<1>9. QED
  BY <1>1, <1>5, <1>8

\* The sum of nothing but zeros.
LEMMA SumOfZeros ==
  ASSUME NEW N \in Nat, NEW x \in [1..N -> Nat], \A k \in 1..N : x[k] = 0
  PROVE  Sum(x) = 0
<1>1. PICK g : Prefixes(x, N, g) /\ Sum(x) = g[N]
  BY SumOfPrefixes
<1> DEFINE S == {n \in Nat : n <= N => g[n] = 0}
<1>2. 0 \in S /\ \A n \in Nat : n \in S => n + 1 \in S
  BY <1>1 DEF Prefixes
<1> HIDE DEF S
<1>3. N \in S
  BY <1>2, UpwardsFromZero
<1>4. QED
  BY <1>1, <1>3 DEF S

\* A sum in which one number changes.
LEMMA SumWithAChange ==
  ASSUME NEW N \in Nat, NEW x \in [1..N -> Nat], NEW y \in [1..N -> Nat], NEW k \in 1..N,
         \A j \in 1..N : j # k => y[j] = x[j]
  PROVE  Sum(y) + x[k] = Sum(x) + y[k] /\ Sum(x) \in Nat /\ Sum(y) \in Nat
<1>1. PICK g : Prefixes(x, N, g) /\ Sum(x) = g[N]
  BY SumOfPrefixes
<1>2. PICK h : Prefixes(y, N, h) /\ Sum(y) = h[N]
  BY SumOfPrefixes
<1> DEFINE S == {n \in Nat : n <= N => IF n < k THEN h[n] = g[n] ELSE h[n] + x[k] = g[n] + y[k]}
<1>3. 0 \in S
  BY <1>1, <1>2 DEF Prefixes
<1>4. ASSUME NEW n \in Nat, n \in S PROVE n + 1 \in S
  <2>1. SUFFICES ASSUME n + 1 <= N
                 PROVE  IF n + 1 < k THEN h[n + 1] = g[n + 1] ELSE h[n + 1] + x[k] = g[n + 1] + y[k]
    OBVIOUS
  <2>2. n + 1 \in 1..N /\ n \in 0..N
    BY <2>1
  <2>3. /\ g[n + 1] = x[n + 1] + g[n] /\ h[n + 1] = y[n + 1] + h[n]
        /\ g[n] \in Nat /\ h[n] \in Nat /\ x[n + 1] \in Nat /\ y[n + 1] \in Nat
        /\ x[k] \in Nat /\ y[k] \in Nat
    BY <1>1, <1>2, <2>2 DEF Prefixes
  <2>4. n < k => h[n] = g[n]
    BY <1>4, <2>1
  <2>5. ~(n < k) => h[n] + x[k] = g[n] + y[k]
    BY <1>4, <2>1
  <2>6. CASE n + 1 = k
    BY <2>3, <2>4, <2>6
  <2>7. CASE n + 1 # k
    <3>1. y[n + 1] = x[n + 1]
      BY <2>2, <2>7
    <3>2. CASE n < k
      BY <2>3, <2>4, <2>7, <3>1, <3>2
    <3>3. CASE ~(n < k)
      <4>1. h[n] + x[k] = g[n] + y[k]
        BY <2>5, <3>3
      <4>2. h[n + 1] + x[k] = g[n + 1] + y[k]
        <5> DEFINE a == g[n]
                   b == h[n]
                   p == x[k]
                   q == y[k]
                   z == x[n + 1]
        <5>1. a \in Nat /\ b \in Nat /\ p \in Nat /\ q \in Nat /\ z \in Nat /\ b + p = a + q
          BY <2>3, <4>1
        <5>2. h[n + 1] = z + b /\ g[n + 1] = z + a
          BY <2>3, <3>1
        <5> HIDE DEF a, b, p, q, z
        <5>3. (z + b) + p = (z + a) + q
          BY <5>1
        <5>4. h[n + 1] + p = g[n + 1] + q
          BY <5>2, <5>3
        <5>5. QED
          BY <5>4 DEF p, q
      <4>3. ~(n + 1 < k)
        BY <3>3
      <4>4. QED
        BY <4>2, <4>3
    <3>4. QED
      BY <3>2, <3>3
  <2>8. QED
    BY <2>6, <2>7
<1>5. N \in S
  <2> HIDE DEF S
  <2>1. QED
    BY <1>3, <1>4, UpwardsFromZero
<1>6. QED
  BY <1>1, <1>2, <1>5 DEF Prefixes

\* A sum with one number more.
LEMMA SumWithOneMore ==
  ASSUME NEW N \in Nat, NEW x \in [1..N -> Nat], NEW y \in [1..(N + 1) -> Nat],
         \A j \in 1..N : y[j] = x[j]
  PROVE  Sum(y) = Sum(x) + y[N + 1] /\ Sum(x) \in Nat
<1>1. PICK g : Prefixes(x, N, g) /\ Sum(x) = g[N]
  BY SumOfPrefixes
<1>2. PICK h : Prefixes(y, N + 1, h) /\ Sum(y) = h[N + 1]
  BY SumOfPrefixes
<1> DEFINE S == {n \in Nat : n <= N => h[n] = g[n]}
<1>3. 0 \in S
  BY <1>1, <1>2 DEF Prefixes
<1>4. ASSUME NEW n \in Nat, n \in S PROVE n + 1 \in S
  <2>1. SUFFICES ASSUME n + 1 <= N PROVE h[n + 1] = g[n + 1]
    OBVIOUS
  <2>2. n + 1 \in 1..N /\ n + 1 \in 1..(N + 1) /\ (n + 1) - 1 = n /\ n <= N
    BY <2>1
  <2>3. g[n + 1] = x[n + 1] + g[n] /\ h[n + 1] = y[n + 1] + h[n]
    BY <1>1, <1>2, <2>2 DEF Prefixes
  <2>4. QED
    BY <1>4, <2>2, <2>3
<1>5. N \in S
  <2> HIDE DEF S
  <2>1. QED
    BY <1>3, <1>4, UpwardsFromZero
<1>6. N + 1 \in 1..(N + 1) /\ (N + 1) - 1 = N /\ N \in 0..N
  OBVIOUS
<1>7. h[N + 1] = y[N + 1] + h[N] /\ g[N] \in Nat /\ y[N + 1] \in Nat
  BY <1>1, <1>2, <1>6 DEF Prefixes
<1>8. QED
  BY <1>1, <1>2, <1>5, <1>7

-----------------------------------------------------------------------------
(* The window *)

Spendings == [wallet : Wallets, usd : Nat, at : Nat]

WindowType ==
  /\ hourly \in [Ledgers -> [0..(Buckets - 1) -> [hour : Nat, usd : Nat]]]
  /\ spent \in Seq(Spendings)
  /\ \A n \in 1..Len(spent) : spent[n].at \in Genesis..tick
  /\ bound \in RiskBounds /\ tick \in Genesis..bound.tick

\* A slot holds an hour of its own residue, and none that is still to come.
SlotsAreReused ==
  \A a \in Ledgers, s \in 0..(Buckets - 1) :
    /\ hourly[a][s].hour <= HourOf(tick)
    /\ hourly[a][s].usd = 0 \/ hourly[a][s].hour % Buckets = s

\* Whose programs a ledger counts.
Counts(a) == IF a = "protocol" THEN Wallets ELSE {a}

\* If nothing more is spent, the slots will be right in every hour to come.
ExactFromNowOn ==
  \A a \in Ledgers, hour \in Nat :
    HourOf(tick) <= hour => Rolling(a, hour) = SpentIn(spent, Counts(a), HoursUpTo(hour))

WindowInv == WindowType /\ SlotsAreReused /\ ExactFromNowOn

\* The hour of the clock is a number, and the clock does not go back.
LEMMA Hours ==
  ASSUME NEW t \in Nat
  PROVE  /\ HourOf(t) \in Nat /\ HourOf(t) <= HourOf(t + 1)
         /\ HourOf(t) % Buckets \in 0..(Buckets - 1)
BY RiskAssumption DEF HourOf

\* Two hours that share a slot are at least a window apart.
LEMMA SlotsRepeat ==
  ASSUME NEW h \in Nat, NEW k \in Nat, h < k, h % Buckets = k % Buckets
  PROVE  k - h >= Buckets
<1>1. Buckets \in Nat \ {0}
  BY RiskAssumption
<1>2. /\ h = Buckets * (h \div Buckets) + (h % Buckets) /\ k = Buckets * (k \div Buckets) + (k % Buckets)
      /\ h \div Buckets \in Nat /\ k \div Buckets \in Nat
  BY <1>1
<1>3. ASSUME NEW p \in Nat, NEW q \in Nat, Buckets * p < Buckets * q PROVE Buckets * q - Buckets * p >= Buckets
  <2>1. p < q
    BY <1>1, <1>3
  <2>2. q >= p + 1 /\ Buckets * q >= Buckets * (p + 1)
    BY <1>1, <2>1
  <2>3. QED
    BY <1>1, <2>2
<1>4. PICK p \in Nat, q \in Nat, r \in 0..(Buckets - 1) : h = Buckets * p + r /\ k = Buckets * q + r
  <2>1. h % Buckets \in 0..(Buckets - 1)
    BY <1>1
  <2> DEFINE p == h \div Buckets
             q == k \div Buckets
             r == h % Buckets
  <2>2. h = Buckets * p + r /\ k = Buckets * q + r /\ p \in Nat /\ q \in Nat /\ r \in 0..(Buckets - 1)
    BY <1>2, <2>1
  <2> HIDE DEF p, q, r
  <2>3. QED
    BY <2>2
<1>5. Buckets * p \in Nat /\ Buckets * q \in Nat
  BY <1>1
<1>6. Buckets * p < Buckets * q
  BY <1>4, <1>5
<1>7. QED
  BY <1>1, <1>3, <1>4, <1>5, <1>6

\* The constants and the ledgers, in the form the provers use.
LEMMA WindowConstants ==
  /\ Buckets \in Nat \ {0} /\ "protocol" \notin Wallets /\ SpendChoices \subseteq Nat
  /\ \A b \in RiskBounds : b.tick \in Nat \ {0}
  /\ \A a \in Ledgers : Counts(a) \subseteq Wallets /\ (\A w \in Wallets : w \in Counts(a) <=> a \in {w, "protocol"})
BY RiskAssumption DEF Ledgers, Counts

\* The numbers that Rolling and SpentIn add.
SlotParts(a, hour) ==
  [s \in 1..Buckets |-> IF InWindow(hourly[a][s - 1].hour, hour) THEN hourly[a][s - 1].usd ELSE 0]
SpendParts(ledger, W, T) ==
  [n \in DOMAIN ledger |-> IF ledger[n].wallet \in W /\ ledger[n].at \in T THEN ledger[n].usd ELSE 0]

\* Every part is a number.
LEMMA PartsAreNumbers ==
  ASSUME WindowType, NEW a \in Ledgers, NEW hour \in Nat
  PROVE  SlotParts(a, hour) \in [1..Buckets -> Nat]
<1>1. ASSUME NEW s \in 1..Buckets PROVE hourly[a][s - 1].usd \in Nat
  <2>1. s - 1 \in 0..(Buckets - 1)
    BY <1>1, WindowConstants
  <2>2. QED
    BY <2>1 DEF WindowType
<1>2. QED
  BY <1>1 DEF SlotParts

\* One program more is added to what was spent if it counts.
LEMMA SpendingOneMore ==
  ASSUME NEW ledger \in Seq(Spendings), NEW e \in Spendings, NEW W, NEW T
  PROVE  SpentIn(Append(ledger, e), W, T)
           = SpentIn(ledger, W, T) + (IF e.wallet \in W /\ e.at \in T THEN e.usd ELSE 0)
<1> DEFINE N == Len(ledger)
           x == SpendParts(ledger, W, T)
           y == SpendParts(Append(ledger, e), W, T)
<1>1. N \in Nat /\ DOMAIN ledger = 1..N /\ \A n \in 1..N : ledger[n] \in Spendings
  BY LenProperties, ElementOfSeq
<1>2. /\ DOMAIN Append(ledger, e) = 1..(N + 1) /\ Append(ledger, e)[N + 1] = e
      /\ \A n \in 1..N : Append(ledger, e)[n] = ledger[n]
  <2>1. /\ Append(ledger, e) \in Seq(Spendings) /\ Len(Append(ledger, e)) = N + 1
        /\ Append(ledger, e)[N + 1] = e /\ \A n \in 1..N : Append(ledger, e)[n] = ledger[n]
    BY AppendProperties
  <2>2. QED
    BY <2>1, LenProperties
<1>3. x \in [1..N -> Nat]
  BY <1>1 DEF SpendParts, Spendings
<1>4. /\ y \in [1..(N + 1) -> Nat] /\ y[N + 1] = (IF e.wallet \in W /\ e.at \in T THEN e.usd ELSE 0)
      /\ \A n \in 1..N : y[n] = x[n]
  <2>1. \A n \in 1..(N + 1) : n \in 1..N \/ n = N + 1
    BY <1>1
  <2>2. N + 1 \in 1..(N + 1) /\ 1..N \subseteq 1..(N + 1)
    BY <1>1
  <2>3. \A n \in 1..(N + 1) : Append(ledger, e)[n] \in Spendings
    BY <1>1, <1>2, <2>1
  <2>4. y \in [1..(N + 1) -> Nat]
    BY <1>2, <2>3 DEF SpendParts, Spendings
  <2>5. QED
    BY <1>1, <1>2, <2>2, <2>4 DEF SpendParts
<1> HIDE DEF N, x, y
<1>5. Sum(y) = Sum(x) + y[N + 1]
  BY <1>1, <1>3, <1>4, SumWithOneMore
<1>6. SpentIn(ledger, W, T) = Sum(x)
  BY DEF SpentIn, SpendParts, x
<1>7. SpentIn(Append(ledger, e), W, T) = Sum(y)
  BY DEF SpentIn, SpendParts, y
<1>8. QED
  BY <1>4, <1>5, <1>6, <1>7

\* What a ledger spends is a number.
LEMMA SpendingIsANumber ==
  ASSUME NEW ledger \in Seq(Spendings), NEW W, NEW T
  PROVE  SpentIn(ledger, W, T) \in Nat
<1> DEFINE N == Len(ledger)
           x == SpendParts(ledger, W, T)
<1>1. N \in Nat /\ DOMAIN ledger = 1..N /\ \A n \in 1..N : ledger[n] \in Spendings
  BY LenProperties, ElementOfSeq
<1>2. x \in [1..N -> Nat]
  BY <1>1 DEF SpendParts, Spendings
<1> HIDE DEF N, x
<1>3. Sum(x) \in Nat
  <2>1. PICK g : Prefixes(x, N, g) /\ Sum(x) = g[N]
    BY <1>1, <1>2, SumOfPrefixes
  <2>2. N \in 0..N
    BY <1>1
  <2>3. QED
    BY <2>1, <2>2 DEF Prefixes
<1>4. SpentIn(ledger, W, T) = Sum(x)
  BY DEF SpentIn, SpendParts, x
<1>5. QED
  BY <1>3, <1>4

\* Nothing is spent by a ledger without programs.
LEMMA NothingIsSpent == ASSUME NEW W, NEW T PROVE SpentIn(<<>>, W, T) = 0
<1>1. SpendParts(<<>>, W, T) \in [1..0 -> Nat]
  BY DEF SpendParts
<1>2. Sum(SpendParts(<<>>, W, T)) = 0
  BY <1>1, SumOfZeros
<1>3. QED
  BY <1>2 DEF SpentIn, SpendParts

\* At the start all slots are empty.
LEMMA WindowBegins == RiskInit => WindowInv
<1> SUFFICES ASSUME RiskInit PROVE WindowInv
  OBVIOUS
<1> USE WindowConstants
<1>1. WindowType
  <2>1. /\ hourly \in [Ledgers -> [0..(Buckets - 1) -> [hour : Nat, usd : Nat]]]
        /\ spent \in Seq(Spendings) /\ Len(spent) = 0 /\ bound \in RiskBounds
    BY DEF RiskInit
  <2>2. tick \in Genesis..bound.tick
    BY <2>1 DEF RiskInit, Genesis
  <2>3. QED
    BY <2>1, <2>2 DEF WindowType
<1>2. /\ tick \in Nat
      /\ \A a \in Ledgers, s \in 0..(Buckets - 1) : hourly[a][s].hour = 0 /\ hourly[a][s].usd = 0
  BY DEF RiskInit, Genesis
<1>3. SlotsAreReused
  BY <1>2, Hours DEF SlotsAreReused
<1>4. ASSUME NEW a \in Ledgers, NEW hour \in Nat
      PROVE  Rolling(a, hour) = SpentIn(spent, Counts(a), HoursUpTo(hour))
  <2>1. SlotParts(a, hour) \in [1..Buckets -> Nat]
    BY <1>1, PartsAreNumbers
  <2>2. \A s \in 1..Buckets : SlotParts(a, hour)[s] = 0
    <3>1. \A s \in 1..Buckets : s - 1 \in 0..(Buckets - 1)
      OBVIOUS
    <3>2. QED
      BY <1>2, <3>1 DEF SlotParts
  <2>3. Sum(SlotParts(a, hour)) = 0
    BY <2>1, <2>2, SumOfZeros
  <2>4. spent = <<>>
    BY DEF RiskInit
  <2>5. QED
    BY <2>3, <2>4, NothingIsSpent DEF Rolling, SlotParts
<1>5. QED
  BY <1>1, <1>3, <1>4 DEF WindowInv, ExactFromNowOn

\* What is recorded is added to the window of every hour to come, although the slot may
\* start again: what it held before is then out of each of those windows.
LEMMA RecordIsExact ==
  ASSUME WindowInv, NEW w \in Wallets, NEW usd \in SpendChoices, NEW v \in Verifiers, Execute(w, usd, v),
         NEW a \in Ledgers, NEW hour \in Nat, HourOf(tick) <= hour
  PROVE  /\ a \in {w, "protocol"} =>
              Rolling(a, hour)' = Rolling(a, hour) + (IF InWindow(HourOf(tick), hour) THEN usd ELSE 0)
         /\ a \notin {w, "protocol"} => Rolling(a, hour)' = Rolling(a, hour)
<1> DEFINE now == HourOf(tick)
           k == (now % Buckets) + 1
           x == SlotParts(a, hour)
           y == SlotParts(a, hour)'
<1>1. /\ tick \in Nat /\ now \in Nat /\ k \in 1..Buckets /\ k - 1 = now % Buckets /\ k - 1 \in 0..(Buckets - 1)
      /\ usd \in Nat /\ Buckets \in Nat \ {0}
  <2>1. tick \in Nat /\ usd \in Nat /\ Buckets \in Nat \ {0}
    BY WindowConstants DEF WindowInv, WindowType, Genesis
  <2>2. now \in Nat /\ now % Buckets \in 0..(Buckets - 1)
    BY <2>1, Hours
  <2> HIDE DEF now
  <2>3. QED
    BY <2>1, <2>2
<1> HIDE DEF now, k
<1>2. hourly[a] \in [0..(Buckets - 1) -> [hour : Nat, usd : Nat]]
  BY DEF WindowInv, WindowType
<1>3. CASE a \in {w, "protocol"}
  <2> DEFINE b == hourly[a][k - 1]
  <2>1. hourly'[a] = [hourly[a] EXCEPT ![k - 1] = Record(b, now, usd)]
    <3>1. k - 1 = HourOf(tick) % Buckets /\ now = HourOf(tick)
      BY <1>1 DEF now
    <3>2. QED
      BY <1>3, <3>1 DEF Execute
  <2>2. /\ b.hour \in Nat /\ b.usd \in Nat /\ b.hour <= now
        /\ b.usd = 0 \/ b.hour % Buckets = now % Buckets
    BY <1>1, <1>2 DEF WindowInv, SlotsAreReused, now
  <2>3. Record(b, now, usd) = [hour |-> now, usd |-> usd + IF b.hour = now THEN b.usd ELSE 0]
    BY DEF Record
  <2>4. x \in [1..Buckets -> Nat] /\ x[k] = (IF InWindow(b.hour, hour) THEN b.usd ELSE 0)
    BY <1>1, PartsAreNumbers DEF WindowInv, SlotParts
  <2>5. /\ y[k] = (IF InWindow(now, hour) THEN usd + (IF b.hour = now THEN b.usd ELSE 0) ELSE 0)
        /\ \A s \in 1..Buckets : s # k => y[s] = x[s]
    <3>1. hourly'[a][k - 1] = Record(b, now, usd)
      BY <1>1, <1>2, <2>1
    <3> HIDE DEF b
    <3>2. \A s \in 1..Buckets : s # k => hourly'[a][s - 1] = hourly[a][s - 1]
      <4>1. ASSUME NEW s \in 1..Buckets, s # k PROVE hourly'[a][s - 1] = hourly[a][s - 1]
        <5>1. s - 1 \in 0..(Buckets - 1) /\ s - 1 # k - 1
          BY <1>1, <4>1
        <5>2. QED
          BY <1>2, <2>1, <5>1
      <4>2. QED
        BY <4>1
    <3>3. y[k] = (IF InWindow(hourly'[a][k - 1].hour, hour) THEN hourly'[a][k - 1].usd ELSE 0)
      BY <1>1 DEF SlotParts
    <3>4. y[k] = (IF InWindow(now, hour) THEN usd + (IF b.hour = now THEN b.usd ELSE 0) ELSE 0)
      BY <2>3, <3>1, <3>3
    <3>5. \A s \in 1..Buckets : s # k => y[s] = x[s]
      BY <3>2 DEF SlotParts
    <3>6. QED
      BY <3>4, <3>5
  <2>6. y \in [1..Buckets -> Nat]
    <3>1. \A s \in 1..Buckets : x[s] \in Nat
      BY <2>4
    <3>2. y[k] \in Nat
      BY <1>1, <2>2, <2>5
    <3>3. \A s \in 1..Buckets : y[s] \in Nat
      BY <2>5, <3>1, <3>2
    <3>4. y = [s \in 1..Buckets |-> y[s]]
      BY DEF SlotParts
    <3>5. QED
      BY <3>3, <3>4
  <2>7. y[k] = x[k] + (IF InWindow(now, hour) THEN usd ELSE 0)
    <3>1. CASE b.hour = now
      BY <1>1, <2>2, <2>4, <2>5, <3>1
    <3>2. CASE b.hour # now /\ b.usd = 0
      BY <1>1, <2>2, <2>4, <2>5, <3>2
    <3>3. CASE b.hour # now /\ b.usd # 0
      <4>1. now - b.hour >= Buckets
        BY <1>1, <2>2, <3>3, SlotsRepeat
      <4>2. ~InWindow(b.hour, hour)
        BY <1>1, <2>2, <4>1 DEF InWindow, now
      <4>3. QED
        BY <1>1, <2>4, <2>5, <3>3, <4>2
    <3>4. QED
      BY <3>1, <3>2, <3>3
  <2> HIDE DEF x, y, b
  <2>8. Sum(y) + x[k] = Sum(x) + y[k] /\ Sum(x) \in Nat /\ Sum(y) \in Nat
    BY <1>1, <2>4, <2>5, <2>6, SumWithAChange
  <2>9. x[k] \in Nat
    BY <1>1, <2>4
  <2>10. Sum(y) = Sum(x) + (IF InWindow(now, hour) THEN usd ELSE 0)
    BY <1>1, <2>7, <2>8, <2>9
  <2>11. Rolling(a, hour) = Sum(x) /\ Rolling(a, hour)' = Sum(y)
    BY DEF Rolling, SlotParts, x, y
  <2>12. QED
    BY <1>3, <2>10, <2>11 DEF now
<1>4. CASE a \notin {w, "protocol"}
  <2>1. hourly'[a] = hourly[a]
    BY <1>4 DEF Execute
  <2>2. y = x
    BY <2>1 DEF SlotParts
  <2>3. Rolling(a, hour) = Sum(x) /\ Rolling(a, hour)' = Sum(y)
    BY DEF Rolling, SlotParts
  <2>4. QED
    BY <1>4, <2>2, <2>3
<1>5. QED
  BY <1>3, <1>4

\* A program that is executed counts, in every window of hours to come, for its wallet
\* and for the protocol.
LEMMA ExecuteSpends ==
  ASSUME WindowInv, NEW w \in Wallets, NEW usd \in SpendChoices, NEW v \in Verifiers, Execute(w, usd, v),
         NEW a \in Ledgers, NEW hour \in Nat, HourOf(tick) <= hour
  PROVE  SpentIn(spent', Counts(a), HoursUpTo(hour))
           = SpentIn(spent, Counts(a), HoursUpTo(hour))
               + (IF a \in {w, "protocol"} /\ InWindow(HourOf(tick), hour) THEN usd ELSE 0)
<1> DEFINE e == [wallet |-> w, usd |-> usd, at |-> tick]
           T == HoursUpTo(hour)
<1>1. /\ spent' = Append(spent, e) /\ spent \in Seq(Spendings) /\ tick \in Genesis..bound.tick /\ tick \in Nat
      /\ e \in Spendings
  BY WindowConstants DEF Execute, WindowInv, WindowType, Genesis, Spendings
<1>2. e.at \in T <=> InWindow(HourOf(tick), hour)
  BY <1>1 DEF HoursUpTo, InWindow
<1>3. e.wallet \in Counts(a) <=> a \in {w, "protocol"}
  BY WindowConstants
<1>4. e.usd = usd
  OBVIOUS
<1> HIDE DEF e, T
<1>5. SpentIn(spent', Counts(a), T) = SpentIn(spent, Counts(a), T) + (IF e.wallet \in Counts(a) /\ e.at \in T THEN e.usd ELSE 0)
  BY <1>1, SpendingOneMore
<1>6. QED
  BY <1>2, <1>3, <1>4, <1>5 DEF T

\* Execution keeps the invariant.
LEMMA ExecuteWindow ==
  ASSUME WindowInv, NEW w \in Wallets, NEW usd \in SpendChoices, NEW v \in Verifiers, Execute(w, usd, v)
  PROVE  WindowInv'
<1> USE WindowConstants
<1> DEFINE now == HourOf(tick)
           k == now % Buckets
           e == [wallet |-> w, usd |-> usd, at |-> tick]
<1>1. /\ tick \in Nat /\ usd \in Nat /\ tick' = tick /\ bound' = bound
      /\ spent' = Append(spent, e) /\ e \in Spendings /\ e.at = tick /\ tick \in Genesis..tick
  BY DEF WindowInv, WindowType, Genesis, Execute, Spendings
<1>2. now \in Nat /\ k \in 0..(Buckets - 1)
  BY <1>1, Hours
<1>3. hourly' = [a \in Ledgers |->
        IF a \in {w, "protocol"} THEN [hourly[a] EXCEPT ![k] = Record(hourly[a][k], now, usd)] ELSE hourly[a]]
  BY DEF Execute
<1> HIDE DEF now, k, e
<1>4. ASSUME NEW b \in [hour : Nat, usd : Nat]
      PROVE  /\ Record(b, now, usd) \in [hour : Nat, usd : Nat] /\ Record(b, now, usd).hour = now
  BY <1>1, <1>2 DEF Record
<1>5. ASSUME NEW a \in Ledgers
      PROVE  /\ hourly'[a] \in [0..(Buckets - 1) -> [hour : Nat, usd : Nat]]
             /\ \A s \in 0..(Buckets - 1) : \/ hourly'[a][s] = hourly[a][s]
                                            \/ s = k /\ hourly'[a][s].hour = now
  <2>1. hourly[a] \in [0..(Buckets - 1) -> [hour : Nat, usd : Nat]]
    BY DEF WindowInv, WindowType
  <2>2. CASE a \in {w, "protocol"}
    <3>1. hourly'[a] = [hourly[a] EXCEPT ![k] = Record(hourly[a][k], now, usd)]
      BY <1>3, <2>2
    <3>2. hourly[a][k] \in [hour : Nat, usd : Nat]
      BY <1>2, <2>1
    <3>3. Record(hourly[a][k], now, usd) \in [hour : Nat, usd : Nat] /\ Record(hourly[a][k], now, usd).hour = now
      BY <1>4, <3>2
    <3>4. QED
      BY <1>2, <2>1, <3>1, <3>3
  <2>3. CASE a \notin {w, "protocol"}
    BY <1>3, <2>1, <2>3
  <2>4. QED
    BY <2>2, <2>3
<1>6. WindowType'
  <2>1. hourly' \in [Ledgers -> [0..(Buckets - 1) -> [hour : Nat, usd : Nat]]]
    BY <1>3, <1>5
  <2>2. /\ spent \in Seq(Spendings) /\ Len(spent) \in Nat /\ \A n \in 1..Len(spent) : spent[n].at \in Genesis..tick
    BY LenProperties DEF WindowInv, WindowType
  <2>3. /\ spent' \in Seq(Spendings) /\ Len(spent') = Len(spent) + 1 /\ spent'[Len(spent) + 1] = e
        /\ \A n \in 1..Len(spent) : spent'[n] = spent[n]
    BY <1>1, <2>2, AppendProperties
  <2>4. \A n \in 1..Len(spent') : spent'[n].at \in Genesis..tick
    <3>1. \A n \in 1..Len(spent') : n \in 1..Len(spent) \/ n = Len(spent) + 1
      BY <2>2, <2>3
    <3>2. QED
      BY <1>1, <2>2, <2>3, <3>1
  <2>5. bound' \in RiskBounds /\ tick' \in Genesis..bound'.tick
    BY <1>1 DEF WindowInv, WindowType
  <2>6. QED
    BY <1>1, <2>1, <2>3, <2>4, <2>5 DEF WindowType
<1>7. SlotsAreReused'
  <2>1. HourOf(tick)' = now
    BY <1>1 DEF HourOf, now
  <2>2. ASSUME NEW a \in Ledgers, NEW s \in 0..(Buckets - 1)
        PROVE  hourly'[a][s].hour <= now /\ (hourly'[a][s].usd = 0 \/ hourly'[a][s].hour % Buckets = s)
    <3>1. CASE hourly'[a][s] = hourly[a][s]
      BY <3>1 DEF WindowInv, SlotsAreReused, now
    <3>2. CASE s = k /\ hourly'[a][s].hour = now
      BY <1>2, <3>2 DEF k
    <3>3. QED
      BY <1>5, <3>1, <3>2
  <2>3. QED
    BY <2>1, <2>2 DEF SlotsAreReused
<1>8. ExactFromNowOn'
  <2>1. ASSUME NEW a \in Ledgers, NEW hour \in Nat, HourOf(tick) <= hour
        PROVE  Rolling(a, hour)' = SpentIn(spent', Counts(a), HoursUpTo(hour))
    <3>1. Rolling(a, hour) = SpentIn(spent, Counts(a), HoursUpTo(hour))
      BY <2>1 DEF WindowInv, ExactFromNowOn
    <3>2. CASE a \in {w, "protocol"}
      BY <2>1, <3>1, <3>2, RecordIsExact, ExecuteSpends
    <3>3. CASE a \notin {w, "protocol"}
      <4>1. Rolling(a, hour)' = Rolling(a, hour)
        BY <2>1, <3>3, RecordIsExact
      <4>2. SpentIn(spent', Counts(a), HoursUpTo(hour)) = SpentIn(spent, Counts(a), HoursUpTo(hour)) + 0
        BY <2>1, <3>3, ExecuteSpends
      <4>3. SpentIn(spent, Counts(a), HoursUpTo(hour)) \in Nat
        BY SpendingIsANumber DEF WindowInv, WindowType
      <4>4. QED
        BY <3>1, <4>1, <4>2, <4>3
    <3>4. QED
      BY <3>2, <3>3
  <2>2. HourOf(tick)' = HourOf(tick) /\ \A hour \in Nat : HoursUpTo(hour)' = HoursUpTo(hour)
    BY <1>1 DEF HourOf, HoursUpTo
  <2>3. \A a \in Ledgers, hour \in Nat :
          SpentIn(spent, Counts(a), HoursUpTo(hour))' = SpentIn(spent', Counts(a), HoursUpTo(hour))
    BY <2>2 DEF SpentIn
  <2>4. QED
    BY <2>1, <2>2, <2>3 DEF ExactFromNowOn
<1>9. QED
  BY <1>6, <1>7, <1>8 DEF WindowInv

\* The window moves on with the clock: what is right for every hour to come stays so.
LEMMA TickWindow == ASSUME WindowInv, RiskTick PROVE WindowInv'
<1>1. /\ tick \in Nat /\ tick' = tick + 1 /\ tick' \in Genesis..bound.tick
      /\ UNCHANGED <<hourly, spent, bound>>
  BY WindowConstants DEF WindowInv, WindowType, RiskTick, Genesis
<1>2. HourOf(tick) <= HourOf(tick') /\ HourOf(tick) \in Nat /\ HourOf(tick') \in Nat
  <2>1. HourOf(tick) <= HourOf(tick + 1) /\ HourOf(tick) \in Nat /\ HourOf(tick + 1) \in Nat
    BY <1>1, Hours
  <2>2. QED
    BY <1>1, <2>1
<1>3. WindowType'
  <2>1. \A n \in 1..Len(spent) : spent[n].at \in Genesis..tick'
    BY <1>1 DEF WindowInv, WindowType, Genesis
  <2>2. QED
    BY <1>1, <2>1 DEF WindowInv, WindowType
<1>4. HourOf(tick)' = HourOf(tick')
  BY DEF HourOf
<1>5. SlotsAreReused'
  <2>1. ASSUME NEW a \in Ledgers, NEW s \in 0..(Buckets - 1)
        PROVE  hourly[a][s].hour <= HourOf(tick') /\ (hourly[a][s].usd = 0 \/ hourly[a][s].hour % Buckets = s)
    <3>1. hourly[a][s].hour \in Nat
      BY DEF WindowInv, WindowType
    <3>2. QED
      BY <1>2, <3>1 DEF WindowInv, SlotsAreReused
  <2>2. QED
    BY <1>1, <1>4, <2>1 DEF SlotsAreReused
<1>6. ExactFromNowOn'
  <2>1. ASSUME NEW a \in Ledgers, NEW hour \in Nat, HourOf(tick') <= hour
        PROVE  Rolling(a, hour) = SpentIn(spent, Counts(a), HoursUpTo(hour))
    BY <1>2, <2>1 DEF WindowInv, ExactFromNowOn
  <2>2. \A a \in Ledgers, hour \in Nat :
          /\ Rolling(a, hour)' = Rolling(a, hour)
          /\ SpentIn(spent, Counts(a), HoursUpTo(hour))' = SpentIn(spent, Counts(a), HoursUpTo(hour))
    BY <1>1 DEF Rolling, SpentIn, HoursUpTo
  <2>3. QED
    BY <1>4, <2>1, <2>2 DEF ExactFromNowOn
<1>7. QED
  BY <1>3, <1>5, <1>6 DEF WindowInv

\* The owner's calls do not touch what was spent.
LEMMA CallsKeepTheWindow ==
  ASSUME WindowInv, UNCHANGED <<tick, hourly, spent, bound>>
  PROVE  WindowInv'
<1>1. WindowType' /\ SlotsAreReused'
  BY DEF WindowInv, WindowType, SlotsAreReused, HourOf
<1>2. \A a \in Ledgers, hour \in Nat :
        /\ Rolling(a, hour)' = Rolling(a, hour) /\ HourOf(tick)' = HourOf(tick)
        /\ SpentIn(spent, Counts(a), HoursUpTo(hour))' = SpentIn(spent, Counts(a), HoursUpTo(hour))
  BY DEF Rolling, SpentIn, HoursUpTo, HourOf
<1>3. QED
  BY <1>1, <1>2 DEF WindowInv, ExactFromNowOn

\* Every step keeps the invariant.
LEMMA WindowStepInv == ASSUME WindowInv, [RiskNext]_riskVars PROVE WindowInv'
<1>1. ASSUME NEW w \in Wallets, NEW usd \in SpendChoices, NEW v \in Verifiers, Execute(w, usd, v)
      PROVE  WindowInv'
  BY <1>1, ExecuteWindow
<1>2. CASE RiskTick
  BY <1>2, TickWindow
<1>3. CASE UNCHANGED riskVars
  BY <1>3, CallsKeepTheWindow DEF riskVars
<1>4. ASSUME NEW c, NEW value, Propose(c, value) PROVE WindowInv'
  BY <1>4, CallsKeepTheWindow DEF Propose, Calling
<1>5. CASE \/ ActivateLimits \/ ActivateVerifier \/ ActivateOpenAccess \/ ActivateUnpause
           \/ SetAllowlistMode \/ Pause
           \/ \E l \in LimitChoices : ReduceLimits(l)
           \/ \E w \in Wallets : ActivateWallet(w) \/ RemoveWallet(w) \/ DenyWallet(w)
  <2>1. UNCHANGED <<tick, hourly, spent, bound>>
    BY <1>5 DEF ActivateLimits, ActivateVerifier, ActivateOpenAccess, ActivateUnpause, SetAllowlistMode,
       Pause, ReduceLimits, ActivateWallet, RemoveWallet, DenyWallet, Activates, Tightens, Calling
  <2>2. QED
    BY <2>1, CallsKeepTheWindow
<1>6. QED
  BY <1>1, <1>2, <1>3, <1>4, <1>5 DEF RiskNext

LEMMA WindowAlways == RiskSpec => []WindowInv
BY WindowBegins, WindowStepInv, PTL DEF RiskSpec

\* The reused slots hold exactly what the last Buckets hours spent, for any number of
\* wallets, slots and programs (consumeUsd, _rollingWallet and _recordWallet).
THEOREM WindowExact == RiskSpec => []WindowIsExact
<1>1. WindowInv => WindowIsExact
  <2>1. SUFFICES ASSUME WindowInv PROVE WindowIsExact
    OBVIOUS
  <2> DEFINE hour == HourOf(tick)
  <2>2. hour \in Nat /\ hour <= hour
    <3>1. tick \in Nat
      BY <2>1, WindowConstants DEF WindowInv, WindowType, Genesis
    <3>2. hour \in Nat
      BY <3>1, Hours
    <3> HIDE DEF hour
    <3>3. QED
      BY <3>2
  <2>3. ASSUME NEW a \in Ledgers PROVE Rolling(a, hour) = SpentIn(spent, Counts(a), HoursUpTo(hour))
    BY <2>1, <2>2 DEF WindowInv, ExactFromNowOn
  <2>4. /\ "protocol" \in Ledgers /\ Counts("protocol") = Wallets
        /\ \A w \in Wallets : w \in Ledgers /\ Counts(w) = {w}
    BY WindowConstants DEF Ledgers, Counts
  <2>5. QED
    BY <2>3, <2>4 DEF WindowIsExact
<1>2. QED
  BY <1>1, WindowAlways, PTL

\* Whatever limits were changed to meanwhile, a program is executed only within the
\* limits in force and the window of whole hours (consumeUsd).
THEOREM SpendingLimited == RiskSpec => SpendingIsLimited
<1> DEFINE Within == LET w == spent'[Len(spent')].wallet window == HoursUpTo(HourOf(tick)) IN
                     /\ SpentIn(spent', {w}, window) <= config.limits.wallet
                     /\ SpentIn(spent', Wallets, window) <= config.limits.protocol
<1>1. ASSUME WindowInv, NEW w \in Wallets, NEW usd \in SpendChoices, NEW v \in Verifiers, Execute(w, usd, v)
      PROVE  Within
  <2> DEFINE hour == HourOf(tick)
  <2>1. tick \in Nat /\ spent \in Seq(Spendings) /\ hour \in Nat /\ usd \in Nat
    <3>1. tick \in Nat /\ spent \in Seq(Spendings) /\ usd \in Nat
      BY <1>1, WindowConstants DEF WindowInv, WindowType, Genesis
    <3>2. QED
      BY <3>1, Hours
  <2>2. spent'[Len(spent')].wallet = w
    <3>1. spent' = Append(spent, [wallet |-> w, usd |-> usd, at |-> tick])
      BY <1>1 DEF Execute
    <3>2. [wallet |-> w, usd |-> usd, at |-> tick] \in Spendings
      BY <2>1 DEF Spendings
    <3>3. Len(spent') = Len(spent) + 1 /\ spent'[Len(spent) + 1] = [wallet |-> w, usd |-> usd, at |-> tick]
      BY <2>1, <3>1, <3>2, AppendProperties
    <3>4. QED
      BY <3>3
  <2>3. Rolling(w, hour) + usd <= config.limits.wallet /\ Rolling("protocol", hour) + usd <= config.limits.protocol
    BY <1>1 DEF Execute, Fits
  <2>4. ASSUME NEW a \in {w, "protocol"}
        PROVE  SpentIn(spent', Counts(a), HoursUpTo(hour)) = Rolling(a, hour) + usd
    <3>1. a \in Ledgers
      BY DEF Ledgers
    <3>2. Rolling(a, hour) = SpentIn(spent, Counts(a), HoursUpTo(hour))
      BY <1>1, <2>1, <3>1 DEF WindowInv, ExactFromNowOn
    <3>3. InWindow(hour, hour)
      BY <2>1, WindowConstants DEF InWindow
    <3>4. QED
      BY <1>1, <2>1, <3>1, <3>2, <3>3, ExecuteSpends
  <2>5. Counts(w) = {w} /\ Counts("protocol") = Wallets
    BY WindowConstants DEF Counts
  <2>6. QED
    BY <2>2, <2>3, <2>4, <2>5
<1>2. ASSUME WindowInv, [RiskNext]_riskVars, spent' # spent PROVE Within
  <2>1. \E w \in Wallets, usd \in SpendChoices, v \in Verifiers : Execute(w, usd, v)
    BY <1>2 DEF RiskNext, riskVars, RiskTick, Propose, ActivateLimits, ActivateVerifier, ActivateOpenAccess,
       ActivateUnpause, SetAllowlistMode, Pause, ReduceLimits, ActivateWallet, RemoveWallet, DenyWallet,
       Activates, Tightens, Calling
  <2>2. QED
    BY <1>1, <1>2, <2>1
<1>3. WindowInv /\ [RiskNext]_riskVars => [spent' # spent => Within]_riskVars
  BY <1>2
<1>4. RiskSpec => [][spent' # spent => Within]_riskVars
  BY <1>3, WindowAlways, PTL DEF RiskSpec
<1>5. QED
  BY <1>4 DEF SpendingIsLimited
=============================================================================

------------------------- MODULE StagedExecution_proofs -------------------------
(***************************************************************************)
(* Proofs about general-asset execution, for any number of stages, tabs    *)
(* and transactions, and any mishaps: what the tables say of the chains,   *)
(* that a mismatch freezes the program, and that the owner's page shows    *)
(* what is stored.                                                         *)
(*                                                                         *)
(* The argument has three parts.  Tables is what holds between the tables  *)
(* and the chains; every repository transaction preserves it by the checks *)
(* it makes itself, whatever the caller read before.  Carried is what a    *)
(* call still knows of the tables when it goes on after an await; it       *)
(* survives the steps of everybody else because the tables and the chains  *)
(* only ever grow in the sense of Grows.  PageKnows is what the page still *)
(* knows of them when an answer reaches it; it survives because no         *)
(* transaction takes back what is final or sent (DoneStay).                *)
(***************************************************************************)
EXTENDS StagedPage, TLAPS

Programs == {"absent", "active", "confirmed", "reconciliation_required"}
Blocks == {"none", "b1", "b2", "reverted", "short"}
Deliveries == {"none", "short", "d1", "d2"}
Calls == {"none", "review", "arm", "reconcile", "submitted"}

TablesType ==
  /\ program \in Programs
  /\ stage \in [Stages -> StageStates]
  /\ nonce \in [Stages -> Nonces \cup {None}]
  /\ hash \in [Stages -> Places \cup {None}]
  /\ receipt \in [Stages -> Blocks \cup {None}]
  /\ delivery \in [Stages -> Evidence \cup {None}]

ChainsType ==
  /\ sent \in [Chains -> Seq(Stages \cup {0})]
  /\ block \in [Chains -> [Places -> Blocks]] /\ deep \in [Chains -> [Places -> BOOLEAN]]
  /\ arrived \in [Stages -> Deliveries]
  /\ \A c \in Chains : Len(sent[c]) <= MaxNonce

Armed(s) == stage[s] \notin {"absent", "prepared"}

\* Of all stages before one that exists, not only of the one next to it.
AllBefore ==
  \A s \in Stages : stage[s] # "absent" =>
    \A r \in 1..(s - 1) : delivery[r] # None /\ stage[r] \in {"delivered", "reconciliation_required"}

HashIsSent ==
  \A s \in Stages :
    /\ stage[s] \in Recorded => hash[s] # None
    /\ hash[s] # None => hash[s] < Len(sent[ChainOf[s]]) /\ Armed(s)

DeliveryIsTrue ==
  \A s \in Stages :
    /\ stage[s] = "delivered" => delivery[s] # None
    /\ delivery[s] # None => arrived[s] \in Evidence /\ Armed(s)
    /\ stage[s] = "confirmed" => ~Bridge(s)

FrozenTogether ==
  \A s \in Stages : stage[s] = "reconciliation_required" => program = "reconciliation_required"

HandedIsArmed ==
  \A s \in Stages, n \in Nonces : <<s, n>> \in handed => nonce[s] = n /\ Armed(s)

\* The stage whose receipt confirmed the program.
ConfirmedByAStage ==
  program = "confirmed" => \E s \in Stages : stage[s] = "confirmed"

Tables ==
  /\ TablesType /\ ChainsType
  /\ AllBefore /\ HashIsSent /\ DeliveryIsTrue /\ FrozenTogether /\ HandedIsArmed
  /\ FinalIsExact /\ SentIsArmed /\ ConfirmedByAStage

\* What no step takes back.
Grows ==
  /\ \A s \in Stages :
       /\ stage[s] # "absent" => stage'[s] # "absent" /\ nonce'[s] = nonce[s]
       /\ Armed(s) => Armed(s)'
       /\ hash[s] # None => hash'[s] = hash[s]
       /\ arrived[s] \in Evidence => arrived'[s] \in Evidence
  /\ \A c \in Chains : Len(sent[c]) <= Len(sent'[c])

-----------------------------------------------------------------------------
(* The repository transactions *)

\* The constants, in the form the provers use.
LEMMA Constants ==
  /\ Last \in Nat /\ Stages \subseteq Nat \ {0} /\ Nonces \subseteq Nat /\ Places \subseteq Nonces
  /\ 0 \notin Stages
  /\ \A s \in Stages : ChainOf[s] \in Chains /\ (s > 1 => s - 1 \in Stages)
  /\ \A s \in Stages : \A r \in 1..(s - 1) : r \in Stages
  /\ None \notin Nonces /\ None \notin Places /\ None \notin Blocks /\ None \notin Evidence
BY StagedAssumption DEF Stages, Nonces, Places, Chains, Blocks, Evidence

\* The transactions on a chain are a sequence of stages and others.
LEMMA SentEntries ==
  ASSUME ChainsType
  PROVE  \A c \in Chains : /\ Len(sent[c]) \in Nat
                           /\ \A i \in 1..Len(sent[c]) : sent[c][i] \in Stages \cup {0}
BY DEF ChainsType

\* What was armed stays armed, under its nonce.
LEMMA ArmedStays ==
  ASSUME Tables, Grows, UNCHANGED <<chains, handed>>
  PROVE  SentIsArmed' /\ HandedIsArmed'
<1>1. SentIsArmed'
  <2>1. SUFFICES ASSUME NEW c \in Chains, NEW i \in 1..Len(sent[c]), NEW s, s = sent[c][i], s # 0
                 PROVE  nonce'[s] = i - 1 /\ ChainOf[s] = c /\ stage'[s] \notin {"absent", "prepared"}
    BY DEF SentIsArmed, chains
  <2>2. s \in Stages
    BY <2>1, SentEntries DEF Tables
  <2>3. nonce[s] = i - 1 /\ ChainOf[s] = c /\ stage[s] \notin {"absent", "prepared"}
    BY <2>1 DEF Tables, SentIsArmed
  <2>4. QED
    BY <2>2, <2>3 DEF Grows, Armed
<1>2. HandedIsArmed'
  BY DEF Tables, HandedIsArmed, Grows, Armed
<1>3. QED
  BY <1>1, <1>2

\* A transaction of the repository leaves the chains alone.
LEMMA MarkStage ==
  ASSUME Tables, UNCHANGED <<chains, handed>>, NEW s \in Stages, Armed(s), Mark(s)
  PROVE  Tables' /\ Grows
<1> USE Constants DEF Tables, chains, Mark
<1>1. TablesType' /\ ChainsType'
  BY DEF TablesType, ChainsType, StageStates, Programs
<1>2. \A r \in Stages : stage'[r] = stage[r] \/ (stage'[r] = "reconciliation_required" /\ stage[r] # "absent")
  BY DEF TablesType, Armed
<1>3. Grows
  BY <1>2 DEF Grows, TablesType, Armed, ChainsType
<1>4. AllBefore'
  BY <1>2 DEF AllBefore, TablesType
<1>5. HashIsSent' /\ DeliveryIsTrue'
  BY <1>2, <1>3 DEF HashIsSent, DeliveryIsTrue, Recorded, Grows
<1>6. FrozenTogether'
  BY DEF FrozenTogether, TablesType
<1>7. FinalIsExact'
  BY <1>2 DEF FinalIsExact, Exact
<1>8. ConfirmedByAStage'
  BY DEF ConfirmedByAStage, FrozenTogether, TablesType
<1>9. QED
  BY <1>1, <1>3, <1>4, <1>5, <1>6, <1>7, <1>8, ArmedStays

\* A step that stores nothing and leaves the chains alone.
LEMMA NothingStored ==
  ASSUME Tables, UNCHANGED <<tables, chains, handed>>
  PROVE  Tables' /\ Grows
BY DEF Tables, Grows, tables, chains, TablesType, ChainsType, AllBefore, HashIsSent, DeliveryIsTrue,
  FrozenTogether, HandedIsArmed, FinalIsExact, SentIsArmed, ConfirmedByAStage, Armed, Exact

\* A new stage is prepared after its predecessors only, as the bridge's delivery is
\* stored and a program that is confirmed or frozen takes none.
LEMMA PreparedStage ==
  ASSUME Tables, UNCHANGED <<chains, handed>>,
         NEW s \in Stages, NEW n \in Nonces, PrepareStage(s, n)
  PROVE  Tables' /\ Grows /\ nonce'[s] = n /\ stage'[s] # "absent"
<1> USE Constants DEF Tables, chains, PrepareStage, CanPrepare
<1>1. CASE stage[s] # "absent"
  BY <1>1, NothingStored DEF tables
<1>2. CASE stage[s] = "absent"
  <2>1. /\ stage' = [stage EXCEPT ![s] = "prepared"] /\ nonce' = [nonce EXCEPT ![s] = n]
        /\ program' = "active" /\ program \in {"absent", "active"}
        /\ UNCHANGED <<hash, receipt, delivery>>
    BY <1>2
  <2>2. TablesType' /\ ChainsType' /\ Grows
    BY <1>2, <2>1 DEF TablesType, ChainsType, StageStates, Programs, Grows, Armed
  <2>3. AllBefore'
    <3>1. SUFFICES ASSUME NEW q \in Stages, stage'[q] # "absent", NEW r \in 1..(q - 1)
                   PROVE  delivery[r] # None /\ stage'[r] \in {"delivered", "reconciliation_required"}
      BY <2>1 DEF AllBefore
    <3>2. r \in Stages /\ r # q
      BY <3>1
    <3>3. CASE q # s
      BY <3>1, <3>2, <3>3, <2>1, <1>2 DEF AllBefore, TablesType
    <3>4. CASE q = s
      <4>1. s - 1 \in Stages /\ r \in 1..(s - 1)
        BY <3>1, <3>4
      <4>2. stage[s - 1] = "delivered" /\ delivery[s - 1] # None
        BY <4>1, <1>2 DEF PredecessorReady, DeliveryIsTrue
      <4>3. r = s - 1 \/ r \in 1..((s - 1) - 1)
        BY <4>1
      <4>4. delivery[r] # None /\ stage[r] \in {"delivered", "reconciliation_required"}
        BY <4>1, <4>2, <4>3 DEF AllBefore
      <4>5. QED
        BY <4>4, <3>2, <3>4, <2>1 DEF TablesType
    <3>5. QED
      BY <3>3, <3>4
  <2>4. HashIsSent' /\ DeliveryIsTrue'
    BY <1>2, <2>1, <2>2 DEF HashIsSent, DeliveryIsTrue, TablesType, Recorded, Grows, Armed
  <2>5. FrozenTogether'
    BY <1>2, <2>1 DEF FrozenTogether, TablesType
  <2>6. FinalIsExact'
    BY <1>2, <2>1 DEF FinalIsExact, Exact, TablesType
  <2>7. ConfirmedByAStage'
    BY <2>1 DEF ConfirmedByAStage
  <2>8. nonce'[s] = n /\ stage'[s] # "absent"
    BY <2>1 DEF TablesType
  <2>9. QED
    BY <2>2, <2>3, <2>4, <2>5, <2>6, <2>7, <2>8, ArmedStays
<1>3. QED
  BY <1>1, <1>2

\* What moves on a stage that exists, and freezes nothing, disturbs no other stage.
LEMMA StageMoves ==
  ASSUME Tables, UNCHANGED <<chains, handed, nonce>>, TablesType',
         program = "reconciliation_required" => program' = program,
         NEW s \in Stages, Armed(s)', stage[s] # "absent",
         stage'[s] # "reconciliation_required", stage[s] \notin {"delivered", "reconciliation_required"},
         \A r \in Stages \ {s} : stage'[r] = stage[r],
         \A r \in Stages : /\ hash[r] # None => hash'[r] = hash[r]
                           /\ delivery[r] # None => delivery'[r] = delivery[r]
  PROVE  Grows /\ AllBefore' /\ FrozenTogether' /\ ChainsType'
<1> USE Constants DEF Tables, chains
<1>1. Grows /\ ChainsType'
  BY DEF Grows, ChainsType, Armed
<1>2. AllBefore'
  BY DEF AllBefore
<1>3. FrozenTogether'
  BY DEF FrozenTogether
<1>4. QED
  BY <1>1, <1>2, <1>3

\* Arming commits the broadcasting state.
LEMMA ArmedStage ==
  ASSUME Tables, UNCHANGED <<chains, handed>>, NEW s \in Stages, ArmStage(s)
  PROVE  Tables' /\ Grows /\ stage'[s] \notin {"absent", "prepared"}
<1> USE Constants DEF Tables, chains, ArmStage, CanArm
<1>1. TablesType' /\ Armed(s)'
  BY DEF TablesType, StageStates, Armed
<1>2. Grows /\ AllBefore' /\ FrozenTogether' /\ ChainsType'
  BY <1>1, StageMoves DEF TablesType
<1>3. HashIsSent' /\ DeliveryIsTrue' /\ FinalIsExact'
  BY <1>1, <1>2 DEF HashIsSent, DeliveryIsTrue, FinalIsExact, Exact, TablesType, Recorded, Grows, Armed
<1>4. ConfirmedByAStage'
  BY DEF ConfirmedByAStage
<1>5. QED
  BY <1>1, <1>2, <1>3, <1>4, ArmedStays DEF Armed

\* A hash is stored once; a second one freezes.
LEMMA SubmittedStage ==
  ASSUME Tables, UNCHANGED <<chains, handed>>, NEW s \in Stages, NEW h \in Places,
         h < Len(sent[ChainOf[s]]), RecordSubmission(s, h)
  PROVE  Tables' /\ Grows
<1> USE Constants DEF Tables, chains, RecordSubmission, CanRecord
<1>1. CASE hash[s] = h
  BY <1>1, NothingStored DEF tables
<1>2. CASE hash[s] \notin {None, h}
  BY <1>2, MarkStage DEF HashIsSent
<1>3. CASE hash[s] = None
  <2>1. /\ stage[s] = "broadcasting" /\ stage' = [stage EXCEPT ![s] = "submitted"]
        /\ hash' = [hash EXCEPT ![s] = h] /\ UNCHANGED <<program, nonce, receipt, delivery>>
    BY <1>3
  <2>2. TablesType' /\ Armed(s)'
    BY <2>1 DEF TablesType, StageStates, Armed
  <2>3. Grows /\ AllBefore' /\ FrozenTogether' /\ ChainsType'
    BY <1>3, <2>1, <2>2, StageMoves DEF TablesType
  <2>4. HashIsSent' /\ DeliveryIsTrue' /\ FinalIsExact'
    BY <2>1, <2>2, <2>3 DEF HashIsSent, DeliveryIsTrue, FinalIsExact, Exact, TablesType, Recorded, Grows, Armed
  <2>5. ConfirmedByAStage'
    BY <2>1 DEF ConfirmedByAStage
  <2>6. QED
    BY <2>2, <2>3, <2>4, <2>5, ArmedStays
<1>4. QED
  BY <1>1, <1>2, <1>3

\* What a caller may have read of a transaction.
Readings == [block : Blocks, canonical : BOOLEAN, deep : BOOLEAN]

\* A stage becomes final by an exact transaction, and one without a bridge confirms
\* the program.
LEMMA FinalStage ==
  ASSUME Tables, UNCHANGED <<chains, handed>>, NEW s \in Stages, NEW seen \in Readings,
         CanReconcile(s, seen), Verdict(s, seen) = "final", Finalize(s, seen)
  PROVE  Tables' /\ Grows
<1> USE Constants DEF Tables, chains, Finalize
<1>1. /\ Exact(s) /\ seen.block \in Blocks
      /\ nonce' = nonce /\ hash' = hash /\ delivery' = delivery
      /\ receipt' = [receipt EXCEPT ![s] = seen.block]
  BY DEF Verdict, Readings
<1>2. CASE stage[s] # "submitted"
  <2>1. UNCHANGED <<stage, program>>
    BY <1>2 DEF TablesType
  <2>2. TablesType' /\ ChainsType' /\ Grows
    BY <1>1, <2>1 DEF TablesType, ChainsType, Grows, Armed
  <2>3. AllBefore' /\ FrozenTogether' /\ HashIsSent' /\ DeliveryIsTrue' /\ ConfirmedByAStage'
    BY <1>1, <2>1 DEF AllBefore, FrozenTogether, HashIsSent, DeliveryIsTrue, ConfirmedByAStage, Armed
  <2>4. FinalIsExact'
    BY <1>1, <2>1 DEF FinalIsExact, Exact, TablesType
  <2>5. QED
    BY <2>2, <2>3, <2>4, ArmedStays
<1>3. CASE stage[s] = "submitted"
  <2>1. /\ stage' = [stage EXCEPT ![s] = IF Bridge(s) THEN "finalized" ELSE "confirmed"]
        /\ program' = IF Bridge(s) THEN program ELSE "confirmed"
        /\ ~Bridge(s) => program # "reconciliation_required"
        /\ hash[s] # None
    BY <1>3 DEF TablesType, CanReconcile, HashIsSent, Recorded
  <2>2. TablesType' /\ Armed(s)'
    BY <1>1, <2>1 DEF TablesType, StageStates, Programs, Armed
  <2>3. Grows /\ AllBefore' /\ FrozenTogether' /\ ChainsType'
    BY <1>1, <1>3, <2>1, <2>2, StageMoves DEF TablesType
  <2>4. HashIsSent' /\ DeliveryIsTrue'
    BY <1>1, <2>1, <2>2, <2>3 DEF HashIsSent, DeliveryIsTrue, TablesType, Recorded, Grows, Armed
  <2>5. FinalIsExact'
    BY <1>1, <2>1 DEF FinalIsExact, Exact, TablesType
  <2>6. ConfirmedByAStage'
    <3>1. CASE Bridge(s)
      BY <1>3, <2>1, <3>1 DEF ConfirmedByAStage, TablesType
    <3>2. CASE ~Bridge(s)
      BY <2>1, <3>2 DEF ConfirmedByAStage, TablesType
    <3>3. QED
      BY <3>1, <3>2
  <2>7. QED
    BY <2>2, <2>3, <2>4, <2>5, <2>6, ArmedStays
<1>4. QED
  BY <1>2, <1>3

\* A receipt is looked at: nothing, a mismatch, or a final stage.
LEMMA ReconciledStage ==
  ASSUME Tables, UNCHANGED <<chains, handed>>, NEW s \in Stages, NEW seen \in Readings,
         hash[s] # None, ReconcileReceipt(s, seen)
  PROVE  Tables' /\ Grows
<1>1. Armed(s) /\ Verdict(s, seen) \in {"pending", "mismatch", "final"}
  BY DEF Tables, HashIsSent, Verdict
<1>2. CASE UNCHANGED tables
  BY <1>2, NothingStored
<1>3. CASE Mark(s)
  BY <1>1, <1>3, MarkStage
<1>4. CASE Verdict(s, seen) = "final" /\ Finalize(s, seen)
  BY <1>4, FinalStage DEF ReconcileReceipt
<1>5. QED
  BY <1>1, <1>2, <1>3, <1>4 DEF ReconcileReceipt

\* Evidence of a delivery is stored once; different evidence freezes.
LEMMA DeliveredStage ==
  ASSUME Tables, UNCHANGED <<chains, handed>>, NEW s \in Stages, NEW e \in Evidence,
         arrived[s] \in Evidence, RecordBridgeDelivery(s, e)
  PROVE  Tables' /\ Grows
<1> USE Constants DEF Tables, chains, RecordBridgeDelivery, CanRecordDelivery
<1>1. CASE delivery[s] = e
  BY <1>1, NothingStored DEF tables
<1>2. CASE delivery[s] \notin {None, e}
  BY <1>2, MarkStage DEF DeliveryIsTrue
<1>3. CASE delivery[s] = None
  <2>1. /\ stage[s] = "finalized" /\ stage' = [stage EXCEPT ![s] = "delivered"]
        /\ delivery' = [delivery EXCEPT ![s] = e] /\ UNCHANGED <<program, nonce, hash, receipt>>
        /\ program = "active"
    BY <1>3
  <2>2. TablesType' /\ Armed(s)'
    BY <2>1 DEF TablesType, StageStates, Armed
  <2>3. Grows /\ AllBefore' /\ FrozenTogether' /\ ChainsType'
    BY <1>3, <2>1, <2>2, StageMoves DEF TablesType
  <2>4. HashIsSent' /\ FinalIsExact'
    BY <2>1, <2>2, <2>3 DEF HashIsSent, FinalIsExact, Exact, TablesType, Recorded, Grows, Armed
  <2>5. DeliveryIsTrue'
    BY <2>1, <2>2, <2>3 DEF DeliveryIsTrue, TablesType, Grows, Armed
  <2>6. ConfirmedByAStage'
    BY <2>1 DEF ConfirmedByAStage
  <2>7. QED
    BY <2>2, <2>3, <2>4, <2>5, <2>6, ArmedStays
<1>4. QED
  BY <1>1, <1>2, <1>3

-----------------------------------------------------------------------------
(* The calls *)

Points == {"idle", "submit", "receipt", "canonical", "reconcile", "bridge", "record",
           "nonce", "prepare", "arm", "answered"}
Sights == {None, "failure"} \cup Nonces \cup StageStates \cup Blocks \cup Evidence \cup Readings

CallsType == call \in [Tabs -> [kind : Calls, at : Points, goal : Stages, seen : Sights]]

\* What a call knows of the tables when it goes on.
Carried(t) ==
  LET v == call[t] IN
  /\ v.at = "submit" => /\ v.kind = "submitted" /\ v.seen \in Places
                        /\ v.seen < Len(sent[ChainOf[v.goal]])
  /\ v.at \in {"receipt", "canonical", "reconcile", "bridge", "record"} =>
       Part(t) \in Stages /\ hash[Part(t)] # None
  /\ v.at = "canonical" => v.seen \in Blocks
  /\ v.at = "reconcile" => v.seen \in Readings
  /\ v.at = "record" => v.seen = "failure" \/ (v.seen \in Evidence /\ arrived[Part(t)] \in Evidence)
  /\ v.at = "prepare" => v.seen \in Nonces
  /\ v.at = "arm" => /\ v.kind = "arm" /\ v.seen \in Nonces
                     /\ nonce[v.goal] = v.seen /\ stage[v.goal] # "absent"
  /\ v.at = "answered" /\ v.kind = "arm" /\ v.seen # None =>
       v.seen \in Nonces /\ nonce[v.goal] = v.seen /\ Armed(v.goal)

Inv == Tables /\ CallsType /\ \A t \in Tabs : Carried(t)

\* A call that stays where it is still knows what it knew, whatever others do.
LEMMA CarriedStays ==
  ASSUME Inv, Tables', Grows, NEW t \in Tabs, call'[t] = call[t]
  PROVE  Carried(t)'
<1> USE Constants
<1>1. call[t] \in [kind : Calls, at : Points, goal : Stages, seen : Sights] /\ Carried(t)
  BY DEF Inv, CallsType
<1>2. Part(t)' = Part(t)
  BY DEF Part
<1>3. ChainOf[call[t].goal] \in Chains /\ Len(sent[ChainOf[call[t].goal]]) \in Nat
      /\ Len(sent'[ChainOf[call[t].goal]]) \in Nat
  <2>1. call[t].goal \in Stages /\ ChainsType /\ ChainsType'
    BY <1>1 DEF Inv, Tables
  <2>2. ChainOf[call[t].goal] \in Chains
    BY <2>1
  <2>3. QED
    BY <2>1, <2>2 DEF ChainsType
<1>4. call[t].at = "submit" =>
        /\ call[t].kind = "submitted" /\ call[t].seen \in Places
        /\ call[t].seen < Len(sent'[ChainOf[call[t].goal]])
  <2>1. SUFFICES ASSUME call[t].at = "submit"
                 PROVE  /\ call[t].kind = "submitted" /\ call[t].seen \in Places
                        /\ call[t].seen < Len(sent'[ChainOf[call[t].goal]])
    OBVIOUS
  <2>2. /\ call[t].kind = "submitted" /\ call[t].seen \in Places /\ call[t].seen \in Nat
        /\ call[t].seen < Len(sent[ChainOf[call[t].goal]])
    BY <1>1, <2>1 DEF Carried
  <2>3. Len(sent[ChainOf[call[t].goal]]) <= Len(sent'[ChainOf[call[t].goal]])
    BY <1>3 DEF Grows
  <2>4. QED
    BY <1>3, <2>2, <2>3
<1>5. call[t].at \in {"receipt", "canonical", "reconcile", "bridge", "record"} =>
        Part(t) \in Stages /\ hash'[Part(t)] # None
  BY <1>1 DEF Carried, Grows
<1>6. call[t].at = "record" =>
        call[t].seen = "failure" \/ (call[t].seen \in Evidence /\ arrived'[Part(t)] \in Evidence)
  BY <1>1 DEF Carried, Grows
<1>7. call[t].at = "arm" =>
        /\ call[t].kind = "arm" /\ call[t].seen \in Nonces
        /\ nonce'[call[t].goal] = call[t].seen /\ stage'[call[t].goal] # "absent"
  BY <1>1 DEF Carried, Grows
<1>8. call[t].at = "answered" /\ call[t].kind = "arm" /\ call[t].seen # None =>
        /\ call[t].seen \in Nonces /\ nonce'[call[t].goal] = call[t].seen
        /\ stage'[call[t].goal] \notin {"absent", "prepared"}
  BY <1>1 DEF Carried, Grows, Armed
<1>9. QED
  BY <1>1, <1>2, <1>4, <1>5, <1>6, <1>7, <1>8 DEF Carried, Armed

\* Only the call that takes the step has to be looked at.
LEMMA OthersStay ==
  ASSUME Inv, Tables', Grows, CallsType', NEW t \in Tabs, Carried(t)',
         \A q \in Tabs \ {t} : call'[q] = call[q]
  PROVE  Inv'
<1>1. \A q \in Tabs : Carried(q)'
  <2>1. SUFFICES ASSUME NEW q \in Tabs, q # t PROVE Carried(q)'
    OBVIOUS
  <2>2. QED
    BY <2>1, CarriedStays
<1>2. QED
  BY <1>1 DEF Inv

\* A step that no call takes.
LEMMA ChainSteps ==
  ASSUME Inv, Tables', Grows, UNCHANGED call
  PROVE  Inv'
<1>1. \A q \in Tabs : Carried(q)'
  BY CarriedStays
<1>2. QED
  BY <1>1 DEF Inv, CallsType

\* What Goto does to the calls.
LEMMA GotoFields ==
  ASSUME CallsType, NEW t \in Tabs, NEW at \in Points, NEW ACTION seen, seen \in Sights,
         Goto(t, at, seen)
  PROVE  /\ CallsType' /\ \A q \in Tabs \ {t} : call'[q] = call[q]
         /\ call'[t].at = at /\ call'[t].seen = seen
         /\ call'[t].kind = call[t].kind /\ call'[t].goal = call[t].goal
         /\ Part(t)' = Part(t)
BY DEF CallsType, Goto, Part

\* A call that is answered, or whose reconciliation is over.
LEMMA AnswerInv ==
  ASSUME Inv, Tables', Grows, NEW t \in Tabs, NEW ACTION value, value \in Sights, Answer(t, value),
         call[t].kind # "arm" \/ value = None
  PROVE  Inv'
<1>1. "answered" \in Points /\ Goto(t, "answered", value)
  BY DEF Points, Answer
<1>2. /\ CallsType' /\ (\A q \in Tabs \ {t} : call'[q] = call[q])
      /\ call'[t].at = "answered" /\ (call'[t].kind # "arm" \/ call'[t].seen = None)
  BY <1>1, GotoFields DEF Inv
<1>3. QED
  BY <1>2, OthersStay DEF Carried

\* A transaction of the repository that throws stored nothing.
LEMMA ThrowsInv ==
  ASSUME Inv, UNCHANGED <<chains, handed>>, NEW t \in Tabs, Throws(t)
  PROVE  Inv' /\ Grows
<1>1. Tables' /\ Grows
  BY NothingStored DEF Inv, Throws
<1>2. None \in Sights /\ Answer(t, None)
  BY DEF Sights, Throws
<1>3. QED
  BY <1>1, <1>2, AnswerInv

\* A reconciliation is over: the arm goes on, any other call is answered.
LEMMA ReconciledInv ==
  ASSUME Inv, Tables', Grows, NEW t \in Tabs, Reconciled(t)
  PROVE  Inv'
<1>1. CASE call[t].kind = "arm"
  <2>1. Goto(t, "nonce", None) /\ "nonce" \in Points /\ None \in Sights
    BY <1>1 DEF Reconciled, Points, Sights
  <2>2. /\ CallsType' /\ (\A q \in Tabs \ {t} : call'[q] = call[q])
        /\ call'[t].at = "nonce"
    BY <2>1, GotoFields DEF Inv
  <2>3. QED
    BY <2>2, OthersStay DEF Carried
<1>2. CASE call[t].kind # "arm"
  <2>1. call[t].goal \in Stages
    BY DEF Inv, CallsType
  <2>2. stage'[call[t].goal] \in Sights
    BY <2>1 DEF Tables, TablesType, Sights
  <2>3. QED
    BY <1>2, <2>2, AnswerInv DEF Reconciled
<1>3. QED
  BY <1>1, <1>2

\* What Begin does to the calls.
LEMMA BeginFields ==
  ASSUME CallsType, NEW t \in Tabs, NEW kind \in Calls, NEW s \in Stages,
         NEW at \in Points, NEW seen \in Sights, Begin(t, kind, s, at, seen)
  PROVE  /\ CallsType' /\ \A q \in Tabs \ {t} : call'[q] = call[q]
         /\ call'[t] = [kind |-> kind, at |-> at, goal |-> s, seen |-> seen]
BY DEF Begin, CallsType

\* A call that begins carries what its route was asked, and a stored hash.
LEMMA BeginInv ==
  ASSUME Inv, NEW t \in Tabs, BeginCall(t)
  PROVE  Inv'
<1> USE Constants
<1>1. /\ Quiet /\ Tables' /\ Grows /\ hash' = hash /\ sent' = sent
      /\ \A s \in Stages : ChainOf[s] \in Chains /\ Len(sent[ChainOf[s]]) \in Nat
  BY NothingStored, SentEntries DEF Inv, Tables, BeginCall, BeginReview, BeginArm, BeginReconcile, BeginSubmitted,
     Begin, Quiet, tables, chains
<1>2. CallsType /\ {"review", "arm", "reconcile", "submitted"} \subseteq Calls
      /\ {"nonce", "receipt", "submit"} \subseteq Points
  BY DEF Inv, Calls, Points
<1>3. CASE BeginReview(t)
  <2>1. 1 \in Stages /\ None \in Sights
    BY StagedAssumption DEF Stages, Sights
  <2>2. /\ CallsType' /\ (\A q \in Tabs \ {t} : call'[q] = call[q])
        /\ call'[t] = [kind |-> "review", at |-> "nonce", goal |-> 1, seen |-> None]
    BY <1>2, <1>3, <2>1, BeginFields DEF BeginReview
  <2>3. QED
    BY <1>1, <2>2, OthersStay DEF Carried
<1>4. ASSUME NEW s \in Stages, BeginArm(t, s)
      PROVE  Inv'
  <2>1. None \in Sights
    BY DEF Sights
  <2>2. CASE s = 1 /\ Begin(t, "arm", s, "nonce", None)
    <3>1. /\ CallsType' /\ (\A q \in Tabs \ {t} : call'[q] = call[q])
          /\ call'[t] = [kind |-> "arm", at |-> "nonce", goal |-> s, seen |-> None]
      BY <1>2, <2>1, <2>2, BeginFields
    <3>2. QED
      BY <1>1, <3>1, OthersStay DEF Carried
  <2>3. CASE s > 1 /\ Bridge(s - 1) /\ hash[s - 1] # None /\ Begin(t, "arm", s, "receipt", None)
    <3>1. /\ CallsType' /\ (\A q \in Tabs \ {t} : call'[q] = call[q])
          /\ call'[t] = [kind |-> "arm", at |-> "receipt", goal |-> s, seen |-> None]
      BY <1>2, <2>1, <2>3, BeginFields
    <3>2. Part(t)' = s - 1
      BY <3>1 DEF Part
    <3> s - 1 \in Stages
      BY <2>3
    <3>3. QED
      BY <1>1, <2>3, <3>1, <3>2, OthersStay DEF Carried
  <2>4. QED
    BY <1>4, <2>2, <2>3 DEF BeginArm
<1>5. ASSUME NEW s \in Stages, BeginReconcile(t, s)
      PROVE  Inv'
  <2>1. None \in Sights
    BY DEF Sights
  <2>2. /\ CallsType' /\ (\A q \in Tabs \ {t} : call'[q] = call[q])
        /\ call'[t] = [kind |-> "reconcile", at |-> "receipt", goal |-> s, seen |-> None]
    BY <1>2, <1>5, <2>1, BeginFields DEF BeginReconcile
  <2>3. Part(t)' = s /\ hash[s] # None
    BY <1>5, <2>2 DEF Part, BeginReconcile
  <2>4. QED
    BY <1>1, <2>2, <2>3, OthersStay DEF Carried
<1>6. ASSUME NEW s \in Stages, NEW h \in Places, BeginSubmitted(t, s, h)
      PROVE  Inv'
  <2>1. h \in Sights
    BY DEF Sights
  <2>2. /\ CallsType' /\ (\A q \in Tabs \ {t} : call'[q] = call[q])
        /\ call'[t] = [kind |-> "submitted", at |-> "submit", goal |-> s, seen |-> h]
    BY <1>2, <1>6, <2>1, BeginFields DEF BeginSubmitted
  <2>3. h < Len(sent'[ChainOf[s]])
    BY <1>1, <1>6 DEF BeginSubmitted
  <2>4. QED
    BY <1>1, <2>2, <2>3, OthersStay DEF Carried
<1>7. QED
  BY <1>3, <1>4, <1>5, <1>6 DEF BeginCall

\* What is read of the chains about a transaction.
LEMMA ChainReads ==
  ASSUME TablesType, ChainsType, NEW s \in Stages, hash[s] # None
  PROVE  BlockOf(s) \in Blocks /\ deep[ChainOf[s]][hash[s]] \in BOOLEAN
<1>1. hash[s] \in Places /\ ChainOf[s] \in Chains
  BY Constants DEF TablesType
<1>2. block[ChainOf[s]] \in [Places -> Blocks] /\ deep[ChainOf[s]] \in [Places -> BOOLEAN]
  BY <1>1 DEF ChainsType
<1>3. QED
  BY <1>1, <1>2 DEF BlockOf

\* The steps that read, or answer what was stored.  What is written is in the lemmas
\* on the transactions; here it is what the call then carries.
LEMMA ReadingInv ==
  ASSUME Inv, NEW t \in Tabs,
         ReadReceipt(t) \/ ReadCanonical(t) \/ ReadNonce(t) \/ VerifyBridge(t)
  PROVE  Inv'
<1> USE Constants DEF Inv
<1>1. /\ Tables' /\ Grows /\ tables' = tables /\ chains' = chains
      /\ call[t] \in [kind : Calls, at : Points, goal : Stages, seen : Sights] /\ Carried(t)
  BY NothingStored DEF ReadReceipt, ReadCanonical, ReadNonce, VerifyBridge, Quiet, tables, chains, CallsType
<1>2. /\ hash' = hash /\ arrived' = arrived
      /\ \A s \in Stages : hash[s] # None => BlockOf(s) \in Blocks
  <2>1. hash' = hash /\ arrived' = arrived
    BY <1>1 DEF tables, chains
  <2>2. ASSUME NEW s \in Stages, hash[s] # None PROVE BlockOf(s) \in Blocks
    BY <2>2, ChainReads DEF Tables
  <2>3. QED
    BY <2>1, <2>2
<1>3. ASSUME Reconciled(t) PROVE Inv'
  BY <1>1, <1>3, ReconciledInv
<1>4. CASE ReadReceipt(t)
  <2>1. BlockOf(Part(t)) \in Blocks /\ Blocks \subseteq Sights /\ "canonical" \in Points
    BY <1>1, <1>2, <1>4 DEF Carried, ReadReceipt, Sights, Points
  <2>2. CASE Goto(t, "canonical", BlockOf(Part(t)))
    <3>1. /\ CallsType' /\ (\A q \in Tabs \ {t} : call'[q] = call[q])
          /\ call'[t].at = "canonical" /\ call'[t].seen \in Blocks /\ Part(t)' = Part(t)
      BY <2>1, <2>2, GotoFields
    <3>2. QED
      BY <1>1, <1>2, <1>4, <3>1, OthersStay DEF Carried, ReadReceipt
  <2>3. CASE Reconciled(t)
    BY <1>3, <2>3
  <2>4. QED
    BY <1>4, <2>2, <2>3 DEF ReadReceipt
<1>5. CASE ReadCanonical(t)
  <2>1. /\ call[t].at = "canonical" /\ call[t].seen \in Blocks
        /\ Part(t) \in Stages /\ hash[Part(t)] # None
    BY <1>1, <1>5 DEF ReadCanonical, Carried
  <2> DEFINE seen == [block |-> call[t].seen, canonical |-> BlockOf(Part(t)) = call[t].seen,
                      deep |-> deep[ChainOf[Part(t)]][hash[Part(t)]]]
  <2>2. seen \in Readings
    <3>1. deep[ChainOf[Part(t)]][hash[Part(t)]] \in BOOLEAN
      BY <2>1, ChainReads DEF Tables
    <3>2. QED
      BY <2>1, <3>1 DEF Readings
  <2>3. seen \in Sights /\ "reconcile" \in Points /\ Goto(t, "reconcile", seen)
    BY <2>2, <1>5 DEF Sights, Points, ReadCanonical
  <2> HIDE DEF seen
  <2>4. /\ CallsType' /\ (\A q \in Tabs \ {t} : call'[q] = call[q])
        /\ call'[t].at = "reconcile" /\ call'[t].seen \in Readings /\ Part(t)' = Part(t)
    BY <2>2, <2>3, GotoFields
  <2>5. QED
    BY <1>1, <1>2, <2>1, <2>4, OthersStay DEF Carried
<1>6. CASE ReadNonce(t)
  <2> DEFINE n == Len(sent[ChainOf[call[t].goal]])
  <2>1. n \in Nonces
    <3>1. ChainOf[call[t].goal] \in Chains
      BY <1>1
    <3>2. n \in Nat /\ n <= MaxNonce
      BY <3>1, SentEntries DEF Tables, ChainsType
    <3>3. QED
      BY <3>2, StagedAssumption DEF Nonces
  <2>2. n \in Sights /\ "prepare" \in Points /\ Goto(t, "prepare", n)
    BY <1>6, <2>1 DEF ReadNonce, Sights, Points
  <2> HIDE DEF n
  <2>3. /\ CallsType' /\ (\A q \in Tabs \ {t} : call'[q] = call[q])
        /\ call'[t].at = "prepare" /\ call'[t].seen \in Nonces
    BY <2>1, <2>2, GotoFields
  <2>4. QED
    BY <1>1, <2>3, OthersStay DEF Carried
<1>7. CASE VerifyBridge(t)
  <2>1. /\ Part(t) \in Stages /\ hash[Part(t)] # None /\ "record" \in Points
        /\ "failure" \in Sights /\ Evidence \subseteq Sights
    BY <1>1, <1>7 DEF VerifyBridge, Carried, Sights, Points
  <2>2. ASSUME NEW e \in Sights, Goto(t, "record", e),
               e = "failure" \/ (e \in Evidence /\ arrived[Part(t)] \in Evidence)
        PROVE  Inv'
    <3>1. /\ CallsType' /\ (\A q \in Tabs \ {t} : call'[q] = call[q])
          /\ call'[t].at = "record" /\ call'[t].seen = e /\ Part(t)' = Part(t)
      BY <2>1, <2>2, GotoFields
    <3>2. QED
      BY <1>1, <1>2, <2>1, <2>2, <3>1, OthersStay DEF Carried
  <2>3. CASE Reconciled(t)
    BY <1>3, <2>3
  <2>4. QED
    BY <1>7, <2>1, <2>2, <2>3 DEF VerifyBridge
<1>8. QED
  BY <1>4, <1>5, <1>6, <1>7

\* The steps that call a transaction of the repository.
LEMMA WritingInv ==
  ASSUME Inv, NEW t \in Tabs, Submit(t) \/ Reconcile(t) \/ RecordBridge(t) \/ Prepare(t) \/ Arm(t)
  PROVE  Inv' /\ Grows
<1> USE DEF Writes
<1>1. /\ UNCHANGED <<chains, handed>> /\ Tables
      /\ call[t] \in [kind : Calls, at : Points, goal : Stages, seen : Sights] /\ Carried(t)
  BY DEF Inv, CallsType, Submit, Reconcile, RecordBridge, Prepare, Arm
<1>2. CASE Throws(t)
  BY <1>1, <1>2, ThrowsInv
<1>3. ASSUME ~Throws(t), Submit(t) PROVE Inv' /\ Grows
  <2>1. /\ RecordSubmission(call[t].goal, call[t].seen) /\ Answer(t, stage'[call[t].goal])
        /\ call[t].kind = "submitted" /\ call[t].seen \in Places
        /\ call[t].seen < Len(sent[ChainOf[call[t].goal]])
    BY <1>1, <1>3 DEF Submit, Carried
  <2>2. Tables' /\ Grows
    BY <1>1, <2>1, SubmittedStage
  <2>3. stage'[call[t].goal] \in Sights
    BY <1>1, <2>2 DEF Tables, TablesType, Sights
  <2>4. QED
    BY <2>1, <2>2, <2>3, AnswerInv
<1>4. ASSUME ~Throws(t), Reconcile(t) PROVE Inv' /\ Grows
  <2>1. /\ ReconcileReceipt(Part(t), call[t].seen)
        /\ Reconciled(t) \/ Goto(t, "bridge", call[t].seen.block)
        /\ Part(t) \in Stages /\ hash[Part(t)] # None /\ call[t].seen \in Readings
    BY <1>1, <1>4 DEF Reconcile, Carried
  <2>2. Tables' /\ Grows
    BY <1>1, <2>1, ReconciledStage
  <2>3. CASE Reconciled(t)
    BY <2>2, <2>3, ReconciledInv
  <2>4. CASE Goto(t, "bridge", call[t].seen.block)
    <3>1. "bridge" \in Points /\ call[t].seen.block \in Sights
      BY <2>1 DEF Points, Readings, Sights
    <3>2. /\ CallsType' /\ (\A q \in Tabs \ {t} : call'[q] = call[q])
          /\ call'[t].at = "bridge" /\ Part(t)' = Part(t)
      BY <2>4, <3>1, GotoFields DEF Inv
    <3>3. hash'[Part(t)] # None
      BY <2>1, <2>2 DEF Grows
    <3>4. QED
      BY <2>1, <2>2, <3>2, <3>3, OthersStay DEF Carried
  <2>5. QED
    BY <2>1, <2>3, <2>4
<1>5. ASSUME ~Throws(t), RecordBridge(t) PROVE Inv' /\ Grows
  <2>1. Part(t) \in Stages /\ hash[Part(t)] # None
    BY <1>1, <1>5 DEF RecordBridge, Carried
  <2>2. CASE Mark(Part(t)) /\ Reconciled(t)
    <3>1. Armed(Part(t))
      BY <1>1, <2>1 DEF Tables, HashIsSent
    <3>2. Tables' /\ Grows
      BY <1>1, <2>1, <2>2, <3>1, MarkStage
    <3>3. QED
      BY <2>2, <3>2, ReconciledInv
  <2>3. CASE call[t].seen # "failure" /\ RecordBridgeDelivery(Part(t), call[t].seen) /\ Reconciled(t)
    <3>1. call[t].seen \in Evidence /\ arrived[Part(t)] \in Evidence
      BY <1>1, <1>5, <2>3 DEF RecordBridge, Carried
    <3>2. Tables' /\ Grows
      BY <1>1, <2>1, <2>3, <3>1, DeliveredStage
    <3>3. QED
      BY <2>3, <3>2, ReconciledInv
  <2>4. QED
    BY <1>5, <2>2, <2>3 DEF RecordBridge
<1>6. ASSUME ~Throws(t), Prepare(t) PROVE Inv' /\ Grows
  <2>1. /\ PrepareStage(call[t].goal, call[t].seen) /\ call[t].seen \in Nonces
        /\ call[t].goal \in Stages
        /\ IF call[t].kind = "arm" THEN Goto(t, "arm", call[t].seen) ELSE Answer(t, stage'[call[t].goal])
    BY <1>1, <1>6 DEF Prepare, Carried
  <2>2. /\ Tables' /\ Grows /\ nonce'[call[t].goal] = call[t].seen /\ stage'[call[t].goal] # "absent"
    BY <1>1, <2>1, PreparedStage
  <2>3. CASE call[t].kind = "arm"
    <3>1. "arm" \in Points /\ call[t].seen \in Sights
      BY <1>1 DEF Points
    <3>2. /\ CallsType' /\ (\A q \in Tabs \ {t} : call'[q] = call[q])
          /\ call'[t].at = "arm" /\ call'[t].seen = call[t].seen
          /\ call'[t].kind = "arm" /\ call'[t].goal = call[t].goal
      BY <2>1, <2>3, <3>1, GotoFields DEF Inv
    <3>3. QED
      BY <2>1, <2>2, <3>2, OthersStay DEF Carried
  <2>4. CASE call[t].kind # "arm"
    <3>1. stage'[call[t].goal] \in Sights
      BY <2>1, <2>2 DEF Tables, TablesType, Sights
    <3>2. QED
      BY <2>1, <2>2, <2>4, <3>1, AnswerInv
  <2>5. QED
    BY <2>3, <2>4
<1>7. ASSUME ~Throws(t), Arm(t) PROVE Inv' /\ Grows
  <2>1. /\ ArmStage(call[t].goal) /\ Answer(t, call[t].seen)
        /\ call[t].goal \in Stages /\ call[t].seen \in Nonces /\ nonce[call[t].goal] = call[t].seen
        /\ stage[call[t].goal] # "absent"
    BY <1>1, <1>7 DEF Arm, Carried
  <2>2. Tables' /\ Grows /\ stage'[call[t].goal] \notin {"absent", "prepared"}
    BY <1>1, <2>1, ArmedStage
  <2>3. "answered" \in Points /\ call[t].seen \in Sights /\ Goto(t, "answered", call[t].seen)
    BY <1>1, <2>1 DEF Points, Answer
  <2>4. /\ CallsType' /\ (\A q \in Tabs \ {t} : call'[q] = call[q])
        /\ call'[t].at = "answered" /\ call'[t].seen = call[t].seen /\ call'[t].goal = call[t].goal
    BY <2>3, GotoFields DEF Inv
  <2>5. nonce'[call[t].goal] = call[t].seen
    BY <2>1, <2>2 DEF Grows
  <2>6. QED
    BY <2>1, <2>2, <2>4, <2>5, OthersStay DEF Carried, Armed
<1>8. QED
  BY <1>2, <1>3, <1>4, <1>5, <1>6, <1>7

\* A wallet is handed the transaction of a stage that was armed.
LEMMA ReceiveInv ==
  ASSUME Inv, NEW t \in Tabs, Receive(t)
  PROVE  Inv' /\ Grows
<1> USE Constants
<1>1. /\ UNCHANGED <<tables, chains>> /\ Tables /\ call' = [call EXCEPT ![t] = Idle]
      /\ call[t] \in [kind : Calls, at : Points, goal : Stages, seen : Sights] /\ Carried(t)
  BY DEF Inv, CallsType, Receive
<1>2. HandedIsArmed'
  <2>1. SUFFICES ASSUME NEW s \in Stages, NEW n \in Nonces, <<s, n>> \in handed'
                 PROVE  nonce[s] = n /\ stage[s] \notin {"absent", "prepared"}
    BY <1>1 DEF HandedIsArmed, Armed, tables
  <2>2. CASE <<s, n>> \in handed
    BY <2>2, <1>1 DEF Tables, HandedIsArmed, Armed
  <2>3. CASE <<s, n>> \notin handed
    <3>1. call[t].kind = "arm" /\ call[t].seen # None /\ call[t].goal = s /\ call[t].seen = n
          /\ call[t].at = "answered"
      BY <2>1, <2>3 DEF Receive
    <3>2. QED
      BY <3>1, <1>1 DEF Carried, Armed
  <2>4. QED
    BY <2>2, <2>3
<1>3. Tables' /\ Grows
  BY <1>1, <1>2 DEF Tables, Grows, tables, chains, TablesType, ChainsType, AllBefore, HashIsSent, DeliveryIsTrue,
    FrozenTogether, FinalIsExact, SentIsArmed, ConfirmedByAStage, Armed, Exact
<1>4. Idle \in [kind : Calls, at : Points, goal : Stages, seen : Sights]
  BY StagedAssumption DEF Idle, Calls, Points, Sights, Stages
<1>5. CallsType' /\ (\A q \in Tabs \ {t} : call'[q] = call[q]) /\ call'[t] = Idle
  BY <1>1, <1>4 DEF Inv, CallsType
<1>6. QED
  BY <1>3, <1>5, OthersStay DEF Carried, Idle

\* A call that dies carries nothing.
LEMMA AbortInv ==
  ASSUME Inv, NEW t \in Tabs, Abort(t)
  PROVE  Inv' /\ Grows
<1>1. Tables' /\ Grows /\ call' = [call EXCEPT ![t] = Idle]
  BY NothingStored DEF Inv, Abort, Quiet
<1>2. Idle \in [kind : Calls, at : Points, goal : Stages, seen : Sights]
  BY StagedAssumption DEF Idle, Calls, Points, Sights, Stages
<1>3. CallsType' /\ (\A q \in Tabs \ {t} : call'[q] = call[q]) /\ call'[t] = Idle
  BY <1>1, <1>2 DEF Inv, CallsType
<1>4. QED
  BY <1>1, <1>3, OthersStay DEF Carried, Idle

-----------------------------------------------------------------------------
(* The wallet, the chains and the bridge *)

\* The owner's next transaction: a stage that was handed out, or another (0).
LEMMA TakeInv ==
  ASSUME Inv, NEW c \in Chains, NEW what \in Stages \cup {0}, Take(c, what),
         what # 0 => nonce[what] = Len(sent[c]) /\ ChainOf[what] = c /\ Armed(what),
         UNCHANGED <<tables, block, deep, arrived, handed, call>>
  PROVE  Inv' /\ Grows
<1> USE Constants DEF Inv, Tables, tables
<1>1. /\ sent[c] \in Seq(Stages \cup {0}) /\ Len(sent[c]) < MaxNonce /\ MaxNonce \in Nat
      /\ sent' = [sent EXCEPT ![c] = Append(sent[c], what)]
  BY StagedAssumption DEF Take, ChainsType
<1>2. /\ sent'[c] = Append(sent[c], what) /\ \A d \in Chains \ {c} : sent'[d] = sent[d]
      /\ Len(sent'[c]) = Len(sent[c]) + 1 /\ sent'[c][Len(sent[c]) + 1] = what
      /\ \A i \in 1..Len(sent[c]) : sent'[c][i] = sent[c][i]
  BY <1>1 DEF ChainsType
<1>3. ChainsType'
  <2>1. sent' \in [Chains -> Seq(Stages \cup {0})]
    BY <1>1 DEF ChainsType
  <2>2. \A d \in Chains : Len(sent'[d]) <= MaxNonce
    BY <1>1, <1>2 DEF ChainsType
  <2>3. QED
    BY <2>1, <2>2 DEF ChainsType
<1>4. Grows
  BY <1>1, <1>2, SentEntries DEF Grows, Armed
<1>5. SentIsArmed'
  <2>1. SUFFICES ASSUME NEW d \in Chains, NEW i \in 1..Len(sent'[d]), NEW s, s = sent'[d][i], s # 0
                 PROVE  nonce[s] = i - 1 /\ ChainOf[s] = d /\ stage[s] \notin {"absent", "prepared"}
    BY DEF SentIsArmed
  <2>2. CASE d = c /\ i = Len(sent[c]) + 1
    BY <1>1, <1>2, <2>1, <2>2 DEF Armed
  <2>3. CASE ~(d = c /\ i = Len(sent[c]) + 1)
    <3>1. i \in 1..Len(sent[d]) /\ s = sent[d][i]
      BY <1>1, <1>2, <2>1, <2>3
    <3>2. QED
      BY <2>1, <3>1 DEF SentIsArmed
  <2>4. QED
    BY <2>2, <2>3
<1>6. HashIsSent' /\ FinalIsExact'
  <2>1. ASSUME NEW s \in Stages, hash[s] # None
        PROVE  hash[s] < Len(sent'[ChainOf[s]]) /\ sent'[ChainOf[s]][hash[s] + 1] = sent[ChainOf[s]][hash[s] + 1]
    <3>1. /\ hash[s] \in Nat /\ ChainOf[s] \in Chains /\ hash[s] < Len(sent[ChainOf[s]])
          /\ Len(sent[ChainOf[s]]) \in Nat
      BY <2>1, SentEntries DEF TablesType, HashIsSent
    <3>2. QED
      BY <1>1, <1>2, <3>1
  <2>2. HashIsSent'
    BY <2>1 DEF HashIsSent, Armed
  <2>3. FinalIsExact'
    BY <2>1 DEF FinalIsExact, Exact
  <2>4. QED
    BY <2>2, <2>3
<1>7. TablesType' /\ AllBefore' /\ DeliveryIsTrue' /\ FrozenTogether' /\ HandedIsArmed' /\ ConfirmedByAStage'
  BY DEF TablesType, AllBefore, DeliveryIsTrue, FrozenTogether, HandedIsArmed, ConfirmedByAStage, Armed
<1>8. Tables'
  BY <1>3, <1>5, <1>6, <1>7
<1>9. QED
  BY <1>4, <1>8, ChainSteps

\* A chain that mines, reorganises or finalises, and a bridge that delivers.
LEMMA NatureInv ==
  ASSUME Inv, UNCHANGED <<tables, sent, handed, call>>,
         block' \in [Chains -> [Places -> Blocks]], deep' \in [Chains -> [Places -> BOOLEAN]],
         arrived' \in [Stages -> Deliveries],
         \A s \in Stages : arrived[s] \in Evidence => arrived'[s] \in Evidence
  PROVE  Inv' /\ Grows
<1>1. Tables' /\ Grows
  BY SentEntries DEF Inv, Tables, Grows, tables, TablesType, ChainsType, AllBefore, HashIsSent, DeliveryIsTrue,
    FrozenTogether, HandedIsArmed, FinalIsExact, SentIsArmed, ConfirmedByAStage, Armed, Exact
<1>2. QED
  BY <1>1, ChainSteps

\* The wallet, the chains and the bridge preserve the invariant.
LEMMA ChainStepInv ==
  ASSUME Inv, ChainStep
  PROVE  Inv' /\ Grows
<1> USE Constants
<1>1. ChainsType /\ HandedIsArmed
  BY DEF Inv, Tables
<1>2. ASSUME NEW s \in Stages, Arrives(s) PROVE Inv' /\ Grows
  <2>1. arrived' \in [Stages -> Deliveries]
    BY <1>1, <1>2 DEF Arrives, ChainsType, Deliveries
  <2>2. \A r \in Stages : arrived[r] \in Evidence => arrived'[r] \in Evidence
    BY <1>1, <1>2 DEF Arrives, ChainsType, Evidence
  <2>3. QED
    BY <1>1, <1>2, <2>1, <2>2, NatureInv DEF Arrives, ChainsType
<1>3. ASSUME NEW s \in Stages, NEW n \in Places, Send(s, n) PROVE Inv' /\ Grows
  <2>1. nonce[s] = Len(sent[ChainOf[s]]) /\ Armed(s)
    BY <1>1, <1>3 DEF Send, HandedIsArmed
  <2>2. QED
    BY <1>3, <2>1, TakeInv DEF Send
<1>4. ASSUME NEW c \in Chains, SendOther(c) PROVE Inv' /\ Grows
  BY <1>4, TakeInv DEF SendOther
<1>5. ASSUME NEW c \in Chains, NEW n \in Places, Mine(c, n) \/ Reorganise(c, n) \/ Deepen(c, n)
      PROVE  Inv' /\ Grows
  <2> block \in [Chains -> [Places -> Blocks]] /\ deep \in [Chains -> [Places -> BOOLEAN]]
    BY <1>1 DEF ChainsType
  <2>1. block' = block \/ \E b \in Blocks : block' = [block EXCEPT ![c][n] = b]
    BY <1>5 DEF Blocks, Mine, Reorganise, Deepen
  <2>2. deep' = deep \/ \E b \in BOOLEAN : deep' = [deep EXCEPT ![c][n] = b]
    BY <1>5 DEF Mine, Reorganise, Deepen
  <2>3. block' \in [Chains -> [Places -> Blocks]]
    BY <2>1
  <2>4. deep' \in [Chains -> [Places -> BOOLEAN]]
    BY <2>2
  <2>5. arrived' = arrived /\ UNCHANGED <<tables, sent, handed, call>>
    BY <1>5 DEF Mine, Reorganise, Deepen
  <2>6. QED
    BY <1>1, <2>3, <2>4, <2>5, NatureInv DEF ChainsType
<1>6. QED
  BY <1>2, <1>3, <1>4, <1>5 DEF ChainStep

-----------------------------------------------------------------------------
(* The theorems *)

\* Nothing is stored, sent or under way.
LEMMA InitInv == Init => Inv
<1> SUFFICES ASSUME Init PROVE Inv
  OBVIOUS
<1> USE Constants DEF Init
<1>1. TablesType
  BY DEF TablesType, Programs, StageStates
<1>2. ChainsType
  BY StagedAssumption DEF ChainsType, Blocks, Deliveries
<1>3. AllBefore /\ HashIsSent /\ DeliveryIsTrue /\ FrozenTogether /\ HandedIsArmed
  BY DEF AllBefore, HashIsSent, DeliveryIsTrue, FrozenTogether, HandedIsArmed, Recorded
<1>4. FinalIsExact /\ SentIsArmed /\ ConfirmedByAStage
  BY DEF FinalIsExact, SentIsArmed, ConfirmedByAStage
<1>5. CallsType /\ \A t \in Tabs : Carried(t)
  <2>1. Idle \in [kind : Calls, at : Points, goal : Stages, seen : Sights]
    BY StagedAssumption DEF Idle, Calls, Points, Sights, Stages
  <2>2. QED
    BY <2>1 DEF CallsType, Carried, Idle
<1>6. QED
  BY <1>1, <1>2, <1>3, <1>4, <1>5 DEF Inv, Tables

\* Every step preserves the invariant.
LEMMA StepInv == Inv /\ [Next]_vars => Inv'
<1> SUFFICES ASSUME Inv, [Next]_vars PROVE Inv'
  OBVIOUS
<1>1. ASSUME NEW t \in Tabs, BeginCall(t) \/ CallStep(t) \/ Abort(t) PROVE Inv'
  BY <1>1, BeginInv, ReadingInv, WritingInv, ReceiveInv, AbortInv DEF CallStep
<1>2. CASE ChainStep
  BY <1>2, ChainStepInv
<1>3. CASE Revoke \/ UNCHANGED vars
  <2>1. UNCHANGED <<tables, chains, handed, call>>
    BY <1>3 DEF Revoke, vars
  <2>2. QED
    BY <2>1, NothingStored, ChainSteps DEF Inv
<1>4. QED
  BY <1>1, <1>2, <1>3 DEF Next

\* The invariant of the tables, the chains and the calls.
LEMMA Invariance == Spec => []Inv
BY InitInv, StepInv, PTL DEF Spec

\* The stage routes commit the broadcasting state before they return a transaction:
\* whatever the tabs, the mishaps and the number of stages, a stage transaction on a
\* chain is that of an armed stage under its stored nonce.
THEOREM StagesAreArmed == Spec => []SentIsArmed
<1>1. Inv => SentIsArmed
  BY DEF Inv, Tables
<1>2. QED
  BY <1>1, Invariance, PTL

\* A stage passes for final only by the transaction that was attested.
THEOREM FinalStagesAreExact == Spec => []FinalIsExact
<1>1. Inv => FinalIsExact
  BY DEF Inv, Tables
<1>2. QED
  BY <1>1, Invariance, PTL

\* No destination stage is prepared without evidence of the delivery before it.
THEOREM InOrder == Spec => []StagesInOrder
<1>1. Inv => StagesInOrder
  <2>1. SUFFICES ASSUME Inv, NEW s \in Stages, stage[s] # "absent", s > 1
                 PROVE  /\ delivery[s - 1] # None
                        /\ stage[s - 1] \in {"delivered", "reconciliation_required"}
                        /\ arrived[s - 1] \in Evidence
    BY DEF StagesInOrder
  <2>2. s - 1 \in Stages /\ s - 1 \in 1..(s - 1)
    BY <2>1, Constants
  <2>3. QED
    BY <2>1, <2>2 DEF Inv, Tables, AllBefore, DeliveryIsTrue
<1>2. QED
  BY <1>1, Invariance, PTL

\* The receipt that confirms a program is that of the first stage without a bridge,
\* and finds every stage before it delivered, whatever the chains of the stages.
THEOREM ConfirmedPrograms == Spec => []ConfirmedInOrder
<1>1. Inv => ConfirmedInOrder
  <2>1. SUFFICES ASSUME Inv, program = "confirmed"
                 PROVE  \E s \in Stages :
                          /\ ~Bridge(s)
                          /\ \A r \in Stages : stage[r] = CASE r < s -> "delivered"
                                                     [] r = s -> "confirmed" [] r > s -> "absent"
    BY DEF ConfirmedInOrder
  <2>2. PICK s \in Stages : stage[s] = "confirmed"
    BY <2>1 DEF Inv, Tables, ConfirmedByAStage
  <2>3. ~Bridge(s)
    BY <2>1, <2>2 DEF Inv, Tables, DeliveryIsTrue
  <2>4. ASSUME NEW r \in Stages, r < s
        PROVE  stage[r] = "delivered"
    <3>1. r \in 1..(s - 1)
      BY <2>4, Constants DEF Stages
    <3>2. stage[r] \in {"delivered", "reconciliation_required"}
      BY <2>1, <2>2, <3>1 DEF Inv, Tables, AllBefore
    <3>3. QED
      BY <2>1, <3>2 DEF Inv, Tables, FrozenTogether
  <2>5. ASSUME NEW r \in Stages, r > s
        PROVE  stage[r] = "absent"
    <3>1. s \in 1..(r - 1)
      BY <2>5, Constants DEF Stages
    <3>2. QED
      BY <2>1, <2>2, <3>1 DEF Inv, Tables, AllBefore
  <2>6. \A r \in Stages : stage[r] = CASE r < s -> "delivered" [] r = s -> "confirmed" [] r > s -> "absent"
    BY <2>2, <2>4, <2>5, Constants DEF Stages
  <2>7. QED
    BY <2>3, <2>6
<1>2. QED
  BY <1>1, Invariance, PTL

\* What a frozen program still takes: a bridge source that was submitted becomes
\* final, and nothing else but the freezing of more stages.
Freezes ==
  program = "reconciliation_required" =>
    /\ program' = program
    /\ \A s \in Stages : stage'[s] # stage[s] => stage'[s] \in {"finalized", "reconciliation_required"}

\* No transaction of the repository brings a frozen program back.
LEMMA FrozenTransactions ==
  ASSUME Tables, program = "reconciliation_required", NEW s \in Stages,
         \/ Mark(s)
         \/ \E n \in Nonces : PrepareStage(s, n)
         \/ ArmStage(s)
         \/ \E h \in Places : RecordSubmission(s, h)
         \/ \E seen \in Readings : ReconcileReceipt(s, seen)
         \/ \E e \in Evidence : RecordBridgeDelivery(s, e)
  PROVE  Freezes
<1> USE Constants
<1>1. stage \in [Stages -> StageStates] /\ \A r \in Stages : hash[r] # None \/ hash[r] = None
  BY DEF Tables, TablesType
<1>2. ASSUME Mark(s) PROVE Freezes
  BY <1>1, <1>2 DEF Mark, Freezes
<1>3. ASSUME UNCHANGED tables PROVE Freezes
  BY <1>3 DEF tables, Freezes
<1>4. ASSUME NEW n \in Nonces, PrepareStage(s, n) PROVE Freezes
  BY <1>4 DEF PrepareStage, CanPrepare, Freezes
<1>5. ASSUME ArmStage(s) PROVE Freezes
  BY <1>5 DEF ArmStage, CanArm
<1>6. ASSUME NEW h \in Places, RecordSubmission(s, h) PROVE Freezes
  BY <1>2, <1>3, <1>6 DEF RecordSubmission, CanRecord
<1>7. ASSUME NEW seen \in Readings, ReconcileReceipt(s, seen) PROVE Freezes
  <2>1. CASE stage[s] = "reconciliation_required" \/ Verdict(s, seen) # "final"
    BY <1>2, <1>3, <1>7, <2>1 DEF ReconcileReceipt, Verdict
  <2>2. CASE stage[s] # "reconciliation_required" /\ Verdict(s, seen) = "final"
    <3>1. Finalize(s, seen) /\ CanReconcile(s, seen)
      BY <1>7, <2>2 DEF ReconcileReceipt
    <3>2. QED
      BY <1>1, <2>2, <3>1 DEF Finalize, CanReconcile, Freezes
  <2>3. QED
    BY <2>1, <2>2
<1>8. ASSUME NEW e \in Evidence, RecordBridgeDelivery(s, e) PROVE Freezes
  BY <1>2, <1>3, <1>8 DEF RecordBridgeDelivery, CanRecordDelivery
<1>9. QED
  BY <1>2, <1>4, <1>5, <1>6, <1>7, <1>8

\* The transactions of the repository, with what a call may carry to them.
Transaction(s) ==
  \/ Mark(s)
  \/ \E n \in Nonces : PrepareStage(s, n)
  \/ ArmStage(s)
  \/ \E h \in Places : RecordSubmission(s, h)
  \/ \E seen \in Readings : ReconcileReceipt(s, seen)
  \/ \E e \in Evidence : RecordBridgeDelivery(s, e)

\* Every step of a call, a chain or the clock is such a transaction, or leaves the
\* tables alone.
LEMMA StepsAreTransactions ==
  ASSUME Inv, [Next]_vars
  PROVE  UNCHANGED tables \/ \E s \in Stages : Transaction(s)
<1> USE Constants
<1>1. CASE UNCHANGED vars
  BY <1>1 DEF vars
<1>2. ASSUME NEW t \in Tabs, Submit(t) \/ Reconcile(t) \/ RecordBridge(t) \/ Prepare(t) \/ Arm(t)
      PROVE  UNCHANGED tables \/ \E s \in Stages : Transaction(s)
  <2>1. /\ Tables /\ call[t].goal \in Stages
        /\ call[t].at = "submit" => call[t].seen \in Places
        /\ call[t].at \in {"reconcile", "record"} => Part(t) \in Stages
        /\ call[t].at = "reconcile" => call[t].seen \in Readings
        /\ call[t].at = "record" /\ call[t].seen # "failure" => call[t].seen \in Evidence
        /\ call[t].at = "prepare" => call[t].seen \in Nonces
    BY DEF Inv, CallsType, Carried
  <2>2. CASE Throws(t)
    BY <2>2 DEF Throws
  <2>3. CASE ~Throws(t)
    BY <1>2, <2>1, <2>3 DEF Transaction, Submit, Reconcile, RecordBridge, Prepare, Arm
  <2>4. QED
    BY <2>2, <2>3
<1>3. ASSUME NEW t \in Tabs, BeginCall(t) \/ CallStep(t) \/ Abort(t)
      PROVE  \/ UNCHANGED tables
             \/ Submit(t) \/ Reconcile(t) \/ RecordBridge(t) \/ Prepare(t) \/ Arm(t)
  BY <1>3 DEF BeginCall, BeginReview, BeginArm, BeginReconcile, BeginSubmitted, Begin, CallStep, Abort,
     ReadReceipt, ReadCanonical, VerifyBridge, ReadNonce, Receive, Quiet
<1>4. ASSUME ChainStep \/ Revoke PROVE UNCHANGED tables
  BY <1>4 DEF ChainStep, Arrives, Send, SendOther, Mine, Reorganise, Deepen, Revoke
<1>5. QED
  BY <1>1, <1>2, <1>3, <1>4 DEF Next

\* Nor does any step of a call, a chain or the clock.
LEMMA FrozenStep ==
  ASSUME Inv, Next, program = "reconciliation_required"
  PROVE  Freezes
<1>1. CASE UNCHANGED tables
  BY <1>1 DEF tables, Freezes
<1>2. ASSUME NEW s \in Stages, Transaction(s) PROVE Freezes
  BY <1>2, FrozenTransactions DEF Inv, Transaction
<1>3. QED
  BY <1>1, <1>2, StepsAreTransactions

\* "Mismatch prevents another send": no call under way, and no later receipt or
\* delivery, moves a frozen program on.
THEOREM Freezing == Spec => MismatchFreezes
<1>1. Inv /\ [Next]_vars => [Freezes]_vars
  BY FrozenStep DEF Freezes, vars, tables
<1>2. Spec => [][Freezes]_vars
  BY <1>1, Invariance, PTL DEF Spec
<1>3. QED
  BY <1>2 DEF MismatchFreezes, Freezes

-----------------------------------------------------------------------------
(* The owner's page *)

\* What no step takes back of a stage that is done, or was reported.
DoneStay ==
  \A s \in Stages :
    /\ stage[s] \in {"delivered", "confirmed", "reconciliation_required"} =>
         stage'[s] \in {stage[s], "reconciliation_required"}
    /\ hash[s] # None => hash'[s] = hash[s]

\* No transaction of the repository moves a stage that is done, but to freeze it.
LEMMA DoneTransactions ==
  ASSUME Tables, NEW s \in Stages, Transaction(s)
  PROVE  DoneStay
<1>1. /\ stage \in [Stages -> StageStates] /\ hash \in [Stages -> Places \cup {None}]
      /\ delivery \in [Stages -> Evidence \cup {None}] /\ DeliveryIsTrue
  BY DEF Tables, TablesType
<1>2. ASSUME Mark(s) PROVE DoneStay
  BY <1>1, <1>2 DEF Mark, DoneStay
<1>3. ASSUME UNCHANGED tables PROVE DoneStay
  BY <1>3 DEF tables, DoneStay
<1>4. ASSUME NEW n \in Nonces, PrepareStage(s, n) PROVE DoneStay
  BY <1>1, <1>4 DEF PrepareStage, DoneStay
<1>5. ASSUME ArmStage(s) PROVE DoneStay
  BY <1>1, <1>5 DEF ArmStage, CanArm, DoneStay
<1>6. ASSUME NEW h \in Places, RecordSubmission(s, h) PROVE DoneStay
  <2>1. h # None
    BY Constants
  <2>2. CASE hash[s] = None
    <3>1. /\ stage[s] = "broadcasting" /\ stage' = [stage EXCEPT ![s] = "submitted"]
          /\ hash' = [hash EXCEPT ![s] = h]
      BY <1>6, <2>1, <2>2 DEF RecordSubmission, CanRecord
    <3>2. QED
      BY <1>1, <2>2, <3>1 DEF DoneStay
  <2>3. CASE hash[s] # None
    BY <1>2, <1>3, <1>6, <2>3 DEF RecordSubmission
  <2>4. QED
    BY <2>2, <2>3
<1>7. ASSUME NEW seen \in Readings, ReconcileReceipt(s, seen) PROVE DoneStay
  <2>1. CASE stage[s] = "reconciliation_required" \/ Verdict(s, seen) # "final"
    BY <1>2, <1>3, <1>7, <2>1 DEF ReconcileReceipt, Verdict
  <2>2. CASE stage[s] # "reconciliation_required" /\ Verdict(s, seen) = "final"
    <3>1. Finalize(s, seen)
      BY <1>7, <2>2 DEF ReconcileReceipt
    <3>2. QED
      BY <1>1, <3>1 DEF Finalize, DoneStay
  <2>3. QED
    BY <2>1, <2>2
<1>8. ASSUME NEW e \in Evidence, RecordBridgeDelivery(s, e) PROVE DoneStay
  <2>1. CASE delivery[s] = None
    <3>1. stage[s] = "finalized" /\ stage' = [stage EXCEPT ![s] = "delivered"] /\ hash' = hash
      BY <1>8, <2>1, Constants DEF RecordBridgeDelivery, CanRecordDelivery
    <3>2. QED
      BY <1>1, <3>1 DEF DoneStay
  <2>2. CASE delivery[s] # None
    BY <1>2, <1>3, <1>8, <2>2 DEF RecordBridgeDelivery
  <2>3. QED
    BY <2>1, <2>2
<1>9. QED
  BY <1>2, <1>4, <1>5, <1>6, <1>7, <1>8 DEF Transaction

\* Nor does any step.
LEMMA DoneStays == ASSUME Inv, [Next]_vars PROVE DoneStay
<1>1. CASE UNCHANGED tables
  BY <1>1 DEF tables, DoneStay
<1>2. QED
  BY <1>1, DoneTransactions, StepsAreTransactions DEF Inv

\* What is shown of a stage is still true of the tables, as far as it binds them.
Known(s, value) ==
  /\ value \in {"delivered", "confirmed"} => stage[s] \in {value, "reconciliation_required"}
  /\ value \in {"submitted", "finalized"} => hash[s] # None

HasReview == shown \in [Stages -> StageStates \cup {"pending"}]

ShownIsKnown == shown # None => HasReview /\ \A s \in Stages : Known(s, shown[s])

\* What confirming a stage has left to do, it does with the nonce that was handed out.
TodoIsArmed ==
  /\ todo \in [at : {"none", "send", "report", "check"}, goal : Stages, place : Nonces \cup {None}]
  /\ todo.at \in {"send", "report"} => todo.place \in Nonces
  /\ todo.at # "none" => HasReview

\* The page's call is one that its buttons make, and its answer is what was stored.
AnswerIsKnown ==
  LET c == call[Page] IN
  c.at # "idle" =>
    /\ c.kind \in {"review", "arm", "reconcile", "submitted"}
    /\ c.kind # "review" => HasReview
    /\ c.kind = "review" => c.goal = 1
    /\ c.kind = "submitted" => c.at \in {"submit", "answered"}
    /\ c.at = "answered" /\ c.seen # None =>
         /\ c.kind \in {"review", "reconcile"} => c.seen \in StageStates /\ Known(c.goal, c.seen)
         /\ c.kind = "submitted" => hash[c.goal] # None

PageKnows == ShownIsKnown /\ TodoIsArmed /\ AnswerIsKnown

\* Nothing is shown or under way at first.
LEMMA PageBegins == PageInit => Inv /\ PageKnows
<1> SUFFICES ASSUME PageInit PROVE Inv /\ PageKnows
  OBVIOUS
<1>1. Inv
  BY InitInv DEF PageInit
<1>2. 1 \in Stages
  BY StagedAssumption DEF Stages
<1>3. ShownIsKnown /\ TodoIsArmed
  BY <1>2 DEF PageInit, ShownIsKnown, TodoIsArmed, Nothing
<1>4. AnswerIsKnown
  BY PageAssumption DEF PageInit, Init, Idle, AnswerIsKnown
<1>5. QED
  BY <1>1, <1>3, <1>4 DEF PageKnows

\* What was known stays known.
LEMMA KnownStays ==
  ASSUME DoneStay, NEW s \in Stages, NEW value, Known(s, value)
  PROVE  Known(s, value)'
BY DEF DoneStay, Known

\* What a stage is now may be shown of it.
LEMMA StoredIsKnown ==
  ASSUME Tables, NEW s \in Stages
  PROVE  Known(s, stage[s]) /\ stage[s] \in StageStates
BY DEF Tables, TablesType, HashIsSent, Known, Recorded

\* A call that goes on is the same call.
LEMMA GotoSame ==
  ASSUME CallsType, NEW t \in Tabs, NEW at, NEW ACTION seen, Goto(t, at, seen)
  PROVE  /\ call'[t].at = at /\ call'[t].seen = seen
         /\ call'[t].kind = call[t].kind /\ call'[t].goal = call[t].goal
BY DEF CallsType, Goto

\* The page's call goes on to another await.
LEMMA PageGoesOn ==
  ASSUME Inv, AnswerIsKnown, UNCHANGED shown, call[Page].at \notin {"idle", "submit", "answered"},
         NEW at, at # "answered", NEW ACTION seen, Goto(Page, at, seen)
  PROVE  AnswerIsKnown'
<1>1. /\ call'[Page].at = at /\ call'[Page].kind = call[Page].kind /\ call'[Page].goal = call[Page].goal
  BY PageAssumption, GotoSame DEF Inv
<1>2. QED
  BY <1>1 DEF AnswerIsKnown, HasReview

\* The page's call is answered with an error, with a nonce, or with what is stored.
LEMMA PageIsAnswered ==
  ASSUME Inv, Tables', AnswerIsKnown, UNCHANGED shown, call[Page].at # "idle",
         NEW ACTION value, Answer(Page, value),
         \/ value = None
         \/ call[Page].kind = "arm"
         \/ /\ value = stage'[call[Page].goal]
            /\ call[Page].kind = "submitted" => hash'[call[Page].goal] # None
  PROVE  AnswerIsKnown'
<1>1. /\ call'[Page].at = "answered" /\ call'[Page].seen = value
      /\ call'[Page].kind = call[Page].kind /\ call'[Page].goal = call[Page].goal
      /\ call[Page].goal \in Stages
  BY PageAssumption, GotoSame DEF Inv, CallsType, Answer
<1>2. \A s \in Stages : Known(s, stage[s])' /\ stage'[s] \in StageStates
  BY DEF Tables, TablesType, HashIsSent, Known, Recorded
<1>3. ASSUME value # None, call[Page].kind \in {"review", "reconcile"}
      PROVE  value \in StageStates /\ Known(call[Page].goal, call[Page].seen)'
  <2>1. value = stage'[call[Page].goal]
    BY <1>3
  <2>2. call'[Page].seen = stage'[call'[Page].goal] /\ call'[Page].goal \in Stages
    BY <1>1, <2>1
  <2>3. QED
    BY <1>1, <1>2, <2>1, <2>2 DEF Known
<1>4. QED
  BY <1>1, <1>3 DEF AnswerIsKnown, HasReview

\* A reconciliation of the page's is over.
LEMMA PageReconciled ==
  ASSUME Inv, Tables', AnswerIsKnown, UNCHANGED shown, call[Page].at \notin {"idle", "submit", "answered"},
         Reconciled(Page)
  PROVE  AnswerIsKnown'
<1>1. call[Page].kind # "submitted"
  BY DEF AnswerIsKnown
<1>2. CASE call[Page].kind = "arm"
  BY <1>2, PageGoesOn DEF Reconciled
<1>3. CASE call[Page].kind # "arm"
  BY <1>1, <1>3, PageIsAnswered DEF Reconciled
<1>4. QED
  BY <1>2, <1>3

\* Every step of the server's tells the page what is stored.
LEMMA ServerTells ==
  ASSUME Inv, Tables', AnswerIsKnown, Server
  PROVE  AnswerIsKnown'
<1> USE DEF Server
<1>0. UNCHANGED shown /\ Page \in Tabs /\ call[Page].goal \in Stages /\ Carried(Page)
  BY PageAssumption DEF Inv, CallsType
<1>1. CASE Throws(Page)
  <2>1. call[Page].at # "idle"
    BY DEF Submit, ReadReceipt, ReadCanonical, Reconcile, VerifyBridge, RecordBridge, ReadNonce, Prepare, Arm
  <2>2. QED
    BY <1>0, <1>1, <2>1, PageIsAnswered DEF Throws
<1>2. CASE Submit(Page) /\ ~Throws(Page)
  <2>1. /\ RecordSubmission(call[Page].goal, call[Page].seen) /\ Answer(Page, stage'[call[Page].goal])
        /\ call[Page].at = "submit" /\ call[Page].seen \in Places
    BY <1>0, <1>2 DEF Submit, Carried
  <2>2. hash'[call[Page].goal] # None
    <3>1. call[Page].seen # None /\ hash \in [Stages -> Places \cup {None}]
      BY <2>1, Constants DEF Inv, Tables, TablesType
    <3>2. QED
      BY <1>0, <2>1, <3>1 DEF RecordSubmission, Mark, tables
  <2>3. QED
    BY <1>0, <2>1, <2>2, PageIsAnswered
<1>3. CASE ReadReceipt(Page)
  BY <1>0, <1>3, PageGoesOn, PageReconciled DEF ReadReceipt
<1>4. CASE ReadCanonical(Page)
  BY <1>0, <1>4, PageGoesOn DEF ReadCanonical
<1>5. CASE Reconcile(Page) /\ ~Throws(Page)
  BY <1>0, <1>5, PageGoesOn, PageReconciled DEF Reconcile
<1>6. CASE VerifyBridge(Page)
  BY <1>0, <1>6, PageGoesOn, PageReconciled DEF VerifyBridge
<1>7. CASE RecordBridge(Page) /\ ~Throws(Page)
  BY <1>0, <1>7, PageReconciled DEF RecordBridge
<1>8. CASE ReadNonce(Page)
  BY <1>0, <1>8, PageGoesOn DEF ReadNonce
<1>9. CASE Prepare(Page) /\ ~Throws(Page)
  <2>1. call[Page].at = "prepare" /\ call[Page].kind # "submitted"
    BY <1>9 DEF Prepare, AnswerIsKnown
  <2>2. CASE call[Page].kind = "arm"
    BY <1>0, <1>9, <2>1, <2>2, PageGoesOn DEF Prepare
  <2>3. CASE call[Page].kind # "arm"
    BY <1>0, <1>9, <2>1, <2>3, PageIsAnswered DEF Prepare
  <2>4. QED
    BY <2>2, <2>3
<1>10. CASE Arm(Page) /\ ~Throws(Page)
  <2>1. call[Page].at = "arm" /\ call[Page].kind = "arm" /\ Answer(Page, call[Page].seen)
    BY <1>0, <1>10 DEF Arm, Carried
  <2>2. QED
    BY <1>0, <2>1, PageIsAnswered
<1>11. QED
  BY <1>1, <1>2, <1>3, <1>4, <1>5, <1>6, <1>7, <1>8, <1>9, <1>10

\* What the page does of itself: its call is begun, and what it knows stays.
LEMMA PageCalls ==
  ASSUME Inv, PageKnows, Next, NEW kind \in {"review", "arm", "reconcile", "submitted"},
         NEW s \in Stages, NEW at \in Points \ {"idle", "answered"}, NEW seen \in Sights,
         Begin(Page, kind, s, at, seen),
         kind # "review" => HasReview, kind = "review" => s = 1, kind = "submitted" => at = "submit",
         UNCHANGED shown
  PROVE  ShownIsKnown' /\ AnswerIsKnown'
<1>1. call'[Page] = [kind |-> kind, at |-> at, goal |-> s, seen |-> seen]
  BY PageAssumption, BeginFields DEF Inv, Calls
<1>2. AnswerIsKnown'
  BY <1>1 DEF AnswerIsKnown, HasReview
<1>3. ShownIsKnown'
  BY DoneStays, KnownStays DEF PageKnows, ShownIsKnown, HasReview
<1>4. QED
  BY <1>2, <1>3

\* Every step of the page is a step of the calls, the wallet and the chains.
LEMMA PageSteps ==
  ASSUME Inv, PageKnows, [PageNext]_pageVars
  PROVE  [Next]_vars
<1>1. Page \in Tabs /\ todo.goal \in Stages
  BY PageAssumption DEF PageKnows, TodoIsArmed
<1>2. CASE UNCHANGED pageVars \/ WalletRefuses
  BY <1>2 DEF pageVars, WalletRefuses
<1>3. CASE Click
  BY <1>1, <1>3 DEF Click, ClickReview, ClickConfirm, ClickFinality, ClickDelivery, Next, BeginCall
<1>4. ASSUME Send(todo.goal, todo.place), todo.at = "send" PROVE Next
  <2>1. todo.place \in Nonces /\ todo.place = Len(sent[ChainOf[todo.goal]]) /\ Len(sent[ChainOf[todo.goal]]) < MaxNonce
    BY <1>4 DEF PageKnows, TodoIsArmed, Send, Take
  <2>2. todo.place \in Places
    BY <2>1, StagedAssumption DEF Nonces, Places
  <2>3. QED
    BY <1>1, <1>4, <2>2 DEF Next, ChainStep
<1>5. ASSUME BeginSubmitted(Page, todo.goal, todo.place), todo.at = "report" PROVE Next
  <2>1. todo.place \in Nonces /\ todo.place < Len(sent[ChainOf[todo.goal]])
    BY <1>5 DEF PageKnows, TodoIsArmed, BeginSubmitted
  <2>2. Len(sent[ChainOf[todo.goal]]) <= MaxNonce /\ Len(sent[ChainOf[todo.goal]]) \in Nat
    BY <1>1, Constants, SentEntries DEF Inv, Tables, ChainsType
  <2>3. todo.place \in Places
    BY <2>1, <2>2, StagedAssumption DEF Nonces, Places
  <2>4. QED
    BY <1>1, <1>5, <2>3 DEF Next, BeginCall
<1>6. CASE CheckOnce
  BY <1>1, <1>6 DEF CheckOnce, Next, BeginCall
<1>7. CASE PageReceive
  BY <1>1, <1>7 DEF PageReceive, Next, CallStep
<1>8. CASE Server
  BY <1>1, <1>8 DEF Server, Next, CallStep
<1>9. CASE World
  BY <1>9 DEF World, Next, ChainStep
<1>10. QED
  BY <1>2, <1>3, <1>4, <1>5, <1>6, <1>7, <1>8, <1>9 DEF PageNext, Browser, WalletSends, Report

\* A click asks for what the button offers.
LEMMA ClickKnows == ASSUME Inv, PageKnows, Next, Click PROVE PageKnows'
<1> USE Constants
<1>1. TodoIsArmed' /\ UNCHANGED <<shown, todo>>
  BY DEF PageKnows, TodoIsArmed, HasReview, Click, ClickReview, ClickConfirm, ClickFinality, ClickDelivery, Free
<1>2. /\ {"nonce", "receipt"} \subseteq Points \ {"idle", "answered"} /\ None \in Sights /\ 1 \in Stages
      /\ shown # None => HasReview
  BY StagedAssumption DEF Points, Sights, Stages, PageKnows, ShownIsKnown
<1>3. ASSUME BeginReview(Page) PROVE ShownIsKnown' /\ AnswerIsKnown'
  BY <1>1, <1>2, <1>3, PageCalls DEF BeginReview
<1>4. ASSUME NEW s \in Stages, BeginArm(Page, s), Active(s) PROVE ShownIsKnown' /\ AnswerIsKnown'
  BY <1>1, <1>2, <1>4, PageCalls DEF BeginArm, Active
<1>5. ASSUME NEW s \in Stages, BeginReconcile(Page, s), Active(s) PROVE ShownIsKnown' /\ AnswerIsKnown'
  BY <1>1, <1>2, <1>5, PageCalls DEF BeginReconcile, Active
<1>6. QED
  BY <1>1, <1>3, <1>4, <1>5 DEF PageKnows, Click, ClickReview, ClickConfirm, ClickFinality, ClickDelivery

\* An answer is shown, and says how confirming the stage goes on.
LEMMA ReceiveKnows == ASSUME Inv, PageKnows, PageReceive PROVE PageKnows'
<1> DEFINE c == call[Page]
<1>1. /\ c.at = "answered" /\ call'[Page] = Idle /\ c.goal \in Stages /\ Carried(Page)
      /\ UNCHANGED tables
  BY PageAssumption DEF PageReceive, Receive, Inv, CallsType
<1>2. AnswerIsKnown'
  BY <1>1 DEF AnswerIsKnown, Idle
<1>3. UNCHANGED <<stage, hash>> /\ 1 \in Stages /\ None \notin Nonces
  BY <1>1, StagedAssumption DEF tables, Stages
<1>4. CASE c.seen = None
  <2>1. shown' = shown /\ todo' = Nothing
    BY <1>4 DEF PageReceive
  <2>2. ShownIsKnown' /\ TodoIsArmed'
    BY <1>3, <2>1 DEF PageKnows, ShownIsKnown, TodoIsArmed, HasReview, Known, Nothing
  <2>3. QED
    BY <1>2, <2>2 DEF PageKnows
<1>5. CASE c.seen # None
  <2>1. shown' = Shows(c.kind, c.goal, c.seen) /\ todo' = Continues(c.kind, c.goal, c.seen)
    BY <1>5 DEF PageReceive
  <2>2. /\ c.kind \in {"review", "arm", "reconcile", "submitted"}
        /\ c.kind # "review" => HasReview
        /\ c.kind \in {"review", "reconcile"} => c.seen \in StageStates /\ Known(c.goal, c.seen)
        /\ c.kind = "review" => c.goal = 1
        /\ c.kind = "submitted" => hash[c.goal] # None
        /\ c.kind = "arm" => c.seen \in Nonces
    BY <1>1, <1>5 DEF PageKnows, AnswerIsKnown, Carried
  <2> HIDE DEF c
  <2>3. CASE c.kind = "review"
    <3>1. shown' = [r \in Stages |-> IF r = 1 THEN c.seen ELSE "pending"] /\ todo' = Nothing
      BY <2>1, <2>3 DEF Shows, Continues
    <3>2. HasReview' /\ \A s \in Stages : Known(s, shown'[s])
      BY <2>2, <2>3, <3>1 DEF HasReview, Known
    <3>3. ShownIsKnown' /\ TodoIsArmed'
      BY <1>3, <3>1, <3>2 DEF ShownIsKnown, TodoIsArmed, Nothing, Known
    <3>4. QED
      BY <1>2, <3>3 DEF PageKnows
  <2>4. CASE c.kind \in {"reconcile", "submitted"}
    <3>1. PICK value \in StageStates : /\ shown' = [shown EXCEPT ![c.goal] = value] /\ Known(c.goal, value)
                                       /\ todo' = Continues(c.kind, c.goal, c.seen)
      BY <2>1, <2>2, <2>4 DEF Shows, Known, StageStates
    <3>2. HasReview /\ \A s \in Stages : Known(s, shown[s])
      <4>1. HasReview /\ shown # None
        BY <2>2, <2>4, PageAssumption DEF HasReview
      <4>2. QED
        BY <4>1 DEF PageKnows, ShownIsKnown
    <3>3. HasReview'
      BY <1>1, <3>1, <3>2 DEF HasReview
    <3>4. ShownIsKnown'
      <4>1. \A s \in Stages : (shown'[s] = value /\ s = c.goal) \/ shown'[s] = shown[s]
        BY <3>1, <3>2 DEF HasReview
      <4>2. \A s \in Stages : Known(s, shown'[s])
        BY <3>1, <3>2, <4>1
      <4>3. \A s \in Stages : Known(s, shown[s])'
        BY <1>3, <4>2 DEF Known
      <4>4. QED
        BY <3>3, <4>3 DEF ShownIsKnown
    <3>5. TodoIsArmed'
      <4>1. todo' \in {Nothing, [at |-> "check", goal |-> c.goal, place |-> None]} /\ c.goal \in Stages
        BY <1>1, <2>4, <3>1 DEF Continues, c
      <4>2. QED
        BY <1>3, <3>3, <4>1 DEF TodoIsArmed, Nothing
    <3>6. QED
      BY <1>2, <3>4, <3>5 DEF PageKnows
  <2>5. CASE c.kind = "arm"
    <3>1. shown' = shown /\ todo' = [at |-> "send", goal |-> c.goal, place |-> c.seen]
      BY <2>1, <2>5 DEF Shows, Continues
    <3>2. ShownIsKnown' /\ HasReview'
      BY <1>3, <2>2, <2>5, <3>1 DEF PageKnows, ShownIsKnown, HasReview, Known
    <3>3. TodoIsArmed'
      BY <1>1, <2>2, <2>5, <3>1, <3>2 DEF TodoIsArmed, c
    <3>4. QED
      BY <1>2, <3>2, <3>3 DEF PageKnows
  <2>6. QED
    BY <2>2, <2>3, <2>4, <2>5
<1>6. QED
  BY <1>4, <1>5

\* Every step of the page keeps what it knows.
LEMMA PageKeeps == ASSUME Inv, Inv', PageKnows, [PageNext]_pageVars PROVE PageKnows'
<1> USE Constants
<1>1. [Next]_vars /\ Page \in Tabs
  BY PageSteps, PageAssumption
<1>2. DoneStay
  BY <1>1, DoneStays
<1>3. ASSUME UNCHANGED shown PROVE ShownIsKnown'
  BY <1>2, <1>3, KnownStays DEF PageKnows, ShownIsKnown, HasReview
<1>4. ASSUME UNCHANGED <<shown, todo>> PROVE TodoIsArmed'
  BY <1>4 DEF PageKnows, TodoIsArmed, HasReview
<1>5. ASSUME UNCHANGED <<tables, call, shown>> PROVE AnswerIsKnown'
  BY <1>5 DEF tables, PageKnows, AnswerIsKnown, Known, HasReview
<1>6. CASE UNCHANGED pageVars \/ World
  <2>1. UNCHANGED <<tables, call, shown, todo>>
    BY <1>6 DEF pageVars, vars, World, Arrives, SendOther, Mine, Reorganise, Deepen, Revoke
  <2>2. QED
    BY <1>3, <1>4, <1>5, <2>1 DEF PageKnows
<1>7. CASE Click
  <2>1. CASE Next
    BY <1>7, <2>1, ClickKnows
  <2>2. CASE UNCHANGED vars
    <3>1. UNCHANGED <<tables, call, shown, todo>>
      BY <1>7, <2>2 DEF vars, Click, ClickReview, ClickConfirm, ClickFinality, ClickDelivery, Free
    <3>2. QED
      BY <1>3, <1>4, <1>5, <3>1 DEF PageKnows
  <2>3. QED
    BY <1>1, <2>1, <2>2
<1>8. CASE WalletSends
  <2>1. UNCHANGED <<tables, call, shown>> /\ todo' = [todo EXCEPT !.at = "report"] /\ todo.at = "send"
    BY <1>8 DEF WalletSends, Send
  <2>2. TodoIsArmed'
    BY <2>1 DEF PageKnows, TodoIsArmed, HasReview
  <2>3. QED
    BY <1>3, <1>5, <2>1, <2>2 DEF PageKnows
<1>9. CASE WalletRefuses
  <2>1. UNCHANGED <<tables, call, shown>> /\ todo' = Nothing
    BY <1>9 DEF WalletRefuses, vars
  <2>2. TodoIsArmed'
    BY <2>1, StagedAssumption DEF TodoIsArmed, Nothing, Stages
  <2>3. QED
    BY <1>3, <1>5, <2>1, <2>2 DEF PageKnows
<1>10. ASSUME [Next]_vars, NEW kind \in {"submitted", "reconcile"}, NEW at \in {"submit", "receipt"},
              NEW seen \in Sights, Begin(Page, kind, todo.goal, at, seen), kind = "submitted" => at = "submit",
              todo.at # "none", UNCHANGED shown
       PROVE  ShownIsKnown' /\ AnswerIsKnown'
  <2>1. todo.goal \in Stages /\ HasReview /\ at \in Points \ {"idle", "answered"}
    BY <1>10 DEF PageKnows, TodoIsArmed, Points
  <2>2. call[Page].at = "idle" /\ call'[Page] = [kind |-> kind, at |-> at, goal |-> todo.goal, seen |-> seen]
    BY <1>1, <1>10, <2>1, BeginFields DEF Inv, Begin, Calls, CallsType
  <2>3. AnswerIsKnown'
    BY <1>10, <2>1, <2>2 DEF AnswerIsKnown, HasReview, Points
  <2>4. QED
    BY <1>3, <1>10, <2>3
<1>11. CASE Report
  <2>1. todo.place \in Sights
    BY <1>11 DEF Report, PageKnows, TodoIsArmed, Sights
  <2>2. QED
    BY <1>1, <1>4, <1>10, <1>11, <2>1 DEF Report, BeginSubmitted, PageKnows
<1>12. CASE CheckOnce
  <2>1. /\ Begin(Page, "reconcile", todo.goal, "receipt", None) /\ todo.at # "none"
        /\ todo' = Nothing /\ UNCHANGED shown /\ None \in Sights
    BY <1>12 DEF CheckOnce, BeginReconcile, Sights
  <2>2. ShownIsKnown' /\ AnswerIsKnown'
    BY <1>1, <1>10, <2>1
  <2>3. TodoIsArmed'
    BY <2>1, StagedAssumption DEF TodoIsArmed, Nothing, Stages
  <2>4. QED
    BY <2>2, <2>3 DEF PageKnows
<1>13. CASE PageReceive
  BY <1>13, ReceiveKnows
<1>14. CASE Server
  BY <1>3, <1>4, <1>14, ServerTells DEF Server, Inv, PageKnows
<1>15. QED
  BY <1>6, <1>7, <1>8, <1>9, <1>11, <1>12, <1>13, <1>14 DEF PageNext, Browser

\* The invariant of the tables, the calls and the page.
LEMMA PageAlways == PageSpec => [](Inv /\ PageKnows)
<1>1. PageSpec => PageInit /\ [][PageNext]_pageVars
  BY PTL DEF PageSpec
<1>2. PageInit => Inv /\ PageKnows
  BY PageBegins
<1>3. Inv /\ PageKnows /\ [PageNext]_pageVars => (Inv /\ PageKnows)'
  <2> SUFFICES ASSUME Inv, PageKnows, [PageNext]_pageVars PROVE (Inv /\ PageKnows)'
    OBVIOUS
  <2>1. Inv'
    BY PageSteps, StepInv
  <2>2. QED
    BY <2>1, PageKeeps
<1>4. QED
  BY <1>1, <1>2, <1>3, PTL

\* Whatever the owner clicks, the wallet refuses and the chains do, the page asks the
\* routes only for what any tab may ask: everything that holds of the routes holds of it.
THEOREM PageUsesTheRoutes == PageSpec => Spec
<1>1. PageSpec => PageInit /\ [][PageNext]_pageVars
  BY PTL DEF PageSpec
<1>2. PageInit => Init
  BY DEF PageInit
<1>3. Inv /\ PageKnows /\ [PageNext]_pageVars => [Next]_vars
  BY PageSteps
<1>4. QED
  BY <1>1, <1>2, <1>3, PageAlways, PTL DEF Spec

\* What the page calls final is final or frozen in the tables, and what it shows as
\* sent is stored, for any number of stages: an answer stays true on its way to the page
\* although others reconcile the same stages (general-asset program page, executeStage).
THEOREM PageShowsStored == PageSpec => []ShownIsStored
<1>1. PageKnows => ShownIsStored
  <2>1. SUFFICES ASSUME PageKnows, shown # None, NEW s \in Stages
                 PROVE  /\ Done(s) => stage[s] \in {shown[s], "reconciliation_required"}
                        /\ shown[s] \in {"submitted", "finalized"} => hash[s] # None
    BY DEF ShownIsStored
  <2>2. Known(s, shown[s])
    BY <2>1 DEF PageKnows, ShownIsKnown
  <2>3. QED
    BY <2>2 DEF Known, Done
<1>2. QED
  BY <1>1, PageAlways, PTL
=============================================================================

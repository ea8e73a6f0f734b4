------------------------- MODULE GuidedExecution_proofs -------------------------
(***************************************************************************)
(* Proofs, for any route, any number of tabs, any upsets and any length of *)
(* the chain, that guided execution confirms what landed, lands each step  *)
(* at most once, and never rewrites what is settled.                       *)
(***************************************************************************)
EXTENDS GuidedExecution, FiniteSetTheorems, SequenceTheorems, WellFoundedInduction, TLAPS

StepStates == {"absent", "prepared", "broadcasting", "submitted", "reconcile", "confirmed"}
AttemptStates == {"absent", "prepared", "active", "partial", "reconcile", "complete"}
Awaits == {"idle", "begin", "ensure", "prepare", "arm", "look", "scan", "bind", "inspect",
           "cancel", "mark", "settle", "confirm", "prompt", "sign", "report"}
Requested == {"none", "arm", "resolve", "recover", "cancel", "submitted"}
Rows == [state : StepStates, pre : Nat, seen : Nat \cup {-1}, nonce : Nat,
         hash : Hashes \cup {NoHash}]
Memory == [at : Awaits, do : Requested, o : Ordinals, row : Rows]
Entries == [hash : Hashes, block : Nat, ok : BOOLEAN]

GuidedTypeOK ==
  /\ attempt \in [state : AttemptStates, next : 0..RouteLength]
  /\ step \in [Ordinals -> Rows]
  /\ serve \in [Callers -> Memory]
  /\ height \in Nat /\ replaced \in Nat \cup {-1}
  /\ pool \subseteq [hash : Hashes, nonce : Nat] /\ IsFiniteSet(pool)
  /\ mined \in Seq(Entries)

\* A row has no hash before one is bound to it.
HashesAreBound ==
  \A o \in Ordinals : step[o].state \in {"absent", "prepared", "broadcasting"} => step[o].hash = NoHash

\* Every transaction of a step, pending or mined, has the nonce its row stores, and
\* the wallet's other transaction is in one place.
SignedAsStored ==
  /\ \A t \in pool : t.hash[1] \in Ordinals =>
       step[t.hash[1]].state # "absent" /\ step[t.hash[1]].nonce = t.nonce
  /\ \A n \in DOMAIN mined : mined[n].hash[1] \in Ordinals =>
       step[mined[n].hash[1]].state # "absent" /\ step[mined[n].hash[1]].nonce = n - 1
OthersOnce ==
  /\ \A t, u \in pool : t.hash[1] = RouteLength /\ u.hash[1] = RouteLength => t = u
  /\ \A n \in DOMAIN mined, t \in pool : mined[n].hash[1] # RouteLength \/ t.hash[1] # RouteLength
  /\ \A m, n \in DOMAIN mined : mined[m].hash[1] = RouteLength /\ mined[n].hash[1] = RouteLength => m = n

\* A transaction of step o succeeded in a block that is too old to be replaced.
Landed(o, h) ==
  \E n \in DOMAIN mined :
    /\ mined[n].hash = h /\ h[1] = o /\ mined[n].ok
    /\ mined[n].block < height /\ step[o].nonce = n - 1

\* What a caller remembers over an await.
Remembers(c) ==
  LET o == serve[c].o r == serve[c].row IN
  /\ At(c, "prepare") => r.state = "prepared" /\ r.hash = NoHash
  /\ At(c, "prompt") \/ At(c, "sign") => step[o].state # "absent" /\ r.nonce = step[o].nonce
  /\ At(c, "settle") => r.hash[1] = o
  /\ At(c, "confirm") => Landed(o, r.hash)

ConfirmedHaveLanded == \A o \in Ordinals : step[o].state = "confirmed" => Landed(o, step[o].hash)

GuidedInv ==
  /\ GuidedTypeOK
  /\ HashesAreBound
  /\ SignedAsStored
  /\ OthersOnce
  /\ \A c \in Callers : Remembers(c)
  /\ ConfirmedHaveLanded
  /\ RowsFollowTheRoute

-----------------------------------------------------------------------------
(* Nonces *)

\* Every set of natural numbers with a member has a least one: the intervals below
\* its members are finite sets, and the strict subset order on those is well-founded.
LEMMA LeastElement ==
  ASSUME NEW T, T \subseteq Nat, T # {}
  PROVE  \E x \in T : \A y \in T : x <= y
<1> DEFINE Below(x) == 0..(x - 1)
           All == {Below(x) : x \in T}
<1>1. \A x \in T : Below(x) \in FiniteSubsetsOf(Nat)
  <2> SUFFICES ASSUME NEW x \in T PROVE Below(x) \in FiniteSubsetsOf(Nat)
    OBVIOUS
  <2>1. IsFiniteSet(Below(x)) /\ Below(x) \subseteq Nat
    BY FS_Interval
  <2>2. QED
    BY <2>1 DEF FiniteSubsetsOf
<1>2. All \subseteq FiniteSubsetsOf(Nat) /\ All # {}
  BY <1>1
<1>3. IsWellFoundedOn(StrictSubsetOrdering(Nat), FiniteSubsetsOf(Nat))
  BY FS_StrictSubsetOrderingWellFounded
<1> HIDE DEF All
<1>4. PICK m \in All : \A b \in All : ~(<<b, m>> \in StrictSubsetOrdering(Nat))
  BY <1>2, <1>3, WFMin
<1>5. PICK x \in T : m = Below(x)
  BY <1>4 DEF All
<1>6. ASSUME NEW y \in T, y < x PROVE FALSE
  <2>1. Below(y) \subseteq Below(x) /\ Below(y) # Below(x) /\ y \in Below(x) /\ y \notin Below(y)
    BY <1>6
  <2>2. Below(y) \in All /\ Below(x) \subseteq Nat /\ Below(y) \subseteq Nat
    BY DEF All
  <2>3. <<Below(y), Below(x)>> \in StrictSubsetOrdering(Nat)
    BY <2>1, <2>2 DEF StrictSubsetOrdering
  <2>4. QED
    BY <2>2, <2>3, <1>4, <1>5
<1>7. QED
  BY <1>6

\* getPendingNonce: below as many nonces as there are transactions one is free, so
\* that the least free one exists.
LEMMA PendingNonceExists ==
  ASSUME GuidedTypeOK
  PROVE  PendingNonce \in Nat
<1> DEFINE K == Cardinality(pool)
           L == Len(mined)
           Free == {n \in 0..(L + K) : ~NonceUsed(n)}
<1>1. L \in Nat /\ K \in Nat
  BY FS_CardinalityType, LenProperties DEF GuidedTypeOK
<1> HIDE DEF K, L
<1>2. Free # {}
  <2>1. SUFFICES ASSUME Free = {} PROVE FALSE
    OBVIOUS
  <2>2. \A n \in L..(L + K) : \E t \in pool : t.nonce = n
    <3>1. \A n \in L..(L + K) : n \in 0..(L + K) /\ ~(n < L)
      BY <1>1
    <3>2. \A n \in L..(L + K) : NonceUsed(n)
      BY <2>1, <3>1
    <3>3. QED
      BY <3>1, <3>2 DEF NonceUsed, L
  <2> DEFINE f == [n \in L..(L + K) |-> CHOOSE t \in pool : t.nonce = n]
  <2>3. \A n \in L..(L + K) : f[n] \in pool /\ f[n].nonce = n
    BY <2>2
  <2>4. f \in [L..(L + K) -> pool]
    BY <2>3
  <2>5. IsFiniteSet(L..(L + K)) /\ Cardinality(L..(L + K)) = K + 1
    <3>1. L \in Int /\ L + K \in Int /\ ~(L > L + K) /\ (L + K) - L + 1 = K + 1
      BY <1>1
    <3>2. QED
      BY <3>1, FS_Interval
  <2>6. IsFiniteSet(pool) /\ K < Cardinality(L..(L + K))
    BY <1>1, <2>5 DEF GuidedTypeOK
  <2> HIDE DEF f
  <2>7. PICK m, n \in L..(L + K) : m # n /\ f[m] = f[n]
    BY <2>4, <2>5, <2>6, FS_PigeonHole DEF K
  <2>8. QED
    BY <2>3, <2>7
<1>3. PICK x \in Free : \A y \in Free : x <= y
  <2>1. Free \subseteq Nat
    BY <1>1
  <2>2. QED
    BY <1>2, <2>1, LeastElement
<1>4. x \in 0..(L + K) /\ ~NonceUsed(x) /\ \A m \in 0..(x - 1) : NonceUsed(m)
  <2>1. \A m \in 0..(x - 1) : m \in 0..(L + K) /\ ~(x <= m)
    BY <1>1
  <2>2. QED
    BY <1>3, <2>1
<1>5. \E n \in 0..(L + K) : ~NonceUsed(n) /\ \A m \in 0..(n - 1) : NonceUsed(m)
  BY <1>4
<1>6. PendingNonce \in 0..(L + K)
  BY <1>5 DEF PendingNonce, K, L
<1>7. QED
  BY <1>1, <1>6

\* The hash of a transaction says which step it is of.
LEMMA HashOfStep ==
  /\ \A h \in Hashes : h[1] \in Ordinals \/ (h[1] = RouteLength /\ h = <<RouteLength, "owner">>)
  /\ RouteLength \notin Ordinals /\ Ordinals \subseteq Nat /\ 0 \in Ordinals
  /\ \A o \in Ordinals, c \in Callers : <<o, c>> \in Hashes /\ <<o, c>>[1] = o
  /\ NoHash[1] \notin Ordinals /\ NoHash[1] # RouteLength /\ NoHash \notin Hashes
BY GuidedAssumption DEF Hashes, Ordinals, NoHash

\* The rows of a call at rest.
LEMMA RowsOK == Row \in Rows /\ Rest \in Memory
BY HashOfStep DEF Row, Rest, Rows, Memory, Awaits, Requested, StepStates

-----------------------------------------------------------------------------
(* The service, while the chain stays *)

\* Rows that keep their nonces keep the chain's transactions signed as stored, and
\* what has landed has landed.
LEMMA NoncesKept ==
  ASSUME GuidedInv, UNCHANGED chainVars,
         \A o \in Ordinals : step[o].state # "absent" =>
           step'[o].state # "absent" /\ step'[o].nonce = step[o].nonce
  PROVE  /\ SignedAsStored' /\ OthersOnce'
         /\ \A o \in Ordinals : \A h : Landed(o, h) => Landed(o, h)'
<1> USE DEF GuidedInv, chainVars
<1>1. SignedAsStored'
  BY DEF SignedAsStored
<1>2. OthersOnce'
  BY DEF OthersOnce
<1>3. ASSUME NEW o \in Ordinals, NEW h, Landed(o, h) PROVE Landed(o, h)'
  <2>1. PICK n \in DOMAIN mined : /\ mined[n].hash = h /\ h[1] = o /\ mined[n].ok
                                 /\ mined[n].block < height /\ step[o].nonce = n - 1
    BY <1>3 DEF Landed
  <2>2. step[o].state # "absent"
    BY <2>1 DEF SignedAsStored
  <2>3. QED
    BY <2>1, <2>2 DEF Landed
<1>4. QED
  BY <1>1, <1>2, <1>3

\* A step of caller c keeps the invariant if what it writes, and what c remembers
\* afterwards, is in order.
LEMMA CallerStep ==
  ASSUME GuidedInv, UNCHANGED chainVars, NEW c \in Callers,
         attempt' \in [state : AttemptStates, next : 0..RouteLength],
         step' \in [Ordinals -> Rows],
         serve' \in [Callers -> Memory],
         \A q \in Callers \ {c} : serve'[q] = serve[q],
         \A o \in Ordinals : step[o].state # "absent" =>
           step'[o].state # "absent" /\ step'[o].nonce = step[o].nonce,
         \A o \in Ordinals : step'[o].state = "confirmed" =>
           step'[o] = step[o] \/ Landed(o, step'[o].hash),
         HashesAreBound', RowsFollowTheRoute', Remembers(c)'
  PROVE  GuidedInv'
<1>1. SignedAsStored' /\ OthersOnce' /\ \A o \in Ordinals : \A h : Landed(o, h) => Landed(o, h)'
  BY NoncesKept
<1>2. GuidedTypeOK'
  BY DEF GuidedInv, GuidedTypeOK, chainVars
<1>3. ConfirmedHaveLanded'
  BY <1>1 DEF ConfirmedHaveLanded, GuidedInv
<1>4. ASSUME NEW q \in Callers, q # c PROVE Remembers(q)'
  <2>1. serve'[q] = serve[q] /\ Remembers(q) /\ serve[q].o \in Ordinals
    BY <1>4 DEF GuidedInv, GuidedTypeOK, Memory
  <2>2. QED
    BY <1>1, <2>1 DEF Remembers, At
<1>5. QED
  BY <1>1, <1>2, <1>3, <1>4 DEF GuidedInv

\* A caller that only moves on, to an await that remembers nothing.
LEMMA MovesOn ==
  ASSUME GuidedInv, UNCHANGED <<tableVars, chainVars>>, NEW c \in Callers,
         serve' \in [Callers -> Memory],
         \A q \in Callers \ {c} : serve'[q] = serve[q],
         Remembers(c)'
  PROVE  GuidedInv'
<1>1. attempt' = attempt /\ step' = step /\ UNCHANGED chainVars
  BY DEF tableVars
<1>2. HashesAreBound' /\ RowsFollowTheRoute'
  BY <1>1 DEF GuidedInv, HashesAreBound, RowsFollowTheRoute
<1>3. QED
  BY <1>1, <1>2, CallerStep DEF GuidedInv, GuidedTypeOK

\* Going to an await, answering, and what neither of them remembers.
LEMMA GoingOn ==
  ASSUME GuidedTypeOK, NEW c \in Callers,
         \/ Answers(c)
         \/ \E pc \in Awaits \ {"prepare", "prompt", "sign", "settle", "confirm"} : Goes(c, pc)
  PROVE  /\ serve' \in [Callers -> Memory]
         /\ \A q \in Callers \ {c} : serve'[q] = serve[q]
         /\ Remembers(c)'
<1>1. CASE Answers(c)
  BY <1>1, RowsOK DEF GuidedTypeOK, Answers, Remembers, At, Rest
<1>2. ASSUME NEW pc \in Awaits \ {"prepare", "prompt", "sign", "settle", "confirm"}, Goes(c, pc)
      PROVE  /\ serve' \in [Callers -> Memory]
             /\ \A q \in Callers \ {c} : serve'[q] = serve[q]
             /\ Remembers(c)'
  BY <1>2 DEF GuidedTypeOK, Goes, Remembers, At, Memory
<1>3. QED
  BY <1>1, <1>2

-----------------------------------------------------------------------------
(* The calls that read *)

\* The next step is captured from the chain, without a hash.
LEMMA CaptureKeeps ==
  ASSUME GuidedInv, NEW c \in Callers, Capture(c), UNCHANGED <<tableVars, chainVars>>
  PROVE  GuidedInv'
<1>1. CASE Answers(c)
  BY <1>1, GoingOn, MovesOn DEF GuidedInv
<1>2. CASE /\ attempt.next \in Ordinals
           /\ serve' = [serve EXCEPT ![c] =
                [Rest EXCEPT !.at = "prepare", !.o = attempt.next,
                      !.row = [state |-> "prepared", pre |-> height, seen |-> replaced,
                               nonce |-> PendingNonce, hash |-> NoHash]]]
  <2> DEFINE row == [state |-> "prepared", pre |-> height, seen |-> replaced,
                     nonce |-> PendingNonce, hash |-> NoHash]
  <2>1. row \in Rows
    BY PendingNonceExists DEF GuidedInv, GuidedTypeOK, Rows, StepStates
  <2>2. row.state = "prepared" /\ row.hash = NoHash
    OBVIOUS
  <2> HIDE DEF row
  <2>3. serve' \in [Callers -> Memory] /\ \A q \in Callers \ {c} : serve'[q] = serve[q]
    BY <1>2, <2>1 DEF row, GuidedInv, GuidedTypeOK, Memory, Rest, Awaits, Requested
  <2>4. serve'[c].at = "prepare" /\ serve'[c].row = row
    BY <1>2 DEF row, GuidedInv, GuidedTypeOK, Rest
  <2>5. Remembers(c)'
    BY <2>2, <2>4 DEF Remembers, At
  <2>6. QED
    BY <2>3, <2>5, MovesOn
<1>3. QED
  BY <1>1, <1>2 DEF Capture

\* start reads the attempt.
LEMMA StartKeeps ==
  ASSUME GuidedInv, NEW c \in Callers, Start(c) \/ EnsurePrepared(c)
  PROVE  GuidedInv'
<1>1. UNCHANGED <<tableVars, chainVars>>
  BY DEF Start, EnsurePrepared
<1>2. CASE Capture(c)
  BY <1>1, <1>2, CaptureKeeps
<1>3. CASE Goes(c, "begin")
  <2>1. "begin" \in Awaits \ {"prepare", "prompt", "sign", "settle", "confirm"}
    BY DEF Awaits
  <2>2. QED
    BY <1>1, <1>3, <2>1, GoingOn, MovesOn DEF GuidedInv
<1>4. QED
  BY <1>2, <1>3 DEF Start, EnsurePrepared

\* A call begins by reading the state of its step.
LEMMA CallsKeep ==
  ASSUME GuidedInv, NEW c \in Callers, NEW do \in Requested, NEW o \in Ordinals,
         NEW pc \in {"arm", "look", "scan"}, Calls(c, do, o, pc)
  PROVE  GuidedInv'
<1>1. serve' = [serve EXCEPT ![c] = [Rest EXCEPT !.at = pc, !.do = do, !.o = o]]
      /\ UNCHANGED <<tableVars, chainVars>>
  BY DEF Calls
<1>2. serve' \in [Callers -> Memory] /\ serve'[c].at = pc
      /\ \A q \in Callers \ {c} : serve'[q] = serve[q]
  BY <1>1, RowsOK DEF GuidedInv, GuidedTypeOK, Memory, Rest, Awaits
<1>3. Remembers(c)'
  BY <1>2 DEF Remembers, At
<1>4. QED
  BY <1>1, <1>2, <1>3, MovesOn

\* The first read of every action of advance.
LEMMA RequestsKeep ==
  ASSUME GuidedInv, NEW c \in Callers, NEW o \in Ordinals,
         \/ CallArm(c, o) \/ CallResolve(c, o)
         \/ \E do \in {"recover", "cancel"} : CallInspect(c, o, do)
  PROVE  GuidedInv'
<1>1. CASE CallArm(c, o)
  BY <1>1, CallsKeep DEF CallArm, Requested
<1>2. CASE CallResolve(c, o)
  BY <1>2, CallsKeep DEF CallResolve, Requested
<1>3. ASSUME NEW do \in {"recover", "cancel"}, CallInspect(c, o, do) PROVE GuidedInv'
  BY <1>3, CallsKeep DEF CallInspect, Requested
<1>4. QED
  BY <1>1, <1>2, <1>3

\* The search for a lost hash ends with one of the chain, which is bound next.
LEMMA ScanKeeps ==
  ASSUME GuidedInv, NEW c \in Callers, Scan(c)
  PROVE  GuidedInv'
<1>1. UNCHANGED <<tableVars, chainVars>>
  BY DEF Scan
<1>2. CASE Answers(c) \/ Goes(c, "inspect")
  <2>1. "inspect" \in Awaits \ {"prepare", "prompt", "sign", "settle", "confirm"}
    BY DEF Awaits
  <2>2. QED
    BY <1>1, <1>2, <2>1, GoingOn, MovesOn DEF GuidedInv
<1>3. ASSUME NEW n \in DOMAIN mined,
             serve' = [serve EXCEPT ![c].at = "bind", ![c].row.hash = mined[n].hash]
      PROVE  GuidedInv'
  <2>1. mined[n].hash \in Hashes
    <3>1. mined[n] \in Entries
      BY ElementOfSeq, LenProperties DEF GuidedInv, GuidedTypeOK
    <3>2. QED
      BY <3>1 DEF Entries
  <2>2. serve' \in [Callers -> Memory] /\ serve'[c].at = "bind"
        /\ \A q \in Callers \ {c} : serve'[q] = serve[q]
    <3> DEFINE row == [serve[c].row EXCEPT !.hash = mined[n].hash]
    <3>1. serve[c] \in Memory /\ serve[c].row \in Rows
      BY DEF GuidedInv, GuidedTypeOK, Memory
    <3>2. row \in Rows
      BY <2>1, <3>1 DEF Rows
    <3>3. [serve[c] EXCEPT !.at = "bind", !.row = row] \in Memory
      BY <3>1, <3>2 DEF Memory, Awaits
    <3>4. serve' = [serve EXCEPT ![c] = [serve[c] EXCEPT !.at = "bind", !.row = row]]
      BY <1>3, <3>1 DEF Memory, GuidedInv, GuidedTypeOK
    <3>5. QED
      BY <3>1, <3>3, <3>4 DEF GuidedInv, GuidedTypeOK, Memory
  <2>3. Remembers(c)'
    BY <2>2 DEF Remembers, At
  <2>4. QED
    BY <1>1, <2>2, <2>3, MovesOn
<1>4. QED
  BY <1>2, <1>3 DEF Scan

\* The calls that look at the chain or the row and only go on.
LEMMA ReadsKeep ==
  ASSUME GuidedInv, NEW c \in Callers, Inspect(c) \/ RpcFails(c) \/ ReportHash(c) \/ Gone(c)
  PROVE  GuidedInv'
<1>1. UNCHANGED <<tableVars, chainVars>>
  BY DEF Inspect, RpcFails, ReportHash, Gone
<1>2. {"mark", "cancel", "look", "bind"} \subseteq Awaits \ {"prepare", "prompt", "sign", "settle", "confirm"}
  BY DEF Awaits
<1>3. Answers(c) \/ \E pc \in {"mark", "cancel", "look", "bind"} : Goes(c, pc)
  BY DEF Inspect, RpcFails, ReportHash, Gone
<1>4. QED
  BY <1>1, <1>2, <1>3, GoingOn, MovesOn DEF GuidedInv

\* A mined transaction has an entry of its own.
LEMMA EntryOfMined ==
  ASSUME GuidedTypeOK, NEW h, Mined(h)
  PROVE  /\ Entry(h) \in DOMAIN mined /\ mined[Entry(h)].hash = h
         /\ mined[Entry(h)] \in Entries /\ h \in Hashes
<1>1. Entry(h) \in DOMAIN mined /\ mined[Entry(h)].hash = h
  BY DEF Mined, Entry
<1>2. mined[Entry(h)] \in Entries
  BY <1>1, ElementOfSeq, LenProperties DEF GuidedTypeOK
<1>3. QED
  BY <1>1, <1>2 DEF Entries

\* A submitted step's transaction is taken for settling when it is the step's own;
\* an armed step's row goes to the wallet that armed it.
LEMMA LookKeeps ==
  ASSUME GuidedInv, NEW c \in Callers, Look(c)
  PROVE  GuidedInv'
<1> DEFINE o == Goal(c)
           h == step[o].hash
<1>1. UNCHANGED <<tableVars, chainVars>> /\ serve[c] \in Memory /\ o \in Ordinals /\ step[o] \in Rows
  BY DEF Look, Goal, GuidedInv, GuidedTypeOK, Memory
<1>2. CASE Answers(c) \/ Goes(c, "mark")
  <2>1. "mark" \in Awaits \ {"prepare", "prompt", "sign", "settle", "confirm"}
    BY DEF Awaits
  <2>2. QED
    BY <1>1, <1>2, <2>1, GoingOn, MovesOn DEF GuidedInv
<1>3. CASE /\ Mined(h) /\ Attributed(o, h)
           /\ serve' = [serve EXCEPT ![c].at = "settle", ![c].row =
                [Row EXCEPT !.hash = h, !.pre = mined[Entry(h)].block, !.seen = replaced]]
  <2> DEFINE row == [Row EXCEPT !.hash = h, !.pre = mined[Entry(h)].block, !.seen = replaced]
  <2>1. row \in Rows /\ row.hash = h
    <3>1. mined[Entry(h)].block \in Nat /\ h \in Hashes
      BY <1>3, EntryOfMined DEF GuidedInv, Entries
    <3>2. QED
      BY <3>1, RowsOK DEF Rows, Row, GuidedInv, GuidedTypeOK
  <2>2. h[1] = o
    BY <1>3 DEF Attributed
  <2> HIDE DEF row, h
  <2>3. serve' = [serve EXCEPT ![c] = [serve[c] EXCEPT !.at = "settle", !.row = row]]
    BY <1>1, <1>3 DEF row, h, Memory, GuidedInv, GuidedTypeOK
  <2>4. [serve[c] EXCEPT !.at = "settle", !.row = row] \in Memory
    BY <1>1, <2>1 DEF Memory, Awaits
  <2>5. /\ serve' \in [Callers -> Memory] /\ \A q \in Callers \ {c} : serve'[q] = serve[q]
        /\ serve'[c].at = "settle" /\ serve'[c].row = row /\ serve'[c].o = o
    BY <1>1, <2>3, <2>4 DEF GuidedInv, GuidedTypeOK, Memory, Goal
  <2>6. Remembers(c)'
    BY <2>1, <2>2, <2>5 DEF Remembers, At
  <2>7. QED
    BY <1>1, <2>5, <2>6, MovesOn
<1>4. CASE step[o].state = "broadcasting" /\ serve' = [serve EXCEPT ![c].at = "prompt", ![c].row = step[o]]
  <2>1. serve' = [serve EXCEPT ![c] = [serve[c] EXCEPT !.at = "prompt", !.row = step[o]]]
    BY <1>1, <1>4 DEF Memory, GuidedInv, GuidedTypeOK
  <2>2. [serve[c] EXCEPT !.at = "prompt", !.row = step[o]] \in Memory
    BY <1>1 DEF Memory, Awaits
  <2>3. /\ serve' \in [Callers -> Memory] /\ \A q \in Callers \ {c} : serve'[q] = serve[q]
        /\ serve'[c].at = "prompt" /\ serve'[c].row = step[o] /\ serve'[c].o = o
    BY <1>1, <2>1, <2>2 DEF GuidedInv, GuidedTypeOK, Memory, Goal
  <2>4. step' = step
    BY <1>1 DEF tableVars
  <2>5. Remembers(c)'
    BY <1>4, <2>3, <2>4 DEF Remembers, At
  <2>6. QED
    BY <1>1, <2>3, <2>5, MovesOn
<1>5. QED
  BY <1>2, <1>3, <1>4 DEF Look

\* What settles is a transaction of the step that succeeded and is no longer in the
\* newest block.
LEMMA SettleKeeps ==
  ASSUME GuidedInv, NEW c \in Callers, Settle(c)
  PROVE  GuidedInv'
<1> DEFINE o == Goal(c)
           r == serve[c].row
<1>1. UNCHANGED <<tableVars, chainVars>> /\ serve[c] \in Memory /\ o \in Ordinals /\ r \in Rows
  BY DEF Settle, Goal, GuidedInv, GuidedTypeOK, Memory
<1>2. CASE Answers(c) \/ Goes(c, "mark")
  <2>1. "mark" \in Awaits \ {"prepare", "prompt", "sign", "settle", "confirm"}
    BY DEF Awaits
  <2>2. QED
    BY <1>1, <1>2, <2>1, GoingOn, MovesOn DEF GuidedInv
<1>3. CASE /\ ~(height < r.pre + 1) /\ Holds(o, r.hash, r.pre, r.seen)
           /\ serve' = [serve EXCEPT ![c].at = "confirm", ![c].row = [Row EXCEPT !.hash = r.hash]]
  <2> DEFINE row == [Row EXCEPT !.hash = r.hash]
             n == Entry(r.hash)
  <2>1. n \in DOMAIN mined /\ mined[n].hash = r.hash /\ mined[n].ok /\ mined[n].block = r.pre
        /\ r.hash \in Hashes
    BY <1>3, EntryOfMined DEF GuidedInv, Holds
  <2>2. r.hash[1] = o
    BY DEF Settle, GuidedInv, Remembers, Goal
  <2>3. mined[n].block < height
    BY <1>1, <1>3, <2>1 DEF Rows, GuidedInv, GuidedTypeOK
  <2>4. step[o].nonce = n - 1
    BY <1>1, <2>1, <2>2 DEF GuidedInv, SignedAsStored
  <2>5. Landed(o, r.hash)
    BY <2>1, <2>2, <2>3, <2>4 DEF Landed
  <2>6. row \in Rows /\ row.hash = r.hash
    BY <2>1, RowsOK DEF Rows, Row
  <2> HIDE DEF row
  <2>7. serve' = [serve EXCEPT ![c] = [serve[c] EXCEPT !.at = "confirm", !.row = row]]
    BY <1>1, <1>3 DEF row, Memory, GuidedInv, GuidedTypeOK
  <2>8. [serve[c] EXCEPT !.at = "confirm", !.row = row] \in Memory
    BY <1>1, <2>6 DEF Memory, Awaits
  <2>9. /\ serve' \in [Callers -> Memory] /\ \A q \in Callers \ {c} : serve'[q] = serve[q]
        /\ serve'[c].at = "confirm" /\ serve'[c].row = row /\ serve'[c].o = o
    BY <1>1, <2>7, <2>8 DEF GuidedInv, GuidedTypeOK, Memory, Goal
  <2>10. \A x \in Ordinals : \A h : Landed(x, h) => Landed(x, h)'
    BY <1>1, NoncesKept DEF tableVars
  <2>11. Remembers(c)'
    BY <1>1, <2>5, <2>6, <2>9, <2>10 DEF Remembers, At
  <2>12. QED
    BY <1>1, <2>9, <2>11, MovesOn
<1>4. QED
  BY <1>2, <1>3 DEF Settle

\* A caller may report any transaction of the wallet.
LEMMA ReportAnotherKeeps ==
  ASSUME GuidedInv, NEW c \in Callers, NEW o \in Ordinals, NEW h \in Hashes, ReportAnother(c, o, h)
  PROVE  GuidedInv'
<1>1. UNCHANGED <<tableVars, chainVars>>
  BY DEF ReportAnother
<1>2. [Row EXCEPT !.hash = h] \in Rows
  BY RowsOK DEF Rows, Row
<1>3. /\ serve' \in [Callers -> Memory] /\ \A q \in Callers \ {c} : serve'[q] = serve[q]
      /\ serve'[c].at = "bind"
  BY <1>2 DEF ReportAnother, GuidedInv, GuidedTypeOK, Memory, Awaits, Requested
<1>4. Remembers(c)'
  BY <1>3 DEF Remembers, At
<1>5. QED
  BY <1>1, <1>3, <1>4, MovesOn

-----------------------------------------------------------------------------
(* The calls that write the tables *)

\* A write of one row, in one state of the attempt.
LEMMA TableStep ==
  ASSUME GuidedInv, UNCHANGED chainVars, NEW c \in Callers, NEW o \in Ordinals, NEW row \in Rows,
         attempt' \in [state : AttemptStates, next : 0..RouteLength],
         step' = [step EXCEPT ![o] = row],
         Answers(c) \/ \E pc \in Awaits \ {"prepare", "prompt", "sign", "settle", "confirm"} : Goes(c, pc),
         step[o].state # "absent" => row.state # "absent" /\ row.nonce = step[o].nonce,
         row.state = "confirmed" => Landed(o, row.hash),
         row.state \in {"absent", "prepared", "broadcasting"} => row.hash = NoHash,
         RowsFollowTheRoute'
  PROVE  GuidedInv'
<1>1. /\ step' \in [Ordinals -> Rows] /\ step'[o] = row
      /\ \A p \in Ordinals \ {o} : step'[p] = step[p]
  BY DEF GuidedInv, GuidedTypeOK
<1>2. HashesAreBound'
  BY <1>1 DEF HashesAreBound, GuidedInv
<1>3. /\ serve' \in [Callers -> Memory] /\ Remembers(c)'
      /\ \A q \in Callers \ {c} : serve'[q] = serve[q]
  BY GoingOn DEF GuidedInv
<1>4. \A p \in Ordinals : step[p].state # "absent" =>
        step'[p].state # "absent" /\ step'[p].nonce = step[p].nonce
  BY <1>1
<1>5. \A p \in Ordinals : step'[p].state = "confirmed" => step'[p] = step[p] \/ Landed(p, step'[p].hash)
  BY <1>1
<1>6. QED
  BY <1>1, <1>2, <1>3, <1>4, <1>5, CallerStep

\* The attempt of the route is begun, once.
LEMMA BeginAttemptKeeps ==
  ASSUME GuidedInv, NEW c \in Callers, BeginAttempt(c)
  PROVE  GuidedInv'
<1>1. step' = step /\ UNCHANGED chainVars
  BY DEF BeginAttempt
<1>2. attempt' = [attempt EXCEPT !.state = IF attempt.state = "absent" THEN "prepared" ELSE attempt.state]
  BY DEF BeginAttempt, GuidedInv, GuidedTypeOK
<1>3. attempt' \in [state : AttemptStates, next : 0..RouteLength]
  BY <1>2 DEF GuidedInv, GuidedTypeOK, AttemptStates
<1>4. RowsFollowTheRoute' /\ HashesAreBound'
  BY <1>1, <1>2 DEF RowsFollowTheRoute, HashesAreBound, GuidedInv, GuidedTypeOK
<1>5. "ensure" \in Awaits \ {"prepare", "prompt", "sign", "settle", "confirm"}
  BY DEF Awaits
<1>6. /\ serve' \in [Callers -> Memory] /\ Remembers(c)'
      /\ \A q \in Callers \ {c} : serve'[q] = serve[q]
  BY <1>5, GoingOn DEF BeginAttempt, GuidedInv
<1>7. QED
  BY <1>1, <1>3, <1>4, <1>6, CallerStep DEF GuidedInv, GuidedTypeOK

\* A step is stored as the next of the route, and only where none was.
LEMMA PrepareStepKeeps ==
  ASSUME GuidedInv, NEW c \in Callers, PrepareStep(c)
  PROVE  GuidedInv'
<1> DEFINE o == Goal(c)
           row == serve[c].row
<1>1. /\ UNCHANGED chainVars /\ Answers(c) /\ o \in Ordinals /\ row \in Rows
      /\ row.state = "prepared" /\ row.hash = NoHash
  BY DEF PrepareStep, Goal, GuidedInv, GuidedTypeOK, Memory, Remembers
<1>2. CASE CanStore(o) /\ step' = [step EXCEPT ![o] = row] /\ attempt' = [attempt EXCEPT !.state = "active"]
  <2>1. attempt' \in [state : AttemptStates, next : 0..RouteLength] /\ attempt'.next = attempt.next
        /\ attempt'.state = "active" /\ attempt.next \in 0..RouteLength
    BY <1>2 DEF GuidedInv, GuidedTypeOK, AttemptStates
  <2>2. /\ step'[o].state = "prepared"
        /\ \A p \in Ordinals \ {o} : step'[p] = step[p]
    BY <1>1, <1>2 DEF GuidedInv, GuidedTypeOK
  <2>3. /\ step[o].state = "absent" /\ o = attempt.next
        /\ attempt.state \notin {"reconcile", "complete"}
        /\ \A p \in Ordinals : step[p].state # "reconcile"
    BY <1>2 DEF CanStore
  <2> HIDE DEF row, o
  <2>4. RowsFollowTheRoute'
    <3>1. \A p \in Ordinals : /\ p < attempt'.next <=> step'[p].state = "confirmed"
                              /\ p > attempt'.next => step'[p].state = "absent"
      BY <1>1, <2>1, <2>2, <2>3, HashOfStep DEF RowsFollowTheRoute, GuidedInv
    <3>2. attempt'.next # RouteLength
      BY <1>1, <2>1, <2>3, HashOfStep
    <3>3. \A p \in Ordinals : step'[p].state # "reconcile"
      BY <2>2, <2>3
    <3>4. QED
      BY <2>1, <3>1, <3>2, <3>3 DEF RowsFollowTheRoute
  <2>5. QED
    BY <1>1, <1>2, <2>1, <2>3, <2>4, TableStep
<1>3. CASE UNCHANGED tableVars
  BY <1>1, <1>3, GoingOn, MovesOn DEF GuidedInv
<1>4. QED
  BY <1>1, <1>2, <1>3 DEF PrepareStep

\* An open step that stays open leaves the order of the route alone.
LEMMA OpenStaysOpen ==
  ASSUME GuidedInv, UNCHANGED <<attempt, chainVars>>, NEW c \in Callers, NEW o \in Ordinals, NEW row \in Rows,
         step' = [step EXCEPT ![o] = row],
         Answers(c) \/ \E pc \in Awaits \ {"prepare", "prompt", "sign", "settle", "confirm"} : Goes(c, pc),
         step[o].state \in {"prepared", "broadcasting"},
         row.state \in {"prepared", "broadcasting", "submitted"},
         row.nonce = step[o].nonce,
         row.state # "submitted" => row.hash = NoHash
  PROVE  GuidedInv'
<1>1. attempt' = attempt /\ UNCHANGED chainVars
  OBVIOUS
<1>2. step'[o] = row /\ \A p \in Ordinals \ {o} : step'[p] = step[p]
  BY DEF GuidedInv, GuidedTypeOK
<1>3. RowsFollowTheRoute'
  BY <1>1, <1>2 DEF RowsFollowTheRoute, GuidedInv
<1>4. QED
  BY <1>1, <1>3, TableStep DEF GuidedInv, GuidedTypeOK

\* Arming and cancelling move a step between two states that have no hash.
LEMMA ArmingKeeps ==
  ASSUME GuidedInv, NEW c \in Callers, ArmStep(c) \/ CancelStep(c)
  PROVE  GuidedInv'
<1> DEFINE o == Goal(c)
<1>1. o \in Ordinals /\ step[o] \in Rows /\ UNCHANGED <<attempt, chainVars>>
  BY DEF ArmStep, CancelStep, Goal, GuidedInv, GuidedTypeOK, Memory
<1>2. "look" \in Awaits \ {"prepare", "prompt", "sign", "settle", "confirm"}
  BY DEF Awaits
<1>3. CASE /\ step[o].state \in {"prepared", "broadcasting"} /\ Goes(c, "look")
           /\ \E to \in {"prepared", "broadcasting"} : SetStep(o, to)
  <2>1. PICK to \in {"prepared", "broadcasting"} : SetStep(o, to)
    BY <1>3
  <2>2. step' = [step EXCEPT ![o] = [step[o] EXCEPT !.state = to]]
    BY <1>1, <2>1 DEF SetStep, GuidedInv, GuidedTypeOK, Rows
  <2>3. /\ [step[o] EXCEPT !.state = to] \in Rows
        /\ [step[o] EXCEPT !.state = to].nonce = step[o].nonce
        /\ [step[o] EXCEPT !.state = to].state = to
        /\ [step[o] EXCEPT !.state = to].hash = NoHash
    BY <1>1, <1>3 DEF Rows, StepStates, GuidedInv, HashesAreBound
  <2>4. QED
    BY <1>1, <1>2, <1>3, <2>2, <2>3, OpenStaysOpen
<1>4. CASE Answers(c) /\ UNCHANGED step
  BY <1>1, <1>4, GoingOn, MovesOn DEF GuidedInv, tableVars
<1>5. QED
  BY <1>3, <1>4 DEF ArmStep, CancelStep

\* A hash is bound to an armed step.
LEMMA BindHashKeeps ==
  ASSUME GuidedInv, NEW c \in Callers, BindHash(c)
  PROVE  GuidedInv'
<1> DEFINE o == Goal(c)
           h == serve[c].row.hash
<1>1. o \in Ordinals /\ step[o] \in Rows /\ h \in Hashes \cup {NoHash} /\ UNCHANGED <<attempt, chainVars>>
  BY DEF BindHash, Goal, GuidedInv, GuidedTypeOK, Memory, Rows
<1>2. "look" \in Awaits \ {"prepare", "prompt", "sign", "settle", "confirm"}
  BY DEF Awaits
<1>3. CASE /\ CanBind(o, h) /\ Goes(c, "look")
           /\ step' = [step EXCEPT ![o].state = "submitted", ![o].hash = h]
  <2> DEFINE row == [step[o] EXCEPT !.state = "submitted", !.hash = h]
  <2>1. step' = [step EXCEPT ![o] = row]
    BY <1>1, <1>3 DEF GuidedInv, GuidedTypeOK, Rows
  <2>2. row \in Rows /\ row.nonce = step[o].nonce /\ row.state = "submitted"
    BY <1>1 DEF Rows, StepStates
  <2>3. step[o].state = "broadcasting"
    BY <1>3 DEF CanBind
  <2> HIDE DEF row, o
  <2>4. QED
    BY <1>1, <1>2, <1>3, <2>1, <2>2, <2>3, OpenStaysOpen
<1>4. CASE UNCHANGED step /\ (Goes(c, "look") \/ Answers(c))
  BY <1>1, <1>2, <1>4, GoingOn, MovesOn DEF GuidedInv, tableVars
<1>5. QED
  BY <1>3, <1>4 DEF BindHash

\* An armed or submitted step is frozen together with its attempt.
LEMMA MarkReconcileKeeps ==
  ASSUME GuidedInv, NEW c \in Callers, MarkReconcile(c)
  PROVE  GuidedInv'
<1> DEFINE o == Goal(c)
           row == [step[o] EXCEPT !.state = "reconcile"]
<1>1. o \in Ordinals /\ step[o] \in Rows /\ UNCHANGED chainVars /\ Answers(c)
  BY DEF MarkReconcile, Goal, GuidedInv, GuidedTypeOK, Memory
<1>2. CASE /\ step[o].state \in {"broadcasting", "submitted"} /\ SetStep(o, "reconcile")
           /\ attempt' = [attempt EXCEPT !.state = "reconcile"]
  <2>1. step' = [step EXCEPT ![o] = row]
    BY <1>1, <1>2 DEF SetStep, GuidedInv, GuidedTypeOK, Rows
  <2>2. row \in Rows /\ row.state = "reconcile" /\ row.nonce = step[o].nonce
    BY <1>1 DEF Rows, StepStates
  <2>3. attempt' \in [state : AttemptStates, next : 0..RouteLength] /\ attempt'.next = attempt.next
        /\ attempt'.state = "reconcile" /\ attempt.next \in 0..RouteLength
    BY <1>2 DEF GuidedInv, GuidedTypeOK, AttemptStates
  <2> HIDE DEF row, o
  <2>4. step'[o] = row /\ \A p \in Ordinals \ {o} : step'[p] = step[p]
    BY <1>1, <2>1 DEF GuidedInv, GuidedTypeOK
  <2>5. RowsFollowTheRoute'
    <3>1. \A p \in Ordinals : /\ p < attempt'.next <=> step'[p].state = "confirmed"
                              /\ p > attempt'.next => step'[p].state = "absent"
      BY <1>1, <1>2, <2>2, <2>3, <2>4 DEF RowsFollowTheRoute, GuidedInv
    <3>2. ~(o < attempt.next)
      BY <1>1, <1>2 DEF RowsFollowTheRoute, GuidedInv
    <3>3. attempt'.next # RouteLength
      BY <1>1, <2>3, <3>2, GuidedAssumption DEF Ordinals
    <3>4. QED
      BY <1>1, <2>2, <2>3, <2>4, <3>1, <3>3 DEF RowsFollowTheRoute
  <2>6. QED
    BY <1>1, <1>2, <2>1, <2>2, <2>3, <2>5, TableStep
<1>3. CASE UNCHANGED tableVars
  BY <1>1, <1>3, GoingOn, MovesOn DEF GuidedInv
<1>4. QED
  BY <1>2, <1>3 DEF MarkReconcile

\* What is confirmed has landed, as the caller found it before its await.
LEMMA ConfirmStepKeeps ==
  ASSUME GuidedInv, NEW c \in Callers, ConfirmStep(c)
  PROVE  GuidedInv'
<1> DEFINE o == Goal(c)
           row == [step[o] EXCEPT !.state = "confirmed"]
<1>1. /\ o \in Ordinals /\ step[o] \in Rows /\ UNCHANGED chainVars
      /\ Landed(o, serve[c].row.hash)
  BY DEF ConfirmStep, Goal, GuidedInv, GuidedTypeOK, Memory, Remembers
<1>2. Answers(c) \/ \E pc \in Awaits \ {"prepare", "prompt", "sign", "settle", "confirm"} : Goes(c, pc)
  <2>1. "ensure" \in Awaits \ {"prepare", "prompt", "sign", "settle", "confirm"}
    BY DEF Awaits
  <2>2. QED
    BY <2>1 DEF ConfirmStep
<1>3. CASE /\ CanConfirm(o, serve[c].row.hash) /\ SetStep(o, "confirmed")
           /\ attempt' = [state |-> IF o = RouteLength - 1 THEN "complete" ELSE "partial", next |-> o + 1]
  <2>1. step' = [step EXCEPT ![o] = row]
    BY <1>1, <1>3 DEF SetStep, GuidedInv, GuidedTypeOK, Rows
  <2>2. row \in Rows /\ row.state = "confirmed" /\ row.nonce = step[o].nonce /\ row.hash = step[o].hash
    BY <1>1 DEF Rows, StepStates
  <2>3. Landed(o, row.hash) /\ step[o].state = "submitted"
    BY <1>1, <1>3, <2>2 DEF CanConfirm
  <2>4. /\ attempt'.next = o + 1
        /\ attempt'.state = IF o = RouteLength - 1 THEN "complete" ELSE "partial"
        /\ attempt' \in [state : AttemptStates, next : 0..RouteLength]
    BY <1>1, <1>3, GuidedAssumption DEF Ordinals, AttemptStates
  <2> HIDE DEF row, o
  <2>5. step'[o] = row /\ \A p \in Ordinals \ {o} : step'[p] = step[p]
    BY <1>1, <2>1 DEF GuidedInv, GuidedTypeOK
  <2>6. RowsFollowTheRoute'
    <3>1. attempt.next = o
      BY <1>1, <2>3, GuidedAssumption DEF RowsFollowTheRoute, GuidedInv, GuidedTypeOK, Ordinals
    <3>2. \A p \in Ordinals : /\ p < o + 1 <=> step'[p].state = "confirmed"
                              /\ p > o + 1 => step'[p].state = "absent"
      BY <1>1, <2>2, <2>5, <3>1, GuidedAssumption DEF RowsFollowTheRoute, GuidedInv, Ordinals
    <3>3. \A p \in Ordinals : step'[p].state # "reconcile"
      <4>1. \A p \in Ordinals : p > o => step[p].state = "absent"
        BY <3>1 DEF RowsFollowTheRoute, GuidedInv
      <4>2. \A p \in Ordinals : p < o => step[p].state = "confirmed"
        BY <3>1 DEF RowsFollowTheRoute, GuidedInv
      <4>3. QED
        BY <1>1, <2>2, <2>5, <4>1, <4>2 DEF Ordinals
    <3>4. o = RouteLength - 1 <=> o + 1 = RouteLength
      BY <1>1, GuidedAssumption DEF Ordinals
    <3>5. QED
      BY <2>4, <3>2, <3>3, <3>4 DEF RowsFollowTheRoute
  <2>7. QED
    BY <1>1, <1>2, <2>1, <2>2, <2>3, <2>4, <2>6, TableStep
<1>4. CASE UNCHANGED tableVars
  BY <1>1, <1>2, <1>4, GoingOn, MovesOn DEF GuidedInv
<1>5. QED
  BY <1>3, <1>4 DEF ConfirmStep

-----------------------------------------------------------------------------
(* The wallet and the chain *)

\* A step of the chain keeps the invariant if the wallet's transactions stay signed
\* as stored and what is old enough stays.
LEMMA ChainStep ==
  ASSUME GuidedInv, UNCHANGED <<tableVars, serve>>,
         height' \in Nat, replaced' \in Nat \cup {-1},
         pool' \subseteq [hash : Hashes, nonce : Nat], IsFiniteSet(pool'), mined' \in Seq(Entries),
         SignedAsStored', OthersOnce',
         \A n \in DOMAIN mined : mined[n].block < height =>
           n \in DOMAIN mined' /\ mined'[n] = mined[n] /\ mined[n].block < height'
  PROVE  GuidedInv'
<1>1. attempt' = attempt /\ step' = step /\ serve' = serve
  BY DEF tableVars
<1>2. GuidedTypeOK' /\ HashesAreBound' /\ RowsFollowTheRoute'
  BY <1>1 DEF GuidedInv, GuidedTypeOK, HashesAreBound, RowsFollowTheRoute
<1>3. \A o \in Ordinals : \A h : Landed(o, h) => Landed(o, h)'
  BY <1>1 DEF Landed
<1>4. ConfirmedHaveLanded'
  BY <1>1, <1>3 DEF ConfirmedHaveLanded, GuidedInv
<1>5. \A c \in Callers : Remembers(c)'
  <2> SUFFICES ASSUME NEW c \in Callers PROVE Remembers(c)'
    OBVIOUS
  <2>1. Remembers(c) /\ serve[c].o \in Ordinals
    BY DEF GuidedInv, GuidedTypeOK, Memory
  <2>2. QED
    BY <1>1, <1>3, <2>1 DEF Remembers, At
<1>6. QED
  BY <1>2, <1>4, <1>5 DEF GuidedInv

\* The wallet is asked to sign the row that was checked.
LEMMA CheckPromptKeeps ==
  ASSUME GuidedInv, NEW c \in Callers, CheckPrompt(c)
  PROVE  GuidedInv'
<1>1. UNCHANGED <<tableVars, fresh, chainVars>>
  BY DEF CheckPrompt
<1>2. CASE Answers(c)
  BY <1>1, <1>2, GoingOn, MovesOn DEF GuidedInv
<1>3. CASE Goes(c, "sign")
  <2>1. /\ serve' \in [Callers -> Memory] /\ \A q \in Callers \ {c} : serve'[q] = serve[q]
        /\ serve'[c].at = "sign" /\ serve'[c].row = serve[c].row /\ serve'[c].o = serve[c].o
    BY <1>3 DEF Goes, GuidedInv, GuidedTypeOK, Memory, Awaits
  <2>2. Remembers(c)'
    BY <1>1, <2>1 DEF CheckPrompt, GuidedInv, Remembers, At, tableVars
  <2>3. QED
    BY <1>1, <2>1, <2>2, MovesOn DEF GuidedInv
<1>4. QED
  BY <1>2, <1>3 DEF CheckPrompt

\* The wallet signs with the nonce the row stores, whichever tab asks it.
LEMMA WalletSignsKeeps ==
  ASSUME GuidedInv, NEW c \in Callers, WalletSigns(c)
  PROVE  GuidedInv'
<1> DEFINE o == Goal(c)
           t == [hash |-> <<o, c>>, nonce |-> SignedNonce(c)]
<1>1. /\ UNCHANGED <<tableVars, height, replaced, mined, scenario>>
      /\ serve[c] \in Memory /\ o \in Ordinals /\ serve[c].row \in Rows
      /\ step[o].state # "absent" /\ serve[c].row.nonce = step[o].nonce
  BY DEF WalletSigns, Goal, GuidedInv, GuidedTypeOK, Memory, Remembers
<1>2. CASE /\ pool' = pool \cup {t}
           /\ serve' = [serve EXCEPT ![c].at = "report", ![c].row = [Row EXCEPT !.hash = <<o, c>>]]
  <2>1. t \in [hash : Hashes, nonce : Nat] /\ t.hash[1] = o /\ t.nonce = step[o].nonce
    BY <1>1, HashOfStep DEF SignedNonce, Rows
  <2> DEFINE row == [Row EXCEPT !.hash = <<o, c>>]
  <2>2. row \in Rows
    BY <1>1, RowsOK, HashOfStep DEF Rows, Row
  <2> HIDE DEF row, t
  <2>3. serve' = [serve EXCEPT ![c] = [serve[c] EXCEPT !.at = "report", !.row = row]]
    BY <1>1, <1>2 DEF row, Memory, GuidedInv, GuidedTypeOK
  <2>4. [serve[c] EXCEPT !.at = "report", !.row = row] \in Memory
    BY <1>1, <2>2 DEF Memory, Awaits
  <2>5. /\ serve' \in [Callers -> Memory] /\ \A q \in Callers \ {c} : serve'[q] = serve[q]
        /\ serve'[c].at = "report"
    BY <1>1, <2>3, <2>4 DEF GuidedInv, GuidedTypeOK, Memory
  <2>6. attempt' = attempt /\ step' = step /\ mined' = mined /\ height' = height /\ replaced' = replaced
    BY <1>1 DEF tableVars
  <2>7. GuidedTypeOK'
    <3>1. pool' \subseteq [hash : Hashes, nonce : Nat]
      BY <1>2, <2>1 DEF GuidedInv, GuidedTypeOK
    <3>2. IsFiniteSet(pool')
      BY <1>2, FS_AddElement DEF GuidedInv, GuidedTypeOK
    <3>3. QED
      BY <2>5, <2>6, <3>1, <3>2 DEF GuidedInv, GuidedTypeOK
  <2>8. SignedAsStored'
    BY <1>1, <1>2, <2>1, <2>6 DEF SignedAsStored, GuidedInv
  <2>9. OthersOnce'
    BY <1>1, <1>2, <2>1, <2>6, HashOfStep DEF OthersOnce, GuidedInv
  <2>10. \A q \in Ordinals : \A h : Landed(q, h) => Landed(q, h)'
    BY <2>6 DEF Landed
  <2>11. \A q \in Callers : Remembers(q)'
    <3> SUFFICES ASSUME NEW q \in Callers PROVE Remembers(q)'
      OBVIOUS
    <3>1. CASE q = c
      BY <2>5, <3>1 DEF Remembers, At
    <3>2. CASE q # c
      <4>1. Remembers(q) /\ serve[q].o \in Ordinals /\ serve'[q] = serve[q]
        BY <2>5, <3>2 DEF GuidedInv, GuidedTypeOK, Memory
      <4>2. QED
        BY <2>6, <2>10, <4>1 DEF Remembers, At
    <3>3. QED
      BY <3>1, <3>2
  <2>12. HashesAreBound' /\ RowsFollowTheRoute' /\ ConfirmedHaveLanded'
    BY <2>6, <2>10 DEF GuidedInv, HashesAreBound, RowsFollowTheRoute, ConfirmedHaveLanded
  <2>13. QED
    BY <2>7, <2>8, <2>9, <2>11, <2>12 DEF GuidedInv
<1>3. CASE Answers(c) /\ UNCHANGED pool
  BY <1>1, <1>3, GoingOn, MovesOn DEF GuidedInv, chainVars
<1>4. QED
  BY <1>2, <1>3 DEF WalletSigns, Broadcast

\* A pending transaction is mined at its nonce, and what had the same nonce is dropped.
LEMMA MineNextKeeps ==
  ASSUME GuidedInv, NEW t \in pool, NEW ok \in BOOLEAN, MineNext(t, ok)
  PROVE  GuidedInv'
<1> DEFINE e == [hash |-> t.hash, block |-> height + 1, ok |-> ok]
           L == Len(mined)
<1>1. t \in [hash : Hashes, nonce : Nat] /\ height \in Nat /\ mined \in Seq(Entries) /\ L \in Nat
  BY LenProperties DEF GuidedInv, GuidedTypeOK
<1>2. e \in Entries
  BY <1>1 DEF Entries
<1>3. /\ mined' = Append(mined, e) /\ height' = height + 1 /\ t.nonce = L
      /\ pool' = {u \in pool : u.nonce # t.nonce}
      /\ UNCHANGED <<tableVars, serve, replaced>>
  BY DEF MineNext
<1> HIDE DEF e
<1>4. /\ mined' \in Seq(Entries) /\ Len(mined') = L + 1 /\ mined'[L + 1] = e
      /\ \A n \in 1..L : mined'[n] = mined[n]
  BY <1>1, <1>2, <1>3, AppendProperties
<1> HIDE DEF L
<1>5. DOMAIN mined = 1..L /\ DOMAIN mined' = 1..(L + 1)
  BY <1>1, <1>4, LenProperties DEF L
<1>6. step' = step
  BY <1>3 DEF tableVars
<1>7. SignedAsStored'
  <2>1. \A u \in pool' : u.hash[1] \in Ordinals => step'[u.hash[1]].state # "absent" /\ step'[u.hash[1]].nonce = u.nonce
    BY <1>3, <1>6 DEF GuidedInv, SignedAsStored
  <2>2. ASSUME NEW n \in DOMAIN mined', mined'[n].hash[1] \in Ordinals
        PROVE  step'[mined'[n].hash[1]].state # "absent" /\ step'[mined'[n].hash[1]].nonce = n - 1
    <3>1. CASE n \in 1..L
      BY <1>4, <1>5, <1>6, <2>2, <3>1 DEF GuidedInv, SignedAsStored
    <3>2. CASE n = L + 1
      <4>1. mined'[n].hash = t.hash
        BY <1>4, <3>2 DEF e
      <4>2. step[t.hash[1]].state # "absent" /\ step[t.hash[1]].nonce = L
        BY <1>3, <2>2, <4>1 DEF GuidedInv, SignedAsStored
      <4>3. L = n - 1
        BY <1>1, <3>2
      <4>4. QED
        BY <1>6, <4>1, <4>2, <4>3
    <3>3. QED
      BY <1>1, <1>5, <3>1, <3>2
  <2>3. QED
    BY <2>1, <2>2 DEF SignedAsStored
<1>8. OthersOnce'
  <2>1. \A u \in pool' : u \in pool /\ u # t
    BY <1>3
  <2>2. mined'[L + 1].hash = t.hash
    BY <1>4 DEF e
  <2>3. \A n \in DOMAIN mined' : n = L + 1 \/ (n \in DOMAIN mined /\ mined'[n] = mined[n])
    BY <1>1, <1>4, <1>5
  <2>4. QED
    BY <2>1, <2>2, <2>3 DEF OthersOnce, GuidedInv
<1>9. IsFiniteSet(pool') /\ pool' \subseteq [hash : Hashes, nonce : Nat]
  BY <1>3, FS_Subset DEF GuidedInv, GuidedTypeOK
<1>10. \A n \in DOMAIN mined : mined[n].block < height =>
         n \in DOMAIN mined' /\ mined'[n] = mined[n] /\ mined[n].block < height'
  <2> SUFFICES ASSUME NEW n \in DOMAIN mined, mined[n].block < height
               PROVE  n \in DOMAIN mined' /\ mined'[n] = mined[n] /\ mined[n].block < height'
    OBVIOUS
  <2>1. mined[n] \in Entries
    BY <1>1, ElementOfSeq, LenProperties
  <2>2. mined[n].block \in Nat
    BY <2>1 DEF Entries
  <2>3. QED
    BY <1>1, <1>3, <1>4, <1>5, <2>2
<1>11. QED
  BY <1>1, <1>3, <1>4, <1>7, <1>8, <1>9, <1>10, ChainStep DEF GuidedInv, GuidedTypeOK

\* The block that is replaced is the newest, so that nothing landed is in it; its
\* transaction is pending again with the nonce it had.
LEMMA ReplaceNewestKeeps ==
  ASSUME GuidedInv, ReplaceNewest
  PROVE  GuidedInv'
<1> DEFINE L == Len(mined)
           t == [hash |-> mined[L].hash, nonce |-> L - 1]
<1>1. /\ UNCHANGED <<tableVars, serve, height>> /\ replaced' = height
      /\ step' = step /\ height' = height /\ height \in Nat
  BY DEF ReplaceNewest, tableVars, GuidedInv, GuidedTypeOK
<1>2. mined \in Seq(Entries) /\ L \in Nat /\ DOMAIN mined = 1..L
  BY LenProperties DEF GuidedInv, GuidedTypeOK
<1>3. CASE /\ mined # <<>> /\ mined[L].block = height
           /\ pool' = pool \cup {t} /\ mined' = SubSeq(mined, 1, L - 1)
  <2>1. L \in DOMAIN mined /\ L >= 1
    BY <1>2, <1>3, EmptySeq
  <2>2. mined[L] \in Entries /\ mined[L].hash \in Hashes
    <3>1. mined[L] \in Entries
      BY <1>2, <2>1, ElementOfSeq
    <3>2. QED
      BY <3>1 DEF Entries
  <2>3. t \in [hash : Hashes, nonce : Nat] /\ t.hash = mined[L].hash /\ t.nonce = L - 1
    BY <1>2, <2>1, <2>2
  <2> HIDE DEF t, L
  <2>4. /\ mined' \in Seq(Entries) /\ DOMAIN mined' = 1..(L - 1)
        /\ \A n \in 1..(L - 1) : mined'[n] = mined[n]
    <3>1. 1 \in 1..(L + 1) /\ L - 1 \in (1 - 1)..L
      BY <1>2, <2>1
    <3>2. mined' \in Seq(Entries) /\ Len(mined') = (L - 1) - 1 + 1
          /\ \A n \in 1..((L - 1) - 1 + 1) : mined'[n] = mined[1 + n - 1]
      BY <1>2, <1>3, <3>1, SubSeqProperties DEF L
    <3>3. (L - 1) - 1 + 1 = L - 1 /\ \A n \in 1..(L - 1) : 1 + n - 1 = n
      BY <1>2
    <3>4. Len(mined') = L - 1 /\ \A n \in 1..(L - 1) : mined'[n] = mined[1 + n - 1]
      BY <3>2, <3>3
    <3>5. \A n \in 1..(L - 1) : mined'[n] = mined[n]
      BY <3>3, <3>4
    <3>6. QED
      BY <3>2, <3>4, <3>5, LenProperties
  <2>5. \A n \in DOMAIN mined' : n \in DOMAIN mined /\ n # L /\ mined'[n] = mined[n]
    BY <1>2, <2>4
  <2>6. SignedAsStored'
    <3>1. t.hash[1] \in Ordinals => step[t.hash[1]].state # "absent" /\ step[t.hash[1]].nonce = t.nonce
      BY <2>1, <2>3 DEF GuidedInv, SignedAsStored
    <3>2. QED
      BY <1>1, <1>3, <2>5, <3>1 DEF GuidedInv, SignedAsStored
  <2>7. OthersOnce'
    BY <1>3, <2>1, <2>3, <2>5 DEF GuidedInv, OthersOnce
  <2>8. pool' \subseteq [hash : Hashes, nonce : Nat] /\ IsFiniteSet(pool')
    BY <1>3, <2>3, FS_AddElement DEF GuidedInv, GuidedTypeOK
  <2>9. \A n \in DOMAIN mined : mined[n].block < height =>
          n \in DOMAIN mined' /\ mined'[n] = mined[n] /\ mined[n].block < height'
    <3> SUFFICES ASSUME NEW n \in DOMAIN mined, mined[n].block < height
                 PROVE  n \in DOMAIN mined' /\ mined'[n] = mined[n] /\ mined[n].block < height'
      OBVIOUS
    <3>1. n # L
      BY <1>1, <1>3 DEF L
    <3>2. QED
      BY <1>1, <1>2, <2>4, <3>1
  <2>10. QED
    BY <1>1, <2>4, <2>6, <2>7, <2>8, <2>9, ChainStep
<1>4. CASE UNCHANGED <<pool, mined>>
  <2>1. SignedAsStored' /\ OthersOnce'
    BY <1>1, <1>4 DEF GuidedInv, SignedAsStored, OthersOnce
  <2>2. pool' = pool /\ mined' = mined
    BY <1>4
  <2>3. QED
    BY <1>1, <2>1, <2>2, ChainStep DEF GuidedInv, GuidedTypeOK
<1>5. QED
  BY <1>3, <1>4 DEF ReplaceNewest, Broadcast

\* The wallet is used for something else, once, and time passes.
LEMMA RestOfChainKeeps ==
  ASSUME GuidedInv, EmptyBlock \/ UseWallet \/ Expire
  PROVE  GuidedInv'
<1>1. UNCHANGED <<tableVars, serve, replaced, mined>> /\ step' = step /\ height \in Nat /\ mined \in Seq(Entries)
  BY DEF EmptyBlock, UseWallet, Expire, tableVars, chainVars, GuidedInv, GuidedTypeOK
<1>2. \A n \in DOMAIN mined : mined[n].block \in Nat
  <2> SUFFICES ASSUME NEW n \in DOMAIN mined PROVE mined[n].block \in Nat
    OBVIOUS
  <2>1. mined[n] \in Entries
    BY <1>1, ElementOfSeq, LenProperties
  <2>2. QED
    BY <2>1 DEF Entries
<1>3. CASE EmptyBlock \/ Expire
  <2>1. UNCHANGED pool /\ (height' = height \/ height' = height + 1)
    BY <1>3 DEF EmptyBlock, Expire, chainVars
  <2>2. SignedAsStored' /\ OthersOnce'
    BY <1>1, <2>1 DEF GuidedInv, SignedAsStored, OthersOnce
  <2>3. \A n \in DOMAIN mined : mined[n].block < height =>
          n \in DOMAIN mined' /\ mined'[n] = mined[n] /\ mined[n].block < height'
    BY <1>1, <1>2, <2>1
  <2>4. QED
    BY <1>1, <2>1, <2>2, <2>3, ChainStep DEF GuidedInv, GuidedTypeOK
<1>4. CASE UseWallet
  <2> DEFINE h == <<RouteLength, "owner">>
             t == [hash |-> h, nonce |-> PendingNonce]
  <2>1. h \in Hashes /\ h[1] = RouteLength /\ RouteLength \notin Ordinals
    BY HashOfStep DEF Hashes
  <2>2. t \in [hash : Hashes, nonce : Nat] /\ t.hash[1] = RouteLength
    BY <2>1, PendingNonceExists DEF GuidedInv
  <2>3. pool' = pool \cup {t} /\ height' = height
    BY <1>4 DEF UseWallet, Broadcast
  <2>4. /\ \A u \in pool : u.hash[1] # RouteLength
        /\ \A n \in DOMAIN mined : mined[n].hash[1] # RouteLength
    <3>1. \A u \in pool : u.hash \in Hashes /\ u.hash # h
      BY <1>4 DEF UseWallet, GuidedInv, GuidedTypeOK
    <3>2. \A n \in DOMAIN mined : mined[n].hash \in Hashes /\ mined[n].hash # h
      <4> SUFFICES ASSUME NEW n \in DOMAIN mined PROVE mined[n].hash \in Hashes /\ mined[n].hash # h
        OBVIOUS
      <4>1. mined[n] \in Entries
        BY <1>1, ElementOfSeq, LenProperties
      <4>2. QED
        BY <1>4, <4>1 DEF UseWallet, Mined, Entries
    <3>3. QED
      BY <3>1, <3>2, <2>1, HashOfStep
  <2> HIDE DEF t
  <2>5. SignedAsStored'
    BY <1>1, <2>1, <2>2, <2>3 DEF GuidedInv, SignedAsStored
  <2>6. OthersOnce'
    BY <1>1, <2>3, <2>4 DEF GuidedInv, OthersOnce
  <2>7. pool' \subseteq [hash : Hashes, nonce : Nat] /\ IsFiniteSet(pool')
    BY <2>2, <2>3, FS_AddElement DEF GuidedInv, GuidedTypeOK
  <2>8. QED
    BY <1>1, <2>3, <2>5, <2>6, <2>7, ChainStep DEF GuidedInv, GuidedTypeOK
<1>5. QED
  BY <1>3, <1>4

-----------------------------------------------------------------------------
(* The invariant *)

\* Before the route is begun nothing is stored and nothing is on the chain.
LEMMA GuidedBegins == GuidedInit => GuidedInv
<1> SUFFICES ASSUME GuidedInit PROVE GuidedInv
  OBVIOUS
<1>1. GuidedTypeOK
  BY RowsOK, FS_EmptySet, EmptySeq, GuidedAssumption DEF GuidedInit, GuidedTypeOK, AttemptStates
<1>2. DOMAIN mined = {} /\ pool = {} /\ \A o \in Ordinals : step[o] = Row
  BY EmptySeq DEF GuidedInit
<1>3. HashesAreBound /\ SignedAsStored /\ OthersOnce /\ ConfirmedHaveLanded
  BY <1>2 DEF HashesAreBound, SignedAsStored, OthersOnce, ConfirmedHaveLanded, Row
<1>4. \A c \in Callers : Remembers(c)
  BY DEF GuidedInit, Remembers, At, Rest
<1>5. RowsFollowTheRoute
  BY <1>2, GuidedAssumption DEF GuidedInit, RowsFollowTheRoute, Row, Ordinals
<1>6. QED
  BY <1>1, <1>3, <1>4, <1>5 DEF GuidedInv

\* Every action of a tab, the service and the chain keeps the invariant.
LEMMA GuidedGoesOn == GuidedInv /\ [GuidedNext]_guidedVars => GuidedInv'
<1> SUFFICES ASSUME GuidedInv, [GuidedNext]_guidedVars PROVE GuidedInv'
  OBVIOUS
<1>1. CASE Chain
  <2>1. ASSUME NEW t \in pool, NEW ok \in BOOLEAN, MineNext(t, ok) PROVE GuidedInv'
    BY <2>1, MineNextKeeps
  <2>2. CASE ReplaceNewest
    BY <2>2, ReplaceNewestKeeps
  <2>3. CASE EmptyBlock \/ UseWallet \/ Expire
    BY <2>3, RestOfChainKeeps
  <2>4. QED
    BY <1>1, <2>1, <2>2, <2>3 DEF Chain
<1>2. ASSUME NEW c \in Callers, Call(c) PROVE GuidedInv'
  <2>1. CASE Start(c) \/ EnsurePrepared(c)
    BY <2>1, StartKeeps
  <2>2. CASE BeginAttempt(c)
    BY <2>2, BeginAttemptKeeps
  <2>3. CASE PrepareStep(c)
    BY <2>3, PrepareStepKeeps
  <2>4. ASSUME NEW o \in Ordinals, \/ CallArm(c, o) \/ CallResolve(c, o)
                                   \/ \E do \in {"recover", "cancel"} : CallInspect(c, o, do)
        PROVE  GuidedInv'
    BY <2>4, RequestsKeep
  <2>5. CASE ArmStep(c) \/ CancelStep(c)
    BY <2>5, ArmingKeeps
  <2>6. CASE BindHash(c)
    BY <2>6, BindHashKeeps
  <2>7. CASE Scan(c)
    BY <2>7, ScanKeeps
  <2>8. CASE MarkReconcile(c)
    BY <2>8, MarkReconcileKeeps
  <2>9. CASE Look(c)
    BY <2>9, LookKeeps
  <2>10. CASE Settle(c)
    BY <2>10, SettleKeeps
  <2>11. CASE ConfirmStep(c)
    BY <2>11, ConfirmStepKeeps
  <2>12. CASE Inspect(c) \/ RpcFails(c)
    BY <2>12, ReadsKeep
  <2>13. QED
    BY <1>2, <2>1, <2>2, <2>3, <2>4, <2>5, <2>6, <2>7, <2>8, <2>9, <2>10, <2>11, <2>12 DEF Call
<1>3. ASSUME NEW c \in Callers, Tab(c) PROVE GuidedInv'
  <2>1. CASE CheckPrompt(c) \/ WalletSigns(c)
    BY <2>1, CheckPromptKeeps, WalletSignsKeeps
  <2>2. CASE ReportHash(c) \/ Gone(c)
    BY <2>2, ReadsKeep
  <2>3. ASSUME NEW o \in Ordinals, NEW h \in Hashes, ReportAnother(c, o, h) PROVE GuidedInv'
    BY <2>3, ReportAnotherKeeps
  <2>4. QED
    BY <1>3, <2>1, <2>2, <2>3 DEF Tab
<1>4. CASE UNCHANGED guidedVars
  <2>1. UNCHANGED <<tableVars, serve, height, replaced, pool, mined>> /\ step' = step
    BY <1>4 DEF guidedVars, tableVars, chainVars
  <2>2. SignedAsStored' /\ OthersOnce'
    BY <2>1 DEF GuidedInv, SignedAsStored, OthersOnce
  <2>3. pool' = pool /\ mined' = mined /\ height' = height /\ replaced' = replaced
    BY <2>1
  <2>4. QED
    BY <2>1, <2>2, <2>3, ChainStep DEF GuidedInv, GuidedTypeOK
<1>5. QED
  BY <1>1, <1>2, <1>3, <1>4 DEF GuidedNext

\* The invariant, in every reachable state of every route, number of tabs and chain.
THEOREM GuidedInvariance == GuidedSpec => []GuidedInv
<1>1. GuidedInit => GuidedInv
  BY GuidedBegins
<1>2. GuidedInv /\ [GuidedNext]_guidedVars => GuidedInv'
  BY GuidedGoesOn
<1>3. QED
  BY <1>1, <1>2, PTL DEF GuidedSpec

\* Rows, calls, the pool and the chain stay within the values the code gives them
\* (execution-v2's tables, the service's locals, the read client's answers).
THEOREM GuidedTypes == GuidedSpec => []GuidedTypeOK
<1>1. GuidedInv => GuidedTypeOK
  BY DEF GuidedInv
<1>2. QED
  BY <1>1, GuidedInvariance, PTL

\* resolveSubmitted and confirmStep: a confirmed step is a transaction of its own
\* that succeeded with the nonce stored for it, whatever hash was reported and
\* however the newest block was replaced meanwhile.
THEOREM GuidedConfirmedIsLanded == GuidedSpec => []ConfirmedIsLanded
<1>1. ASSUME GuidedInv PROVE ConfirmedIsLanded
  <2> SUFFICES ASSUME NEW o \in Ordinals, step[o].state = "confirmed"
               PROVE  LET h == step[o].hash IN
                      Mined(h) /\ h[1] = o /\ mined[Entry(h)].ok /\ Entry(h) = step[o].nonce + 1
    BY DEF ConfirmedIsLanded
  <2> DEFINE h == step[o].hash
  <2>1. PICK n \in DOMAIN mined : mined[n].hash = h /\ h[1] = o /\ mined[n].ok /\ step[o].nonce = n - 1
    BY <1>1 DEF GuidedInv, ConfirmedHaveLanded, Landed
  <2>2. Mined(h)
    BY <2>1 DEF Mined
  <2>3. Entry(h) \in DOMAIN mined /\ mined[Entry(h)].hash = h
    BY <2>2, <1>1, EntryOfMined DEF GuidedInv
  <2>4. step[o].nonce = Entry(h) - 1
    BY <1>1, <2>1, <2>3 DEF GuidedInv, SignedAsStored
  <2>5. DOMAIN mined \subseteq Int
    BY <1>1, LenProperties DEF GuidedInv, GuidedTypeOK
  <2>6. Entry(h) = n
    BY <2>1, <2>3, <2>4, <2>5
  <2>7. QED
    BY <2>1, <2>2, <2>3, <2>4, <2>5, <2>6
<1>2. QED
  BY <1>1, GuidedInvariance, PTL

\* The attempt's counter and state say what its steps say: the confirmed steps are
\* the first ones, nothing is stored beyond the next one, and the attempt is complete
\* or frozen exactly when its steps are.
THEOREM GuidedRowsFollow == GuidedSpec => []RowsFollowTheRoute
<1>1. GuidedInv => RowsFollowTheRoute
  BY DEF GuidedInv
<1>2. QED
  BY <1>1, GuidedInvariance, PTL

\* Arming, cancelling and arming again, in any number of tabs, mines at most one
\* transaction of a step, and none before the previous step was confirmed.
THEOREM GuidedStepsLandOnce == GuidedSpec => []StepsLandOnce
<1>1. ASSUME GuidedInv PROVE StepsLandOnce
  <2>1. DOMAIN mined \subseteq Int
    BY <1>1, LenProperties DEF GuidedInv, GuidedTypeOK
  <2>2. \A n \in DOMAIN mined : mined[n].hash \in Hashes
    <3> SUFFICES ASSUME NEW n \in DOMAIN mined PROVE mined[n].hash \in Hashes
      OBVIOUS
    <3>1. mined[n] \in Entries
      BY <1>1, ElementOfSeq, LenProperties DEF GuidedInv, GuidedTypeOK
    <3>2. QED
      BY <3>1 DEF Entries
  <2>3. ASSUME NEW m \in DOMAIN mined, NEW n \in DOMAIN mined, mined[m].hash[1] = mined[n].hash[1]
        PROVE  m = n
    <3>1. CASE mined[n].hash[1] \in Ordinals
      BY <1>1, <2>1, <2>3, <3>1 DEF GuidedInv, SignedAsStored
    <3>2. CASE mined[n].hash[1] = RouteLength
      BY <1>1, <2>3, <3>2 DEF GuidedInv, OthersOnce
    <3>3. QED
      BY <2>2, <3>1, <3>2, HashOfStep
  <2>4. ASSUME NEW n \in DOMAIN mined, mined[n].hash[1] \in Ordinals \ {0}
        PROVE  step[mined[n].hash[1] - 1].state = "confirmed"
    <3> DEFINE o == mined[n].hash[1]
    <3>1. step[o].state # "absent" /\ o \in Ordinals
      BY <1>1, <2>4 DEF GuidedInv, SignedAsStored
    <3>2. ~(o > attempt.next) /\ attempt.next \in Int
      BY <1>1, <3>1 DEF GuidedInv, RowsFollowTheRoute, GuidedTypeOK
    <3>3. o - 1 \in Ordinals /\ o - 1 < attempt.next
      BY <2>4, <3>2, GuidedAssumption DEF Ordinals
    <3>4. QED
      BY <1>1, <3>3 DEF GuidedInv, RowsFollowTheRoute
  <2>5. QED
    BY <2>3, <2>4 DEF StepsLandOnce
<1>2. QED
  BY <1>1, GuidedInvariance, PTL

\* No late call of another tab rewrites a confirmed or a frozen step, and a hash that
\* was bound to a step stays its hash.
THEOREM GuidedSettledStay == GuidedSpec => SettledRowsStay
<1> DEFINE Stay == \A o \in Ordinals :
       /\ step[o].state \in {"confirmed", "reconcile"} => step'[o] = step[o]
       /\ step[o].hash # NoHash => step'[o].hash = step[o].hash
<1>1. ASSUME GuidedInv, [GuidedNext]_guidedVars PROVE [Stay]_guidedVars
  <2>1. step \in [Ordinals -> Rows] /\ \A c \in Callers : Goal(c) \in Ordinals
    BY <1>1 DEF GuidedInv, GuidedTypeOK, Goal, Memory
  <2>2. CASE UNCHANGED step
    BY <2>2
  <2>3. ASSUME NEW c \in Callers, BindHash(c) PROVE Stay
    <3>1. CASE UNCHANGED step
      BY <3>1
    <3>2. CASE /\ step[Goal(c)].state = "broadcasting"
               /\ step' = [step EXCEPT ![Goal(c)].state = "submitted", ![Goal(c)].hash = serve[c].row.hash]
      <4>1. step[Goal(c)].hash = NoHash
        BY <1>1, <2>1, <3>2 DEF GuidedInv, HashesAreBound
      <4>2. \A o \in Ordinals \ {Goal(c)} : step'[o] = step[o]
        BY <2>1, <3>2
      <4>3. QED
        BY <3>2, <4>1, <4>2
    <3>3. QED
      BY <2>3, <3>1, <3>2 DEF BindHash, CanBind
  <2>4. ASSUME NEW c \in Callers, PrepareStep(c) PROVE Stay
    <3>1. CASE UNCHANGED tableVars
      BY <3>1 DEF tableVars
    <3>2. CASE step[Goal(c)].state = "absent" /\ step' = [step EXCEPT ![Goal(c)] = serve[c].row]
      <4>1. step[Goal(c)].hash = NoHash
        BY <1>1, <2>1, <3>2 DEF GuidedInv, HashesAreBound
      <4>2. \A o \in Ordinals \ {Goal(c)} : step'[o] = step[o]
        BY <2>1, <3>2
      <4>3. QED
        BY <3>2, <4>1, <4>2
    <3>3. QED
      BY <2>4, <3>1, <3>2 DEF PrepareStep, CanStore
  <2>5. ASSUME NEW c \in Callers, ArmStep(c) \/ CancelStep(c) \/ MarkReconcile(c) \/ ConfirmStep(c)
        PROVE  Stay
    <3>1. CASE UNCHANGED step
      BY <3>1
    <3>2. CASE /\ step[Goal(c)].state \in {"prepared", "broadcasting", "submitted"}
               /\ \E to \in StepStates : SetStep(Goal(c), to)
      <4>1. PICK to \in StepStates : SetStep(Goal(c), to)
        BY <3>2
      <4>2. \A o \in Ordinals : step'[o].hash = step[o].hash /\ (o # Goal(c) => step'[o] = step[o])
        BY <2>1, <4>1 DEF SetStep, Rows
      <4>3. QED
        BY <3>2, <4>2
    <3>3. QED
      BY <2>5, <3>1, <3>2 DEF ArmStep, CancelStep, MarkReconcile, ConfirmStep, CanConfirm, tableVars, StepStates
  <2>6. [GuidedNext]_guidedVars
    BY <1>1
  <2>7. \/ UNCHANGED step
        \/ \E c \in Callers : \/ BindHash(c) \/ PrepareStep(c)
                              \/ ArmStep(c) \/ CancelStep(c) \/ MarkReconcile(c) \/ ConfirmStep(c)
    <3>1. CASE Chain \/ UNCHANGED guidedVars
      BY <3>1 DEF Chain, MineNext, EmptyBlock, ReplaceNewest, UseWallet, Expire, tableVars, guidedVars
    <3>2. ASSUME NEW c \in Callers, Tab(c) PROVE UNCHANGED step
      BY <3>2 DEF Tab, CheckPrompt, WalletSigns, ReportHash, Gone, ReportAnother, tableVars
    <3>3. ASSUME NEW c \in Callers, Call(c)
          PROVE  \/ UNCHANGED step
                 \/ BindHash(c) \/ PrepareStep(c)
                 \/ ArmStep(c) \/ CancelStep(c) \/ MarkReconcile(c) \/ ConfirmStep(c)
      BY <3>3 DEF Call, Start, BeginAttempt, EnsurePrepared, CallArm, CallResolve, CallInspect, Calls,
                  Scan, Inspect, Look, Settle, RpcFails, tableVars
    <3>4. QED
      BY <2>6, <3>1, <3>2, <3>3 DEF GuidedNext
  <2>8. QED
    BY <2>2, <2>3, <2>4, <2>5, <2>7
<1>2. GuidedInv /\ [GuidedNext]_guidedVars => [Stay]_guidedVars
  BY <1>1
<1> HIDE DEF Stay
<1>3. GuidedSpec => [][Stay]_guidedVars
  BY <1>2, GuidedInvariance, PTL DEF GuidedSpec
<1>4. QED
  BY <1>3 DEF SettledRowsStay, Stay
=============================================================================

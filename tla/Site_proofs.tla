------------------------------ MODULE Site_proofs ------------------------------
(***************************************************************************)
(* Proofs about five components of the web site, which share no state: a   *)
(* signed challenge makes one session (WalletAuth); an owner has one       *)
(* compilation at a time and few per minute (CompileLeases); an intent is  *)
(* published by the account it was compiled for (IntentComposer); what     *)
(* holds of the house's solver alone holds of it on the site; the merchant *)
(* is sent one payment, and what is confirmed was paid                     *)
(* (CommercePlacement).                                                    *)
(***************************************************************************)
EXTENDS MCSite, HouseSolver_proofs, FiniteSetTheorems, SequenceTheorems, WellFoundedInduction

-----------------------------------------------------------------------------
(* WalletAuth *)

SignIns == {v \in [at : {"idle", "challenge", "consume", "session"},
                   owner : Owners \cup {"none"}, signer : Owners \cup {"none"},
                   nonce : Nonces \cup {"none"}, since : Nat] :
              v.at # "idle" => v.nonce \in Nonces /\ v.owner \in Owners}

AuthTypeOK ==
  /\ challenges \in [Nonces -> [owner : Owners \cup {"none"}, expires : Int, consumed : BOOLEAN]]
  /\ sessions \in Seq([owner : Owners, nonce : Nonces])
  /\ second \in Nat
  /\ signIn \in [AuthRequests -> SignIns]

\* The request that consumed a challenge is the only one to make its session, and
\* what is consumed stays so.
ConsumersAreAlone ==
  \A r \in AuthRequests : signIn[r].at = "session" =>
    LET n == signIn[r].nonce IN
    /\ challenges[n].consumed /\ challenges[n].owner = signIn[r].owner
    /\ \A i \in DOMAIN sessions : sessions[i].nonce # n
    /\ \A q \in AuthRequests : signIn[q].at = "session" /\ signIn[q].nonce = n => q = r

SessionsWereConsumed == \A i \in DOMAIN sessions : challenges[sessions[i].nonce].consumed

AuthInv == AuthTypeOK /\ ConsumersAreAlone /\ SessionsWereConsumed /\ OneSessionPerChallenge

\* No challenge has been issued.
LEMMA AuthInitInv == AuthInit => AuthInv
BY AuthAssumption DEF AuthInit, AuthInv, AuthTypeOK, ConsumersAreAlone, SessionsWereConsumed,
   OneSessionPerChallenge, NoSignIn, Absent, SignIns

\* A request that stops, or goes on to look at its challenge, disturbs nothing.
LEMMA RequestMoves ==
  ASSUME AuthInv, UNCHANGED <<second, challenges, sessions>>,
         NEW r \in AuthRequests, NEW STATE v, v \in SignIns, v.at # "session",
         signIn' = [signIn EXCEPT ![r] = v]
  PROVE  AuthInv'
<1>1. /\ AuthTypeOK'
      /\ \A q \in AuthRequests : signIn'[q].at = "session" => signIn'[q] = signIn[q]
  BY DEF AuthInv, AuthTypeOK
<1>2. ConsumersAreAlone'
  BY <1>1 DEF AuthInv, ConsumersAreAlone
<1>3. SessionsWereConsumed' /\ OneSessionPerChallenge'
  BY DEF AuthInv, SessionsWereConsumed, OneSessionPerChallenge
<1>4. QED
  BY <1>1, <1>2, <1>3 DEF AuthInv

\* A request that is answered carries nothing on.
LEMMA RequestStops ==
  ASSUME AuthInv, UNCHANGED <<second, challenges, sessions>>, NEW r \in AuthRequests, Answered(r)
  PROVE  AuthInv'
<1>1. NoSignIn \in SignIns /\ NoSignIn.at # "session"
  BY DEF SignIns, NoSignIn
<1>2. QED
  BY <1>1, RequestMoves DEF Answered

\* What is stored of a session is an owner and a nonce.
LEMMA SessionEntries ==
  ASSUME AuthTypeOK
  PROVE  /\ DOMAIN sessions = 1..Len(sessions) /\ Len(sessions) \in Nat
         /\ \A i \in DOMAIN sessions : sessions[i] \in [owner : Owners, nonce : Nonces]
<1>1. sessions \in Seq([owner : Owners, nonce : Nonces])
  BY DEF AuthTypeOK
<1>2. DOMAIN sessions = 1..Len(sessions) /\ Len(sessions) \in Nat
  BY <1>1
<1>3. \A i \in 1..Len(sessions) : sessions[i] \in [owner : Owners, nonce : Nonces]
  BY <1>1, ElementOfSeq
<1>4. QED
  BY <1>2, <1>3

\* A challenge is issued under a nonce that was never consumed.
LEMMA IssueInv ==
  ASSUME AuthInv, NEW n \in Nonces, NEW o \in Owners, IssueChallenge(n, o)
  PROVE  AuthInv'
<1>1. ~challenges[n].consumed
  BY DEF IssueChallenge, Absent
<1>2. second + ChallengeLifetime \in Int
  BY AuthAssumption DEF AuthInv, AuthTypeOK
<1>3. AuthTypeOK'
  BY <1>2 DEF AuthInv, AuthTypeOK, IssueChallenge
<1>4. \A m \in Nonces : challenges[m].consumed => challenges'[m] = challenges[m]
  BY <1>1 DEF AuthInv, AuthTypeOK, IssueChallenge
<1>5. \A i \in DOMAIN sessions : sessions[i].nonce \in Nonces
  BY SessionEntries DEF AuthInv
<1>6. ConsumersAreAlone'
  BY <1>4 DEF AuthInv, AuthTypeOK, ConsumersAreAlone, IssueChallenge
<1>7. SessionsWereConsumed' /\ OneSessionPerChallenge'
  BY <1>4, <1>5 DEF AuthInv, SessionsWereConsumed, OneSessionPerChallenge, IssueChallenge
<1>8. QED
  BY <1>3, <1>6, <1>7 DEF AuthInv

\* Only one request consumes a challenge: the update asks that it is unconsumed.
LEMMA ConsumeInv ==
  ASSUME AuthInv, NEW r \in AuthRequests, ConsumeChallenge(r), Consumable(r)
  PROVE  AuthInv'
<1> DEFINE n == signIn[r].nonce
<1>1. /\ signIn[r] \in SignIns /\ n \in Nonces /\ signIn[r].owner \in Owners
      /\ ~challenges[n].consumed /\ challenges[n].owner = signIn[r].owner
      /\ challenges' = [challenges EXCEPT ![n].consumed = TRUE]
      /\ signIn' = [signIn EXCEPT ![r].at = "session"] /\ UNCHANGED <<second, sessions>>
  BY DEF AuthInv, AuthTypeOK, SignIns, ConsumeChallenge, Consumable, ChallengeReady, Continues
<1>2. AuthTypeOK'
  <2>1. [signIn[r] EXCEPT !.at = "session"] \in SignIns
    BY <1>1 DEF SignIns
  <2>2. signIn' = [signIn EXCEPT ![r] = [signIn[r] EXCEPT !.at = "session"]]
    BY <1>1
  <2>3. challenges' \in [Nonces -> [owner : Owners \cup {"none"}, expires : Int, consumed : BOOLEAN]]
    BY <1>1 DEF AuthInv, AuthTypeOK
  <2>4. QED
    BY <1>1, <2>1, <2>2, <2>3 DEF AuthInv, AuthTypeOK
<1>3. \A m \in Nonces : /\ challenges'[m].owner = challenges[m].owner
                        /\ challenges[m].consumed \/ m = n => challenges'[m].consumed
  BY <1>1 DEF AuthInv, AuthTypeOK
<1>4. \A i \in DOMAIN sessions : sessions[i].nonce \in Nonces /\ sessions[i].nonce # n
  BY <1>1, SessionEntries DEF AuthInv, SessionsWereConsumed
<1>5. \A q \in AuthRequests : /\ signIn'[q].nonce = signIn[q].nonce /\ signIn'[q].owner = signIn[q].owner
                              /\ q # r => signIn'[q].at = signIn[q].at
                              /\ signIn'[q].at = "session" => signIn[q].nonce \in Nonces
  BY <1>1 DEF AuthInv, AuthTypeOK, SignIns
<1>6. \A q \in AuthRequests : signIn[q].at = "session" => signIn[q].nonce # n
  BY <1>1 DEF AuthInv, ConsumersAreAlone
<1>7. ConsumersAreAlone'
  BY <1>1, <1>3, <1>4, <1>5, <1>6 DEF AuthInv, ConsumersAreAlone
<1>8. SessionsWereConsumed' /\ OneSessionPerChallenge'
  BY <1>1, <1>3, <1>4 DEF AuthInv, SessionsWereConsumed, OneSessionPerChallenge
<1>9. QED
  BY <1>2, <1>7, <1>8 DEF AuthInv

\* The consumer of a challenge makes its session.
LEMMA CreateInv ==
  ASSUME AuthInv, NEW r \in AuthRequests, CreateSession(r)
  PROVE  AuthInv'
<1> DEFINE n == signIn[r].nonce
           new == [owner |-> signIn[r].owner, nonce |-> n]
<1>1. /\ n \in Nonces /\ challenges[n].consumed /\ challenges[n].owner = signIn[r].owner
      /\ \A i \in DOMAIN sessions : sessions[i].nonce # n
      /\ \A q \in AuthRequests : signIn[q].at = "session" /\ signIn[q].nonce = n => q = r
  BY DEF AuthInv, AuthTypeOK, SignIns, CreateSession, ConsumersAreAlone
<1>2. /\ signIn' = [signIn EXCEPT ![r] = NoSignIn] /\ UNCHANGED <<second, challenges>>
      /\ sessions' = Append(sessions, new) /\ new \in [owner : Owners, nonce : Nonces]
  BY DEF AuthInv, AuthTypeOK, SignIns, CreateSession, Answered
<1>3. AuthTypeOK'
  BY <1>2 DEF AuthInv, AuthTypeOK, SignIns, NoSignIn
<1>4. \A i \in DOMAIN sessions' : \/ i \in DOMAIN sessions /\ sessions'[i] = sessions[i]
                                  \/ i = Len(sessions) + 1 /\ sessions'[i] = new
  BY <1>2 DEF AuthInv, AuthTypeOK
<1>5. \A q \in AuthRequests : signIn'[q].at = "session" => q # r /\ signIn'[q] = signIn[q]
  BY <1>2 DEF AuthInv, AuthTypeOK, SignIns, NoSignIn
<1>6. ConsumersAreAlone'
  BY <1>1, <1>2, <1>4, <1>5 DEF AuthInv, ConsumersAreAlone
<1>7. SessionsWereConsumed' /\ OneSessionPerChallenge'
  BY <1>1, <1>2, <1>4 DEF AuthInv, SessionsWereConsumed, OneSessionPerChallenge
<1>8. QED
  BY <1>3, <1>6, <1>7 DEF AuthInv

\* Every step of the routes preserves the invariant.
LEMMA AuthStep == AuthInv /\ [AuthNext]_authVars => AuthInv'
<1> SUFFICES ASSUME AuthInv, [AuthNext]_authVars PROVE AuthInv'
  OBVIOUS
<1>1. CASE AuthTick
  BY <1>1 DEF AuthInv, AuthTypeOK, ConsumersAreAlone, SessionsWereConsumed, OneSessionPerChallenge, AuthTick
<1>2. CASE \E n \in Nonces, o \in Owners : IssueChallenge(n, o)
  BY <1>2, IssueInv
<1>3. ASSUME NEW r \in AuthRequests, NEW n \in Nonces, NEW o \in Owners, NEW s \in Owners,
             PostSession(r, n, o, s)
      PROVE  AuthInv'
  <2> DEFINE v == [at |-> "challenge", owner |-> o, signer |-> s, nonce |-> n, since |-> second]
  <2>1. v \in SignIns
    BY DEF AuthInv, AuthTypeOK, SignIns
  <2>2. signIn' = [signIn EXCEPT ![r] = v] /\ v.at # "session"
    BY <1>3 DEF PostSession
  <2>3. UNCHANGED <<second, challenges, sessions>>
    BY <1>3 DEF PostSession
  <2> HIDE DEF v
  <2>4. QED
    BY <2>1, <2>2, <2>3, RequestMoves
<1>4. ASSUME NEW r \in AuthRequests, ReadChallenge(r) PROVE AuthInv'
  <2>1. CASE Answered(r)
    BY <1>4, <2>1, RequestStops DEF ReadChallenge
  <2>2. CASE Continues(r, "consume")
    <3> DEFINE v == [signIn[r] EXCEPT !.at = "consume"]
    <3>1. v \in SignIns /\ v.at # "session"
      BY <1>4 DEF AuthInv, AuthTypeOK, SignIns, ReadChallenge
    <3>2. signIn' = [signIn EXCEPT ![r] = v] /\ UNCHANGED <<second, challenges, sessions>>
      BY <1>4, <2>2 DEF Continues, ReadChallenge, AuthInv, AuthTypeOK
    <3> HIDE DEF v
    <3>3. QED
      BY <3>1, <3>2, RequestMoves
  <2>3. QED
    BY <1>4, <2>1, <2>2 DEF ReadChallenge
<1>5. ASSUME NEW r \in AuthRequests, ConsumeChallenge(r) PROVE AuthInv'
  <2>1. CASE Consumable(r)
    BY <1>5, <2>1, ConsumeInv
  <2>2. CASE ~Consumable(r)
    BY <1>5, <2>2, RequestStops DEF ConsumeChallenge
  <2>3. QED
    BY <2>1, <2>2
<1>6. ASSUME NEW r \in AuthRequests, CreateSession(r) PROVE AuthInv'
  BY <1>6, CreateInv
<1>7. ASSUME NEW r \in AuthRequests, SignInDies(r) PROVE AuthInv'
  BY <1>7, RequestStops DEF SignInDies
<1>8. CASE UNCHANGED authVars
  BY <1>8 DEF AuthInv, AuthTypeOK, ConsumersAreAlone, SessionsWereConsumed, OneSessionPerChallenge, authVars
<1>9. QED
  BY <1>1, <1>2, <1>3, <1>4, <1>5, <1>6, <1>7, <1>8 DEF AuthNext

\* A signed challenge makes at most one session, and of its owner's, for any number
\* of requests that present it at once (wallet-auth.ts, consumeChallenge).
THEOREM OneSession == AuthSpec => []OneSessionPerChallenge
<1>1. AuthInit => AuthInv
  BY AuthInitInv
<1>2. AuthInv /\ [AuthNext]_authVars => AuthInv'
  BY AuthStep
<1>3. AuthInv => OneSessionPerChallenge
  BY DEF AuthInv
<1>4. QED
  BY <1>1, <1>2, <1>3, PTL DEF AuthSpec
-----------------------------------------------------------------------------
(* CompileLeases *)

LeaseRows ==
  [owner : Drafters, goal : Goals, state : {"pending", "completed", "failed"},
   created : Nat, expires : Nat, ended : Nat, until : Nat]

CompileRouteStates ==
  {v \in [at : {"idle", "admit", "cached", "compile", "fail"}, owner : Drafters \cup {"none"},
          goal : Goals \cup {"none"}, since : Nat, lease : Nat] :
     v.at # "idle" => v.owner \in Drafters /\ v.goal \in Goals}

LeaseTypeOK ==
  /\ moment \in Nat
  /\ leases \in Seq(LeaseRows)
  /\ route \in [CompileRoutes -> CompileRouteStates]

\* A request that is under way was sent in the past, and the platform has not ended it.
RoutesAreTimely ==
  \A r \in CompileRoutes : route[r].at # "idle" =>
    route[r].since <= moment /\ moment <= route[r].since + RouteDuration

\* A request that compiles holds a pending row of its owner, which outlives it, and
\* which nobody else ends.
RoutesHoldLeases ==
  /\ \A r \in CompileRoutes : route[r].at \in {"compile", "fail"} => route[r].lease \in DOMAIN leases
  /\ \A r \in CompileRoutes : route[r].at = "compile" =>
       LET l == leases[route[r].lease] IN
       l.state = "pending" /\ l.owner = route[r].owner /\ l.expires = route[r].since + LeaseLifetime
  /\ \A r, q \in CompileRoutes :
       /\ route[r].at \in {"compile", "fail"} /\ route[q].at \in {"compile", "fail"}
       /\ route[r].lease = route[q].lease
       => r = q

LeaseInv ==
  LeaseTypeOK /\ RoutesAreTimely /\ RoutesHoldLeases /\ OneCompilationPerOwner /\ RateIsLimited

\* Of finitely many elements one has the greatest value: the sets of those with a greater
\* one are finite, and the strict subset order on them is well-founded.
LEMMA GreatestExists ==
  ASSUME NEW S, S # {}, IsFiniteSet(S), NEW f \in [S -> Nat]
  PROVE  \E i \in S : \A j \in S : f[j] <= f[i]
<1> DEFINE Above(i) == {j \in S : f[j] > f[i]}
           All == {Above(i) : i \in S}
<1>1. All \subseteq FiniteSubsetsOf(S) /\ All # {}
  <2>1. \A i \in S : Above(i) \subseteq S /\ IsFiniteSet(Above(i))
    BY FS_Subset
  <2>2. \A i \in S : Above(i) \in FiniteSubsetsOf(S)
    BY <2>1 DEF FiniteSubsetsOf
  <2> HIDE DEF Above
  <2>3. QED
    BY <2>2
<1>2. IsWellFoundedOn(StrictSubsetOrdering(S), FiniteSubsetsOf(S))
  BY FS_StrictSubsetOrderingWellFounded
<1> HIDE DEF All
<1>3. PICK m \in All : \A b \in All : ~(<<b, m>> \in StrictSubsetOrdering(S))
  BY <1>1, <1>2, WFMin
<1>4. PICK i \in S : m = Above(i)
  BY <1>3 DEF All
<1>5. ASSUME NEW j \in S, f[j] > f[i] PROVE FALSE
  <2>1. Above(j) \subseteq Above(i) /\ j \in Above(i) /\ j \notin Above(j)
    <3>1. f[i] \in Nat /\ f[j] \in Nat /\ \A k \in S : f[k] \in Nat
      OBVIOUS
    <3>2. QED
      BY <1>5, <3>1
  <2>2. Above(j) \in All /\ Above(i) \subseteq S /\ Above(j) \subseteq S
    BY DEF All
  <2>3. <<Above(j), Above(i)>> \in StrictSubsetOrdering(S)
    BY <2>1, <2>2 DEF StrictSubsetOrdering
  <2>4. QED
    BY <2>2, <2>3, <1>3, <1>4
<1>6. \A j \in S : f[j] \in Nat /\ f[i] \in Nat
  OBVIOUS
<1>7. QED
  BY <1>5, <1>6

\* What the constants are.
LEMMA LeaseConstants ==
  /\ OwnerLimit \in Nat \ {0} /\ ClientLimit \in Nat \ {0} /\ RateWindow \in Nat \ {0}
  /\ LeaseLifetime \in Nat \ {0} /\ RouteDuration \in Nat \ {0} /\ RouteDuration < LeaseLifetime
  /\ "none" \notin Drafters /\ "none" \notin Goals /\ LeaseClock \in Nat
BY LeaseAssumption

\* Nothing has been asked.
LEMMA LeaseInitInv == LeaseInit => LeaseInv
<1> SUFFICES ASSUME LeaseInit PROVE LeaseInv
  OBVIOUS
<1>1. LeaseTypeOK /\ RoutesAreTimely /\ RoutesHoldLeases /\ OneCompilationPerOwner
  BY DEF LeaseInit, LeaseTypeOK, RoutesAreTimely, RoutesHoldLeases, OneCompilationPerOwner,
         NoRoute, CompileRouteStates, IsAt
<1>2. RateIsLimited
  <2>1. DOMAIN leases = {}
    BY DEF LeaseInit
  <2>2. Cardinality({}) = 0
    BY FS_EmptySet
  <2>3. \A S : S \subseteq DOMAIN leases => Cardinality(S) = 0
    BY <2>1, <2>2
  <2>4. QED
    BY <2>3, LeaseConstants DEF RateIsLimited, Rows
<1>3. QED
  BY <1>1, <1>2 DEF LeaseInv

\* The rows are a sequence, and a set of their numbers is finite.
LEMMA LeaseNumbers ==
  ASSUME LeaseTypeOK
  PROVE  /\ DOMAIN leases = 1..Len(leases) /\ Len(leases) \in Nat
         /\ \A i \in DOMAIN leases : leases[i] \in LeaseRows
         /\ \A S : S \subseteq DOMAIN leases => IsFiniteSet(S) /\ Cardinality(S) \in Nat
<1>1. /\ DOMAIN leases = 1..Len(leases) /\ Len(leases) \in Nat
      /\ \A i \in 1..Len(leases) : leases[i] \in LeaseRows
  BY ElementOfSeq DEF LeaseTypeOK
<1>2. IsFiniteSet(DOMAIN leases)
  BY <1>1, FS_Interval
<1>3. QED
  BY <1>1, <1>2, FS_Subset, FS_CardinalityType

\* A request that stops, or moves on without compiling, disturbs nothing.
LEMMA RouteStops ==
  ASSUME LeaseInv, UNCHANGED <<moment, leases>>, NEW r \in CompileRoutes,
         NEW STATE v, v \in CompileRouteStates, v.at # "compile",
         v.at # "idle" => v.since <= moment /\ moment <= v.since + RouteDuration,
         v.at = "fail" => route[r].at \in {"compile", "fail"} /\ v.lease = route[r].lease,
         route' = [route EXCEPT ![r] = v]
  PROVE  LeaseInv'
<1>1. /\ route \in [CompileRoutes -> CompileRouteStates]
      /\ route'[r] = v /\ \A q \in CompileRoutes : q # r => route'[q] = route[q]
  BY DEF LeaseInv, LeaseTypeOK
<1>2. LeaseTypeOK'
  BY DEF LeaseInv, LeaseTypeOK
<1>3. RoutesAreTimely'
  BY <1>1 DEF LeaseInv, RoutesAreTimely
<1>4. RoutesHoldLeases'
  <2>1. \A q \in CompileRoutes : route'[q].at \in {"compile", "fail"} =>
          route[q].at \in {"compile", "fail"} /\ route'[q].lease = route[q].lease
    BY <1>1
  <2>2. \A q \in CompileRoutes : route'[q].at = "compile" => route'[q] = route[q]
    BY <1>1
  <2>3. QED
    BY <2>1, <2>2 DEF LeaseInv, RoutesHoldLeases
<1>5. OneCompilationPerOwner'
  BY <1>1 DEF LeaseInv, OneCompilationPerOwner, IsAt
<1>6. RateIsLimited'
  BY DEF LeaseInv, RateIsLimited, Rows
<1>7. QED
  BY <1>2, <1>3, <1>4, <1>5, <1>6 DEF LeaseInv

\* The row that a request inserts.
NewLease(r) ==
  [owner |-> route[r].owner, goal |-> route[r].goal, state |-> "pending",
   created |-> route[r].since, expires |-> route[r].since + LeaseLifetime,
   ended |-> 0, until |-> 0]

\* An inserted row is the last one, and the others stay.
LEMMA InsertedLast ==
  ASSUME LeaseInv, NEW r \in CompileRoutes, route[r].at = "admit", InsertLease(r)
  PROVE  /\ NewLease(r) \in LeaseRows /\ leases' \in Seq(LeaseRows)
         /\ DOMAIN leases' = DOMAIN leases \cup {Len(leases) + 1} /\ Len(leases) + 1 \notin DOMAIN leases
         /\ \A i \in DOMAIN leases : leases'[i] = leases[i]
         /\ leases'[Len(leases) + 1] = NewLease(r)
<1>1. leases \in Seq(LeaseRows) /\ route[r] \in CompileRouteStates
  BY DEF LeaseInv, LeaseTypeOK
<1>2. NewLease(r) \in LeaseRows
  BY <1>1, LeaseConstants DEF NewLease, LeaseRows, CompileRouteStates
<1>3. leases' = Append(leases, NewLease(r))
  BY DEF InsertLease, NewLease
<1>4. QED
  BY <1>1, <1>2, <1>3

\* A window that holds the new row holds, of the older ones, only some of those that
\* its request counted; so the limits are kept although rows are not in order of time.
LEMMA InsertKeepsRate ==
  ASSUME LeaseInv, NEW r \in CompileRoutes, route[r].at = "admit", ~Limited(r), InsertLease(r)
  PROVE  RateIsLimited'
<1> DEFINE n == Len(leases) + 1
           recent == {i \in DOMAIN leases : leases[i].created > route[r].since - RateWindow}
           within(from) == {i \in DOMAIN leases : from <= leases[i].created /\ leases[i].created < from + RateWindow}
           later(from) == {i \in DOMAIN leases' : from <= leases'[i].created /\ leases'[i].created < from + RateWindow}
           of(S, o) == {i \in S : leases[i].owner = o}
           laterOf(S, o) == {i \in S : leases'[i].owner = o}
<1>1. /\ DOMAIN leases' = DOMAIN leases \cup {n} /\ n \notin DOMAIN leases
      /\ \A i \in DOMAIN leases : leases'[i] = leases[i]
      /\ leases'[n].created = route[r].since /\ leases'[n].owner = route[r].owner
  <2>1. NewLease(r).created = route[r].since /\ NewLease(r).owner = route[r].owner
    BY DEF NewLease
  <2>2. QED
    BY <2>1, InsertedLast
<1>2. LeaseTypeOK /\ route[r].since \in Nat
  BY DEF LeaseInv, LeaseTypeOK, CompileRouteStates
<1>3. Cardinality(recent) < ClientLimit /\ Cardinality(of(recent, route[r].owner)) < OwnerLimit
  <2>1. /\ ~(Cardinality(recent) >= ClientLimit)
        /\ ~(Cardinality(of(recent, route[r].owner)) >= OwnerLimit)
    BY DEF Limited, Rows
  <2>2. Cardinality(recent) \in Nat /\ Cardinality(of(recent, route[r].owner)) \in Nat
    BY <1>2, LeaseNumbers
  <2> HIDE DEF recent, of
  <2>3. QED
    BY <2>1, <2>2, LeaseConstants
<1>4. ASSUME NEW from \in (1 - RateWindow)..LeaseClock
      PROVE  /\ Cardinality(within(from)) <= ClientLimit
             /\ \A o \in Drafters : Cardinality(of(within(from), o)) <= OwnerLimit
  BY DEF LeaseInv, RateIsLimited, Rows
<1>5. ASSUME NEW from \in (1 - RateWindow)..LeaseClock
      PROVE  /\ Cardinality(later(from)) <= ClientLimit
             /\ \A o \in Drafters : Cardinality(laterOf(later(from), o)) <= OwnerLimit
  <2>0. from \in Int /\ \A i \in DOMAIN leases : leases[i].created \in Nat
    BY <1>2, LeaseConstants, LeaseNumbers DEF LeaseRows
  <2>1. CASE from <= route[r].since /\ route[r].since < from + RateWindow
    <3>1. later(from) = within(from) \cup {n} /\ n \notin within(from)
      BY <1>1, <2>1
    <3>2. within(from) \subseteq recent
      BY <1>2, <2>0, <2>1, LeaseConstants
    <3>3. \A S, T : S \subseteq T /\ T \subseteq DOMAIN leases =>
            Cardinality(S) <= Cardinality(T) /\ Cardinality(S \cup {n}) = Cardinality(S) + 1
                                            /\ Cardinality(S) \in Nat /\ Cardinality(T) \in Nat
      <4> SUFFICES ASSUME NEW S, NEW T, S \subseteq T, T \subseteq DOMAIN leases
                   PROVE  /\ Cardinality(S) <= Cardinality(T) /\ Cardinality(S \cup {n}) = Cardinality(S) + 1
                          /\ Cardinality(S) \in Nat /\ Cardinality(T) \in Nat
        OBVIOUS
      <4>1. IsFiniteSet(T) /\ IsFiniteSet(S)
        BY <1>2, LeaseNumbers
      <4>2. n \notin S
        BY <1>1
      <4> HIDE DEF n
      <4>3. QED
        BY <4>1, <4>2, FS_Subset, FS_AddElement, FS_CardinalityType
    <3>4. Cardinality(later(from)) <= ClientLimit
      <4>1. recent \subseteq DOMAIN leases
        OBVIOUS
      <4>2. /\ Cardinality(within(from)) <= Cardinality(recent) /\ Cardinality(later(from)) = Cardinality(within(from)) + 1
            /\ Cardinality(within(from)) \in Nat /\ Cardinality(recent) \in Nat
        BY <3>1, <3>2, <3>3, <4>1
      <4> HIDE DEF within, later, recent
      <4>3. QED
        BY <4>2, <1>3, LeaseConstants
    <3>5. ASSUME NEW o \in Drafters PROVE Cardinality(laterOf(later(from), o)) <= OwnerLimit
      <4>1. CASE o = route[r].owner
        <5>1. laterOf(later(from), o) = of(within(from), o) \cup {n}
          BY <1>1, <3>1, <4>1
        <5>2. of(within(from), o) \subseteq of(recent, o) /\ of(recent, o) \subseteq DOMAIN leases
          BY <3>2
        <5>3. /\ Cardinality(of(within(from), o)) <= Cardinality(of(recent, o))
              /\ Cardinality(laterOf(later(from), o)) = Cardinality(of(within(from), o)) + 1
              /\ Cardinality(of(within(from), o)) \in Nat /\ Cardinality(of(recent, o)) \in Nat
          BY <5>1, <5>2, <3>3
        <5>4. Cardinality(of(recent, o)) < OwnerLimit
          BY <1>3, <4>1
        <5> HIDE DEF within, later, recent, of, laterOf
        <5>5. QED
          BY <5>3, <5>4, LeaseConstants
      <4>2. CASE o # route[r].owner
        <5>1. laterOf(later(from), o) = of(within(from), o)
          BY <1>1, <3>1, <4>2
        <5>2. QED
          BY <5>1, <1>4
      <4>3. QED
        BY <4>1, <4>2
    <3>6. QED
      BY <3>4, <3>5
  <2>2. CASE ~(from <= route[r].since /\ route[r].since < from + RateWindow)
    <3>1. later(from) = within(from)
      BY <1>1, <2>2
    <3>2. \A o \in Drafters : laterOf(later(from), o) = of(within(from), o)
      BY <1>1, <3>1
    <3>3. QED
      BY <3>1, <3>2, <1>4
  <2>3. QED
    BY <2>1, <2>2
<1>6. QED
  BY <1>5 DEF RateIsLimited, Rows

\* An owner that compiles is found busy: the row outlives the deadline of its route, and
\* the clock of the new request was read no later than now.
LEMMA OwnersAreBusy ==
  ASSUME LeaseInv, NEW r \in CompileRoutes, route[r].at = "admit", ~Busy(r),
         NEW q \in CompileRoutes, route[q].at = "compile"
  PROVE  route[q].owner # route[r].owner
<1> SUFFICES ASSUME route[q].owner = route[r].owner PROVE FALSE
  OBVIOUS
<1> DEFINE i == route[q].lease
<1>1. /\ i \in DOMAIN leases /\ leases[i].state = "pending" /\ leases[i].owner = route[q].owner
      /\ leases[i].expires = route[q].since + LeaseLifetime
  BY DEF LeaseInv, RoutesHoldLeases
<1>2. /\ route[r].since \in Nat /\ route[q].since \in Nat /\ moment \in Nat
      /\ route[r].since <= moment /\ moment <= route[q].since + RouteDuration
  BY DEF LeaseInv, LeaseTypeOK, RoutesAreTimely, CompileRouteStates
<1>3. leases[i].expires > route[r].since
  BY <1>1, <1>2, LeaseConstants
<1>4. i \in Rows(LAMBDA l : /\ l.owner = route[r].owner /\ l.state = "pending"
                            /\ l.expires > route[r].since)
  BY <1>1, <1>3 DEF Rows
<1>5. QED
  BY <1>4 DEF Busy

\* A request that is admitted takes a row of its own; one whose time is up leaves it.
LEMMA InsertInv ==
  ASSUME LeaseInv, NEW r \in CompileRoutes, route[r].at = "admit", Admits(r), InsertLease(r),
         UNCHANGED moment,
         NEW STATE v, v = NoRoute \/ v = [route[r] EXCEPT !.at = "compile", !.lease = Len(leases) + 1],
         route' = [route EXCEPT ![r] = v]
  PROVE  LeaseInv'
<1> DEFINE n == Len(leases) + 1
<1>1. /\ leases' \in Seq(LeaseRows)
      /\ DOMAIN leases' = DOMAIN leases \cup {n} /\ n \notin DOMAIN leases
      /\ \A i \in DOMAIN leases : leases'[i] = leases[i]
      /\ leases'[n] = NewLease(r)
  BY InsertedLast
<1>2. /\ route \in [CompileRoutes -> CompileRouteStates] /\ route[r] \in CompileRouteStates /\ n \in Nat
      /\ route[r].owner \in Drafters
  <2>1. n \in Nat
    BY LeaseNumbers DEF LeaseInv
  <2>2. QED
    BY <2>1 DEF LeaseInv, LeaseTypeOK, CompileRouteStates
<1> HIDE DEF n
<1>3. v \in CompileRouteStates /\ v.at \in {"idle", "compile"}
      /\ (v.at = "compile" => v.lease = n /\ v.owner = route[r].owner /\ v.since = route[r].since)
  <2>1. CASE v = NoRoute
    BY <2>1 DEF CompileRouteStates, NoRoute
  <2>2. CASE v = [route[r] EXCEPT !.at = "compile", !.lease = n]
    BY <1>2, <2>2 DEF CompileRouteStates
  <2>3. QED
    BY <2>1, <2>2 DEF n
<1>4. route'[r] = v /\ \A q \in CompileRoutes : q # r => route'[q] = route[q]
  BY <1>2
<1>5. LeaseTypeOK'
  BY <1>1, <1>2, <1>3 DEF LeaseInv, LeaseTypeOK
<1>6. RoutesAreTimely'
  BY <1>3, <1>4 DEF LeaseInv, RoutesAreTimely
<1>7. RoutesHoldLeases'
  <2>1. \A q \in CompileRoutes : q # r /\ route[q].at \in {"compile", "fail"} =>
          route[q].lease \in DOMAIN leases /\ route[q].lease # n
    BY <1>1 DEF LeaseInv, RoutesHoldLeases
  <2>2. /\ NewLease(r).state = "pending" /\ NewLease(r).owner = route[r].owner
        /\ NewLease(r).expires = route[r].since + LeaseLifetime
    BY DEF NewLease
  <2>3. \A q \in CompileRoutes : route'[q].at \in {"compile", "fail"} => route'[q].lease \in DOMAIN leases'
    BY <1>1, <1>3, <1>4, <2>1
  <2>4. ASSUME NEW q \in CompileRoutes, route'[q].at = "compile"
        PROVE  LET l == leases'[route'[q].lease] IN
               l.state = "pending" /\ l.owner = route'[q].owner /\ l.expires = route'[q].since + LeaseLifetime
    <3>1. CASE q = r
      BY <1>1, <1>3, <1>4, <2>2, <2>4, <3>1
    <3>2. CASE q # r
      BY <1>1, <1>4, <2>1, <2>4, <3>2 DEF LeaseInv, RoutesHoldLeases
    <3>3. QED
      BY <3>1, <3>2
  <2>5. ASSUME NEW p \in CompileRoutes, NEW q \in CompileRoutes,
               route'[p].at \in {"compile", "fail"}, route'[q].at \in {"compile", "fail"},
               route'[p].lease = route'[q].lease
        PROVE  p = q
    BY <1>3, <1>4, <2>1, <2>5 DEF LeaseInv, RoutesHoldLeases
  <2>6. QED
    BY <2>3, <2>4, <2>5 DEF RoutesHoldLeases
<1>8. OneCompilationPerOwner'
  <2>1. \A q \in CompileRoutes : route[q].at = "compile" => route[q].owner # route[r].owner
    BY OwnersAreBusy DEF Admits
  <2>2. QED
    BY <1>3, <1>4, <2>1 DEF LeaseInv, OneCompilationPerOwner, IsAt
<1>9. RateIsLimited'
  BY InsertKeepsRate DEF Admits
<1>10. QED
  BY <1>5, <1>6, <1>7, <1>8, <1>9 DEF LeaseInv

\* A request ends the row it holds, and no other; when and whose it is stays.
LEMMA EndInv ==
  ASSUME LeaseInv, NEW r \in CompileRoutes, route[r].at \in {"compile", "fail"},
         NEW state \in {"completed", "failed"}, NEW until \in Nat, End(route[r].lease, state, until),
         UNCHANGED moment, NEW STATE v, v \in CompileRouteStates, v.at \in {"idle", "fail"},
         v.at = "fail" => v.lease = route[r].lease /\ v.since = route[r].since,
         route' = [route EXCEPT ![r] = v]
  PROVE  LeaseInv'
<1> DEFINE n == route[r].lease
<1>1. /\ route \in [CompileRoutes -> CompileRouteStates]
      /\ route'[r] = v /\ \A q \in CompileRoutes : q # r => route'[q] = route[q]
      /\ leases \in Seq(LeaseRows) /\ moment \in Nat
  BY DEF LeaseInv, LeaseTypeOK
<1>2. DOMAIN leases = 1..Len(leases) /\ n \in DOMAIN leases /\ leases[n] \in LeaseRows
  BY LeaseNumbers DEF LeaseInv, RoutesHoldLeases
<1>3. leases' = [leases EXCEPT ![n] = [leases[n] EXCEPT !.state = state, !.ended = moment, !.until = until]]
  BY DEF End
<1>4. /\ leases' \in Seq(LeaseRows) /\ DOMAIN leases' = DOMAIN leases
      /\ \A i \in DOMAIN leases : i # n => leases'[i] = leases[i]
      /\ leases'[n].created = leases[n].created /\ leases'[n].owner = leases[n].owner
  <2>1. [leases[n] EXCEPT !.state = state, !.ended = moment, !.until = until] \in LeaseRows
    BY <1>1, <1>2 DEF LeaseRows
  <2>2. /\ [leases[n] EXCEPT !.state = state, !.ended = moment, !.until = until].created = leases[n].created
        /\ [leases[n] EXCEPT !.state = state, !.ended = moment, !.until = until].owner = leases[n].owner
    BY <1>2 DEF LeaseRows
  <2> DEFINE row == [leases[n] EXCEPT !.state = state, !.ended = moment, !.until = until]
  <2> HIDE DEF row, n
  <2>3. QED
    BY <1>1, <1>2, <1>3, <2>1, <2>2 DEF row
<1> HIDE DEF n
<1>5. LeaseTypeOK'
  BY <1>1, <1>4 DEF LeaseInv, LeaseTypeOK
<1>6. RoutesAreTimely'
  BY <1>1 DEF LeaseInv, RoutesAreTimely
<1>7. RoutesHoldLeases'
  <2>1. \A q \in CompileRoutes : q # r /\ route[q].at \in {"compile", "fail"} => route[q].lease # n
    BY DEF LeaseInv, RoutesHoldLeases, n
  <2>2. \A q \in CompileRoutes : route'[q].at \in {"compile", "fail"} =>
          route[q].at \in {"compile", "fail"} /\ route'[q].lease = route[q].lease
    BY <1>1
  <2>3. \A q \in CompileRoutes : route'[q].at = "compile" => q # r
    BY <1>1
  <2>4. QED
    BY <1>1, <1>4, <2>1, <2>2, <2>3 DEF LeaseInv, RoutesHoldLeases
<1>8. OneCompilationPerOwner'
  BY <1>1 DEF LeaseInv, OneCompilationPerOwner, IsAt
<1>9. RateIsLimited'
  <2>1. \A i \in DOMAIN leases : leases'[i].created = leases[i].created /\ leases'[i].owner = leases[i].owner
    BY <1>4
  <2>2. \A from : {i \in DOMAIN leases' : from <= leases'[i].created /\ leases'[i].created < from + RateWindow}
                = {i \in DOMAIN leases : from <= leases[i].created /\ leases[i].created < from + RateWindow}
    BY <1>4, <2>1
  <2>3. \A S, o : S \subseteq DOMAIN leases =>
          {i \in S : leases'[i].owner = o} = {i \in S : leases[i].owner = o}
    BY <2>1
  <2>4. \A from \in (1 - RateWindow)..LeaseClock :
          LET within == {i \in DOMAIN leases : from <= leases[i].created /\ leases[i].created < from + RateWindow} IN
          /\ Cardinality(within) <= ClientLimit
          /\ \A o \in Drafters : Cardinality({i \in within : leases[i].owner = o}) <= OwnerLimit
    BY DEF LeaseInv, RateIsLimited, Rows
  <2>5. \A from \in (1 - RateWindow)..LeaseClock :
          LET within == {i \in DOMAIN leases : from <= leases[i].created /\ leases[i].created < from + RateWindow} IN
          /\ Cardinality(within) <= ClientLimit
          /\ \A o \in Drafters : Cardinality({i \in within : leases'[i].owner = o}) <= OwnerLimit
    <3> SUFFICES ASSUME NEW from \in (1 - RateWindow)..LeaseClock
                 PROVE  LET within == {i \in DOMAIN leases : /\ from <= leases[i].created
                                                            /\ leases[i].created < from + RateWindow} IN
                        /\ Cardinality(within) <= ClientLimit
                        /\ \A o \in Drafters : Cardinality({i \in within : leases'[i].owner = o}) <= OwnerLimit
      OBVIOUS
    <3> DEFINE rows == {i \in DOMAIN leases : from <= leases[i].created /\ leases[i].created < from + RateWindow}
    <3>1. /\ Cardinality(rows) <= ClientLimit
          /\ \A o \in Drafters : Cardinality({i \in rows : leases[i].owner = o}) <= OwnerLimit
      BY <2>4
    <3>2. rows \subseteq DOMAIN leases
      OBVIOUS
    <3> HIDE DEF rows
    <3>3. \A o : {i \in rows : leases'[i].owner = o} = {i \in rows : leases[i].owner = o}
      BY <2>3, <3>2
    <3>4. /\ Cardinality(rows) <= ClientLimit
          /\ \A o \in Drafters : Cardinality({i \in rows : leases'[i].owner = o}) <= OwnerLimit
      BY <3>1, <3>3
    <3>5. QED
      BY <3>4 DEF rows
  <2>6. QED
    BY <2>2, <2>5 DEF RateIsLimited, Rows
<1>10. QED
  BY <1>5, <1>6, <1>7, <1>8, <1>9 DEF LeaseInv

\* A request that goes on to another await, with a row.
GoneOn(r, at, lease) == [route[r] EXCEPT !.at = at, !.lease = lease]

\* Only the await and the row differ.
LEMMA GoneOnValue ==
  ASSUME LeaseInv, NEW r \in CompileRoutes, route[r].at # "idle",
         NEW at \in {"idle", "admit", "cached", "compile", "fail"}, NEW lease \in Nat
  PROVE  LET v == GoneOn(r, at, lease) IN
         v \in CompileRouteStates /\ v.at = at /\ v.lease = lease /\ v.since = route[r].since
<1>1. route[r] \in CompileRouteStates
  BY DEF LeaseInv, LeaseTypeOK
<1>2. QED
  BY <1>1 DEF CompileRouteStates, GoneOn

\* A failure that is still to be stored is of the same row.
LEMMA FailsWithItsRow ==
  ASSUME LeaseInv, NEW r \in CompileRoutes, Await(r, "fail")
  PROVE  /\ route' = [route EXCEPT ![r] = GoneOn(r, "fail", route[r].lease)]
         /\ route[r].lease \in Nat
<1>1. route[r] \in CompileRouteStates
  BY DEF LeaseInv, LeaseTypeOK
<1>2. [route[r] EXCEPT !.at = "fail"] = GoneOn(r, "fail", route[r].lease) /\ route[r].lease \in Nat
  BY <1>1 DEF CompileRouteStates, GoneOn
<1>3. route' = [route EXCEPT ![r] = [route[r] EXCEPT !.at = "fail"]]
  BY DEF Await
<1>4. QED
  BY <1>2, <1>3

\* A request that answers, whatever it had read.
LEMMA RespondInv ==
  ASSUME LeaseInv, NEW r \in CompileRoutes, Respond(r), UNCHANGED <<moment, leases>>
  PROVE  LeaseInv'
<1>1. NoRoute \in CompileRouteStates /\ NoRoute.at = "idle"
  BY DEF NoRoute, CompileRouteStates
<1>2. QED
  BY <1>1, RouteStops DEF Respond

\* A compilation that failed, and whose failure is still to be stored.
LEMMA FailingInv ==
  ASSUME LeaseInv, NEW r \in CompileRoutes, route[r].at = "compile", Await(r, "fail"),
         UNCHANGED <<moment, leases>>
  PROVE  LeaseInv'
<1> DEFINE v == GoneOn(r, "fail", route[r].lease)
<1>1. route' = [route EXCEPT ![r] = v] /\ route[r].lease \in Nat
  BY FailsWithItsRow
<1>2. v \in CompileRouteStates /\ v.at = "fail" /\ v.lease = route[r].lease /\ v.since = route[r].since
  BY <1>1, GoneOnValue
<1>3. route[r].since <= moment /\ moment <= route[r].since + RouteDuration
  BY DEF LeaseInv, RoutesAreTimely
<1> HIDE DEF v
<1>4. QED
  BY <1>1, <1>2, <1>3, RouteStops

\* A row is ended by an answer, or by a deadline whose failure is still to be stored.
LEMMA EndedInv ==
  ASSUME LeaseInv, NEW r \in CompileRoutes, route[r].at \in {"compile", "fail"},
         NEW state \in {"completed", "failed"}, NEW until \in Nat, End(route[r].lease, state, until),
         UNCHANGED moment, Respond(r) \/ Await(r, "fail")
  PROVE  LeaseInv'
<1>1. CASE Respond(r)
  <2>1. NoRoute \in CompileRouteStates /\ NoRoute.at = "idle"
    BY DEF NoRoute, CompileRouteStates
  <2>2. route' = [route EXCEPT ![r] = NoRoute]
    BY <1>1 DEF Respond
  <2>3. QED
    BY <2>1, <2>2, EndInv
<1>2. CASE Await(r, "fail")
  <2> DEFINE v == GoneOn(r, "fail", route[r].lease)
  <2>1. route' = [route EXCEPT ![r] = v] /\ route[r].lease \in Nat
    BY <1>2, FailsWithItsRow
  <2>2. v \in CompileRouteStates /\ v.at = "fail" /\ v.lease = route[r].lease /\ v.since = route[r].since
    BY <2>1, GoneOnValue
  <2> HIDE DEF v
  <2>3. QED
    BY <2>1, <2>2, EndInv
<1>3. QED
  BY <1>1, <1>2

\* Every await of a request keeps the invariant: one case of LeaseStep each.
LEMMA LeaseStepInv ==
  ASSUME LeaseInv, NEW r \in CompileRoutes, LeaseStep(r)
  PROVE  LeaseInv'
<1>0. moment \in Nat /\ EvidenceLifetimes \subseteq Nat
  BY LeaseAssumption DEF LeaseInv, LeaseTypeOK
<1>1. ASSUME NEW o \in Drafters, NEW g \in Goals, PostCompile(r, o, g) PROVE LeaseInv'
  <2> DEFINE v == [NoRoute EXCEPT !.at = "admit", !.owner = o, !.goal = g, !.since = moment]
  <2>1. v \in CompileRouteStates /\ v.at = "admit" /\ v.since = moment
    BY <1>0 DEF NoRoute, CompileRouteStates
  <2>2. route' = [route EXCEPT ![r] = v] /\ UNCHANGED <<moment, leases>>
    BY <1>1 DEF PostCompile
  <2>3. moment <= moment /\ moment <= moment + RouteDuration
    BY <1>0, LeaseConstants
  <2> HIDE DEF v
  <2>4. QED
    BY <2>1, <2>2, <2>3, RouteStops
<1>2. CASE BeginCompilation(r)
  <2>1. route[r].at = "admit" /\ UNCHANGED moment
    BY <1>2 DEF BeginCompilation, IsAt
  <2>2. CASE Hit(r) /\ route' = [route EXCEPT ![r].at = "cached", ![r].lease = CachedRow(r)] /\ UNCHANGED leases
    <3> DEFINE v == GoneOn(r, "cached", CachedRow(r))
    <3>1. route' = [route EXCEPT ![r] = v]
      BY <2>2 DEF GoneOn
    <3>2. CachedRow(r) \in Nat
      <4>1. CachedRow(r) = 0 \/ CachedRow(r) \in DOMAIN leases
        <5> DEFINE rows == Rows(LAMBDA l : /\ l.owner = route[r].owner /\ l.goal = route[r].goal
                                           /\ l.state = "completed"
                                           /\ l.ended > route[r].since - CacheLifetime)
        <5>1. rows \subseteq DOMAIN leases
          BY DEF Rows
        <5>2. CachedRow(r) = IF rows = {} THEN 0
                             ELSE CHOOSE i \in rows : \A j \in rows : leases[j].ended <= leases[i].ended
          BY DEF CachedRow
        <5>3. rows # {} => \E i \in rows : \A j \in rows : leases[j].ended <= leases[i].ended
          <6>1. \A i \in rows : leases[i].ended \in Nat
            BY <5>1, LeaseNumbers DEF LeaseInv, LeaseRows
          <6>2. IsFiniteSet(rows)
            BY <5>1, LeaseNumbers DEF LeaseInv
          <6> DEFINE ended == [i \in rows |-> leases[i].ended]
          <6>3. ended \in [rows -> Nat] /\ \A i \in rows : ended[i] = leases[i].ended
            BY <6>1
          <6> HIDE DEF rows, ended
          <6>4. rows # {} => \E i \in rows : \A j \in rows : ended[j] <= ended[i]
            BY <6>2, <6>3, GreatestExists
          <6>5. QED
            BY <6>3, <6>4
        <5> HIDE DEF rows
        <5>4. QED
          BY <5>1, <5>2, <5>3
      <4>2. QED
        BY <4>1, LeaseNumbers DEF LeaseInv
    <3>3. v \in CompileRouteStates /\ v.at = "cached" /\ v.since = route[r].since
      BY <2>1, <3>2, GoneOnValue
    <3>4. route[r].since <= moment /\ moment <= route[r].since + RouteDuration
      BY <2>1 DEF LeaseInv, RoutesAreTimely
    <3> HIDE DEF v
    <3>5. QED
      BY <2>1, <2>2, <3>1, <3>3, <3>4, RouteStops
  <2>3. CASE Respond(r) /\ UNCHANGED leases
    BY <2>1, <2>3, RespondInv
  <2>4. CASE /\ Admits(r) /\ InsertLease(r)
             /\ route' = [route EXCEPT ![r].at = "compile", ![r].lease = Len(leases) + 1]
    <3> DEFINE v == [route[r] EXCEPT !.at = "compile", !.lease = Len(leases) + 1]
    <3>1. route' = [route EXCEPT ![r] = v]
      BY <2>4
    <3>2. v = [route[r] EXCEPT !.at = "compile", !.lease = Len(leases) + 1]
      OBVIOUS
    <3> HIDE DEF v
    <3>3. QED
      BY <2>1, <2>4, <3>1, <3>2, InsertInv
  <2>5. QED
    BY <1>2, <2>2, <2>3, <2>4 DEF BeginCompilation
<1>3. CASE DeadlineAtAdmission(r)
  <2>1. CASE Admits(r)
    BY <1>3, <2>1, InsertInv DEF DeadlineAtAdmission, IsAt, Respond
  <2>2. CASE ~Admits(r)
    BY <1>3, <2>2, RespondInv DEF DeadlineAtAdmission
  <2>3. QED
    BY <2>1, <2>2
<1>4. CASE ServeCached(r)
  BY <1>4, RespondInv DEF ServeCached
<1>5. ASSUME NEW life \in EvidenceLifetimes, CompleteCompilation(r, life) PROVE LeaseInv'
  <2>1. moment + life \in Nat
    BY <1>0
  <2>2. QED
    BY <1>5, <2>1, FailingInv, EndedInv DEF CompleteCompilation, IsAt
<1>6. ASSUME NEW late \in BOOLEAN, CompilationFails(r, late) PROVE LeaseInv'
  <2>1. \A life \in EvidenceLifetimes : moment + life \in Nat
    BY <1>0
  <2>2. QED
    BY <1>6, <2>1, FailingInv, EndedInv DEF CompilationFails, IsAt
<1>7. CASE FailCompilation(r)
  BY <1>7, RespondInv, EndedInv DEF FailCompilation, IsAt
<1>8. CASE RouteEnds(r)
  BY <1>8, RespondInv DEF RouteEnds
<1>9. QED
  BY <1>1, <1>2, <1>3, <1>4, <1>5, <1>6, <1>7, <1>8 DEF LeaseStep

\* The clock stops for no request, and ends the ones whose time is up first.
LEMMA LeaseTickInv == ASSUME LeaseInv, LeaseTick PROVE LeaseInv'
<1>1. moment \in Nat /\ moment' = moment + 1 /\ UNCHANGED <<leases, route>>
      /\ \A r \in CompileRoutes : route[r].at # "idle" => moment < route[r].since + RouteDuration
  BY DEF LeaseTick, IsAt, LeaseInv, LeaseTypeOK
<1>2. \A r \in CompileRoutes : route[r].since \in Nat
  BY DEF LeaseInv, LeaseTypeOK, CompileRouteStates
<1>3. LeaseTypeOK'
  BY <1>1 DEF LeaseInv, LeaseTypeOK
<1>4. RoutesAreTimely'
  BY <1>1, <1>2, LeaseConstants DEF LeaseInv, RoutesAreTimely
<1>5. RoutesHoldLeases' /\ OneCompilationPerOwner'
  BY <1>1 DEF LeaseInv, RoutesHoldLeases, OneCompilationPerOwner, IsAt
<1>6. RateIsLimited'
  BY <1>1 DEF LeaseInv, RateIsLimited, Rows
<1>7. QED
  BY <1>3, <1>4, <1>5, <1>6 DEF LeaseInv

\* The invariant holds throughout.
LEMMA LeaseAlways == LeaseSpec => []LeaseInv
<1>1. LeaseInv /\ [LeaseNext]_leaseVars => LeaseInv'
  <2> SUFFICES ASSUME LeaseInv, [LeaseNext]_leaseVars PROVE LeaseInv'
    OBVIOUS
  <2>1. CASE UNCHANGED leaseVars
    BY <2>1 DEF leaseVars, LeaseInv, LeaseTypeOK, RoutesAreTimely, RoutesHoldLeases,
                OneCompilationPerOwner, RateIsLimited, Rows, IsAt
  <2>2. QED
    BY <2>1, LeaseTickInv, LeaseStepInv DEF LeaseNext
<1>2. QED
  BY <1>1, LeaseInitInv, PTL DEF LeaseSpec

\* No two requests compile for one owner at once, for any number of requests and owners
\* and however late their transactions run (wallet-auth.ts, beginCompilation).
THEOREM OneCompilation == LeaseSpec => []OneCompilationPerOwner
<1>1. LeaseInv => OneCompilationPerOwner
  BY DEF LeaseInv
<1>2. QED
  BY <1>1, LeaseAlways, PTL

\* In no minute an owner, or a client, has more attempts than its limit, although the
\* rows of a minute are inserted in another order than their clocks were read
\* (wallet-auth.ts, beginCompilation).
THEOREM AttemptsAreLimited == LeaseSpec => []RateIsLimited
<1>1. LeaseInv => RateIsLimited
  BY DEF LeaseInv
<1>2. QED
  BY <1>1, LeaseAlways, PTL

-----------------------------------------------------------------------------
(* IntentComposer *)

Ages == {"none", "live", "old"}

Drafts ==
  [goal : GoalTexts \cup {"none"}, owner : Accounts \cup {"none"}, receipt : Ages, evidence : Ages]

Posts ==
  [at : {"sign", "verify", "persist", "store", "answered"}, owner : Accounts,
   goal : GoalTexts, draft : Drafts]

Pages ==
  [goal : GoalTexts, step : {"goal", "review", "left"},
   alert : {"none", "draft", "wallet", "unpublished", "lost"}, waits : Nat]

ComposerTypeOK ==
  /\ account \in Accounts \cup {"none"}
  /\ page \in Pages
  /\ compiling \in [goal : GoalTexts \cup {"none"}, owner : Accounts \cup {"none"}]
  /\ draft \in Drafts
  /\ posts \in Seq(Posts)
  /\ published \subseteq DOMAIN posts

\* A publication that the route has verified has a draft of its own account: the
\* receipt is read for the owner whose signature was verified.
VerifiedIsDrafters ==
  \A i \in DOMAIN posts : posts[i].at \in {"persist", "store"} => posts[i].owner = posts[i].draft.owner

ComposerInv == ComposerTypeOK /\ VerifiedIsDrafters /\ PublishedByItsDrafter

\* Nothing has been drafted or posted.
LEMMA ComposerInitInv == ComposerInit => ComposerInv
<1> SUFFICES ASSUME ComposerInit PROVE ComposerInv
  OBVIOUS
<1>1. ComposerTypeOK
  BY DEF ComposerInit, ComposerTypeOK, Pages, NotCompiling, NoDraft, Drafts, Ages
<1>2. VerifiedIsDrafters /\ PublishedByItsDrafter
  BY DEF ComposerInit, VerifiedIsDrafters, PublishedByItsDrafter
<1>3. QED
  BY <1>1, <1>2 DEF ComposerInv

\* The publications are a sequence.
LEMMA PostEntries ==
  ASSUME ComposerTypeOK
  PROVE  /\ DOMAIN posts = 1..Len(posts) /\ Len(posts) \in Nat
         /\ \A i \in DOMAIN posts : posts[i] \in Posts
<1>1. posts \in Seq(Posts)
  BY DEF ComposerTypeOK
<1>2. DOMAIN posts = 1..Len(posts) /\ Len(posts) \in Nat
  BY <1>1
<1>3. \A i \in 1..Len(posts) : posts[i] \in Posts
  BY <1>1, ElementOfSeq
<1>4. QED
  BY <1>2, <1>3

\* One publication goes on to another await; only a readable receipt makes it verified.
LEMMA ReachesInv ==
  ASSUME ComposerInv, NEW i \in DOMAIN posts,
         NEW at \in {"sign", "verify", "persist", "store", "answered"}, Reaches(i, at),
         at \in {"persist", "store"} => posts[i].owner = posts[i].draft.owner,
         \/ UNCHANGED published
         \/ published' = published \cup {i} /\ posts[i].owner = posts[i].draft.owner,
         UNCHANGED <<account, compiling, draft>>,
         page' \in Pages
  PROVE  ComposerInv'
<1>1. /\ DOMAIN posts = 1..Len(posts) /\ Len(posts) \in Nat /\ posts[i] \in Posts
      /\ posts \in Seq(Posts)
  BY PostEntries DEF ComposerInv, ComposerTypeOK
<1> DEFINE row == [posts[i] EXCEPT !.at = at]
<1>2. /\ row \in Posts /\ row.at = at /\ row.owner = posts[i].owner /\ row.draft = posts[i].draft
  BY <1>1 DEF Posts
<1>3. posts' = [posts EXCEPT ![i] = row]
  BY DEF Reaches
<1> HIDE DEF row
<1>4. /\ posts' \in Seq(Posts) /\ DOMAIN posts' = DOMAIN posts /\ posts'[i] = row
      /\ \A j \in DOMAIN posts : j # i => posts'[j] = posts[j]
  BY <1>1, <1>2, <1>3
<1>5. ComposerTypeOK'
  BY <1>4 DEF ComposerInv, ComposerTypeOK
<1>6. VerifiedIsDrafters'
  BY <1>2, <1>4 DEF ComposerInv, VerifiedIsDrafters
<1>7. PublishedByItsDrafter'
  BY <1>2, <1>4 DEF ComposerInv, ComposerTypeOK, PublishedByItsDrafter
<1>8. QED
  BY <1>5, <1>6, <1>7 DEF ComposerInv

\* What the page holds after it heard of a publication.
LEMMA PageHearsType ==
  ASSUME ComposerTypeOK, NEW i, NEW alert \in {"wallet", "unpublished", "lost"}, PageHears(i, alert)
  PROVE  page' \in Pages
BY DEF ComposerTypeOK, PageHears, Pages

\* The page and the wallet do not touch what is posted.
LEMMA PageInv ==
  ASSUME ComposerInv,
         \/ \E a \in Accounts \cup {"none"} : SwitchAccount(a)
         \/ \E g \in GoalTexts : EditGoal(g)
         \/ CompileGoal \/ EditAgain
         \/ \E reviewed \in BOOLEAN : CompileAnswers(reviewed)
         \/ \E i \in DOMAIN posts : AnswerLost(i)
  PROVE  ComposerInv'
<1>1. UNCHANGED <<posts, published>>
  BY DEF SwitchAccount, EditGoal, CompileGoal, EditAgain, CompileAnswers, AnswerLost
<1>2. VerifiedIsDrafters' /\ PublishedByItsDrafter'
  BY <1>1 DEF ComposerInv, VerifiedIsDrafters, PublishedByItsDrafter
<1>3. ComposerTypeOK'
  <2> USE DEF ComposerInv, ComposerTypeOK
  <2>1. CASE \E a \in Accounts \cup {"none"} : SwitchAccount(a)
    BY <2>1 DEF SwitchAccount
  <2>2. CASE \E g \in GoalTexts : EditGoal(g)
    BY <2>2 DEF EditGoal, Pages
  <2>3. CASE CompileGoal
    BY <2>3 DEF CompileGoal, Pages
  <2>4. CASE EditAgain
    BY <2>4 DEF EditAgain, Pages, Drafts, Ages
  <2>5. CASE \E reviewed \in BOOLEAN : CompileAnswers(reviewed)
    BY <2>5 DEF CompileAnswers, Pages, NotCompiling, Drafts, Ages
  <2>6. CASE \E i \in DOMAIN posts : AnswerLost(i)
    BY <2>6, PageHearsType DEF AnswerLost
  <2>7. QED
    BY <2>1, <2>2, <2>3, <2>4, <2>5, <2>6
<1>4. QED
  BY <1>2, <1>3 DEF ComposerInv

\* A receipt or evidence that grows old leaves the accounts as they were.
LEMMA DraftAgesInv ==
  ASSUME ComposerInv, NEW which \in {"receipt", "evidence"}, DraftAges(which)
  PROVE  ComposerInv'
<1>1. DOMAIN posts = 1..Len(posts) /\ Len(posts) \in Nat /\ \A i \in DOMAIN posts : posts[i] \in Posts
  BY PostEntries DEF ComposerInv
<1>2. \A d \in Drafts : LET e == [d EXCEPT ![which] = "old"] IN e \in Drafts /\ e.owner = d.owner
  <2>1. CASE which = "receipt"
    BY <2>1 DEF Drafts, Ages
  <2>2. CASE which = "evidence"
    BY <2>2 DEF Drafts, Ages
  <2>3. QED
    BY <2>1, <2>2
<1> DEFINE Aged(p) == IF p.draft[which] = "live" THEN [p EXCEPT !.draft[which] = "old"] ELSE p
<1>3. \A p \in Posts : /\ Aged(p) \in Posts /\ Aged(p).at = p.at /\ Aged(p).owner = p.owner
                       /\ Aged(p).draft.owner = p.draft.owner
  <2> SUFFICES ASSUME NEW p \in Posts
               PROVE  /\ Aged(p) \in Posts /\ Aged(p).at = p.at /\ Aged(p).owner = p.owner
                      /\ Aged(p).draft.owner = p.draft.owner
    OBVIOUS
  <2> DEFINE e == [p.draft EXCEPT ![which] = "old"]
  <2>1. p.draft \in Drafts
    BY DEF Posts
  <2>2. e \in Drafts /\ e.owner = p.draft.owner
    BY <1>2, <2>1
  <2>3. [p EXCEPT !.draft[which] = "old"] = [p EXCEPT !.draft = e]
    OBVIOUS
  <2> HIDE DEF e
  <2>4. QED
    BY <2>2, <2>3 DEF Posts
<1>4. posts' = [i \in DOMAIN posts |-> Aged(posts[i])]
  BY DEF DraftAges
<1> HIDE DEF Aged
<1>5. /\ DOMAIN posts' = DOMAIN posts /\ posts' \in Seq(Posts)
      /\ \A i \in DOMAIN posts : /\ posts'[i].at = posts[i].at /\ posts'[i].owner = posts[i].owner
                                 /\ posts'[i].draft.owner = posts[i].draft.owner
  BY <1>1, <1>3, <1>4
<1>6. draft' \in Drafts /\ UNCHANGED <<account, page, compiling, published>>
  BY <1>2 DEF ComposerInv, ComposerTypeOK, DraftAges
<1>7. ComposerTypeOK'
  BY <1>5, <1>6 DEF ComposerInv, ComposerTypeOK
<1>8. VerifiedIsDrafters' /\ PublishedByItsDrafter'
  BY <1>5, <1>6 DEF ComposerInv, ComposerTypeOK, VerifiedIsDrafters, PublishedByItsDrafter
<1>9. QED
  BY <1>7, <1>8 DEF ComposerInv

\* A new publication is verified later; its account may not be the draft's.
LEMMA SubmitInv ==
  ASSUME ComposerInv, Submit
  PROVE  ComposerInv'
<1> DEFINE new == [at |-> "sign", owner |-> account, goal |-> page.goal, draft |-> draft]
<1>1. posts \in Seq(Posts) /\ new \in Posts /\ new.at = "sign"
  BY DEF ComposerInv, ComposerTypeOK, Pages, Posts, Submit
<1>2. posts' = Append(posts, new) /\ UNCHANGED <<account, compiling, draft, published>>
  BY DEF Submit
<1> HIDE DEF new
<1>3. /\ DOMAIN posts' = DOMAIN posts \cup {Len(posts) + 1} /\ Len(posts) + 1 \notin DOMAIN posts
      /\ posts' \in Seq(Posts) /\ posts'[Len(posts) + 1] = new /\ Len(posts) \in Nat
      /\ \A i \in DOMAIN posts : posts'[i] = posts[i]
  BY <1>1, <1>2
<1>4. page' \in Pages
  <2>1. page \in Pages /\ Len(posts) + 1 \in Nat
    BY <1>3 DEF ComposerInv, ComposerTypeOK
  <2>2. page' = [page EXCEPT !.alert = "none", !.waits = Len(posts) + 1]
    BY DEF Submit
  <2>3. QED
    BY <2>1, <2>2 DEF Pages
<1>5. ComposerTypeOK'
  BY <1>2, <1>3, <1>4 DEF ComposerInv, ComposerTypeOK
<1>6. VerifiedIsDrafters' /\ PublishedByItsDrafter'
  BY <1>1, <1>2, <1>3 DEF ComposerInv, ComposerTypeOK, VerifiedIsDrafters, PublishedByItsDrafter
<1>7. QED
  BY <1>5, <1>6 DEF ComposerInv

\* What the wallet and the route do with a publication.
LEMMA RouteInv ==
  ASSUME ComposerInv, NEW i \in DOMAIN posts, NEW yes \in BOOLEAN,
         SignIntent(i, yes) \/ VerifyIntent(i) \/ PersistIntent(i, yes) \/ StoreAndAnswer(i, yes)
  PROVE  ComposerInv'
<1>0. ComposerTypeOK
  BY DEF ComposerInv
<1>p. page \in Pages
  BY DEF ComposerInv, ComposerTypeOK
<1>1. CASE SignIntent(i, yes)
  BY <1>0, <1>1, <1>p, PageHearsType, ReachesInv DEF SignIntent
<1>2. CASE VerifyIntent(i)
  <2>1. CASE ReceiptReadable(posts[i].draft, posts[i].owner)
    BY <1>2, <1>p, <2>1, ReachesInv DEF VerifyIntent, ReceiptReadable
  <2>2. CASE ~ReceiptReadable(posts[i].draft, posts[i].owner)
    BY <1>0, <1>2, <2>2, PageHearsType, ReachesInv DEF VerifyIntent, AnswersUnpublished
  <2>3. QED
    BY <2>1, <2>2
<1>3. CASE PersistIntent(i, yes)
  <2>1. posts[i].owner = posts[i].draft.owner
    BY <1>3 DEF PersistIntent, ComposerInv, VerifiedIsDrafters
  <2>2. QED
    BY <1>0, <1>3, <1>p, <2>1, PageHearsType, ReachesInv DEF PersistIntent, AnswersUnpublished
<1>4. CASE StoreAndAnswer(i, yes)
  <2>1. CASE yes
    <3>1. page' \in Pages
      <4>1. page' = page \/ page' = [page EXCEPT !.step = "left", !.waits = 0]
        BY <1>4, <2>1 DEF StoreAndAnswer
      <4>2. [page EXCEPT !.step = "left", !.waits = 0] \in Pages
        BY <1>p DEF Pages
      <4>3. QED
        BY <1>p, <4>1, <4>2
    <3>2. QED
      BY <1>4, <2>1, <3>1, ReachesInv DEF StoreAndAnswer
  <2>2. CASE ~yes
    BY <1>0, <1>4, <2>2, PageHearsType, ReachesInv DEF StoreAndAnswer, AnswersUnpublished
  <2>3. QED
    BY <2>1, <2>2
<1>5. QED
  BY <1>1, <1>2, <1>3, <1>4

\* An intent is published by the account whose draft was reviewed, for any accounts,
\* goals and number of publications, and wherever the wallet was switched to
\* (app/api/intents/route, readCompletedCompilation).
THEOREM DraftersPublish == ComposerSpec => []PublishedByItsDrafter
<1>1. ComposerInv /\ [ComposerNext]_composerVars => ComposerInv'
  <2> SUFFICES ASSUME ComposerInv, [ComposerNext]_composerVars PROVE ComposerInv'
    OBVIOUS
  <2>1. CASE UNCHANGED composerVars
    BY <2>1 DEF composerVars, ComposerInv, ComposerTypeOK, VerifiedIsDrafters, PublishedByItsDrafter
  <2>2. CASE ComposerNext
    BY <2>2, PageInv, DraftAgesInv, SubmitInv, RouteInv DEF ComposerNext
  <2>3. QED
    BY <2>1, <2>2
<1>2. ComposerInv => PublishedByItsDrafter
  BY DEF ComposerInv
<1>3. QED
  BY <1>1, <1>2, ComposerInitInv, PTL DEF ComposerSpec

-----------------------------------------------------------------------------
(* The house among the components that are checked together *)

\* Where the house is at work, its programs are whole, for any number of publications:
\* HouseAuthority, of the specification that TLC checks (house-solver, publish).
THEOREM HouseAmongOthers == SiteSpec => []HouseProgramsAreWhole
<1> DEFINE HouseIfAtWork == part = "house" => HouseInv
           site == <<part, vars, houseVars, authVars, leaseVars, composerVars, commerceVars, guidedVars>>
<1>1. SiteInit => HouseIfAtWork
  BY HouseBegins DEF SiteInit, Init
<1>2. HouseIfAtWork /\ [SiteNext]_site => HouseIfAtWork'
  <2> SUFFICES ASSUME part = "house" => HouseInv, [SiteNext]_site, part' = "house" PROVE HouseInv'
    OBVIOUS
  <2>1. CASE SiteNext
    BY <2>1, HouseGoesOn DEF SiteNext
  <2>2. CASE UNCHANGED site
    <3>1. part = "house" /\ UNCHANGED houseStore
      BY <2>2 DEF vars, houseStore
    <3>2. QED
      BY <3>1, HouseGoesOn
  <2>3. QED
    BY <2>1, <2>2
<1>3. HouseIfAtWork => HouseProgramsAreWhole
  BY DEF HouseProgramsAreWhole, HouseInv, WholePrograms, Whole, Owns, HouseAuthorityIsWhole
<1>4. QED
  BY <1>1, <1>2, <1>3, PTL DEF SiteSpec

-----------------------------------------------------------------------------
(* CommercePlacement *)

PaymentAwaits == {"idle", "authorize", "execute", "answer", "unused", "reject",
                  "receipt", "anchor", "refuse", "confirm"}
Settling == {"receipt", "anchor", "refuse", "confirm"}

CommerceTypeOK ==
  /\ placement \in {"prepared", "authorizing", "submitted", "confirmed", "rejected"}
  /\ reported \in {"none", "payment", "other"}
  /\ asked \in Nat
  /\ payment \in [depth : Nat, expired : BOOLEAN, replaced : BOOLEAN]
  /\ purchase \in [Purchases -> [at : PaymentAwaits, depth : Nat]]

\* The request that authorized the placement is the only one that may send the
\* payment, and has not sent it yet.
SendersAreAlone ==
  /\ \A r \in Purchases : On(r, "execute") =>
       /\ asked = 0 /\ placement # "prepared"
       /\ \A q \in Purchases : On(q, "execute") => q = r

\* A settlement that is verified was reported, and its depth only grows once it is
\* deeper than the newest block.
SettlementsHold ==
  /\ \A r \in Purchases : purchase[r].at \in Settling =>
       placement \in {"submitted", "confirmed", "rejected"} /\ reported # "none"
  /\ \A r \in Purchases : On(r, "anchor") \/ On(r, "confirm") =>
       reported = "payment" /\ (purchase[r].depth >= 2 => payment.depth >= 2)
  /\ \A r \in Purchases : On(r, "confirm") => purchase[r].depth >= MinimumConfirmations
  /\ placement = "submitted" => reported # "none"
  /\ placement = "confirmed" => reported = "payment" /\ (MinimumConfirmations >= 2 => payment.depth >= 2)

CommerceInv == CommerceTypeOK /\ PaymentIsSentOnce /\ SendersAreAlone /\ SettlementsHold

\* Nothing has been asked, paid or stored.
LEMMA CommerceInitInv == CommerceInit => CommerceInv
BY DEF CommerceInit, CommerceInv, CommerceTypeOK, PaymentIsSentOnce, SendersAreAlone,
   SettlementsHold, On, NoPurchase, PaymentAwaits, Settling

USE DEF On, Ends, Proceeds, NoPurchase

\* Every await of a request keeps the invariant: one case of CommerceStep each.
LEMMA CommerceStepInv ==
  ASSUME CommerceInv, NEW r \in Purchases, CommerceStep(r)
  PROVE  CommerceInv'
<1> USE DEF CommerceInv, CommerceTypeOK, PaymentIsSentOnce, SendersAreAlone, SettlementsHold, PaymentAwaits, Settling
<1>1. CASE PostAuthorization(r)
  BY <1>1 DEF PostAuthorization
<1>2. CASE Authorize(r)
  BY <1>2 DEF Authorize, CanAppendPlacement
<1>3. CASE ReadAuthorizationState(r)
  BY <1>3 DEF ReadAuthorizationState
<1>4. CASE RejectUnsettled(r)
  BY <1>4 DEF RejectUnsettled, AppendRejected, CanAppendPlacement
<1>5. CASE \E matches \in BOOLEAN : ExecutePayment(r, matches)
  BY <1>5 DEF ExecutePayment
<1>6. CASE \E answer \in {"payment", "other", "402", "unclear"} : MerchantAnswers(r, answer)
  <2>1. PICK answer \in {"payment", "other", "402", "unclear"} : MerchantAnswers(r, answer)
    BY <1>6
  <2>2. CASE answer \in {"payment", "other"}
    <3>1. /\ purchase[r].at = "answer" /\ UNCHANGED <<asked, payment>>
          /\ purchase' = [purchase EXCEPT ![r] = [at |-> "idle", depth |-> 0]]
          /\ \/ placement = "authorizing" /\ placement' = "submitted" /\ reported' = answer
             \/ UNCHANGED <<placement, reported>>
      BY <2>1, <2>2 DEF MerchantAnswers, CanAppendPlacement
    <3>2. CommerceTypeOK' /\ PaymentIsSentOnce' /\ SendersAreAlone'
      BY <2>2, <3>1
    <3>3. \A q \in Purchases : purchase'[q].at # "idle" => q # r /\ purchase'[q] = purchase[q]
      BY <3>1
    <3>4. SettlementsHold'
      BY <2>2, <3>1, <3>3
    <3>5. QED
      BY <3>2, <3>4
  <2>3. CASE answer = "402"
    BY <2>1, <2>3 DEF MerchantAnswers
  <2>4. CASE answer = "unclear"
    BY <2>1, <2>4 DEF MerchantAnswers
  <2>5. QED
    BY <2>2, <2>3, <2>4
<1>7. CASE PostSettlement(r)
  BY <1>7 DEF PostSettlement
<1>8. CASE ReadSettlement(r)
  BY <1>8 DEF ReadSettlement
<1>9. CASE RefuseSettlement(r)
  BY <1>9 DEF RefuseSettlement, AppendRejected, CanAppendPlacement
<1>10. CASE ConfirmSettlement(r)
  BY <1>10, CommerceAssumption DEF ConfirmSettlement, CanAppendPlacement
<1>11. CASE \E readable \in BOOLEAN : ConfirmAnchor(r, readable)
  BY <1>11 DEF ConfirmAnchor, DeepEnough
<1>12. CASE RequestDies(r)
  BY <1>12 DEF RequestDies
<1>13. QED
  BY <1>1, <1>2, <1>3, <1>4, <1>5, <1>6, <1>7, <1>8, <1>9, <1>10, <1>11, <1>12 DEF CommerceStep

\* The merchant and the chain: a payment is only unmined while it is in the newest
\* block.
LEMMA ChainInv ==
  ASSUME CommerceInv, MerchantSettles \/ NewBlock \/ PaymentReorged \/ PaymentExpires
  PROVE  CommerceInv'
<1> USE DEF CommerceInv, CommerceTypeOK, PaymentIsSentOnce, SendersAreAlone, SettlementsHold, PaymentAwaits, Settling
<1>1. CASE MerchantSettles
  BY <1>1 DEF MerchantSettles
<1>2. CASE NewBlock
  BY <1>2 DEF NewBlock
<1>3. CASE PaymentReorged
  <2>1. payment.depth = 1 /\ UNCHANGED <<placement, reported, asked, purchase>>
    BY <1>3 DEF PaymentReorged
  <2>2. payment' \in [depth : Nat, expired : BOOLEAN, replaced : BOOLEAN]
    BY <1>3 DEF PaymentReorged
  <2>3. QED
    BY <2>1, <2>2
<1>4. CASE PaymentExpires
  BY <1>4 DEF PaymentExpires
<1>5. QED
  BY <1>1, <1>2, <1>3, <1>4

\* The invariant holds throughout.
LEMMA CommerceAlways == CommerceSpec => []CommerceInv
<1>1. CommerceInit => CommerceInv
  BY CommerceInitInv
<1>2. CommerceInv /\ [CommerceNext]_commerceVars => CommerceInv'
  <2> SUFFICES ASSUME CommerceInv, [CommerceNext]_commerceVars PROVE CommerceInv'
    OBVIOUS
  <2>1. CASE UNCHANGED commerceVars
    BY <2>1 DEF commerceVars, CommerceInv, CommerceTypeOK, PaymentIsSentOnce, SendersAreAlone, SettlementsHold
  <2>2. QED
    BY <2>1, CommerceStepInv, ChainInv DEF CommerceNext
<1>3. QED
  BY <1>1, <1>2, PTL DEF CommerceSpec

\* The merchant is sent the payment at most once, for any number of requests: the
\* authorizing event keeps the others out (commerce-placements.ts, append).
THEOREM OnePayment == CommerceSpec => []PaymentIsSentOnce
<1>1. CommerceInv => PaymentIsSentOnce
  BY DEF CommerceInv
<1>2. QED
  BY <1>1, CommerceAlways, PTL

\* With two confirmations or more, a confirmed placement is paid, although its
\* verdict is stored after the chain was read (settlement-service.ts).
THEOREM ConfirmedWasPaid ==
  ASSUME MinimumConfirmations >= 2 PROVE CommerceSpec => []ConfirmedIsPaid
<1>1. CommerceInv => ConfirmedIsPaid
  BY DEF CommerceInv, CommerceTypeOK, SettlementsHold, ConfirmedIsPaid
<1>2. QED
  BY <1>1, CommerceAlways, PTL
=============================================================================

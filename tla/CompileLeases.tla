----------------------------- MODULE CompileLeases -----------------------------
(***************************************************************************)
(* The leases on intent compilation (app/api/intents/compile,              *)
(* lib/db/wallet-auth): POST compile admits one compilation per owner at a *)
(* time and few per minute, and serves a recent draft again.               *)
(*                                                                         *)
(* A route reads the clock once and its transaction may run later, so      *)
(* every comparison with the time is with the route's "since".  The        *)
(* platform ends a route after its maximum duration.                       *)
(***************************************************************************)
EXTENDS Integers, Sequences, FiniteSets

CONSTANTS
  Drafters, Goals,     \* owners of sessions, and what they ask for
  CompileRoutes,       \* bound on the requests in flight
  OwnerLimit, ClientLimit, RateWindow, \* attempts per minute, and the minute
  CacheLifetime,       \* CACHE_LIFETIME_SEC
  LeaseLifetime,       \* LEASE_LIFETIME_SEC
  RouteDuration,       \* maxDuration of the route
  EvidenceLifetimes,   \* how long the evidence of a general-asset draft may live
  MaxLeases,           \* bound on the rows of cobia_intent_compile_attempts
  LeaseClock           \* bound on the time

ASSUME LeaseAssumption ==
  /\ {OwnerLimit, ClientLimit, RateWindow, CacheLifetime, LeaseLifetime,
      RouteDuration, MaxLeases, LeaseClock} \subseteq Nat \ {0}
  /\ EvidenceLifetimes \subseteq Nat
  /\ RouteDuration < LeaseLifetime
  /\ "none" \notin Drafters \cup Goals

VARIABLES
  moment,   \* the time
  leases,   \* cobia_intent_compile_attempts, in the order of insertion
  route     \* each request: its next await, what it asks for and read

leaseVars == <<moment, leases, route>>
NoRoute == [at |-> "idle", owner |-> "none", goal |-> "none", since |-> 0, lease |-> 0]

LeaseInit ==
  /\ moment = 0 /\ leases = <<>>
  /\ route = [r \in CompileRoutes |-> NoRoute]

Await(r, at) == route' = [route EXCEPT ![r].at = at]
Respond(r) == route' = [route EXCEPT ![r] = NoRoute]
IsAt(r, at) == route[r].at = at

\* No route outlives its maximum duration.
LeaseTick ==
  /\ moment < LeaseClock
  /\ \A r \in CompileRoutes : ~IsAt(r, "idle") => moment < route[r].since + RouteDuration
  /\ moment' = moment + 1
  /\ UNCHANGED <<leases, route>>

\* The owner of a session, which may be an older one, compiles a goal; nowSec is read
\* before the transaction.
PostCompile(r, owner, goal) ==
  /\ IsAt(r, "idle")
  /\ route' = [route EXCEPT ![r] = [NoRoute EXCEPT !.at = "admit", !.owner = owner,
                                     !.goal = goal, !.since = moment]]
  /\ UNCHANGED <<moment, leases>>

Rows(P(_)) == {i \in DOMAIN leases : P(leases[i])}

\* The newest completed attempt of the goal; without a row, 0.
CachedRow(r) ==
  LET rows == Rows(LAMBDA l : /\ l.owner = route[r].owner /\ l.goal = route[r].goal
                              /\ l.state = "completed"
                              /\ l.ended > route[r].since - CacheLifetime)
  IN IF rows = {} THEN 0
     ELSE CHOOSE i \in rows : \A j \in rows : leases[j].ended <= leases[i].ended

\* reusableCompilationResult, of evidence that lives until "until".
Reusable(until, at) == until > at

\* Mutant: an owner that compiles already is not found.
NeverBusy(r) == FALSE

Busy(r) == Rows(LAMBDA l : /\ l.owner = route[r].owner /\ l.state = "pending"
                           /\ l.expires > route[r].since) # {}

\* Mutant: the limit itself is let through.
LimitedLate(r) ==
  LET recent == Rows(LAMBDA l : l.created > route[r].since - RateWindow)
      own == {i \in recent : leases[i].owner = route[r].owner}
  IN Cardinality(own) > OwnerLimit \/ Cardinality(recent) > ClientLimit

\* Both owners come from one network client.
Limited(r) ==
  LET recent == Rows(LAMBDA l : l.created > route[r].since - RateWindow)
      own == {i \in recent : leases[i].owner = route[r].owner}
  IN Cardinality(own) >= OwnerLimit \/ Cardinality(recent) >= ClientLimit

Hit(r) == CachedRow(r) # 0 /\ Reusable(leases[CachedRow(r)].until, route[r].since)

Admits(r) == ~Hit(r) /\ ~Busy(r) /\ ~Limited(r)

InsertLease(r) ==
  /\ Len(leases) < MaxLeases
  /\ leases' = Append(leases,
       [owner |-> route[r].owner, goal |-> route[r].goal, state |-> "pending",
        created |-> route[r].since, expires |-> route[r].since + LeaseLifetime,
        ended |-> 0, until |-> 0])

\* beginCompilation, one transaction under the locks of owner and client.
BeginCompilation(r) ==
  /\ IsAt(r, "admit")
  /\ \/ /\ Hit(r)
        /\ route' = [route EXCEPT ![r].at = "cached", ![r].lease = CachedRow(r)]
        /\ UNCHANGED leases
     \/ ~Hit(r) /\ ~Admits(r) /\ Respond(r) /\ UNCHANGED leases
     \/ /\ Admits(r) /\ InsertLease(r)
        /\ route' = [route EXCEPT ![r].at = "compile", ![r].lease = Len(leases) + 1]
  /\ UNCHANGED moment

\* The twelve moments end during admission: the route answers, and the lease that
\* the transaction inserts is nobody's.
DeadlineAtAdmission(r) ==
  /\ IsAt(r, "admit")
  /\ IF Admits(r) THEN InsertLease(r) ELSE UNCHANGED leases
  /\ Respond(r)
  /\ UNCHANGED moment

\* A cached draft is served, or refused when its evidence has expired since.
ServeCached(r) ==
  /\ IsAt(r, "cached") /\ Respond(r)
  /\ UNCHANGED <<moment, leases>>

End(l, state, until) ==
  leases' = [leases EXCEPT ![l].state = state, ![l].ended = moment, ![l].until = until]

\* An attempt that is no longer pending is refused, which is an error.
CompleteCompilation(r, life) ==
  /\ IsAt(r, "compile")
  /\ IF leases[route[r].lease].state = "pending"
     THEN End(route[r].lease, "completed", moment + life) /\ Respond(r)
     ELSE Await(r, "fail") /\ UNCHANGED leases
  /\ UNCHANGED moment

\* The compilation throws or its twelve moments end; a completion that was already
\* asked for may still arrive before the failure.
CompilationFails(r, late) ==
  /\ IsAt(r, "compile")
  /\ IF late THEN \E life \in EvidenceLifetimes : End(route[r].lease, "completed", moment + life)
     ELSE UNCHANGED leases
  /\ Await(r, "fail")
  /\ UNCHANGED moment

FailCompilation(r) ==
  /\ IsAt(r, "fail")
  /\ IF leases[route[r].lease].state = "pending" THEN End(route[r].lease, "failed", 0) ELSE UNCHANGED leases
  /\ Respond(r)
  /\ UNCHANGED moment

\* The platform ends the route, or its process dies.
RouteEnds(r) ==
  /\ ~IsAt(r, "idle") /\ Respond(r)
  /\ UNCHANGED <<moment, leases>>

-----------------------------------------------------------------------------
LeaseStep(r) ==
  \/ \E o \in Drafters, g \in Goals : PostCompile(r, o, g)
  \/ BeginCompilation(r) \/ DeadlineAtAdmission(r) \/ ServeCached(r)
  \/ \E life \in EvidenceLifetimes : CompleteCompilation(r, life)
  \/ \E late \in BOOLEAN : CompilationFails(r, late)
  \/ FailCompilation(r) \/ RouteEnds(r)

LeaseNext == LeaseTick \/ \E r \in CompileRoutes : LeaseStep(r)

LeaseSpec == LeaseInit /\ [][LeaseNext]_leaseVars

-----------------------------------------------------------------------------
\* No two routes compile for one owner at once, although a lease outlives the
\* deadline of its route and routes count from clocks they read before the lock.
OneCompilationPerOwner ==
  \A r, q \in CompileRoutes :
    IsAt(r, "compile") /\ IsAt(q, "compile") /\ route[r].owner = route[q].owner => r = q

\* In every minute of the clock an owner, and a client, has no more attempts than
\* its limit, failed and abandoned ones included.
RateIsLimited ==
  \A from \in (1 - RateWindow)..LeaseClock :
    LET within == Rows(LAMBDA l : from <= l.created /\ l.created < from + RateWindow) IN
    /\ Cardinality(within) <= ClientLimit
    /\ \A o \in Drafters : Cardinality({i \in within : leases[i].owner = o}) <= OwnerLimit
=============================================================================

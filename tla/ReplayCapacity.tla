----------------------------- MODULE ReplayCapacity -----------------------------
(***************************************************************************)
(* The gate of the replay service (apps/replay-service): a request for a   *)
(* fork takes a slot, waits for one, or is refused, and hands its slot on  *)
(* when its replay has ended, however it ended.                            *)
(***************************************************************************)
EXTENDS Naturals, Sequences, FiniteSets

CONSTANTS
  Replays,       \* bound on the requests in flight
  Slots,         \* REPLAY_MAX_CONCURRENCY
  MaximumQueue   \* MAX_QUEUED_REPLAYS

ASSUME CapacityAssumption ==
  IsFiniteSet(Replays) /\ Slots \in Nat \ {0} /\ MaximumQueue \in Nat

VARIABLES
  activeCount,  \* activeCount
  waiting,      \* the requests whose promise is queued, the oldest first
  replay        \* each request: "idle", its body being read, waiting, let in or replaying

capacityVars == <<activeCount, waiting, replay>>

CapacityInit == activeCount = 0 /\ waiting = <<>> /\ replay = [r \in Replays |-> "idle"]

Turns(r, to) == replay' = [replay EXCEPT ![r] = to]

PostReplay(r) ==
  /\ replay[r] = "idle" /\ Turns(r, "body")
  /\ UNCHANGED <<activeCount, waiting>>

\* The body is too long or malformed: there is nothing to release.
BodyFails(r) ==
  /\ replay[r] = "body" /\ Turns(r, "idle")
  /\ UNCHANGED <<activeCount, waiting>>

Acquire(r) ==
  /\ replay[r] = "body"
  /\ IF activeCount < Slots
     THEN activeCount' = activeCount + 1 /\ Turns(r, "let in") /\ UNCHANGED waiting
     ELSE /\ UNCHANGED activeCount
          /\ IF Len(waiting) >= MaximumQueue THEN Turns(r, "idle") /\ UNCHANGED waiting
             ELSE waiting' = Append(waiting, r) /\ Turns(r, "waiting")

\* The request goes on after its promise has resolved.
StartReplay(r) ==
  /\ replay[r] = "let in" /\ Turns(r, "replaying")
  /\ UNCHANGED <<activeCount, waiting>>

\* Mutant: the slot that is handed on is given back as well.
ReleasesTwice(r) ==
  /\ activeCount' = activeCount - 1
  /\ IF waiting # <<>>
     THEN waiting' = Tail(waiting) /\ replay' = [replay EXCEPT ![r] = "idle", ![Head(waiting)] = "let in"]
     ELSE UNCHANGED waiting /\ Turns(r, "idle")

\* The slot goes to the oldest waiter, without being free in between.
Releases(r) ==
  IF waiting # <<>>
  THEN /\ waiting' = Tail(waiting)
       /\ replay' = [replay EXCEPT ![r] = "idle", ![Head(waiting)] = "let in"]
       /\ UNCHANGED activeCount
  ELSE activeCount' = activeCount - 1 /\ Turns(r, "idle") /\ UNCHANGED waiting

\* The replay returns or throws, and its fork is stopped.
EndReplay(r) == replay[r] = "replaying" /\ Releases(r)

CapacityNext ==
  \E r \in Replays : PostReplay(r) \/ BodyFails(r) \/ Acquire(r) \/ StartReplay(r) \/ EndReplay(r)

CapacitySpec == CapacityInit /\ [][CapacityNext]_capacityVars

-----------------------------------------------------------------------------
Holding == {r \in Replays : replay[r] \in {"let in", "replaying"}}
Waiters == {r \in Replays : replay[r] = "waiting"}

\* Every slot is held by one request, which was let in or is replaying, a request
\* waits only while all are held, and those in the queue are the ones that wait.
SlotsAreConserved ==
  /\ activeCount = Cardinality(Holding)
  /\ activeCount <= Slots
  /\ waiting # <<>> => activeCount = Slots
  /\ Len(waiting) = Cardinality(Waiters)
=============================================================================

------------------------------ MODULE Outside_proofs ------------------------------
(***************************************************************************)
(* Proofs about two components that run outside the site's requests and    *)
(* share no state: the worker of an open solver, for any number of         *)
(* intents, attempts, slots and restarts (SolverJob), and the gate of the  *)
(* replay service, for any number of requests and slots and any length of  *)
(* the queue (ReplayCapacity).                                             *)
(***************************************************************************)
EXTENDS SolverJob, ReplayCapacity, FiniteSetTheorems, SequenceTheorems, TLAPS

-----------------------------------------------------------------------------
(* SolverJob *)

States == {"new", "running", "error", "answered", "expired"}
Awaits == {"none", "begin", "saveStart", "announce", "schedule", "wait", "woken", "work", "submit",
           "saveDone", "saveLast", "error", "abstain", "saveError"}
Entries == [state : States, attempts : Nat, cooling : BOOLEAN]

WorkerTypeOK ==
  /\ memory \in [OpenIntents -> Entries] /\ disk \in [OpenIntents -> Entries]
  /\ job \in [OpenIntents -> Awaits] /\ starts \in [OpenIntents -> Nat]
  /\ poisoned \in BOOLEAN /\ phase \in Nat /\ restarts \in Nat

\* No attempt is under way whose failure is still to be counted.
Settled(i) ==
  \/ job[i] \in {"begin", "saveLast", "abstain", "saveError"}
  \/ job[i] = "none" /\ phase < 3 /\ memory[i].state # "answered"

\* Every start but the last has been counted, in memory and on disk, and the last one
\* too when the job has settled; only a restart forgets one.
StartsAreCounted(i) ==
  /\ starts[i] <= memory[i].attempts + restarts + (IF Settled(i) THEN 0 ELSE 1)
  /\ starts[i] <= disk[i].attempts + restarts + 1
  /\ job[i] \notin {"abstain", "saveError"} => disk[i].attempts = memory[i].attempts

\* What may be worked on, or starts, has an attempt left.
AttemptsAreLeft(i) ==
  /\ memory[i].state \in {"new", "running"} \/ job[i] = "begin" => memory[i].attempts < MaxAttempts
  /\ disk[i].state \in {"new", "running"} => disk[i].attempts < MaxAttempts

\* An intent that is answered stays so in memory, unless its own write was rejected:
\* then nothing is written any more and the worker is restarted from the file.
AnsweredIsKept(i) ==
  /\ job[i] = "saveDone" => memory[i].state = "answered"
  /\ memory[i].state = "answered" =>
       job[i] \in {"none", "saveDone", "saveError"} \/ (poisoned /\ job[i] = "error")
  /\ disk[i].state = "answered" =>
       \/ memory[i].state = "answered" /\ job[i] \in {"none", "saveDone", "saveError"}
       \/ poisoned /\ job[i] \in {"error", "abstain", "saveError"}

WorkerInv ==
  /\ WorkerTypeOK
  /\ \A i \in OpenIntents : StartsAreCounted(i) /\ AttemptsAreLeft(i) /\ AnsweredIsKept(i)
  /\ AttemptsAreBounded

\* The constants, in the form the provers use.
LEMMA WorkerConstants == MaxAttempts \in Nat \ {0} /\ MaxParallel \in Nat \ {0} /\ IsFiniteSet(OpenIntents)
BY WorkerAssumption

\* At the start nothing was worked on.
LEMMA WorkerBegins == WorkerInit => WorkerInv
<1> SUFFICES ASSUME WorkerInit PROVE WorkerInv
  OBVIOUS
<1> USE WorkerConstants
<1>1. WorkerTypeOK
  BY DEF WorkerInit, WorkerTypeOK, Fresh, Entries, States, Awaits
<1>2. ASSUME NEW i \in OpenIntents
      PROVE  StartsAreCounted(i) /\ AttemptsAreLeft(i) /\ AnsweredIsKept(i) /\ starts[i] <= MaxAttempts + restarts
  BY DEF WorkerInit, StartsAreCounted, AttemptsAreLeft, AnsweredIsKept, Fresh, Settled
<1>3. QED
  BY <1>1, <1>2 DEF WorkerInv, AttemptsAreBounded

\* What one intent's entries, job and starts say is all that the invariant says.
IntentInv(i) ==
  /\ memory[i] \in Entries /\ disk[i] \in Entries /\ job[i] \in Awaits /\ starts[i] \in Nat
  /\ StartsAreCounted(i) /\ AttemptsAreLeft(i) /\ AnsweredIsKept(i)
  /\ starts[i] <= MaxAttempts + restarts

Shape ==
  /\ DOMAIN memory = OpenIntents /\ DOMAIN disk = OpenIntents /\ DOMAIN job = OpenIntents
  /\ DOMAIN starts = OpenIntents /\ poisoned \in BOOLEAN /\ phase \in Nat /\ restarts \in Nat

\* Each function is one of its domain.
Functional ==
  /\ memory = [i \in OpenIntents |-> memory[i]] /\ disk = [i \in OpenIntents |-> disk[i]]
  /\ job = [i \in OpenIntents |-> job[i]] /\ starts = [i \in OpenIntents |-> starts[i]]

LEMMA WorkerByIntent ==
  WorkerInv <=> Shape /\ Functional /\ \A i \in OpenIntents : IntentInv(i)
BY DEF WorkerInv, WorkerTypeOK, AttemptsAreBounded, IntentInv, Shape, Functional

\* The same of the state a step leads to.
LEMMA WorkerByIntentNext ==
  ASSUME Shape', Functional', \A i \in OpenIntents : IntentInv(i)'
  PROVE  WorkerInv'
BY DEF WorkerInv, WorkerTypeOK, AttemptsAreBounded, IntentInv, Shape, Functional

\* A step of one intent's, which writes nothing, concerns that intent only.
LEMMA WorkerAlone ==
  ASSUME WorkerInv, NEW i \in OpenIntents, NEW ACTION entry, NEW ACTION at, NEW ACTION count,
         memory' = [memory EXCEPT ![i] = entry], job' = [job EXCEPT ![i] = at],
         starts' = [starts EXCEPT ![i] = count], UNCHANGED <<disk, phase, restarts>>,
         poisoned' \in BOOLEAN, poisoned => poisoned',
         IntentInv(i)'
  PROVE  WorkerInv'
<1>1. Shape /\ Functional /\ \A q \in OpenIntents : IntentInv(q)
  BY WorkerByIntent
<1>2. Shape' /\ Functional'
  BY <1>1 DEF Shape, Functional
<1>3. ASSUME NEW q \in OpenIntents, q # i PROVE IntentInv(q)'
  <2>1. /\ memory'[q] = memory[q] /\ disk'[q] = disk[q] /\ job'[q] = job[q] /\ starts'[q] = starts[q]
        /\ phase' = phase /\ restarts' = restarts
    BY <1>1, <1>3 DEF Shape
  <2>2. IntentInv(q)
    BY <1>1
  <2>3. QED
    BY <2>1, <2>2 DEF IntentInv, StartsAreCounted, AttemptsAreLeft, AnsweredIsKept, Settled
<1>4. QED
  <2>1. \A q \in OpenIntents : IntentInv(q)'
    BY <1>3
  <2>2. QED
    BY <1>2, <2>1, WorkerByIntentNext

\* Between its awaits a job moves on without counting anything.
LEMMA WorkerMoves ==
  ASSUME WorkerInv, NEW i \in OpenIntents, NEW from, NEW at,
         job[i] = from, Moves(i, at), UNCHANGED <<memory, disk, starts, phase, restarts>>,
         poisoned' \in BOOLEAN, poisoned => poisoned',
         \/ from \in {"announce", "schedule", "woken", "wait", "work", "submit"}
              /\ at \in {"schedule", "wait", "woken", "work", "submit", "error"}
         \/ from \in {"saveStart", "saveDone", "saveLast"} /\ at = "error" /\ poisoned'
         \/ from = "submit" /\ at = "none" /\ phase = 3
         \/ from = "none" /\ at = "begin" /\ phase < 3 /\ ~IsHandled(i)
  PROVE  WorkerInv'
<1> USE WorkerConstants
<1>1. Shape /\ Functional /\ IntentInv(i)
  BY WorkerByIntent
<1>2. /\ job' = [job EXCEPT ![i] = at] /\ memory' = [memory EXCEPT ![i] = memory[i]]
      /\ starts' = [starts EXCEPT ![i] = starts[i]]
  BY <1>1 DEF Moves, Shape, Functional
<1>3. job'[i] = at /\ at \in Awaits
  BY <1>1, <1>2 DEF Shape, Awaits
<1>4. IntentInv(i)'
  BY <1>1, <1>3 DEF Shape, IntentInv, StartsAreCounted, AttemptsAreLeft, AnsweredIsKept, Settled, IsHandled,
     Entries, States
<1>5. QED
  BY <1>2, <1>4, WorkerAlone

\* An attempt starts when one is left, and a job without one ends.
LEMMA BeginJobInv ==
  ASSUME WorkerInv, NEW i \in OpenIntents, BeginJob(i)
  PROVE  WorkerInv'
<1> USE WorkerConstants
<1>1. Shape /\ Functional /\ IntentInv(i) /\ job[i] = "begin"
  BY WorkerByIntent DEF BeginJob
<1>2. UNCHANGED <<disk, phase, restarts, poisoned>> /\ poisoned \in BOOLEAN
  BY <1>1 DEF BeginJob, Shape
<1>3. CASE phase >= 2
  <2>1. /\ memory' = [memory EXCEPT ![i] = EntryEnded(memory[i], "expired")]
        /\ job' = [job EXCEPT ![i] = "saveLast"] /\ starts' = [starts EXCEPT ![i] = starts[i]]
    BY <1>1, <1>3 DEF BeginJob, Moves, Sets, Functional, Shape
  <2>2. IntentInv(i)'
    BY <1>1, <1>2, <2>1 DEF Shape, IntentInv, StartsAreCounted, AttemptsAreLeft, AnsweredIsKept, Settled,
       Entries, States, Awaits, EntryEnded
  <2>3. QED
    BY <1>2, <2>1, <2>2, WorkerAlone
<1>4. CASE ~(phase >= 2)
  <2>1. /\ memory' = [memory EXCEPT ![i] = Started(memory[i])]
        /\ job' = [job EXCEPT ![i] = "saveStart"] /\ starts' = [starts EXCEPT ![i] = starts[i] + 1]
    BY <1>1, <1>4 DEF BeginJob, Moves, Sets
  <2>2. IntentInv(i)'
    BY <1>1, <1>2, <2>1 DEF Shape, IntentInv, StartsAreCounted, AttemptsAreLeft, AnsweredIsKept, Settled,
       Entries, States, Awaits, Started
  <2>3. QED
    BY <1>2, <2>1, <2>2, WorkerAlone
<1>5. QED
  BY <1>3, <1>4

\* An accepted answer is kept; one that is not is an error, and after the close nothing
\* is sent.
LEMMA SubmitDecisionInv ==
  ASSUME WorkerInv, NEW i \in OpenIntents, NEW answered \in BOOLEAN, SubmitDecision(i, answered)
  PROVE  WorkerInv'
<1> USE WorkerConstants
<1>1. Shape /\ Functional /\ IntentInv(i) /\ job[i] = "submit"
  BY WorkerByIntent DEF SubmitDecision
<1>2. UNCHANGED <<disk, phase, restarts, poisoned, starts>> /\ poisoned \in BOOLEAN
  BY <1>1 DEF SubmitDecision, Shape
<1>3. CASE phase # 3 /\ i \notin accepted /\ answered
  <2>1. /\ memory' = [memory EXCEPT ![i] = EntryEnded(memory[i], "answered")]
        /\ job' = [job EXCEPT ![i] = "saveDone"] /\ starts' = [starts EXCEPT ![i] = starts[i]]
    BY <1>1, <1>2, <1>3 DEF SubmitDecision, Moves, Sets, Functional, Shape
  <2>2. IntentInv(i)'
    BY <1>1, <1>2, <2>1 DEF Shape, IntentInv, StartsAreCounted, AttemptsAreLeft, AnsweredIsKept, Settled,
       Entries, States, Awaits, EntryEnded
  <2>3. QED
    BY <1>2, <2>1, <2>2, WorkerAlone
<1>4. CASE ~(phase # 3 /\ i \notin accepted /\ answered)
  <2>1. memory' = memory /\ (Moves(i, "error") \/ (Moves(i, "none") /\ phase = 3))
    BY <1>4 DEF SubmitDecision
  <2>2. QED
    BY <1>1, <1>2, <2>1, WorkerMoves
<1>5. QED
  BY <1>3, <1>4

\* A failure is counted once, also one of a job whose write was rejected.
LEMMA CountFailureInv ==
  ASSUME WorkerInv, NEW i \in OpenIntents, NEW fits \in BOOLEAN, CountFailure(i, fits)
  PROVE  WorkerInv'
<1> USE WorkerConstants
<1>1. Shape /\ Functional /\ IntentInv(i) /\ job[i] = "error"
  BY WorkerByIntent DEF CountFailure
<1>2. UNCHANGED <<disk, phase, restarts, poisoned, starts>> /\ poisoned \in BOOLEAN
  BY <1>1 DEF CountFailure, Shape
<1>3. PICK at \in {"saveError", "abstain"} :
        /\ memory' = [memory EXCEPT ![i] = Failed(memory[i])] /\ job' = [job EXCEPT ![i] = at]
  BY DEF CountFailure, Moves, Sets
<1>4. starts' = [starts EXCEPT ![i] = starts[i]]
  BY <1>1, <1>2 DEF Functional, Shape
<1>5. IntentInv(i)'
  BY <1>1, <1>2, <1>3 DEF Shape, IntentInv, StartsAreCounted, AttemptsAreLeft, AnsweredIsKept, Settled,
     Entries, States, Awaits, Failed
<1>6. QED
  BY <1>2, <1>3, <1>4, <1>5, WorkerAlone

\* The last answer of an intent ends its entry.
LEMMA AbstainAtLastInv ==
  ASSUME WorkerInv, NEW i \in OpenIntents, NEW answered \in BOOLEAN, AbstainAtLast(i, answered)
  PROVE  WorkerInv'
<1> USE WorkerConstants
<1>1. Shape /\ Functional /\ IntentInv(i) /\ job[i] = "abstain"
  BY WorkerByIntent DEF AbstainAtLast
<1>2. UNCHANGED <<disk, phase, restarts, poisoned, starts>> /\ poisoned \in BOOLEAN
  BY <1>1 DEF AbstainAtLast, Shape
<1>3. PICK state \in {"expired", "answered", "error"} :
        /\ memory' = [memory EXCEPT ![i] = EntryEnded(memory[i], state)]
        /\ job' = [job EXCEPT ![i] = "saveError"]
  BY DEF AbstainAtLast, Moves, Sets
<1>4. starts' = [starts EXCEPT ![i] = starts[i]]
  BY <1>1, <1>2 DEF Functional, Shape
<1>5. IntentInv(i)'
  BY <1>1, <1>2, <1>3 DEF Shape, IntentInv, StartsAreCounted, AttemptsAreLeft, AnsweredIsKept, Settled,
     Entries, States, Awaits, EntryEnded
<1>6. QED
  BY <1>2, <1>3, <1>4, <1>5, WorkerAlone

\* The delay after an error ends, and changes nothing else.
LEMMA CoolsInv ==
  ASSUME WorkerInv, NEW i \in OpenIntents, Cools(i)
  PROVE  WorkerInv'
<1>1. Shape /\ Functional /\ IntentInv(i)
  BY WorkerByIntent
<1>2. UNCHANGED <<disk, job, phase, restarts, poisoned, starts>> /\ poisoned \in BOOLEAN
  BY <1>1 DEF Cools, Shape
<1>3. memory' = [memory EXCEPT ![i] = [memory[i] EXCEPT !.cooling = FALSE]]
  BY DEF Cools, Sets
<1>4. starts' = [starts EXCEPT ![i] = starts[i]] /\ job' = [job EXCEPT ![i] = job[i]]
  BY <1>1, <1>2 DEF Functional, Shape
<1>5. IntentInv(i)'
  <2>1. /\ memory'[i] = [memory[i] EXCEPT !.cooling = FALSE] /\ memory[i] \in Entries
    BY <1>1, <1>3 DEF Shape, IntentInv
  <2>2. /\ memory'[i] \in Entries /\ memory'[i].state = memory[i].state
        /\ memory'[i].attempts = memory[i].attempts
    BY <2>1 DEF Entries
  <2>3. QED
    BY <1>1, <1>2, <2>2 DEF IntentInv, StartsAreCounted, AttemptsAreLeft, AnsweredIsKept, Settled
<1>6. QED
  BY <1>2, <1>3, <1>4, <1>5, WorkerAlone

\* The jobs that write, and where their write takes them.
LEMMA Writes ==
  ASSUME NEW at, at \in DOMAIN AfterWrite
  PROVE  /\ at \in {"saveStart", "saveDone", "saveLast", "saveError"}
         /\ AfterWrite[at] = IF at = "saveStart" THEN "announce" ELSE "none"
BY DEF AfterWrite

\* A write stores what the other jobs are at as well: it finds their starts counted as
\* they are in memory.
LEMMA WriteStateInv ==
  ASSUME WorkerInv, NEW i \in OpenIntents, WriteState(i)
  PROVE  WorkerInv'
<1> USE WorkerConstants
<1>1. Shape /\ Functional /\ (\A q \in OpenIntents : IntentInv(q))
  BY WorkerByIntent
<1>2. /\ job[i] \in {"saveStart", "saveDone", "saveLast", "saveError"}
      /\ job' = [job EXCEPT ![i] = IF job[i] = "saveStart" THEN "announce" ELSE "none"]
  BY Writes DEF WriteState, Moves
<1>3. /\ poisoned = FALSE /\ poisoned' = FALSE /\ disk' = memory /\ UNCHANGED <<memory, phase, restarts, starts>>
  BY <1>1 DEF WriteState, Shape
<1>4. Shape' /\ Functional'
  BY <1>1, <1>2, <1>3 DEF Shape, Functional
<1>5. ASSUME NEW q \in OpenIntents PROVE IntentInv(q)'
  <2>1. /\ disk'[q] = memory[q] /\ memory'[q] = memory[q] /\ starts'[q] = starts[q]
        /\ restarts' = restarts /\ phase' = phase
    BY <1>3
  <2>2. job'[q] = job[q] \/ (q = i /\ job'[q] = IF job[q] = "saveStart" THEN "announce" ELSE "none")
    BY <1>1, <1>2 DEF Shape
  <2>3. /\ memory[q] \in Entries /\ starts[q] \in Nat /\ job[q] \in Awaits /\ restarts \in Nat
        /\ memory[q].attempts \in Nat /\ IntentInv(q)
    BY <1>1 DEF IntentInv, Entries, Shape
  <2>4. job'[q] \in Awaits /\ starts[q] <= MaxAttempts + restarts
    BY <2>2, <2>3 DEF Awaits, IntentInv
  <2>5. AnsweredIsKept(q)'
    BY <1>2, <1>3, <2>1, <2>2, <2>3 DEF IntentInv, AnsweredIsKept
  <2>6. AttemptsAreLeft(q)'
    BY <1>2, <2>1, <2>2, <2>3 DEF IntentInv, AttemptsAreLeft
  <2>7. StartsAreCounted(q)'
    <3>1. Settled(q)' => Settled(q)
      BY <1>2, <2>1, <2>2, <2>3 DEF IntentInv, AnsweredIsKept, Settled
    <3>2. QED
      BY <2>1, <2>3, <3>1 DEF IntentInv, StartsAreCounted
  <2>8. QED
    BY <2>1, <2>3, <2>4, <2>5, <2>6, <2>7 DEF IntentInv
<1>6. QED
  BY <1>4, <1>5, WorkerByIntentNext

\* Finished work lets a waiter in.
LEMMA FinishWorkInv ==
  ASSUME WorkerInv, NEW i \in OpenIntents, NEW thrown \in BOOLEAN, FinishWork(i, thrown)
  PROVE  WorkerInv'
<1>1. /\ Shape /\ Functional /\ (\A q \in OpenIntents : IntentInv(q)) /\ job[i] = "work"
      /\ UNCHANGED <<memory, disk, poisoned, phase, restarts, starts>>
  BY WorkerByIntent DEF FinishWork
<1>2. CASE Moves(i, "submit")
  BY <1>1, <1>2, WorkerMoves DEF Shape
<1>3. ASSUME NEW w \in Jobs("wait"), job' = [job EXCEPT ![i] = "submit", ![w] = "woken"]
      PROVE  WorkerInv'
  <2>1. /\ job[w] = "wait" /\ w \in OpenIntents /\ DOMAIN job' = OpenIntents
        /\ job' = [q \in OpenIntents |-> job'[q]]
        /\ \A q \in OpenIntents : \/ job'[q] = job[q]
                                  \/ job[q] \in {"work", "wait"} /\ job'[q] \in {"submit", "woken"}
    BY <1>1, <1>3 DEF Jobs, Shape
  <2>2. Shape' /\ Functional'
    BY <1>1, <2>1 DEF Shape, Functional
  <2>3. ASSUME NEW q \in OpenIntents PROVE IntentInv(q)'
    BY <1>1, <2>1 DEF IntentInv, StartsAreCounted, AttemptsAreLeft, AnsweredIsKept, Settled, Entries, Awaits
  <2>4. QED
    BY <2>2, <2>3, WorkerByIntentNext
<1>4. QED
  BY <1>2, <1>3 DEF FinishWork, Wakes

\* A restarted worker goes on from the file, which has counted every start but one.
LEMMA RestartedInv ==
  ASSUME WorkerInv, Restarted
  PROVE  WorkerInv'
<1> USE WorkerConstants
<1>1. Shape /\ Functional /\ (\A q \in OpenIntents : IntentInv(q))
  BY WorkerByIntent
<1>2. /\ memory' = disk /\ job' = [q \in OpenIntents |-> "none"] /\ poisoned' = FALSE
      /\ restarts' = restarts + 1 /\ UNCHANGED <<disk, phase, starts>>
  BY DEF Restarted
<1>3. Shape' /\ Functional'
  <2>1. Shape'
    <3>1. poisoned' \in BOOLEAN
      BY <1>2
    <3>2. DOMAIN memory' = OpenIntents /\ DOMAIN disk' = OpenIntents /\ DOMAIN starts' = OpenIntents
      BY <1>1, <1>2 DEF Shape
    <3>3. DOMAIN job' = OpenIntents /\ phase' \in Nat /\ restarts' \in Nat
      BY <1>1, <1>2 DEF Shape
    <3>4. QED
      BY <3>1, <3>2, <3>3 DEF Shape
  <2>2. Functional'
    BY <1>1, <1>2 DEF Functional
  <2>3. QED
    BY <2>1, <2>2
<1>4. ASSUME NEW q \in OpenIntents PROVE IntentInv(q)'
  BY <1>1, <1>2 DEF Shape, IntentInv, StartsAreCounted, AttemptsAreLeft, AnsweredIsKept, Settled, Entries, Awaits
<1>5. QED
  BY <1>3, <1>4, WorkerByIntentNext

\* Every step of the worker preserves the invariant.
LEMMA WorkerStepInv == ASSUME WorkerInv, [WorkerNext]_workerVars PROVE WorkerInv'
<1>1. Shape /\ \A q \in OpenIntents : IntentInv(q)
  BY WorkerByIntent
<1>2. ASSUME NEW i \in OpenIntents,
             \/ Poll(i) \/ WriteRejected(i) \/ Announce(i) \/ AnnounceFails(i) \/ Schedule(i) \/ Resume(i)
             \/ SubmissionLost(i)
      PROVE  WorkerInv'
  <2> USE <1>1, WorkerMoves DEF Shape
  <2>1. CASE Poll(i)
    BY <2>1 DEF Poll, JobOnly
  <2>2. CASE WriteRejected(i)
    <3>1. job[i] \in {"saveStart", "saveDone", "saveLast"} /\ poisoned' = TRUE
      BY <2>2 DEF WriteRejected, AfterWrite
    <3>2. QED
      BY <2>2, <3>1 DEF WriteRejected
  <2>3. CASE Announce(i) \/ AnnounceFails(i)
    BY <2>3 DEF Announce, AnnounceFails, JobOnly
  <2>4. CASE Schedule(i)
    <3>1. PICK at \in {"wait", "work"} : JobOnly(i, "schedule", at)
      BY <2>4 DEF Schedule
    <3>2. QED
      BY <3>1 DEF JobOnly
  <2>5. CASE Resume(i) \/ SubmissionLost(i)
    BY <2>5 DEF Resume, SubmissionLost, JobOnly
  <2>6. QED
    BY <1>2, <2>1, <2>2, <2>3, <2>4, <2>5
<1>3. CASE Crash \/ WatcherReturns \/ \E i \in OpenIntents : ErrorRejected(i)
  BY <1>3, RestartedInv DEF Crash, WatcherReturns, ErrorRejected, ErrorUnsaved
<1>4. CASE Shutdown \/ UNCHANGED workerVars
  <2>1. UNCHANGED <<memory, disk, job, poisoned, phase, restarts, starts>>
    BY <1>4 DEF Shutdown, workerVars
  <2>2. QED
    BY <2>1 DEF WorkerInv, WorkerTypeOK, StartsAreCounted, AttemptsAreLeft, AnsweredIsKept, Settled,
       AttemptsAreBounded
<1>5. CASE TimePasses
  <2>1. phase' = phase + 1 /\ phase < 3 /\ UNCHANGED <<memory, disk, job, poisoned, restarts, starts>>
    BY <1>5 DEF TimePasses
  <2>2. phase' \in Nat /\ \A i \in OpenIntents : Settled(i)' => Settled(i)
    BY <1>1, <2>1 DEF Shape, Settled
  <2>3. \A i \in OpenIntents : StartsAreCounted(i)'
    BY <1>1, <2>1, <2>2 DEF IntentInv, StartsAreCounted, Entries, Shape
  <2>4. QED
    BY <2>1, <2>2, <2>3 DEF WorkerInv, WorkerTypeOK, AttemptsAreLeft, AnsweredIsKept, AttemptsAreBounded
<1>6. QED
  BY <1>2, <1>3, <1>4, <1>5, BeginJobInv, WriteStateInv, CoolsInv, FinishWorkInv, SubmitDecisionInv,
     CountFailureInv, AbstainAtLastInv DEF WorkerNext

LEMMA WorkerAlways == WorkerSpec => []WorkerInv
BY WorkerBegins, WorkerStepInv, PTL DEF WorkerSpec

\* An intent is worked on no more often than max_attempts_per_intent, and once more for
\* each restart, whatever was written and whatever failed (the worker's state file and
\* handleIntentError), for any number of intents.
THEOREM AttemptsBounded == WorkerSpec => []AttemptsAreBounded
<1>1. WorkerInv => AttemptsAreBounded
  BY DEF WorkerInv
<1>2. QED
  BY <1>1, WorkerAlways, PTL

\* An intent whose answer is in the state file is never taken up again, although the
\* write of its own job may be rejected after another job's has stored the answer.
THEOREM AnsweredStays == WorkerSpec => AnsweredIsNotReworked
<1>1. ASSUME WorkerInv, [WorkerNext]_workerVars, NEW i \in OpenIntents,
             disk[i].state = "answered", job[i] = "none"
      PROVE  job'[i] = "none"
  <2>1. Shape /\ memory[i].state = "answered"
    BY <1>1, WorkerByIntent DEF WorkerInv, AnsweredIsKept
  <2>2. IsHandled(i)
    BY <2>1 DEF IsHandled
  <2>3. ASSUME NEW q \in OpenIntents, NEW yes \in BOOLEAN, FinishWork(q, yes) PROVE job'[i] = "none"
    BY <1>1, <2>1, <2>3 DEF FinishWork, Wakes, Jobs, Moves, Shape
  <2>4. ASSUME NEW q \in OpenIntents, NEW yes \in BOOLEAN,
               SubmitDecision(q, yes) \/ CountFailure(q, yes) \/ AbstainAtLast(q, yes)
        PROVE  job'[i] = "none"
    BY <1>1, <2>1, <2>4 DEF SubmitDecision, CountFailure, AbstainAtLast, Moves, Shape
  <2>5. ASSUME NEW q \in OpenIntents,
               \/ Poll(q) \/ BeginJob(q) \/ WriteState(q) \/ WriteRejected(q) \/ Announce(q) \/ AnnounceFails(q)
               \/ Schedule(q) \/ Resume(q) \/ SubmissionLost(q) \/ Cools(q)
        PROVE  job'[i] = "none"
    <3>1. CASE q = i
      BY <1>1, <2>1, <2>2, <2>5, <3>1 DEF Poll, BeginJob, WriteState, WriteRejected, Announce, AnnounceFails,
         Schedule, Resume, SubmissionLost, Cools, JobOnly, AfterWrite
    <3>2. CASE q # i
      BY <1>1, <2>1, <2>5, <3>2 DEF Poll, BeginJob, WriteState, WriteRejected, Announce, AnnounceFails,
         Schedule, Resume, SubmissionLost, Cools, JobOnly, Moves, Shape
    <3>3. QED
      BY <3>1, <3>2
  <2>6. CASE \/ Crash \/ WatcherReturns \/ Shutdown \/ TimePasses \/ UNCHANGED workerVars
             \/ \E q \in OpenIntents : ErrorRejected(q)
    BY <1>1, <2>6 DEF Crash, WatcherReturns, Shutdown, TimePasses, workerVars, ErrorRejected, ErrorUnsaved,
       Restarted
  <2>7. QED
    BY <1>1, <2>3, <2>4, <2>5, <2>6 DEF WorkerNext
<1>2. WorkerInv /\ [WorkerNext]_workerVars =>
        [\A i \in OpenIntents : disk[i].state = "answered" /\ job[i] = "none" => job'[i] = "none"]_workerVars
  BY <1>1
<1>3. WorkerSpec => [][\A i \in OpenIntents :
                         disk[i].state = "answered" /\ job[i] = "none" => job'[i] = "none"]_workerVars
  BY <1>2, WorkerAlways, PTL DEF WorkerSpec
<1>4. QED
  BY <1>3 DEF AnsweredIsNotReworked

Busy == Jobs("work") \cup Jobs("woken")
SlotInv == DOMAIN job = OpenIntents /\ WaitersHaveWorkers

\* Some of the intents are finitely many, and more of them are no fewer.
LEMMA JobsAreFinite ==
  ASSUME NEW S, NEW T, S \subseteq T, T \subseteq OpenIntents
  PROVE  /\ IsFiniteSet(S) /\ IsFiniteSet(T) /\ Cardinality(S) \in Nat /\ Cardinality(T) \in Nat
         /\ Cardinality(S) <= Cardinality(T)
<1>1. IsFiniteSet(T)
  BY WorkerConstants, FS_Subset
<1>2. IsFiniteSet(S) /\ Cardinality(S) <= Cardinality(T)
  BY <1>1, FS_Subset
<1>3. QED
  BY <1>1, <1>2, FS_CardinalityType

\* A job that moves without waiting, and without giving up its slot, keeps every slot.
LEMMA SlotsMove ==
  ASSUME SlotInv, NEW i \in OpenIntents, NEW ACTION at, Moves(i, at), at # "wait",
         job[i] \in {"work", "woken"} => at \in {"work", "woken"}
  PROVE  SlotInv'
<1>1. DOMAIN job' = OpenIntents /\ \A q \in OpenIntents : job'[q] = IF q = i THEN at ELSE job[q]
  BY DEF SlotInv, Moves
<1>2. Jobs("wait")' \subseteq Jobs("wait") /\ Busy \subseteq Busy' /\ Busy' \subseteq OpenIntents
  BY <1>1 DEF Jobs, Busy
<1>3. Cardinality(Busy) <= Cardinality(Busy') /\ Cardinality(Busy) \in Nat /\ Cardinality(Busy') \in Nat
  BY <1>2, JobsAreFinite
<1>4. QED
  BY <1>1, <1>2, <1>3, WorkerConstants DEF SlotInv, WaitersHaveWorkers, Busy

\* A job waits when as many work as may.
LEMMA SlotsSchedule ==
  ASSUME SlotInv, NEW i \in OpenIntents, Schedule(i)
  PROVE  SlotInv'
<1>1. job[i] = "schedule"
  BY DEF Schedule, JobOnly
<1>2. CASE Cardinality(Jobs("work")) >= MaxParallel
  <2>1. DOMAIN job' = OpenIntents /\ \A q \in OpenIntents : job'[q] = IF q = i THEN "wait" ELSE job[q]
    BY <1>2 DEF SlotInv, Schedule, JobOnly, Moves
  <2>2. Jobs("work") \subseteq Busy' /\ Busy' \subseteq OpenIntents
    BY <1>1, <2>1 DEF Jobs, Busy
  <2>3. /\ Cardinality(Jobs("work")) <= Cardinality(Busy')
        /\ Cardinality(Jobs("work")) \in Nat /\ Cardinality(Busy') \in Nat
    BY <2>2, JobsAreFinite
  <2>4. QED
    BY <1>2, <2>1, <2>3, WorkerConstants DEF SlotInv, WaitersHaveWorkers, Busy
<1>3. CASE ~(Cardinality(Jobs("work")) >= MaxParallel)
  <2>1. Moves(i, "work")
    BY <1>3 DEF Schedule, JobOnly
  <2>2. QED
    BY <1>1, <2>1, SlotsMove
<1>4. QED
  BY <1>2, <1>3

\* Finished work, also one that failed, gives its slot to a waiter.
LEMMA SlotsFinish ==
  ASSUME SlotInv, NEW i \in OpenIntents, NEW thrown \in BOOLEAN, FinishWork(i, thrown)
  PROVE  SlotInv'
<1>1. job[i] = "work" /\ DOMAIN job = OpenIntents
  BY DEF FinishWork, SlotInv
<1>2. CASE Jobs("wait") = {}
  <2>1. job' = [job EXCEPT ![i] = "submit"]
    BY <1>2 DEF FinishWork, Wakes, Moves
  <2>2. DOMAIN job' = OpenIntents /\ Jobs("wait")' = {}
    BY <1>1, <1>2, <2>1 DEF Jobs
  <2>3. QED
    BY <2>2 DEF SlotInv, WaitersHaveWorkers
<1>3. CASE Jobs("wait") # {}
  <2>1. PICK w \in Jobs("wait") : job' = [job EXCEPT ![i] = "submit", ![w] = "woken"]
    BY <1>3 DEF FinishWork, Wakes
  <2>2. /\ w \in OpenIntents /\ w # i /\ w \notin Busy /\ i \in Busy /\ Busy \subseteq OpenIntents
        /\ DOMAIN job' = OpenIntents
        /\ \A q \in OpenIntents : job'[q] = IF q = w THEN "woken" ELSE IF q = i THEN "submit" ELSE job[q]
    BY <1>1, <2>1 DEF Jobs, Busy
  <2>3. Busy' = (Busy \ {i}) \cup {w}
    BY <1>1, <2>2 DEF Jobs, Busy
  <2>4. Cardinality(Busy') = Cardinality(Busy)
    <3>1. IsFiniteSet(Busy) /\ Cardinality(Busy) \in Nat
      BY <2>2, JobsAreFinite
    <3>2. IsFiniteSet(Busy \ {i}) /\ Cardinality(Busy \ {i}) = Cardinality(Busy) - 1
      BY <2>2, <3>1, FS_RemoveElement
    <3>3. Cardinality((Busy \ {i}) \cup {w}) = Cardinality(Busy \ {i}) + 1
      BY <2>2, <3>2, FS_AddElement
    <3>4. QED
      BY <2>3, <3>1, <3>2, <3>3
  <2>5. QED
    BY <1>3, <2>2, <2>4 DEF SlotInv, WaitersHaveWorkers, Busy
<1>4. QED
  BY <1>2, <1>3

\* No slot of the worker is lost when work throws, times out or is shut down: a job
\* waits only while as many others work, or were let in, as may (WorkLimiter), for any
\* number of intents and slots.
THEOREM NoSlotIsLost == WorkerSpec => []WaitersHaveWorkers
<1>1. WorkerInit => SlotInv
  <2>1. ASSUME WorkerInit PROVE DOMAIN job = OpenIntents /\ Jobs("wait") = {}
    BY <2>1 DEF WorkerInit, Jobs
  <2>2. QED
    BY <2>1 DEF SlotInv, WaitersHaveWorkers
<1>2. ASSUME SlotInv, [WorkerNext]_workerVars PROVE SlotInv'
  <2>1. ASSUME NEW i \in OpenIntents, NEW yes \in BOOLEAN,
               SubmitDecision(i, yes) \/ CountFailure(i, yes) \/ AbstainAtLast(i, yes)
        PROVE  SlotInv'
    <3>1. job[i] \in {"submit", "error", "abstain"}
      BY <2>1 DEF SubmitDecision, CountFailure, AbstainAtLast
    <3>2. \E at \in {"none", "saveDone", "error", "saveError", "abstain"} : Moves(i, at)
      BY <2>1 DEF SubmitDecision, CountFailure, AbstainAtLast
    <3>3. QED
      BY <1>2, <3>1, <3>2, SlotsMove
  <2>2. ASSUME NEW i \in OpenIntents,
               \/ Poll(i) \/ BeginJob(i) \/ WriteState(i) \/ WriteRejected(i) \/ Announce(i) \/ AnnounceFails(i)
               \/ SubmissionLost(i)
        PROVE  SlotInv'
    <3>1. job[i] \notin {"work", "woken"}
      BY <2>2, Writes DEF Poll, BeginJob, WriteState, WriteRejected, Announce, AnnounceFails, SubmissionLost, JobOnly
    <3>2. \E at \in {"begin", "saveLast", "saveStart", "announce", "none", "error", "schedule"} : Moves(i, at)
      BY <2>2, Writes DEF Poll, BeginJob, WriteState, WriteRejected, Announce, AnnounceFails, SubmissionLost, JobOnly
    <3>3. QED
      BY <1>2, <3>1, <3>2, SlotsMove
  <2>3. ASSUME NEW i \in OpenIntents, Resume(i) PROVE SlotInv'
    BY <1>2, <2>3, SlotsMove DEF Resume, JobOnly
  <2>4. CASE Crash \/ WatcherReturns \/ \E i \in OpenIntents : ErrorRejected(i)
    <3>1. job' = [i \in OpenIntents |-> "none"]
      BY <2>4 DEF Crash, WatcherReturns, ErrorRejected, ErrorUnsaved, Restarted
    <3>2. DOMAIN job' = OpenIntents /\ Jobs("wait")' = {}
      BY <3>1 DEF Jobs
    <3>3. QED
      BY <3>2 DEF SlotInv, WaitersHaveWorkers
  <2>5. CASE Shutdown \/ TimePasses \/ UNCHANGED workerVars \/ \E i \in OpenIntents : Cools(i)
    <3>1. job' = job
      BY <2>5 DEF Shutdown, TimePasses, workerVars, Cools
    <3>2. QED
      BY <1>2, <3>1 DEF SlotInv, WaitersHaveWorkers, Jobs
  <2>6. QED
    BY <1>2, <2>1, <2>2, <2>3, <2>4, <2>5, SlotsSchedule, SlotsFinish DEF WorkerNext
<1>3. SlotInv => WaitersHaveWorkers
  BY DEF SlotInv
<1>4. QED
  BY <1>1, <1>2, <1>3, PTL DEF WorkerSpec

-----------------------------------------------------------------------------
(* ReplayCapacity *)

Phases == {"idle", "body", "let in", "replaying", "waiting"}

\* The queue lists the requests that wait, each once: only so does a slot that is
\* handed on go to a request that has none.
QueueIsTheWaiters ==
  /\ waiting \in Seq(Replays)
  /\ \A i \in 1..Len(waiting) : replay[waiting[i]] = "waiting"
  /\ \A i, j \in 1..Len(waiting) : waiting[i] = waiting[j] => i = j
  /\ \A r \in Waiters : \E i \in 1..Len(waiting) : waiting[i] = r

CapacityInv ==
  /\ replay \in [Replays -> Phases]
  /\ activeCount \in Nat
  /\ QueueIsTheWaiters
  /\ SlotsAreConserved

\* A set of requests is finite, and its size a number.
LEMMA RequestsAreFinite ==
  ASSUME NEW S, S \subseteq Replays
  PROVE  IsFiniteSet(S) /\ Cardinality(S) \in Nat
BY CapacityAssumption, FS_Subset, FS_CardinalityType

\* Sizes change by one when one request joins or leaves.
LEMMA OneMore ==
  ASSUME NEW S, S \subseteq Replays, NEW r \in Replays, r \notin S
  PROVE  Cardinality(S \cup {r}) = Cardinality(S) + 1
BY RequestsAreFinite, FS_AddElement

\* Taking one element out of a finite set leaves one less.
LEMMA OneLess ==
  ASSUME NEW S, S \subseteq Replays, NEW r \in S
  PROVE  Cardinality(S \ {r}) = Cardinality(S) - 1
BY RequestsAreFinite, FS_RemoveElement

\* At the start all slots are free.
LEMMA CapacityInitInv == CapacityInit => CapacityInv
<1> SUFFICES ASSUME CapacityInit PROVE CapacityInv
  OBVIOUS
<1> USE DEF CapacityInit
<1>1. Holding = {} /\ Waiters = {}
  BY DEF Holding, Waiters
<1>2. Cardinality({}) = 0
  BY FS_EmptySet
<1>3. QueueIsTheWaiters
  BY <1>1 DEF QueueIsTheWaiters
<1>4. SlotsAreConserved
  BY <1>1, <1>2, CapacityAssumption DEF SlotsAreConserved
<1>5. QED
  BY <1>3, <1>4 DEF CapacityInv, Phases

\* A request that neither gets nor gives a slot, nor waits, changes nothing.
LEMMA Elsewhere ==
  ASSUME CapacityInv, UNCHANGED <<activeCount, waiting>>,
         NEW r \in Replays, NEW from, NEW to \in Phases, replay[r] = from, Turns(r, to),
         \/ from \in {"idle", "body"} /\ to \in {"idle", "body"}
         \/ from = "let in" /\ to = "replaying"
  PROVE  CapacityInv'
<1>1. replay' \in [Replays -> Phases]
  BY DEF CapacityInv, Turns
<1>2. Holding' = Holding /\ Waiters' = Waiters
  BY DEF CapacityInv, Turns, Holding, Waiters
<1>3. \A q \in Replays : replay[q] = "waiting" <=> replay'[q] = "waiting"
  BY DEF CapacityInv, Turns
<1>4. \A i \in 1..Len(waiting) : waiting[i] \in Replays
  BY ElementOfSeq DEF CapacityInv, QueueIsTheWaiters
<1>5. QueueIsTheWaiters'
  BY <1>2, <1>3, <1>4 DEF CapacityInv, QueueIsTheWaiters
<1>6. SlotsAreConserved'
  BY <1>2 DEF CapacityInv, SlotsAreConserved
<1>7. QED
  BY <1>1, <1>5, <1>6 DEF CapacityInv

\* A replay that acquires takes a free slot, or queues.
LEMMA AcquireInv ==
  ASSUME CapacityInv, NEW r \in Replays, Acquire(r)
  PROVE  CapacityInv'
<1>1. /\ replay[r] = "body" /\ r \notin Holding /\ r \notin Waiters
      /\ Holding \subseteq Replays /\ Waiters \subseteq Replays
  BY DEF Acquire, Holding, Waiters
<1>2. \A i \in 1..Len(waiting) : waiting[i] \in Replays /\ waiting[i] # r
  BY <1>1, ElementOfSeq DEF CapacityInv, QueueIsTheWaiters
<1>3. CASE activeCount < Slots
  <2>1. /\ activeCount' = activeCount + 1 /\ waiting' = waiting
        /\ replay' = [replay EXCEPT ![r] = "let in"]
    BY <1>3 DEF Acquire, Turns
  <2>2. Holding' = Holding \cup {r} /\ Waiters' = Waiters
    BY <1>1, <2>1 DEF CapacityInv, Holding, Waiters
  <2>3. Cardinality(Holding') = Cardinality(Holding) + 1
    BY <1>1, <2>2, OneMore
  <2>4. waiting = <<>>
    BY <1>3, CapacityAssumption DEF CapacityInv, SlotsAreConserved
  <2>5. SlotsAreConserved'
    <3>1. activeCount + 1 <= Slots
      BY <1>3, CapacityAssumption DEF CapacityInv
    <3>2. activeCount' = Cardinality(Holding')
      BY <2>1, <2>3 DEF CapacityInv, SlotsAreConserved
    <3>3. Len(waiting') = Cardinality(Waiters') /\ waiting' = <<>>
      BY <2>1, <2>2, <2>4 DEF CapacityInv, SlotsAreConserved
    <3>4. QED
      BY <2>1, <3>1, <3>2, <3>3 DEF SlotsAreConserved
  <2>6. QueueIsTheWaiters'
    BY <1>1, <1>2, <2>1, <2>2 DEF CapacityInv, QueueIsTheWaiters
  <2>7. activeCount' \in Nat /\ replay' \in [Replays -> Phases]
    <3>1. activeCount' \in Nat
      <4>1. activeCount \in Nat
        BY DEF CapacityInv
      <4>2. activeCount' = activeCount + 1
        BY <2>1
      <4>3. QED
        BY <4>1, <4>2
    <3>2. "let in" \in Phases /\ replay \in [Replays -> Phases]
      BY DEF CapacityInv, Phases
    <3>3. QED
      BY <2>1, <3>1, <3>2
  <2>8. QED
    BY <2>5, <2>6, <2>7 DEF CapacityInv
<1>4. CASE ~(activeCount < Slots) /\ Len(waiting) >= MaximumQueue
  <2>1. UNCHANGED <<activeCount, waiting>> /\ Turns(r, "idle")
    BY <1>4 DEF Acquire
  <2>2. "idle" \in Phases
    BY DEF Phases
  <2>3. QED
    BY <1>1, <2>1, <2>2, Elsewhere
<1>5. CASE ~(activeCount < Slots) /\ ~(Len(waiting) >= MaximumQueue)
  <2>1. /\ activeCount' = activeCount /\ waiting' = Append(waiting, r)
        /\ replay' = [replay EXCEPT ![r] = "waiting"]
    BY <1>5 DEF Acquire, Turns
  <2>2. Holding' = Holding /\ Waiters' = Waiters \cup {r}
    BY <1>1, <2>1 DEF CapacityInv, Holding, Waiters
  <2>3. /\ waiting' \in Seq(Replays) /\ Len(waiting') = Len(waiting) + 1 /\ waiting' # <<>>
        /\ \A i \in 1..Len(waiting) : waiting'[i] = waiting[i]
        /\ waiting'[Len(waiting) + 1] = r
    BY <2>1, AppendProperties DEF CapacityInv, QueueIsTheWaiters
  <2>4. Len(waiting) \in Nat
    BY LenProperties DEF CapacityInv, QueueIsTheWaiters
  <2>5. QueueIsTheWaiters'
    <3>1. \A i \in 1..Len(waiting') : \/ i \in 1..Len(waiting) /\ waiting'[i] = waiting[i]
                                      \/ i = Len(waiting) + 1 /\ waiting'[i] = r
      BY <2>3, <2>4
    <3>2. \A i \in 1..Len(waiting) : replay'[waiting[i]] = "waiting"
      BY <1>2, <2>1 DEF CapacityInv, QueueIsTheWaiters
    <3>3. replay'[r] = "waiting"
      BY <2>1 DEF CapacityInv
    <3>4. \A q \in Waiters' : \E i \in 1..Len(waiting') : waiting'[i] = q
      BY <2>2, <2>3, <2>4 DEF CapacityInv, QueueIsTheWaiters
    <3>5. \A i, j \in 1..Len(waiting') : waiting'[i] = waiting'[j] => i = j
      BY <1>2, <3>1 DEF CapacityInv, QueueIsTheWaiters
    <3>6. QED
      BY <2>3, <3>1, <3>2, <3>3, <3>4, <3>5 DEF QueueIsTheWaiters
  <2>6. Cardinality(Waiters') = Cardinality(Waiters) + 1
    BY <1>1, <2>2, OneMore
  <2>7. activeCount = Slots
    BY <1>5, CapacityAssumption DEF CapacityInv, SlotsAreConserved
  <2>8. SlotsAreConserved'
    BY <2>1, <2>2, <2>3, <2>6, <2>7 DEF CapacityInv, SlotsAreConserved
  <2>9. QED
    BY <2>1, <2>5, <2>8 DEF CapacityInv, Phases
<1>6. QED
  BY <1>3, <1>4, <1>5

\* A release passes the slot on, or frees it.
LEMMA ReleaseInv ==
  ASSUME CapacityInv, NEW r \in Replays, EndReplay(r)
  PROVE  CapacityInv'
<1>1. /\ replay[r] = "replaying" /\ r \in Holding /\ r \notin Waiters
      /\ Holding \subseteq Replays /\ Waiters \subseteq Replays
  BY DEF EndReplay, Holding, Waiters
<1>2. \A i \in 1..Len(waiting) : waiting[i] \in Replays /\ waiting[i] # r
  BY <1>1, ElementOfSeq DEF CapacityInv, QueueIsTheWaiters
<1>3. Len(waiting) \in Nat /\ waiting \in Seq(Replays)
  BY LenProperties DEF CapacityInv, QueueIsTheWaiters
<1>4. CASE waiting = <<>>
  <2>1. /\ activeCount' = activeCount - 1 /\ waiting' = waiting
        /\ replay' = [replay EXCEPT ![r] = "idle"]
    BY <1>4 DEF EndReplay, Releases, Turns
  <2>2. Holding' = Holding \ {r} /\ Waiters' = Waiters
    BY <1>1, <2>1 DEF CapacityInv, Holding, Waiters
  <2>3. Cardinality(Holding') = Cardinality(Holding) - 1
    BY <1>1, <2>2, OneLess
  <2>4. Cardinality(Holding') \in Nat
    BY <1>1, <2>2, RequestsAreFinite
  <2>5. SlotsAreConserved'
    BY <1>4, <2>1, <2>2, <2>3, <2>4, CapacityAssumption DEF CapacityInv, SlotsAreConserved
  <2>6. QueueIsTheWaiters'
    BY <1>4, <2>1, <2>2 DEF CapacityInv, QueueIsTheWaiters
  <2>7. activeCount' \in Nat
    BY <2>4, <2>5 DEF SlotsAreConserved
  <2>8. QED
    BY <2>1, <2>5, <2>6, <2>7 DEF CapacityInv, Phases
<1>5. CASE waiting # <<>>
  <2> DEFINE h == waiting[1]
  <2>1. /\ 1 \in 1..Len(waiting) /\ Head(waiting) = h
    BY <1>3, <1>5
  <2>2. h \in Replays /\ h # r /\ replay[h] = "waiting" /\ h \in Waiters /\ h \notin Holding
    BY <1>2, <2>1 DEF CapacityInv, QueueIsTheWaiters, Waiters, Holding
  <2>3. /\ activeCount' = activeCount /\ waiting' = Tail(waiting)
        /\ replay' = [replay EXCEPT ![r] = "idle", ![h] = "let in"]
    BY <1>5, <2>1 DEF EndReplay, Releases
  <2>4. \A q \in Replays : replay'[q] = IF q = h THEN "let in" ELSE IF q = r THEN "idle" ELSE replay[q]
    BY <2>2, <2>3 DEF CapacityInv
  <2>5. Holding' = (Holding \ {r}) \cup {h} /\ Waiters' = Waiters \ {h}
    BY <1>1, <2>2, <2>4 DEF Holding, Waiters
  <2>6. Cardinality(Holding') = Cardinality(Holding)
    <3>1. Cardinality(Holding \ {r}) = Cardinality(Holding) - 1
      BY <1>1, OneLess
    <3>2. Cardinality((Holding \ {r}) \cup {h}) = Cardinality(Holding \ {r}) + 1
      BY <1>1, <2>2, OneMore
    <3>3. Cardinality(Holding) \in Nat
      BY <1>1, RequestsAreFinite
    <3>4. QED
      BY <2>5, <3>1, <3>2, <3>3
  <2>7. Cardinality(Waiters') = Cardinality(Waiters) - 1
    BY <1>1, <2>2, <2>5, OneLess
  <2>8. /\ waiting' \in Seq(Replays) /\ Len(waiting') = Len(waiting) - 1
        /\ \A i \in 1..Len(waiting') : waiting'[i] = waiting[i + 1]
    BY <1>3, <1>5, <2>3, HeadTailProperties
  <2>9. \A i \in 1..Len(waiting') : i + 1 \in 1..Len(waiting) /\ waiting'[i] # h
    BY <1>3, <2>1, <2>8 DEF CapacityInv, QueueIsTheWaiters
  <2>10. QueueIsTheWaiters'
    <3>1. \A i \in 1..Len(waiting') : replay'[waiting'[i]] = "waiting"
      <4>1. ASSUME NEW i \in 1..Len(waiting') PROVE replay'[waiting'[i]] = "waiting"
        <5>1. /\ waiting'[i] = waiting[i + 1] /\ i + 1 \in 1..Len(waiting)
              /\ waiting'[i] # h
          BY <2>8, <2>9
        <5>2. waiting'[i] \in Replays /\ waiting'[i] # r /\ replay[waiting'[i]] = "waiting"
          BY <1>2, <5>1 DEF CapacityInv, QueueIsTheWaiters
        <5>3. QED
          BY <2>4, <5>1, <5>2
      <4>2. QED
        BY <4>1
    <3>2. \A i, j \in 1..Len(waiting') : waiting'[i] = waiting'[j] => i = j
      BY <2>8, <2>9 DEF CapacityInv, QueueIsTheWaiters
    <3>3. ASSUME NEW q \in Waiters' PROVE \E i \in 1..Len(waiting') : waiting'[i] = q
      <4>1. q \in Waiters /\ q # h
        BY <2>5
      <4>2. PICK k \in 1..Len(waiting) : waiting[k] = q
        BY <4>1 DEF CapacityInv, QueueIsTheWaiters
      <4>3. k - 1 \in 1..Len(waiting') /\ waiting'[k - 1] = q
        BY <1>3, <2>8, <4>1, <4>2
      <4>4. QED
        BY <4>3
    <3>4. QED
      BY <2>8, <3>1, <3>2, <3>3 DEF QueueIsTheWaiters
  <2>11. SlotsAreConserved'
    BY <1>3, <1>5, <2>3, <2>6, <2>7, <2>8 DEF CapacityInv, SlotsAreConserved
  <2>12. replay' \in [Replays -> Phases]
    BY <2>3 DEF CapacityInv, Phases
  <2>13. QED
    BY <2>3, <2>10, <2>11, <2>12 DEF CapacityInv
<1>6. QED
  BY <1>4, <1>5

\* No slot of the replay service is lost or given twice, and nobody waits while one
\* is free, for any number of requests (capacity.ts).
THEOREM SlotsConserved == CapacitySpec => []SlotsAreConserved
<1>1. CapacityInit => CapacityInv
  BY CapacityInitInv
<1>2. CapacityInv /\ [CapacityNext]_capacityVars => CapacityInv'
  <2> SUFFICES ASSUME CapacityInv, [CapacityNext]_capacityVars PROVE CapacityInv'
    OBVIOUS
  <2>1. ASSUME NEW r \in Replays, PostReplay(r) \/ BodyFails(r) \/ StartReplay(r) PROVE CapacityInv'
    BY <2>1, Elsewhere DEF PostReplay, BodyFails, StartReplay, Phases
  <2>2. CASE UNCHANGED capacityVars
    BY <2>2 DEF capacityVars, CapacityInv, QueueIsTheWaiters, SlotsAreConserved, Waiters, Holding
  <2>3. QED
    BY <2>1, <2>2, AcquireInv, ReleaseInv DEF CapacityNext
<1>3. CapacityInv => SlotsAreConserved
  BY DEF CapacityInv
<1>4. QED
  BY <1>1, <1>2, <1>3, PTL DEF CapacitySpec
=============================================================================

------------------------------- MODULE SolverJob -------------------------------
(***************************************************************************)
(* The worker of an external solver (examples/open-solver, with the        *)
(* watcher of packages/solver-sdk): one job per intent, a bounded number   *)
(* of them at work, attempts with a delay between them, and a state file   *)
(* that a restarted worker reads.  A job is at the await "job" names.      *)
(*                                                                         *)
(* The exchange accepts one decision for the worker's revision 1.  An      *)
(* announcement, or the answer to a decision, may be lost.                 *)
(***************************************************************************)
EXTENDS Naturals, FiniteSets

CONSTANTS
  OpenIntents,
  MaxAttempts,   \* max_attempts_per_intent
  MaxParallel,   \* max_parallel_jobs
  MaxRestarts    \* bound on the restarts

ASSUME WorkerAssumption ==
  /\ IsFiniteSet(OpenIntents)
  /\ {MaxAttempts, MaxParallel} \subseteq Nat \ {0} /\ MaxRestarts \in Nat

VARIABLES
  memory,    \* state: SolverJobState
  disk,      \* the state file
  job,       \* what each job awaits
  poisoned,  \* pendingWrite is rejected, and every write after it
  stopping,  \* the watcher's loop has found the signal aborted
  phase,     \* of the competition: 0, then no retry fits, no work fits, closed
  accepted,  \* decisions the exchange has accepted
  restarts,
  starts     \* how often each intent was worked on: a history variable

workerVars == <<memory, disk, job, poisoned, stopping, phase, accepted, restarts, starts>>

Fresh == [state |-> "new", attempts |-> 0, cooling |-> FALSE]

WorkerInit ==
  /\ memory = [i \in OpenIntents |-> Fresh] /\ disk = memory
  /\ job = [i \in OpenIntents |-> "none"] /\ starts = [i \in OpenIntents |-> 0]
  /\ poisoned = FALSE /\ stopping = FALSE /\ phase = 0
  /\ accepted = {} /\ restarts = 0

Moves(i, at) == job' = [job EXCEPT ![i] = at]
Jobs(at) == {i \in OpenIntents : job[i] = at}
JobOnly(i, from, at) ==
  /\ job[i] = from /\ Moves(i, at)
  /\ UNCHANGED <<memory, disk, poisoned, stopping, phase, accepted, restarts, starts>>

-----------------------------------------------------------------------------
(* IntentAttempts *)

IsHandled(i) ==
  LET e == memory[i] IN
  CASE e.state \in {"new", "running"} -> FALSE
    [] e.state = "error" -> e.attempts >= MaxAttempts \/ e.cooling
    [] OTHER -> TRUE

\* Mutant: an attempt forgets the ones before it.
StartedAfresh(e) == [state |-> "running", attempts |-> 0, cooling |-> FALSE]

Started(e) == [state |-> "running", attempts |-> e.attempts, cooling |-> FALSE]
Failed(e) == [state |-> "error", attempts |-> e.attempts + 1, cooling |-> TRUE]
EntryEnded(e, state) == [state |-> state, attempts |-> e.attempts, cooling |-> FALSE]

Sets(i, entry) == memory' = [memory EXCEPT ![i] = entry]

-----------------------------------------------------------------------------
(* A job *)

\* The watcher finds an open intent without a job that is not handled.
Poll(i) ==
  /\ ~stopping /\ phase < 2 /\ ~IsHandled(i)
  /\ JobOnly(i, "none", "begin")

\* No work fits any more, or the attempt is recorded and the state written.
BeginJob(i) ==
  /\ job[i] = "begin"
  /\ IF phase >= 2
     THEN Sets(i, EntryEnded(memory[i], "expired")) /\ Moves(i, "saveLast") /\ UNCHANGED starts
     ELSE /\ Sets(i, Started(memory[i])) /\ Moves(i, "saveStart")
          /\ starts' = [starts EXCEPT ![i] = @ + 1]
  /\ UNCHANGED <<disk, poisoned, stopping, phase, accepted, restarts>>

\* Where a job goes when its write succeeds, and when it is rejected.
AfterWrite == [saveStart |-> "announce", saveDone |-> "none", saveLast |-> "none", saveError |-> "none"]

\* Each write has the whole state, as it is then.
WriteState(i) ==
  /\ job[i] \in DOMAIN AfterWrite /\ ~poisoned
  /\ disk' = memory
  /\ Moves(i, AfterWrite[job[i]])
  /\ UNCHANGED <<memory, poisoned, stopping, phase, accepted, restarts, starts>>

\* A write that fails rejects every later one too; a rejection inside a job is its
\* error.
WriteRejected(i) ==
  /\ job[i] \in DOMAIN AfterWrite \ {"saveError"}
  /\ poisoned' = TRUE
  /\ Moves(i, "error")
  /\ UNCHANGED <<memory, disk, stopping, phase, accepted, restarts, starts>>

Announce(i) == JobOnly(i, "announce", "schedule")
AnnounceFails(i) == JobOnly(i, "announce", "error")

\* WorkLimiter.run
Schedule(i) ==
  JobOnly(i, "schedule", IF Cardinality(Jobs("work")) >= MaxParallel THEN "wait" ELSE "work")

\* A waiter that was let in does not look again.
Resume(i) == JobOnly(i, "woken", "work")

\* Mutant: work that throws lets nobody in.
WakesOnSuccess(i, thrown) ==
  IF thrown \/ Jobs("wait") = {} THEN Moves(i, "submit")
  ELSE \E w \in Jobs("wait") : job' = [job EXCEPT ![i] = "submit", ![w] = "woken"]

\* The next waiter is let in, which runs later.
Wakes(i, thrown) ==
  IF Jobs("wait") = {} THEN Moves(i, "submit")
  ELSE \E w \in Jobs("wait") : job' = [job EXCEPT ![i] = "submit", ![w] = "woken"]

\* Work that throws, times out or is shut down decides to abstain.
FinishWork(i, thrown) ==
  /\ job[i] = "work"
  /\ Wakes(i, thrown)
  /\ UNCHANGED <<memory, disk, poisoned, stopping, phase, accepted, restarts, starts>>

\* submitSolverDecision: nothing is sent after the close.  The exchange refuses a
\* decision when it has one; an answer that is lost is an error.
SubmitDecision(i, answered) ==
  /\ job[i] = "submit"
  /\ IF phase = 3 THEN Moves(i, "none") /\ UNCHANGED <<memory, accepted>>
     ELSE /\ accepted' = accepted \cup {i}
          /\ IF i \notin accepted /\ answered
             THEN Sets(i, EntryEnded(memory[i], "answered")) /\ Moves(i, "saveDone")
             ELSE Moves(i, "error") /\ UNCHANGED memory
  /\ UNCHANGED <<disk, poisoned, stopping, phase, restarts, starts>>

SubmissionLost(i) == JobOnly(i, "submit", "error")

-----------------------------------------------------------------------------
(* handleIntentError *)

\* The failure is counted; a retry has to fit before the close.
CountFailure(i, fits) ==
  /\ job[i] = "error"
  /\ Sets(i, Failed(memory[i]))
  /\ Moves(i, IF memory[i].attempts + 1 < MaxAttempts /\ phase = 0 /\ fits THEN "saveError" ELSE "abstain")
  /\ UNCHANGED <<disk, poisoned, stopping, phase, accepted, restarts, starts>>

\* Without another attempt the worker abstains; a refusal, or an abstention that is
\* lost before the exchange has it, leaves an error that waits for nothing.
AbstainAtLast(i, answered) ==
  /\ job[i] = "abstain" /\ Moves(i, "saveError")
  /\ \/ /\ phase < 3 /\ accepted' = accepted \cup {i}
        /\ Sets(i, EntryEnded(memory[i], IF i \notin accepted /\ answered THEN "answered" ELSE "error"))
     \/ phase < 3 /\ Sets(i, EntryEnded(memory[i], "error")) /\ UNCHANGED accepted
     \/ phase = 3 /\ Sets(i, EntryEnded(memory[i], "expired")) /\ UNCHANGED accepted
  /\ UNCHANGED <<disk, poisoned, stopping, phase, restarts, starts>>

-----------------------------------------------------------------------------
(* The process and the world *)

Restarted ==
  /\ restarts < MaxRestarts /\ restarts' = restarts + 1
  /\ memory' = disk /\ job' = [i \in OpenIntents |-> "none"]
  /\ poisoned' = FALSE /\ stopping' = FALSE
  /\ UNCHANGED <<disk, phase, accepted, starts>>

\* Mutant: an error that cannot be written is forgotten.
ErrorUnsavedForgotten(i) ==
  /\ Moves(i, "none") /\ poisoned' = FALSE
  /\ UNCHANGED <<memory, disk, stopping, phase, accepted, restarts, starts>>

\* The rejection of a job is handled by nobody, which ends the process.
ErrorUnsaved(i) == Restarted

ErrorRejected(i) == job[i] = "saveError" /\ ErrorUnsaved(i)

Crash == Restarted

\* The round that was under way when the signal was aborted has started its jobs.
Shutdown ==
  /\ ~stopping /\ stopping' = TRUE
  /\ UNCHANGED <<memory, disk, job, poisoned, phase, accepted, restarts, starts>>

\* The watcher returns when every job has settled.
WatcherReturns == stopping /\ Jobs("none") = OpenIntents /\ Restarted

Cools(i) ==
  /\ memory[i].cooling /\ Sets(i, [memory[i] EXCEPT !.cooling = FALSE])
  /\ UNCHANGED <<disk, job, poisoned, stopping, phase, accepted, restarts, starts>>

TimePasses ==
  /\ phase < 3 /\ phase' = phase + 1
  /\ UNCHANGED <<memory, disk, job, poisoned, stopping, accepted, restarts, starts>>

WorkerNext ==
  \/ \E i \in OpenIntents :
       \/ Poll(i) \/ BeginJob(i) \/ WriteState(i) \/ WriteRejected(i) \/ ErrorRejected(i)
       \/ Announce(i) \/ AnnounceFails(i) \/ Schedule(i) \/ Resume(i) \/ SubmissionLost(i) \/ Cools(i)
       \/ \E yes \in BOOLEAN : \/ FinishWork(i, yes) \/ SubmitDecision(i, yes)
                              \/ CountFailure(i, yes) \/ AbstainAtLast(i, yes)
  \/ Crash \/ Shutdown \/ WatcherReturns \/ TimePasses

WorkerSpec == WorkerInit /\ [][WorkerNext]_workerVars

-----------------------------------------------------------------------------
\* An intent is worked on at most max_attempts_per_intent times, and once more for
\* each restart: only the failure under way when the process died goes uncounted,
\* whatever was written and whatever failed before.
AttemptsAreBounded == \A i \in OpenIntents : starts[i] <= MaxAttempts + restarts

\* A job waits only while as many others work, or were let in, as may: no slot is
\* lost when work fails.  It does not say that no more do (WorkIsBounded).
WaitersHaveWorkers ==
  Jobs("wait") # {} => Cardinality(Jobs("work") \cup Jobs("woken")) >= MaxParallel

\* job-control.test.ts: "never starts more work than the concurrency ceiling".  Between
\* the moment a waiter is let in and the moment it runs, a job that arrives finds the
\* slot free.
WorkIsBounded == Cardinality(Jobs("work")) <= MaxParallel

\* An intent whose answer is in the state file is never taken up again, although the
\* write of its own job may fail after another job's has stored it.
AnsweredIsNotReworked ==
  [][\A i \in OpenIntents :
       disk[i].state = "answered" /\ job[i] = "none" => job'[i] = "none"]_workerVars
=============================================================================

------------------------------- MODULE Signal -------------------------------
(***************************************************************************)
(* mo_threads.signals.Signal: one signal, used by any number of threads.   *)
(*                                                                         *)
(* wait(), go(), then(j) and remove_then(j) interleave at every point      *)
(* where they touch the signal.  go() sets _go inside its lock but takes   *)
(* job_queue and waiting_threads, a read and a write each, outside of it:  *)
(* that is safe only because the other methods look at _go again once they *)
(* have the lock.                                                          *)
(*                                                                         *)
(* A job is given to then() once; a job is a function, and two uses of     *)
(* then() with one function are two jobs here.                             *)
(***************************************************************************)
EXTENDS Integers, Sequences, SequencesExt

CONSTANTS Threads,
          NoThread,
          Jobs,       \* the functions given to then()
          Fragile     \* the jobs that fail and whose error handler raises

ASSUME NoThreadAssumption == NoThread \notin Threads
ASSUME FragileAssumption == Fragile \subseteq Jobs

VARIABLES
  gone,             \* Signal._go
  locked,           \* Signal.lock: the thread that holds it, or NoThread
  job_queue,        \* Signal.job_queue (None is <<>>)
  waiting_threads,  \* Signal.waiting_threads: whose stopper is there (None is <<>>)
  freed,            \* the threads whose stopper has been released
  pc,               \* pc[t]: where t is
  job,              \* job[t]: the argument of t's then() or remove_then(), or NoThread
  jobs,             \* jobs[t]: the local variable of t's go()
  threads,          \* threads[t]: the local variable of t's go()
  fate,             \* history: "new", "accepted" by then(), or "withdrawn"
  runs              \* history: runs[j] is how often job j has been called

shared == <<gone, locked, job_queue, waiting_threads, freed>>
local == <<pc, job, jobs, threads>>
history == <<fate, runs>>
signalVars == <<shared, local, history>>

\* the places inside `with self.lock`
Locking == {"wait_check", "go_check", "then_check", "remove_check"}

\* the winner of go(), after it has set _go
Going == {"read_jobs", "clear_jobs", "read_threads", "clear_threads", "release", "run"}

Waiting == {"wait_lock", "wait_check", "blocked"}

Places == {"idle", "go_lock", "then_lock", "then_run", "remove_lock"}
            \cup Locking \cup Going \cup Waiting

SignalInit ==
  /\ gone = FALSE
  /\ locked = NoThread
  /\ job_queue = <<>>
  /\ waiting_threads = <<>>
  /\ freed = {}
  /\ pc = [t \in Threads |-> "idle"]
  /\ job = [t \in Threads |-> NoThread]
  /\ jobs = [t \in Threads |-> <<>>]
  /\ threads = [t \in Threads |-> <<>>]
  /\ fate = [j \in Jobs |-> "new"]
  /\ runs = [j \in Jobs |-> 0]

-----------------------------------------------------------------------------
Goto(t, place) == pc' = [pc EXCEPT ![t] = place]

\* the argument of t's then() or remove_then() goes out of scope
Forget(t) == job' = [job EXCEPT ![t] = NoThread]

\* with self.lock: ...
Lock(t, from, to) ==
  /\ pc[t] = from
  /\ locked = NoThread
  /\ locked' = t
  /\ Goto(t, to)
  /\ UNCHANGED <<gone, job_queue, waiting_threads, freed, job, jobs, threads, history>>

\* the end of the with block, on the way to a place
Unlock(t, place) ==
  /\ locked' = NoThread
  /\ Goto(t, place)

Run(j) == runs' = [runs EXCEPT ![j] = @ + 1]

-----------------------------------------------------------------------------
(* wait(): returns at once if the signal is gone                           *)

WaitCall(t) ==
  /\ pc[t] = "idle"
  /\ ~ gone
  /\ Goto(t, "wait_lock")
  /\ UNCHANGED <<shared, job, jobs, threads, history>>

WaitLock(t) == Lock(t, "wait_lock", "wait_check")

\* fault: _go is not looked at again in the lock
WaitAppendUnchecked(t) ==
  /\ pc[t] = "wait_check"
  /\ waiting_threads' = Append(waiting_threads, t)
  /\ freed' = freed \ {t}
  /\ Unlock(t, "blocked")
  /\ UNCHANGED <<gone, job_queue, job, jobs, threads, history>>

WaitAlreadyGone(t) ==
  /\ pc[t] = "wait_check"
  /\ gone
  /\ Unlock(t, "idle")
  /\ UNCHANGED <<gone, job_queue, waiting_threads, freed, job, jobs, threads, history>>

\* a new stopper, taken once by its owner
WaitAppend(t) ==
  /\ pc[t] = "wait_check"
  /\ ~ gone
  /\ waiting_threads' = Append(waiting_threads, t)
  /\ freed' = freed \ {t}
  /\ Unlock(t, "blocked")
  /\ UNCHANGED <<gone, job_queue, job, jobs, threads, history>>

\* the second acquire() of the stopper succeeds
WaitReturn(t) ==
  /\ pc[t] = "blocked"
  /\ t \in freed
  /\ freed' = freed \ {t}
  /\ Goto(t, "idle")
  /\ UNCHANGED <<gone, locked, job_queue, waiting_threads, job, jobs, threads, history>>

-----------------------------------------------------------------------------
(* go(): does nothing if the signal is gone                                *)

GoCall(t) ==
  /\ pc[t] = "idle"
  /\ ~ gone
  /\ Goto(t, "go_lock")
  /\ UNCHANGED <<shared, job, jobs, threads, history>>

GoLock(t) == Lock(t, "go_lock", "go_check")

GoLost(t) ==
  /\ pc[t] = "go_check"
  /\ gone
  /\ Unlock(t, "idle")
  /\ UNCHANGED <<gone, job_queue, waiting_threads, freed, job, jobs, threads, history>>

\* fault: the loser of go() is not told that it has lost
GoSetAgain(t) ==
  /\ pc[t] = "go_check"
  /\ gone' = TRUE
  /\ Unlock(t, "read_jobs")
  /\ UNCHANGED <<job_queue, waiting_threads, freed, job, jobs, threads, history>>

GoSet(t) ==
  /\ pc[t] = "go_check"
  /\ ~ gone
  /\ gone' = TRUE
  /\ Unlock(t, "read_jobs")
  /\ UNCHANGED <<job_queue, waiting_threads, freed, job, jobs, threads, history>>

\* jobs, self.job_queue = self.job_queue, None
GoReadJobs(t) ==
  /\ pc[t] = "read_jobs"
  /\ jobs' = [jobs EXCEPT ![t] = job_queue]
  /\ Goto(t, "clear_jobs")
  /\ UNCHANGED <<shared, job, threads, history>>

\* fault: the jobs are cleared together with the threads
GoClearJobsAndThreads(t) ==
  /\ pc[t] = "clear_jobs"
  /\ job_queue' = <<>>
  /\ waiting_threads' = <<>>
  /\ Goto(t, "read_threads")
  /\ UNCHANGED <<gone, locked, freed, job, jobs, threads, history>>

GoClearJobs(t) ==
  /\ pc[t] = "clear_jobs"
  /\ job_queue' = <<>>
  /\ Goto(t, "read_threads")
  /\ UNCHANGED <<gone, locked, waiting_threads, freed, job, jobs, threads, history>>

\* threads, self.waiting_threads = self.waiting_threads, None
GoReadThreads(t) ==
  /\ pc[t] = "read_threads"
  /\ threads' = [threads EXCEPT ![t] = waiting_threads]
  /\ Goto(t, "clear_threads")
  /\ UNCHANGED <<shared, job, jobs, history>>

GoClearThreads(t) ==
  /\ pc[t] = "clear_threads"
  /\ waiting_threads' = <<>>
  /\ Goto(t, "release")
  /\ UNCHANGED <<gone, locked, job_queue, freed, job, jobs, threads, history>>

GoRelease(t) ==
  /\ pc[t] = "release"
  /\ threads[t] # <<>>
  /\ freed' = freed \cup {Head(threads[t])}
  /\ threads' = [threads EXCEPT ![t] = Tail(@)]
  /\ UNCHANGED <<gone, locked, job_queue, waiting_threads, pc, job, jobs, history>>

GoReleased(t) ==
  /\ pc[t] = "release"
  /\ threads[t] = <<>>
  /\ Goto(t, "run")
  /\ UNCHANGED <<shared, job, jobs, threads, history>>

\* a job runs; its failure is handed to its error handler
GoRun(t) ==
  /\ pc[t] = "run"
  /\ jobs[t] # <<>>
  /\ Head(jobs[t]) \notin Fragile
  /\ Run(Head(jobs[t]))
  /\ jobs' = [jobs EXCEPT ![t] = Tail(@)]
  /\ UNCHANGED <<shared, pc, job, threads, fate>>

\* the handler raises: go() ends there, with the rest of the jobs
GoRunRaises(t) ==
  /\ pc[t] = "run"
  /\ jobs[t] # <<>>
  /\ Head(jobs[t]) \in Fragile
  /\ Run(Head(jobs[t]))
  /\ jobs' = [jobs EXCEPT ![t] = <<>>]
  /\ Goto(t, "idle")
  /\ UNCHANGED <<shared, job, threads, fate>>

GoReturn(t) ==
  /\ pc[t] = "run"
  /\ jobs[t] = <<>>
  /\ Goto(t, "idle")
  /\ UNCHANGED <<shared, job, jobs, threads, history>>

-----------------------------------------------------------------------------
(* then(j)                                                                 *)

ThenCall(t, j) ==
  /\ pc[t] = "idle"
  /\ fate[j] = "new"
  /\ fate' = [fate EXCEPT ![j] = "accepted"]
  /\ job' = [job EXCEPT ![t] = j]
  /\ Goto(t, "then_lock")
  /\ UNCHANGED <<shared, jobs, threads, runs>>

ThenLock(t) == Lock(t, "then_lock", "then_check")

\* fault: the job is queued although the signal is gone
ThenAppendUnchecked(t) ==
  /\ pc[t] = "then_check"
  /\ job_queue' = Append(job_queue, job[t])
  /\ Unlock(t, "idle")
  /\ Forget(t)
  /\ UNCHANGED <<gone, waiting_threads, freed, jobs, threads, history>>

ThenAppend(t) ==
  /\ pc[t] = "then_check"
  /\ ~ gone
  /\ job_queue' = Append(job_queue, job[t])
  /\ Unlock(t, "idle")
  /\ Forget(t)
  /\ UNCHANGED <<gone, waiting_threads, freed, jobs, threads, history>>

ThenTooLate(t) ==
  /\ pc[t] = "then_check"
  /\ gone
  /\ Unlock(t, "then_run")
  /\ UNCHANGED <<gone, job_queue, waiting_threads, freed, job, jobs, threads, history>>

\* the caller of then() runs the job itself, whatever its handler does
ThenRun(t) ==
  /\ pc[t] = "then_run"
  /\ Run(job[t])
  /\ Goto(t, "idle")
  /\ Forget(t)
  /\ UNCHANGED <<shared, jobs, threads, fate>>

-----------------------------------------------------------------------------
(* remove_then(j): returns at once if the signal is gone                   *)

RemoveCall(t, j) ==
  /\ pc[t] = "idle"
  /\ ~ gone
  /\ job' = [job EXCEPT ![t] = j]
  /\ Goto(t, "remove_lock")
  /\ UNCHANGED <<shared, jobs, threads, history>>

RemoveLock(t) == Lock(t, "remove_lock", "remove_check")

RemoveJob(t) ==
  /\ pc[t] = "remove_check"
  /\ ~ gone
  /\ Contains(job_queue, job[t])
  /\ job_queue' = RemoveFirst(job_queue, job[t])
  /\ fate' = [fate EXCEPT ![job[t]] = "withdrawn"]
  /\ Unlock(t, "idle")
  /\ Forget(t)
  /\ UNCHANGED <<gone, waiting_threads, freed, jobs, threads, runs>>

RemoveNothing(t) ==
  /\ pc[t] = "remove_check"
  /\ gone \/ ~ Contains(job_queue, job[t])
  /\ Unlock(t, "idle")
  /\ Forget(t)
  /\ UNCHANGED <<gone, job_queue, waiting_threads, freed, jobs, threads, history>>

-----------------------------------------------------------------------------
\* a thread starts a method
Call(t) ==
  \/ WaitCall(t) \/ GoCall(t)
  \/ \E j \in Jobs : ThenCall(t, j) \/ RemoveCall(t, j)

\* a thread goes on with the method it is in
SignalStep(t) ==
  \/ WaitLock(t) \/ WaitAlreadyGone(t) \/ WaitAppend(t) \/ WaitReturn(t)
  \/ GoLock(t) \/ GoLost(t) \/ GoSet(t) \/ GoReadJobs(t) \/ GoClearJobs(t)
  \/ GoReadThreads(t) \/ GoClearThreads(t) \/ GoRelease(t) \/ GoReleased(t)
  \/ GoRun(t) \/ GoRunRaises(t) \/ GoReturn(t)
  \/ ThenLock(t) \/ ThenAppend(t) \/ ThenTooLate(t) \/ ThenRun(t)
  \/ RemoveLock(t) \/ RemoveJob(t) \/ RemoveNothing(t)

SignalNext == \E t \in Threads : Call(t) \/ SignalStep(t)

SignalSpec == SignalInit /\ [][SignalNext]_signalVars

\* A thread does not stop inside a method, unless it is blocked.
SignalFairSpec == SignalSpec /\ \A t \in Threads : WF_signalVars(SignalStep(t))

-----------------------------------------------------------------------------
(* What the signal promises                                                *)

SignalTypeOK ==
  /\ gone \in BOOLEAN
  /\ locked \in Threads \cup {NoThread}
  /\ job_queue \in Seq(Jobs)
  /\ waiting_threads \in Seq(Threads)
  /\ freed \subseteq Threads
  /\ pc \in [Threads -> Places]
  /\ job \in [Threads -> Jobs \cup {NoThread}]
  /\ jobs \in [Threads -> Seq(Jobs)]
  /\ threads \in [Threads -> Seq(Threads)]
  /\ fate \in [Jobs -> {"new", "accepted", "withdrawn"}]
  /\ runs \in [Jobs -> Nat]

\* A blocked thread is never forgotten: its stopper is in waiting_threads, where a
\* go() still to come or under way will find it, or in the hands of the thread that
\* does go() (signals.py:80-91, 104-116).
NoStrandedWaiter ==
  \A t \in Threads :
    (pc[t] = "blocked" /\ t \notin freed) =>
      \/ /\ Contains(waiting_threads, t)
         /\ ~ gone \/ \E u \in Threads : pc[u] \in {"read_jobs", "clear_jobs", "read_threads"}
      \/ \E u \in Threads : pc[u] \in {"clear_threads", "release"} /\ Contains(threads[u], t)

EventOfSignal ==
  INSTANCE Event WITH
    happened <- gone,
    parked <- {t \in Threads : pc[t] \in Waiting}

\* The signal is an event that happens once: nobody comes back from wait() before it,
\* no job runs before it, or twice, or after it has been withdrawn (signals.py:43-165).
ImplementsEvent == EventOfSignal!Spec

\* go() lets every waiting thread go, also one that starts to wait meanwhile
\* (signals.py:77-93, 111-116).
GoFreesWaiters ==
  \A t \in Threads : (gone /\ pc[t] \in Waiting) ~> pc[t] = "idle"

\* j is still to be run by go()
Pending(j) ==
  gone /\ (Contains(job_queue, j) \/ \E t \in Threads : Contains(jobs[t], j))

\* j stands behind a job whose error handler raises, in the list of the thread in go()
Doomed(j) ==
  \E t \in Threads :
    /\ jobs[t] # <<>>
    /\ Head(jobs[t]) \in Fragile
    /\ Contains(Tail(jobs[t]), j)

\* "RUN target WHEN SIGNALED" (signals.py:128): no job stays in a signal that is gone,
\* or is lost on its way from the queue to its call; only an error handler that raises
\* takes the jobs behind it away (signals.py:110-123).
GoRunsJobs ==
  \A j \in Jobs : Pending(j) ~> (runs[j] = 1 \/ Doomed(j))

\* The state of the signal is sound, and nobody who waits for it is forgotten
\* (signals.py:75-116).
SignalInv == SignalTypeOK /\ NoStrandedWaiter
=============================================================================

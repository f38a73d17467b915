-------------------------------- MODULE Lock --------------------------------
(***************************************************************************)
(* mo_threads.lock.Lock: a non re-entrant lock with a wait().              *)
(*                                                                         *)
(* A thread takes the lock with `with lock:` (Enter, Acquire, ExitSignal,  *)
(* Release) and, while it holds it, may call lock.wait(till), which parks  *)
(* the thread on a fresh Signal, gives the lock up, and takes it again     *)
(* when that signal or `till` is gone (WaitRegister ... WaitReturn).  Each *)
(* atomic action is one interval between two points where another thread   *)
(* can observe the lock, `waiting`, or a waiter's signal.                  *)
(*                                                                         *)
(* A wait() creates one Signal and a thread is in at most one wait(), so   *)
(* the signal of thread t's current wait() is named by t.                  *)
(***************************************************************************)
EXTENDS Integers, Sequences, SequencesExt

CONSTANTS Threads,    \* the threads that share the lock
          NoThread    \* the holder of a free lock

ASSUME NoThreadAssumption == NoThread \notin Threads

VARIABLES
  holder,     \* Lock.lock: the thread that holds it, or NoThread
  waiting,    \* Lock.waiting: the waiters nobody has signalled (None is <<>>)
  waiter,     \* waiter[t]: is the Signal of t's current wait() gone?
  till,       \* till[t]: the other signal t waits for
  at,         \* at[t]: where t is in its use of the lock
  answer,     \* answer[t]: what the last wait() in t's with block returned
  disturbed   \* history: has the lock been taken since t's wait() gave it up?

lockVars == <<holder, waiting, waiter, till, at, answer, disturbed>>

\* `till` is None (or never goes), a signal still to go, or a signal that is gone
TillStates == {"none", "pending", "gone"}

\* t is inside wait() and its signal may be in `waiting`
WaitPlaces == {"parting", "waiting", "woken", "back"}

\* t has the underlying lock
HoldPlaces == {"in", "leaving", "parting", "back"}

Places == {"out", "want"} \cup HoldPlaces \cup WaitPlaces

LockTypeOK ==
  /\ holder \in Threads \cup {NoThread}
  /\ waiting \in Seq(Threads)
  /\ waiter \in [Threads -> BOOLEAN]
  /\ till \in [Threads -> TillStates]
  /\ at \in [Threads -> Places]
  /\ answer \in [Threads -> BOOLEAN]
  /\ disturbed \in [Threads -> BOOLEAN]

LockInit ==
  /\ holder = NoThread
  /\ waiting = <<>>
  /\ waiter = [t \in Threads |-> FALSE]
  /\ till = [t \in Threads |-> "none"]
  /\ at = [t \in Threads |-> "out"]
  /\ answer = [t \in Threads |-> FALSE]
  /\ disturbed = [t \in Threads |-> FALSE]

-----------------------------------------------------------------------------
Go(t, p) == at' = [at EXCEPT ![t] = p]

\* self.lock.acquire() succeeds: everyone between release and re-acquire is disturbed
Take(t) ==
  /\ holder = NoThread
  /\ holder' = t
  /\ disturbed' = [u \in Threads |->
                     IF u # t /\ at[u] \in {"waiting", "woken"} THEN TRUE ELSE disturbed[u]]

\* __enter__ is called; the thread may block in acquire()
Enter(t) ==
  /\ at[t] = "out"
  /\ Go(t, "want")
  /\ UNCHANGED <<holder, waiting, waiter, till, answer, disturbed>>

Acquire(t) ==
  /\ at[t] = "want"
  /\ Take(t)
  /\ Go(t, "in")
  /\ UNCHANGED <<waiting, waiter, till, answer>>

\* fault: __exit__ signals nobody
ExitSignalNobody(t) ==
  /\ at[t] = "in"
  /\ Go(t, "leaving")
  /\ UNCHANGED <<holder, waiting, waiter, till, answer, disturbed>>

\* __exit__, first half: one waiter is told that the lock is ready soon
ExitSignal(t) ==
  /\ at[t] = "in"
  /\ \/ /\ waiting # <<>>
        /\ waiter' = [waiter EXCEPT ![Last(waiting)] = TRUE]
        /\ waiting' = Front(waiting)
     \/ /\ waiting = <<>>
        /\ UNCHANGED <<waiting, waiter>>
  /\ Go(t, "leaving")
  /\ UNCHANGED <<holder, till, answer, disturbed>>

\* __exit__, second half; what wait() returned is out of scope
Release(t) ==
  /\ at[t] = "leaving"
  /\ holder' = NoThread
  /\ answer' = [answer EXCEPT ![t] = FALSE]
  /\ Go(t, "out")
  /\ UNCHANGED <<waiting, waiter, till, disturbed>>

\* fault: the one that is waiting is kept behind the new one
WaitRegisterSecond(t, s) ==
  /\ at[t] = "in"
  /\ till' = [till EXCEPT ![t] = s]
  /\ waiter' = [waiter EXCEPT ![t] = FALSE]
  /\ waiting' = <<t>> \o waiting
  /\ Go(t, "parting")
  /\ UNCHANGED <<holder, answer, disturbed>>

\* wait(till): a fresh Signal replaces the one waiting, which is sent off
WaitRegister(t, s) ==
  /\ at[t] = "in"
  /\ till' = [till EXCEPT ![t] = s]
  /\ \/ /\ waiting # <<>>
        /\ waiter' = [waiter EXCEPT ![t] = FALSE, ![Last(waiting)] = TRUE]
        /\ waiting' = <<t>> \o Front(waiting)
     \/ /\ waiting = <<>>
        /\ waiter' = [waiter EXCEPT ![t] = FALSE]
        /\ waiting' = <<t>>
  /\ Go(t, "parting")
  /\ UNCHANGED <<holder, answer, disturbed>>

\* self.lock.release() in wait(); the history starts here
WaitRelease(t) ==
  /\ at[t] = "parting"
  /\ holder' = NoThread
  /\ disturbed' = [disturbed EXCEPT ![t] = FALSE]
  /\ Go(t, "waiting")
  /\ UNCHANGED <<waiting, waiter, till, answer>>

\* fault: only the waiter's own signal is waited for
WakeBySignal(t) ==
  /\ at[t] = "waiting"
  /\ waiter[t]
  /\ Go(t, "woken")
  /\ UNCHANGED <<holder, waiting, waiter, till, answer, disturbed>>

\* (waiter | till).wait() returns
Wake(t) ==
  /\ at[t] = "waiting"
  /\ waiter[t] \/ till[t] = "gone"
  /\ Go(t, "woken")
  /\ UNCHANGED <<holder, waiting, waiter, till, answer, disturbed>>

\* self.lock.acquire() in the finally clause of wait()
Reacquire(t) ==
  /\ at[t] = "woken"
  /\ Take(t)
  /\ Go(t, "back")
  /\ UNCHANGED <<waiting, waiter, till, answer>>

\* fault: wait() leaves its signal in the list
WaitReturnLeaving(t) ==
  /\ at[t] = "back"
  /\ answer' = [answer EXCEPT ![t] = waiter[t]]
  /\ waiter' = [waiter EXCEPT ![t] = FALSE]
  /\ till' = [till EXCEPT ![t] = "none"]
  /\ disturbed' = [disturbed EXCEPT ![t] = FALSE]
  /\ Go(t, "in")
  /\ UNCHANGED <<holder, waiting>>

\* fault: wait() returns `not till`
WaitReturnNotTill(t) ==
  /\ at[t] = "back"
  /\ waiting' = RemoveFirst(waiting, t)
  /\ answer' = [answer EXCEPT ![t] = till[t] # "gone"]
  /\ waiter' = [waiter EXCEPT ![t] = FALSE]
  /\ till' = [till EXCEPT ![t] = "none"]
  /\ disturbed' = [disturbed EXCEPT ![t] = FALSE]
  /\ Go(t, "in")
  /\ UNCHANGED holder

\* wait() forgets its own signal, if it is still there, and returns bool(waiter);
\* its signals and its history go out of scope
WaitReturn(t) ==
  /\ at[t] = "back"
  /\ waiting' = RemoveFirst(waiting, t)
  /\ answer' = [answer EXCEPT ![t] = waiter[t]]
  /\ waiter' = [waiter EXCEPT ![t] = FALSE]
  /\ till' = [till EXCEPT ![t] = "none"]
  /\ disturbed' = [disturbed EXCEPT ![t] = FALSE]
  /\ Go(t, "in")
  /\ UNCHANGED holder

\* the environment lets the other signal go
TillGo(t) ==
  /\ at[t] \in WaitPlaces
  /\ till[t] = "pending"
  /\ till' = [till EXCEPT ![t] = "gone"]
  /\ UNCHANGED <<holder, waiting, waiter, at, answer, disturbed>>

LockStep(t) ==
  \/ Enter(t) \/ Acquire(t) \/ ExitSignal(t) \/ Release(t)
  \/ \E s \in TillStates : WaitRegister(t, s)
  \/ WaitRelease(t) \/ Wake(t) \/ Reacquire(t) \/ WaitReturn(t) \/ TillGo(t)

LockNext == \E t \in Threads : LockStep(t)

LockSpec == LockInit /\ [][LockNext]_lockVars

-----------------------------------------------------------------------------
(* What the lock promises                                                  *)

\* The code between the return of acquire() and release() runs in one thread
\* at a time, the two ends of wait() included (lock.py:40-50, 73, 80).
MutualExclusion ==
  \A t \in Threads : at[t] \in HoldPlaces <=> holder = t

\* At most one waiter is left unsignalled, and it is in `waiting`: every thread
\* that leaves the lock or starts a wait() signals the one it finds there, so
\* no waiter can be forgotten (lock.py:45-49, 61-70).
OneSleeper ==
  \A t \in Threads : (at[t] \in WaitPlaces /\ ~ waiter[t]) <=> waiting = <<t>>

\* wait() tells the truth: when it has the lock again it returns True exactly
\* if another thread has had the lock in between.  On False the caller may keep
\* every conclusion it drew before the wait(), as Queue.pop does (lock.py:89).
TruthfulAnswer ==
  \A t \in Threads : at[t] = "back" => (waiter[t] <=> disturbed[t])

\* A thread that took the lock signals the sleeper it found before anyone else
\* can take the lock: no release leaves a disturbed waiter asleep.
NoReleaseOverASleeper ==
  [][\A t \in Threads :
       (holder # NoThread /\ holder' = NoThread /\ at[t] \in {"waiting", "woken"} /\ disturbed[t])
         => waiter[t]]_lockVars

-----------------------------------------------------------------------------
(* The lock implements a monitor whose wait() reports interference         *)

MonitorOfLock ==
  INSTANCE Monitor WITH
    Nobody <- NoThread,
    owner <- holder,
    parked <- {t \in Threads : at[t] \in {"waiting", "woken"}},
    expired <- {t \in Threads : till[t] = "gone"},
    reply <- answer,
    touched <- {t \in Threads : disturbed[t]}

\* Every behaviour of the lock is a behaviour of the abstract monitor.
ImplementsMonitor == MonitorOfLock!Spec

\* The state of the lock is sound: one thread has it, and at most one waiter, the one in
\* `waiting`, is left unsignalled (lock.py:38-89).
LockInv == LockTypeOK /\ MutualExclusion /\ OneSleeper
=============================================================================

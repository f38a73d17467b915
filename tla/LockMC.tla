------------------------------ MODULE LockMC ------------------------------
(***************************************************************************)
(* An instance of Lock for TLC.  Each thread makes at most MaxCalls calls  *)
(* of __enter__ and wait(): the operating system's lock is not fair, so a  *)
(* thread is only promised the lock once the others stop asking for it;    *)
(* with bounded calls that needs no more than weak fairness of each        *)
(* thread.                                                                 *)
(***************************************************************************)
EXTENDS Lock

CONSTANT MaxCalls   \* calls of __enter__ and wait() a thread makes

VARIABLE calls      \* calls[t]: how many t has made

mcVars == <<lockVars, calls>>

\* t asks for the lock, or starts to wait
Call(t) ==
  /\ calls[t] < MaxCalls
  /\ calls' = [calls EXCEPT ![t] = @ + 1]
  /\ Enter(t) \/ \E s \in TillStates : WaitRegister(t, s)

\* what t does next without being asked
Progress(t) ==
  /\ UNCHANGED calls
  /\ \/ Acquire(t) \/ ExitSignal(t) \/ Release(t) \/ WaitRelease(t)
     \/ Wake(t) \/ Reacquire(t) \/ WaitReturn(t)

MCInit == LockInit /\ calls = [t \in Threads |-> 0]

MCNext ==
  \E t \in Threads : Call(t) \/ Progress(t) \/ (TillGo(t) /\ UNCHANGED calls)

MCSpec ==
  /\ MCInit
  /\ [][MCNext]_mcVars
  /\ \A t \in Threads : WF_mcVars(Progress(t))

\* No wakeup is lost: a thread that is waiting while another one has the lock
\* gets out of its wait(), whatever its `till` (lock.py:45-49, 61-67).
SleeperIsWoken ==
  \A t \in Threads :
    (at[t] = "waiting" /\ holder \notin {t, NoThread}) ~> at[t] = "in"

\* wait(till) comes back once `till` is gone (lock.py:75, 80).
TillEndsWait ==
  \A t \in Threads : (at[t] = "waiting" /\ till[t] = "gone") ~> at[t] = "in"
=============================================================================

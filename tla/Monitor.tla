------------------------------ MODULE Monitor ------------------------------
(***************************************************************************)
(* What mo_threads.lock.Lock promises to its users, without the waiters'   *)
(* signals: one owner at a time, and a wait() that gives the lock up,      *)
(* comes back with the lock when somebody has had it in the meantime or    *)
(* when the caller's `till` has expired, and replies which of the two.     *)
(***************************************************************************)
CONSTANTS Threads, Nobody

VARIABLES
  owner,      \* the thread that has the lock, or Nobody
  parked,     \* the threads that are in wait() and do not have the lock
  expired,    \* the threads whose `till` is gone
  touched,    \* the parked threads that somebody has overtaken
  reply       \* reply[t]: what the last wait() of owner t returned

monitorVars == <<owner, parked, expired, touched, reply>>

Init ==
  /\ owner = Nobody
  /\ parked = {}
  /\ expired = {}
  /\ touched = {}
  /\ reply = [t \in Threads |-> FALSE]

\* t has the lock; everyone who is parked is overtaken
TakenBy(t) ==
  /\ owner = Nobody
  /\ owner' = t
  /\ touched' = touched \cup (parked \ {t})

Acquire(t) ==
  /\ t \notin parked
  /\ TakenBy(t)
  /\ UNCHANGED <<parked, expired, reply>>

Release(t) ==
  /\ owner = t
  /\ owner' = Nobody
  /\ reply' = [reply EXCEPT ![t] = FALSE]
  /\ UNCHANGED <<parked, expired, touched>>

\* the owner chooses the signal that limits its next wait()
Arm(t) ==
  /\ owner = t
  /\ expired' \in {expired \cup {t}, expired \ {t}}
  /\ UNCHANGED <<owner, parked, touched, reply>>

Park(t) ==
  /\ owner = t
  /\ owner' = Nobody
  /\ parked' = parked \cup {t}
  /\ touched' = touched \ {t}
  /\ UNCHANGED <<expired, reply>>

Expire(t) ==
  /\ expired' = expired \cup {t}
  /\ UNCHANGED <<owner, parked, touched, reply>>

\* a parked thread comes back with the lock only if it was overtaken or expired
Return(t) ==
  /\ t \in parked
  /\ t \in touched \cup expired
  /\ TakenBy(t)
  /\ parked' = parked \ {t}
  /\ UNCHANGED <<expired, reply>>

\* and says which
Reply(t) ==
  /\ owner = t
  /\ reply' = [reply EXCEPT ![t] = t \in touched]
  /\ expired' = expired \ {t}
  /\ touched' = touched \ {t}
  /\ UNCHANGED <<owner, parked>>

Next ==
  \E t \in Threads :
    \/ Acquire(t) \/ Release(t) \/ Arm(t) \/ Park(t)
    \/ Expire(t) \/ Return(t) \/ Reply(t)

Spec == Init /\ [][Next]_monitorVars
=============================================================================

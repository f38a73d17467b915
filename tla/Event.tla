------------------------------- MODULE Event -------------------------------
(***************************************************************************)
(* What mo_threads.signals.Signal promises: an event that happens once.    *)
(* A thread that waits for it comes back only after it has happened; a job *)
(* that was accepted runs once, after it has happened, unless it has been  *)
(* withdrawn before.                                                       *)
(***************************************************************************)
EXTENDS Naturals

CONSTANTS Threads, Jobs

VARIABLES happened,   \* never becomes false again
          parked,     \* the threads in wait()
          fate,       \* fate[j]: has job j been accepted, or withdrawn?
          runs        \* runs[j]: how often job j has run

eventVars == <<happened, parked, fate, runs>>

Init ==
  /\ happened = FALSE
  /\ parked = {}
  /\ fate = [j \in Jobs |-> "new"]
  /\ runs = [j \in Jobs |-> 0]

Happen ==
  /\ happened' = TRUE
  /\ UNCHANGED <<parked, fate, runs>>

Park(t) ==
  /\ ~ happened
  /\ parked' = parked \cup {t}
  /\ UNCHANGED <<happened, fate, runs>>

Unpark(t) ==
  /\ happened
  /\ parked' = parked \ {t}
  /\ UNCHANGED <<happened, fate, runs>>

Accept(j) ==
  /\ fate[j] = "new"
  /\ fate' = [fate EXCEPT ![j] = "accepted"]
  /\ UNCHANGED <<happened, parked, runs>>

Withdraw(j) ==
  /\ ~ happened
  /\ fate[j] = "accepted"
  /\ fate' = [fate EXCEPT ![j] = "withdrawn"]
  /\ UNCHANGED <<happened, parked, runs>>

Run(j) ==
  /\ happened
  /\ fate[j] = "accepted"
  /\ runs[j] = 0
  /\ runs' = [runs EXCEPT ![j] = 1]
  /\ UNCHANGED <<happened, parked, fate>>

Next ==
  \/ Happen
  \/ \E t \in Threads : Park(t) \/ Unpark(t)
  \/ \E j \in Jobs : Accept(j) \/ Withdraw(j) \/ Run(j)

Spec == Init /\ [][Next]_eventVars
=============================================================================

------------------------------ MODULE SerialDb ------------------------------
(***************************************************************************)
(* What jx_sqlite.sqlite promises the threads that share one connection:   *)
(* a thread that has begun has the database for itself until it commits,   *)
(* rolls back, or the connection is closed; only whole units become        *)
(* durable, and nothing durable is taken back.                             *)
(***************************************************************************)
CONSTANTS Clients,    \* the threads
          NoClient

VARIABLES
  holder,    \* the thread that has begun, or NoClient
  unit,      \* the commands it has run since, records with the thread in `by`
  durable    \* the commands that are committed

vars == <<holder, unit, durable>>

Init ==
  /\ holder = NoClient
  /\ unit = {}
  /\ durable = {}

\* c runs commands in its unit, which it begins if there is none
Work(c) ==
  /\ holder \in {NoClient, c}
  /\ holder' = c
  /\ unit \subseteq unit'
  /\ \A x \in unit' \ unit : x.by = c
  /\ UNCHANGED durable

\* c runs its last commands, and all of the unit is durable
Commit(c) ==
  /\ holder \in {NoClient, c}
  /\ holder' = NoClient
  /\ unit' = {}
  /\ durable \cup unit \subseteq durable'
  /\ \A x \in durable' \ (durable \cup unit) : x.by = c

\* c gives its unit up
Rollback(c) ==
  /\ holder \in {NoClient, c}
  /\ holder' = NoClient
  /\ unit' = {}
  /\ UNCHANGED durable

\* a command outside of any transaction
Single(c) ==
  /\ holder = NoClient
  /\ durable \subseteq durable'
  /\ \A x \in durable' \ durable : x.by = c
  /\ UNCHANGED <<holder, unit>>

\* the connection is closed: sqlite rolls back
CloseDb ==
  /\ holder' = NoClient
  /\ unit' = {}
  /\ UNCHANGED durable

Next ==
  \/ \E c \in Clients : Work(c) \/ Commit(c) \/ Rollback(c) \/ Single(c)
  \/ CloseDb

Spec == Init /\ [][Next]_vars
=============================================================================

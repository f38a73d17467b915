-------------------------------- MODULE Till --------------------------------
(***************************************************************************)
(* mo_threads.till: the timers daemon and the Till signals it fires.       *)
(*                                                                         *)
(* A Till is made in any thread: __new__ answers DONE while there is no    *)
(* daemon, __init__ reads the time and hands the timer over in             *)
(* new_timers, under Till.locker.  The daemon sleeps until next_ping, at   *)
(* most INTERVAL, takes the new timers, and lets those go whose time has   *)
(* come.  It holds the timers by weak references only, and it lowers       *)
(* next_ping once outside of the locker (till.py:124).  At its end it      *)
(* triggers every timer it knows; and it comes to its end also when the    *)
(* go() of a timer raises, which an error handler of a job may do.         *)
(*                                                                         *)
(* Time is discrete.  The daemon may be held up, by other threads and by   *)
(* the jobs of the timers: Slack ticks at most in each of its rounds.      *)
(***************************************************************************)
EXTENDS Naturals, FiniteSets, FiniteSetsExt

CONSTANTS Timers,     \* the Till objects, each made by one call of Till(seconds=...)
          Seconds,    \* the timeouts asked for
          INTERVAL,   \* the longest sleep of the daemon
          Slack,      \* by how much the daemon may be held up in a round
          MaxTime     \* bound: the clock stops here

ASSUME TimeAssumption ==
  /\ Seconds \subseteq Nat
  /\ INTERVAL \in Nat \ {0}
  /\ Slack \in Nat
  /\ MaxTime \in Nat

VARIABLES
  clock,          \* time()
  enabled,        \* is the global signal `enabled` gone?
  please_stop,    \* the please_stop of the daemon
  next_ping,      \* Till.next_ping
  new_timers,     \* Till.new_timers
  stage,          \* stage[x]: where the constructor of x is
  timeout,        \* timeout[x]: TodoItem.timestamp, the time x is due
  gone,           \* the timers that are gone
  daemon,         \* where the daemon is
  now,            \* local variables of the daemon, 0 where they are not used any more
  wake,           \* when its sleep ends
  sorted_timers,
  work,
  ping,           \* the next_ping it has read in line 124
  held,           \* by how much it has been held up in this round
  since,          \* history: since[x] is when x was registered or lost its last reference, or 0
  dropped         \* history: the timers that were behind one whose go() raised

till == <<next_ping, new_timers>>
timer == <<stage, timeout, since>>
local == <<now, wake, sorted_timers, work, ping>>
vars == <<clock, enabled, please_stop, till, timer, gone, dropped, daemon, local, held>>

Stages == {"new", "checked", "timed", "registered", "collected", "DONE"}

Places == {"start", "loop", "look", "sleep", "take", "read_ping", "write_ping", "fire",
           "disable", "drain", "trigger", "over"}

Init ==
  /\ clock = 0
  /\ enabled = FALSE
  /\ please_stop = FALSE
  /\ next_ping = 0
  /\ new_timers = {}
  /\ stage = [x \in Timers |-> "new"]
  /\ timeout = [x \in Timers |-> 0]
  /\ gone = {} /\ dropped = {}
  /\ daemon = "start"
  /\ now = 0
  /\ wake = 0
  /\ sorted_timers = {}
  /\ work = {}
  /\ ping = 0
  /\ held = 0
  /\ since = [x \in Timers |-> 0]

Least(a, b) == IF a < b THEN a ELSE b

Move(x, to) == stage' = [stage EXCEPT ![x] = to]

-----------------------------------------------------------------------------
(* Till(seconds=s), in any thread                                          *)

\* __new__: there is no daemon, or no time to wait
NewDone(x, s) ==
  /\ stage[x] = "new"
  /\ ~ enabled \/ s <= 0
  /\ Move(x, "DONE")
  /\ UNCHANGED <<clock, enabled, please_stop, till, timeout, since, gone, dropped, daemon,
                 local, held>>

New(x, s) ==
  /\ stage[x] = "new"
  /\ enabled
  /\ s > 0
  /\ Move(x, "checked")
  /\ UNCHANGED <<clock, enabled, please_stop, till, timeout, since, gone, dropped, daemon,
                 local, held>>

\* __init__: timeout = time() + seconds
ReadTime(x, s) ==
  /\ stage[x] = "checked"
  /\ s > 0
  /\ timeout' = [timeout EXCEPT ![x] = clock + s]
  /\ Move(x, "timed")
  /\ UNCHANGED <<clock, enabled, please_stop, till, since, gone, dropped, daemon, local, held>>

\* with Till.locker: ...
Register(x) ==
  /\ stage[x] = "timed"
  /\ next_ping' = Least(next_ping, timeout[x])
  /\ new_timers' = new_timers \cup {x}
  /\ since' = [since EXCEPT ![x] = clock]
  /\ Move(x, "registered")
  /\ UNCHANGED <<clock, enabled, please_stop, timeout, gone, dropped, daemon, local, held>>

\* the last reference to a timer is lost (for one that is gone that changes nothing)
Collect(x) ==
  /\ stage[x] = "registered"
  /\ x \notin gone
  /\ since' = [since EXCEPT ![x] = clock]
  /\ Move(x, "collected")
  /\ UNCHANGED <<clock, enabled, please_stop, till, timeout, gone, dropped, daemon, local, held>>

PleaseStop ==
  /\ ~ please_stop
  /\ please_stop' = TRUE
  /\ UNCHANGED <<clock, enabled, till, timer, gone, dropped, daemon, local, held>>

-----------------------------------------------------------------------------
(* The daemon                                                              *)

Start ==
  /\ daemon = "start"
  /\ enabled' = TRUE
  /\ daemon' = "loop"
  /\ UNCHANGED <<clock, please_stop, till, timer, gone, dropped, local, held>>

\* while not please_stop: now = time()
Round ==
  /\ daemon = "loop"
  /\ ~ please_stop
  /\ now' = clock
  /\ held' = 0
  /\ daemon' = "look"
  /\ UNCHANGED <<clock, enabled, please_stop, till, timer, gone, dropped, wake, sorted_timers,
                 work, ping>>

Stopping ==
  /\ daemon = "loop"
  /\ please_stop
  /\ daemon' = "disable"
  /\ UNCHANGED <<clock, enabled, please_stop, till, timer, gone, dropped, local, held>>

\* later = Till.next_ping - now, and the sleep if there is something to wait for
GoToSleep ==
  /\ daemon = "look"
  /\ next_ping > now
  /\ wake' = clock + Least(next_ping - now, INTERVAL)
  /\ now' = 0
  /\ daemon' = "sleep"
  /\ UNCHANGED <<clock, enabled, please_stop, till, timer, gone, dropped, sorted_timers, work,
                 ping, held>>

Awake ==
  /\ daemon = "sleep"
  /\ clock >= wake
  /\ wake' = 0
  /\ daemon' = "loop"
  /\ UNCHANGED <<clock, enabled, please_stop, till, timer, gone, dropped, now, sorted_timers,
                 work, ping, held>>

Ping ==
  /\ daemon = "look"
  /\ next_ping <= now
  /\ daemon' = "take"
  /\ UNCHANGED <<clock, enabled, please_stop, till, timer, gone, dropped, local, held>>

\* actual_time(): a timer that nobody refers to is due at once
ActualTime(x) == IF stage[x] = "collected" THEN 0 ELSE timeout[x]

\* take the new timers, sort, and split off those that are due
Take ==
  /\ daemon = "take"
  /\ next_ping' = now + INTERVAL
  /\ new_timers' = {}
  /\ LET known == sorted_timers \cup new_timers
     IN  /\ work' = {x \in known : ActualTime(x) <= now}
         /\ sorted_timers' = {x \in known : ActualTime(x) > now}
  /\ daemon' = IF sorted_timers' # {} THEN "read_ping" ELSE "fire"
  /\ now' = 0
  /\ UNCHANGED <<clock, enabled, please_stop, timer, gone, dropped, wake, ping, held>>

\* Till.next_ping = min(Till.next_ping, sorted_timers[0].timestamp), not in the locker
ReadPing ==
  /\ daemon = "read_ping"
  /\ ping' = next_ping
  /\ daemon' = "write_ping"
  /\ UNCHANGED <<clock, enabled, please_stop, till, timer, gone, dropped, now, wake,
                 sorted_timers, work, held>>

First == Min({timeout[x] : x \in sorted_timers})

\* fault: without the min()
WritePingFar ==
  /\ daemon = "write_ping"
  /\ next_ping' = First
  /\ daemon' = "fire"
  /\ ping' = 0
  /\ UNCHANGED <<clock, enabled, please_stop, new_timers, timer, gone, dropped, now, wake,
                 sorted_timers, work, held>>

WritePing ==
  /\ daemon = "write_ping"
  /\ next_ping' = Least(ping, First)
  /\ daemon' = "fire"
  /\ ping' = 0
  /\ UNCHANGED <<clock, enabled, please_stop, new_timers, timer, gone, dropped, now, wake,
                 sorted_timers, work, held>>

\* s = r(), and s.go() if the timer is still there
Trigger(x) ==
  /\ x \in work
  /\ work' = work \ {x}
  /\ gone' = IF stage[x] = "collected" THEN gone ELSE gone \cup {x}
  /\ since' = [since EXCEPT ![x] = 0]
  /\ UNCHANGED <<clock, enabled, please_stop, till, stage, timeout, dropped, daemon, now, wake,
                 sorted_timers, ping, held>>

\* the error handler of one of its jobs raises, and go() with it: the rest of the list is left
TriggerRaises(x) ==
  /\ x \in work /\ stage[x] # "collected"
  /\ work' = {}
  /\ gone' = gone \cup {x}
  /\ dropped' = dropped \cup (work \ {x})
  /\ since' = [since EXCEPT ![x] = 0]
  /\ UNCHANGED <<clock, enabled, please_stop, till, stage, timeout, now, wake, sorted_timers,
                 ping, held>>

\* the work is sorted by time; where in it a timer is that nobody refers to makes no difference
InTurn(x) ==
  \A y \in work : "collected" \in {stage[x], stage[y]} \/ timeout[x] <= timeout[y]

Fire(x) == daemon = "fire" /\ InTurn(x) /\ Trigger(x)

\* "unexpected timer shutdown"
FireRaises(x) == daemon = "fire" /\ InTurn(x) /\ TriggerRaises(x) /\ daemon' = "disable"

Fired ==
  /\ daemon = "fire"
  /\ work = {}
  /\ daemon' = "loop"
  /\ UNCHANGED <<clock, enabled, please_stop, till, timer, gone, dropped, local, held>>

\* finally: enabled = Signal()
Disable ==
  /\ daemon = "disable"
  /\ enabled' = FALSE
  /\ daemon' = "drain"
  /\ UNCHANGED <<clock, please_stop, till, timer, gone, dropped, local, held>>

\* fault: the timers that have not been taken yet are forgotten
DrainOld ==
  /\ daemon = "drain"
  /\ new_timers' = {}
  /\ work' = sorted_timers
  /\ sorted_timers' = {}
  /\ daemon' = "trigger"
  /\ UNCHANGED <<clock, enabled, please_stop, next_ping, timer, gone, dropped, now, wake, ping,
                 held>>

Drain ==
  /\ daemon = "drain"
  /\ new_timers' = {}
  /\ work' = new_timers \cup sorted_timers
  /\ sorted_timers' = {}
  /\ daemon' = "trigger"
  /\ UNCHANGED <<clock, enabled, please_stop, next_ping, timer, gone, dropped, now, wake, ping,
                 held>>

\* first the new ones, as they came, and then the sorted ones: the order is left open
TriggerRest(x) == daemon = "trigger" /\ Trigger(x)

\* in the `finally`: the thread ends
TriggerRestRaises(x) == daemon = "trigger" /\ TriggerRaises(x) /\ daemon' = "over"

Over ==
  /\ daemon = "trigger"
  /\ work = {}
  /\ daemon' = "over"
  /\ UNCHANGED <<clock, enabled, please_stop, till, timer, gone, dropped, local, held>>

-----------------------------------------------------------------------------
\* time passes: while the daemon sleeps, and while it is held up (before and after its
\* life nothing depends on the time)
Tick ==
  /\ clock < MaxTime
  /\ clock' = clock + 1
  /\ \/ /\ daemon = "sleep" /\ clock < wake
        /\ UNCHANGED held
     \/ /\ daemon \notin {"start", "over"} /\ (daemon = "sleep" => clock >= wake)
        /\ held < Slack
        /\ held' = held + 1
  /\ UNCHANGED <<enabled, please_stop, till, timer, gone, dropped, daemon, local>>

Constructor(x) ==
  \/ \E s \in Seconds : NewDone(x, s) \/ New(x, s) \/ ReadTime(x, s)
  \/ Register(x)

Daemon ==
  \/ Start \/ Round \/ Stopping \/ GoToSleep \/ Awake \/ Ping \/ Take
  \/ ReadPing \/ WritePing \/ Fired \/ Disable \/ Drain \/ Over
  \/ \E x \in Timers : Fire(x) \/ FireRaises(x) \/ TriggerRest(x) \/ TriggerRestRaises(x)

Next ==
  \/ \E x \in Timers : Constructor(x) \/ Collect(x)
  \/ PleaseStop \/ Daemon \/ Tick

Spec == Init /\ [][Next]_vars

-----------------------------------------------------------------------------
TillTypeOK ==
  /\ clock \in 0 .. MaxTime
  /\ enabled \in BOOLEAN /\ please_stop \in BOOLEAN
  /\ next_ping \in Nat
  /\ new_timers \subseteq Timers
  /\ stage \in [Timers -> Stages]
  /\ timeout \in [Timers -> Nat] /\ since \in [Timers -> Nat]
  /\ gone \subseteq Timers /\ dropped \subseteq Timers
  /\ daemon \in Places
  /\ now \in Nat /\ wake \in Nat /\ ping \in Nat /\ held \in 0 .. Slack
  /\ sorted_timers \subseteq Timers /\ work \subseteq Timers

\* the timers have been taken for the last time
ShuttingDown == daemon \in {"trigger", "over"}

Ending == {"disable", "drain", "trigger", "over"}

\* While the daemon runs no timer goes before its time (till.py:118-123).
NeverEarly == \A x \in gone : timeout[x] <= clock \/ ShuttingDown

\* what the daemon is still going to deal with
Known ==
  IF daemon = "over" THEN {}
  ELSE IF daemon = "trigger" THEN work
  ELSE new_timers \cup sorted_timers \cup work

\* x was handed over when the daemon had taken the timers for the last time: its constructor
\* had found `enabled` before (till.py:41, 79, 145-148)
TooLate(x) == ShuttingDown /\ x \in new_timers

\* A timer that was handed over and is still wanted is gone, or the daemon is going to deal
\* with it, at every moment of its rounds and of its end, but for two cases: it was handed
\* over too late, or the go() of a timer before it raised (till.py:79, 108, 122-152).
NoTimerLost ==
  \A x \in Timers :
    stage[x] = "registered" => x \in gone \/ x \in Known \/ TooLate(x) \/ x \in dropped

Later(a, b) == IF a < b THEN b ELSE a

\* by how much the daemon may be late: a sleep, and being held up in the round that
\* sleeps and in the round that fires
Lateness == INTERVAL + 2 * Slack

\* A timer goes in time, although the daemon may overwrite the next_ping of a new timer
\* with an older one (till.py:124), and sleep on (till.py:97).
Punctual ==
  \A x \in Timers :
    (stage[x] = "registered" /\ x \notin gone /\ daemon \notin Ending)
       => clock <= Later(timeout[x], since[x]) + Lateness

\* While it runs the daemon forgets a timer that nobody refers to, however far its time is
\* (test_memory_cleanup_with_till; till.py:155).
DeadForgotten ==
  \A x \in new_timers \cup sorted_timers :
    (stage[x] = "collected" /\ daemon \notin Ending) => clock <= since[x] + Lateness

\* No timer goes early, none is lost but for the two cases, and none is kept that nobody
\* refers to (till.py:79, 108-127, 147-155).
TillInv == TillTypeOK /\ NeverEarly /\ NoTimerLost /\ DeadForgotten
=============================================================================

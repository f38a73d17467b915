--------------------------- MODULE JoinedSignals ---------------------------
(***************************************************************************)
(* The three kinds of signals on one instance for TLC: one that stands     *)
(* alone, `a | b | c`, or `a & b & c`.  Which of them is built is chosen   *)
(* at the start, and the others rest.                                      *)
(***************************************************************************)
EXTENDS Signal, AndSignals

CONSTANTS Builder, Other      \* threads of OrSignal

ASSUME ProcsAssumption == Builder \notin Deps /\ Other \notin Deps /\ Builder # Other

VARIABLES
  built,    \* "one", "or" or "and"
  orGone, queued, output, outGone, cleanQueued, dependencies, orPc, todo   \* of OrSignal

orVars == <<orGone, queued, output, outGone, cleanQueued, dependencies, orPc, todo>>

Or == INSTANCE OrSignal WITH gone <- orGone, pc <- orPc

AllInit == SignalInit /\ Init /\ Or!Init /\ built \in {"one", "or", "and"}

OneNext == built = "one" /\ SignalNext /\ UNCHANGED <<vars, orVars, built>>

OrNext == built = "or" /\ Or!Next /\ UNCHANGED <<signalVars, vars, built>>

AndNext == built = "and" /\ Next /\ UNCHANGED <<signalVars, orVars, built>>

AllVars == <<signalVars, vars, orVars, built>>

AllSpec == AllInit /\ [][OneNext \/ OrNext \/ AndNext]_AllVars

\* the fairness of each of the three
AllFairSpec ==
  /\ AllSpec
  /\ \A t \in Threads :
       WF_AllVars(built = "one" /\ SignalStep(t) /\ UNCHANGED <<vars, orVars, built>>)
  /\ \A p \in Or!Procs :
       WF_AllVars(built = "or" /\ Or!Step(p) /\ UNCHANGED <<signalVars, vars, built>>)
  /\ \A d \in Deps :
       WF_AllVars(built = "and" /\ Step(d) /\ UNCHANGED <<signalVars, orVars, built>>)

-----------------------------------------------------------------------------
\* The output of `a | b` goes for a reason only, and nothing is left in the queues of the
\* dependencies (signals.py:155, 189-192, 262-270).
OrInv == Or!OrInv

\* A dependency that goes takes the output with it (signals.py:255-260).
DependencyGoes == Or!DependencyGoes
=============================================================================

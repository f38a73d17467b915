----------------------------- MODULE AndSignals -----------------------------
(***************************************************************************)
(* mo_threads.signals.AndSignals: `a & b`, the signal that goes when all   *)
(* of its dependencies have gone.  Each dependency runs done() once, in    *)
(* the thread that calls its go(), or in the thread that attaches done()   *)
(* if it comes too late; the last one to count down lets the output go.    *)
(***************************************************************************)
EXTENDS Integers, FiniteSets

CONSTANTS Deps,      \* the dependencies
          NoDep

ASSUME DepsAssumption == IsFiniteSet(Deps) /\ Deps # {} /\ NoDep \notin Deps

VARIABLES
  goneDeps,    \* the dependencies that are gone
  remaining,   \* AndSignals.remaining
  counted,     \* counted[d]: the local copy of remaining in the done() that d runs
  done,        \* done[d]: how far the done() of d is
  builder,     \* the dependency whose done() the attaching thread runs, or NoDep
  fired        \* is the output gone?

vars == <<goneDeps, remaining, counted, done, builder, fired>>

Stages == {"new", "queued", "count", "test", "over"}

TypeOK ==
  /\ goneDeps \subseteq Deps
  /\ remaining \in 0 .. Cardinality(Deps)
  /\ counted \in [Deps -> 0 .. Cardinality(Deps)]
  /\ done \in [Deps -> Stages]
  /\ builder \in Deps \cup {NoDep}
  /\ fired \in BOOLEAN

Init ==
  /\ goneDeps = {}
  /\ remaining = Cardinality(Deps)
  /\ counted = [d \in Deps |-> 0]
  /\ done = [d \in Deps |-> "new"]
  /\ builder = NoDep
  /\ fired = FALSE

Move(d, stage) == done' = [done EXCEPT ![d] = stage]

\* fault: a dependency that is gone is not attached
AttachSkipping(d) ==
  /\ builder = NoDep
  /\ done[d] = "new"
  /\ Move(d, IF d \in goneDeps THEN "over" ELSE "queued")
  /\ UNCHANGED <<goneDeps, remaining, counted, builder, fired>>

\* d.then(gen.done)
Attach(d) ==
  /\ builder = NoDep
  /\ done[d] = "new"
  /\ \/ /\ d \notin goneDeps
        /\ Move(d, "queued")
        /\ UNCHANGED builder
     \/ /\ d \in goneDeps
        /\ Move(d, "count")
        /\ builder' = d
  /\ UNCHANGED <<goneDeps, remaining, counted, fired>>

\* d.go(), in a thread of its own
DepGo(d) ==
  /\ d \notin goneDeps
  /\ goneDeps' = goneDeps \cup {d}
  /\ done' = IF done[d] = "queued" THEN [done EXCEPT ![d] = "count"] ELSE done
  /\ UNCHANGED <<remaining, counted, builder, fired>>

\* with self.locker: ...
Count(d) ==
  /\ done[d] = "count"
  /\ remaining' = remaining - 1
  /\ counted' = [counted EXCEPT ![d] = remaining']
  /\ Move(d, "test")
  /\ UNCHANGED <<goneDeps, builder, fired>>

\* fault: the test is for less than two
TestEarly(d) ==
  /\ done[d] = "test"
  /\ fired' = (fired \/ counted[d] <= 1)
  /\ builder' = IF builder = d THEN NoDep ELSE builder
  /\ Move(d, "over")
  /\ UNCHANGED <<goneDeps, remaining, counted>>

\* if not remaining: self.signal.go()
Test(d) ==
  /\ done[d] = "test"
  /\ fired' = (fired \/ counted[d] = 0)
  /\ builder' = IF builder = d THEN NoDep ELSE builder
  /\ Move(d, "over")
  /\ UNCHANGED <<goneDeps, remaining, counted>>

Step(d) == Attach(d) \/ Count(d) \/ Test(d)

Next == \E d \in Deps : Step(d) \/ DepGo(d)

Spec == Init /\ [][Next]_vars

\* attaching and done() go on to their end
FairSpec == Spec /\ \A d \in Deps : WF_vars(Step(d))

-----------------------------------------------------------------------------
(* What `a & b` promises; TypeOK includes that no done() is counted that   *)
(* was not attached: the counter does not go below 0                       *)

\* The output does not go before every dependency has (signals.py:233-238).
FiresAfterAll == fired => goneDeps = Deps

\* It does go then, whether the dependencies went before, during or after the
\* attachment, and in whatever threads (signals.py:211-214, 233-238).
FiresWhenAll == (goneDeps = Deps) ~> fired

\* The counter of `a & b` is sound, and the output does not go early (signals.py:211-238).
AndInv == TypeOK /\ FiresAfterAll
=============================================================================

------------------------------ MODULE OrSignal ------------------------------
(***************************************************************************)
(* mo_threads.signals: `a | b`, the signal that goes when one of its       *)
(* dependencies does.                                                      *)
(*                                                                         *)
(* An OrSignal object sits in the job_queue of every dependency and holds  *)
(* a weak reference to the output.  It has to leave those queues when it   *)
(* is not needed any more: dependencies such as the please_stop of a       *)
(* thread live long, and every wait(till) makes an output.                 *)
(*                                                                         *)
(* A single signal is atomic here, as Event allows: go() sets the flag and *)
(* takes the jobs, then() queues its job or finds the signal gone.  What   *)
(* interleaves is the construction of the output, the go() of each         *)
(* dependency, a go() of the output itself, and the loss of its last       *)
(* reference.                                                              *)
(***************************************************************************)
EXTENDS FiniteSets

CONSTANTS Deps,       \* the dependencies; each has a thread of that name that may go() it
          Builder,    \* the thread that evaluates `a | b` and keeps the output
          Other       \* a thread that may go() the output itself; none of these is another

Procs == Deps \cup {Builder, Other}

VARIABLES
  gone,          \* the dependencies that are gone
  queued,        \* the dependencies whose job_queue has the OrSignal
  output,        \* "none" before or_signal(), "done" for DONE, "live", or "collected"
  outGone,       \* is the output gone?
  cleanQueued,   \* does the output's job_queue have cleanup?
  dependencies,  \* OrSignal.dependencies
  pc,            \* pc[p]: where p is
  todo           \* todo[p]: the dependencies p has still to visit

vars == <<gone, queued, output, outGone, cleanQueued, dependencies, pc, todo>>

Places == {"idle", "attach", "clean_attach", "call", "out_go", "cleanup", "remove", "keep",
           "over"}

TypeOK ==
  /\ gone \subseteq Deps
  /\ queued \subseteq Deps
  /\ output \in {"none", "done", "live", "collected"}
  /\ outGone \in BOOLEAN
  /\ cleanQueued \in BOOLEAN
  /\ dependencies \subseteq Deps
  /\ pc \in [Procs -> Places]
  /\ todo \in [Procs -> SUBSET Deps]

Init ==
  /\ gone = {}
  /\ queued = {}
  /\ output = "none"
  /\ outGone = FALSE
  /\ cleanQueued = FALSE
  /\ dependencies = {}
  /\ pc = [p \in Procs |-> "idle"]
  /\ todo = [p \in Procs |-> {}]

Goto(p, place) == pc' = [pc EXCEPT ![p] = place]

\* where p goes on after a cleanup
Resume(p) == IF p = Builder /\ output = "live" THEN "keep" ELSE "over"

-----------------------------------------------------------------------------
(* The construction                                                        *)

\* `a | b` for a signal that is gone
BuildDone ==
  /\ pc[Builder] = "idle"
  /\ gone # {}
  /\ output' = "done"
  /\ Goto(Builder, "over")
  /\ UNCHANGED <<gone, queued, outGone, cleanQueued, dependencies, todo>>

\* or_signal(): a new output
Build ==
  /\ pc[Builder] = "idle"
  /\ gone = {}
  /\ output' = "live"
  /\ dependencies' = Deps
  /\ todo' = [todo EXCEPT ![Builder] = Deps]
  /\ Goto(Builder, "attach")
  /\ UNCHANGED <<gone, queued, outGone, cleanQueued>>

\* fault: it is queued whether the dependency is gone or not
AttachUnchecked(d) ==
  /\ pc[Builder] = "attach"
  /\ d \in todo[Builder]
  /\ todo' = [todo EXCEPT ![Builder] = @ \ {d}]
  /\ queued' = queued \cup {d}
  /\ UNCHANGED <<gone, output, outGone, cleanQueued, dependencies, pc>>

\* d.then(self), for the next dependency: queued, or the output goes at once
Attach(d) ==
  /\ pc[Builder] = "attach"
  /\ d \in todo[Builder]
  /\ todo' = [todo EXCEPT ![Builder] = @ \ {d}]
  /\ \/ /\ d \notin gone
        /\ queued' = queued \cup {d}
        /\ UNCHANGED pc
     \/ /\ d \in gone
        /\ Goto(Builder, "out_go")
        /\ UNCHANGED queued
  /\ UNCHANGED <<gone, output, outGone, cleanQueued, dependencies>>

AttachedAll ==
  /\ pc[Builder] = "attach"
  /\ todo[Builder] = {}
  /\ Goto(Builder, "clean_attach")
  /\ UNCHANGED <<gone, queued, output, outGone, cleanQueued, dependencies, todo>>

\* signal.then(self.cleanup): queued, or run at once
AttachCleanup ==
  /\ pc[Builder] = "clean_attach"
  /\ \/ /\ ~ outGone
        /\ cleanQueued' = TRUE
        /\ Goto(Builder, "keep")
     \/ /\ outGone
        /\ Goto(Builder, "cleanup")
        /\ UNCHANGED cleanQueued
  /\ UNCHANGED <<gone, queued, output, outGone, dependencies, todo>>

-----------------------------------------------------------------------------
(* The dependencies and the output go                                      *)

\* go() of a dependency takes its jobs
DepGo(d) ==
  /\ pc[d] = "idle"
  /\ gone' = gone \cup {d}
  /\ queued' = queued \ {d}
  /\ Goto(d, IF d \in queued THEN "call" ELSE "over")
  /\ UNCHANGED <<output, outGone, cleanQueued, dependencies, todo>>

\* __call__: the output, if it is still there
Call(d) ==
  /\ pc[d] = "call"
  /\ Goto(d, IF output = "live" THEN "out_go" ELSE "over")
  /\ UNCHANGED <<gone, queued, output, outGone, cleanQueued, dependencies, todo>>

\* somebody who has the output calls its go()
OtherGo ==
  /\ pc[Other] = "idle"
  /\ pc[Builder] = "keep"
  /\ output = "live"
  /\ Goto(Other, "out_go")
  /\ UNCHANGED <<gone, queued, output, outGone, cleanQueued, dependencies, todo>>

\* output.go(): the first one takes the jobs and runs cleanup, if it is there
OutGo(p) ==
  /\ pc[p] = "out_go"
  /\ outGone' = TRUE
  /\ cleanQueued' = FALSE
  /\ Goto(p, IF cleanQueued THEN "cleanup" ELSE IF p = Builder THEN "attach" ELSE "over")
  /\ UNCHANGED <<gone, queued, output, dependencies, todo>>

\* the last reference to the output is lost; its weak reference calls cleanup
Collect ==
  /\ pc[Builder] = "keep"
  /\ output = "live"
  /\ \A p \in Procs \ {Builder} : pc[p] \notin {"out_go", "cleanup", "remove"}
  /\ output' = "collected"
  /\ cleanQueued' = FALSE
  /\ Goto(Builder, "cleanup")
  /\ UNCHANGED <<gone, queued, outGone, dependencies, todo>>

-----------------------------------------------------------------------------
(* cleanup                                                                 *)

\* fault: the dependencies are forgotten before they are visited
CleanupEmpty(p) ==
  /\ pc[p] = "cleanup"
  /\ todo' = [todo EXCEPT ![p] = {}]
  /\ dependencies' = {}
  /\ Goto(p, "remove")
  /\ UNCHANGED <<gone, queued, output, outGone, cleanQueued>>

\* self.dependencies, dependencies = [], self.dependencies
Cleanup(p) ==
  /\ pc[p] = "cleanup"
  /\ todo' = [todo EXCEPT ![p] = dependencies]
  /\ dependencies' = {}
  /\ Goto(p, "remove")
  /\ UNCHANGED <<gone, queued, output, outGone, cleanQueued>>

\* d.remove_then(self): a dependency that is gone has no jobs to remove
RemoveFrom(p, d) ==
  /\ pc[p] = "remove"
  /\ d \in todo[p]
  /\ queued' = queued \ {d}
  /\ todo' = [todo EXCEPT ![p] = @ \ {d}]
  /\ UNCHANGED <<gone, output, outGone, cleanQueued, dependencies, pc>>

Cleaned(p) ==
  /\ pc[p] = "remove"
  /\ todo[p] = {}
  /\ Goto(p, Resume(p))
  /\ UNCHANGED <<gone, queued, output, outGone, cleanQueued, dependencies, todo>>

-----------------------------------------------------------------------------
Step(p) ==
  \/ OutGo(p) \/ Cleanup(p) \/ Cleaned(p)
  \/ \E d \in Deps : RemoveFrom(p, d)
  \/ p = Builder /\ (\/ \E d \in Deps : Attach(d)
                     \/ AttachedAll \/ AttachCleanup)
  \/ p \in Deps /\ Call(p)

Next ==
  \/ Build \/ BuildDone \/ Collect \/ OtherGo
  \/ \E d \in Deps : DepGo(d)
  \/ \E p \in Procs : Step(p)

Spec == Init /\ [][Next]_vars

\* a thread goes on with the method it is in
FairSpec == Spec /\ \A p \in Procs : WF_vars(Step(p))

-----------------------------------------------------------------------------
Working(p) == pc[p] \notin {"idle", "keep", "over"}

\* The output goes only for a reason (signals.py:189-192, 267-270).
GoesForAReason ==
  outGone => gone # {} \/ pc[Other] # "idle"

\* "FOR SAVING MEMORY" (signals.py:155): once the output is gone or lost and nobody is
\* at work on it, no dependency has the OrSignal in its queue, in whatever order the
\* construction, the signals and the collection came.
NoLeftover ==
  ((outGone \/ output = "collected") /\ \A p \in Procs : ~ Working(p)) => queued = {}

\* A dependency that goes takes the output with it, also while it is being built
\* (signals.py:255-260).
DependencyGoes ==
  \A d \in Deps : (d \in gone /\ output = "live") ~> (outGone \/ output = "collected")

\* The state of `a | b` is sound: the output goes for a reason only, and nothing is left in
\* the queues of the dependencies (signals.py:155, 189-192, 262-270).
OrInv == TypeOK /\ GoesForAReason /\ NoLeftover
=============================================================================

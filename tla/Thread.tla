------------------------------- MODULE Thread -------------------------------
(***************************************************************************)
(* mo_threads.threads: the tree of threads, from Thread.run() to the end   *)
(* of MainThread.stop().                                                   *)
(*                                                                         *)
(* A thread keeps its children until they are joined.  stop() and join()   *)
(* walk down the tree by recursion, over copies of the children lists, in  *)
(* the thread that calls them, while the tree changes: a thread that is at *)
(* work in such a call has a stack of frames here.  A thread whose target  *)
(* has ended stops and joins its own children, lets `stopped` go, and      *)
(* waits a minute for someone to join with it.                             *)
(*                                                                         *)
(* The targets are external: a target may do what Calls names, on the      *)
(* children of its thread, and it ends when it likes.                      *)
(***************************************************************************)
EXTENDS Naturals, Sequences, SequencesExt

CONSTANTS Main,      \* the main thread
          Workers,   \* the Thread objects
          Calls      \* what targets do: "join", "join_till", "stop", "release", "fail", "answer"

ASSUME MainAssumption == Main \notin Workers
ASSUME CallsAssumption == Calls \subseteq {"join", "join_till", "stop", "release", "fail", "answer"}

Threads == Workers \cup {Main}

VARIABLES
  parent,              \* parent[w]: the thread that made w, or w itself before that
  children,            \* BaseThread.children
  please_stop,         \* the threads whose please_stop is gone
  stopped,             \* the threads whose stopped is gone
  joiner_is_waiting,   \* the threads whose joiner_is_waiting is gone
  place,               \* place[t]: where t is in _run(), or Main in stop()
  ending,              \* ending[t]: the calls that are still to come there
  stack,               \* stack[t]: the stop() and join() calls t is in, the innermost first
  end_of_thread,       \* "none", "value" or "exception"
  all,                 \* ALL: the threads that are registered
  reported,            \* history: the threads whose failure was raised in a join() or logged
  released             \* history: the threads that got a release()

tree == <<parent, children>>
signals == <<please_stop, stopped, joiner_is_waiting>>
vars == <<tree, signals, place, ending, stack, end_of_thread, all, reported, released>>

Places == {"unborn", "target", "ending", "linger", "exit", "over"}

Frame(op, t, till) == [op |-> op, on |-> t, todo |-> children[t], till |-> till, waits |-> FALSE]

\* for c in stops: c.stop(), then for c in joins: c.join()
StopsThenJoins(stops, joins) ==
  [i \in 1 .. Len(stops) |-> [op |-> "stop", on |-> stops[i]]] \o
  [i \in 1 .. Len(joins) |-> [op |-> "join", on |-> joins[i]]]

Init ==
  /\ parent = [w \in Workers |-> w]
  /\ children = [t \in Threads |-> <<>>]
  /\ please_stop = {}
  /\ stopped = {}
  /\ joiner_is_waiting = {}
  /\ place = [t \in Threads |-> IF t = Main THEN "target" ELSE "unborn"]
  /\ ending = [t \in Threads |-> <<>>]
  /\ stack = [t \in Threads |-> <<>>]
  /\ end_of_thread = [w \in Workers |-> "none"]
  /\ all = {Main}
  /\ reported = {}
  /\ released = {}

-----------------------------------------------------------------------------
Goto(t, to) == place' = [place EXCEPT ![t] = to]

Top(t) == Head(stack[t])

Push(t, frame) == stack' = [stack EXCEPT ![t] = <<frame>> \o @]

SetTop(t, frame) == stack' = [stack EXCEPT ![t] = <<frame>> \o Tail(@)]

Pop(t) == stack' = [stack EXCEPT ![t] = Tail(@)]

\* an exception leaves all the calls that t is in
Unwind(t) == stack' = [stack EXCEPT ![t] = <<>>]

\* t is in its target, or in the code of Main, and not inside a call
InTarget(t) == place[t] = "target" /\ stack[t] = <<>>

IsChild(t, c) == c \in Workers /\ Contains(children[t], c)

-----------------------------------------------------------------------------
(* What a target does                                                      *)

\* Thread.run(): __init__, add_child and start; RegisterThread in the new thread
Run(t, w) ==
  /\ InTarget(t)
  /\ w \in Workers
  /\ place[w] = "unborn"
  /\ parent' = [parent EXCEPT ![w] = t]
  /\ children' = [children EXCEPT ![t] = Append(@, w)]
  /\ Goto(w, "target")
  /\ all' = all \cup {w}
  /\ UNCHANGED <<signals, ending, stack, end_of_thread, reported, released>>

CallStop(t, c) ==
  /\ InTarget(t)
  /\ "stop" \in Calls
  /\ IsChild(t, c)
  /\ Push(t, Frame("stop", c, FALSE))
  /\ UNCHANGED <<tree, signals, place, ending, end_of_thread, all, reported, released>>

CallJoin(t, c) ==
  /\ InTarget(t)
  /\ IsChild(t, c)
  /\ \/ "join" \in Calls /\ Push(t, Frame("join", c, FALSE))
     \/ "join_till" \in Calls /\ Push(t, Frame("join", c, TRUE))
  /\ UNCHANGED <<tree, signals, place, ending, end_of_thread, all, reported, released>>

Release(t, c) ==
  /\ InTarget(t)
  /\ "release" \in Calls
  /\ IsChild(t, c)
  /\ joiner_is_waiting' = joiner_is_waiting \cup {c}
  /\ released' = released \cup {c}
  /\ UNCHANGED <<tree, please_stop, stopped, place, ending, stack, end_of_thread, all, reported>>

-----------------------------------------------------------------------------
(* stop() and join()                                                       *)

\* the next child of the list that was copied when the call began
Descend(t) ==
  /\ stack[t] # <<>>
  /\ Top(t).todo # <<>>
  /\ stack' = [stack EXCEPT ![t] =
                 <<Frame(Top(t).op, Head(Top(t).todo), Top(t).till),
                   [Top(t) EXCEPT !.todo = Tail(@)]>> \o Tail(@)]
  /\ UNCHANGED <<tree, signals, place, ending, end_of_thread, all, reported, released>>

\* the end of stop(): please_stop.go()
StopEnd(t) ==
  /\ stack[t] # <<>>
  /\ Top(t).op = "stop" /\ Top(t).todo = <<>>
  /\ please_stop' = please_stop \cup {Top(t).on}
  /\ Pop(t)
  /\ UNCHANGED <<tree, stopped, joiner_is_waiting, place, ending, end_of_thread, all, reported,
                 released>>

\* join() after the children: joiner_is_waiting.go(), and the wait begins
JoinWait(t) ==
  /\ stack[t] # <<>>
  /\ Top(t).op = "join" /\ Top(t).todo = <<>> /\ ~ Top(t).waits
  /\ joiner_is_waiting' = joiner_is_waiting \cup {Top(t).on}
  /\ SetTop(t, [Top(t) EXCEPT !.waits = TRUE])
  /\ UNCHANGED <<tree, please_stop, stopped, place, ending, end_of_thread, all, reported, released>>

Without(list, c) == IF Contains(list, c) THEN RemoveFirst(list, c) ELSE list

\* self.parent.remove_child(self)
RemoveChild(c) == children' = [children EXCEPT ![parent[c]] = Without(@, c)]

\* fault: the child is forgotten whether it has stopped or not
JoinReturnAnyway(t) ==
  /\ stack[t] # <<>>
  /\ Top(t).waits
  /\ RemoveChild(Top(t).on)
  /\ Pop(t)
  /\ UNCHANGED <<parent, signals, place, ending, end_of_thread, all, reported, released>>

\* fault: the exception is not looked at
JoinReturnSilent(t) ==
  /\ stack[t] # <<>>
  /\ Top(t).waits
  /\ Top(t).on \in stopped
  /\ RemoveChild(Top(t).on)
  /\ Pop(t)
  /\ UNCHANGED <<parent, signals, place, ending, end_of_thread, all, reported, released>>

\* the thread has stopped: the child is removed, and its exception raised
JoinReturn(t) ==
  /\ stack[t] # <<>>
  /\ Top(t).waits
  /\ Top(t).on \in stopped
  /\ RemoveChild(Top(t).on)
  /\ \/ /\ end_of_thread[Top(t).on] # "exception"
        /\ Pop(t)
        /\ UNCHANGED reported
     \/ /\ end_of_thread[Top(t).on] = "exception"
        /\ reported' = reported \cup {Top(t).on}
        /\ Unwind(t)
  /\ UNCHANGED <<parent, signals, place, ending, end_of_thread, all, released>>

\* till goes first: THREAD_TIMEOUT is raised
JoinTimeout(t) ==
  /\ stack[t] # <<>>
  /\ Top(t).waits
  /\ Top(t).till
  /\ Top(t).on \notin stopped
  /\ Unwind(t)
  /\ UNCHANGED <<tree, signals, place, ending, end_of_thread, all, reported, released>>

-----------------------------------------------------------------------------
(* The end of a thread: the finally of _run(), and MainThread.stop()       *)

\* the target returns nothing or a value, or it raises
TargetEnd(w, how) ==
  /\ w \in Workers
  /\ InTarget(w)
  /\ how = "exception" => "fail" \in Calls
  /\ how = "value" => "answer" \in Calls
  /\ end_of_thread' = [end_of_thread EXCEPT ![w] = how]
  /\ reported' = IF how = "exception" /\ ~ Contains(children[parent[w]], w)
                   THEN reported \cup {w} ELSE reported
  /\ ending' = [ending EXCEPT ![w] = StopsThenJoins(children[w], children[w])]
  /\ Goto(w, "ending")
  /\ UNCHANGED <<tree, signals, stack, all, released>>

MainStop ==
  /\ InTarget(Main)
  /\ please_stop' = please_stop \cup {Main}
  /\ ending' = [ending EXCEPT ![Main] = StopsThenJoins(Reverse(children[Main]), children[Main])]
  /\ Goto(Main, "ending")
  /\ UNCHANGED <<tree, stopped, joiner_is_waiting, stack, end_of_thread, all, reported, released>>

\* fault: the children are told to stop, but not joined
EndingStop(t) ==
  /\ place[t] = "ending"
  /\ stack[t] = <<>> /\ ending[t] # <<>>
  /\ IF Head(ending[t]).op = "stop" THEN Push(t, Frame("stop", Head(ending[t]).on, FALSE))
                                    ELSE UNCHANGED stack
  /\ ending' = [ending EXCEPT ![t] = Tail(@)]
  /\ UNCHANGED <<tree, signals, place, end_of_thread, all, reported, released>>

\* fault: the children are joined, but not told to stop
EndingJoin(t) ==
  /\ place[t] = "ending"
  /\ stack[t] = <<>> /\ ending[t] # <<>>
  /\ IF Head(ending[t]).op = "join" THEN Push(t, Frame("join", Head(ending[t]).on, FALSE))
                                    ELSE UNCHANGED stack
  /\ ending' = [ending EXCEPT ![t] = Tail(@)]
  /\ UNCHANGED <<tree, signals, place, end_of_thread, all, reported, released>>

\* c.stop() or c.join(); what it raises is logged
Ending(t) ==
  /\ place[t] = "ending"
  /\ stack[t] = <<>> /\ ending[t] # <<>>
  /\ Push(t, Frame(Head(ending[t]).op, Head(ending[t]).on, FALSE))
  /\ ending' = [ending EXCEPT ![t] = Tail(@)]
  /\ UNCHANGED <<tree, signals, place, end_of_thread, all, reported, released>>

\* self.stopped.go()
JoinedAll(t) ==
  /\ place[t] = "ending"
  /\ stack[t] = <<>> /\ ending[t] = <<>>
  /\ stopped' = stopped \cup {t}
  /\ Goto(t, CASE t = Main -> "over"
               [] t \in joiner_is_waiting -> "exit"
               [] OTHER -> "linger")
  /\ all' = IF t = Main THEN all \ {Main} ELSE all
  /\ UNCHANGED <<tree, please_stop, joiner_is_waiting, ending, stack, end_of_thread, reported, released>>

\* a joiner comes, or has come, in time
LingerJoined(w) ==
  /\ place[w] = "linger"
  /\ w \in joiner_is_waiting
  /\ Goto(w, "exit")
  /\ UNCHANGED <<tree, signals, ending, stack, end_of_thread, all, reported, released>>

\* nobody came within a minute: the result is logged, or the thread is forgotten
LingerOver(w) ==
  /\ place[w] = "linger"
  /\ w \notin joiner_is_waiting
  /\ Goto(w, "exit")
  /\ reported' = IF end_of_thread[w] = "exception" THEN reported \cup {w} ELSE reported
  /\ IF end_of_thread[w] = "none" /\ parent[w] \in Workers
       THEN RemoveChild(w) ELSE UNCHANGED children
  /\ UNCHANGED <<parent, signals, ending, stack, end_of_thread, all, released>>

\* RegisterThread.__exit__ raises if there are children, and the thread stays registered
Exit(w) ==
  /\ place[w] = "exit"
  /\ Goto(w, "over")
  /\ all' = IF children[w] = <<>> THEN all \ {w} ELSE all
  /\ UNCHANGED <<tree, signals, ending, stack, end_of_thread, reported, released>>

-----------------------------------------------------------------------------
Target(t) ==
  \/ \E c \in Workers : Run(t, c) \/ CallStop(t, c) \/ CallJoin(t, c) \/ Release(t, c)
  \/ \E how \in {"none", "value", "exception"} : TargetEnd(t, how)

Goes(t) ==
  \/ Descend(t) \/ StopEnd(t) \/ JoinWait(t) \/ JoinReturn(t)
  \/ Ending(t) \/ JoinedAll(t)
  \/ LingerJoined(t) \/ LingerOver(t) \/ Exit(t)

Next == MainStop \/ \E t \in Threads : Target(t) \/ Goes(t) \/ JoinTimeout(t)

Spec == Init /\ [][Next]_vars

\* A thread goes on with what it is in; a target that is asked to stop looks at its
\* please_stop between its calls, and ends.
FairSpec ==
  /\ Spec
  /\ \A t \in Threads : WF_vars(Goes(t))
  /\ \A w \in Workers : SF_vars(w \in please_stop /\ \E how \in {"none", "value"} : TargetEnd(w, how))

-----------------------------------------------------------------------------
Born == {w \in Workers : place[w] # "unborn"}

Frames == [op : {"stop", "join"}, on : Workers, todo : Seq(Workers), till : BOOLEAN, waits : BOOLEAN]

ThreadTypeOK ==
  /\ parent \in [Workers -> Threads]
  /\ children \in [Threads -> Seq(Workers)]
  /\ please_stop \subseteq Threads /\ stopped \subseteq Threads
  /\ joiner_is_waiting \subseteq Workers
  /\ place \in [Threads -> Places]
  /\ ending \in [Threads -> Seq([op : {"stop", "join"}, on : Workers])]
  /\ stack \in [Threads -> Seq(Frames)]
  /\ end_of_thread \in [Workers -> {"none", "value", "exception"}]
  /\ all \subseteq Threads
  /\ reported \subseteq Workers /\ released \subseteq Workers

\* A thread stays in the list of its parent at least until it has stopped, whoever
\* stops and joins in the meantime (threads.py:368-391).
NotForgotten == \A w \in Born : w \in stopped \/ Contains(children[parent[w]], w)

\* A thread does not stop before it has told all of its children to stop, also those
\* that were made while it was being stopped itself (threads.py:298-317).
NobodyUntold ==
  \A w \in Born : parent[w] \in stopped => w \in please_stop \cup stopped

\* "PARENT THREAD WILL STILL ENSURE self HAS STOPPED PROPERLY" (threads.py:363): a
\* thread, or the program, does not stop before its children have, as long as no
\* target fails: an exception ends the join with the parent of the one that failed.
ChildrenStopFirst ==
  (\A w \in Workers : end_of_thread[w] # "exception") =>
    \A w \in Born : parent[w] \in stopped => w \in stopped

\* A failure is not forgotten: the thread leaves the list of its parent only after its
\* exception was raised in whoever joined, or logged (threads.py:333-351, 389-397).
FailureNotLost ==
  \A w \in Workers :
    (place[w] = "over" /\ end_of_thread[w] = "exception") =>
      w \in reported \/ Contains(children[parent[w]], w)

\* MainThread.stop() comes to its end
ShutdownEnds == (place[Main] = "ending") ~> (place[Main] = "over")

\* No target, nor the code of Main before stop(), is in a join().
NobodyJoins == \A t \in Threads : (place[t] = "target" /\ stack[t] # <<>>) => Top(t).op = "stop"

\* The please_stop signal allows "FAST AND PREDICTABLE SHUTDOWN AND CLEANUP OF
\* THREADS" (threads.py:11): MainThread.stop() ends in a program that leaves the joining
\* to stop() and _run(), whatever its targets make, stop and release in the meantime.
ShutdownEndsUnlessJoining == []NobodyJoins => ShutdownEnds

\* The tree of threads is sound: a thread is known to its parent until it has stopped, and
\* is told to stop by its parent before that stops (threads.py:298-317, 368-391).
ThreadInv == ThreadTypeOK /\ NotForgotten /\ NobodyUntold
=============================================================================

------------------------------ MODULE Process ------------------------------
(***************************************************************************)
(* mo_threads.multiprocess.Process: a child process, three queues, and the *)
(* four threads that serve it: a writer, two readers, and a monitor that   *)
(* waits for the end of the child and kills a child that is silent on      *)
(* stderr: it does not look at stdout (multiprocess.py:210).               *)
(*                                                                         *)
(* Lines are counted, and any of them may be no UTF-8.  Nobody but the     *)
(* child holds the other end of a pipe.  Whether there is room in an       *)
(* output queue is up to its consumer, and left open.  One join() is       *)
(* followed, without `till`; another one finds no children, and returns    *)
(* as soon as service_stopped is gone.                                     *)
(***************************************************************************)
EXTENDS Integers, FiniteSets

CONSTANTS Timeout, Startup,
          Closing,        \* the streams that the child may close before it ends
          PipeMax,        \* how many lines a pipe takes before the child has to wait
          MaxStdin        \* bound: lines in the queue stdin

Streams == {"stdout", "stderr"}

ASSUME ProcessAssumption ==
  /\ Timeout \in Nat /\ Startup \in Nat /\ Closing \subseteq Streams
  /\ PipeMax \in Nat \ {0} /\ MaxStdin \in Nat

VARIABLES
  child,       \* the child: "running", "exited" by itself, or "killed"
  pipe,        \* how many lines are in the pipe of a stream
  dry,         \* the streams that the child has closed
  reader,      \* reader[s]: the place of the thread in _reader()
  lost,        \* the streams whose reader gave up at a line
  quiet,       \* quiet[s]: the age of the last_read in the Status of s, up to Timeout + 1
  stdin,       \* how many lines are in the queue stdin
  stdinClosed,
  writer,      \* its place in _writer()
  monitor,     \* its place in _monitor()
  left,        \* how long its wait() for the child has to go
  known,       \* service.returncode is not None
  stopped,     \* service_stopped is gone
  join         \* the place in join()

childVars == <<child, dry>>
readVars == <<reader, lost>>
outVars == <<pipe, reader, lost>>
inVars == <<stdin, stdinClosed, writer>>
monitorVars == <<monitor, left, known>>
vars == <<child, pipe, dry, reader, lost, quiet, stdin, stdinClosed, writer, monitor, left,
          known, stopped, join>>

\* the pipes are within their limits
ProcessTypeOK ==
  /\ child \in {"running", "exited", "killed"}
  /\ pipe \in [Streams -> 0 .. PipeMax]
  /\ dry \subseteq Streams /\ lost \subseteq Streams
  /\ reader \in [Streams -> {"head", "readline", "add", "finally", "closing", "ended"}]
  /\ quiet \in [Streams -> - Startup .. Timeout + 1]
  /\ stdin \in 0 .. MaxStdin
  /\ stdinClosed \in BOOLEAN /\ known \in BOOLEAN /\ stopped \in BOOLEAN
  /\ writer \in {"head", "pop", "write", "go", "ended"}
  /\ monitor \in {"head", "wait", "kill", "go", "close", "ended"}
  /\ left \in 0 .. Timeout + Startup
  /\ join \in {"wait", "over"}

Init ==
  /\ child = "running" /\ dry = {} /\ lost = {}
  /\ pipe = [s \in Streams |-> 0]
  /\ reader = [s \in Streams |-> "head"]
  /\ quiet = [s \in Streams |-> - Startup]
  /\ stdin = 0 /\ stdinClosed = FALSE /\ writer = "head"
  /\ monitor = "head" /\ left = 0 /\ known = FALSE /\ stopped = FALSE
  /\ join = "wait"

\* the streams whose queue is closed, and the pipes that are closed on this side
Closed == {s \in Streams : reader[s] \in {"closing", "ended"}}
Shut == IF \E s \in Streams : reader[s] = "ended" THEN Streams ELSE Closed

-----------------------------------------------------------------------------
(* The child                                                               *)

Say(s) ==
  /\ child = "running" /\ s \notin dry /\ s \notin Shut
  /\ pipe[s] < PipeMax
  /\ pipe' = [pipe EXCEPT ![s] = @ + 1]
  /\ UNCHANGED <<childVars, readVars, quiet, inVars, monitorVars, stopped, join>>

CloseStream(s) ==
  /\ child = "running" /\ s \in Closing \ dry
  /\ dry' = dry \cup {s}
  /\ UNCHANGED <<child, outVars, quiet, inVars, monitorVars, stopped, join>>

Exit ==
  /\ child = "running"
  /\ child' = "exited"
  /\ UNCHANGED <<dry, outVars, quiet, inVars, monitorVars, stopped, join>>

-----------------------------------------------------------------------------
(* _reader()                                                               *)

InPipe(s) == pipe[s] > 0

ReadOn == ~ stopped /\ ~ known

\* the head of the loop; readline() of a closed pipe raises
ReaderHead(s) ==
  /\ reader[s] = "head"
  /\ reader' = [reader EXCEPT ![s] = IF ReadOn /\ s \notin Shut THEN "readline" ELSE "finally"]
  /\ UNCHANGED <<childVars, pipe, lost, quiet, inVars, monitorVars, stopped, join>>

\* readline() returns, and the time is noted
Noted(s) == quiet' = [quiet EXCEPT ![s] = 0]

ReadLine(s) ==
  /\ reader[s] = "readline"
  /\ InPipe(s)
  /\ pipe' = [pipe EXCEPT ![s] = @ - 1]
  /\ reader' = [reader EXCEPT ![s] = "add"]
  /\ Noted(s)
  /\ UNCHANGED <<childVars, lost, inVars, monitorVars, stopped, join>>

\* the line is no UTF-8: decode() raises, the line is lost
ReadGarbage(s) ==
  /\ reader[s] = "readline"
  /\ InPipe(s)
  /\ pipe' = [pipe EXCEPT ![s] = @ - 1]
  /\ reader' = [reader EXCEPT ![s] = "finally"]
  /\ lost' = lost \cup {s}
  /\ Noted(s)
  /\ UNCHANGED <<childVars, inVars, monitorVars, stopped, join>>

\* fault: an empty pipe is taken for the end of the stream
EndOfEmpty(s) == ~ InPipe(s)

EndOfStream(s) == ~ InPipe(s) /\ (s \in dry \/ child # "running")

\* the end of the stream is an empty line, and its time is noted as well
ReadEnd(s) ==
  /\ reader[s] = "readline"
  /\ EndOfStream(s)
  /\ reader' = [reader EXCEPT ![s] = "finally"]
  /\ Noted(s)
  /\ UNCHANGED <<childVars, pipe, lost, inVars, monitorVars, stopped, join>>

\* receive.add()
AddLine(s) ==
  /\ reader[s] = "add"
  /\ reader' = [reader EXCEPT ![s] = "head"]
  /\ UNCHANGED <<childVars, pipe, lost, quiet, inVars, monitorVars, stopped, join>>

\* the queue stays full for ten minutes: add() raises, the line is lost
AddFails(s) ==
  /\ reader[s] = "add"
  /\ reader' = [reader EXCEPT ![s] = "finally"]
  /\ lost' = lost \cup {s}
  /\ UNCHANGED <<childVars, pipe, quiet, inVars, monitorVars, stopped, join>>

\* receive.close(), pipe.close()
CloseOwn(s) ==
  /\ reader[s] = "finally"
  /\ reader' = [reader EXCEPT ![s] = "closing"]
  /\ UNCHANGED <<childVars, pipe, lost, quiet, inVars, monitorVars, stopped, join>>

\* service.stderr.close(), service.stdout.close(): close() waits for a readline() of the
\* other reader to return
CloseOther(s) ==
  /\ reader[s] = "closing"
  /\ \A r \in Streams \ {s} : reader[r] # "readline"
  /\ reader' = [reader EXCEPT ![s] = "ended"]
  /\ UNCHANGED <<childVars, pipe, lost, quiet, inVars, monitorVars, stopped, join>>

Reads(s) ==
  ReaderHead(s) \/ ReadLine(s) \/ ReadGarbage(s) \/ ReadEnd(s) \/ AddLine(s) \/ AddFails(s)
  \/ CloseOwn(s) \/ CloseOther(s)

-----------------------------------------------------------------------------
(* _writer()                                                               *)

WriterHead ==
  /\ writer = "head"
  /\ writer' = IF stopped THEN "ended" ELSE "pop"
  /\ UNCHANGED <<childVars, outVars, quiet, stdin, stdinClosed, monitorVars, stopped, join>>

\* send.pop(till=please_stop): a line, THREAD_STOP, or None
WriterPop ==
  /\ writer = "pop"
  /\ \/ stdin > 0 /\ stdin' = stdin - 1 /\ writer' = "write"
     \/ stdin = 0 /\ stdinClosed /\ writer' = "go" /\ UNCHANGED stdin
     \/ stdin = 0 /\ ~ stdinClosed /\ stopped /\ writer' = "head" /\ UNCHANGED stdin
  /\ UNCHANGED <<childVars, outVars, quiet, stdinClosed, monitorVars, stopped, join>>

\* the child takes the line
WriterWrite ==
  /\ writer = "write"
  /\ child = "running"
  /\ writer' = "head"
  /\ UNCHANGED <<childVars, outVars, quiet, stdin, stdinClosed, monitorVars, stopped, join>>

\* the pipe is broken
WriterFails ==
  /\ writer = "write"
  /\ child # "running"
  /\ writer' = "ended"
  /\ UNCHANGED <<childVars, outVars, quiet, stdin, stdinClosed, monitorVars, stopped, join>>

\* THREAD_STOP: please_stop.go()
WriterGo ==
  /\ writer = "go"
  /\ stopped' = TRUE
  /\ writer' = "ended"
  /\ UNCHANGED <<childVars, outVars, quiet, stdin, stdinClosed, monitorVars, join>>

-----------------------------------------------------------------------------
(* _monitor()                                                              *)

\* fault: time is never up
LateNever == FALSE

\* last_out = max(self.stderr_status.last_read, self.stderr_status.last_read)
Late == quiet["stderr"] > Timeout

\* the head of the loop
MonitorHead ==
  /\ monitor = "head"
  /\ \/ stopped /\ monitor' = "go" /\ UNCHANGED left
     \/ ~ stopped /\ Late /\ monitor' = "kill" /\ UNCHANGED left
     \/ ~ stopped /\ ~ Late /\ monitor' = "wait" /\ left' = Timeout - quiet["stderr"]
  /\ UNCHANGED <<childVars, outVars, quiet, inVars, known, stopped, join>>

\* _kill(); kill() of a child that has ended finds its return code
Kill ==
  /\ monitor = "kill"
  /\ child' = IF child = "running" THEN "killed" ELSE child
  /\ known' = (child # "running")
  /\ monitor' = "go"
  /\ UNCHANGED <<dry, outVars, quiet, inVars, left, stopped, join>>

\* service.wait() returns
ChildEnded ==
  /\ monitor = "wait"
  /\ child # "running"
  /\ known' = TRUE
  /\ monitor' = "go" /\ left' = 0
  /\ UNCHANGED <<childVars, outVars, quiet, inVars, stopped, join>>

\* service.wait() times out
WaitTimesOut ==
  /\ monitor = "wait"
  /\ child = "running" /\ left = 0
  /\ monitor' = "head"
  /\ UNCHANGED <<childVars, outVars, quiet, inVars, left, known, stopped, join>>

\* fault: nobody is told
MonitorGoQuiet == UNCHANGED stopped

MonitorTells == stopped' = TRUE

\* please_stop.go()
MonitorGo ==
  /\ monitor = "go"
  /\ MonitorTells
  /\ monitor' = "close"
  /\ UNCHANGED <<childVars, outVars, quiet, inVars, left, known, join>>

\* stdin.close()
MonitorClose ==
  /\ monitor = "close"
  /\ stdinClosed' = TRUE
  /\ monitor' = "ended"
  /\ UNCHANGED <<childVars, outVars, quiet, stdin, writer, left, known, stopped, join>>

-----------------------------------------------------------------------------
(* The user                                                                *)

\* stdin.add(), and stop(), which adds "exit"
Add ==
  /\ ~ stdinClosed
  /\ stdin < MaxStdin
  /\ stdin' = stdin + 1
  /\ UNCHANGED <<childVars, outVars, quiet, stdinClosed, writer, monitorVars, stopped, join>>

CloseStdin ==
  /\ ~ stdinClosed
  /\ stdinClosed' = TRUE
  /\ UNCHANGED <<childVars, outVars, quiet, stdin, writer, monitorVars, stopped, join>>

\* join() waits for service_stopped, takes the children and waits for each of them
JoinOver ==
  /\ join = "wait"
  /\ stopped
  /\ writer = "ended" /\ monitor = "ended" /\ \A s \in Streams : reader[s] = "ended"
  /\ join' = "over"
  /\ UNCHANGED <<childVars, outVars, quiet, inVars, monitorVars, stopped>>

-----------------------------------------------------------------------------
\* time passes, until the monitor has ended its loop
Tick ==
  /\ monitor \in {"head", "wait", "kill"}
  /\ quiet' = [s \in Streams |-> IF quiet[s] <= Timeout THEN quiet[s] + 1 ELSE quiet[s]]
  /\ left' = IF left > 0 THEN left - 1 ELSE 0
  /\ UNCHANGED <<childVars, outVars, inVars, monitor, known, stopped, join>>

Writes == WriterHead \/ WriterPop \/ WriterFails \/ WriterGo

Monitors == MonitorHead \/ Kill \/ ChildEnded \/ WaitTimesOut \/ MonitorGo \/ MonitorClose

Next ==
  \/ \E s \in Streams : Say(s) \/ CloseStream(s) \/ Reads(s)
  \/ Exit
  \/ Writes \/ WriterWrite \/ Monitors
  \/ Add \/ CloseStdin
  \/ JoinOver
  \/ Tick

Spec == Init /\ [][Next]_vars

\* every thread goes on while it can, and time passes; the child need not do anything
FairSpec ==
  /\ Spec
  /\ \A s \in Streams : WF_vars(Reads(s))
  /\ WF_vars(Writes) /\ WF_vars(Monitors) /\ WF_vars(JoinOver) /\ WF_vars(Tick)

-----------------------------------------------------------------------------
\* An output queue is closed over lines that are still in the pipe only when the process
\* is to stop or its end is known, or after the reader of the other stream has ended and
\* closed both pipes, or when its own reader gave up, at a line that there was no room for in
\* the queue, or that is no UTF-8 (multiprocess.py:223, 238, 243-255).
CutForAReason ==
  \A s \in Closed : pipe[s] > 0 =>
    \/ stopped \/ known
    \/ Streams \subseteq Closed
    \/ s \in lost

\* the child runs, and its monitor does not look at it any more
Abandoned == child = "running" /\ monitor \in {"go", "close", "ended"}

\* When the child has ended, however that came about, and whatever the threads were at, both
\* output queues are closed and join() returns (multiprocess.py:168-173, 223, 238-255, 257-276).
JoinEnds == child # "running" ~> join = "over"

\* A child that has been silent for too long, on both streams, ends or says something, or was
\* abandoned (multiprocess.py:208-222).
SilentIsKilled ==
  (child = "running" /\ \A s \in Streams : quiet[s] > Timeout)
    ~> child # "running" \/ (\E s \in Streams : quiet[s] <= Timeout) \/ Abandoned

\* The monitor kills a child only when it has been silent for too long: "how long to wait for
\* process stdout/stderr before we consider it dead; ensure your process emits lines to stay
\* alive" (multiprocess.py:70-71).
KilledWhenSilent ==
  [][monitor # "kill" /\ monitor' = "kill" => \A s \in Streams : quiet[s] > Timeout]_vars

\* When the join() with a child that ended by itself has returned, all that the child has
\* printed is in stdout or was taken from there (test_processes.py:99-101).
LastLinesArrive ==
  join = "over" /\ child = "exited" /\ "stdout" \notin lost => pipe["stdout"] = 0

\* The state of the process is sound, and output is cut for a reason only
\* (multiprocess.py:206-255).
ProcessInv == ProcessTypeOK /\ CutForAReason
=============================================================================

---------------------------- MODULE ProcessProofs ----------------------------
(***************************************************************************)
(* Theorems about Process, for any timeouts, and any limits of the pipes   *)
(* and of the queue stdin: output is cut for a reason only.                *)
(***************************************************************************)
EXTENDS Process, TLAPS

-----------------------------------------------------------------------------
(* The inductive invariant                                                 *)

\* the monitor is in its loop until it knows the return code of the child
LoopsUntilKnown == monitor \in {"head", "wait", "kill"} => ~ known

\* the child writes no more to the stream, and nothing is left of it
Drained(s) == pipe[s] = 0 /\ (s \in dry \/ child # "running")

\* why a reader gives up its stream
FinallyForAReason ==
  \A s \in Streams : reader[s] = "finally" =>
    \/ stopped \/ known
    \/ s \in lost
    \/ Drained(s)
    \/ \E r \in Streams \ {s} : reader[r] = "ended"

ProcessIInv ==
  /\ ProcessTypeOK
  /\ LoopsUntilKnown
  /\ FinallyForAReason
  /\ CutForAReason

LEMMA ProcessInitInv == Init => ProcessIInv
<1> SUFFICES ASSUME Init PROVE ProcessIInv
  OBVIOUS
<1>1. ProcessTypeOK
  <2>1. 0 \in 0 .. PipeMax /\ 0 \in 0 .. MaxStdin /\ 0 \in 0 .. Timeout + Startup
        /\ - Startup \in - Startup .. Timeout + 1
    BY ProcessAssumption
  <2>2. quiet \in [Streams -> - Startup .. Timeout + 1]
    BY <2>1 DEF Init
  <2> QED
    BY <2>1, <2>2 DEF Init, ProcessTypeOK
<1>2. LoopsUntilKnown /\ FinallyForAReason /\ CutForAReason
  BY DEF Init, LoopsUntilKnown, FinallyForAReason, CutForAReason, Closed
<1> QED
  BY <1>1, <1>2 DEF ProcessIInv

LEMMA ProcessInvStep == ProcessIInv /\ [Next]_vars => ProcessIInv'
<1> SUFFICES ASSUME ProcessIInv, [Next]_vars PROVE ProcessIInv'
  OBVIOUS
<1> USE ProcessAssumption
<1>1. ASSUME NEW s \in Streams, Say(s)
      PROVE  ProcessIInv'
  <2>1. ProcessTypeOK'
    BY <1>1 DEF ProcessIInv, ProcessTypeOK, Say, childVars, readVars, inVars, monitorVars
  <2>2. FinallyForAReason'
    BY <1>1 DEF ProcessIInv, FinallyForAReason, Drained, Say, childVars, readVars, monitorVars
  <2>3. CutForAReason'
    BY <1>1 DEF ProcessIInv, CutForAReason, Closed, Say, Shut, readVars, monitorVars
  <2>4. LoopsUntilKnown'
    BY <1>1 DEF ProcessIInv, Say, monitorVars, LoopsUntilKnown
  <2> QED
    BY <2>1, <2>2, <2>3, <2>4 DEF ProcessIInv
<1>2. ASSUME NEW s \in Streams, CloseStream(s)
      PROVE  ProcessIInv'
  <2>1. ProcessTypeOK'
    BY <1>2 DEF ProcessIInv, ProcessTypeOK, CloseStream, outVars, inVars, monitorVars
  <2>2. FinallyForAReason'
    BY <1>2 DEF ProcessIInv, FinallyForAReason, Drained, CloseStream, outVars, monitorVars
  <2>3. LoopsUntilKnown' /\ CutForAReason'
    BY <1>2 DEF ProcessIInv, CloseStream, outVars, monitorVars, LoopsUntilKnown, CutForAReason,
       Closed
  <2> QED
    BY <2>1, <2>2, <2>3 DEF ProcessIInv
<1>3. ASSUME Exit
      PROVE  ProcessIInv'
  <2>1. ProcessTypeOK'
    BY <1>3 DEF ProcessIInv, ProcessTypeOK, Exit, outVars, inVars, monitorVars
  <2>2. FinallyForAReason'
    BY <1>3 DEF ProcessIInv, FinallyForAReason, Drained, Exit, outVars, monitorVars
  <2>3. LoopsUntilKnown' /\ CutForAReason'
    BY <1>3 DEF ProcessIInv, Exit, outVars, monitorVars, LoopsUntilKnown, CutForAReason, Closed
  <2> QED
    BY <2>1, <2>2, <2>3 DEF ProcessIInv
<1>4. ASSUME NEW s \in Streams, ReaderHead(s)
      PROVE  ProcessIInv'
  <2>1. ProcessTypeOK'
    BY <1>4 DEF ProcessIInv, ProcessTypeOK, ReaderHead, childVars, inVars, monitorVars
  <2>2. FinallyForAReason'
    BY <1>4 DEF ProcessIInv, FinallyForAReason, Drained, ReaderHead, ReadOn, Shut, Closed,
       childVars, monitorVars
  <2>3. CutForAReason'
    BY <1>4 DEF ProcessIInv, CutForAReason, Closed, ReaderHead, monitorVars
  <2>4. LoopsUntilKnown'
    BY <1>4 DEF ProcessIInv, ReaderHead, monitorVars, LoopsUntilKnown
  <2> QED
    BY <2>1, <2>2, <2>3, <2>4 DEF ProcessIInv
<1>5. ASSUME NEW s \in Streams, ReadLine(s)
      PROVE  ProcessIInv'
  <2>1. ProcessTypeOK'
    BY <1>5 DEF ProcessIInv, ProcessTypeOK, ReadLine, InPipe, Noted, childVars, inVars,
       monitorVars
  <2>2. FinallyForAReason'
    BY <1>5 DEF ProcessIInv, FinallyForAReason, Drained, ReadLine, childVars, monitorVars
  <2>3. CutForAReason'
    BY <1>5 DEF ProcessIInv, CutForAReason, Closed, ReadLine, monitorVars
  <2>4. LoopsUntilKnown'
    BY <1>5 DEF ProcessIInv, ReadLine, monitorVars, LoopsUntilKnown
  <2> QED
    BY <2>1, <2>2, <2>3, <2>4 DEF ProcessIInv
<1>6. ASSUME NEW s \in Streams, ReadEnd(s)
      PROVE  ProcessIInv'
  <2>1. ProcessTypeOK'
    BY <1>6 DEF ProcessIInv, ProcessTypeOK, ReadEnd, Noted, childVars, inVars, monitorVars
  <2>2. FinallyForAReason'
    BY <1>6 DEF ProcessIInv, ProcessTypeOK, FinallyForAReason, Drained, ReadEnd, EndOfStream,
       InPipe, childVars, monitorVars
  <2>3. CutForAReason'
    BY <1>6 DEF ProcessIInv, CutForAReason, Closed, ReadEnd, monitorVars
  <2>4. LoopsUntilKnown'
    BY <1>6 DEF ProcessIInv, ReadEnd, monitorVars, LoopsUntilKnown
  <2> QED
    BY <2>1, <2>2, <2>3, <2>4 DEF ProcessIInv
<1>7. ASSUME NEW s \in Streams, AddLine(s)
      PROVE  ProcessIInv'
  <2>1. ProcessTypeOK'
    BY <1>7 DEF ProcessIInv, ProcessTypeOK, AddLine, childVars, inVars, monitorVars
  <2>2. FinallyForAReason'
    BY <1>7 DEF ProcessIInv, FinallyForAReason, Drained, AddLine, childVars, monitorVars
  <2>3. CutForAReason'
    BY <1>7 DEF ProcessIInv, CutForAReason, Closed, AddLine, monitorVars
  <2>4. LoopsUntilKnown'
    BY <1>7 DEF ProcessIInv, AddLine, monitorVars, LoopsUntilKnown
  <2> QED
    BY <2>1, <2>2, <2>3, <2>4 DEF ProcessIInv
<1>8. ASSUME NEW s \in Streams, AddFails(s)
      PROVE  ProcessIInv'
  <2>1. ProcessTypeOK'
    BY <1>8 DEF ProcessIInv, ProcessTypeOK, AddFails, childVars, inVars, monitorVars
  <2>2. FinallyForAReason'
    BY <1>8 DEF ProcessIInv, FinallyForAReason, Drained, AddFails, childVars, monitorVars
  <2>3. CutForAReason'
    BY <1>8 DEF ProcessIInv, CutForAReason, Closed, AddFails, monitorVars
  <2>4. LoopsUntilKnown'
    BY <1>8 DEF ProcessIInv, AddFails, monitorVars, LoopsUntilKnown
  <2> QED
    BY <2>1, <2>2, <2>3, <2>4 DEF ProcessIInv
<1>9. ASSUME NEW s \in Streams, CloseOwn(s)
      PROVE  ProcessIInv'
  <2>1. ProcessTypeOK'
    BY <1>9 DEF ProcessIInv, ProcessTypeOK, CloseOwn, childVars, inVars, monitorVars
  <2>2. FinallyForAReason'
    BY <1>9 DEF ProcessIInv, FinallyForAReason, Drained, CloseOwn, childVars, monitorVars
  <2>3. CutForAReason'
    BY <1>9 DEF ProcessIInv, CutForAReason, Closed, Streams, CloseOwn, FinallyForAReason,
       Drained, monitorVars
  <2>4. LoopsUntilKnown'
    BY <1>9 DEF ProcessIInv, CloseOwn, monitorVars, LoopsUntilKnown
  <2> QED
    BY <2>1, <2>2, <2>3, <2>4 DEF ProcessIInv
<1>10. ASSUME NEW s \in Streams, CloseOther(s)
      PROVE  ProcessIInv'
  <2>1. ProcessTypeOK'
    BY <1>10 DEF ProcessIInv, ProcessTypeOK, CloseOther, childVars, inVars, monitorVars
  <2>2. FinallyForAReason'
    BY <1>10 DEF ProcessIInv, FinallyForAReason, Drained, CloseOther, childVars, monitorVars
  <2>3. CutForAReason'
    BY <1>10 DEF ProcessIInv, CutForAReason, Closed, CloseOther, monitorVars
  <2>4. LoopsUntilKnown'
    BY <1>10 DEF ProcessIInv, CloseOther, monitorVars, LoopsUntilKnown
  <2> QED
    BY <2>1, <2>2, <2>3, <2>4 DEF ProcessIInv
<1>11. ASSUME WriterHead
      PROVE  ProcessIInv'
  <2>1. ProcessTypeOK'
    BY <1>11 DEF ProcessIInv, ProcessTypeOK, WriterHead, childVars, outVars, monitorVars
  <2>2. LoopsUntilKnown' /\ FinallyForAReason' /\ CutForAReason'
    BY <1>11 DEF ProcessIInv, WriterHead, childVars, outVars, monitorVars, LoopsUntilKnown,
       FinallyForAReason, Drained, CutForAReason, Closed
  <2> QED
    BY <2>1, <2>2 DEF ProcessIInv
<1>12. ASSUME WriterPop
      PROVE  ProcessIInv'
  <2>1. ProcessTypeOK'
    BY <1>12 DEF ProcessIInv, ProcessTypeOK, WriterPop, childVars, outVars, monitorVars
  <2>2. LoopsUntilKnown' /\ FinallyForAReason' /\ CutForAReason'
    BY <1>12 DEF ProcessIInv, WriterPop, childVars, outVars, monitorVars, LoopsUntilKnown,
       FinallyForAReason, Drained, CutForAReason, Closed
  <2> QED
    BY <2>1, <2>2 DEF ProcessIInv
<1>13. ASSUME WriterWrite
      PROVE  ProcessIInv'
  <2>1. ProcessTypeOK'
    BY <1>13 DEF ProcessIInv, ProcessTypeOK, WriterWrite, childVars, outVars, monitorVars
  <2>2. LoopsUntilKnown' /\ FinallyForAReason' /\ CutForAReason'
    BY <1>13 DEF ProcessIInv, WriterWrite, childVars, outVars, monitorVars, LoopsUntilKnown,
       FinallyForAReason, Drained, CutForAReason, Closed
  <2> QED
    BY <2>1, <2>2 DEF ProcessIInv
<1>14. ASSUME WriterFails
      PROVE  ProcessIInv'
  <2>1. ProcessTypeOK'
    BY <1>14 DEF ProcessIInv, ProcessTypeOK, WriterFails, childVars, outVars, monitorVars
  <2>2. LoopsUntilKnown' /\ FinallyForAReason' /\ CutForAReason'
    BY <1>14 DEF ProcessIInv, WriterFails, childVars, outVars, monitorVars, LoopsUntilKnown,
       FinallyForAReason, Drained, CutForAReason, Closed
  <2> QED
    BY <2>1, <2>2 DEF ProcessIInv
<1>15. ASSUME WriterGo
      PROVE  ProcessIInv'
  <2>1. ProcessTypeOK'
    BY <1>15 DEF ProcessIInv, ProcessTypeOK, WriterGo, childVars, outVars, monitorVars
  <2>2. FinallyForAReason'
    BY <1>15 DEF FinallyForAReason, WriterGo
  <2>3. CutForAReason'
    BY <1>15 DEF CutForAReason, WriterGo
  <2>4. LoopsUntilKnown'
    BY <1>15 DEF ProcessIInv, WriterGo, monitorVars, LoopsUntilKnown
  <2> QED
    BY <2>1, <2>2, <2>3, <2>4 DEF ProcessIInv
<1>16. ASSUME MonitorHead
      PROVE  ProcessIInv'
  <2>1. ProcessTypeOK'
    <3>1. quiet["stderr"] \in - Startup .. Timeout + 1
      BY DEF ProcessIInv, ProcessTypeOK, Streams
    <3>2. CASE monitor' = "wait"
      <4>1. left' = Timeout - quiet["stderr"] /\ quiet["stderr"] <= Timeout
        BY <1>16, <3>1, <3>2 DEF MonitorHead, Late
      <4>2. left' \in 0 .. Timeout + Startup
        BY <3>1, <4>1
      <4> QED
        BY <1>16, <3>2, <4>2 DEF ProcessIInv, ProcessTypeOK, MonitorHead, childVars, outVars,
           inVars
    <3>3. CASE monitor' # "wait"
      BY <1>16, <3>3 DEF ProcessIInv, ProcessTypeOK, MonitorHead, childVars, outVars, inVars
    <3> QED
      BY <3>2, <3>3
  <2>2. LoopsUntilKnown'
    BY <1>16 DEF ProcessIInv, LoopsUntilKnown, MonitorHead
  <2>3. FinallyForAReason' /\ CutForAReason'
    BY <1>16 DEF ProcessIInv, MonitorHead, childVars, outVars, FinallyForAReason, Drained,
       CutForAReason, Closed
  <2> QED
    BY <2>1, <2>2, <2>3 DEF ProcessIInv
<1>17. ASSUME Kill
      PROVE  ProcessIInv'
  <2>1. ProcessTypeOK'
    BY <1>17 DEF ProcessIInv, ProcessTypeOK, Kill, outVars, inVars
  <2>2. LoopsUntilKnown'
    BY <1>17 DEF LoopsUntilKnown, Kill
  <2>3. FinallyForAReason'
    BY <1>17 DEF ProcessIInv, FinallyForAReason, Drained, Kill, LoopsUntilKnown, outVars
  <2>4. CutForAReason'
    BY <1>17 DEF ProcessIInv, CutForAReason, Closed, Kill, LoopsUntilKnown, outVars
  <2> QED
    BY <2>1, <2>2, <2>3, <2>4 DEF ProcessIInv
<1>18. ASSUME ChildEnded
      PROVE  ProcessIInv'
  <2>1. ProcessTypeOK'
    BY <1>18 DEF ProcessIInv, ProcessTypeOK, ChildEnded, childVars, outVars, inVars
  <2>2. LoopsUntilKnown'
    BY <1>18 DEF LoopsUntilKnown, ChildEnded
  <2>3. FinallyForAReason'
    BY <1>18 DEF FinallyForAReason, ChildEnded
  <2>4. CutForAReason'
    BY <1>18 DEF CutForAReason, ChildEnded
  <2> QED
    BY <2>1, <2>2, <2>3, <2>4 DEF ProcessIInv
<1>19. ASSUME WaitTimesOut
      PROVE  ProcessIInv'
  <2>1. ProcessTypeOK'
    BY <1>19 DEF ProcessIInv, ProcessTypeOK, WaitTimesOut, childVars, outVars, inVars
  <2>2. LoopsUntilKnown'
    BY <1>19 DEF ProcessIInv, LoopsUntilKnown, WaitTimesOut
  <2>3. FinallyForAReason' /\ CutForAReason'
    BY <1>19 DEF ProcessIInv, WaitTimesOut, childVars, outVars, FinallyForAReason, Drained,
       CutForAReason, Closed
  <2> QED
    BY <2>1, <2>2, <2>3 DEF ProcessIInv
<1>20. ASSUME MonitorGo
      PROVE  ProcessIInv'
  <2>1. ProcessTypeOK'
    BY <1>20 DEF ProcessIInv, ProcessTypeOK, MonitorGo, MonitorTells, childVars, outVars, inVars
  <2>2. LoopsUntilKnown'
    BY <1>20 DEF LoopsUntilKnown, MonitorGo
  <2>3. FinallyForAReason'
    BY <1>20 DEF FinallyForAReason, MonitorGo, MonitorTells
  <2>4. CutForAReason'
    BY <1>20 DEF CutForAReason, MonitorGo, MonitorTells
  <2> QED
    BY <2>1, <2>2, <2>3, <2>4 DEF ProcessIInv
<1>21. ASSUME MonitorClose
      PROVE  ProcessIInv'
  <2>1. ProcessTypeOK'
    BY <1>21 DEF ProcessIInv, ProcessTypeOK, MonitorClose, childVars, outVars
  <2>2. LoopsUntilKnown'
    BY <1>21 DEF LoopsUntilKnown, MonitorClose
  <2>3. FinallyForAReason' /\ CutForAReason'
    BY <1>21 DEF ProcessIInv, MonitorClose, childVars, outVars, FinallyForAReason, Drained,
       CutForAReason, Closed
  <2> QED
    BY <2>1, <2>2, <2>3 DEF ProcessIInv
<1>22. ASSUME Add
      PROVE  ProcessIInv'
  <2>1. ProcessTypeOK'
    BY <1>22 DEF ProcessIInv, ProcessTypeOK, Add, childVars, outVars, monitorVars
  <2>2. LoopsUntilKnown' /\ FinallyForAReason' /\ CutForAReason'
    BY <1>22 DEF ProcessIInv, Add, childVars, outVars, monitorVars, LoopsUntilKnown,
       FinallyForAReason, Drained, CutForAReason, Closed
  <2> QED
    BY <2>1, <2>2 DEF ProcessIInv
<1>23. ASSUME CloseStdin
      PROVE  ProcessIInv'
  <2>1. ProcessTypeOK'
    BY <1>23 DEF ProcessIInv, ProcessTypeOK, CloseStdin, childVars, outVars, monitorVars
  <2>2. LoopsUntilKnown' /\ FinallyForAReason' /\ CutForAReason'
    BY <1>23 DEF ProcessIInv, CloseStdin, childVars, outVars, monitorVars, LoopsUntilKnown,
       FinallyForAReason, Drained, CutForAReason, Closed
  <2> QED
    BY <2>1, <2>2 DEF ProcessIInv
<1>24. ASSUME JoinOver
      PROVE  ProcessIInv'
  <2>1. ProcessTypeOK'
    BY <1>24 DEF ProcessIInv, ProcessTypeOK, JoinOver, childVars, outVars, inVars, monitorVars
  <2>2. LoopsUntilKnown' /\ FinallyForAReason' /\ CutForAReason'
    BY <1>24 DEF JoinOver, monitorVars, LoopsUntilKnown, FinallyForAReason, CutForAReason
  <2> QED
    BY <2>1, <2>2 DEF ProcessIInv
<1>25. ASSUME Tick
      PROVE  ProcessIInv'
  <2>1. ProcessTypeOK'
    BY <1>25 DEF ProcessIInv, ProcessTypeOK, Tick, childVars, outVars, inVars
  <2>2. LoopsUntilKnown' /\ FinallyForAReason' /\ CutForAReason'
    BY <1>25 DEF ProcessIInv, Tick, childVars, outVars, LoopsUntilKnown, FinallyForAReason,
       Drained, CutForAReason, Closed
  <2> QED
    BY <2>1, <2>2 DEF ProcessIInv
<1>26. ASSUME NEW s \in Streams, ReadGarbage(s)
      PROVE  ProcessIInv'
  <2>1. ProcessTypeOK'
    BY <1>26 DEF ProcessIInv, ProcessTypeOK, ReadGarbage, InPipe, Noted, childVars, inVars,
       monitorVars
  <2>2. FinallyForAReason'
    BY <1>26 DEF ProcessIInv, FinallyForAReason, Drained, ReadGarbage, childVars, monitorVars
  <2>3. CutForAReason'
    BY <1>26 DEF ProcessIInv, CutForAReason, Closed, ReadGarbage, monitorVars
  <2>4. LoopsUntilKnown'
    BY <1>26 DEF ProcessIInv, ReadGarbage, monitorVars, LoopsUntilKnown
  <2> QED
    BY <2>1, <2>2, <2>3, <2>4 DEF ProcessIInv
<1>27. CASE UNCHANGED vars
  BY <1>27 DEF vars, ProcessIInv, ProcessTypeOK, LoopsUntilKnown, FinallyForAReason, Drained,
     CutForAReason, Closed
<1> QED
  BY <1>1, <1>2, <1>3, <1>4, <1>5, <1>6, <1>7, <1>8, <1>9, <1>10, <1>11, <1>12, <1>13, <1>14,
     <1>15, <1>16, <1>17, <1>18, <1>19, <1>20, <1>21, <1>22, <1>23, <1>24, <1>25, <1>26, <1>27 DEF
     Next, Reads, Writes, Monitors

LEMMA ProcessInvAlways == Spec => []ProcessIInv
BY ProcessInitInv, ProcessInvStep, PTL DEF Spec

\* For any timeouts and limits: an output queue is closed over lines that are still in the
\* pipe only for the reasons named in CutForAReason, in any order of the ends of the child,
\* its two readers, its monitor and its writer (multiprocess.py:206-276).
THEOREM ProcessSafe == Spec => []ProcessInv
<1>1. ProcessIInv => ProcessInv
  BY DEF ProcessIInv, ProcessInv
<1> QED
  BY <1>1, ProcessInvAlways, PTL
=============================================================================

---------------------------- MODULE SignalProofs ----------------------------
(***************************************************************************)
(* Theorems about Signal, for any set of threads and of jobs; about        *)
(* `a & b`, for any finite set of dependencies; and about `a | b`, for any *)
(* set of them.  The state of all three, and the definitions Or!... of the *)
(* last, are those of JoinedSignals.                                       *)
(***************************************************************************)
EXTENDS JoinedSignals, FiniteSetTheorems, SequenceTheorems, TLAPS

-----------------------------------------------------------------------------
(* Lists                                                                   *)

Distinct(s) == \A i, j \in 1 .. Len(s) : s[i] = s[j] => i = j

LEMMA EmptyFacts ==
  /\ Distinct(<<>>)
  /\ \A x : ~ Contains(<<>>, x)
BY DEF Distinct, Contains

\* What Append does to the elements of a list.
LEMMA AppendFacts ==
  ASSUME NEW S, NEW s \in Seq(S), NEW e \in S
  PROVE  /\ Append(s, e) \in Seq(S)
         /\ \A x : Contains(Append(s, e), x) <=> Contains(s, x) \/ x = e
         /\ (Distinct(s) /\ ~ Contains(s, e)) => Distinct(Append(s, e))
<1>1. /\ Append(s, e) \in Seq(S)
      /\ Len(s) \in Nat
      /\ Len(Append(s, e)) = Len(s) + 1
      /\ \A i \in 1 .. Len(s) : Append(s, e)[i] = s[i]
      /\ Append(s, e)[Len(s) + 1] = e
  BY AppendProperties, LenProperties
<1>2. \A x : Contains(Append(s, e), x) <=> Contains(s, x) \/ x = e
  BY <1>1 DEF Contains
<1>3. ASSUME Distinct(s), ~ Contains(s, e) PROVE Distinct(Append(s, e))
  BY <1>1, <1>3 DEF Distinct, Contains
<1> QED
  BY <1>1, <1>2, <1>3

\* What Head and Tail do.
LEMMA TailFacts ==
  ASSUME NEW S, NEW s \in Seq(S), s # <<>>
  PROVE  /\ Head(s) \in S /\ Contains(s, Head(s))
         /\ Tail(s) \in Seq(S)
         /\ \A x : Contains(s, x) <=> x = Head(s) \/ Contains(Tail(s), x)
         /\ Distinct(s) => Distinct(Tail(s)) /\ ~ Contains(Tail(s), Head(s))
<1>1. /\ Head(s) \in S /\ Head(s) = s[1]
      /\ Tail(s) \in Seq(S)
      /\ Len(s) \in Nat \ {0}
      /\ Len(Tail(s)) = Len(s) - 1
      /\ \A i \in 1 .. Len(Tail(s)) : Tail(s)[i] = s[i + 1]
  BY HeadTailProperties, EmptySeq
<1>2. Contains(s, Head(s))
  BY <1>1 DEF Contains
<1>3. ASSUME NEW x, Contains(s, x) PROVE x = Head(s) \/ Contains(Tail(s), x)
  <2>1. PICK i \in 1 .. Len(s) : s[i] = x
    BY <1>3 DEF Contains
  <2>2. CASE i = 1
    BY <1>1, <2>1, <2>2
  <2>3. CASE i # 1
    <3>1. i - 1 \in 1 .. Len(Tail(s)) /\ Tail(s)[i - 1] = x
      BY <1>1, <2>1, <2>3
    <3> QED
      BY <3>1 DEF Contains
  <2> QED
    BY <2>2, <2>3
<1>4. ASSUME NEW x, Contains(Tail(s), x) PROVE Contains(s, x)
  <2>1. PICK i \in 1 .. Len(Tail(s)) : Tail(s)[i] = x
    BY <1>4 DEF Contains
  <2>2. i + 1 \in 1 .. Len(s) /\ s[i + 1] = x
    BY <1>1, <2>1
  <2> QED
    BY <2>2 DEF Contains
<1>5. ASSUME Distinct(s) PROVE Distinct(Tail(s)) /\ ~ Contains(Tail(s), Head(s))
  BY <1>1, <1>5 DEF Distinct, Contains
<1> QED
  BY <1>1, <1>2, <1>3, <1>4, <1>5

\* RemoveFirst takes exactly that element out of a list without repetitions.
LEMMA RemoveFacts ==
  ASSUME NEW S, NEW s \in Seq(S), NEW e, Distinct(s), Contains(s, e)
  PROVE  /\ RemoveFirst(s, e) \in Seq(S)
         /\ Distinct(RemoveFirst(s, e))
         /\ \A x : Contains(RemoveFirst(s, e), x) <=> Contains(s, x) /\ x # e
<1>1. PICK k \in 1 .. Len(s) : s[k] = e
  BY DEF Contains
<1>2. Len(s) \in Nat /\ \A i \in 1 .. Len(s) : s[i] \in S
  BY LenProperties, ElementOfSeq
<1>3. {i \in 1 .. Len(s) : s[i] = e} = {k}
  BY <1>1 DEF Distinct
<1>4. Min({k}) = k
  BY <1>1 DEF Min
<1> DEFINE a == SubSeq(s, 1, k - 1)
           b == SubSeq(s, k + 1, Len(s))
           r == RemoveFirst(s, e)
<1>5. r = a \o b
  BY <1>1, <1>3, <1>4 DEF RemoveFirst, RemoveAt, SelectInSeq
<1>6. /\ a \in Seq(S) /\ Len(a) = k - 1
      /\ \A i \in 1 .. k - 1 : a[i] = s[i]
  <2>1. \A i \in 1 .. k - 1 : s[i] \in S
    BY <1>2
  <2>2. 1 \in Int /\ k - 1 \in Int
    BY <1>2
  <2> QED
    BY <1>2, <2>1, <2>2, SubSeqProperties
<1>7. /\ b \in Seq(S) /\ Len(b) = Len(s) - k
      /\ \A i \in 1 .. Len(s) - k : b[i] = s[k + i]
  <2>1. \A i \in k + 1 .. Len(s) : s[i] \in S
    BY <1>2
  <2>2. k + 1 \in Int /\ Len(s) \in Int
    BY <1>2
  <2>3. /\ b \in Seq(S)
        /\ Len(b) = IF k + 1 <= Len(s) THEN Len(s) - (k + 1) + 1 ELSE 0
        /\ \A i \in 1 .. Len(s) - (k + 1) + 1 : b[i] = s[(k + 1) + i - 1]
    BY <2>1, <2>2, SubSeqProperties
  <2> QED
    BY <1>2, <2>3
<1>8. /\ r \in Seq(S) /\ Len(r) = Len(s) - 1
      /\ \A i \in 1 .. Len(s) - 1 : r[i] = IF i < k THEN s[i] ELSE s[i + 1]
  <2>1. /\ a \o b \in Seq(S)
        /\ Len(a \o b) = Len(a) + Len(b)
        /\ \A i \in 1 .. Len(a) + Len(b) :
             (a \o b)[i] = IF i <= Len(a) THEN a[i] ELSE b[i - Len(a)]
    BY <1>6, <1>7, ConcatProperties
  <2> HIDE DEF a, b, r
  <2>2. Len(r) = Len(s) - 1 /\ r \in Seq(S)
    BY <1>2, <1>5, <1>6, <1>7, <2>1
  <2>3. ASSUME NEW i \in 1 .. Len(s) - 1 PROVE r[i] = IF i < k THEN s[i] ELSE s[i + 1]
    <3>1. CASE i < k
      <4>1. i \in 1 .. k - 1 /\ i \in 1 .. Len(a) + Len(b) /\ i <= Len(a)
        BY <1>2, <1>6, <1>7, <3>1
      <4> QED
        BY <1>5, <1>6, <2>1, <3>1, <4>1
    <3>2. CASE ~ i < k
      <4>1. /\ i - Len(a) \in 1 .. Len(s) - k /\ i \in 1 .. Len(a) + Len(b)
            /\ ~ i <= Len(a) /\ k + (i - Len(a)) = i + 1
        BY <1>2, <1>6, <1>7, <3>2
      <4>2. r[i] = b[i - Len(a)]
        BY <1>5, <2>1, <4>1
      <4>3. b[i - Len(a)] = s[k + (i - Len(a))]
        BY <1>7, <4>1
      <4> QED
        BY <3>2, <4>1, <4>2, <4>3
    <3> QED
      BY <3>1, <3>2
  <2> QED
    BY <2>2, <2>3
<1> HIDE DEF r
<1>9. Distinct(r)
  BY <1>2, <1>8 DEF Distinct
<1>10. ASSUME NEW x, Contains(r, x) PROVE Contains(s, x) /\ x # e
  <2>1. PICK i \in 1 .. Len(r) : r[i] = x
    BY <1>10 DEF Contains
  <2>2. CASE i < k
    <3>1. i \in 1 .. Len(s) /\ s[i] = x /\ i # k
      BY <1>2, <1>8, <2>1, <2>2
    <3> QED
      BY <1>1, <3>1 DEF Contains, Distinct
  <2>3. CASE ~ i < k
    <3>1. i + 1 \in 1 .. Len(s) /\ s[i + 1] = x /\ i + 1 # k
      BY <1>2, <1>8, <2>1, <2>3
    <3> QED
      BY <1>1, <3>1 DEF Contains, Distinct
  <2> QED
    BY <2>2, <2>3
<1>11. ASSUME NEW x, Contains(s, x), x # e PROVE Contains(r, x)
  <2>1. PICK i \in 1 .. Len(s) : s[i] = x
    BY <1>11 DEF Contains
  <2>2. CASE i < k
    <3>1. i \in 1 .. Len(r) /\ r[i] = x
      BY <1>2, <1>8, <2>1, <2>2
    <3> QED
      BY <3>1 DEF Contains
  <2>3. CASE ~ i < k
    <3>1. i # k
      BY <1>1, <1>11, <2>1
    <3>2. i - 1 \in 1 .. Len(r) /\ r[i - 1] = x
      BY <1>2, <1>8, <2>1, <2>3, <3>1
    <3> QED
      BY <3>2 DEF Contains
  <2> QED
    BY <2>2, <2>3
<1> QED
  BY <1>8, <1>9, <1>10, <1>11 DEF r

-----------------------------------------------------------------------------
(* The invariant                                                           *)

\* go() has one winner
OneGoer == \A t, u \in Threads : pc[t] \in Going /\ pc[u] \in Going => t = u

\* what go() does comes after the signal
GoersGone == \A t \in Threads : pc[t] \in Going \cup {"then_run"} => gone

\* no waiter is let go before the signal
FreedLate == freed # {} => gone

InThen(t) == pc[t] \in {"then_lock", "then_check", "then_run"}

InRemove(t) == pc[t] \in {"remove_lock", "remove_check"}

\* then() and remove_then() have a job
ArgumentsAreJobs == \A t \in Threads : InThen(t) \/ InRemove(t) => job[t] \in Jobs

\* a job that is still to be run
Unrun(j) == fate[j] = "accepted" /\ runs[j] = 0

\* a job that is on its way into the queue is in no list, and with one thread only
ThenHasIt ==
  \A t \in Threads : InThen(t) =>
    /\ Unrun(job[t])
    /\ ~ Contains(job_queue, job[t])
    /\ \A u \in Threads : ~ Contains(jobs[u], job[t])
    /\ \A u \in Threads \ {t} : InThen(u) => job[u] # job[t]

\* a job in the queue, or in the hands of go(), has not run and is not withdrawn
QueuedUnrun == \A j \in Jobs : Contains(job_queue, j) => Unrun(j)
TakenUnrun ==
  \A t \in Threads : \A j \in Jobs : Contains(jobs[t], j) => pc[t] \in Going /\ Unrun(j)

\* no list has a job twice
NoRepetition == Distinct(job_queue) /\ \A t \in Threads : Distinct(jobs[t])

\* go() runs its jobs only when they have left the queue
QueueIsCleared ==
  \A t \in Threads :
    pc[t] \in {"read_threads", "clear_threads", "release", "run"} => job_queue = <<>>

RunsAreAccepted == \A j \in Jobs : fate[j] = "new" => runs[j] = 0

Flow == OneGoer /\ GoersGone /\ FreedLate /\ ArgumentsAreJobs

JobsInv ==
  ThenHasIt /\ QueuedUnrun /\ TakenUnrun /\ NoRepetition /\ QueueIsCleared /\ RunsAreAccepted

SignalIInv == SignalTypeOK /\ Flow /\ NoStrandedWaiter /\ JobsInv

LEMMA SignalInitInv == SignalInit => SignalIInv
<1> SUFFICES ASSUME SignalInit PROVE SignalIInv
  OBVIOUS
<1>1. SignalTypeOK
  BY EmptySeq DEF SignalInit, SignalTypeOK, Places
<1>2. Flow
  BY DEF SignalInit, Flow, OneGoer, GoersGone, FreedLate, ArgumentsAreJobs, InThen, InRemove, Going
<1>3. NoStrandedWaiter
  BY DEF SignalInit, NoStrandedWaiter
<1>4. JobsInv
  BY EmptyFacts
     DEF SignalInit, JobsInv, ThenHasIt, InThen, QueuedUnrun, TakenUnrun, NoRepetition, QueueIsCleared,
         RunsAreAccepted
<1> QED
  BY <1>1, <1>2, <1>3, <1>4 DEF SignalIInv

\* Types are kept by every step.
LEMMA SignalTypeStep == SignalIInv /\ [SignalNext]_signalVars => SignalTypeOK'
<1> SUFFICES ASSUME SignalIInv, [SignalNext]_signalVars PROVE SignalTypeOK'
  OBVIOUS
<1> USE DEF SignalIInv, SignalTypeOK, Places, Locking, Going, Waiting, Goto, shared, local,
            history, Flow, ArgumentsAreJobs, InThen, InRemove
<1>1. ASSUME NEW t \in Threads, WaitCall(t) PROVE SignalTypeOK'
  BY <1>1 DEF WaitCall
<1>2. ASSUME NEW t \in Threads, WaitLock(t) PROVE SignalTypeOK'
  BY <1>2 DEF WaitLock, Lock
<1>3. ASSUME NEW t \in Threads, WaitAlreadyGone(t) PROVE SignalTypeOK'
  BY <1>3 DEF WaitAlreadyGone, Unlock
<1>4. ASSUME NEW t \in Threads, WaitAppend(t) PROVE SignalTypeOK'
  BY <1>4, AppendFacts DEF WaitAppend, Unlock
<1>5. ASSUME NEW t \in Threads, WaitReturn(t) PROVE SignalTypeOK'
  BY <1>5 DEF WaitReturn
<1>6. ASSUME NEW t \in Threads, GoCall(t) PROVE SignalTypeOK'
  BY <1>6 DEF GoCall
<1>7. ASSUME NEW t \in Threads, GoLock(t) PROVE SignalTypeOK'
  BY <1>7 DEF GoLock, Lock
<1>8. ASSUME NEW t \in Threads, GoLost(t) PROVE SignalTypeOK'
  BY <1>8 DEF GoLost, Unlock
<1>9. ASSUME NEW t \in Threads, GoSet(t) PROVE SignalTypeOK'
  BY <1>9 DEF GoSet, Unlock
<1>10. ASSUME NEW t \in Threads, GoReadJobs(t) PROVE SignalTypeOK'
  BY <1>10 DEF GoReadJobs
<1>11. ASSUME NEW t \in Threads, GoClearJobs(t) PROVE SignalTypeOK'
  BY <1>11, EmptySeq DEF GoClearJobs
<1>12. ASSUME NEW t \in Threads, GoReadThreads(t) PROVE SignalTypeOK'
  BY <1>12 DEF GoReadThreads
<1>13. ASSUME NEW t \in Threads, GoClearThreads(t) PROVE SignalTypeOK'
  BY <1>13, EmptySeq DEF GoClearThreads
<1>14. ASSUME NEW t \in Threads, GoRelease(t) PROVE SignalTypeOK'
  <2>1. threads[t] \in Seq(Threads) /\ threads[t] # <<>>
    BY <1>14 DEF GoRelease
  <2>2. Head(threads[t]) \in Threads /\ Tail(threads[t]) \in Seq(Threads)
    BY <2>1, TailFacts
  <2> QED
    BY <1>14, <2>2 DEF GoRelease
<1>15. ASSUME NEW t \in Threads, GoReleased(t) PROVE SignalTypeOK'
  BY <1>15 DEF GoReleased
<1>16. ASSUME NEW t \in Threads, GoRun(t) PROVE SignalTypeOK'
  BY <1>16, TailFacts DEF GoRun, Run
<1>17. ASSUME NEW t \in Threads, GoRunRaises(t) PROVE SignalTypeOK'
  BY <1>17, TailFacts, EmptySeq DEF GoRunRaises, Run
<1>18. ASSUME NEW t \in Threads, GoReturn(t) PROVE SignalTypeOK'
  BY <1>18 DEF GoReturn
<1>19. ASSUME NEW t \in Threads, NEW j \in Jobs, ThenCall(t, j) PROVE SignalTypeOK'
  BY <1>19 DEF ThenCall
<1>20. ASSUME NEW t \in Threads, ThenLock(t) PROVE SignalTypeOK'
  BY <1>20 DEF ThenLock, Lock
<1>21. ASSUME NEW t \in Threads, ThenAppend(t) PROVE SignalTypeOK'
  BY <1>21, AppendFacts DEF ThenAppend, Unlock, Forget
<1>22. ASSUME NEW t \in Threads, ThenTooLate(t) PROVE SignalTypeOK'
  BY <1>22 DEF ThenTooLate, Unlock
<1>23. ASSUME NEW t \in Threads, ThenRun(t) PROVE SignalTypeOK'
  BY <1>23 DEF ThenRun, Run, Forget
<1>24. ASSUME NEW t \in Threads, NEW j \in Jobs, RemoveCall(t, j) PROVE SignalTypeOK'
  BY <1>24 DEF RemoveCall
<1>25. ASSUME NEW t \in Threads, RemoveLock(t) PROVE SignalTypeOK'
  BY <1>25 DEF RemoveLock, Lock
<1>26. ASSUME NEW t \in Threads, RemoveJob(t) PROVE SignalTypeOK'
  BY <1>26, RemoveFacts DEF RemoveJob, Unlock, Forget, JobsInv, NoRepetition
<1>27. ASSUME NEW t \in Threads, RemoveNothing(t) PROVE SignalTypeOK'
  BY <1>27 DEF RemoveNothing, Unlock, Forget
<1>28. CASE UNCHANGED signalVars
  BY <1>28 DEF signalVars, shared, local, history
<1> QED
  BY <1>1, <1>2, <1>3, <1>4, <1>5, <1>6, <1>7, <1>8, <1>9, <1>10, <1>11, <1>12, <1>13,
     <1>14, <1>15, <1>16, <1>17, <1>18, <1>19, <1>20, <1>21, <1>22, <1>23, <1>24, <1>25,
     <1>26, <1>27, <1>28
     DEF SignalNext, Call, SignalStep

\* One thread does the work of go(), after the signal.
LEMMA FlowStep == SignalIInv /\ [SignalNext]_signalVars => Flow'
<1> SUFFICES ASSUME SignalIInv, [SignalNext]_signalVars PROVE Flow'
  OBVIOUS
<1> USE DEF SignalIInv, SignalTypeOK, Places, Locking, Going, Waiting, Goto, shared, local,
            history, Flow, OneGoer, GoersGone, FreedLate, ArgumentsAreJobs, InThen, InRemove
<1>1. ASSUME NEW t \in Threads, WaitCall(t) PROVE Flow'
  BY <1>1 DEF WaitCall
<1>2. ASSUME NEW t \in Threads, WaitLock(t) PROVE Flow'
  BY <1>2 DEF WaitLock, Lock
<1>3. ASSUME NEW t \in Threads, WaitAlreadyGone(t) PROVE Flow'
  BY <1>3 DEF WaitAlreadyGone, Unlock
<1>4. ASSUME NEW t \in Threads, WaitAppend(t) PROVE Flow'
  BY <1>4 DEF WaitAppend, Unlock
<1>5. ASSUME NEW t \in Threads, WaitReturn(t) PROVE Flow'
  BY <1>5 DEF WaitReturn
<1>6. ASSUME NEW t \in Threads, GoCall(t) PROVE Flow'
  BY <1>6 DEF GoCall
<1>7. ASSUME NEW t \in Threads, GoLock(t) PROVE Flow'
  BY <1>7 DEF GoLock, Lock
<1>8. ASSUME NEW t \in Threads, GoLost(t) PROVE Flow'
  BY <1>8 DEF GoLost, Unlock
<1>9. ASSUME NEW t \in Threads, GoSet(t) PROVE Flow'
  BY <1>9 DEF GoSet, Unlock
<1>10. ASSUME NEW t \in Threads, GoReadJobs(t) PROVE Flow'
  BY <1>10 DEF GoReadJobs
<1>11. ASSUME NEW t \in Threads, GoClearJobs(t) PROVE Flow'
  BY <1>11 DEF GoClearJobs
<1>12. ASSUME NEW t \in Threads, GoReadThreads(t) PROVE Flow'
  BY <1>12 DEF GoReadThreads
<1>13. ASSUME NEW t \in Threads, GoClearThreads(t) PROVE Flow'
  BY <1>13 DEF GoClearThreads
<1>14. ASSUME NEW t \in Threads, GoRelease(t) PROVE Flow'
  BY <1>14 DEF GoRelease
<1>15. ASSUME NEW t \in Threads, GoReleased(t) PROVE Flow'
  BY <1>15 DEF GoReleased
<1>16. ASSUME NEW t \in Threads, GoRun(t) PROVE Flow'
  BY <1>16 DEF GoRun, Run
<1>17. ASSUME NEW t \in Threads, GoRunRaises(t) PROVE Flow'
  BY <1>17 DEF GoRunRaises, Run
<1>18. ASSUME NEW t \in Threads, GoReturn(t) PROVE Flow'
  BY <1>18 DEF GoReturn
<1>19. ASSUME NEW t \in Threads, NEW j \in Jobs, ThenCall(t, j) PROVE Flow'
  BY <1>19 DEF ThenCall
<1>20. ASSUME NEW t \in Threads, ThenLock(t) PROVE Flow'
  BY <1>20 DEF ThenLock, Lock
<1>21. ASSUME NEW t \in Threads, ThenAppend(t) PROVE Flow'
  BY <1>21 DEF ThenAppend, Unlock, Forget
<1>22. ASSUME NEW t \in Threads, ThenTooLate(t) PROVE Flow'
  BY <1>22 DEF ThenTooLate, Unlock
<1>23. ASSUME NEW t \in Threads, ThenRun(t) PROVE Flow'
  BY <1>23 DEF ThenRun, Run, Forget
<1>24. ASSUME NEW t \in Threads, NEW j \in Jobs, RemoveCall(t, j) PROVE Flow'
  BY <1>24 DEF RemoveCall
<1>25. ASSUME NEW t \in Threads, RemoveLock(t) PROVE Flow'
  BY <1>25 DEF RemoveLock, Lock
<1>26. ASSUME NEW t \in Threads, RemoveJob(t) PROVE Flow'
  BY <1>26 DEF RemoveJob, Unlock, Forget
<1>27. ASSUME NEW t \in Threads, RemoveNothing(t) PROVE Flow'
  BY <1>27 DEF RemoveNothing, Unlock, Forget
<1>28. CASE UNCHANGED signalVars
  BY <1>28 DEF signalVars, shared, local, history
<1> QED
  BY <1>1, <1>2, <1>3, <1>4, <1>5, <1>6, <1>7, <1>8, <1>9, <1>10, <1>11, <1>12, <1>13,
     <1>14, <1>15, <1>16, <1>17, <1>18, <1>19, <1>20, <1>21, <1>22, <1>23, <1>24, <1>25,
     <1>26, <1>27, <1>28
     DEF SignalNext, Call, SignalStep

\* No step forgets a thread that is blocked.
LEMMA StrandedStep == SignalIInv /\ [SignalNext]_signalVars => NoStrandedWaiter'
<1> SUFFICES ASSUME SignalIInv, [SignalNext]_signalVars PROVE NoStrandedWaiter'
  OBVIOUS
<1> USE DEF SignalIInv, SignalTypeOK, Flow, OneGoer, GoersGone, NoStrandedWaiter, Places,
            Locking, Going, Waiting, Goto, shared, local, history
<1>1. ASSUME NEW t \in Threads, WaitCall(t) PROVE NoStrandedWaiter'
  BY <1>1 DEF WaitCall
<1>2. ASSUME NEW t \in Threads, WaitLock(t) PROVE NoStrandedWaiter'
  BY <1>2 DEF WaitLock, Lock
<1>3. ASSUME NEW t \in Threads, WaitAlreadyGone(t) PROVE NoStrandedWaiter'
  BY <1>3 DEF WaitAlreadyGone, Unlock
<1>4. ASSUME NEW t \in Threads, WaitAppend(t) PROVE NoStrandedWaiter'
  BY <1>4, AppendFacts DEF WaitAppend, Unlock
<1>5. ASSUME NEW t \in Threads, WaitReturn(t) PROVE NoStrandedWaiter'
  BY <1>5 DEF WaitReturn
<1>6. ASSUME NEW t \in Threads, GoCall(t) PROVE NoStrandedWaiter'
  BY <1>6 DEF GoCall
<1>7. ASSUME NEW t \in Threads, GoLock(t) PROVE NoStrandedWaiter'
  BY <1>7 DEF GoLock, Lock
<1>8. ASSUME NEW t \in Threads, GoLost(t) PROVE NoStrandedWaiter'
  BY <1>8 DEF GoLost, Unlock
<1>9. ASSUME NEW t \in Threads, GoSet(t) PROVE NoStrandedWaiter'
  BY <1>9 DEF GoSet, Unlock
<1>10. ASSUME NEW t \in Threads, GoReadJobs(t) PROVE NoStrandedWaiter'
  BY <1>10 DEF GoReadJobs
<1>11. ASSUME NEW t \in Threads, GoClearJobs(t) PROVE NoStrandedWaiter'
  BY <1>11 DEF GoClearJobs
<1>12. ASSUME NEW t \in Threads, GoReadThreads(t) PROVE NoStrandedWaiter'
  BY <1>12 DEF GoReadThreads
<1>13. ASSUME NEW t \in Threads, GoClearThreads(t) PROVE NoStrandedWaiter'
  BY <1>13 DEF GoClearThreads
<1>14. ASSUME NEW t \in Threads, GoRelease(t) PROVE NoStrandedWaiter'
  BY <1>14, TailFacts DEF GoRelease
<1>15. ASSUME NEW t \in Threads, GoReleased(t) PROVE NoStrandedWaiter'
  <2>1. pc[t] = "release" /\ \A x : ~ Contains(threads[t], x)
    BY <1>15, EmptyFacts DEF GoReleased
  <2> QED
    BY <1>15, <2>1 DEF GoReleased
<1>16. ASSUME NEW t \in Threads, GoRun(t) PROVE NoStrandedWaiter'
  BY <1>16 DEF GoRun, Run
<1>17. ASSUME NEW t \in Threads, GoRunRaises(t) PROVE NoStrandedWaiter'
  BY <1>17 DEF GoRunRaises, Run
<1>18. ASSUME NEW t \in Threads, GoReturn(t) PROVE NoStrandedWaiter'
  BY <1>18 DEF GoReturn
<1>19. ASSUME NEW t \in Threads, NEW j \in Jobs, ThenCall(t, j) PROVE NoStrandedWaiter'
  BY <1>19 DEF ThenCall
<1>20. ASSUME NEW t \in Threads, ThenLock(t) PROVE NoStrandedWaiter'
  BY <1>20 DEF ThenLock, Lock
<1>21. ASSUME NEW t \in Threads, ThenAppend(t) PROVE NoStrandedWaiter'
  BY <1>21 DEF ThenAppend, Unlock, Forget
<1>22. ASSUME NEW t \in Threads, ThenTooLate(t) PROVE NoStrandedWaiter'
  BY <1>22 DEF ThenTooLate, Unlock
<1>23. ASSUME NEW t \in Threads, ThenRun(t) PROVE NoStrandedWaiter'
  BY <1>23 DEF ThenRun, Run, Forget
<1>24. ASSUME NEW t \in Threads, NEW j \in Jobs, RemoveCall(t, j) PROVE NoStrandedWaiter'
  BY <1>24 DEF RemoveCall
<1>25. ASSUME NEW t \in Threads, RemoveLock(t) PROVE NoStrandedWaiter'
  BY <1>25 DEF RemoveLock, Lock
<1>26. ASSUME NEW t \in Threads, RemoveJob(t) PROVE NoStrandedWaiter'
  BY <1>26 DEF RemoveJob, Unlock, Forget
<1>27. ASSUME NEW t \in Threads, RemoveNothing(t) PROVE NoStrandedWaiter'
  BY <1>27 DEF RemoveNothing, Unlock, Forget
<1>28. CASE UNCHANGED signalVars
  BY <1>28 DEF signalVars, shared, local, history
<1> QED
  BY <1>1, <1>2, <1>3, <1>4, <1>5, <1>6, <1>7, <1>8, <1>9, <1>10, <1>11, <1>12, <1>13,
     <1>14, <1>15, <1>16, <1>17, <1>18, <1>19, <1>20, <1>21, <1>22, <1>23, <1>24, <1>25,
     <1>26, <1>27, <1>28
     DEF SignalNext, Call, SignalStep

\* No step loses a job, or runs one twice.
LEMMA JobsStep == SignalIInv /\ [SignalNext]_signalVars => JobsInv'
<1> SUFFICES ASSUME SignalIInv, [SignalNext]_signalVars PROVE JobsInv'
  OBVIOUS
<1> USE DEF SignalIInv, SignalTypeOK, Flow, OneGoer, GoersGone, ArgumentsAreJobs, JobsInv,
            ThenHasIt, QueuedUnrun, TakenUnrun, NoRepetition, QueueIsCleared, RunsAreAccepted,
            Unrun, InThen, InRemove, Places, Locking, Going, Goto, shared, local, history
<1>1. ASSUME NEW t \in Threads, WaitCall(t) PROVE JobsInv'
  BY <1>1 DEF WaitCall
<1>2. ASSUME NEW t \in Threads, WaitLock(t) PROVE JobsInv'
  BY <1>2 DEF WaitLock, Lock
<1>3. ASSUME NEW t \in Threads, WaitAlreadyGone(t) PROVE JobsInv'
  BY <1>3 DEF WaitAlreadyGone, Unlock
<1>4. ASSUME NEW t \in Threads, WaitAppend(t) PROVE JobsInv'
  BY <1>4 DEF WaitAppend, Unlock
<1>5. ASSUME NEW t \in Threads, WaitReturn(t) PROVE JobsInv'
  BY <1>5 DEF WaitReturn
<1>6. ASSUME NEW t \in Threads, GoCall(t) PROVE JobsInv'
  BY <1>6 DEF GoCall
<1>7. ASSUME NEW t \in Threads, GoLock(t) PROVE JobsInv'
  BY <1>7 DEF GoLock, Lock
<1>8. ASSUME NEW t \in Threads, GoLost(t) PROVE JobsInv'
  BY <1>8 DEF GoLost, Unlock
<1>9. ASSUME NEW t \in Threads, GoSet(t) PROVE JobsInv'
  BY <1>9 DEF GoSet, Unlock
<1>10. ASSUME NEW t \in Threads, GoReadJobs(t) PROVE JobsInv'
  <2>1. /\ pc[t] = "read_jobs" /\ pc'[t] = "clear_jobs" /\ jobs'[t] = job_queue
        /\ \A u \in Threads \ {t} : pc'[u] = pc[u] /\ jobs'[u] = jobs[u]
        /\ UNCHANGED <<job_queue, job, fate, runs>>
    BY <1>10 DEF GoReadJobs
  <2>2. \A u \in Threads \ {t} : \A j \in Jobs : ~ Contains(jobs[u], j)
    BY <2>1
  <2>3. \A u \in Threads : InThen(u)' => InThen(u) /\ u # t
    BY <2>1
  <2>4. ASSUME NEW v \in Threads, InThen(v)'
       PROVE  /\ Unrun(job[v])'
              /\ ~ Contains(job_queue, job[v])'
              /\ \A u \in Threads : ~ Contains(jobs[u], job[v])'
              /\ \A u \in Threads \ {v} : InThen(u)' => job'[u] # job'[v]
    <3>1. InThen(v) /\ v # t /\ job'[v] = job[v] /\ job[v] \in Jobs
      BY <2>1, <2>3, <2>4
    <3>2. /\ Unrun(job[v]) /\ ~ Contains(job_queue, job[v])
          /\ \A u \in Threads : ~ Contains(jobs[u], job[v])
          /\ \A u \in Threads \ {v} : InThen(u) => job[u] # job[v]
      BY <3>1
    <3>3. \A u \in Threads : ~ Contains(jobs'[u], job[v])
      BY <2>1, <3>2
    <3> QED
      BY <2>1, <2>3, <3>1, <3>2, <3>3
  <2>5. QueuedUnrun' /\ RunsAreAccepted' /\ QueueIsCleared'
    BY <2>1
  <2>6. TakenUnrun'
    BY <2>1, <2>2
  <2>7. NoRepetition'
    BY <2>1
  <2> QED
    BY <2>4, <2>5, <2>6, <2>7
<1>11. ASSUME NEW t \in Threads, GoClearJobs(t) PROVE JobsInv'
  BY <1>11, EmptyFacts DEF GoClearJobs
<1>12. ASSUME NEW t \in Threads, GoReadThreads(t) PROVE JobsInv'
  BY <1>12 DEF GoReadThreads
<1>13. ASSUME NEW t \in Threads, GoClearThreads(t) PROVE JobsInv'
  BY <1>13 DEF GoClearThreads
<1>14. ASSUME NEW t \in Threads, GoRelease(t) PROVE JobsInv'
  <2>1. UNCHANGED <<job_queue, pc, job, jobs, fate, runs>>
    BY <1>14 DEF GoRelease
  <2> QED
    BY <2>1
<1>15. ASSUME NEW t \in Threads, GoReleased(t) PROVE JobsInv'
  BY <1>15 DEF GoReleased
<1>16. ASSUME NEW t \in Threads, GoRun(t) PROVE JobsInv'
  <2> DEFINE h == Head(jobs[t])
  <2>1. /\ pc[t] = "run" /\ jobs[t] # <<>> /\ jobs'[t] = Tail(jobs[t])
        /\ \A u \in Threads \ {t} : jobs'[u] = jobs[u]
        /\ runs' = [runs EXCEPT ![h] = runs[h] + 1]
        /\ UNCHANGED <<job_queue, pc, job, fate>>
    BY <1>16 DEF GoRun, Run
  <2>2. /\ h \in Jobs /\ Contains(jobs[t], h) /\ ~ Contains(jobs'[t], h)
        /\ Distinct(jobs'[t])
        /\ \A x : Contains(jobs'[t], x) => Contains(jobs[t], x)
    BY <2>1, TailFacts
  <2> HIDE DEF h
  <2>3. \A u \in Threads \ {t} : \A j \in Jobs : ~ Contains(jobs[u], j)
    BY <2>1
  <2>4. \A x : ~ Contains(job_queue, x)
    BY <2>1, EmptyFacts
  <2>5. \A j \in Jobs \ {h} : runs'[j] = runs[j]
    BY <2>1
  <2>6. \A u \in Threads : InThen(u) => job[u] # h /\ job[u] \in Jobs
    BY <2>2
  <2>7. ASSUME NEW v \in Threads, InThen(v)'
       PROVE  /\ Unrun(job[v])'
              /\ ~ Contains(job_queue, job[v])'
              /\ \A u \in Threads : ~ Contains(jobs[u], job[v])'
              /\ \A u \in Threads \ {v} : InThen(u)' => job'[u] # job'[v]
    <3>1. InThen(v) /\ job'[v] = job[v] /\ job[v] \in Jobs \ {h}
      BY <2>1, <2>6, <2>7
    <3>2. /\ Unrun(job[v]) /\ ~ Contains(job_queue, job[v])
          /\ \A u \in Threads : ~ Contains(jobs[u], job[v])
          /\ \A u \in Threads \ {v} : InThen(u) => job[u] # job[v]
      BY <3>1
    <3>3. \A u \in Threads : ~ Contains(jobs'[u], job[v])
      BY <2>1, <2>2, <3>2
    <3> QED
      BY <2>1, <2>5, <3>1, <3>2, <3>3
  <2>8. QueuedUnrun' /\ QueueIsCleared'
    BY <2>1, <2>4
  <2>9. ASSUME NEW v \in Threads, NEW j \in Jobs, Contains(jobs'[v], j)
       PROVE  pc'[v] \in Going /\ Unrun(j)'
    <3>1. v = t /\ j # h /\ Contains(jobs[t], j)
      BY <2>1, <2>2, <2>3, <2>9
    <3>2. Unrun(j)
      BY <3>1
    <3> QED
      BY <2>1, <2>5, <3>1, <3>2
  <2>10. NoRepetition'
    BY <2>1, <2>2
  <2>11. RunsAreAccepted'
    BY <2>1, <2>2, <2>5
  <2> QED
    BY <2>7, <2>8, <2>9, <2>10, <2>11
<1>17. ASSUME NEW t \in Threads, GoRunRaises(t) PROVE JobsInv'
  <2> DEFINE h == Head(jobs[t])
  <2>1. /\ pc[t] = "run" /\ jobs[t] # <<>> /\ pc'[t] = "idle" /\ jobs'[t] = <<>>
        /\ \A u \in Threads \ {t} : pc'[u] = pc[u] /\ jobs'[u] = jobs[u]
        /\ runs' = [runs EXCEPT ![h] = runs[h] + 1]
        /\ UNCHANGED <<job_queue, job, fate>>
    BY <1>17 DEF GoRunRaises, Run
  <2>2. h \in Jobs /\ Contains(jobs[t], h)
    BY <2>1, TailFacts
  <2> HIDE DEF h
  <2>3. \A u \in Threads : Distinct(jobs'[u]) /\ \A x : Contains(jobs'[u], x) =>
          u # t /\ Contains(jobs[u], x) /\ pc'[u] = pc[u]
    BY <2>1, EmptyFacts
  <2>4. \A u \in Threads \ {t} : \A j \in Jobs : ~ Contains(jobs[u], j)
    BY <2>1
  <2>5. \A j \in Jobs \ {h} : runs'[j] = runs[j]
    BY <2>1
  <2>6. \A x : ~ Contains(job_queue, x)
    BY <2>1, EmptyFacts
  <2>7. ASSUME NEW v \in Threads, InThen(v)'
       PROVE  /\ Unrun(job[v])'
              /\ ~ Contains(job_queue, job[v])'
              /\ \A u \in Threads : ~ Contains(jobs[u], job[v])'
              /\ \A u \in Threads \ {v} : InThen(u)' => job'[u] # job'[v]
    <3>1. InThen(v) /\ job'[v] = job[v] /\ job[v] \in Jobs \ {h}
      BY <2>1, <2>2, <2>7
    <3>2. /\ Unrun(job[v]) /\ ~ Contains(job_queue, job[v])
          /\ \A u \in Threads : ~ Contains(jobs[u], job[v])
          /\ \A u \in Threads \ {v} : InThen(u) => job[u] # job[v]
      BY <3>1
    <3>3. \A u \in Threads : InThen(u)' => InThen(u)
      BY <2>1
    <3> QED
      BY <2>1, <2>3, <2>5, <3>1, <3>2, <3>3
  <2>8. QueuedUnrun' /\ QueueIsCleared'
    BY <2>1, <2>6
  <2>9. TakenUnrun'
    BY <2>3, <2>4
  <2>10. NoRepetition'
    BY <2>1, <2>3
  <2>11. RunsAreAccepted'
    BY <2>1, <2>2, <2>5
  <2> QED
    BY <2>7, <2>8, <2>9, <2>10, <2>11
<1>18. ASSUME NEW t \in Threads, GoReturn(t) PROVE JobsInv'
  BY <1>18, EmptyFacts DEF GoReturn
<1>19. ASSUME NEW t \in Threads, NEW j \in Jobs, ThenCall(t, j) PROVE JobsInv'
  BY <1>19 DEF ThenCall
<1>20. ASSUME NEW t \in Threads, ThenLock(t) PROVE JobsInv'
  BY <1>20 DEF ThenLock, Lock
<1>21. ASSUME NEW t \in Threads, ThenAppend(t) PROVE JobsInv'
  BY <1>21, AppendFacts DEF ThenAppend, Unlock, Forget
<1>22. ASSUME NEW t \in Threads, ThenTooLate(t) PROVE JobsInv'
  BY <1>22 DEF ThenTooLate, Unlock
<1>23. ASSUME NEW t \in Threads, ThenRun(t) PROVE JobsInv'
  BY <1>23 DEF ThenRun, Run, Forget
<1>24. ASSUME NEW t \in Threads, NEW j \in Jobs, RemoveCall(t, j) PROVE JobsInv'
  BY <1>24 DEF RemoveCall
<1>25. ASSUME NEW t \in Threads, RemoveLock(t) PROVE JobsInv'
  BY <1>25 DEF RemoveLock, Lock
<1>26. ASSUME NEW t \in Threads, RemoveJob(t) PROVE JobsInv'
  BY <1>26, RemoveFacts DEF RemoveJob, Unlock, Forget
<1>27. ASSUME NEW t \in Threads, RemoveNothing(t) PROVE JobsInv'
  BY <1>27 DEF RemoveNothing, Unlock, Forget
<1>28. CASE UNCHANGED signalVars
  BY <1>28 DEF signalVars, shared, local, history
<1> QED
  BY <1>1, <1>2, <1>3, <1>4, <1>5, <1>6, <1>7, <1>8, <1>9, <1>10, <1>11, <1>12, <1>13,
     <1>14, <1>15, <1>16, <1>17, <1>18, <1>19, <1>20, <1>21, <1>22, <1>23, <1>24, <1>25,
     <1>26, <1>27, <1>28
     DEF SignalNext, Call, SignalStep

-----------------------------------------------------------------------------
LEMMA SignalInvStep == SignalIInv /\ [SignalNext]_signalVars => SignalIInv'
BY SignalTypeStep, FlowStep, StrandedStep, JobsStep DEF SignalIInv

LEMMA SignalInvAlways == SignalSpec => []SignalIInv
BY SignalInitInv, SignalInvStep, PTL DEF SignalSpec

\* Every variable of the signal keeps its type: what go() takes and remove_then() leaves
\* are lists of threads and of jobs (signals.py:43-165).
THEOREM SignalTypeCorrect == SignalSpec => []SignalTypeOK
<1>1. SignalIInv => SignalTypeOK
  BY DEF SignalIInv
<1> QED
  BY <1>1, SignalInvAlways, PTL

\* A blocked thread is in waiting_threads or in the hands of the thread in go(), whatever
\* wait() and go() do meanwhile, although go() empties the list without the lock
\* (signals.py:80-91, 104-116).
THEOREM SignalStrandsNobody == SignalSpec => []NoStrandedWaiter
<1>1. SignalIInv => NoStrandedWaiter
  BY DEF SignalIInv
<1> QED
  BY <1>1, SignalInvAlways, PTL

\* The safety of the signal: its lists hold what they should, and whoever is blocked is
\* in one of them or about to be freed (signals.py:80-116).
THEOREM SignalSafe == SignalSpec => []SignalInv
<1>1. SignalTypeOK /\ NoStrandedWaiter <=> SignalInv
  BY DEF SignalInv
<1> QED
  BY <1>1, SignalTypeCorrect, SignalStrandsNobody, PTL

-----------------------------------------------------------------------------
(* The signal implements the event                                         *)

InWait == {t \in Threads : pc[t] \in Waiting}

LEMMA EventStep ==
  ASSUME SignalIInv, NEW t \in Threads, Call(t) \/ SignalStep(t)
  PROVE  EventOfSignal!Next \/ UNCHANGED EventOfSignal!eventVars
<1> USE DEF SignalIInv, SignalTypeOK, Places, Locking, Going, Waiting, Goto, shared, local,
            history
<1>a. UNCHANGED <<gone, InWait, fate, runs>> => UNCHANGED EventOfSignal!eventVars
  BY DEF EventOfSignal!eventVars, InWait
<1>1. CASE WaitCall(t)
  <2>1. InWait' = InWait \cup {t} /\ ~ gone /\ UNCHANGED <<gone, fate, runs>>
    BY <1>1 DEF WaitCall, InWait
  <2>2. EventOfSignal!Park(t)
    BY <2>1 DEF EventOfSignal!Park, InWait
  <2> QED
    BY <2>2 DEF EventOfSignal!Next
<1>2. CASE WaitAlreadyGone(t) \/ WaitReturn(t)
  <2>1. gone
    BY <1>2 DEF WaitAlreadyGone, WaitReturn, Flow, FreedLate
  <2>2. InWait' = InWait \ {t} /\ UNCHANGED <<gone, fate, runs>>
    BY <1>2 DEF WaitAlreadyGone, WaitReturn, Unlock, InWait
  <2>3. EventOfSignal!Unpark(t)
    BY <2>1, <2>2 DEF EventOfSignal!Unpark, InWait
  <2> QED
    BY <2>3 DEF EventOfSignal!Next
<1>3. CASE GoSet(t)
  <2>1. InWait' = InWait /\ gone' = TRUE /\ UNCHANGED <<fate, runs>>
    BY <1>3 DEF GoSet, Unlock, InWait
  <2>2. EventOfSignal!Happen
    BY <2>1 DEF EventOfSignal!Happen, InWait
  <2> QED
    BY <2>2 DEF EventOfSignal!Next
<1>4. ASSUME NEW j \in Jobs, ThenCall(t, j)
      PROVE  EventOfSignal!Next
  <2>1. InWait' = InWait
    BY <1>4 DEF ThenCall, InWait
  <2>2. EventOfSignal!Accept(j)
    BY <1>4, <2>1 DEF ThenCall, EventOfSignal!Accept, InWait
  <2> QED
    BY <2>2 DEF EventOfSignal!Next
<1>5. CASE RemoveJob(t)
  <2>1. job[t] \in Jobs
    BY <1>5 DEF RemoveJob, Flow, ArgumentsAreJobs, InRemove
  <2>2. fate[job[t]] = "accepted" /\ ~ gone
    BY <1>5, <2>1 DEF RemoveJob, JobsInv, QueuedUnrun, Unrun
  <2>3. InWait' = InWait /\ UNCHANGED <<gone, runs>>
    BY <1>5 DEF RemoveJob, Unlock, InWait
  <2>4. fate' = [fate EXCEPT ![job[t]] = "withdrawn"]
    BY <1>5 DEF RemoveJob
  <2>5. EventOfSignal!Withdraw(job[t])
    BY <2>2, <2>3, <2>4 DEF EventOfSignal!Withdraw, InWait
  <2> QED
    BY <2>1, <2>5 DEF EventOfSignal!Next
<1>6. ASSUME NEW j \in Jobs, Unrun(j), gone, Run(j), InWait' = InWait, UNCHANGED <<gone, fate>>
      PROVE  EventOfSignal!Next
  <2>1. runs' = [runs EXCEPT ![j] = 1]
    BY <1>6 DEF Run, Unrun
  <2>2. EventOfSignal!Run(j)
    BY <1>6, <2>1 DEF EventOfSignal!Run, Unrun, InWait
  <2> QED
    BY <2>2 DEF EventOfSignal!Next
<1>7. CASE GoRun(t) \/ GoRunRaises(t)
  <2> DEFINE h == Head(jobs[t])
  <2>1. h \in Jobs /\ Contains(jobs[t], h) /\ pc[t] = "run"
    BY <1>7, TailFacts DEF GoRun, GoRunRaises
  <2>2. Unrun(h) /\ gone
    BY <2>1 DEF JobsInv, TakenUnrun, Flow, GoersGone
  <2>3. InWait' = InWait /\ Run(h) /\ UNCHANGED <<gone, fate>>
    BY <1>7 DEF GoRun, GoRunRaises, InWait
  <2> QED
    BY <1>6, <2>1, <2>2, <2>3
<1>8. CASE ThenRun(t)
  <2>1. job[t] \in Jobs /\ pc[t] = "then_run" /\ Unrun(job[t]) /\ gone
    BY <1>8 DEF ThenRun, Flow, ArgumentsAreJobs, GoersGone, JobsInv, ThenHasIt, InThen
  <2>2. InWait' = InWait /\ Run(job[t]) /\ UNCHANGED <<gone, fate>>
    BY <1>8 DEF ThenRun, InWait
  <2> QED
    BY <1>6, <2>1, <2>2
<1>9. CASE WaitLock(t) \/ GoLock(t) \/ ThenLock(t) \/ RemoveLock(t)
  BY <1>a, <1>9 DEF WaitLock, GoLock, ThenLock, RemoveLock, Lock, InWait
<1>10. CASE WaitAppend(t)
  BY <1>a, <1>10 DEF WaitAppend, Unlock, InWait
<1>11. CASE GoLost(t) \/ ThenAppend(t) \/ ThenTooLate(t) \/ RemoveNothing(t)
  BY <1>a, <1>11 DEF GoLost, ThenAppend, ThenTooLate, RemoveNothing, Unlock, InWait
<1>12. CASE GoCall(t) \/ \E j \in Jobs : RemoveCall(t, j)
  BY <1>a, <1>12 DEF GoCall, RemoveCall, InWait
<1>13. CASE \/ GoReadJobs(t) \/ GoClearJobs(t) \/ GoReadThreads(t) \/ GoClearThreads(t)
            \/ GoRelease(t) \/ GoReleased(t) \/ GoReturn(t)
  BY <1>a, <1>13
     DEF GoReadJobs, GoClearJobs, GoReadThreads, GoClearThreads, GoRelease, GoReleased, GoReturn,
         InWait
<1> QED
  BY <1>1, <1>2, <1>3, <1>4, <1>5, <1>7, <1>8, <1>9, <1>10, <1>11, <1>12, <1>13 DEF Call, SignalStep

\* The signal, with its lock and its lists, implements the event: nobody comes back from
\* wait() before it, and no job runs before it, twice, or after remove_then() took it out
\* (signals.py:43-165).
THEOREM SignalImplementsEvent == SignalSpec => ImplementsEvent
<1>1. SignalInit => EventOfSignal!Init
  BY DEF SignalInit, EventOfSignal!Init, Waiting
<1>2. SignalIInv /\ [SignalNext]_signalVars => EventOfSignal!Next \/ UNCHANGED EventOfSignal!eventVars
  <2>1. SignalIInv /\ SignalNext => EventOfSignal!Next \/ UNCHANGED EventOfSignal!eventVars
    BY EventStep DEF SignalNext
  <2>2. UNCHANGED signalVars => UNCHANGED EventOfSignal!eventVars
    BY DEF signalVars, shared, local, history, EventOfSignal!eventVars
  <2> QED
    BY <2>1, <2>2
<1> QED
  BY <1>1, <1>2, SignalInvAlways, PTL DEF SignalSpec, ImplementsEvent, EventOfSignal!Spec

-----------------------------------------------------------------------------
(* `a & b`                                                                 *)

\* the dependencies whose done() has not counted down yet
Uncounted == {d \in Deps : done[d] \in {"new", "queued", "count"}}

\* the counter is the number of those
CounterIsRight == remaining = Cardinality(Uncounted)

\* done() runs for dependencies that are gone
DoneAfterGo == \A d \in Deps : done[d] \in {"count", "test", "over"} => d \in goneDeps

\* a local copy of the counter may be old, and then it is too high, never too low
CopyIsOld == \A d \in Deps : done[d] = "test" => remaining <= counted[d]

\* the output is gone only if everything is counted
FiredIsEmpty == fired => remaining = 0

AndIInv ==
  /\ TypeOK
  /\ CounterIsRight
  /\ DoneAfterGo
  /\ CopyIsOld
  /\ FiredIsEmpty

LEMMA UncountedIsFinite ==
  /\ IsFiniteSet(Uncounted)
  /\ Cardinality(Uncounted) \in Nat
  /\ Cardinality(Uncounted) = 0 => Uncounted = {}
<1>1. IsFiniteSet(Uncounted)
  BY DepsAssumption, FS_Subset DEF Uncounted
<1> QED
  BY <1>1, FS_CardinalityType, FS_EmptySet

LEMMA AndInitInv == Init => AndIInv
<1> SUFFICES ASSUME Init PROVE AndIInv
  OBVIOUS
<1>1. Cardinality(Deps) \in Nat
  BY DepsAssumption, FS_CardinalityType
<1>2. TypeOK
  <2>1. 0 \in 0 .. Cardinality(Deps) /\ Cardinality(Deps) \in 0 .. Cardinality(Deps)
    BY <1>1
  <2>2. counted \in [Deps -> 0 .. Cardinality(Deps)]
    BY <2>1 DEF Init
  <2>3. done \in [Deps -> Stages]
    BY DEF Init, Stages
  <2> QED
    BY <2>1, <2>2, <2>3 DEF Init, TypeOK
<1>3. CounterIsRight
  <2>1. Uncounted = Deps
    BY DEF Init, Uncounted
  <2> QED
    BY <2>1 DEF Init, CounterIsRight
<1>4. DoneAfterGo /\ CopyIsOld /\ FiredIsEmpty
  BY DEF Init, DoneAfterGo, CopyIsOld, FiredIsEmpty
<1> QED
  BY <1>2, <1>3, <1>4 DEF AndIInv

\* The steps that do not count leave the set of the uncounted as it is.
LEMMA UncountedKept ==
  ASSUME TypeOK, NEW d \in Deps, Attach(d) \/ DepGo(d) \/ Test(d)
  PROVE  Uncounted' = Uncounted /\ remaining' = remaining
<1>1. CASE Attach(d)
  BY <1>1 DEF Attach, Move, TypeOK, Uncounted
<1>2. CASE DepGo(d)
  BY <1>2 DEF DepGo, TypeOK, Uncounted
<1>3. CASE Test(d)
  BY <1>3 DEF Test, Move, TypeOK, Uncounted
<1> QED
  BY <1>1, <1>2, <1>3

\* Counting takes one dependency out of that set.
LEMMA CountEffect ==
  ASSUME AndIInv, NEW d \in Deps, Count(d)
  PROVE  /\ remaining' = remaining - 1
         /\ remaining' = Cardinality(Uncounted')
         /\ remaining' \in 0 .. Cardinality(Deps)
<1>1. d \in Uncounted
  BY DEF Count, Uncounted
<1>2. Uncounted' = Uncounted \ {d}
  BY DEF Count, Move, AndIInv, TypeOK, Uncounted
<1>3. Cardinality(Uncounted \ {d}) = Cardinality(Uncounted) - 1
  BY <1>1, UncountedIsFinite, FS_RemoveElement
<1>4. remaining' = remaining - 1 /\ remaining' = Cardinality(Uncounted')
  BY <1>2, <1>3 DEF Count, AndIInv, CounterIsRight
<1>5. IsFiniteSet(Uncounted') /\ Cardinality(Uncounted') \in Nat
  BY <1>2, UncountedIsFinite, FS_RemoveElement, FS_CardinalityType
<1>6. Cardinality(Deps) \in Nat
  BY DepsAssumption, FS_CardinalityType
<1> QED
  BY <1>4, <1>5, <1>6 DEF AndIInv, TypeOK

LEMMA AndInvStep == AndIInv /\ [Next]_vars => AndIInv'
<1> SUFFICES ASSUME AndIInv, [Next]_vars PROVE AndIInv'
  OBVIOUS
<1> USE DEF AndIInv
<1>1. ASSUME NEW d \in Deps, Attach(d) PROVE AndIInv'
  <2>1. TypeOK'
    BY <1>1 DEF Attach, Move, TypeOK, Stages
  <2>2. CounterIsRight'
    BY <1>1, UncountedKept DEF CounterIsRight
  <2>3. DoneAfterGo'
    BY <1>1 DEF Attach, Move, TypeOK, DoneAfterGo
  <2>4. CopyIsOld' /\ FiredIsEmpty'
    BY <1>1 DEF Attach, Move, TypeOK, CopyIsOld, FiredIsEmpty
  <2> QED
    BY <2>1, <2>2, <2>3, <2>4
<1>2. ASSUME NEW d \in Deps, DepGo(d) PROVE AndIInv'
  <2>1. TypeOK'
    BY <1>2 DEF DepGo, TypeOK, Stages
  <2>2. CounterIsRight'
    BY <1>2, UncountedKept DEF CounterIsRight
  <2>3. DoneAfterGo'
    BY <1>2 DEF DepGo, TypeOK, DoneAfterGo
  <2>4. CopyIsOld' /\ FiredIsEmpty'
    BY <1>2 DEF DepGo, TypeOK, CopyIsOld, FiredIsEmpty
  <2> QED
    BY <2>1, <2>2, <2>3, <2>4
<1>3. ASSUME NEW d \in Deps, Count(d) PROVE AndIInv'
  <2>0. /\ remaining' = remaining - 1
        /\ remaining' = Cardinality(Uncounted')
        /\ remaining' \in 0 .. Cardinality(Deps)
    BY <1>3, CountEffect
  <2>a. Cardinality(Deps) \in Nat
    BY DepsAssumption, FS_CardinalityType
  <2>1. TypeOK'
    BY <1>3, <2>0 DEF Count, Move, TypeOK, Stages
  <2>2. CounterIsRight'
    BY <2>0 DEF CounterIsRight
  <2>3. DoneAfterGo'
    BY <1>3 DEF Count, Move, TypeOK, DoneAfterGo
  <2>4. CopyIsOld'
    BY <1>3, <2>0, <2>a DEF Count, Move, TypeOK, CopyIsOld
  <2>5. FiredIsEmpty'
    BY <1>3, <2>0, <2>a DEF Count, TypeOK, FiredIsEmpty
  <2> QED
    BY <2>1, <2>2, <2>3, <2>4, <2>5
<1>4. ASSUME NEW d \in Deps, Test(d) PROVE AndIInv'
  <2>1. TypeOK'
    BY <1>4 DEF Test, Move, TypeOK, Stages
  <2>2. CounterIsRight'
    BY <1>4, UncountedKept DEF CounterIsRight
  <2>3. DoneAfterGo'
    BY <1>4 DEF Test, Move, TypeOK, DoneAfterGo
  <2>4. CopyIsOld'
    BY <1>4 DEF Test, Move, TypeOK, CopyIsOld
  <2>5. FiredIsEmpty'
    BY <1>4, DepsAssumption, FS_CardinalityType DEF Test, TypeOK, CopyIsOld, FiredIsEmpty
  <2> QED
    BY <2>1, <2>2, <2>3, <2>4, <2>5
<1>5. CASE UNCHANGED vars
  <2>1. Uncounted' = Uncounted
    BY <1>5 DEF vars, Uncounted
  <2> QED
    BY <1>5, <2>1
       DEF vars, TypeOK, CounterIsRight, DoneAfterGo, CopyIsOld, FiredIsEmpty
<1> QED
  BY <1>1, <1>2, <1>3, <1>4, <1>5 DEF Next, Step

LEMMA AndInvAlways == Spec => []AndIInv
BY AndInitInv, AndInvStep, PTL DEF Spec

\* Every variable keeps its type; the counter does not go below 0, so that no done()
\* runs twice (signals.py:220-238).
THEOREM AndTypeCorrect == Spec => []TypeOK
<1>1. AndIInv => TypeOK
  BY DEF AndIInv
<1> QED
  BY <1>1, AndInvAlways, PTL

LEMMA AndImplies == AndIInv => FiresAfterAll
<1> SUFFICES ASSUME AndIInv, fired PROVE goneDeps = Deps
  BY DEF FiresAfterAll
<1>1. Uncounted = {}
  BY UncountedIsFinite DEF AndIInv, FiredIsEmpty, CounterIsRight
<1>2. \A d \in Deps : done[d] \in {"test", "over"}
  BY <1>1 DEF AndIInv, TypeOK, Stages, Uncounted
<1> QED
  BY <1>2 DEF AndIInv, TypeOK, DoneAfterGo

\* The output of `a & b` does not go before every dependency has gone, for any number of
\* dependencies that go in any threads while they are being attached (signals.py:206-238).
THEOREM AndFiresAfterAll == Spec => []FiresAfterAll
BY AndImplies, AndInvAlways, PTL

\* The safety of `a & b`: the output waits for every dependency, and the counter never
\* leaves 0 .. the number of them (signals.py:206-238).
THEOREM AndSafe == Spec => []AndInv
<1>1. TypeOK /\ FiresAfterAll <=> AndInv
  BY DEF AndInv
<1> QED
  BY <1>1, AndTypeCorrect, AndFiresAfterAll, PTL

-----------------------------------------------------------------------------
(* `a | b`                                                                 *)

\* the places of the builder in or_signal(), before cleanup is attached
Building == {"attach", "out_go", "clean_attach"}

\* whoever lets the output go, or may, has its reason; only the builder has the first places
ReasonAtHand ==
  /\ \A d \in Deps : orPc[d] # "idle" => d \in orGone
  /\ \A p \in Or!Procs : orPc[p] = "out_go" => orGone # {} \/ orPc[Other] # "idle"
  /\ outGone => orGone # {} \/ orPc[Other] # "idle"

\* what the builder has done so far
BuilderState ==
  /\ orPc[Builder] # "call"
  /\ orPc[Builder] = "idle" <=> output = "none"
  /\ output = "none" => queued = {} /\ dependencies = {}
  /\ orPc[Builder] \in Building => output = "live" /\ dependencies = Deps
  /\ orPc[Builder] = "keep" => output = "live"
  /\ orPc[Builder] \in {"cleanup", "remove"} => outGone \/ output = "collected"
  /\ orPc[Builder] = "over" => output \in {"done", "collected"}
  /\ output = "done" => queued = {} /\ dependencies = {} /\ orPc[Builder] = "over"

\* the cleanup is queued as long as the output is kept and not gone, and then only
CleanupArmed == cleanQueued <=> (orPc[Builder] = "keep" /\ ~ outGone)

\* nobody cleans up what is still being built
CleanupAfterBuild ==
  \A p \in Or!Procs : orPc[p] \in {"cleanup", "remove"} => orPc[Builder] \notin {"idle"} \cup Building

\* whatever is queued is still listed, or somebody is about to remove it
QueuedIsKnown ==
  \A d \in queued :
    d \in dependencies \/ \E p \in Or!Procs : orPc[p] = "remove" /\ d \in todo[p]

\* when the output is gone or lost, somebody is about to clean up, or has taken the list
CleanupComes ==
  ((outGone \/ output = "collected") /\ dependencies # {})
    => orPc[Builder] \in Building \/ \E p \in Or!Procs : orPc[p] = "cleanup"

OrIInv ==
  /\ Or!TypeOK
  /\ ReasonAtHand
  /\ BuilderState
  /\ CleanupArmed
  /\ CleanupAfterBuild
  /\ QueuedIsKnown
  /\ CleanupComes
LEMMA OrInitInv == Or!Init => OrIInv
BY ProcsAssumption
   DEF Or!Init, Or!Procs, Or!Places, OrIInv, Or!TypeOK, ReasonAtHand, BuilderState, Building,
       CleanupArmed, CleanupAfterBuild, QueuedIsKnown, CleanupComes

LEMMA OrInvStep == OrIInv /\ [Or!Next]_orVars => OrIInv'
<1> SUFFICES ASSUME OrIInv, [Or!Next]_orVars PROVE OrIInv'
  OBVIOUS
<1> USE ProcsAssumption DEF OrIInv, Or!TypeOK, Or!Procs, Or!Goto, Building
<1>1. ASSUME Or!Build PROVE OrIInv'
  <2>1. Or!TypeOK'
    BY <1>1 DEF Or!Build, Or!Places
  <2>2. ReasonAtHand'
    BY <1>1 DEF Or!Build, ReasonAtHand
  <2>3. BuilderState'
    BY <1>1 DEF Or!Build, BuilderState, CleanupArmed, CleanupAfterBuild
  <2>4. CleanupArmed'
    BY <1>1 DEF Or!Build, CleanupArmed, BuilderState
  <2>5. CleanupAfterBuild'
    BY <1>1 DEF Or!Build, CleanupArmed, BuilderState, CleanupAfterBuild
  <2>6. QueuedIsKnown'
    BY <1>1 DEF Or!Build, QueuedIsKnown, BuilderState
  <2>7. CleanupComes'
    BY <1>1 DEF Or!Build, CleanupComes, BuilderState, CleanupArmed
  <2> QED
    BY <2>1, <2>2, <2>3, <2>4, <2>5, <2>6, <2>7
<1>2. ASSUME Or!BuildDone PROVE OrIInv'
  <2>1. Or!TypeOK'
    BY <1>2 DEF Or!BuildDone, Or!Places
  <2>2. ReasonAtHand'
    BY <1>2 DEF Or!BuildDone, ReasonAtHand
  <2>3. BuilderState'
    BY <1>2 DEF Or!BuildDone, BuilderState, CleanupArmed, CleanupAfterBuild
  <2>4. CleanupArmed'
    BY <1>2 DEF Or!BuildDone, CleanupArmed, BuilderState
  <2>5. CleanupAfterBuild'
    BY <1>2 DEF Or!BuildDone, CleanupArmed, BuilderState, CleanupAfterBuild
  <2>6. QueuedIsKnown'
    BY <1>2 DEF Or!BuildDone, QueuedIsKnown, BuilderState
  <2>7. CleanupComes'
    BY <1>2 DEF Or!BuildDone, CleanupComes, BuilderState, CleanupArmed
  <2> QED
    BY <2>1, <2>2, <2>3, <2>4, <2>5, <2>6, <2>7
<1>3. ASSUME Or!Collect PROVE OrIInv'
  <2>1. Or!TypeOK'
    BY <1>3 DEF Or!Collect, Or!Places
  <2>2. ReasonAtHand'
    BY <1>3 DEF Or!Collect, ReasonAtHand
  <2>3. BuilderState'
    BY <1>3 DEF Or!Collect, BuilderState, CleanupArmed, CleanupAfterBuild
  <2>4. CleanupArmed'
    BY <1>3 DEF Or!Collect, CleanupArmed, BuilderState
  <2>5. CleanupAfterBuild'
    BY <1>3 DEF Or!Collect, CleanupArmed, BuilderState, CleanupAfterBuild
  <2>6. QueuedIsKnown'
    BY <1>3 DEF Or!Collect, QueuedIsKnown, BuilderState
  <2>7. CleanupComes'
    BY <1>3 DEF Or!Collect, CleanupComes, BuilderState, CleanupArmed
  <2> QED
    BY <2>1, <2>2, <2>3, <2>4, <2>5, <2>6, <2>7
<1>4. ASSUME Or!OtherGo PROVE OrIInv'
  <2>1. Or!TypeOK'
    BY <1>4 DEF Or!OtherGo, Or!Places
  <2>2. ReasonAtHand'
    BY <1>4 DEF Or!OtherGo, ReasonAtHand
  <2>3. BuilderState'
    BY <1>4 DEF Or!OtherGo, BuilderState, CleanupArmed, CleanupAfterBuild
  <2>4. CleanupArmed'
    BY <1>4 DEF Or!OtherGo, CleanupArmed, BuilderState
  <2>5. CleanupAfterBuild'
    BY <1>4 DEF Or!OtherGo, CleanupArmed, BuilderState, CleanupAfterBuild
  <2>6. QueuedIsKnown'
    BY <1>4 DEF Or!OtherGo, QueuedIsKnown, BuilderState
  <2>7. CleanupComes'
    BY <1>4 DEF Or!OtherGo, CleanupComes, BuilderState, CleanupArmed
  <2> QED
    BY <2>1, <2>2, <2>3, <2>4, <2>5, <2>6, <2>7
<1>5. ASSUME NEW d \in Deps, Or!DepGo(d) PROVE OrIInv'
  <2>1. Or!TypeOK'
    BY <1>5 DEF Or!DepGo, Or!Places
  <2>2. ReasonAtHand'
    BY <1>5 DEF Or!DepGo, ReasonAtHand
  <2>3. BuilderState'
    BY <1>5 DEF Or!DepGo, BuilderState, CleanupArmed, CleanupAfterBuild
  <2>4. CleanupArmed'
    BY <1>5 DEF Or!DepGo, CleanupArmed, BuilderState
  <2>5. CleanupAfterBuild'
    BY <1>5 DEF Or!DepGo, CleanupArmed, BuilderState, CleanupAfterBuild
  <2>6. QueuedIsKnown'
    BY <1>5 DEF Or!DepGo, QueuedIsKnown, BuilderState
  <2>7. CleanupComes'
    BY <1>5 DEF Or!DepGo, CleanupComes, BuilderState, CleanupArmed
  <2> QED
    BY <2>1, <2>2, <2>3, <2>4, <2>5, <2>6, <2>7
<1>6. ASSUME NEW d \in Deps, Or!Attach(d) PROVE OrIInv'
  <2>1. Or!TypeOK'
    BY <1>6 DEF Or!Attach, Or!Places
  <2>2. ReasonAtHand'
    BY <1>6 DEF Or!Attach, ReasonAtHand
  <2>3. BuilderState'
    BY <1>6 DEF Or!Attach, BuilderState, CleanupArmed, CleanupAfterBuild
  <2>4. CleanupArmed'
    BY <1>6 DEF Or!Attach, CleanupArmed, BuilderState
  <2>5. CleanupAfterBuild'
    BY <1>6 DEF Or!Attach, CleanupArmed, BuilderState, CleanupAfterBuild
  <2>6. QueuedIsKnown'
    BY <1>6 DEF Or!Attach, QueuedIsKnown, BuilderState
  <2>7. CleanupComes'
    BY <1>6 DEF Or!Attach, CleanupComes, BuilderState, CleanupArmed
  <2> QED
    BY <2>1, <2>2, <2>3, <2>4, <2>5, <2>6, <2>7
<1>7. ASSUME Or!AttachedAll PROVE OrIInv'
  <2>1. Or!TypeOK'
    BY <1>7 DEF Or!AttachedAll, Or!Places
  <2>2. ReasonAtHand'
    BY <1>7 DEF Or!AttachedAll, ReasonAtHand
  <2>3. BuilderState'
    BY <1>7 DEF Or!AttachedAll, BuilderState, CleanupArmed, CleanupAfterBuild
  <2>4. CleanupArmed'
    BY <1>7 DEF Or!AttachedAll, CleanupArmed, BuilderState
  <2>5. CleanupAfterBuild'
    BY <1>7 DEF Or!AttachedAll, CleanupArmed, BuilderState, CleanupAfterBuild
  <2>6. QueuedIsKnown'
    BY <1>7 DEF Or!AttachedAll, QueuedIsKnown, BuilderState
  <2>7. CleanupComes'
    BY <1>7 DEF Or!AttachedAll, CleanupComes, BuilderState, CleanupArmed
  <2> QED
    BY <2>1, <2>2, <2>3, <2>4, <2>5, <2>6, <2>7
<1>8. ASSUME Or!AttachCleanup PROVE OrIInv'
  <2>1. Or!TypeOK'
    BY <1>8 DEF Or!AttachCleanup, Or!Places
  <2>2. ReasonAtHand'
    BY <1>8 DEF Or!AttachCleanup, ReasonAtHand
  <2>3. BuilderState'
    BY <1>8 DEF Or!AttachCleanup, BuilderState, CleanupArmed, CleanupAfterBuild
  <2>4. CleanupArmed'
    BY <1>8 DEF Or!AttachCleanup, CleanupArmed, BuilderState
  <2>5. CleanupAfterBuild'
    BY <1>8 DEF Or!AttachCleanup, CleanupArmed, BuilderState, CleanupAfterBuild
  <2>6. QueuedIsKnown'
    BY <1>8 DEF Or!AttachCleanup, QueuedIsKnown, BuilderState
  <2>7. CleanupComes'
    BY <1>8 DEF Or!AttachCleanup, CleanupComes, BuilderState, CleanupArmed
  <2> QED
    BY <2>1, <2>2, <2>3, <2>4, <2>5, <2>6, <2>7
<1>9. ASSUME NEW d \in Deps, Or!Call(d) PROVE OrIInv'
  <2>1. Or!TypeOK'
    BY <1>9 DEF Or!Call, Or!Places
  <2>2. ReasonAtHand'
    BY <1>9 DEF Or!Call, ReasonAtHand
  <2>3. BuilderState'
    BY <1>9 DEF Or!Call, BuilderState, CleanupArmed, CleanupAfterBuild
  <2>4. CleanupArmed'
    BY <1>9 DEF Or!Call, CleanupArmed, BuilderState
  <2>5. CleanupAfterBuild'
    BY <1>9 DEF Or!Call, CleanupArmed, BuilderState, CleanupAfterBuild
  <2>6. QueuedIsKnown'
    BY <1>9 DEF Or!Call, QueuedIsKnown, BuilderState
  <2>7. CleanupComes'
    BY <1>9 DEF Or!Call, CleanupComes, BuilderState, CleanupArmed
  <2> QED
    BY <2>1, <2>2, <2>3, <2>4, <2>5, <2>6, <2>7
<1>10. ASSUME NEW p \in Or!Procs, Or!OutGo(p) PROVE OrIInv'
  <2>1. Or!TypeOK'
    BY <1>10 DEF Or!OutGo, Or!Places
  <2>2. ReasonAtHand'
    BY <1>10 DEF Or!OutGo, ReasonAtHand
  <2>3. BuilderState'
    BY <1>10 DEF Or!OutGo, BuilderState, CleanupArmed, CleanupAfterBuild
  <2>4. CleanupArmed'
    BY <1>10 DEF Or!OutGo, CleanupArmed, BuilderState
  <2>5. CleanupAfterBuild'
    BY <1>10 DEF Or!OutGo, CleanupArmed, BuilderState, CleanupAfterBuild
  <2>6. QueuedIsKnown'
    BY <1>10 DEF Or!OutGo, QueuedIsKnown, BuilderState
  <2>7. CleanupComes'
    <3>1. SUFFICES ASSUME dependencies # {}, orPc[Builder] \notin Building
                   PROVE  \E q \in Or!Procs : orPc'[q] = "cleanup"
      BY <1>10 DEF Or!OutGo, CleanupComes
    <3>2. CASE cleanQueued
      BY <1>10, <3>2 DEF Or!OutGo
    <3>3. CASE outGone \/ output = "collected"
      <4>1. PICK q \in Or!Procs : orPc[q] = "cleanup"
        BY <3>1, <3>3 DEF CleanupComes
      <4> QED
        BY <1>10, <4>1 DEF Or!OutGo
    <3>4. CASE ~ cleanQueued /\ ~ outGone /\ output # "collected"
      <4>1. orPc[Builder] # "keep" /\ orPc[Builder] \notin {"cleanup", "remove"}
        BY <3>4 DEF CleanupArmed, BuilderState
      <4>2. orPc[Builder] # "idle" /\ orPc[Builder] # "over"
        BY <3>1, <3>4 DEF BuilderState
      <4>3. orPc[Builder] \in Or!Places /\ orPc[Builder] # "call"
        BY DEF BuilderState
      <4> QED
        BY <3>1, <4>1, <4>2, <4>3 DEF Or!Places
    <3> QED
      BY <3>2, <3>3, <3>4
  <2> QED
    BY <2>1, <2>2, <2>3, <2>4, <2>5, <2>6, <2>7
<1>11. ASSUME NEW p \in Or!Procs, Or!Cleanup(p) PROVE OrIInv'
  <2>1. Or!TypeOK'
    BY <1>11 DEF Or!Cleanup, Or!Places
  <2>2. ReasonAtHand'
    BY <1>11 DEF Or!Cleanup, ReasonAtHand
  <2>3. BuilderState'
    BY <1>11 DEF Or!Cleanup, BuilderState, CleanupArmed, CleanupAfterBuild
  <2>4. CleanupArmed'
    BY <1>11 DEF Or!Cleanup, CleanupArmed, BuilderState
  <2>5. CleanupAfterBuild'
    BY <1>11 DEF Or!Cleanup, CleanupArmed, BuilderState, CleanupAfterBuild
  <2>6. QueuedIsKnown'
    BY <1>11 DEF Or!Cleanup, QueuedIsKnown, BuilderState
  <2>7. CleanupComes'
    BY <1>11 DEF Or!Cleanup, CleanupComes, BuilderState, CleanupArmed
  <2> QED
    BY <2>1, <2>2, <2>3, <2>4, <2>5, <2>6, <2>7
<1>12. ASSUME NEW p \in Or!Procs, NEW d \in Deps, Or!RemoveFrom(p, d) PROVE OrIInv'
  <2>1. Or!TypeOK'
    BY <1>12 DEF Or!RemoveFrom, Or!Places
  <2>2. ReasonAtHand'
    BY <1>12 DEF Or!RemoveFrom, ReasonAtHand
  <2>3. BuilderState'
    BY <1>12 DEF Or!RemoveFrom, BuilderState, CleanupArmed, CleanupAfterBuild
  <2>4. CleanupArmed'
    BY <1>12 DEF Or!RemoveFrom, CleanupArmed, BuilderState
  <2>5. CleanupAfterBuild'
    BY <1>12 DEF Or!RemoveFrom, CleanupArmed, BuilderState, CleanupAfterBuild
  <2>6. QueuedIsKnown'
    BY <1>12 DEF Or!RemoveFrom, QueuedIsKnown, BuilderState
  <2>7. CleanupComes'
    BY <1>12 DEF Or!RemoveFrom, CleanupComes, BuilderState, CleanupArmed
  <2> QED
    BY <2>1, <2>2, <2>3, <2>4, <2>5, <2>6, <2>7
<1>13. ASSUME NEW p \in Or!Procs, Or!Cleaned(p) PROVE OrIInv'
  <2>1. Or!TypeOK'
    BY <1>13 DEF Or!Cleaned, Or!Resume, Or!Places
  <2>2. ReasonAtHand'
    BY <1>13 DEF Or!Cleaned, Or!Resume, ReasonAtHand
  <2>3. BuilderState'
    BY <1>13 DEF Or!Cleaned, Or!Resume, BuilderState, CleanupArmed, CleanupAfterBuild
  <2>4. CleanupArmed'
    BY <1>13 DEF Or!Cleaned, Or!Resume, CleanupArmed, BuilderState
  <2>5. CleanupAfterBuild'
    BY <1>13 DEF Or!Cleaned, Or!Resume, CleanupArmed, BuilderState, CleanupAfterBuild
  <2>6. QueuedIsKnown'
    BY <1>13 DEF Or!Cleaned, Or!Resume, QueuedIsKnown, BuilderState
  <2>7. CleanupComes'
    BY <1>13 DEF Or!Cleaned, Or!Resume, CleanupComes, BuilderState, CleanupArmed
  <2> QED
    BY <2>1, <2>2, <2>3, <2>4, <2>5, <2>6, <2>7
<1>14. CASE UNCHANGED orVars
  BY <1>14
     DEF orVars, ReasonAtHand, BuilderState, CleanupArmed, CleanupAfterBuild, QueuedIsKnown,
         CleanupComes
<1> QED
  BY <1>1, <1>2, <1>3, <1>4, <1>5, <1>6, <1>7, <1>8, <1>9, <1>10, <1>11, <1>12, <1>13, <1>14
     DEF Or!Next, Or!Step

LEMMA OrInvAlways == Or!Spec => []OrIInv
<1>1. OrIInv /\ [Or!Next]_Or!vars => OrIInv'
  BY OrInvStep DEF Or!vars, orVars
<1> QED
  BY <1>1, OrInitInv, PTL DEF Or!Spec

LEMMA OrInvImplies == OrIInv => OrInv
<1> SUFFICES ASSUME OrIInv PROVE OrInv
  OBVIOUS
<1>1. Or!GoesForAReason
  BY DEF OrIInv, ReasonAtHand, Or!GoesForAReason
<1>2. Or!NoLeftover
  <2> SUFFICES ASSUME outGone \/ output = "collected", \A p \in Or!Procs : ~ Or!Working(p)
               PROVE  queued = {}
    BY DEF Or!NoLeftover
  <2>1. \A p \in Or!Procs : orPc[p] \in {"idle", "keep", "over"}
    BY DEF Or!Working
  <2>2. orPc[Builder] \notin Building
    BY <2>1 DEF Or!Procs, Building
  <2>3. dependencies = {}
    BY <2>1, <2>2 DEF OrIInv, CleanupComes
  <2> QED
    BY <2>1, <2>3 DEF OrIInv, QueuedIsKnown
<1> QED
  BY <1>1, <1>2 DEF OrIInv, OrInv, Or!OrInv

\* The output of `a | b` goes only when a dependency has, or when somebody sends it off
\* himself; and when it is gone or lost, and everybody is done, no dependency has the
\* OrSignal in its queue (signals.py:155, 185-194, 246-277).
THEOREM OrSafe == Or!Spec => []OrInv
BY OrInvAlways, OrInvImplies, PTL

\* All three kinds of signals are safe in the specification that is model-checked, in which
\* one of them is built (signals.py:43-277).
THEOREM JoinedSafe == AllSpec => [](SignalInv /\ AndInv /\ OrInv)
<1> DEFINE IInv == SignalIInv /\ AndIInv /\ OrIInv
<1>1. AllInit => IInv
  BY SignalInitInv, AndInitInv, OrInitInv DEF AllInit
<1>2. IInv /\ [OneNext \/ OrNext \/ AndNext]_AllVars => IInv'
  <2>1. CASE OneNext
    BY <2>1, SignalInvStep, AndInvStep, OrInvStep DEF OneNext
  <2>2. CASE OrNext
    BY <2>2, SignalInvStep, AndInvStep, OrInvStep DEF OrNext
  <2>3. CASE AndNext
    BY <2>3, SignalInvStep, AndInvStep, OrInvStep DEF AndNext
  <2>4. CASE UNCHANGED AllVars
    BY <2>4, SignalInvStep, AndInvStep, OrInvStep DEF AllVars
  <2> QED
    BY <2>1, <2>2, <2>3, <2>4
<1>3. IInv => SignalInv /\ AndInv /\ OrInv
  <2>1. SignalIInv => SignalInv
    BY DEF SignalIInv, SignalInv
  <2>2. AndIInv => AndInv
    BY AndImplies DEF AndIInv, AndInv
  <2> QED
    BY <2>1, <2>2, OrInvImplies
<1> QED
  BY <1>1, <1>2, <1>3, PTL DEF AllSpec
=============================================================================

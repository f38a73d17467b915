---------------------------- MODULE QueueProofs ----------------------------
(***************************************************************************)
(* Theorems about Lock, for any set of threads, and about the Queue that   *)
(* is built on it, for any threads, items, limit, flags and requests.      *)
(* Every step of the queue is a step of the lock or leaves it alone.       *)
(***************************************************************************)
EXTENDS QueueLimit, FiniteSetTheorems, TLAPS

-----------------------------------------------------------------------------
(* Lock: the inductive invariant                                           *)

\* a waiter that nobody has signalled is undisturbed, except by the thread that
\* has the lock and has not come to its exit or its next wait() yet
Undisturbed ==
  \A t \in Threads :
    (at[t] \in {"waiting", "woken", "back"} /\ ~ waiter[t] /\ disturbed[t])
      => at[t] # "back" /\ \E u \in Threads \ {t} : holder = u /\ at[u] \in {"in", "back"}

\* the waiting list never has a second element
ShortList == waiting = <<>> \/ \E t \in Threads : waiting = <<t>>

\* whoever has the lock has overtaken everyone who is between release and re-acquire
Overtaken ==
  \A t \in Threads :
    (at[t] \in {"waiting", "woken"} /\ holder # NoThread) => disturbed[t]

\* a signalled waiter has given the lock up, and was overtaken by the thread that signalled it
SignalledLate ==
  \A t \in Threads :
    (at[t] \in WaitPlaces /\ waiter[t]) => at[t] # "parting" /\ disturbed[t]

\* a thread leaves its wait, and has the lock again, only for one of its two signals
WokenForAReason ==
  \A t \in Threads : at[t] \in {"woken", "back"} => waiter[t] \/ till[t] = "gone"

LockIInv ==
  /\ LockTypeOK
  /\ MutualExclusion
  /\ ShortList
  /\ OneSleeper
  /\ Undisturbed
  /\ Overtaken
  /\ SignalledLate
  /\ WokenForAReason

-----------------------------------------------------------------------------
(* The list operators on a list of at most one element                     *)

LEMMA SingletonEnds ==
  ASSUME NEW x \in Threads
  PROVE  /\ <<x>> # <<>>
         /\ <<x>> \in Seq(Threads)
         /\ Front(<<x>>) = <<>>
         /\ Last(<<x>>) = x
         /\ <<x>> \o <<>> = <<x>>
         /\ \A y \in Threads : <<y>> = <<x>> => y = x
BY DEF Front, Last

LEMMA RemoveFromSingleton ==
  ASSUME NEW x \in Threads, NEW y \in Threads
  PROVE  /\ RemoveFirst(<<>>, x) = <<>>
         /\ RemoveFirst(<<x>>, x) = <<>>
         /\ y # x => RemoveFirst(<<y>>, x) = <<y>>
<1>1. RemoveFirst(<<>>, x) = <<>>
  BY DEF RemoveFirst, RemoveAt, SelectInSeq
<1>2. y # x => RemoveFirst(<<y>>, x) = <<y>>
  BY DEF RemoveFirst, RemoveAt, SelectInSeq
<1>3. RemoveFirst(<<x>>, x) = <<>>
  <2>1. {i \in 1 .. Len(<<x>>) : <<x>>[i] = x} = {1}
    OBVIOUS
  <2>2. Min({1}) = 1
    BY DEF Min
  <2>3. RemoveFirst(<<x>>, x) = SubSeq(<<x>>, 1, 1 - 1) \o SubSeq(<<x>>, 1 + 1, Len(<<x>>))
    BY <2>1, <2>2 DEF RemoveFirst, RemoveAt, SelectInSeq
  <2> QED
    BY <2>3
<1> QED
  BY <1>1, <1>2, <1>3

-----------------------------------------------------------------------------
LEMMA LockInitInv == LockInit => LockIInv
<1> SUFFICES ASSUME LockInit PROVE LockIInv
  OBVIOUS
<1> USE NoThreadAssumption DEF LockInit, Places, HoldPlaces, WaitPlaces, TillStates
<1>1. LockTypeOK
  BY DEF LockTypeOK
<1>2. MutualExclusion /\ ShortList
  BY DEF MutualExclusion, ShortList
<1>3. OneSleeper /\ Undisturbed
  BY DEF OneSleeper, Undisturbed
<1>4. Overtaken /\ SignalledLate
  BY DEF Overtaken, SignalledLate
<1>5. WokenForAReason
  BY DEF WokenForAReason
<1> QED
  BY <1>1, <1>2, <1>3, <1>4, <1>5 DEF LockIInv

\* What the three list-changing steps do to a list of at most one waiter.
LEMMA ExitEffect ==
  ASSUME LockTypeOK, ShortList, NEW t \in Threads, ExitSignal(t)
  PROVE  /\ waiting' = <<>>
         /\ waiter' = [u \in Threads |-> waiter[u] \/ waiting = <<u>>]
<1>1. CASE waiting = <<>>
  <2>1. \A u \in Threads : waiting # <<u>>
    BY <1>1, SingletonEnds
  <2> QED
    BY <1>1, <2>1 DEF ExitSignal, LockTypeOK
<1>2. ASSUME NEW w \in Threads, waiting = <<w>>
      PROVE  /\ waiting' = <<>>
             /\ waiter' = [u \in Threads |-> waiter[u] \/ waiting = <<u>>]
  <2>1. waiting # <<>> /\ Front(waiting) = <<>> /\ Last(waiting) = w
    BY <1>2, SingletonEnds
  <2>2. waiting' = <<>> /\ waiter' = [waiter EXCEPT ![w] = TRUE]
    BY <2>1 DEF ExitSignal
  <2>3. \A u \in Threads : waiting = <<u>> <=> u = w
    BY <1>2, SingletonEnds
  <2> QED
    BY <2>2, <2>3 DEF LockTypeOK
<1> QED
  BY <1>1, <1>2 DEF ShortList

LEMMA RegisterEffect ==
  ASSUME LockTypeOK, ShortList, OneSleeper,
         NEW t \in Threads, NEW s \in TillStates, WaitRegister(t, s)
  PROVE  /\ waiting' = <<t>>
         /\ waiter' = [u \in Threads |-> u # t /\ (waiter[u] \/ waiting = <<u>>)]
<1>1. CASE waiting = <<>>
  <2>1. \A u \in Threads : waiting # <<u>>
    BY <1>1, SingletonEnds
  <2> QED
    BY <1>1, <2>1 DEF WaitRegister, LockTypeOK
<1>2. ASSUME NEW w \in Threads, waiting = <<w>>
      PROVE  /\ waiting' = <<t>>
             /\ waiter' = [u \in Threads |-> u # t /\ (waiter[u] \/ waiting = <<u>>)]
  <2>1. waiting # <<>> /\ Front(waiting) = <<>> /\ Last(waiting) = w
    BY <1>2, SingletonEnds
  <2>2. w # t
    BY <1>2 DEF OneSleeper, WaitRegister, WaitPlaces
  <2>3. waiting' = <<t>> /\ waiter' = [waiter EXCEPT ![t] = FALSE, ![w] = TRUE]
    BY <2>1, SingletonEnds DEF WaitRegister
  <2>4. \A u \in Threads : waiting = <<u>> <=> u = w
    BY <1>2, SingletonEnds
  <2> QED
    BY <2>2, <2>3, <2>4 DEF LockTypeOK
<1> QED
  BY <1>1, <1>2 DEF ShortList

LEMMA ReturnEffect ==
  ASSUME ShortList, NEW t \in Threads, WaitReturn(t)
  PROVE  waiting' = IF waiting = <<t>> THEN <<>> ELSE waiting
<1>1. CASE waiting = <<>>
  BY <1>1, RemoveFromSingleton, SingletonEnds DEF WaitReturn
<1>2. ASSUME NEW w \in Threads, waiting = <<w>>
      PROVE  waiting' = IF waiting = <<t>> THEN <<>> ELSE waiting
  BY <1>2, RemoveFromSingleton, SingletonEnds DEF WaitReturn
<1> QED
  BY <1>1, <1>2 DEF ShortList

\* Types are kept by every step.
LEMMA LockTypeStep ==
  ASSUME LockTypeOK, ShortList, OneSleeper, NEW t \in Threads, LockStep(t)
  PROVE  LockTypeOK'
<1> USE DEF LockTypeOK, Go, Take, Places, HoldPlaces, WaitPlaces, TillStates
<1>1. CASE Enter(t)
  BY <1>1 DEF Enter
<1>2. CASE Acquire(t)
  BY <1>2 DEF Acquire
<1>3. CASE ExitSignal(t)
  <2>1. waiting' = <<>> /\ waiter' = [u \in Threads |-> waiter[u] \/ waiting = <<u>>]
    BY <1>3, ExitEffect
  <2> QED
    BY <1>3, <2>1 DEF ExitSignal
<1>4. CASE Release(t)
  BY <1>4 DEF Release
<1>5. ASSUME NEW s \in TillStates, WaitRegister(t, s) PROVE LockTypeOK'
  <2>1. /\ waiting' = <<t>>
        /\ waiter' = [u \in Threads |-> u # t /\ (waiter[u] \/ waiting = <<u>>)]
    BY <1>5, RegisterEffect
  <2> QED
    BY <1>5, <2>1, SingletonEnds DEF WaitRegister
<1>6. CASE WaitRelease(t)
  BY <1>6 DEF WaitRelease
<1>7. CASE Wake(t)
  BY <1>7 DEF Wake
<1>8. CASE Reacquire(t)
  BY <1>8 DEF Reacquire
<1>9. CASE WaitReturn(t)
  <2>1. waiting' = IF waiting = <<t>> THEN <<>> ELSE waiting
    BY <1>9, ReturnEffect
  <2> QED
    BY <1>9, <2>1 DEF WaitReturn
<1>10. CASE TillGo(t)
  BY <1>10 DEF TillGo
<1> QED
  BY <1>1, <1>2, <1>3, <1>4, <1>5, <1>6, <1>7, <1>8, <1>9, <1>10 DEF LockStep

\* Every step keeps the rest of the inductive invariant.
LEMMA LockInvStep ==
  ASSUME LockIInv, NEW t \in Threads, LockStep(t)
  PROVE  LockIInv'
<1> USE NoThreadAssumption DEF LockTypeOK, MutualExclusion, Go, Take,
        Places, HoldPlaces, WaitPlaces
<1>0. LockTypeOK'
  BY LockTypeStep DEF LockIInv
<1>1. CASE Enter(t)
  <2>1. MutualExclusion'
    BY <1>0, <1>1 DEF LockIInv, Enter
  <2>2. ShortList'
    BY <1>0, <1>1 DEF LockIInv, Enter, ShortList
  <2>3. OneSleeper'
    BY <1>0, <1>1 DEF LockIInv, Enter, OneSleeper
  <2>4. Undisturbed'
    BY <1>0, <1>1 DEF LockIInv, Enter, Undisturbed, OneSleeper, Overtaken
  <2>5. Overtaken'
    BY <1>0, <1>1 DEF LockIInv, Enter, Overtaken
  <2>6. SignalledLate'
    BY <1>0, <1>1 DEF LockIInv, Enter, SignalledLate, OneSleeper, Overtaken
  <2>7. WokenForAReason'
    BY <1>0, <1>1 DEF LockIInv, Enter, WokenForAReason
  <2> QED
    BY <1>0, <2>1, <2>2, <2>3, <2>4, <2>5, <2>6, <2>7 DEF LockIInv
<1>2. CASE Acquire(t)
  <2>1. MutualExclusion'
    BY <1>0, <1>2 DEF LockIInv, Acquire
  <2>2. ShortList'
    BY <1>0, <1>2 DEF LockIInv, Acquire, ShortList
  <2>3. OneSleeper'
    BY <1>0, <1>2 DEF LockIInv, Acquire, OneSleeper
  <2>4. Undisturbed'
    BY <1>0, <1>2 DEF LockIInv, Acquire, Undisturbed, OneSleeper, Overtaken
  <2>5. Overtaken'
    BY <1>0, <1>2 DEF LockIInv, Acquire, Overtaken
  <2>6. SignalledLate'
    BY <1>0, <1>2 DEF LockIInv, Acquire, SignalledLate, OneSleeper, Overtaken
  <2>7. WokenForAReason'
    BY <1>0, <1>2 DEF LockIInv, Acquire, WokenForAReason
  <2> QED
    BY <1>0, <2>1, <2>2, <2>3, <2>4, <2>5, <2>6, <2>7 DEF LockIInv
<1>3. CASE ExitSignal(t)
  <2>a. /\ waiting' = <<>>
        /\ waiter' = [u \in Threads |-> waiter[u] \/ waiting = <<u>>]
        /\ \A u \in Threads : waiting' # <<u>>
    BY <1>3, ExitEffect, SingletonEnds DEF LockIInv
  <2>1. MutualExclusion'
    BY <1>0, <1>3, <2>a DEF LockIInv, ExitSignal
  <2>2. ShortList'
    BY <1>0, <1>3, <2>a DEF LockIInv, ExitSignal, ShortList
  <2>3. OneSleeper'
    BY <1>0, <1>3, <2>a DEF LockIInv, ExitSignal, OneSleeper
  <2>4. Undisturbed'
    BY <1>0, <1>3, <2>a DEF LockIInv, ExitSignal, Undisturbed, OneSleeper, Overtaken
  <2>5. Overtaken'
    BY <1>0, <1>3, <2>a DEF LockIInv, ExitSignal, Overtaken
  <2>6. SignalledLate'
    BY <1>0, <1>3, <2>a DEF LockIInv, ExitSignal, SignalledLate, OneSleeper, Overtaken
  <2>7. WokenForAReason'
    BY <1>0, <1>3, <2>a DEF LockIInv, ExitSignal, WokenForAReason
  <2> QED
    BY <1>0, <2>1, <2>2, <2>3, <2>4, <2>5, <2>6, <2>7 DEF LockIInv
<1>4. CASE Release(t)
  <2>1. MutualExclusion'
    BY <1>0, <1>4 DEF LockIInv, Release
  <2>2. ShortList'
    BY <1>0, <1>4 DEF LockIInv, Release, ShortList
  <2>3. OneSleeper'
    BY <1>0, <1>4 DEF LockIInv, Release, OneSleeper
  <2>4. Undisturbed'
    BY <1>0, <1>4 DEF LockIInv, Release, Undisturbed, OneSleeper, Overtaken
  <2>5. Overtaken'
    BY <1>0, <1>4 DEF LockIInv, Release, Overtaken
  <2>6. SignalledLate'
    BY <1>0, <1>4 DEF LockIInv, Release, SignalledLate, OneSleeper, Overtaken
  <2>7. WokenForAReason'
    BY <1>0, <1>4 DEF LockIInv, Release, WokenForAReason
  <2> QED
    BY <1>0, <2>1, <2>2, <2>3, <2>4, <2>5, <2>6, <2>7 DEF LockIInv
<1>5. CASE \E s \in TillStates : WaitRegister(t, s)
  <2>a. /\ waiting' = <<t>>
        /\ waiter' = [u \in Threads |-> u # t /\ (waiter[u] \/ waiting = <<u>>)]
        /\ \A u \in Threads : waiting' = <<u>> <=> u = t
    BY <1>5, RegisterEffect, SingletonEnds DEF LockIInv
  <2>1. MutualExclusion'
    BY <1>0, <1>5, <2>a DEF LockIInv, WaitRegister
  <2>2. ShortList'
    BY <1>0, <1>5, <2>a DEF LockIInv, WaitRegister, ShortList
  <2>3. OneSleeper'
    BY <1>0, <1>5, <2>a DEF LockIInv, WaitRegister, OneSleeper
  <2>4. Undisturbed'
    BY <1>0, <1>5, <2>a DEF LockIInv, WaitRegister, Undisturbed, OneSleeper, Overtaken
  <2>5. Overtaken'
    BY <1>0, <1>5, <2>a DEF LockIInv, WaitRegister, Overtaken
  <2>6. SignalledLate'
    BY <1>0, <1>5, <2>a DEF LockIInv, WaitRegister, SignalledLate, OneSleeper, Overtaken
  <2>7. WokenForAReason'
    BY <1>0, <1>5, <2>a DEF LockIInv, WaitRegister, WokenForAReason
  <2> QED
    BY <1>0, <2>1, <2>2, <2>3, <2>4, <2>5, <2>6, <2>7 DEF LockIInv
<1>6. CASE WaitRelease(t)
  <2>1. MutualExclusion'
    BY <1>0, <1>6 DEF LockIInv, WaitRelease
  <2>2. ShortList'
    BY <1>0, <1>6 DEF LockIInv, WaitRelease, ShortList
  <2>3. OneSleeper'
    BY <1>0, <1>6 DEF LockIInv, WaitRelease, OneSleeper
  <2>4. Undisturbed'
    BY <1>0, <1>6 DEF LockIInv, WaitRelease, Undisturbed, OneSleeper, Overtaken
  <2>5. Overtaken'
    BY <1>0, <1>6 DEF LockIInv, WaitRelease, Overtaken
  <2>6. SignalledLate'
    BY <1>0, <1>6 DEF LockIInv, WaitRelease, SignalledLate, OneSleeper, Overtaken
  <2>7. WokenForAReason'
    BY <1>0, <1>6 DEF LockIInv, WaitRelease, WokenForAReason
  <2> QED
    BY <1>0, <2>1, <2>2, <2>3, <2>4, <2>5, <2>6, <2>7 DEF LockIInv
<1>7. CASE Wake(t)
  <2>1. MutualExclusion'
    BY <1>0, <1>7 DEF LockIInv, Wake
  <2>2. ShortList'
    BY <1>0, <1>7 DEF LockIInv, Wake, ShortList
  <2>3. OneSleeper'
    BY <1>0, <1>7 DEF LockIInv, Wake, OneSleeper
  <2>4. Undisturbed'
    BY <1>0, <1>7 DEF LockIInv, Wake, Undisturbed, OneSleeper, Overtaken
  <2>5. Overtaken'
    BY <1>0, <1>7 DEF LockIInv, Wake, Overtaken
  <2>6. SignalledLate'
    BY <1>0, <1>7 DEF LockIInv, Wake, SignalledLate, OneSleeper, Overtaken
  <2>7. WokenForAReason'
    BY <1>0, <1>7 DEF LockIInv, Wake, WokenForAReason
  <2> QED
    BY <1>0, <2>1, <2>2, <2>3, <2>4, <2>5, <2>6, <2>7 DEF LockIInv
<1>8. CASE Reacquire(t)
  <2>1. MutualExclusion'
    BY <1>0, <1>8 DEF LockIInv, Reacquire
  <2>2. ShortList'
    BY <1>0, <1>8 DEF LockIInv, Reacquire, ShortList
  <2>3. OneSleeper'
    BY <1>0, <1>8 DEF LockIInv, Reacquire, OneSleeper
  <2>4. Undisturbed'
    BY <1>0, <1>8 DEF LockIInv, Reacquire, Undisturbed, OneSleeper, Overtaken
  <2>5. Overtaken'
    BY <1>0, <1>8 DEF LockIInv, Reacquire, Overtaken
  <2>6. SignalledLate'
    BY <1>0, <1>8 DEF LockIInv, Reacquire, SignalledLate, OneSleeper, Overtaken
  <2>7. WokenForAReason'
    BY <1>0, <1>8 DEF LockIInv, Reacquire, WokenForAReason
  <2> QED
    BY <1>0, <2>1, <2>2, <2>3, <2>4, <2>5, <2>6, <2>7 DEF LockIInv
<1>9. CASE WaitReturn(t)
  <2>a. /\ waiting' = IF waiting = <<t>> THEN <<>> ELSE waiting
        /\ \A u \in Threads : waiting' = <<u>> <=> waiting = <<u>> /\ u # t
    <3>1. waiting' = IF waiting = <<t>> THEN <<>> ELSE waiting
      BY <1>9, ReturnEffect DEF LockIInv
    <3> QED
      BY <3>1, SingletonEnds
  <2>1. MutualExclusion'
    BY <1>0, <1>9, <2>a DEF LockIInv, WaitReturn
  <2>2. ShortList'
    BY <1>0, <1>9, <2>a DEF LockIInv, WaitReturn, ShortList
  <2>3. OneSleeper'
    BY <1>0, <1>9, <2>a DEF LockIInv, WaitReturn, OneSleeper
  <2>4. Undisturbed'
    BY <1>0, <1>9, <2>a DEF LockIInv, WaitReturn, Undisturbed, OneSleeper, Overtaken
  <2>5. Overtaken'
    BY <1>0, <1>9, <2>a DEF LockIInv, WaitReturn, Overtaken
  <2>6. SignalledLate'
    BY <1>0, <1>9, <2>a DEF LockIInv, WaitReturn, SignalledLate, OneSleeper, Overtaken
  <2>7. WokenForAReason'
    BY <1>0, <1>9, <2>a DEF LockIInv, WaitReturn, WokenForAReason
  <2> QED
    BY <1>0, <2>1, <2>2, <2>3, <2>4, <2>5, <2>6, <2>7 DEF LockIInv
<1>10. CASE TillGo(t)
  <2>1. MutualExclusion'
    BY <1>0, <1>10 DEF LockIInv, TillGo
  <2>2. ShortList'
    BY <1>0, <1>10 DEF LockIInv, TillGo, ShortList
  <2>3. OneSleeper'
    BY <1>0, <1>10 DEF LockIInv, TillGo, OneSleeper
  <2>4. Undisturbed'
    BY <1>0, <1>10 DEF LockIInv, TillGo, Undisturbed, OneSleeper, Overtaken
  <2>5. Overtaken'
    BY <1>0, <1>10 DEF LockIInv, TillGo, Overtaken
  <2>6. SignalledLate'
    BY <1>0, <1>10 DEF LockIInv, TillGo, SignalledLate, OneSleeper, Overtaken
  <2>7. WokenForAReason'
    BY <1>0, <1>10 DEF LockIInv, TillGo, WokenForAReason
  <2> QED
    BY <1>0, <2>1, <2>2, <2>3, <2>4, <2>5, <2>6, <2>7 DEF LockIInv
<1> QED
  BY <1>1, <1>2, <1>3, <1>4, <1>5, <1>6, <1>7, <1>8, <1>9, <1>10 DEF LockStep

-----------------------------------------------------------------------------
(* The theorems                                                            *)

LEMMA LockInvAlways == LockSpec => []LockIInv
<1>1. LockInit => LockIInv
  BY LockInitInv
<1>2. LockIInv /\ [LockNext]_lockVars => LockIInv'
  <2>1. LockIInv /\ LockNext => LockIInv'
    BY LockInvStep DEF LockNext
  <2>2. LockIInv /\ UNCHANGED lockVars => LockIInv'
    BY DEF lockVars, LockIInv, LockTypeOK, MutualExclusion, ShortList, OneSleeper,
           Undisturbed, Overtaken, SignalledLate, WokenForAReason
  <2> QED
    BY <2>1, <2>2
<1> QED
  BY <1>1, <1>2, PTL DEF LockSpec

\* Every variable of the lock keeps its type.
THEOREM LockTypeCorrect == LockSpec => []LockTypeOK
<1>1. LockIInv => LockTypeOK
  BY DEF LockIInv
<1> QED
  BY <1>1, LockInvAlways, PTL

\* One thread at a time is between acquire() and release() (lock.py:40-50, 73, 80).
THEOREM LockExcludes == LockSpec => []MutualExclusion
<1>1. LockIInv => MutualExclusion
  BY DEF LockIInv
<1> QED
  BY <1>1, LockInvAlways, PTL

\* However many threads wait, at most one of them is unsignalled, and it is the one
\* in `waiting`: the next thread to leave the lock or to wait signals it.
THEOREM LockOneSleeper == LockSpec => []OneSleeper
<1>1. LockIInv => OneSleeper
  BY DEF LockIInv
<1> QED
  BY <1>1, LockInvAlways, PTL

\* The safety of the lock: it excludes, at most one waiter is left unsignalled, and it is
\* the one in `waiting` (lock.py:38-89).
THEOREM LockSafe == LockSpec => []LockInv
<1>1. LockTypeOK /\ MutualExclusion /\ OneSleeper <=> LockInv
  BY DEF LockInv
<1> QED
  BY <1>1, LockTypeCorrect, LockExcludes, LockOneSleeper, PTL

\* wait() returns True exactly if another thread had the lock while t did not
\* (lock.py:53-89): a False answer means that nothing the lock protects has changed.
THEOREM LockAnswersTruly == LockSpec => []TruthfulAnswer
<1>1. LockIInv => TruthfulAnswer
  BY DEF LockIInv, Undisturbed, SignalledLate, TruthfulAnswer, WaitPlaces
<1> QED
  BY <1>1, LockInvAlways, PTL

\* A thread that gives the lock up has signalled every waiter it overtook (lock.py:45-50, 61-73).
THEOREM LockLeavesNoSleeper == LockSpec => NoReleaseOverASleeper
<1> DEFINE Quiet ==
      \A t \in Threads :
        (holder # NoThread /\ holder' = NoThread /\ at[t] \in {"waiting", "woken"} /\ disturbed[t])
          => waiter[t]
<1>1. LockIInv /\ [LockNext]_lockVars => [Quiet]_lockVars
  <2>1. ASSUME LockIInv, NEW u \in Threads, LockStep(u), holder # NoThread, holder' = NoThread
        PROVE  at[u] \in {"leaving", "parting"} /\ holder = u
    BY <2>1, NoThreadAssumption
       DEF LockStep, Enter, Acquire, ExitSignal, Release, WaitRegister, WaitRelease, Wake,
           Reacquire, WaitReturn, TillGo, Take, LockIInv, MutualExclusion, HoldPlaces
  <2>2. LockIInv /\ LockNext => Quiet
    <3> SUFFICES ASSUME LockIInv, NEW u \in Threads, LockStep(u),
                        holder # NoThread, holder' = NoThread,
                        NEW t \in Threads, at[t] \in {"waiting", "woken"}, disturbed[t], ~ waiter[t]
                 PROVE  FALSE
      BY DEF LockNext
    <3>1. at[u] \in {"leaving", "parting"} /\ holder = u
      BY <2>1
    <3>2. PICK v \in Threads : holder = v /\ at[v] \in {"in", "back"}
      BY DEF LockIInv, Undisturbed
    <3> QED
      BY <3>1, <3>2
  <2> QED
    BY <2>2
<1> QED
  BY <1>1, LockInvAlways, PTL DEF LockSpec, NoReleaseOverASleeper

-----------------------------------------------------------------------------
(* The lock implements the abstract monitor                                *)

Parked == {t \in Threads : at[t] \in {"waiting", "woken"}}
Expired == {t \in Threads : till[t] = "gone"}
Touched == {t \in Threads : disturbed[t]}

LEMMA MonitorStep ==
  ASSUME LockIInv, NEW t \in Threads, LockStep(t)
  PROVE  MonitorOfLock!Next \/ UNCHANGED MonitorOfLock!monitorVars
<1> USE DEF LockTypeOK, Go, HoldPlaces, WaitPlaces, Places, TillStates
<1> DEFINE Same == UNCHANGED <<holder, Parked, Expired, answer, Touched>>
<1>a. LockTypeOK /\ LockTypeOK'
  BY LockTypeStep DEF LockIInv
<1>b. Same => UNCHANGED MonitorOfLock!monitorVars
  BY DEF MonitorOfLock!monitorVars, Parked, Expired, Touched
<1>1. CASE Enter(t) \/ ExitSignal(t) \/ Wake(t)
  <2>1. Parked' = Parked
    BY <1>a, <1>1 DEF Enter, ExitSignal, Wake, Parked
  <2>2. UNCHANGED <<holder, till, disturbed, answer>>
    BY <1>1 DEF Enter, ExitSignal, Wake
  <2> QED
    BY <1>b, <2>1, <2>2 DEF Expired, Touched
<1>2. CASE Acquire(t)
  <2>1. Parked' = Parked /\ t \notin Parked
    BY <1>a, <1>2 DEF Acquire, Parked
  <2>2. Touched' = Touched \cup (Parked \ {t})
    BY <1>a, <1>2 DEF Acquire, Take, Parked, Touched
  <2>3. UNCHANGED <<Expired, answer>> /\ holder = NoThread /\ holder' = t
    BY <1>2 DEF Acquire, Take, Expired
  <2>4. MonitorOfLock!Acquire(t)
    BY <2>1, <2>2, <2>3 DEF MonitorOfLock!Acquire, MonitorOfLock!TakenBy, Parked, Expired, Touched
  <2> QED
    BY <2>4 DEF MonitorOfLock!Next
<1>3. CASE Release(t)
  <2>1. Parked' = Parked /\ holder = t
    BY <1>a, <1>3 DEF Release, Parked, LockIInv, MutualExclusion
  <2>2. /\ UNCHANGED <<Expired, Touched>>
        /\ holder' = NoThread
        /\ answer' = [answer EXCEPT ![t] = FALSE]
    BY <1>3 DEF Release, Expired, Touched
  <2>3. MonitorOfLock!Release(t)
    BY <2>1, <2>2 DEF MonitorOfLock!Release, Parked, Expired, Touched
  <2> QED
    BY <2>3 DEF MonitorOfLock!Next
<1>4. CASE \E s \in TillStates : WaitRegister(t, s)
  <2>1. Parked' = Parked /\ holder = t
    BY <1>a, <1>4 DEF WaitRegister, Parked, LockIInv, MutualExclusion
  <2>2. Expired' \in {Expired \cup {t}, Expired \ {t}}
    <3>1. PICK s \in TillStates : till' = [till EXCEPT ![t] = s]
      BY <1>4 DEF WaitRegister
    <3>2. CASE s = "gone"
      <4>1. Expired' = Expired \cup {t}
        BY <1>a, <3>1, <3>2 DEF Expired
      <4> QED
        BY <4>1
    <3>3. CASE s # "gone"
      <4>1. Expired' = Expired \ {t}
        BY <1>a, <3>1, <3>3 DEF Expired
      <4> QED
        BY <4>1
    <3> QED
      BY <3>2, <3>3
  <2>3. UNCHANGED <<holder, Touched, answer>>
    BY <1>4 DEF WaitRegister, Touched
  <2>4. MonitorOfLock!Arm(t)
    BY <2>1, <2>2, <2>3 DEF MonitorOfLock!Arm, Parked, Expired, Touched
  <2> QED
    BY <2>4 DEF MonitorOfLock!Next
<1>5. CASE WaitRelease(t)
  <2>1. Parked' = Parked \cup {t} /\ holder = t
    BY <1>a, <1>5 DEF WaitRelease, Parked, LockIInv, MutualExclusion
  <2>2. Touched' = Touched \ {t}
    BY <1>a, <1>5 DEF WaitRelease, Touched
  <2>3. UNCHANGED <<Expired, answer>> /\ holder' = NoThread
    BY <1>5 DEF WaitRelease, Expired
  <2>4. MonitorOfLock!Park(t)
    BY <2>1, <2>2, <2>3 DEF MonitorOfLock!Park, Parked, Expired, Touched
  <2> QED
    BY <2>4 DEF MonitorOfLock!Next
<1>6. CASE Reacquire(t)
  <2>1. Parked' = Parked \ {t} /\ t \in Parked
    BY <1>a, <1>6 DEF Reacquire, Parked
  <2>2. Touched' = Touched \cup (Parked \ {t})
    BY <1>a, <1>6 DEF Reacquire, Take, Parked, Touched
  <2>3. UNCHANGED <<Expired, answer>> /\ holder = NoThread /\ holder' = t
    BY <1>6 DEF Reacquire, Take, Expired
  <2>4. t \in Touched \cup Expired
    BY <1>6 DEF Reacquire, LockIInv, SignalledLate, WokenForAReason, Touched, Expired
  <2>5. MonitorOfLock!Return(t)
    BY <2>1, <2>2, <2>3, <2>4
       DEF MonitorOfLock!Return, MonitorOfLock!TakenBy, Parked, Expired, Touched
  <2> QED
    BY <2>5 DEF MonitorOfLock!Next
<1>7. CASE WaitReturn(t)
  <2>1. Parked' = Parked /\ holder = t
    BY <1>a, <1>7 DEF WaitReturn, Parked, LockIInv, MutualExclusion
  <2>2. waiter[t] = disturbed[t]
    BY <1>a, <1>7 DEF WaitReturn, LockIInv, Undisturbed, SignalledLate
  <2>3. answer' = [answer EXCEPT ![t] = t \in Touched]
    <3>1. (t \in Touched) = waiter[t]
      BY <1>a, <2>2 DEF Touched
    <3> QED
      BY <1>7, <3>1 DEF WaitReturn
  <2>4. UNCHANGED holder /\ Expired' = Expired \ {t} /\ Touched' = Touched \ {t}
    BY <1>a, <1>7 DEF WaitReturn, Expired, Touched
  <2>5. MonitorOfLock!Reply(t)
    BY <2>1, <2>3, <2>4 DEF MonitorOfLock!Reply, Parked, Expired, Touched
  <2> QED
    BY <2>5 DEF MonitorOfLock!Next
<1>8. CASE TillGo(t)
  <2>1. Expired' = Expired \cup {t}
    BY <1>a, <1>8 DEF TillGo, Expired
  <2>2. UNCHANGED <<holder, Parked, Touched, answer>>
    BY <1>8 DEF TillGo, Parked, Touched
  <2>3. MonitorOfLock!Expire(t)
    BY <2>1, <2>2 DEF MonitorOfLock!Expire, Parked, Expired, Touched
  <2> QED
    BY <2>3 DEF MonitorOfLock!Next
<1> QED
  BY <1>1, <1>2, <1>3, <1>4, <1>5, <1>6, <1>7, <1>8 DEF LockStep

\* The detailed lock, with its waiters' signals and its list, implements the monitor:
\* every step of Lock is a step of Monitor or leaves it unchanged (lock.py:38-89).
THEOREM LockImplementsMonitor == LockSpec => ImplementsMonitor
<1>1. LockInit => MonitorOfLock!Init
  BY DEF LockInit, MonitorOfLock!Init
<1>2. LockIInv /\ [LockNext]_lockVars
        => MonitorOfLock!Next \/ UNCHANGED MonitorOfLock!monitorVars
  <2>1. LockIInv /\ LockNext => MonitorOfLock!Next \/ UNCHANGED MonitorOfLock!monitorVars
    BY MonitorStep DEF LockNext
  <2>2. UNCHANGED lockVars => UNCHANGED MonitorOfLock!monitorVars
    BY DEF lockVars, MonitorOfLock!monitorVars
  <2> QED
    BY <2>1, <2>2
<1> QED
  BY <1>1, <1>2, LockInvAlways, PTL DEF LockSpec, ImplementsMonitor, MonitorOfLock!Spec

-----------------------------------------------------------------------------
(* Queue: the inductive invariant                                          *)

\* s holds a THREAD_STOP; s holds nothing else; nothing else follows one in s
Stops(s) == \E i \in DOMAIN s : s[i] = STOP
OnlyStops(s) == \A i \in DOMAIN s : s[i] = STOP
StopsLast(s) == \A i, j \in DOMAIN s : (i < j /\ s[i] = STOP) => s[j] = STOP

\* where a thread is in the lock follows from how far its call is
StagePlaces(s) ==
  CASE s = "body" -> {"want", "in"}
    [] s = "waited" -> {"in"} \cup WaitPlaces
    [] s = "adding" -> {"in"}
    [] s = "leave" -> {"in", "leaving"}
    [] OTHER -> {"out"}

InStep == \A t \in Threads : at[t] \in StagePlaces(stage[t])

\* stop_waiting is not started before the first wait for space
TimerNotStarted ==
  \A t \in Threads :
    (call[t].op # "pop" /\ stage[t] = "body") => deadline[t] = "none"

\* a pop() that waits has found nothing, and there is nothing while nobody has the lock
EmptyWhileUndisturbed ==
  \A t \in Threads :
    /\ call[t].op = "pop"
    /\ at[t] \in WaitPlaces
    /\ at[t] # "parting" => ~ disturbed[t]
    => queue = <<>>

\* the second signal of a pop() that waits goes for one of pop's reasons
TillForAReason ==
  \A t \in Threads :
    (call[t].op = "pop" /\ at[t] \in WaitPlaces /\ till[t] = "gone")
      => closed \/ deadline[t] = "gone"

\* whoever is told to stop, or could be, is told so by a closed queue
StopMeansClosed == (stopped \/ Stops(queue)) => closed

\* a batch is added to a queue nobody was told is over
AddingBeforeStop ==
  \A t \in Threads : stage[t] = "adding" => ~ stopped /\ ~ Stops(queue)

\* nothing but THREAD_STOP follows a THREAD_STOP
StopsAtEnd == ~ AllowAddAfterClose => StopsLast(queue)

QueueIInv ==
  /\ LockIInv
  /\ QueueTypeOK
  /\ InStep
  /\ TimerNotStarted
  /\ EmptyWhileUndisturbed
  /\ TillForAReason
  /\ GivesUpOnEmpty
  /\ StopMeansClosed
  /\ AddingBeforeStop
  /\ StopsAtEnd
  /\ StopIsFinal
-----------------------------------------------------------------------------
(* What the queue's list operations do to its THREAD_STOPs                 *)

LEMMA AppendStops ==
  ASSUME NEW s \in Seq(Values), NEW v \in Values
  PROVE  /\ Append(s, v) \in Seq(Values)
         /\ Stops(Append(s, v)) <=> Stops(s) \/ v = STOP
         /\ OnlyStops(Append(s, v)) <=> OnlyStops(s) /\ v = STOP
         /\ ~ Stops(s) => StopsLast(Append(s, v))
         /\ StopsLast(s) /\ v = STOP => StopsLast(Append(s, v))
<1>1. /\ Append(s, v) \in Seq(Values)
      /\ Len(Append(s, v)) = Len(s) + 1
      /\ \A i \in 1 .. Len(s) : Append(s, v)[i] = s[i]
      /\ Append(s, v)[Len(s) + 1] = v
      /\ Len(s) \in Nat
  OBVIOUS
<1>2. DOMAIN s = 1 .. Len(s) /\ DOMAIN Append(s, v) = 1 .. (Len(s) + 1)
  BY <1>1
<1> HIDE DEF Values
<1> QED
  BY <1>1, <1>2 DEF Stops, OnlyStops, StopsLast

LEMMA PushStops ==
  ASSUME NEW s \in Seq(Values), NEW v \in Values, v # STOP
  PROVE  /\ <<v>> \o s \in Seq(Values)
         /\ Stops(<<v>> \o s) <=> Stops(s)
         /\ StopsLast(s) => StopsLast(<<v>> \o s)
<1> DEFINE r == <<v>> \o s
<1>1. /\ r \in Seq(Values)
      /\ Len(r) = Len(s) + 1
      /\ r[1] = v
      /\ \A i \in 1 .. Len(s) : r[i + 1] = s[i]
      /\ Len(s) \in Nat
  OBVIOUS
<1>2. DOMAIN s = 1 .. Len(s) /\ DOMAIN r = 1 .. (Len(s) + 1)
  BY <1>1
<1> HIDE DEF r
<1>3. \A j \in DOMAIN r \ {1} : j - 1 \in DOMAIN s /\ r[j] = s[j - 1]
  BY <1>1, <1>2
<1>4. \A i \in DOMAIN s : i + 1 \in DOMAIN r /\ r[i + 1] = s[i]
  BY <1>1, <1>2
<1>5. Stops(r) <=> Stops(s)
  BY <1>1, <1>2, <1>3, <1>4 DEF Stops
<1>6. StopsLast(s) => StopsLast(r)
  BY <1>1, <1>2, <1>3 DEF StopsLast
<1> QED
  BY <1>1, <1>5, <1>6 DEF r

LEMMA TailStops ==
  ASSUME NEW s \in Seq(Values), s # <<>>
  PROVE  /\ Head(s) \in Values
         /\ Tail(s) \in Seq(Values)
         /\ Stops(s) <=> Head(s) = STOP \/ Stops(Tail(s))
         /\ OnlyStops(s) => OnlyStops(Tail(s)) /\ Head(s) = STOP
         /\ StopsLast(s) => StopsLast(Tail(s))
         /\ StopsLast(s) /\ Head(s) = STOP => OnlyStops(Tail(s))
<1> DEFINE r == Tail(s)
<1>1. /\ r \in Seq(Values)
      /\ Len(s) = Len(r) + 1
      /\ Head(s) = s[1] /\ Head(s) \in Values
      /\ \A i \in 1 .. Len(r) : s[i + 1] = r[i]
      /\ Len(r) \in Nat
  OBVIOUS
<1>2. DOMAIN r = 1 .. Len(r) /\ DOMAIN s = 1 .. (Len(r) + 1)
  BY <1>1
<1> HIDE DEF r
<1>3. \A j \in DOMAIN s \ {1} : j - 1 \in DOMAIN r /\ s[j] = r[j - 1]
  BY <1>1, <1>2
<1>4. \A i \in DOMAIN r : i + 1 \in DOMAIN s /\ s[i + 1] = r[i] /\ i > 0
  BY <1>1, <1>2
<1>5. Stops(s) <=> Head(s) = STOP \/ Stops(r)
  BY <1>1, <1>2, <1>3, <1>4 DEF Stops
<1>6. OnlyStops(s) => OnlyStops(r) /\ Head(s) = STOP
  BY <1>1, <1>2, <1>4 DEF OnlyStops
<1>7. StopsLast(s) => StopsLast(r)
  BY <1>1, <1>2, <1>4 DEF StopsLast
<1>8. StopsLast(s) /\ Head(s) = STOP => OnlyStops(r)
  BY <1>1, <1>2, <1>4 DEF StopsLast, OnlyStops
<1> QED
  BY <1>1, <1>5, <1>6, <1>7, <1>8 DEF r

LEMMA NoStops == /\ ~ Stops(<<>>) /\ OnlyStops(<<>>) /\ StopsLast(<<>>)
BY DEF Stops, OnlyStops, StopsLast

\* Enqueue leaves the queue as it is, or puts v at its back
LEMMA EnqueueEffect ==
  ASSUME NEW v, Enqueue(v)
  PROVE  queue' = queue \/ queue' = Append(queue, v)
BY DEF Enqueue

-----------------------------------------------------------------------------
(* What a step of t leaves alone                                           *)

\* anything t can do, or that can happen to the signals it waits for
Acts(t) == Request(t) \/ Step(t) \/ WaitTillGo(t) \/ DeadlineGo(t)

LEMMA LockStepOfQueue ==
  ASSUME NEW t \in Threads, Acts(t)
  PROVE  LockStep(t) \/ UNCHANGED lockVars
<1> USE DEF LockStep
<1>1. CASE Request(t)
  BY <1>1 DEF Request, Begin, RefuseEarly, Close
<1>2. CASE Produce(t)
  BY <1>2 DEF Produce, AddStop, AddItem, AddRefused, StartAdding, Drop, ExtendOne, PushOne,
             AddedAll, WaitForSpace, SpaceTimeout, TillStates
<1>3. CASE Consume(t)
  BY <1>3 DEF Consume, PopItem, PopClosed, PopWait, PopGivesUp, PopOne, PopAll, TillStates
<1>4. CASE LockMove(t) \/ Leave(t) \/ Return(t) \/ WaitTillGo(t) \/ DeadlineGo(t)
  BY <1>4 DEF LockMove, Leave, Return, WaitTillGo, DeadlineGo
<1> QED
  BY <1>1, <1>2, <1>3, <1>4 DEF Acts, Step

\* The calls of the other threads, and where they are, stay as they are.
OthersAsTheyWere(t) ==
  \A u \in Threads \ {t} :
    /\ call'[u] = call[u] /\ stage'[u] = stage[u]
    /\ deadline'[u] = deadline[u] /\ ret'[u] = ret[u]
    /\ at'[u] = at[u] /\ till'[u] = till[u] /\ answer'[u] = answer[u]
    /\ at[u] \in WaitPlaces /\ disturbed[u] => disturbed'[u]

LEMMA LockOthers ==
  ASSUME LockTypeOK, NEW t \in Threads, LockStep(t), NEW u \in Threads \ {t}
  PROVE  /\ at'[u] = at[u] /\ till'[u] = till[u] /\ answer'[u] = answer[u]
         /\ at[u] \in WaitPlaces /\ disturbed[u] => disturbed'[u]
BY DEF LockTypeOK, LockStep, Enter, Acquire, ExitSignal, Release, WaitRegister, WaitRelease,
       Wake, Reacquire, WaitReturn, TillGo, Take, Go

LEMMA OthersKept ==
  ASSUME QueueTypeOK, NEW t \in Threads, Acts(t)
  PROVE  OthersAsTheyWere(t)
<1> SUFFICES ASSUME NEW u \in Threads \ {t}
             PROVE  /\ call'[u] = call[u] /\ stage'[u] = stage[u]
                    /\ deadline'[u] = deadline[u] /\ ret'[u] = ret[u]
                    /\ at'[u] = at[u] /\ till'[u] = till[u] /\ answer'[u] = answer[u]
                    /\ at[u] \in WaitPlaces /\ disturbed[u] => disturbed'[u]
  BY DEF OthersAsTheyWere
<1>a. /\ at'[u] = at[u] /\ till'[u] = till[u] /\ answer'[u] = answer[u]
      /\ at[u] \in WaitPlaces /\ disturbed[u] => disturbed'[u]
  BY LockStepOfQueue, LockOthers DEF QueueTypeOK, lockVars
<1> USE DEF QueueTypeOK, Finish
<1>1. CASE Request(t)
  BY <1>1, <1>a DEF Request, Begin, RefuseEarly, Close
<1>2. CASE Produce(t)
  BY <1>2, <1>a DEF Produce, AddStop, AddItem, AddRefused, StartAdding, Drop, ExtendOne,
             PushOne, DropArg, AddedAll, WaitForSpace, SpaceTimeout
<1>3. CASE Consume(t)
  BY <1>3, <1>a DEF Consume, PopItem, PopClosed, PopWait, PopGivesUp, PopOne, PopAll, TakeFirst
<1>4. CASE LockMove(t) \/ Leave(t) \/ Return(t) \/ WaitTillGo(t) \/ DeadlineGo(t)
  BY <1>4, <1>a DEF LockMove, Leave, Return, WaitTillGo, DeadlineGo, queueVars
<1> QED
  BY <1>1, <1>2, <1>3, <1>4 DEF Acts, Step

\* What t may change while it has the lock concerns nobody else: nobody else is between
\* acquire() and release(), and whoever waits has been overtaken.
LEMMA HoldingAlone ==
  ASSUME QueueIInv, NEW t \in Threads, at[t] = "in", NEW u \in Threads \ {t}
  PROVE  /\ at[u] \notin HoldPlaces
         /\ stage[u] # "adding"
         /\ at[u] \in WaitPlaces => disturbed[u] /\ at[u] # "parting"
<1>1. holder = t /\ at[u] \notin HoldPlaces
  BY DEF QueueIInv, LockIInv, MutualExclusion, HoldPlaces
<1>2. stage[u] # "adding"
  BY <1>1 DEF QueueIInv, InStep, StagePlaces, HoldPlaces
<1>3. at[u] \in WaitPlaces => at[u] \in {"waiting", "woken"}
  BY <1>1 DEF HoldPlaces, WaitPlaces
<1>4. at[u] \in {"waiting", "woken"} => disturbed[u]
  BY <1>1, NoThreadAssumption DEF QueueIInv, LockIInv, Overtaken
<1> QED
  BY <1>1, <1>2, <1>3, <1>4

-----------------------------------------------------------------------------
(* Types                                                                   *)

LEMMA CallParts ==
  ASSUME NEW c \in Calls
  PROVE  /\ c.op \in Producing \cup Consuming \cup {"close"}
         /\ c.args \in Seq(Values)
         /\ c.force \in BOOLEAN
         /\ c.till \in TillStates
         /\ c.op # "pop" => c.till = "none"
BY DEF Calls

\* an add that is not of THREAD_STOP adds an item
LEMMA AddedItem ==
  ASSUME NEW c \in Calls, c.op = "add", c.args # <<STOP>>
  PROVE  Head(c.args) \in Items /\ Head(c.args) # STOP
<1>1. c.args \in Seq(Values) /\ Len(c.args) = 1
  BY DEF Calls
<1>2. c.args = <<Head(c.args)>> /\ Head(c.args) \in Values
  BY <1>1 DEF Values
<1> QED
  BY <1>2, ValuesAssumption DEF Values

\* push and extend go through their values one by one
LEMMA ArgDropped ==
  ASSUME NEW c \in Calls, c.op \in {"push", "extend"}, c.args # <<>>
  PROVE  /\ [c EXCEPT !.args = Tail(c.args)] \in Calls
         /\ Head(c.args) \in Values
         /\ c.op = "push" => Head(c.args) \in Items
<1>1. /\ c.args \in Seq(Values)
      /\ Tail(c.args) \in Seq(Values)
      /\ Head(c.args) \in Values
  BY CallParts
<1>2. c.op = "push" => Tail(c.args) \in Seq(Items) /\ Head(c.args) \in Items
  BY DEF Calls
<1> HIDE DEF Values
<1> QED
  BY <1>1, <1>2 DEF Calls, Producing, Consuming

LEMMA NoCallIsCall == NoCall \in Calls
BY DEF NoCall, Calls, Producing, Consuming, TillStates

LEMMA QueueTypeStep ==
  ASSUME LockIInv, QueueTypeOK, NEW t \in Threads, Acts(t)
  PROVE  QueueTypeOK'
<1>a. LockTypeOK'
  BY LockStepOfQueue, LockTypeStep DEF LockIInv, LockTypeOK, lockVars
<1>b. call[t] \in Calls /\ call[t].args \in Seq(Values)
  BY CallParts DEF QueueTypeOK
<1> USE DEF QueueTypeOK, Finish, Answers
<1>1. CASE Request(t)
  <2>1. PICK c \in Calls : Begin(t, c) \/ RefuseEarly(t, c) \/ Close(t, c)
    BY <1>1, RequestsAssumption DEF Request
  <2>2. /\ UNCHANGED <<queue, stopped>>
        /\ closed' = closed \/ closed' = TRUE
        /\ call' = call \/ call' = [call EXCEPT ![t] = c]
        /\ \/ stage' = stage
           \/ stage' = [stage EXCEPT ![t] = "body"]
           \/ stage' = [stage EXCEPT ![t] = "over"]
        /\ deadline' = deadline \/ deadline' = [deadline EXCEPT ![t] = c.till]
        /\ ret' = ret \/ ret' = [ret EXCEPT ![t] = "refused"]
    <3> HIDE DEF QueueTypeOK, Finish, Answers
    <3>1. CASE Begin(t, c)
      BY <3>1 DEF Begin
    <3>2. CASE RefuseEarly(t, c)
      BY <3>2 DEF RefuseEarly
    <3>3. CASE Close(t, c)
      BY <3>3 DEF Close
    <3> QED
      BY <2>1, <3>1, <3>2, <3>3
  <2>3. closed' \in BOOLEAN /\ call' \in [Threads -> Calls]
    BY <2>2
  <2>4. stage' \in [Threads -> Stages] /\ deadline' \in [Threads -> TillStates]
    BY <2>2, CallParts DEF Stages
  <2> QED
    BY <1>a, <2>2, <2>3, <2>4
<1>2. CASE AddStop(t)
  <2>1. Append(queue, STOP) \in Seq(Values)
    BY AppendStops DEF Values
  <2> QED
    BY <1>a, <1>2, <2>1 DEF AddStop, Stages
<1>3. CASE AddItem(t)
  <2>1. Head(call[t].args) \in Items
    BY <1>b, <1>3, AddedItem DEF AddItem, Running
  <2>2. queue' \in Seq(Values)
    <3>1. Append(queue, Head(call[t].args)) \in Seq(Values)
      BY <2>1, AppendStops DEF Values
    <3> QED
      BY <1>3, <3>1, EnqueueEffect DEF AddItem
  <2> QED
    BY <1>a, <1>3, <2>2 DEF AddItem, Stages
<1>4. CASE ExtendOne(t) \/ PushOne(t)
  <2>1. call[t].op \in {"push", "extend"} /\ call[t].args # <<>>
    BY <1>4 DEF ExtendOne, PushOne
  <2>2. /\ [call[t] EXCEPT !.args = Tail(call[t].args)] \in Calls
        /\ NextArg(t) \in Values
        /\ call[t].op = "push" => NextArg(t) \in Items
    BY <1>b, <2>1, ArgDropped DEF NextArg
  <2>3. call' \in [Threads -> Calls]
    BY <1>4, <2>2 DEF ExtendOne, PushOne, DropArg
  <2>4. queue' \in Seq(Values)
    <3>1. CASE ExtendOne(t)
      BY <2>2, <3>1, AppendStops, EnqueueEffect DEF ExtendOne
    <3>2. CASE PushOne(t)
      BY <2>2, <3>2, PushStops, ValuesAssumption DEF PushOne
    <3> QED
      BY <1>4, <3>1, <3>2
  <2> QED
    BY <1>a, <1>4, <2>3, <2>4 DEF ExtendOne, PushOne, Stages
<1>5. CASE \/ AddRefused(t) \/ StartAdding(t) \/ Drop(t)
          \/ AddedAll(t) \/ WaitForSpace(t) \/ SpaceTimeout(t)
  BY <1>a, <1>5
     DEF AddRefused, StartAdding, Drop, AddedAll, WaitForSpace, SpaceTimeout, Stages, TillStates
<1>6. CASE PopItem(t) \/ PopOne(t)
  <2>1. queue # <<>> => Head(queue) \in Values /\ Tail(queue) \in Seq(Values)
    BY TailStops
  <2> QED
    BY <1>a, <1>6, <2>1 DEF PopItem, PopOne, TakeFirst, Stages, Values
<1>7. CASE PopClosed(t) \/ PopWait(t) \/ PopGivesUp(t) \/ PopAll(t)
  <2>1. STOP \in Values /\ <<>> \in Seq(Values)
    BY DEF Values
  <2>2. queue' \in Seq(Values) /\ closed' \in BOOLEAN /\ stopped' \in BOOLEAN
    BY <1>7, <2>1 DEF PopClosed, PopWait, PopGivesUp, PopAll
  <2>3. ret' \in [Threads -> Values \cup {None} \cup Answers]
    BY <1>7, <2>1 DEF PopClosed, PopWait, PopGivesUp, PopAll
  <2> QED
    BY <1>a, <1>7, <2>2, <2>3 DEF PopClosed, PopWait, PopGivesUp, PopAll, Stages
<1>8. CASE LockMove(t) \/ Leave(t) \/ Return(t) \/ WaitTillGo(t) \/ DeadlineGo(t)
  BY <1>a, <1>8, NoCallIsCall
     DEF LockMove, Leave, Return, WaitTillGo, DeadlineGo, queueVars, Stages, TillStates
<1> QED
  BY <1>1, <1>2, <1>3, <1>4, <1>5, <1>6, <1>7, <1>8 DEF Acts, Step, Produce, Consume

-----------------------------------------------------------------------------
(* One lemma for each conjunct of the inductive invariant                  *)

LEMMA InStepStep ==
  ASSUME QueueIInv, NEW t \in Threads, Acts(t)
  PROVE  InStep'
<1>a. at[t] \in StagePlaces(stage[t]) /\ QueueTypeOK /\ LockTypeOK
  BY DEF QueueIInv, InStep, QueueTypeOK
<1> SUFFICES at'[t] \in StagePlaces(stage'[t])
  BY <1>a, OthersKept DEF QueueIInv, InStep, OthersAsTheyWere
<1> USE DEF StagePlaces, WaitPlaces, Go, Running, Finish, QueueTypeOK, LockTypeOK
<1>1. CASE Request(t)
  BY <1>a, <1>1 DEF Request, Begin, RefuseEarly, Close, Enter, lockVars
<1>2. CASE Produce(t)
  BY <1>a, <1>2 DEF Produce, AddStop, AddItem, AddRefused, StartAdding, Drop, ExtendOne,
       PushOne, AddedAll, WaitForSpace, SpaceTimeout, WaitRegister, lockVars
<1>3. CASE Consume(t)
  BY <1>a, <1>3 DEF Consume, PopItem, PopClosed, PopWait, PopGivesUp, PopOne, PopAll, Looping,
       TakeFirst, WaitRegister, lockVars
<1>4. CASE LockMove(t)
  BY <1>a, <1>4 DEF LockMove, Acquire, WaitRelease, Wake, Reacquire, WaitReturn, queueVars
<1>5. CASE Leave(t) \/ Return(t)
  BY <1>a, <1>5 DEF Leave, Return, ExitSignal, Release, queueVars, lockVars
<1>6. CASE WaitTillGo(t) \/ DeadlineGo(t)
  BY <1>a, <1>6 DEF WaitTillGo, TillGo, DeadlineGo, queueVars, lockVars
<1> QED
  BY <1>1, <1>2, <1>3, <1>4, <1>5, <1>6 DEF Acts, Step

LEMMA TimerNotStartedStep ==
  ASSUME QueueIInv, NEW t \in Threads, Acts(t)
  PROVE  TimerNotStarted'
<1>a. QueueTypeOK /\ ((call[t].op # "pop" /\ stage[t] = "body") => deadline[t] = "none")
  BY DEF QueueIInv, TimerNotStarted
<1> SUFFICES (call'[t].op # "pop" /\ stage'[t] = "body") => deadline'[t] = "none"
  BY OthersKept DEF QueueIInv, TimerNotStarted, OthersAsTheyWere
<1> USE DEF Finish, QueueTypeOK
<1>1. CASE Request(t)
  <2>1. PICK c \in Calls : Begin(t, c) \/ RefuseEarly(t, c) \/ Close(t, c)
    BY <1>1, RequestsAssumption DEF Request
  <2> QED
    BY <1>a, <2>1, CallParts DEF Begin, RefuseEarly, Close
<1>2. CASE Produce(t)
  <2>1. CASE ExtendOne(t) \/ PushOne(t)
    BY <1>a, <2>1 DEF ExtendOne, PushOne
  <2> QED
    BY <1>a, <1>2, <2>1 DEF Produce, AddStop, AddItem, AddRefused, StartAdding, Drop, AddedAll,
         WaitForSpace, SpaceTimeout
<1>3. CASE Consume(t)
  BY <1>a, <1>3 DEF Consume, PopItem, PopClosed, PopWait, PopGivesUp, PopOne, PopAll, TakeFirst
<1>4. CASE LockMove(t) \/ Leave(t) \/ Return(t) \/ WaitTillGo(t) \/ DeadlineGo(t)
  BY <1>a, <1>4 DEF LockMove, Leave, Return, WaitTillGo, DeadlineGo, queueVars
<1> QED
  BY <1>1, <1>2, <1>3, <1>4 DEF Acts, Step

\* only a thread that has the lock and is not waiting changes the queue
LEMMA QueueChanges ==
  ASSUME QueueIInv, NEW t \in Threads, Acts(t)
  PROVE  \/ at[t] = "in" /\ at'[t] = "in" /\ stage'[t] # "waited"
         \/ queue' = queue
<1>a. LockTypeOK
  BY DEF QueueIInv, QueueTypeOK
<1> USE DEF LockTypeOK, QueueTypeOK, QueueIInv, Running, Finish
<1>1. CASE Produce(t)
  BY <1>1, <1>a DEF Produce, AddStop, AddItem, AddRefused, StartAdding, Drop, ExtendOne,
       PushOne, AddedAll, WaitForSpace, SpaceTimeout, lockVars
<1>2. CASE Consume(t)
  BY <1>2, <1>a DEF Consume, PopItem, PopClosed, PopWait, PopGivesUp, PopOne, PopAll, Looping,
       TakeFirst, lockVars
<1>3. CASE Request(t) \/ LockMove(t) \/ Leave(t) \/ Return(t) \/ WaitTillGo(t) \/ DeadlineGo(t)
  BY <1>3 DEF Request, Begin, RefuseEarly, Close, LockMove, Leave, Return, WaitTillGo,
       DeadlineGo, queueVars
<1> QED
  BY <1>1, <1>2, <1>3 DEF Acts, Step

\* a producer stays in the lock, or is not a pop()
LEMMA ProducerNoPop ==
  ASSUME QueueTypeOK, NEW t \in Threads, Produce(t)
  PROVE  at'[t] = "in" \/ call'[t].op # "pop"
<1>1. CASE WaitForSpace(t)
  BY <1>1 DEF WaitForSpace, Running, Producing
<1>2. CASE Produce(t) /\ ~ WaitForSpace(t)
  BY <1>2 DEF Produce, AddStop, AddItem, AddRefused, StartAdding, Drop, ExtendOne, PushOne,
       AddedAll, SpaceTimeout, Running, lockVars
<1> QED
  BY <1>1, <1>2

LEMMA EmptyWhileUndisturbedStep ==
  ASSUME QueueIInv, NEW t \in Threads, Acts(t)
  PROVE  EmptyWhileUndisturbed'
<1> DEFINE Empty(u) ==
      /\ call[u].op = "pop"
      /\ at[u] \in WaitPlaces
      /\ at[u] # "parting" => ~ disturbed[u]
      => queue = <<>>
<1>a. QueueTypeOK /\ LockTypeOK /\ \A u \in Threads : Empty(u)
  BY DEF QueueIInv, QueueTypeOK, EmptyWhileUndisturbed
<1>b. ASSUME NEW u \in Threads \ {t} PROVE Empty(u)'
  <2>1. CASE queue' = queue
    BY <1>a, <2>1, OthersKept DEF OthersAsTheyWere
  <2>2. CASE at[t] = "in"
    BY <1>a, <2>2, OthersKept, HoldingAlone DEF OthersAsTheyWere
  <2> QED
    BY <2>1, <2>2, QueueChanges
<1>c. Empty(t)'
  <2> USE DEF Go, QueueTypeOK, LockTypeOK, WaitPlaces, Running
  <2>1. CASE Request(t)
    <3>1. \/ at'[t] \in {"want", "out"}
          \/ UNCHANGED <<call, at, disturbed, queue>>
      BY <1>a, <2>1
         DEF Request, Begin, RefuseEarly, Close, Enter, lockVars, QueueIInv, InStep, StagePlaces
    <3> QED
      BY <1>a, <3>1
  <2>2. CASE Produce(t)
    BY <1>a, <2>2, ProducerNoPop
  <2>3. CASE Consume(t)
    BY <1>a, <2>3 DEF Consume, PopItem, PopClosed, PopWait, PopGivesUp, PopOne, PopAll, Looping,
       WaitRegister, lockVars
  <2>4. CASE LockMove(t)
    BY <1>a, <2>4 DEF LockMove, Acquire, WaitRelease, Wake, Reacquire, WaitReturn, Take, queueVars
  <2>5. CASE Leave(t) \/ Return(t)
    BY <1>a, <2>5 DEF Leave, Return, ExitSignal, Release, queueVars, lockVars, NoCall
  <2>6. CASE WaitTillGo(t) \/ DeadlineGo(t)
    BY <1>a, <2>6 DEF WaitTillGo, TillGo, DeadlineGo, queueVars, lockVars
  <2> QED
    BY <2>1, <2>2, <2>3, <2>4, <2>5, <2>6 DEF Acts, Step
<1> QED
  BY <1>b, <1>c DEF EmptyWhileUndisturbed

\* `closed` goes once
LEMMA ClosedStays ==
  ASSUME NEW t \in Threads, Acts(t), closed
  PROVE  closed'
<1> USE DEF Acts, Step
<1>1. CASE Request(t)
  BY <1>1 DEF Request, Begin, RefuseEarly, Close
<1>2. CASE Produce(t)
  BY <1>2 DEF Produce, AddStop, AddItem, AddRefused, StartAdding, Drop, ExtendOne, PushOne,
       AddedAll, WaitForSpace, SpaceTimeout
<1>3. CASE Consume(t)
  BY <1>3 DEF Consume, PopItem, PopClosed, PopWait, PopGivesUp, PopOne, PopAll
<1>4. CASE LockMove(t) \/ Leave(t) \/ Return(t) \/ WaitTillGo(t) \/ DeadlineGo(t)
  BY <1>4 DEF LockMove, Leave, Return, WaitTillGo, DeadlineGo, queueVars
<1> QED
  BY <1>1, <1>2, <1>3, <1>4

LEMMA TillForAReasonStep ==
  ASSUME QueueIInv, NEW t \in Threads, Acts(t)
  PROVE  TillForAReason'
<1> DEFINE Reason(u) ==
      (call[u].op = "pop" /\ at[u] \in WaitPlaces /\ till[u] = "gone")
        => closed \/ deadline[u] = "gone"
<1>a. QueueTypeOK /\ LockTypeOK /\ \A u \in Threads : Reason(u)
  BY DEF QueueIInv, QueueTypeOK, TillForAReason
<1>b. ASSUME NEW u \in Threads \ {t} PROVE Reason(u)'
  BY <1>a, OthersKept, ClosedStays DEF OthersAsTheyWere
<1>c. Reason(t)'
  <2> USE ClosedStays DEF Go, QueueTypeOK, LockTypeOK, WaitPlaces, Running, TillStates
  <2>1. CASE Request(t)
    <3>1. \/ at'[t] \in {"want", "out"}
          \/ UNCHANGED <<call, at, till, deadline>>
      BY <1>a, <2>1
         DEF Request, Begin, RefuseEarly, Close, Enter, lockVars, QueueIInv, InStep, StagePlaces
    <3> QED
      BY <1>a, <3>1
  <2>2. CASE Produce(t)
    BY <1>a, <2>2, ProducerNoPop
  <2>3. CASE Consume(t)
    BY <1>a, <2>3 DEF Consume, PopItem, PopClosed, PopWait, PopGivesUp, PopOne, PopAll, Looping,
       WaitRegister, lockVars
  <2>4. CASE LockMove(t)
    BY <1>a, <2>4 DEF LockMove, Acquire, WaitRelease, Wake, Reacquire, WaitReturn, queueVars
  <2>5. CASE Leave(t) \/ Return(t)
    BY <1>a, <2>5 DEF Leave, Return, ExitSignal, Release, queueVars, lockVars, NoCall
  <2>6. CASE WaitTillGo(t) \/ DeadlineGo(t)
    BY <1>a, <2>6 DEF WaitTillGo, TillGo, DeadlineGo, queueVars, lockVars
  <2> QED
    BY <2>1, <2>2, <2>3, <2>4, <2>5, <2>6 DEF Acts, Step
<1> QED
  BY <1>b, <1>c DEF TillForAReason

LEMMA GivesUpOnEmptyStep ==
  ASSUME QueueIInv, NEW t \in Threads, Acts(t)
  PROVE  GivesUpOnEmpty'
<1> DEFINE Sound(u) ==
      (Running(u, "pop") /\ stage[u] = "waited" /\ ~ answer[u])
        => queue = <<>> /\ (closed \/ deadline[u] = "gone")
<1>a. QueueTypeOK /\ LockTypeOK /\ \A u \in Threads : Sound(u)
  BY DEF QueueIInv, QueueTypeOK, GivesUpOnEmpty
<1>b. ASSUME NEW u \in Threads \ {t} PROVE Sound(u)'
  <2>1. CASE at[u] = "in"
    <3>1. at[t] # "in"
      BY <2>1, HoldingAlone DEF HoldPlaces
    <3> QED
      BY <1>a, <2>1, <3>1, OthersKept, QueueChanges, ClosedStays DEF OthersAsTheyWere, Running
  <2>2. CASE at[u] # "in"
    BY <2>2, OthersKept, <1>a DEF OthersAsTheyWere, Running
  <2> QED
    BY <2>1, <2>2
<1>c. Sound(t)'
  <2> USE DEF Go, QueueTypeOK, LockTypeOK, Running
  <2>1. CASE Request(t) \/ Return(t)
    BY <1>a, <2>1 DEF Request, Begin, RefuseEarly, Close, Return, lockVars
  <2>2. CASE Produce(t)
    <3>1. CASE WaitForSpace(t)
      BY <1>a, <3>1 DEF WaitForSpace, WaitRegister
    <3>2. CASE AddStop(t) \/ AddItem(t) \/ AddRefused(t) \/ Drop(t) \/ AddedAll(t) \/ SpaceTimeout(t)
      BY <1>a, <3>2 DEF AddStop, AddItem, AddRefused, Drop, AddedAll, SpaceTimeout, Finish
    <3>3. CASE StartAdding(t) \/ ExtendOne(t) \/ PushOne(t)
      BY <1>a, <3>3 DEF StartAdding, ExtendOne, PushOne
    <3> QED
      BY <2>2, <3>1, <3>2, <3>3 DEF Produce
  <2>3. CASE Consume(t)
    BY <1>a, <2>3 DEF Consume, PopItem, PopClosed, PopWait, PopGivesUp, PopOne, PopAll,
       TakeFirst, Finish, WaitRegister, lockVars
  <2>4. CASE WaitReturn(t) /\ UNCHANGED queueVars
    <3>1. SUFFICES ASSUME call[t].op = "pop", ~ waiter[t]
                   PROVE  queue = <<>> /\ (closed \/ deadline[t] = "gone")
      BY <1>a, <2>4 DEF WaitReturn, queueVars
    <3>2. at[t] = "back" /\ at[t] \in WaitPlaces
      BY <2>4 DEF WaitReturn, WaitPlaces
    <3>3. ~ disturbed[t]
      BY <3>1, <3>2 DEF QueueIInv, LockIInv, Undisturbed
    <3>4. till[t] = "gone"
      BY <3>1, <3>2 DEF QueueIInv, LockIInv, WokenForAReason
    <3> QED
      BY <3>1, <3>2, <3>3, <3>4 DEF QueueIInv, EmptyWhileUndisturbed, TillForAReason
  <2>5. CASE LockMove(t) /\ ~ WaitReturn(t)
    <3>1. at[t] \in {"want", "parting", "waiting", "woken"} /\ UNCHANGED queueVars
      BY <2>5 DEF LockMove, Acquire, WaitRelease, Wake, Reacquire
    <3>2. at'[t] = "in" => stage[t] = "body"
      BY <1>a, <2>5 DEF LockMove, Acquire, WaitRelease, Wake, Reacquire, QueueIInv, InStep,
           StagePlaces, WaitPlaces
    <3> QED
      BY <3>1, <3>2 DEF queueVars
  <2>6. CASE Leave(t)
    BY <1>a, <2>6 DEF Leave, ExitSignal, queueVars
  <2>7. CASE WaitTillGo(t)
    BY <1>a, <2>7 DEF WaitTillGo, TillGo, WaitPlaces, queueVars
  <2>8. CASE DeadlineGo(t)
    BY <1>a, <2>8 DEF DeadlineGo, lockVars
  <2> QED
    BY <2>1, <2>2, <2>3, <2>4, <2>5, <2>6, <2>7, <2>8 DEF Acts, Step, LockMove
<1> QED
  BY <1>b, <1>c DEF GivesUpOnEmpty

\* What THREAD_STOP means to the queue: the conjuncts that hold together.
StopInv ==
  /\ StopMeansClosed
  /\ AddingBeforeStop
  /\ StopsAtEnd
  /\ StopIsFinal

LEMMA StopInvStep ==
  ASSUME QueueIInv, NEW t \in Threads, Acts(t)
  PROVE  StopInv'
<1>a. QueueTypeOK /\ LockTypeOK /\ StopInv
  BY DEF QueueIInv, QueueTypeOK, StopInv
<1>b. queue \in Seq(Values) /\ call[t] \in Calls /\ STOP \in Values
  BY <1>a DEF QueueTypeOK, Values
<1>c. StopIsFinal <=> (stopped /\ ~ AllowAddAfterClose => OnlyStops(queue))
  BY DEF StopIsFinal, OnlyStops
<1>d. StopIsFinal' <=> (stopped' /\ ~ AllowAddAfterClose => OnlyStops(queue'))
  BY DEF StopIsFinal, OnlyStops
<1>e. at[t] = "in" => \A u \in Threads \ {t} : stage[u] # "adding"
  BY HoldingAlone
<1>f. \A u \in Threads \ {t} : stage'[u] = stage[u]
  BY <1>a, OthersKept DEF OthersAsTheyWere
<1>g. Stops(queue)' <=> Stops(queue')
  OBVIOUS
<1> USE DEF StopInv, StopMeansClosed, AddingBeforeStop, StopsAtEnd
\* no change but of `closed`, or of where the threads are
<1>1. ASSUME queue' = queue, stopped' = stopped, closed => closed',
             stage'[t] = "adding" => stage[t] = "adding" \/ ~ closed
      PROVE  StopInv'
  BY <1>1, <1>a, <1>c, <1>d, <1>f
<1>2. CASE AddStop(t)
  <2>1. /\ queue' = Append(queue, STOP) /\ closed' /\ stopped' = stopped
        /\ at[t] = "in" /\ stage'[t] = "leave"
    BY <1>2, <1>a DEF AddStop, Running, Finish, QueueTypeOK
  <2>2. OnlyStops(queue) => OnlyStops(queue')
    BY <1>b, <2>1, AppendStops
  <2>3. StopsLast(queue) => StopsLast(queue')
    BY <1>b, <2>1, AppendStops
  <2> QED
    BY <1>a, <1>c, <1>d, <1>e, <1>f, <2>1, <2>2, <2>3
<1>3. ASSUME NEW v \in Values \ {STOP}, queue' = queue \/ queue' = Append(queue, v),
             ~ closed \/ AllowAddAfterClose \/ stage[t] = "adding",
             at[t] = "in", stopped' = stopped, closed' = closed,
             stage'[t] = "adding" => stage[t] = "adding"
      PROVE  StopInv'
  <2>1. CASE queue' = queue
    BY <1>1, <1>3, <2>1
  <2>2. CASE queue' = Append(queue, v)
    <3>1. Stops(queue') <=> Stops(queue)
      BY <1>3, <1>b, <2>2, AppendStops
    <3>2. ~ Stops(queue) => StopsLast(queue')
      BY <1>3, <1>b, <2>2, AppendStops
    <3>3. ~ AllowAddAfterClose => ~ stopped /\ ~ Stops(queue)
      BY <1>3, <1>a
    <3> QED
      BY <1>3, <1>a, <1>c, <1>d, <1>e, <1>f, <3>1, <3>2, <3>3
  <2> QED
    BY <1>3, <2>1, <2>2
<1>4. CASE AddItem(t)
  <2>1. Head(call[t].args) \in Values \ {STOP}
    BY <1>4, <1>b, AddedItem, ValuesAssumption DEF AddItem, Running, Values
  <2>2. queue' = queue \/ queue' = Append(queue, Head(call[t].args))
    BY <1>4, EnqueueEffect DEF AddItem
  <2> QED
    BY <1>3, <1>4, <1>a, <2>1, <2>2 DEF AddItem, Running, Finish, QueueTypeOK
<1>5. CASE ExtendOne(t)
  <2>1. NextArg(t) \in Values /\ at[t] = "in" /\ stage[t] = "adding"
    BY <1>5, <1>b, ArgDropped DEF ExtendOne, NextArg
  <2>2. CASE NextArg(t) = STOP
    BY <1>1, <1>5, <2>1, <2>2 DEF ExtendOne
  <2>3. CASE NextArg(t) # STOP
    BY <1>3, <1>5, <2>1, <2>3, EnqueueEffect DEF ExtendOne
  <2> QED
    BY <2>2, <2>3
<1>6. CASE PushOne(t)
  <2>1. NextArg(t) \in Items /\ NextArg(t) # STOP /\ NextArg(t) \in Values
    BY <1>6, <1>b, ArgDropped, ValuesAssumption DEF PushOne, NextArg, Values
  <2>2. queue' = <<NextArg(t)>> \o queue /\ at[t] = "in" /\ stage[t] = "adding"
        /\ UNCHANGED <<stage, closed, stopped>>
    BY <1>6 DEF PushOne
  <2>3. (Stops(queue') <=> Stops(queue)) /\ (StopsLast(queue) => StopsLast(queue'))
    BY <1>b, <2>1, <2>2, PushStops
  <2> QED
    BY <1>a, <1>c, <1>d, <2>2, <2>3
<1>7. CASE \/ StartAdding(t) \/ AddRefused(t) \/ Drop(t)
          \/ AddedAll(t) \/ WaitForSpace(t) \/ SpaceTimeout(t)
  <2>1. CASE StartAdding(t)
    BY <1>1, <1>a, <2>1 DEF StartAdding
  <2>2. CASE WaitForSpace(t)
    BY <1>1, <1>a, <2>2 DEF WaitForSpace, QueueTypeOK
  <2>3. CASE AddRefused(t) \/ Drop(t) \/ AddedAll(t) \/ SpaceTimeout(t)
    BY <1>1, <1>a, <2>3 DEF AddRefused, Drop, AddedAll, SpaceTimeout, Finish, QueueTypeOK
  <2> QED
    BY <1>7, <2>1, <2>2, <2>3
\* a value is taken
<1>8. ASSUME queue # <<>>, queue' = Tail(queue), stage'[t] = "leave", at[t] = "in",
             stopped' => stopped \/ Head(queue) = STOP, closed => closed'
      PROVE  StopInv'
  <2>1. /\ Stops(queue) <=> Head(queue) = STOP \/ Stops(queue')
        /\ OnlyStops(queue) => OnlyStops(queue') /\ Head(queue) = STOP
        /\ StopsLast(queue) => StopsLast(queue')
        /\ StopsLast(queue) /\ Head(queue) = STOP => OnlyStops(queue')
    BY <1>8, <1>b, TailStops
  <2> QED
    BY <1>8, <1>a, <1>c, <1>d, <1>e, <1>f, <2>1
<1>9. CASE PopItem(t)
  BY <1>8, <1>9, <1>a DEF PopItem, Looping, Running, TakeFirst, Finish, QueueTypeOK
\* STOP is the answer for a queue that is empty and closed
<1>10. ASSUME queue = <<>>, queue' = queue, closed, closed', stage'[t] = "leave", at[t] = "in"
       PROVE  StopInv'
  BY <1>10, <1>a, <1>c, <1>d, <1>e, <1>f, NoStops
<1>11. CASE PopClosed(t)
  BY <1>10, <1>11, <1>a DEF PopClosed, Looping, Running, Finish, QueueTypeOK
<1>12. CASE PopGivesUp(t)
  <2>1. queue = <<>> /\ at[t] = "in" /\ stage'[t] = "leave" /\ UNCHANGED <<queue, closed>>
    BY <1>12, <1>a DEF PopGivesUp, QueueIInv, GivesUpOnEmpty, Finish, Running, QueueTypeOK
  <2>2. CASE closed
    BY <1>10, <2>1, <2>2
  <2>3. CASE ~ closed
    BY <1>1, <1>12, <2>1, <2>3, <1>a DEF PopGivesUp, QueueTypeOK
  <2> QED
    BY <2>2, <2>3
<1>13. CASE PopWait(t)
  BY <1>1, <1>13, <1>a DEF PopWait, QueueTypeOK
<1>14. CASE PopOne(t)
  <2>1. CASE queue # <<>> /\ queue' = Tail(queue)
    BY <1>8, <1>14, <1>a, <2>1 DEF PopOne, Running, TakeFirst, Finish, QueueTypeOK
  <2>2. CASE UNCHANGED <<queue, closed>>
    BY <1>1, <1>14, <1>a, <2>2 DEF PopOne, Running, Finish, TakeFirst, QueueTypeOK
  <2> QED
    BY <1>14, <2>1, <2>2 DEF PopOne, TakeFirst
<1>15. CASE PopAll(t)
  BY <1>15, <1>a, <1>c, <1>d, <1>e, <1>f, NoStops DEF PopAll, Finish, Running, QueueTypeOK
<1>16. CASE Request(t)
  BY <1>1, <1>16, <1>a DEF Request, Begin, RefuseEarly, Close, QueueTypeOK
<1>17. CASE Return(t)
  BY <1>1, <1>17, <1>a DEF Return, QueueTypeOK
<1>18. CASE LockMove(t) \/ Leave(t) \/ WaitTillGo(t) \/ DeadlineGo(t)
  BY <1>1, <1>18 DEF LockMove, Leave, WaitTillGo, DeadlineGo, queueVars
<1> QED
  BY <1>2, <1>4, <1>5, <1>6, <1>7, <1>9, <1>11, <1>12, <1>13, <1>14, <1>15, <1>16, <1>17, <1>18
     DEF Acts, Step, Produce, Consume

-----------------------------------------------------------------------------
(* The theorems                                                            *)

LEMMA QueueInitInv == Init => QueueIInv
<1> SUFFICES ASSUME Init PROVE QueueIInv
  OBVIOUS
<1>1. LockIInv
  BY LockInitInv DEF Init
<1>2. QueueTypeOK
  <2>1. <<>> \in Seq(Values)
    OBVIOUS
  <2> QED
    BY <1>1, <2>1, NoCallIsCall
       DEF Init, QueueTypeOK, LockIInv, Stages, TillStates, Answers
<1>3. InStep /\ TimerNotStarted
  BY DEF Init, LockInit, InStep, StagePlaces, TimerNotStarted
<1>4. EmptyWhileUndisturbed /\ TillForAReason /\ GivesUpOnEmpty
  BY DEF Init, LockInit, EmptyWhileUndisturbed, TillForAReason, GivesUpOnEmpty, Running, WaitPlaces
<1>5. StopMeansClosed /\ AddingBeforeStop /\ StopsAtEnd /\ StopIsFinal
  BY NoStops DEF Init, StopMeansClosed, AddingBeforeStop, StopsAtEnd, StopIsFinal
<1> QED
  BY <1>1, <1>2, <1>3, <1>4, <1>5 DEF QueueIInv

LEMMA QueueInvStep ==
  ASSUME QueueIInv, NEW t \in Threads, Acts(t)
  PROVE  QueueIInv'
<1>1. LockIInv'
  <2>1. CASE LockStep(t)
    BY <2>1, LockInvStep DEF QueueIInv
  <2>2. CASE UNCHANGED lockVars
    BY <2>2 DEF QueueIInv, lockVars, LockIInv, LockTypeOK, MutualExclusion, ShortList, OneSleeper,
           Undisturbed, Overtaken, SignalledLate, WokenForAReason
  <2> QED
    BY <2>1, <2>2, LockStepOfQueue
<1>2. QueueTypeOK'
  BY QueueTypeStep DEF QueueIInv
<1>3. InStep' /\ TimerNotStarted'
  BY InStepStep, TimerNotStartedStep
<1>4. EmptyWhileUndisturbed' /\ TillForAReason' /\ GivesUpOnEmpty'
  BY EmptyWhileUndisturbedStep, TillForAReasonStep, GivesUpOnEmptyStep
<1>5. StopMeansClosed' /\ AddingBeforeStop' /\ StopsAtEnd' /\ StopIsFinal'
  BY StopInvStep DEF StopInv
<1> QED
  BY <1>1, <1>2, <1>3, <1>4, <1>5 DEF QueueIInv

LEMMA QueueStutter ==
  ASSUME QueueIInv, UNCHANGED vars
  PROVE  QueueIInv'
BY DEF vars, queueVars, lockVars, QueueIInv, LockIInv, LockTypeOK, MutualExclusion, ShortList,
       OneSleeper, Undisturbed, Overtaken, SignalledLate, WokenForAReason, QueueTypeOK, InStep,
       TimerNotStarted, EmptyWhileUndisturbed, TillForAReason, GivesUpOnEmpty, Running,
       StopMeansClosed, Stops, AddingBeforeStop, StopsAtEnd, StopsLast, StopIsFinal

LEMMA QueueInvAlways == Spec => []QueueIInv
<1>1. QueueIInv /\ [Next]_vars => QueueIInv'
  BY QueueInvStep, QueueStutter DEF Next, Acts
<1> QED
  BY <1>1, QueueInitInv, PTL DEF Spec

\* The queue keeps its types; a pop() that gives up without looking at the queue again has
\* missed nothing and has its reason (queues.py:218-221); and once a consumer was told to
\* stop no item is in the queue again (queues.py:90-91, 108, 142, 213-223).
THEOREM QueueSafe == Spec => []QueueInv
<1>1. QueueIInv => QueueInv
  BY DEF QueueIInv, QueueInv
<1> QED
  BY <1>1, QueueInvAlways, PTL

\* The queue keeps the guarantees of its lock, whatever its methods do inside it
\* (queues.py:83-247, lock.py:38-89).
THEOREM QueueKeepsLock == Spec => [](LockInv /\ TruthfulAnswer)
<1>1. QueueIInv => LockInv /\ TruthfulAnswer
  BY DEF QueueIInv, LockIInv, LockInv, Undisturbed, SignalledLate, TruthfulAnswer, WaitPlaces
<1> QED
  BY <1>1, QueueInvAlways, PTL

-----------------------------------------------------------------------------
(* The queue implements the channel                                        *)

Doing == [u \in Threads |-> call[u].op]
LateCallers == {u \in Threads : deadline[u] = "gone"}

LEMMA ChannelStep ==
  ASSUME QueueIInv, NEW t \in Threads, Acts(t)
  PROVE  ChannelOfQueue!Next \/ UNCHANGED ChannelOfQueue!channelVars
<1>a. QueueTypeOK /\ LockTypeOK /\ call[t] \in Calls /\ queue \in Seq(Values)
  BY DEF QueueIInv, QueueTypeOK
<1>b. UNCHANGED call => UNCHANGED Doing
  BY DEF Doing
<1>c. UNCHANGED deadline => UNCHANGED LateCallers
  BY DEF LateCallers
<1>d. UNCHANGED <<queue, closed, Doing, LateCallers, ret>> => UNCHANGED ChannelOfQueue!channelVars
  BY DEF ChannelOfQueue!channelVars, Doing, LateCallers
<1>1. ASSUME NEW c \in Requests[t], Begin(t, c)
      PROVE  ChannelOfQueue!Next
  <2>1. c \in Calls /\ c.op \in {"add", "push", "extend", "pop", "pop_one", "pop_all"}
    BY <1>1, RequestsAssumption, CallParts DEF Begin, Producing, Consuming
  <2>2. Doing' = [Doing EXCEPT ![t] = c.op]
    BY <1>1, <1>a DEF Begin, Doing, QueueTypeOK
  <2>3. LateCallers' \in {LateCallers \cup {t}, LateCallers \ {t}}
    <3>1. CASE c.till = "gone"
      <4>1. LateCallers' = LateCallers \cup {t}
        BY <1>1, <1>a, <3>1 DEF Begin, LateCallers, QueueTypeOK
      <4> QED
        BY <4>1
    <3>2. CASE c.till # "gone"
      <4>1. LateCallers' = LateCallers \ {t}
        BY <1>1, <1>a, <3>2 DEF Begin, LateCallers, QueueTypeOK
      <4> QED
        BY <4>1
    <3> QED
      BY <3>1, <3>2
  <2>4. ChannelOfQueue!Start(t)
    BY <1>1, <2>1, <2>2, <2>3 DEF Begin, ChannelOfQueue!Start, Doing, LateCallers
  <2> QED
    BY <2>4 DEF ChannelOfQueue!Next
<1>2. ASSUME NEW c \in Requests[t], RefuseEarly(t, c)
      PROVE  ChannelOfQueue!Next
  <2>1. Doing' = [Doing EXCEPT ![t] = c.op]
    BY <1>2, <1>a DEF RefuseEarly, Doing, QueueTypeOK
  <2>2. ChannelOfQueue!TurnDown(t)
    BY <1>2, <1>c, <2>1
       DEF RefuseEarly, ChannelOfQueue!TurnDown, ChannelOfQueue!Answer, Doing, LateCallers
  <2> QED
    BY <2>2 DEF ChannelOfQueue!Next
<1>3. ASSUME NEW c \in Requests[t], Close(t, c)
      PROVE  ChannelOfQueue!Next
  <2>1. ChannelOfQueue!Shut(t)
    BY <1>3, <1>b, <1>c DEF Close, ChannelOfQueue!Shut, Doing, LateCallers
  <2> QED
    BY <2>1 DEF ChannelOfQueue!Next
<1>4. CASE AddStop(t)
  <2>1. ChannelOfQueue!PutStop(t)
    BY <1>4, <1>b, <1>c
       DEF AddStop, Running, Finish, ChannelOfQueue!PutStop, ChannelOfQueue!Answer, Doing, LateCallers
  <2> QED
    BY <2>1 DEF ChannelOfQueue!Next
\* a value goes in at the back, or is there
<1>5. ASSUME NEW v \in Items, Enqueue(v), call[t].op = "extend" \/ ~ closed \/ AllowAddAfterClose,
             ret' \in {ret, [ret EXCEPT ![t] = "ok"]},
             UNCHANGED <<closed, Doing, LateCallers>>
      PROVE  ChannelOfQueue!Next
  <2>1. \/ queue' = Append(queue, v)
        \/ Unique /\ (\E i \in DOMAIN queue : queue[i] = v) /\ queue' = queue
    BY <1>5, <1>a DEF Enqueue, Contains
  <2>2. ChannelOfQueue!Put(t, v)
    BY <1>5, <2>1 DEF ChannelOfQueue!Put, Doing, LateCallers
  <2> QED
    BY <1>5, <2>2 DEF ChannelOfQueue!Next
<1>6. CASE AddItem(t)
  <2>1. Head(call[t].args) \in Items
    BY <1>6, <1>a, AddedItem DEF AddItem, Running
  <2> QED
    BY <1>5, <1>6, <1>b, <1>c, <2>1 DEF AddItem, Finish
<1>7. CASE ExtendOne(t)
  <2>1. NextArg(t) \in Values /\ call[t].op = "extend"
    BY <1>7, <1>a, ArgDropped DEF ExtendOne, NextArg
  <2>2. UNCHANGED Doing
    BY <1>7, <1>a DEF ExtendOne, DropArg, Doing, QueueTypeOK
  <2>3. CASE NextArg(t) = STOP
    <3>1. ChannelOfQueue!Shut(t)
      BY <1>7, <1>c, <2>2, <2>3 DEF ExtendOne, ChannelOfQueue!Shut, Doing, LateCallers
    <3> QED
      BY <3>1 DEF ChannelOfQueue!Next
  <2>4. CASE NextArg(t) # STOP
    <3>1. NextArg(t) \in Items
      BY <2>1, <2>4 DEF Values
    <3> QED
      BY <1>5, <1>7, <1>c, <2>1, <2>2, <2>4, <3>1 DEF ExtendOne
  <2> QED
    BY <2>3, <2>4
<1>8. CASE PushOne(t)
  <2>1. NextArg(t) \in Items /\ call[t].op = "push"
    BY <1>8, <1>a, ArgDropped DEF PushOne, NextArg
  <2>2. UNCHANGED Doing
    BY <1>8, <1>a DEF PushOne, DropArg, Doing, QueueTypeOK
  <2>3. ChannelOfQueue!PutFront(t, NextArg(t))
    BY <1>8, <1>c, <2>1, <2>2 DEF PushOne, ChannelOfQueue!PutFront, Doing, LateCallers
  <2> QED
    BY <2>1, <2>3 DEF ChannelOfQueue!Next
\* the call ends, and nothing else changes
<1>9. ASSUME \/ ret' = [ret EXCEPT ![t] = "ok"]
             \/ closed /\ ~ AllowAddAfterClose /\ ret' = [ret EXCEPT ![t] = "refused"]
             \/ ~ closed /\ deadline[t] = "gone" /\ ret' = [ret EXCEPT ![t] = "timeout"],
             UNCHANGED <<queue, closed, call, deadline>>
      PROVE  ChannelOfQueue!Next
  <2>1. ChannelOfQueue!End(t)
    BY <1>9, <1>b, <1>c DEF ChannelOfQueue!End, ChannelOfQueue!Answer, Doing, LateCallers
  <2> QED
    BY <2>1 DEF ChannelOfQueue!Next
<1>10. CASE AddRefused(t) \/ Drop(t) \/ AddedAll(t)
  BY <1>9, <1>10 DEF AddRefused, Drop, AddedAll, Finish
<1>11. CASE SpaceTimeout(t)
  BY <1>9, <1>11 DEF SpaceTimeout, MayProceed, Finish
<1>12. CASE StartAdding(t) \/ PopWait(t)
  BY <1>b, <1>c, <1>d, <1>12 DEF StartAdding, PopWait
<1>13. CASE WaitForSpace(t)
  <2>1. deadline[t] # "gone"
    BY <1>13, <1>a DEF WaitForSpace, Running, Producing, QueueIInv, TimerNotStarted
  <2>2. UNCHANGED LateCallers
    BY <1>13, <1>a, <2>1 DEF WaitForSpace, LateCallers, QueueTypeOK
  <2> QED
    BY <1>b, <1>d, <1>13, <2>2 DEF WaitForSpace
<1>14. CASE PopItem(t)
  <2>1. ChannelOfQueue!Take(t)
    BY <1>14, <1>a, <1>b, <1>c
       DEF PopItem, Looping, Running, TakeFirst, Finish, ChannelOfQueue!Take, ChannelOfQueue!Answer,
           Doing, LateCallers, QueueTypeOK
  <2> QED
    BY <2>1 DEF ChannelOfQueue!Next
\* STOP is handed out by a closed queue, None by an empty one that is open
<1>15. ASSUME call[t].op \in {"pop", "pop_one"}, ret' = [ret EXCEPT ![t] = STOP], closed,
              call[t].op = "pop" => queue = <<>>, UNCHANGED <<queue, closed, call, deadline>>
       PROVE  ChannelOfQueue!Next
  <2>1. ChannelOfQueue!TakeStop(t)
    BY <1>15, <1>b, <1>c DEF ChannelOfQueue!TakeStop, ChannelOfQueue!Answer, Doing, LateCallers
  <2> QED
    BY <2>1 DEF ChannelOfQueue!Next
<1>16. ASSUME call[t].op \in {"pop", "pop_one"}, ret' = [ret EXCEPT ![t] = None], ~ closed,
              queue = <<>>, call[t].op = "pop" => deadline[t] = "gone",
              UNCHANGED <<queue, closed, call, deadline>>
       PROVE  ChannelOfQueue!Next
  <2>1. ChannelOfQueue!TakeNothing(t)
    BY <1>16, <1>b, <1>c DEF ChannelOfQueue!TakeNothing, ChannelOfQueue!Answer, Doing, LateCallers
  <2> QED
    BY <2>1 DEF ChannelOfQueue!Next
<1>17. CASE PopClosed(t)
  BY <1>15, <1>17 DEF PopClosed, Looping, Running, Finish
<1>18. CASE PopGivesUp(t)
  <2>1. queue = <<>> /\ (closed \/ deadline[t] = "gone")
    BY <1>18 DEF PopGivesUp, QueueIInv, GivesUpOnEmpty
  <2> QED
    BY <1>15, <1>16, <1>18, <2>1 DEF PopGivesUp, Running, Finish
<1>19. CASE PopOne(t)
  <2>1. CASE closed
    BY <1>15, <1>19, <2>1 DEF PopOne, Running, Finish
  <2>2. CASE ~ closed /\ queue = <<>>
    BY <1>16, <1>19, <2>2 DEF PopOne, Running, Finish, TakeFirst
  <2>3. CASE ~ closed /\ queue # <<>>
    <3>1. ChannelOfQueue!Take(t)
      BY <1>19, <1>a, <1>b, <1>c, <2>3
         DEF PopOne, Running, TakeFirst, Finish, ChannelOfQueue!Take, ChannelOfQueue!Answer,
             Doing, LateCallers
    <3> QED
      BY <3>1 DEF ChannelOfQueue!Next
  <2> QED
    BY <2>1, <2>2, <2>3
<1>20. CASE PopAll(t)
  <2>1. ChannelOfQueue!TakeAll(t)
    BY <1>20, <1>b, <1>c
       DEF PopAll, Running, Finish, ChannelOfQueue!TakeAll, ChannelOfQueue!Answer, Doing, LateCallers
  <2> QED
    BY <2>1 DEF ChannelOfQueue!Next
<1>21. CASE Return(t)
  <2>1. Doing' = [Doing EXCEPT ![t] = "close"]
    BY <1>21, <1>a DEF Return, NoCall, Doing, QueueTypeOK
  <2>2. LateCallers' = LateCallers \ {t}
    BY <1>21, <1>a DEF Return, LateCallers, QueueTypeOK
  <2>3. ChannelOfQueue!Deliver(t)
    BY <1>21, <2>1, <2>2 DEF Return, ChannelOfQueue!Deliver, ChannelOfQueue!Answer, Doing, LateCallers
  <2> QED
    BY <2>3 DEF ChannelOfQueue!Next
<1>22. CASE DeadlineGo(t)
  <2>1. LateCallers' = LateCallers \cup {t}
    BY <1>22, <1>a DEF DeadlineGo, LateCallers, QueueTypeOK
  <2>2. ChannelOfQueue!Expire(t)
    BY <1>22, <1>b, <2>1 DEF DeadlineGo, ChannelOfQueue!Expire, Doing, LateCallers
  <2> QED
    BY <2>2 DEF ChannelOfQueue!Next
<1>23. CASE LockMove(t) \/ Leave(t) \/ WaitTillGo(t)
  BY <1>b, <1>c, <1>d, <1>23 DEF LockMove, Leave, WaitTillGo, queueVars
<1> QED
  BY <1>1, <1>2, <1>3, <1>4, <1>6, <1>7, <1>8, <1>10, <1>11, <1>12, <1>13, <1>14, <1>17, <1>18,
     <1>19, <1>20, <1>21, <1>22, <1>23 DEF Acts, Step, Produce, Consume, Request

\* The queue, with its lock, its waits and its wakeups, implements the channel: each call
\* takes effect in one step, and gets the answer the channel gives (queues.py:83-251).
THEOREM QueueImplementsChannel == Spec => ImplementsChannel
<1>1. Init => ChannelOfQueue!Init
  BY DEF Init, LockInit, NoCall, ChannelOfQueue!Init
<1>2. QueueIInv /\ [Next]_vars => ChannelOfQueue!Next \/ UNCHANGED ChannelOfQueue!channelVars
  <2>1. QueueIInv /\ Next => ChannelOfQueue!Next \/ UNCHANGED ChannelOfQueue!channelVars
    BY ChannelStep DEF Next, Acts
  <2>2. UNCHANGED vars => UNCHANGED ChannelOfQueue!channelVars
    BY DEF vars, queueVars, ChannelOfQueue!channelVars
  <2> QED
    BY <2>1, <2>2
<1> QED
  BY <1>1, <1>2, QueueInvAlways, PTL DEF Spec, ImplementsChannel, ChannelOfQueue!Spec

-----------------------------------------------------------------------------
(* The limit                                                               *)

ForcedIsKnown == forced \in BOOLEAN /\ \A t \in Threads : call[t].force => forced

BatchesAreShort == \A t \in Threads : Backlog(call[t].args) <= LongestBatch

\* a batch began to be added when there was room for one item at least
RoomForBatch ==
  ~ Unlimited =>
    \A t \in Threads : stage[t] = "adding" =>
      Backlog(queue) + Backlog(call[t].args) <= Limit + LongestBatch - 1

LimitIInv ==
  /\ ForcedIsKnown
  /\ BatchesAreShort
  /\ RoomForBatch
  /\ LimitRespected

ItemsIn(s) == {i \in 1 .. Len(s) : s[i] # STOP}

LEMMA BacklogIsNat ==
  ASSUME NEW s \in Seq(Values)
  PROVE  /\ IsFiniteSet(ItemsIn(s)) /\ Backlog(s) = Cardinality(ItemsIn(s))
         /\ Backlog(s) \in Nat /\ Backlog(s) <= Len(s)
<1>1. IsFiniteSet(1 .. Len(s)) /\ Cardinality(1 .. Len(s)) = Len(s)
  <2>1. Len(s) \in Nat
    OBVIOUS
  <2> QED
    BY <2>1, FS_Interval
<1>2. ItemsIn(s) \subseteq 1 .. Len(s) /\ DOMAIN s = 1 .. Len(s)
  BY DEF ItemsIn
<1>3. IsFiniteSet(ItemsIn(s)) /\ Cardinality(ItemsIn(s)) <= Len(s)
  BY <1>1, <1>2, FS_Subset
<1> QED
  BY <1>2, <1>3, FS_CardinalityType DEF Backlog, ItemsIn

LEMMA EmptyBacklog == Backlog(<<>>) = 0
<1>1. {i \in DOMAIN <<>> : <<>>[i] # STOP} = {}
  OBVIOUS
<1> QED
  BY <1>1, FS_EmptySet DEF Backlog

LEMMA AppendBacklog ==
  ASSUME NEW s \in Seq(Values), NEW v \in Values
  PROVE  /\ Append(s, v) \in Seq(Values)
         /\ Backlog(Append(s, v)) = Backlog(s) + (IF v = STOP THEN 0 ELSE 1)
<1> DEFINE r == Append(s, v)
<1>1. /\ r \in Seq(Values) /\ Len(r) = Len(s) + 1 /\ Len(s) \in Nat /\ r[Len(s) + 1] = v
      /\ \A i \in 1 .. Len(s) : r[i] = s[i]
  OBVIOUS
<1> HIDE DEF r
<1>2. /\ IsFiniteSet(ItemsIn(s)) /\ Backlog(s) = Cardinality(ItemsIn(s)) /\ Backlog(s) \in Nat
      /\ Backlog(r) = Cardinality(ItemsIn(r))
  BY <1>1, BacklogIsNat
<1>3. CASE v = STOP
  <2>1. ItemsIn(r) = ItemsIn(s)
    BY <1>1, <1>3 DEF ItemsIn
  <2>2. Backlog(r) = Backlog(s) + 0
    BY <1>2, <2>1
  <2> QED
    BY <1>1, <1>3, <2>2 DEF r
<1>4. CASE v # STOP
  <2>1. ItemsIn(r) = ItemsIn(s) \cup {Len(s) + 1} /\ Len(s) + 1 \notin ItemsIn(s)
    BY <1>1, <1>4 DEF ItemsIn
  <2>2. Backlog(r) = Backlog(s) + 1
    BY <1>2, <2>1, FS_AddElement
  <2> QED
    BY <1>1, <1>4, <2>2 DEF r
<1> QED
  BY <1>3, <1>4

LEMMA PushBacklog ==
  ASSUME NEW s \in Seq(Values), NEW v \in Values
  PROVE  /\ <<v>> \o s \in Seq(Values)
         /\ Backlog(<<v>> \o s) = Backlog(s) + (IF v = STOP THEN 0 ELSE 1)
<1> DEFINE r == <<v>> \o s
           T == {i \in 2 .. Len(r) : r[i] # STOP}
<1>1. /\ r \in Seq(Values) /\ Len(r) = Len(s) + 1 /\ Len(s) \in Nat /\ r[1] = v
      /\ \A i \in 1 .. Len(s) : r[i + 1] = s[i]
  OBVIOUS
<1> HIDE DEF r
<1>2. /\ IsFiniteSet(ItemsIn(s)) /\ Backlog(s) = Cardinality(ItemsIn(s)) /\ Backlog(s) \in Nat
      /\ Backlog(r) = Cardinality(ItemsIn(r))
  BY <1>1, BacklogIsNat
<1>3. IsFiniteSet(T) /\ Cardinality(T) = Backlog(s)
  <2> DEFINE f == [i \in ItemsIn(s) |-> i + 1]
  <2>1. \A i \in ItemsIn(s) : i \in Nat /\ i + 1 \in T
    BY <1>1 DEF ItemsIn
  <2>2. \A j \in T : j - 1 \in ItemsIn(s) /\ (j - 1) + 1 = j
    <3> SUFFICES ASSUME NEW j \in T PROVE j - 1 \in ItemsIn(s) /\ (j - 1) + 1 = j
      OBVIOUS
    <3>1. j - 1 \in 1 .. Len(s) /\ (j - 1) + 1 = j
      BY <1>1
    <3>2. s[j - 1] = r[j]
      BY <1>1, <3>1
    <3> QED
      BY <3>1, <3>2 DEF ItemsIn
  <2>3. f \in [ItemsIn(s) -> T]
    BY <2>1
  <2>4. \A i, j \in ItemsIn(s) : f[i] = f[j] => i = j
    BY <2>1
  <2>5. \A j \in T : \E i \in ItemsIn(s) : f[i] = j
    BY <2>2
  <2> HIDE DEF f, T
  <2>6. f \in Injection(ItemsIn(s), T)
    BY <2>3, <2>4 DEF Injection, IsInjective
  <2>7. f \in Bijection(ItemsIn(s), T)
    BY <2>3, <2>5, <2>6 DEF Bijection, Surjection
  <2> QED
    BY <1>2, <2>7, FS_Bijection DEF ExistsBijection
<1>4. 1 \notin T
  OBVIOUS
<1>5. CASE v = STOP
  <2>1. ItemsIn(r) = T
    BY <1>1, <1>5 DEF ItemsIn
  <2>2. Backlog(r) = Backlog(s) + 0
    BY <1>2, <1>3, <2>1
  <2> QED
    BY <1>1, <1>5, <2>2 DEF r
<1>6. CASE v # STOP
  <2>1. ItemsIn(r) = T \cup {1}
    BY <1>1, <1>6 DEF ItemsIn
  <2>2. Backlog(r) = Backlog(s) + 1
    BY <1>2, <1>3, <1>4, <2>1, FS_AddElement
  <2> QED
    BY <1>1, <1>6, <2>2 DEF r
<1> QED
  BY <1>5, <1>6

LEMMA TailBacklog ==
  ASSUME NEW s \in Seq(Values), s # <<>>
  PROVE  /\ Tail(s) \in Seq(Values) /\ Head(s) \in Values
         /\ Backlog(s) = Backlog(Tail(s)) + (IF Head(s) = STOP THEN 0 ELSE 1)
         /\ Backlog(Tail(s)) \in Nat
<1>1. /\ Tail(s) \in Seq(Values) /\ Head(s) \in Values
      /\ s = <<Head(s)>> \o Tail(s)
  OBVIOUS
<1> QED
  BY <1>1, PushBacklog, BacklogIsNat

LEMMA EnqueueBacklog ==
  ASSUME NEW v \in Values \ {STOP}, queue \in Seq(Values), Enqueue(v)
  PROVE  Backlog(queue') \in Nat /\ Backlog(queue') <= Backlog(queue) + 1
<1>1. queue' = queue \/ queue' = Append(queue, v)
  BY DEF Enqueue
<1>2. Backlog(queue) \in Nat
  BY BacklogIsNat
<1>3. Backlog(Append(queue, v)) = Backlog(queue) + 1
  <2>1. v \in Values /\ v # STOP
    OBVIOUS
  <2> HIDE DEF Values
  <2> QED
    BY <2>1, AppendBacklog
<1>4. CASE queue' = queue
  BY <1>2, <1>4
<1>5. CASE queue' = Append(queue, v)
  BY <1>2, <1>3, <1>5
<1> QED
  BY <1>1, <1>4, <1>5

-----------------------------------------------------------------------------
\* what a step does to the queue and to the batch of its thread
Within(t) ==
  ~ Unlimited' =>
    /\ Backlog(queue') <= Limit + LongestBatch - 1
    /\ stage'[t] = "adding" =>
         Backlog(queue') + Backlog(call'[t].args) <= Limit + LongestBatch - 1

Batch(t) == Backlog(call'[t].args) <= LongestBatch

LEMMA LimitNumbers ==
  ASSUME QueueTypeOK, NEW t \in Threads
  PROVE  /\ Limit \in Nat \ {0} /\ LongestBatch \in Nat \ {0}
         /\ queue \in Seq(Values) /\ call[t] \in Calls /\ call[t].args \in Seq(Values)
         /\ Backlog(queue) \in Nat /\ Backlog(queue) <= Len(queue) /\ Len(queue) \in Nat
         /\ Backlog(call[t].args) \in Nat
<1>1. queue \in Seq(Values) /\ call[t] \in Calls /\ call[t].args \in Seq(Values)
  BY CallParts DEF QueueTypeOK
<1> QED
  BY <1>1, BacklogIsNat, LimitAssumption, BatchAssumption

\* a thread that waited for space, and had nobody force it, finds room
LEMMA Room ==
  ASSUME QueueTypeOK, ForcedIsKnown, NEW t \in Threads, MayProceed(t), ~ closed, ~ forced
  PROVE  Backlog(queue) <= Limit - 1
<1>1. Len(queue) < Limit
  BY LimitNumbers DEF MayProceed, Full, ForcedIsKnown
<1> QED
  BY <1>1, LimitNumbers

\* most steps: the queue does not grow, and no batch is begun
LEMMA NoGrowth ==
  ASSUME QueueTypeOK, LimitIInv, NEW t \in Threads,
         Unlimited => Unlimited',
         Backlog(queue') \in Nat, Backlog(queue') <= Backlog(queue), stage'[t] # "adding"
  PROVE  Within(t)
BY LimitNumbers DEF Within, LimitIInv, LimitRespected

LEMMA ProduceWithin ==
  ASSUME QueueIInv, LimitIInv, NEW t \in Threads, Produce(t), forced' = forced
  PROVE  Within(t) /\ Batch(t)
<1>n. /\ QueueTypeOK /\ ForcedIsKnown /\ stage \in [Threads -> Stages] /\ call \in [Threads -> Calls]
      /\ Backlog(call[t].args) <= LongestBatch
  BY DEF QueueIInv, QueueTypeOK, LimitIInv, BatchesAreShort
<1>m. Unlimited => Unlimited'
  <2>1. closed => closed'
    BY ClosedStays DEF Acts, Step, QueueIInv
  <2> QED
    BY <2>1 DEF Unlimited
<1>1. CASE AddStop(t)
  <2>1. queue' = Append(queue, STOP) /\ call' = call /\ stage'[t] = "leave"
    BY <1>1, <1>n DEF AddStop, Finish
  <2>2. Backlog(queue') = Backlog(queue) /\ Backlog(queue) \in Nat
    <3>1. STOP \in Values
      BY DEF Values
    <3>2. Backlog(queue') = Backlog(queue) + 0
      BY <1>n, <2>1, <3>1, AppendBacklog, LimitNumbers
    <3> QED
      BY <1>n, <3>2, LimitNumbers
  <2>3. Within(t)
    BY <1>m, <1>n, <2>1, <2>2, NoGrowth
  <2> QED
    BY <1>n, <2>1, <2>3 DEF Batch
<1>2. CASE AddItem(t)
  <2>1. /\ call' = call /\ closed' = closed /\ stage'[t] = "leave" /\ MayProceed(t)
        /\ closed => AllowAddAfterClose
        /\ Enqueue(Head(call[t].args)) /\ call[t].op = "add" /\ call[t].args # <<STOP>>
    BY <1>2, <1>n DEF AddItem, Finish, Running
  <2>2. Backlog(queue') \in Nat /\ Backlog(queue') <= Backlog(queue) + 1
    <3>1. Head(call[t].args) \in Values \ {STOP}
      BY <1>n, <2>1, AddedItem, LimitNumbers DEF Values
    <3> QED
      BY <1>n, <2>1, <3>1, EnqueueBacklog, LimitNumbers
  <2>3. Within(t)
    <3> SUFFICES ASSUME ~ Unlimited' PROVE Backlog(queue') <= Limit + LongestBatch - 1
      BY <2>1 DEF Within
    <3>1. ~ closed /\ ~ forced
      BY <2>1 DEF Unlimited
    <3>2. Backlog(queue) <= Limit - 1
      BY <1>n, <2>1, <3>1, Room
    <3> QED
      BY <1>n, <2>2, <3>2, LimitNumbers
  <2> QED
    BY <1>n, <2>1, <2>3 DEF Batch
<1>3. CASE AddRefused(t) \/ Drop(t) \/ AddedAll(t) \/ WaitForSpace(t) \/ SpaceTimeout(t)
  <2>1. queue' = queue /\ call' = call /\ stage'[t] # "adding"
    BY <1>3, <1>n DEF AddRefused, Drop, AddedAll, WaitForSpace, SpaceTimeout, Finish
  <2>2. Within(t)
    BY <1>m, <1>n, <2>1, NoGrowth, LimitNumbers
  <2> QED
    BY <1>n, <2>1, <2>2 DEF Batch
<1>4. CASE StartAdding(t)
  <2>1. queue' = queue /\ call' = call /\ closed' = closed /\ MayProceed(t) /\ ~ closed
    BY <1>4 DEF StartAdding
  <2>2. Within(t)
    <3> SUFFICES ASSUME ~ Unlimited'
                 PROVE  Backlog(queue) + Backlog(call[t].args) <= Limit + LongestBatch - 1
      BY <1>n, <2>1, LimitNumbers DEF Within
    <3>1. Backlog(queue) <= Limit - 1
      BY <1>n, <2>1, Room DEF Unlimited
    <3> QED
      BY <1>n, <3>1, LimitNumbers
  <2> QED
    BY <1>n, <2>1, <2>2 DEF Batch
<1>5. CASE ExtendOne(t) \/ PushOne(t)
  <2> DEFINE v == Head(call[t].args)
             rest == Tail(call[t].args)
  <2>1. /\ call[t].args # <<>> /\ call[t].op \in {"push", "extend"} /\ stage[t] = "adding"
        /\ stage' = stage /\ call' = [call EXCEPT ![t] = [call[t] EXCEPT !.args = rest]]
    BY <1>5, <1>n DEF ExtendOne, PushOne, DropArg
  <2>2. call'[t].args = rest
    <3>1. call'[t] = [call[t] EXCEPT !.args = rest]
      BY <1>n, <2>1
    <3> QED
      BY <1>n, <3>1 DEF Calls
  <2>3. /\ v \in Values /\ Backlog(rest) \in Nat
        /\ Backlog(call[t].args) = Backlog(rest) + (IF v = STOP THEN 0 ELSE 1)
    BY <1>n, <2>1, TailBacklog, LimitNumbers
  <2>4. /\ Backlog(queue') \in Nat
        /\ Backlog(queue') <= Backlog(queue) + (IF v = STOP THEN 0 ELSE 1)
    <3>1. CASE ExtendOne(t) /\ v = STOP
      BY <1>n, <3>1, LimitNumbers DEF ExtendOne, NextArg
    <3>2. CASE ExtendOne(t) /\ v # STOP
      <4>1. Enqueue(v)
        BY <3>2 DEF ExtendOne, NextArg
      <4> QED
        BY <1>n, <2>3, <3>2, <4>1, EnqueueBacklog, LimitNumbers
    <3>3. CASE PushOne(t)
      <4>1. queue' = <<v>> \o queue
        BY <3>3 DEF PushOne, NextArg
      <4>2. Backlog(queue') = Backlog(queue) + (IF v = STOP THEN 0 ELSE 1)
        BY <1>n, <2>3, <4>1, PushBacklog, LimitNumbers
      <4> QED
        BY <1>n, <4>2, LimitNumbers
    <3> QED
      BY <1>5, <3>1, <3>2, <3>3
  <2> HIDE DEF v, rest
  <2>5. Backlog(queue') + Backlog(rest) <= Backlog(queue) + Backlog(call[t].args)
    BY <1>n, <2>3, <2>4, LimitNumbers
  <2>6. Within(t)
    <3> SUFFICES ASSUME ~ Unlimited'
                 PROVE  Backlog(queue') + Backlog(rest) <= Limit + LongestBatch - 1
      BY <1>n, <2>2, <2>3, <2>4, LimitNumbers DEF Within
    <3>1. Backlog(queue) + Backlog(call[t].args) <= Limit + LongestBatch - 1
      BY <1>m, <2>1 DEF LimitIInv, RoomForBatch
    <3> QED
      BY <1>n, <2>3, <2>4, <2>5, <3>1, LimitNumbers
  <2> QED
    BY <1>n, <2>2, <2>3, <2>6, LimitNumbers DEF Batch
<1> QED
  BY <1>1, <1>2, <1>3, <1>4, <1>5 DEF Produce

LEMMA ConsumeWithin ==
  ASSUME QueueIInv, LimitIInv, NEW t \in Threads, Consume(t), forced' = forced
  PROVE  Within(t) /\ Batch(t)
<1>n. /\ QueueTypeOK /\ stage \in [Threads -> Stages]
      /\ Backlog(call[t].args) <= LongestBatch
  BY DEF QueueIInv, QueueTypeOK, LimitIInv, BatchesAreShort
<1>m. Unlimited => Unlimited'
  <2>1. closed => closed'
    BY ClosedStays DEF Acts, Step, QueueIInv
  <2> QED
    BY <2>1 DEF Unlimited
<1>1. /\ call' = call /\ stage'[t] # "adding"
      /\ \/ queue' = queue \/ queue' = <<>>
         \/ queue # <<>> /\ queue' = Tail(queue)
  BY <1>n DEF Consume, PopItem, PopClosed, PopWait, PopGivesUp, PopOne, PopAll, TakeFirst, Finish
<1>2. Backlog(queue') \in Nat /\ Backlog(queue') <= Backlog(queue)
  <2>1. CASE queue' = queue \/ queue' = <<>>
    BY <1>n, <2>1, LimitNumbers, EmptyBacklog
  <2>2. CASE queue # <<>> /\ queue' = Tail(queue)
    <3>1. /\ Backlog(queue) = Backlog(queue') + (IF Head(queue) = STOP THEN 0 ELSE 1)
          /\ Backlog(queue') \in Nat
      BY <1>n, <2>2, TailBacklog, LimitNumbers
    <3> QED
      BY <3>1
  <2> QED
    BY <1>1, <2>1, <2>2
<1>3. Within(t)
  BY <1>m, <1>n, <1>1, <1>2, NoGrowth
<1> QED
  BY <1>n, <1>1, <1>3 DEF Batch

LEMMA OtherWithin ==
  ASSUME QueueIInv, LimitIInv, NEW t \in Threads,
         \/ NewRequest(t)
         \/ (LockMove(t) \/ Leave(t) \/ Return(t) \/ WaitTillGo(t) \/ DeadlineGo(t)) /\ forced' = forced
  PROVE  Within(t) /\ Batch(t)
<1>n. /\ QueueTypeOK /\ stage \in [Threads -> Stages] /\ call \in [Threads -> Calls]
      /\ Backlog(call[t].args) <= LongestBatch /\ (forced => forced')
  BY DEF QueueIInv, QueueTypeOK, LimitIInv, BatchesAreShort, ForcedIsKnown, NewRequest
<1>1. /\ queue' = queue
      /\ closed => closed'
      /\ \/ call' = call
         \/ \E c \in Requests[t] : call' = [call EXCEPT ![t] = c]
         \/ call' = [call EXCEPT ![t] = NoCall]
      /\ \/ stage'[t] # "adding"
         \/ call' = call /\ stage' = stage
  BY <1>n DEF NewRequest, Request, Begin, RefuseEarly, Close, LockMove, Leave, Return, WaitTillGo,
              DeadlineGo, queueVars
<1>2. Batch(t)
  <2>1. CASE call' = call
    <3>1. call'[t].args = call[t].args
      BY <2>1
    <3> QED
      BY <1>n, <3>1 DEF Batch
  <2>2. CASE \E c \in Requests[t] : call' = [call EXCEPT ![t] = c]
    <3>1. \E c \in Requests[t] : call'[t] = c
      BY <1>n, <2>2
    <3> QED
      BY <3>1, BatchAssumption DEF Batch
  <2>3. CASE call' = [call EXCEPT ![t] = NoCall]
    <3>1. call'[t].args = <<>>
      BY <1>n, <2>3 DEF NoCall
    <3> QED
      BY <3>1, EmptyBacklog, BatchAssumption DEF Batch
  <2> QED
    BY <1>1, <2>1, <2>2, <2>3
<1>3. Unlimited => Unlimited'
  BY <1>n, <1>1 DEF Unlimited
<1>4. Within(t)
  <2>1. CASE stage'[t] # "adding"
    BY <1>n, <1>1, <1>3, <2>1, NoGrowth, LimitNumbers
  <2>2. CASE call' = call /\ stage' = stage
    BY <1>n, <1>1, <1>3, <2>2 DEF Within, LimitIInv, RoomForBatch, LimitRespected
  <2> QED
    BY <1>1, <2>1, <2>2
<1> QED
  BY <1>2, <1>4

LEMMA LimitStep ==
  ASSUME QueueIInv, LimitIInv, NEW t \in Threads, NewRequest(t) \/ Work(t)
  PROVE  LimitIInv'
<1>a. Acts(t) /\ QueueTypeOK /\ call \in [Threads -> Calls] /\ forced \in BOOLEAN
  BY DEF NewRequest, Work, Acts, QueueIInv, QueueTypeOK, LimitIInv, ForcedIsKnown
<1>b. OthersAsTheyWere(t)
  BY <1>a, OthersKept
<1>c. Within(t) /\ Batch(t)
  BY ProduceWithin, ConsumeWithin, OtherWithin DEF Work, Step
<1>d. Unlimited => Unlimited'
  <2>1. closed => closed'
    BY <1>a, ClosedStays DEF QueueIInv
  <2> QED
    BY <1>a, <2>1 DEF Unlimited, NewRequest, Work
<1>1. ForcedIsKnown'
  <2>1. call'[t].force => forced'
    <3>1. CASE NewRequest(t)
      BY <3>1 DEF NewRequest
    <3>2. CASE Work(t)
      <4>1. call'[t].force = call[t].force \/ call'[t] = NoCall
        BY <1>a, <3>2 DEF Work, Step, Produce, Consume, AddStop, AddItem, AddRefused, StartAdding,
             Drop, ExtendOne, PushOne, DropArg, AddedAll, WaitForSpace, SpaceTimeout, PopItem,
             PopClosed, PopWait, PopGivesUp, PopOne, PopAll, LockMove, Leave, Return, WaitTillGo,
             DeadlineGo, queueVars, Calls
      <4>2. call[t].force => forced'
        BY <3>2 DEF Work, LimitIInv, ForcedIsKnown
      <4>3. ~ NoCall.force
        BY DEF NoCall
      <4> QED
        BY <4>1, <4>2, <4>3
    <3> QED
      BY <3>1, <3>2
  <2> QED
    <3>1. forced' \in BOOLEAN /\ (forced => forced')
      BY <1>a DEF NewRequest, Work
    <3>2. \A u \in Threads \ {t} : call'[u] = call[u] /\ (call[u].force => forced)
      BY <1>b DEF LimitIInv, ForcedIsKnown, OthersAsTheyWere
    <3> QED
      BY <2>1, <3>1, <3>2 DEF ForcedIsKnown
<1>2. BatchesAreShort'
  BY <1>b, <1>c DEF BatchesAreShort, LimitIInv, OthersAsTheyWere, Batch
<1>3. RoomForBatch'
  <2> SUFFICES ASSUME ~ Unlimited', NEW u \in Threads, stage'[u] = "adding"
               PROVE  Backlog(queue') + Backlog(call'[u].args) <= Limit + LongestBatch - 1
    BY DEF RoomForBatch
  <2>1. CASE u = t
    BY <1>c, <2>1 DEF Within
  <2>2. CASE u # t
    <3>1. stage[u] = "adding" /\ call'[u] = call[u]
      BY <1>b, <2>2 DEF OthersAsTheyWere
    <3>2. queue' = queue
      BY <1>a, <2>2, <3>1, HoldingAlone, QueueChanges
    <3> QED
      BY <1>d, <3>1, <3>2 DEF LimitIInv, RoomForBatch
  <2> QED
    BY <2>1, <2>2
<1>4. LimitRespected'
  BY <1>c DEF Within, LimitRespected
<1> QED
  BY <1>1, <1>2, <1>3, <1>4 DEF LimitIInv

\* Producers that wait for space look again when they are woken: without a forced add no more
\* than the rest of one batch is ever beyond the limit, for any number of producers and any
\* limit (queues.py:88-91, 107, 141, 164-181).
THEOREM QueueKeepsLimit == LimitSpec => []LimitRespected
<1>1. LimitInit => QueueIInv /\ LimitIInv
  <2> SUFFICES ASSUME LimitInit PROVE QueueIInv /\ LimitIInv
    OBVIOUS
  <2>1. QueueIInv
    BY QueueInitInv DEF LimitInit
  <2>2. /\ queue = <<>> /\ \A t \in Threads : call[t] = NoCall /\ stage[t] = "idle"
    BY DEF LimitInit, Init
  <2>3. Backlog(queue) = 0 /\ \A t \in Threads : Backlog(call[t].args) = 0 /\ ~ call[t].force
    BY <2>2, EmptyBacklog DEF NoCall
  <2>4. 0 <= LongestBatch /\ 0 <= Limit + LongestBatch - 1
    BY LimitAssumption, BatchAssumption
  <2> QED
    BY <2>1, <2>2, <2>3, <2>4 DEF LimitInit, LimitIInv, ForcedIsKnown,
       BatchesAreShort, RoomForBatch, LimitRespected
<1>2. QueueIInv /\ LimitIInv /\ [LimitNext]_<<vars, forced>> => (QueueIInv /\ LimitIInv)'
  <2>1. ASSUME QueueIInv, LimitIInv, NEW t \in Threads, NewRequest(t) \/ Work(t)
        PROVE  (QueueIInv /\ LimitIInv)'
    <3>1. Acts(t)
      BY <2>1 DEF NewRequest, Work, Acts
    <3> QED
      BY <2>1, <3>1, QueueInvStep, LimitStep
  <2>2. ASSUME QueueIInv, LimitIInv, UNCHANGED <<vars, forced>>
        PROVE  (QueueIInv /\ LimitIInv)'
    <3>1. QueueIInv'
      BY <2>2, QueueStutter
    <3>2. LimitIInv'
      BY <2>2 DEF vars, queueVars, LimitIInv, ForcedIsKnown, BatchesAreShort, RoomForBatch,
                  LimitRespected, Unlimited, Backlog
    <3> QED
      BY <3>1, <3>2
  <2> QED
    BY <2>1, <2>2 DEF LimitNext
<1>3. LimitIInv => LimitRespected
  BY DEF LimitIInv
<1> QED
  BY <1>1, <1>2, <1>3, PTL DEF LimitSpec
=============================================================================

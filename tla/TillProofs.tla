----------------------------- MODULE TillProofs -----------------------------
(***************************************************************************)
(* Theorems about Till, for any number of timers, any timeouts, any        *)
(* INTERVAL and any Slack: no timer goes early, none is lost but for the   *)
(* two cases NoTimerLost names, and while the daemon runs each is dealt    *)
(* with within Lateness.                                                   *)
(***************************************************************************)
EXTENDS Till, WellFoundedInduction, TLAPS

-----------------------------------------------------------------------------
(* The inductive invariant                                                 *)

\* before the daemon has started, Till() answers DONE
StartsEmpty ==
  daemon = "start" => ~ enabled /\ \A x \in Timers : stage[x] \in {"new", "DONE"}

OnlyHandedOver ==
  \A x \in new_timers \cup sorted_timers \cup work \cup gone :
    stage[x] \in {"registered", "collected"}

\* a timer is triggered once
Apart ==
  /\ gone \cap (new_timers \cup sorted_timers \cup work) = {}
  /\ work \cap (new_timers \cup sorted_timers) = {}

\* the daemon does not take timers before it is done with those it took last
WorkDone ==
  daemon \in {"start", "loop", "look", "sleep", "take", "disable", "drain", "over"} => work = {}

\* at its end the daemon triggers what it knows, and it leaves timers out only there
AllTaken ==
  /\ daemon \in {"trigger", "over"} => sorted_timers = {}
  /\ dropped # {} => daemon \in Ending

SomethingToSort == daemon \in {"read_ping", "write_ping"} => sorted_timers # {}

\* what is held up is counted from the time that the daemon has read
NowIsRecent == daemon \in {"look", "take"} => now <= clock /\ clock <= now + held

\* the daemon never plans further ahead than INTERVAL
NeverFar ==
  /\ next_ping <= clock + INTERVAL
  /\ ping <= clock + INTERVAL
  /\ daemon = "sleep" => wake <= clock + INTERVAL

WorkIsDue ==
  daemon \in {"read_ping", "write_ping", "fire"} =>
    \A x \in work : stage[x] = "collected" \/ timeout[x] <= clock

\* when the daemon should deal with x at the latest, were it not for its sleep
Due(x) == IF stage[x] = "collected" THEN since[x] ELSE Later(timeout[x], since[x])

Running == {"loop", "look", "sleep", "take", "read_ping", "write_ping", "fire"}

\* the next round that takes timers is near, also when next_ping was overwritten
NextRoundNear ==
  daemon \in Running =>
    \A x \in new_timers \cup sorted_timers :
      /\ next_ping <= Due(x) + INTERVAL
      /\ daemon = "write_ping" => ping <= Due(x) + INTERVAL

\* how late it may be for a timer that is not taken yet
NotLate ==
  \A x \in new_timers \cup sorted_timers :
    /\ daemon \in {"read_ping", "write_ping", "fire"} => clock <= Due(x) + held
    /\ daemon \in {"loop", "sleep"} => clock <= Due(x) + INTERVAL + held
    /\ daemon = "sleep" => wake <= Due(x) + INTERVAL + held
    /\ daemon \in {"look", "take"} => now <= Due(x) + INTERVAL + Slack

\* and for one that is
TakenNotLate ==
  daemon \in {"read_ping", "write_ping", "fire"} =>
    \A x \in work : clock <= Due(x) + INTERVAL + Slack + held

TillIInv ==
  /\ TillTypeOK
  /\ StartsEmpty
  /\ OnlyHandedOver
  /\ Apart
  /\ WorkDone
  /\ AllTaken
  /\ SomethingToSort
  /\ NowIsRecent
  /\ NeverFar
  /\ WorkIsDue
  /\ NextRoundNear
  /\ NotLate
  /\ TakenNotLate
  /\ NeverEarly
  /\ NoTimerLost

-----------------------------------------------------------------------------
(* Lemmas                                                                  *)

LEMMA LeastOf ==
  ASSUME NEW a \in Nat, NEW b \in Nat
  PROVE  /\ Least(a, b) \in Nat /\ Least(a, b) <= a /\ Least(a, b) <= b
         /\ Later(a, b) \in Nat /\ a <= Later(a, b) /\ b <= Later(a, b)
         /\ Later(a, b) \in {a, b}
BY DEF Least, Later

\* sorted_timers[0].timestamp is a time
LEMMA FirstIsTime ==
  ASSUME TillTypeOK, sorted_timers # {}
  PROVE  First \in Nat
<1> DEFINE T == {timeout[x] : x \in sorted_timers}
<1>1. T \in SUBSET Nat /\ T # {}
  BY DEF TillTypeOK
<1> HIDE DEF T
<1>2. \E x \in T : \A y \in T : ~ (<<y, x>> \in OpToRel(<, Nat))
  BY <1>1, NatLessThanWellFounded, WFMin
<1>3. PICK x \in T : \A y \in T : ~ (<<y, x>> \in OpToRel(<, Nat))
  BY <1>2
<1>4. ASSUME NEW y \in T PROVE x <= y
  <2>1. x \in Nat /\ y \in Nat /\ ~ (y < x)
    BY <1>1, <1>3 DEF OpToRel
  <2> QED
    BY <2>1
<1>5. Min(T) \in T
  BY <1>4 DEF Min
<1> QED
  BY <1>1, <1>5 DEF First, T

LEMMA DueIsTime ==
  ASSUME TillTypeOK, NEW x \in Timers
  PROVE  Due(x) \in Nat /\ (stage[x] # "collected" => timeout[x] <= Due(x))
                        /\ since[x] <= Due(x)
BY LeastOf DEF Due, TillTypeOK

LEMMA TillInitInv == Init => TillIInv
<1> SUFFICES ASSUME Init PROVE TillIInv
  OBVIOUS
<1>1. TillTypeOK
  <2>1. 0 \in 0 .. MaxTime /\ 0 \in 0 .. Slack
    BY TimeAssumption
  <2>2. "new" \in Stages /\ "start" \in Places
    BY DEF Stages, Places
  <2>3. /\ stage \in [Timers -> Stages]
        /\ timeout \in [Timers -> Nat] /\ since \in [Timers -> Nat]
    BY <2>2 DEF Init
  <2> QED
    BY <2>1, <2>2 DEF Init, TillTypeOK
<1>2. StartsEmpty /\ OnlyHandedOver /\ Apart /\ WorkDone /\ AllTaken /\ SomethingToSort
  BY DEF Init, StartsEmpty, OnlyHandedOver, Apart, WorkDone, AllTaken, SomethingToSort, TillIInv,
     Ending, till, local
<1>3. NowIsRecent /\ NeverFar
  BY TimeAssumption DEF Init, NowIsRecent, NeverFar
<1>4. WorkIsDue /\ NextRoundNear /\ NotLate /\ TakenNotLate
  BY DEF Init, WorkIsDue, NextRoundNear, NotLate, TakenNotLate
<1>5. NeverEarly /\ NoTimerLost
  BY DEF Init, NeverEarly, NoTimerLost, Known, TooLate, ShuttingDown
<1> QED
  BY <1>1, <1>2, <1>3, <1>4, <1>5 DEF TillIInv

LEMMA TillInvStep == TillIInv /\ [Next]_vars => TillIInv'
<1> SUFFICES ASSUME TillIInv, [Next]_vars PROVE TillIInv'
  OBVIOUS
<1> USE TimeAssumption
<1>1. ASSUME NEW x \in Timers, NEW s \in Seconds, NewDone(x, s)
      PROVE  TillIInv'
  <2>1. TillTypeOK'
    BY <1>1 DEF TillIInv, TillTypeOK, Stages, NewDone, Move, till, local
  <2>2. StartsEmpty'
    BY <1>1 DEF TillIInv, StartsEmpty, NewDone, Move
  <2>3. OnlyHandedOver'
    BY <1>1 DEF TillIInv, OnlyHandedOver, NewDone, Move, till, local
  <2>4. WorkIsDue'
    BY <1>1 DEF TillIInv, WorkIsDue, NewDone, Move, local
  <2>5. NextRoundNear'
    BY <1>1 DEF TillIInv, NextRoundNear, Due, NewDone, Move, till, local
  <2>6. NotLate'
    BY <1>1 DEF TillIInv, NotLate, Due, NewDone, Move, till, local
  <2>7. TakenNotLate'
    BY <1>1 DEF TillIInv, TakenNotLate, Due, NewDone, Move, local
  <2>8. NoTimerLost'
    BY <1>1 DEF TillIInv, NoTimerLost, NewDone, Move, till, local, Known, TooLate, ShuttingDown
  <2>9. /\ Apart' /\ WorkDone' /\ AllTaken' /\ SomethingToSort'
        /\ NowIsRecent' /\ NeverFar' /\ NeverEarly'
    BY <1>1 DEF TillIInv, NewDone, till, local, Apart, WorkDone, AllTaken, SomethingToSort,
       NowIsRecent, NeverFar, NeverEarly, ShuttingDown, Ending
  <2> QED
    BY <2>1, <2>2, <2>3, <2>4, <2>5, <2>6, <2>7, <2>8, <2>9 DEF TillIInv
<1>2. ASSUME NEW x \in Timers, NEW s \in Seconds, New(x, s)
      PROVE  TillIInv'
  <2>1. TillTypeOK'
    BY <1>2 DEF TillIInv, TillTypeOK, Stages, New, Move, till, local
  <2>2. StartsEmpty'
    BY <1>2 DEF TillIInv, StartsEmpty, New
  <2>3. OnlyHandedOver'
    BY <1>2 DEF TillIInv, OnlyHandedOver, New, Move, till, local
  <2>4. WorkIsDue'
    BY <1>2 DEF TillIInv, WorkIsDue, New, Move, local
  <2>5. NextRoundNear'
    BY <1>2 DEF TillIInv, NextRoundNear, Due, New, Move, till, local
  <2>6. NotLate'
    BY <1>2 DEF TillIInv, NotLate, Due, New, Move, till, local
  <2>7. TakenNotLate'
    BY <1>2 DEF TillIInv, TakenNotLate, Due, New, Move, local
  <2>8. NoTimerLost'
    BY <1>2 DEF TillIInv, NoTimerLost, New, Move, till, local, Known, TooLate, ShuttingDown
  <2>9. /\ Apart' /\ WorkDone' /\ AllTaken' /\ SomethingToSort'
        /\ NowIsRecent' /\ NeverFar' /\ NeverEarly'
    BY <1>2 DEF TillIInv, New, till, local, Apart, WorkDone, AllTaken, SomethingToSort,
       NowIsRecent, NeverFar, NeverEarly, ShuttingDown, Ending
  <2> QED
    BY <2>1, <2>2, <2>3, <2>4, <2>5, <2>6, <2>7, <2>8, <2>9 DEF TillIInv
<1>3. ASSUME NEW x \in Timers, NEW s \in Seconds, ReadTime(x, s)
      PROVE  TillIInv'
  <2>1. TillTypeOK'
    BY <1>3 DEF TillIInv, TillTypeOK, Stages, ReadTime, Move, till, local
  <2>2. StartsEmpty'
    BY <1>3 DEF TillIInv, StartsEmpty, ReadTime
  <2>3. OnlyHandedOver'
    BY <1>3 DEF TillIInv, OnlyHandedOver, ReadTime, Move, till, local
  <2>4. WorkIsDue'
    BY <1>3 DEF TillIInv, WorkIsDue, OnlyHandedOver, ReadTime, Move, local
  <2>5. NextRoundNear'
    BY <1>3 DEF TillIInv, NextRoundNear, Due, ReadTime, Move, till, local, OnlyHandedOver
  <2>6. NotLate'
    BY <1>3 DEF TillIInv, NotLate, Due, ReadTime, Move, till, local, OnlyHandedOver
  <2>7. TakenNotLate'
    BY <1>3 DEF TillIInv, TakenNotLate, Due, ReadTime, Move, local, OnlyHandedOver
  <2>8. NeverEarly'
    BY <1>3 DEF TillIInv, NeverEarly, ShuttingDown, OnlyHandedOver, ReadTime
  <2>9. NoTimerLost'
    BY <1>3 DEF TillIInv, NoTimerLost, ReadTime, Move, till, local, Known, TooLate, ShuttingDown
  <2>10. /\ Apart' /\ WorkDone' /\ AllTaken' /\ SomethingToSort'
         /\ NowIsRecent' /\ NeverFar'
    BY <1>3 DEF TillIInv, ReadTime, till, local, Apart, WorkDone, AllTaken, SomethingToSort,
       NowIsRecent, NeverFar, Ending
  <2> QED
    BY <2>1, <2>2, <2>3, <2>4, <2>5, <2>6, <2>7, <2>8, <2>9, <2>10 DEF TillIInv
<1>4. ASSUME NEW x \in Timers, Register(x)
      PROVE  TillIInv'
  <2>1. TillTypeOK'
    BY <1>4 DEF TillIInv, TillTypeOK, Stages, Register, Move, local, Least
  <2>2. StartsEmpty'
    BY <1>4 DEF TillIInv, StartsEmpty, Register
  <2>3. OnlyHandedOver'
    BY <1>4 DEF TillIInv, TillTypeOK, OnlyHandedOver, Register, Move, local
  <2>4. Apart'
    BY <1>4 DEF TillIInv, Apart, Register, local, OnlyHandedOver
  <2>5. NeverFar'
    BY <1>4 DEF TillIInv, TillTypeOK, NeverFar, Register, local, Least
  <2>6. WorkIsDue'
    BY <1>4 DEF TillIInv, WorkIsDue, Register, Move, local
  <2>7. NextRoundNear'
    BY <1>4 DEF TillIInv, TillTypeOK, NextRoundNear, Due, Later, Register, Move, local, Least,
       NeverFar
  <2>8. NotLate'
    BY <1>4 DEF TillIInv, TillTypeOK, NotLate, Due, Later, Register, Move, local, NeverFar,
       NowIsRecent
  <2>9. TakenNotLate'
    BY <1>4 DEF TillIInv, TakenNotLate, Due, Register, Move, local, OnlyHandedOver
  <2>10. NoTimerLost'
    BY <1>4 DEF TillIInv, NoTimerLost, Register, Move, local, Known, TooLate, ShuttingDown
  <2>11. /\ WorkDone' /\ AllTaken' /\ SomethingToSort' /\ NowIsRecent'
         /\ NeverEarly'
    BY <1>4 DEF TillIInv, Register, local, WorkDone, AllTaken, SomethingToSort, NowIsRecent,
       NeverEarly, ShuttingDown, Ending, till
  <2> QED
    BY <2>1, <2>2, <2>3, <2>4, <2>5, <2>6, <2>7, <2>8, <2>9, <2>10, <2>11 DEF TillIInv
<1>5. ASSUME NEW x \in Timers, Collect(x)
      PROVE  TillIInv'
  <2>1. TillTypeOK'
    BY <1>5 DEF TillIInv, TillTypeOK, Stages, Collect, Move, till, local
  <2>2. StartsEmpty'
    BY <1>5 DEF TillIInv, StartsEmpty, Collect
  <2>3. OnlyHandedOver'
    BY <1>5 DEF TillIInv, OnlyHandedOver, Collect, Move, till, local
  <2>4. WorkIsDue'
    BY <1>5 DEF TillIInv, WorkIsDue, Collect, Move, local
  <2>5. NextRoundNear'
    BY <1>5 DEF TillIInv, TillTypeOK, NextRoundNear, Due, Collect, Move, till, local, NeverFar
  <2>6. NotLate'
    BY <1>5 DEF TillIInv, TillTypeOK, NotLate, Due, Collect, Move, till, local, NeverFar,
       NowIsRecent
  <2>7. TakenNotLate'
    BY <1>5 DEF TillIInv, TillTypeOK, TakenNotLate, Due, Collect, Move, local
  <2>8. NoTimerLost'
    BY <1>5 DEF TillIInv, NoTimerLost, Collect, Move, till, local, Known, TooLate, ShuttingDown
  <2>9. /\ Apart' /\ WorkDone' /\ AllTaken' /\ SomethingToSort'
        /\ NowIsRecent' /\ NeverFar' /\ NeverEarly'
    BY <1>5 DEF TillIInv, Collect, till, local, Apart, WorkDone, AllTaken, SomethingToSort,
       NowIsRecent, NeverFar, NeverEarly, ShuttingDown, Ending
  <2> QED
    BY <2>1, <2>2, <2>3, <2>4, <2>5, <2>6, <2>7, <2>8, <2>9 DEF TillIInv
<1>6. ASSUME PleaseStop
      PROVE  TillIInv'
  <2>1. TillTypeOK'
    BY <1>6 DEF TillIInv, TillTypeOK, PleaseStop, till, timer, local
  <2>2. AllTaken'
    BY <1>6 DEF AllTaken, PleaseStop, TillIInv, Ending, till, local, WorkDone
  <2>3. /\ StartsEmpty' /\ OnlyHandedOver' /\ Apart' /\ WorkDone'
        /\ SomethingToSort' /\ NowIsRecent' /\ NeverFar' /\ WorkIsDue'
        /\ NextRoundNear' /\ NotLate' /\ TakenNotLate' /\ NeverEarly'
        /\ NoTimerLost'
    BY <1>6 DEF TillIInv, PleaseStop, till, timer, local, StartsEmpty, OnlyHandedOver, Apart,
       WorkDone, SomethingToSort, NowIsRecent, NeverFar, WorkIsDue, NextRoundNear, Due, NotLate,
       TakenNotLate, NeverEarly, ShuttingDown, NoTimerLost, Known, TooLate
  <2> QED
    BY <2>1, <2>2, <2>3 DEF TillIInv
<1>7. ASSUME Start
      PROVE  TillIInv'
  <2>1. TillTypeOK'
    BY <1>7 DEF TillIInv, TillTypeOK, Places, Start, till, timer, local
  <2>2. StartsEmpty'
    BY <1>7 DEF StartsEmpty, Start
  <2>3. WorkDone'
    BY <1>7 DEF TillIInv, WorkDone, Start, local
  <2>4. AllTaken'
    BY <1>7 DEF AllTaken, Start, TillIInv, Ending, till, local, WorkDone
  <2>5. SomethingToSort'
    BY <1>7 DEF SomethingToSort, Start
  <2>6. NowIsRecent'
    BY <1>7 DEF NowIsRecent, Start
  <2>7. NeverFar'
    BY <1>7 DEF TillIInv, NeverFar, Start, till, local
  <2>8. WorkIsDue'
    BY <1>7 DEF WorkIsDue, Start
  <2>9. NextRoundNear'
    BY <1>7 DEF TillIInv, TillTypeOK, NextRoundNear, Start, till, local, StartsEmpty, OnlyHandedOver
  <2>10. NotLate'
    BY <1>7 DEF TillIInv, TillTypeOK, NotLate, Start, local, till, StartsEmpty, OnlyHandedOver
  <2>11. TakenNotLate'
    BY <1>7 DEF TakenNotLate, Start
  <2>12. NeverEarly'
    BY <1>7 DEF TillIInv, NeverEarly, ShuttingDown, Start, timer
  <2>13. OnlyHandedOver' /\ Apart' /\ NoTimerLost'
    BY <1>7 DEF TillIInv, Start, till, timer, local, OnlyHandedOver, Apart, NoTimerLost, Known,
       TooLate, ShuttingDown
  <2> QED
    BY <2>1, <2>2, <2>3, <2>4, <2>5, <2>6, <2>7, <2>8, <2>9, <2>10, <2>11, <2>12, <2>13 DEF 
       TillIInv
<1>8. ASSUME Round
      PROVE  TillIInv'
  <2>1. TillTypeOK'
    BY <1>8 DEF TillIInv, TillTypeOK, Places, Round, till, timer
  <2>2. StartsEmpty'
    BY <1>8 DEF StartsEmpty, Round
  <2>3. WorkDone'
    BY <1>8 DEF TillIInv, WorkDone, Round
  <2>4. AllTaken'
    BY <1>8 DEF AllTaken, Round, TillIInv, Ending, till, local, WorkDone
  <2>5. SomethingToSort'
    BY <1>8 DEF SomethingToSort, Round
  <2>6. NowIsRecent'
    BY <1>8 DEF TillIInv, TillTypeOK, NowIsRecent, Round
  <2>7. NeverFar'
    BY <1>8 DEF TillIInv, NeverFar, Round, till
  <2>8. WorkIsDue'
    BY <1>8 DEF WorkIsDue, Round
  <2>9. NextRoundNear'
    BY <1>8 DEF TillIInv, NextRoundNear, Due, Running, Round, till, timer
  <2>10. NotLate'
    BY <1>8 DEF TillIInv, TillTypeOK, NotLate, Due, Later, Round, till, timer
  <2>11. TakenNotLate'
    BY <1>8 DEF TakenNotLate, Round
  <2>12. NeverEarly'
    BY <1>8 DEF TillIInv, NeverEarly, ShuttingDown, Round, timer
  <2>13. OnlyHandedOver' /\ Apart' /\ NoTimerLost'
    BY <1>8 DEF TillIInv, Round, till, timer, OnlyHandedOver, Apart, NoTimerLost, Known, TooLate,
       ShuttingDown
  <2> QED
    BY <2>1, <2>2, <2>3, <2>4, <2>5, <2>6, <2>7, <2>8, <2>9, <2>10, <2>11, <2>12, <2>13 DEF 
       TillIInv
<1>9. ASSUME Stopping
      PROVE  TillIInv'
  <2>1. TillTypeOK'
    BY <1>9 DEF TillIInv, TillTypeOK, Places, Stopping, till, timer, local
  <2>2. StartsEmpty'
    BY <1>9 DEF StartsEmpty, Stopping
  <2>3. WorkDone'
    BY <1>9 DEF TillIInv, WorkDone, Stopping, local
  <2>4. AllTaken'
    BY <1>9 DEF AllTaken, Stopping, TillIInv, Ending, till, local, WorkDone
  <2>5. SomethingToSort'
    BY <1>9 DEF SomethingToSort, Stopping
  <2>6. NowIsRecent'
    BY <1>9 DEF NowIsRecent, Stopping
  <2>7. NeverFar'
    BY <1>9 DEF TillIInv, NeverFar, Stopping, till, local
  <2>8. WorkIsDue'
    BY <1>9 DEF WorkIsDue, Stopping
  <2>9. NextRoundNear'
    BY <1>9 DEF NextRoundNear, Running, Stopping
  <2>10. NotLate'
    BY <1>9 DEF NotLate, Stopping
  <2>11. TakenNotLate'
    BY <1>9 DEF TakenNotLate, Stopping
  <2>12. NeverEarly'
    BY <1>9 DEF TillIInv, NeverEarly, ShuttingDown, Stopping, timer
  <2>13. OnlyHandedOver' /\ Apart' /\ NoTimerLost'
    BY <1>9 DEF TillIInv, Stopping, till, timer, local, OnlyHandedOver, Apart, NoTimerLost, Known,
       TooLate, ShuttingDown
  <2> QED
    BY <2>1, <2>2, <2>3, <2>4, <2>5, <2>6, <2>7, <2>8, <2>9, <2>10, <2>11, <2>12, <2>13 DEF 
       TillIInv
<1>10. ASSUME GoToSleep
      PROVE  TillIInv'
  <2>1. TillTypeOK'
    BY <1>10 DEF TillIInv, TillTypeOK, Places, GoToSleep, till, timer, Least
  <2>2. StartsEmpty'
    BY <1>10 DEF StartsEmpty, GoToSleep
  <2>3. WorkDone'
    BY <1>10 DEF TillIInv, WorkDone, GoToSleep
  <2>4. AllTaken'
    BY <1>10 DEF AllTaken, GoToSleep, TillIInv, Ending, till, local, WorkDone
  <2>5. SomethingToSort'
    BY <1>10 DEF SomethingToSort, GoToSleep
  <2>6. NowIsRecent'
    BY <1>10 DEF NowIsRecent, GoToSleep
  <2>7. NeverFar'
    BY <1>10 DEF TillIInv, TillTypeOK, NeverFar, GoToSleep, till, Least
  <2>8. WorkIsDue'
    BY <1>10 DEF WorkIsDue, GoToSleep
  <2>9. NextRoundNear'
    BY <1>10 DEF TillIInv, NextRoundNear, Due, Running, GoToSleep, till, timer
  <2>10. NotLate'
    BY <1>10 DEF TillIInv, TillTypeOK, NotLate, Due, Later, Running, GoToSleep, till, timer,
       NowIsRecent, Least, NextRoundNear
  <2>11. TakenNotLate'
    BY <1>10 DEF TakenNotLate, GoToSleep
  <2>12. NeverEarly'
    BY <1>10 DEF TillIInv, NeverEarly, ShuttingDown, GoToSleep, timer
  <2>13. OnlyHandedOver' /\ Apart' /\ NoTimerLost'
    BY <1>10 DEF TillIInv, GoToSleep, till, timer, OnlyHandedOver, Apart, NoTimerLost, Known,
       TooLate, ShuttingDown
  <2> QED
    BY <2>1, <2>2, <2>3, <2>4, <2>5, <2>6, <2>7, <2>8, <2>9, <2>10, <2>11, <2>12, <2>13 DEF 
       TillIInv
<1>11. ASSUME Awake
      PROVE  TillIInv'
  <2>1. TillTypeOK'
    BY <1>11 DEF TillIInv, TillTypeOK, Places, Awake, till, timer
  <2>2. StartsEmpty'
    BY <1>11 DEF StartsEmpty, Awake
  <2>3. WorkDone'
    BY <1>11 DEF TillIInv, WorkDone, Awake
  <2>4. AllTaken'
    BY <1>11 DEF AllTaken, Awake, TillIInv, Ending, till, local, WorkDone
  <2>5. SomethingToSort'
    BY <1>11 DEF SomethingToSort, Awake
  <2>6. NowIsRecent'
    BY <1>11 DEF NowIsRecent, Awake
  <2>7. NeverFar'
    BY <1>11 DEF TillIInv, NeverFar, Awake, till
  <2>8. WorkIsDue'
    BY <1>11 DEF WorkIsDue, Awake
  <2>9. NextRoundNear'
    BY <1>11 DEF TillIInv, NextRoundNear, Due, Running, Awake, till, timer
  <2>10. NotLate'
    BY <1>11 DEF TillIInv, NotLate, Due, Awake, till, timer
  <2>11. TakenNotLate'
    BY <1>11 DEF TakenNotLate, Awake
  <2>12. NeverEarly'
    BY <1>11 DEF TillIInv, NeverEarly, ShuttingDown, Awake, timer
  <2>13. OnlyHandedOver' /\ Apart' /\ NoTimerLost'
    BY <1>11 DEF TillIInv, Awake, till, timer, OnlyHandedOver, Apart, NoTimerLost, Known, TooLate,
       ShuttingDown
  <2> QED
    BY <2>1, <2>2, <2>3, <2>4, <2>5, <2>6, <2>7, <2>8, <2>9, <2>10, <2>11, <2>12, <2>13 DEF 
       TillIInv
<1>12. ASSUME Ping
      PROVE  TillIInv'
  <2>1. TillTypeOK'
    BY <1>12 DEF TillIInv, TillTypeOK, Places, Ping, till, timer, local
  <2>2. StartsEmpty'
    BY <1>12 DEF StartsEmpty, Ping
  <2>3. WorkDone'
    BY <1>12 DEF TillIInv, WorkDone, Ping, local
  <2>4. AllTaken'
    BY <1>12 DEF AllTaken, Ping, TillIInv, Ending, till, local, WorkDone
  <2>5. SomethingToSort'
    BY <1>12 DEF SomethingToSort, Ping
  <2>6. NowIsRecent'
    BY <1>12 DEF TillIInv, NowIsRecent, Ping, local
  <2>7. NeverFar'
    BY <1>12 DEF TillIInv, NeverFar, Ping, till, local
  <2>8. WorkIsDue'
    BY <1>12 DEF WorkIsDue, Ping
  <2>9. NextRoundNear'
    BY <1>12 DEF TillIInv, NextRoundNear, Due, Running, Ping, till, timer, local
  <2>10. NotLate'
    BY <1>12 DEF TillIInv, NotLate, Due, Ping, till, timer, local
  <2>11. TakenNotLate'
    BY <1>12 DEF TakenNotLate, Ping
  <2>12. NeverEarly'
    BY <1>12 DEF TillIInv, NeverEarly, ShuttingDown, Ping, timer
  <2>13. OnlyHandedOver' /\ Apart' /\ NoTimerLost'
    BY <1>12 DEF TillIInv, Ping, till, timer, local, OnlyHandedOver, Apart, NoTimerLost, Known,
       TooLate, ShuttingDown
  <2> QED
    BY <2>1, <2>2, <2>3, <2>4, <2>5, <2>6, <2>7, <2>8, <2>9, <2>10, <2>11, <2>12, <2>13 DEF 
       TillIInv
<1>13. ASSUME Take
      PROVE  TillIInv'
  <2>1. TillTypeOK'
    BY <1>13 DEF TillIInv, TillTypeOK, Places, Take, timer
  <2>2. StartsEmpty'
    BY <1>13 DEF StartsEmpty, Take
  <2>3. OnlyHandedOver'
    BY <1>13 DEF TillIInv, OnlyHandedOver, Take, timer
  <2>4. Apart'
    BY <1>13 DEF TillIInv, TillTypeOK, Apart, Take, ActualTime
  <2>5. WorkDone'
    BY <1>13 DEF WorkDone, Take
  <2>6. AllTaken'
    BY <1>13 DEF AllTaken, Take, TillIInv, Ending, till, local, WorkDone
  <2>7. SomethingToSort'
    BY <1>13 DEF SomethingToSort, Take
  <2>8. NowIsRecent'
    BY <1>13 DEF NowIsRecent, Take
  <2>9. NeverFar'
    BY <1>13 DEF TillIInv, TillTypeOK, NeverFar, Take, NowIsRecent
  <2>10. WorkIsDue'
    BY <1>13 DEF TillIInv, TillTypeOK, WorkIsDue, Take, ActualTime, timer, NowIsRecent
  <2>11. NextRoundNear'
    BY <1>13 DEF TillIInv, TillTypeOK, NextRoundNear, Due, Later, Take, ActualTime, timer
  <2>12. NotLate'
    BY <1>13 DEF TillIInv, TillTypeOK, NotLate, Due, Later, Take, ActualTime, timer, NowIsRecent
  <2>13. TakenNotLate'
    BY <1>13 DEF TillIInv, TillTypeOK, TakenNotLate, Due, Later, Take, timer, NowIsRecent, NotLate
  <2>14. NeverEarly'
    BY <1>13 DEF TillIInv, NeverEarly, ShuttingDown, Take, timer
  <2>15. NoTimerLost'
    BY <1>13 DEF TillIInv, TillTypeOK, NoTimerLost, Take, ActualTime, timer, WorkDone, Known,
       TooLate, ShuttingDown
  <2> QED
    BY <2>1, <2>2, <2>3, <2>4, <2>5, <2>6, <2>7, <2>8, <2>9, <2>10, <2>11, <2>12, <2>13, <2>14,
       <2>15 DEF TillIInv
<1>14. ASSUME ReadPing
      PROVE  TillIInv'
  <2>1. TillTypeOK'
    BY <1>14 DEF TillIInv, TillTypeOK, Places, ReadPing, till, timer
  <2>2. StartsEmpty'
    BY <1>14 DEF StartsEmpty, ReadPing
  <2>3. WorkDone'
    BY <1>14 DEF WorkDone, ReadPing
  <2>4. AllTaken'
    BY <1>14 DEF AllTaken, ReadPing, TillIInv, Ending, till, local, WorkDone
  <2>5. SomethingToSort'
    BY <1>14 DEF TillIInv, SomethingToSort, ReadPing
  <2>6. NowIsRecent'
    BY <1>14 DEF NowIsRecent, ReadPing
  <2>7. NeverFar'
    BY <1>14 DEF TillIInv, NeverFar, ReadPing, till
  <2>8. WorkIsDue'
    BY <1>14 DEF TillIInv, WorkIsDue, ReadPing, timer
  <2>9. NextRoundNear'
    BY <1>14 DEF TillIInv, NextRoundNear, Due, Running, ReadPing, till, timer
  <2>10. NotLate'
    BY <1>14 DEF TillIInv, NotLate, Due, ReadPing, till, timer
  <2>11. TakenNotLate'
    BY <1>14 DEF TillIInv, TakenNotLate, Due, ReadPing, timer
  <2>12. NeverEarly'
    BY <1>14 DEF TillIInv, NeverEarly, ShuttingDown, ReadPing, timer
  <2>13. OnlyHandedOver' /\ Apart' /\ NoTimerLost'
    BY <1>14 DEF TillIInv, ReadPing, till, timer, OnlyHandedOver, Apart, NoTimerLost, Known,
       TooLate, ShuttingDown
  <2> QED
    BY <2>1, <2>2, <2>3, <2>4, <2>5, <2>6, <2>7, <2>8, <2>9, <2>10, <2>11, <2>12, <2>13 DEF 
       TillIInv
<1>15. ASSUME WritePing
      PROVE  TillIInv'
  <2>a. First \in Nat
    BY <1>15, FirstIsTime DEF WritePing, TillIInv, SomethingToSort
  <2>1. TillTypeOK'
    BY <1>15, <2>a DEF TillIInv, TillTypeOK, Places, WritePing, timer, Least
  <2>2. StartsEmpty'
    BY <1>15 DEF StartsEmpty, WritePing
  <2>3. WorkDone'
    BY <1>15 DEF WorkDone, WritePing
  <2>4. AllTaken'
    BY <1>15 DEF AllTaken, WritePing, TillIInv, Ending, till, local, WorkDone
  <2>5. SomethingToSort'
    BY <1>15 DEF SomethingToSort, WritePing
  <2>6. NowIsRecent'
    BY <1>15 DEF NowIsRecent, WritePing
  <2>7. NeverFar'
    BY <1>15, <2>a DEF TillIInv, TillTypeOK, NeverFar, WritePing, Least
  <2>8. WorkIsDue'
    BY <1>15 DEF TillIInv, WorkIsDue, WritePing, timer
  <2>9. NextRoundNear'
    BY <1>15 DEF TillIInv, TillTypeOK, NextRoundNear, Due, Running, Later, WritePing, timer, Least
  <2>10. NotLate'
    BY <1>15 DEF TillIInv, NotLate, Due, WritePing, timer
  <2>11. TakenNotLate'
    BY <1>15 DEF TillIInv, TakenNotLate, Due, WritePing, timer
  <2>12. NeverEarly'
    BY <1>15 DEF TillIInv, NeverEarly, ShuttingDown, WritePing, timer
  <2>13. OnlyHandedOver' /\ Apart' /\ NoTimerLost'
    BY <1>15 DEF TillIInv, WritePing, timer, OnlyHandedOver, Apart, NoTimerLost, Known, TooLate,
       ShuttingDown
  <2> QED
    BY <2>1, <2>2, <2>3, <2>4, <2>5, <2>6, <2>7, <2>8, <2>9, <2>10, <2>11, <2>12, <2>13 DEF 
       TillIInv
<1>16. ASSUME NEW x \in Timers, Fire(x)
      PROVE  TillIInv'
  <2>1. TillTypeOK'
    BY <1>16 DEF TillIInv, TillTypeOK, Fire, Trigger, till
  <2>2. OnlyHandedOver'
    BY <1>16 DEF TillIInv, OnlyHandedOver, Fire, Trigger, till
  <2>3. Apart'
    BY <1>16 DEF TillIInv, Apart, Fire, Trigger, till
  <2>4. WorkDone'
    BY <1>16 DEF WorkDone, Fire, Trigger
  <2>5. WorkIsDue'
    BY <1>16 DEF TillIInv, WorkIsDue, Fire, Trigger
  <2>6. NextRoundNear'
    BY <1>16 DEF TillIInv, NextRoundNear, Due, Fire, Trigger, till, Apart
  <2>7. NotLate'
    BY <1>16 DEF TillIInv, NotLate, Due, Fire, Trigger, till, Apart
  <2>8. TakenNotLate'
    BY <1>16 DEF TillIInv, TakenNotLate, Due, Fire, Trigger
  <2>9. NeverEarly'
    BY <1>16 DEF TillIInv, NeverEarly, ShuttingDown, WorkIsDue, Fire, Trigger
  <2>10. NoTimerLost'
    BY <1>16 DEF TillIInv, NoTimerLost, Fire, Trigger, till, Known, TooLate, ShuttingDown
  <2>11. /\ StartsEmpty' /\ AllTaken' /\ SomethingToSort' /\ NowIsRecent'
         /\ NeverFar'
    BY <1>16 DEF TillIInv, Fire, Trigger, till, StartsEmpty, AllTaken, SomethingToSort,
       NowIsRecent, NeverFar, Ending, local, WorkDone
  <2> QED
    BY <2>1, <2>2, <2>3, <2>4, <2>5, <2>6, <2>7, <2>8, <2>9, <2>10, <2>11 DEF TillIInv
<1>17. ASSUME Fired
      PROVE  TillIInv'
  <2>1. TillTypeOK'
    BY <1>17 DEF TillIInv, TillTypeOK, Places, Fired, till, timer, local
  <2>2. StartsEmpty'
    BY <1>17 DEF StartsEmpty, Fired
  <2>3. WorkDone'
    BY <1>17 DEF WorkDone, Fired, local
  <2>4. AllTaken'
    BY <1>17 DEF AllTaken, Fired, TillIInv, Ending, till, local, WorkDone
  <2>5. SomethingToSort'
    BY <1>17 DEF SomethingToSort, Fired
  <2>6. NowIsRecent'
    BY <1>17 DEF NowIsRecent, Fired
  <2>7. NeverFar'
    BY <1>17 DEF TillIInv, NeverFar, Fired, till, local
  <2>8. WorkIsDue'
    BY <1>17 DEF WorkIsDue, Fired
  <2>9. NextRoundNear'
    BY <1>17 DEF TillIInv, NextRoundNear, Due, Running, Fired, till, timer, local
  <2>10. NotLate'
    BY <1>17 DEF TillIInv, TillTypeOK, NotLate, Due, Later, Fired, till, timer, local
  <2>11. TakenNotLate'
    BY <1>17 DEF TakenNotLate, Fired
  <2>12. NeverEarly'
    BY <1>17 DEF TillIInv, NeverEarly, ShuttingDown, Fired, timer
  <2>13. OnlyHandedOver' /\ Apart' /\ NoTimerLost'
    BY <1>17 DEF TillIInv, Fired, till, timer, local, OnlyHandedOver, Apart, NoTimerLost, Known,
       TooLate, ShuttingDown
  <2> QED
    BY <2>1, <2>2, <2>3, <2>4, <2>5, <2>6, <2>7, <2>8, <2>9, <2>10, <2>11, <2>12, <2>13 DEF 
       TillIInv
<1>18. ASSUME Disable
      PROVE  TillIInv'
  <2>1. TillTypeOK'
    BY <1>18 DEF TillIInv, TillTypeOK, Places, Disable, till, timer, local
  <2>2. StartsEmpty'
    BY <1>18 DEF StartsEmpty, Disable
  <2>3. WorkDone'
    BY <1>18 DEF TillIInv, WorkDone, Disable, local
  <2>4. AllTaken'
    BY <1>18 DEF TillIInv, AllTaken, Disable, Ending, till, local, WorkDone
  <2>5. SomethingToSort'
    BY <1>18 DEF SomethingToSort, Disable
  <2>6. NowIsRecent'
    BY <1>18 DEF NowIsRecent, Disable
  <2>7. NeverFar'
    BY <1>18 DEF TillIInv, NeverFar, Disable, till, local
  <2>8. WorkIsDue'
    BY <1>18 DEF WorkIsDue, Disable
  <2>9. NextRoundNear'
    BY <1>18 DEF NextRoundNear, Running, Disable
  <2>10. NotLate'
    BY <1>18 DEF NotLate, Disable
  <2>11. TakenNotLate'
    BY <1>18 DEF TakenNotLate, Disable
  <2>12. NeverEarly'
    BY <1>18 DEF TillIInv, NeverEarly, ShuttingDown, Disable, timer
  <2>13. OnlyHandedOver' /\ Apart' /\ NoTimerLost'
    BY <1>18 DEF TillIInv, Disable, till, timer, local, OnlyHandedOver, Apart, NoTimerLost, Known,
       TooLate, ShuttingDown
  <2> QED
    BY <2>1, <2>2, <2>3, <2>4, <2>5, <2>6, <2>7, <2>8, <2>9, <2>10, <2>11, <2>12, <2>13 DEF 
       TillIInv
<1>19. ASSUME Drain
      PROVE  TillIInv'
  <2>1. TillTypeOK'
    BY <1>19 DEF TillIInv, TillTypeOK, Places, Drain, timer
  <2>2. StartsEmpty'
    BY <1>19 DEF StartsEmpty, Drain
  <2>3. OnlyHandedOver'
    BY <1>19 DEF TillIInv, OnlyHandedOver, Drain, timer
  <2>4. Apart'
    BY <1>19 DEF TillIInv, Apart, Drain
  <2>5. WorkDone'
    BY <1>19 DEF WorkDone, Drain
  <2>6. AllTaken'
    BY <1>19 DEF TillIInv, AllTaken, Drain, Ending, till, local, WorkDone
  <2>7. SomethingToSort'
    BY <1>19 DEF SomethingToSort, Drain
  <2>8. NowIsRecent'
    BY <1>19 DEF NowIsRecent, Drain
  <2>9. NeverFar'
    BY <1>19 DEF TillIInv, NeverFar, Drain
  <2>10. WorkIsDue'
    BY <1>19 DEF WorkIsDue, Drain
  <2>11. NextRoundNear'
    BY <1>19 DEF NextRoundNear, Drain
  <2>12. NotLate'
    BY <1>19 DEF NotLate, Drain
  <2>13. TakenNotLate'
    BY <1>19 DEF TakenNotLate, Drain
  <2>14. NeverEarly'
    BY <1>19 DEF NeverEarly, ShuttingDown, Drain
  <2>15. NoTimerLost'
    BY <1>19 DEF TillIInv, NoTimerLost, Drain, timer, WorkDone, Known, TooLate, ShuttingDown
  <2> QED
    BY <2>1, <2>2, <2>3, <2>4, <2>5, <2>6, <2>7, <2>8, <2>9, <2>10, <2>11, <2>12, <2>13, <2>14,
       <2>15 DEF TillIInv
<1>20. ASSUME NEW x \in Timers, TriggerRest(x)
      PROVE  TillIInv'
  <2>1. TillTypeOK'
    BY <1>20 DEF TillIInv, TillTypeOK, TriggerRest, Trigger, till
  <2>2. OnlyHandedOver'
    BY <1>20 DEF TillIInv, OnlyHandedOver, TriggerRest, Trigger, till
  <2>3. Apart'
    BY <1>20 DEF TillIInv, Apart, TriggerRest, Trigger, till
  <2>4. WorkDone'
    BY <1>20 DEF WorkDone, TriggerRest, Trigger
  <2>5. WorkIsDue'
    BY <1>20 DEF WorkIsDue, TriggerRest, Trigger
  <2>6. NextRoundNear'
    BY <1>20 DEF NextRoundNear, Running, TriggerRest, Trigger
  <2>7. NotLate'
    BY <1>20 DEF NotLate, TriggerRest, Trigger
  <2>8. TakenNotLate'
    BY <1>20 DEF TakenNotLate, TriggerRest, Trigger
  <2>9. NeverEarly'
    BY <1>20 DEF NeverEarly, ShuttingDown, TriggerRest, Trigger
  <2>10. NoTimerLost'
    BY <1>20 DEF TillIInv, NoTimerLost, TriggerRest, Trigger, till, Known, TooLate, ShuttingDown
  <2>11. /\ StartsEmpty' /\ AllTaken' /\ SomethingToSort' /\ NowIsRecent'
         /\ NeverFar'
    BY <1>20 DEF TillIInv, TriggerRest, Trigger, till, StartsEmpty, AllTaken, SomethingToSort,
       NowIsRecent, NeverFar, Ending, local, WorkDone
  <2> QED
    BY <2>1, <2>2, <2>3, <2>4, <2>5, <2>6, <2>7, <2>8, <2>9, <2>10, <2>11 DEF TillIInv
<1>21. ASSUME Over
      PROVE  TillIInv'
  <2>1. TillTypeOK'
    BY <1>21 DEF TillIInv, TillTypeOK, Places, Over, till, timer, local
  <2>2. StartsEmpty'
    BY <1>21 DEF StartsEmpty, Over
  <2>3. WorkDone'
    BY <1>21 DEF TillIInv, WorkDone, Over, local
  <2>4. AllTaken'
    BY <1>21 DEF TillIInv, AllTaken, Over, Ending, till, local, WorkDone
  <2>5. SomethingToSort'
    BY <1>21 DEF SomethingToSort, Over
  <2>6. NowIsRecent'
    BY <1>21 DEF NowIsRecent, Over
  <2>7. NeverFar'
    BY <1>21 DEF TillIInv, NeverFar, Over, till, local
  <2>8. WorkIsDue'
    BY <1>21 DEF WorkIsDue, Over
  <2>9. NextRoundNear'
    BY <1>21 DEF NextRoundNear, Running, Over
  <2>10. NotLate'
    BY <1>21 DEF NotLate, Over
  <2>11. TakenNotLate'
    BY <1>21 DEF TakenNotLate, Over
  <2>12. NeverEarly'
    BY <1>21 DEF NeverEarly, ShuttingDown, Over
  <2>13. OnlyHandedOver' /\ Apart' /\ NoTimerLost'
    BY <1>21 DEF TillIInv, Over, till, timer, local, OnlyHandedOver, Apart, NoTimerLost, Known,
       TooLate, ShuttingDown
  <2> QED
    BY <2>1, <2>2, <2>3, <2>4, <2>5, <2>6, <2>7, <2>8, <2>9, <2>10, <2>11, <2>12, <2>13 DEF 
       TillIInv
<1>22. ASSUME Tick
      PROVE  TillIInv'
  <2>1. TillTypeOK'
    BY <1>22 DEF TillIInv, TillTypeOK, Tick, till, timer, local
  <2>2. NowIsRecent'
    BY <1>22 DEF TillIInv, TillTypeOK, NowIsRecent, Tick, local
  <2>3. NeverFar'
    BY <1>22 DEF TillIInv, TillTypeOK, NeverFar, Tick, till, local
  <2>4. WorkIsDue'
    BY <1>22 DEF TillIInv, TillTypeOK, WorkIsDue, Tick, timer, local
  <2>5. NotLate'
    BY <1>22 DEF TillIInv, TillTypeOK, NotLate, Due, Later, Tick, till, timer, local
  <2>6. TakenNotLate'
    BY <1>22 DEF TillIInv, TillTypeOK, TakenNotLate, Due, Later, Tick, timer, local
  <2>7. NeverEarly'
    BY <1>22 DEF TillIInv, TillTypeOK, NeverEarly, ShuttingDown, Tick, timer
  <2>8. /\ StartsEmpty' /\ OnlyHandedOver' /\ Apart' /\ WorkDone'
        /\ AllTaken' /\ SomethingToSort' /\ NextRoundNear' /\ NoTimerLost'
    BY <1>22 DEF TillIInv, Tick, till, timer, local, StartsEmpty, OnlyHandedOver, Apart, WorkDone,
       AllTaken, SomethingToSort, NextRoundNear, Due, NoTimerLost, Ending, Known, TooLate,
       ShuttingDown
  <2> QED
    BY <2>1, <2>2, <2>3, <2>4, <2>5, <2>6, <2>7, <2>8 DEF TillIInv
<1>23. ASSUME NEW x \in Timers, FireRaises(x)
      PROVE  TillIInv'
  <2>1. TillTypeOK'
    BY <1>23 DEF TillIInv, TillTypeOK, Places, FireRaises, TriggerRaises, till
  <2>2. OnlyHandedOver' /\ Apart'
    BY <1>23 DEF TillIInv, TillTypeOK, OnlyHandedOver, Apart, FireRaises, TriggerRaises, till
  <2>3. NeverEarly'
    BY <1>23 DEF TillIInv, NeverEarly, ShuttingDown, WorkIsDue, FireRaises, TriggerRaises
  <2>4. NoTimerLost'
    BY <1>23 DEF TillIInv, TillTypeOK, NoTimerLost, Known, TooLate, ShuttingDown, AllTaken,
       FireRaises, TriggerRaises, till
  <2>5. /\ StartsEmpty' /\ WorkDone' /\ AllTaken' /\ SomethingToSort' /\ NowIsRecent'
        /\ NeverFar' /\ WorkIsDue' /\ NextRoundNear' /\ NotLate' /\ TakenNotLate'
    BY <1>23 DEF TillIInv, FireRaises, TriggerRaises, till, StartsEmpty, WorkDone, AllTaken,
       Ending, SomethingToSort, NowIsRecent, NeverFar, WorkIsDue, NextRoundNear, Running, NotLate,
       TakenNotLate
  <2> QED
    BY <2>1, <2>2, <2>3, <2>4, <2>5 DEF TillIInv
<1>24. ASSUME NEW x \in Timers, TriggerRestRaises(x)
      PROVE  TillIInv'
  <2>1. TillTypeOK'
    BY <1>24 DEF TillIInv, TillTypeOK, Places, TriggerRestRaises, TriggerRaises, till
  <2>2. OnlyHandedOver' /\ Apart'
    BY <1>24 DEF TillIInv, TillTypeOK, OnlyHandedOver, Apart, TriggerRestRaises, TriggerRaises, till
  <2>3. NeverEarly'
    BY <1>24 DEF TillIInv, NeverEarly, ShuttingDown, WorkIsDue, TriggerRestRaises, TriggerRaises
  <2>4. NoTimerLost'
    BY <1>24 DEF TillIInv, TillTypeOK, NoTimerLost, Known, TooLate, ShuttingDown, AllTaken,
       TriggerRestRaises, TriggerRaises, till
  <2>5. /\ StartsEmpty' /\ WorkDone' /\ AllTaken' /\ SomethingToSort' /\ NowIsRecent'
        /\ NeverFar' /\ WorkIsDue' /\ NextRoundNear' /\ NotLate' /\ TakenNotLate'
    BY <1>24 DEF TillIInv, TriggerRestRaises, TriggerRaises, till, StartsEmpty, WorkDone,
       AllTaken, Ending, SomethingToSort, NowIsRecent, NeverFar, WorkIsDue, NextRoundNear,
       Running, NotLate, TakenNotLate
  <2> QED
    BY <2>1, <2>2, <2>3, <2>4, <2>5 DEF TillIInv
<1>25. CASE UNCHANGED vars
  BY <1>25 DEF vars, till, timer, local, TillIInv, TillTypeOK, StartsEmpty, OnlyHandedOver, Apart,
     WorkDone, AllTaken, SomethingToSort, NowIsRecent, NeverFar, WorkIsDue, NextRoundNear, Due,
     NotLate, TakenNotLate, NeverEarly, ShuttingDown, NoTimerLost, Ending, Known, TooLate
<1> QED
  BY <1>1, <1>2, <1>3, <1>4, <1>5, <1>6, <1>7, <1>8, <1>9, <1>10, <1>11, <1>12, <1>13, <1>14,
     <1>15, <1>16, <1>17, <1>18, <1>19, <1>20, <1>21, <1>22, <1>23, <1>24,
     <1>25 DEF Next, Constructor, Daemon

LEMMA TillInvAlways == Spec => []TillIInv
BY TillInitInv, TillInvStep, PTL DEF Spec

-----------------------------------------------------------------------------
(* What the makers of timers may rely on                                   *)

LEMMA DeadAreForgotten == TillIInv => DeadForgotten
<1> SUFFICES ASSUME TillIInv, NEW x \in new_timers \cup sorted_timers,
                    stage[x] = "collected", daemon \notin Ending
             PROVE  clock <= since[x] + Lateness
  BY DEF DeadForgotten
<1>1. Due(x) = since[x] /\ x \in Timers
  BY DEF Due, TillIInv, TillTypeOK
<1>2. daemon \in Running
  BY <1>1 DEF TillIInv, TillTypeOK, Places, Running, Ending, StartsEmpty
<1>3. held <= Slack /\ since[x] \in Nat /\ clock \in Nat /\ held \in Nat
  BY DEF TillIInv, TillTypeOK
<1>4. CASE daemon \in {"look", "take"}
  BY <1>1, <1>4, TimeAssumption DEF TillIInv, TillTypeOK, NotLate, NowIsRecent, Lateness
<1>5. CASE daemon \notin {"look", "take"}
  BY <1>1, <1>2, <1>3, <1>5, TimeAssumption DEF TillIInv, NotLate, Running, Lateness
<1> QED
  BY <1>4, <1>5

\* For any timers, timeouts, INTERVAL and Slack: no timer goes early while the daemon runs;
\* one that is still wanted is gone or in a list the daemon is going to deal with, unless it
\* was handed over after the daemon had taken the timers for the last time, or was behind
\* one whose go() raised; and a running daemon keeps none that nobody refers to for longer
\* than Lateness (till.py:79, 97-127, 139-155).
THEOREM TillSafe == Spec => []TillInv
<1>1. TillIInv => TillInv
  BY DeadAreForgotten DEF TillIInv, TillInv
<1> QED
  BY <1>1, TillInvAlways, PTL

\* A timer is never later than INTERVAL and what the daemon is held up in two rounds,
\* although line 124 may overwrite the next_ping of a timer that was registered in the
\* meantime with an older one (till.py:75-79, 97-124).
THEOREM TillPunctual == Spec => []Punctual
<1>1. TillIInv => Punctual
  <2> SUFFICES ASSUME TillIInv, NEW x \in Timers, stage[x] = "registered", x \notin gone,
                      daemon \in Places \ Ending
               PROVE  clock <= Later(timeout[x], since[x]) + Lateness
    BY DEF Punctual, TillIInv, TillTypeOK
  <2>1. Due(x) = Later(timeout[x], since[x]) /\ daemon \in Running
    BY DEF Due, TillIInv, StartsEmpty, Places, Running, Ending
  <2>2. Due(x) \in Nat
    BY DueIsTime DEF TillIInv
  <2>3. held <= Slack /\ clock \in Nat /\ held \in Nat
    BY DEF TillIInv, TillTypeOK
  <2>4. x \in new_timers \cup sorted_timers \cup work
    BY DEF TillIInv, NoTimerLost, Known, TooLate, ShuttingDown, AllTaken, Ending
  <2>5. CASE x \in work
    <3>1. daemon \in {"read_ping", "write_ping", "fire"}
      BY <2>1, <2>5 DEF TillIInv, WorkDone, Running
    <3>2. clock <= Due(x) + INTERVAL + Slack + held
      BY <2>5, <3>1 DEF TillIInv, TakenNotLate
    <3> QED
      BY <2>1, <2>2, <2>3, <3>2, TimeAssumption DEF Lateness
  <2>6. CASE x \in new_timers \cup sorted_timers /\ daemon \in {"look", "take"}
    BY <2>1, <2>2, <2>6, TimeAssumption DEF TillIInv, TillTypeOK, NotLate, NowIsRecent, Lateness
  <2>7. CASE x \in new_timers \cup sorted_timers /\ daemon \notin {"look", "take"}
    BY <2>1, <2>2, <2>3, <2>7, TimeAssumption DEF TillIInv, NotLate, Running, Lateness
  <2> QED
    BY <2>4, <2>5, <2>6, <2>7
<1> QED
  BY <1>1, TillInvAlways, PTL
=============================================================================

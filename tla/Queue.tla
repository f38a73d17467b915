------------------------------- MODULE Queue -------------------------------
(***************************************************************************)
(* mo_threads.queues.Queue: a queue for threads, on top of Lock.           *)
(*                                                                         *)
(* A thread calls one method at a time.  add, push (and push_all), extend, *)
(* pop, pop_one and pop_all run `with self.lock`: every step they take is  *)
(* an action of Lock, or happens while the thread is "in" the lock and     *)
(* leaves the lock alone.  close() does not take the lock.                 *)
(*                                                                         *)
(* A call is a record: its operation, the values it adds, whether it is    *)
(* forced, and the state of the `till` given to pop().  The `closed`       *)
(* signal is a Boolean: what a Signal adds to that is module Signal.       *)
(***************************************************************************)
EXTENDS Lock, FiniteSets

CONSTANTS Items,                \* what producers put into the queue
          STOP,                 \* THREAD_STOP
          None,
          Limit,                  \* Queue.max
          Silent,               \* Queue.silent
          Unique,               \* Queue.unique
          AllowAddAfterClose,   \* Queue.allow_add_after_close
          Requests              \* Requests[t]: the calls that thread t may make

Values == Items \cup {STOP}
Producing == {"add", "push", "extend"}
Consuming == {"pop", "pop_one", "pop_all"}

\* the calls a program can make: add takes one value, THREAD_STOP is sent with
\* add or extend, only add can be forced, and only pop takes a till
Calls ==
  {c \in [op : Producing \cup Consuming \cup {"close"},
          args : Seq(Values), force : BOOLEAN, till : TillStates] :
     /\ c.op = "add" => Len(c.args) = 1
     /\ c.op = "push" => c.args \in Seq(Items)
     /\ c.op # "add" => ~ c.force
     /\ c.op # "pop" => c.till = "none"}

Answers == {"ok", "refused", "timeout", "unanswered"}

ASSUME ValuesAssumption ==
  /\ STOP \notin Items
  /\ None \notin Values
  /\ Answers \cap (Values \cup {None}) = {}
ASSUME LimitAssumption == Limit \in Nat \ {0}
ASSUME FlagsAssumption == {Silent, Unique, AllowAddAfterClose} \subseteq BOOLEAN
ASSUME RequestsAssumption == Requests \in [Threads -> SUBSET Calls]

VARIABLES
  queue,      \* Queue.queue
  closed,     \* has Queue.closed gone?
  call,       \* call[t]: the call t is making; args shrinks as extend and push_all add
  stage,      \* stage[t]: how far it is
  deadline,   \* deadline[t]: pop's till, or the stop_waiting of _wait_for_queue_space
  ret,        \* ret[t]: what t's call is about to return
  stopped     \* history: has pop() told anyone to stop?

queueVars == <<queue, closed, call, stage, deadline, ret, stopped>>
vars == <<lockVars, queueVars>>

\* "body": up to the first wait; "waited": after one; "adding": in the loop over values;
\* "leave": leaving the with block; "over": out without having asked for the lock
Stages == {"idle", "body", "waited", "adding", "leave", "over"}

NoCall == [op |-> "close", args |-> <<>>, force |-> FALSE, till |-> "none"]

Init ==
  /\ LockInit
  /\ queue = <<>>
  /\ closed = FALSE
  /\ call = [t \in Threads |-> NoCall]
  /\ stage = [t \in Threads |-> "idle"]
  /\ deadline = [t \in Threads |-> "none"]
  /\ ret = [t \in Threads |-> "unanswered"]
  /\ stopped = FALSE

-----------------------------------------------------------------------------
\* t holds the lock and runs the body of operation op
Running(t, op) == at[t] = "in" /\ stage[t] \in {"body", "waited"} /\ call[t].op = op

\* the with block is done; value r is returned, or the error r raised
Finish(t, r) ==
  /\ stage' = [stage EXCEPT ![t] = "leave"]
  /\ ret' = [ret EXCEPT ![t] = r]

Full == Len(queue) >= Limit

\* fault: a producer that has waited once does not look again
MayProceedOnce(t) == stage[t] = "waited" \/ call[t].force \/ ~ Full \/ closed

\* _wait_for_queue_space comes back, or is not called
MayProceed(t) == call[t].force \/ ~ Full \/ closed

\* a call that takes the lock; push and extend look at `closed` first
Begin(t, c) ==
  /\ stage[t] = "idle"
  /\ c.op # "close"
  /\ c.op \in {"push", "extend"} => ~ closed \/ AllowAddAfterClose
  /\ Enter(t)
  /\ call' = [call EXCEPT ![t] = c]
  /\ stage' = [stage EXCEPT ![t] = "body"]
  /\ deadline' = [deadline EXCEPT ![t] = c.till]
  /\ UNCHANGED <<queue, closed, ret, stopped>>

\* "Do not push to closed queue", before the lock is asked for
RefuseEarly(t, c) ==
  /\ stage[t] = "idle"
  /\ c.op \in {"push", "extend"}
  /\ closed /\ ~ AllowAddAfterClose
  /\ call' = [call EXCEPT ![t] = c]
  /\ stage' = [stage EXCEPT ![t] = "over"]
  /\ ret' = [ret EXCEPT ![t] = "refused"]
  /\ UNCHANGED <<lockVars, queue, closed, deadline, stopped>>

\* close(): the signal goes, the lock is not taken
Close(t, c) ==
  /\ stage[t] = "idle"
  /\ c.op = "close"
  /\ closed' = TRUE
  /\ UNCHANGED <<lockVars, queue, call, stage, deadline, ret, stopped>>

-----------------------------------------------------------------------------
(* Producers                                                               *)

\* add(THREAD_STOP): never waits for space
AddStop(t) ==
  /\ Running(t, "add")
  /\ call[t].args = <<STOP>>
  /\ queue' = Append(queue, STOP)
  /\ closed' = TRUE
  /\ Finish(t, "ok")
  /\ UNCHANGED <<lockVars, call, deadline, stopped>>

Enqueue(v) ==
  queue' = IF Unique /\ Contains(queue, v) THEN queue ELSE Append(queue, v)

AddItem(t) ==
  /\ Running(t, "add")
  /\ call[t].args # <<STOP>>
  /\ MayProceed(t)
  /\ ~ closed \/ AllowAddAfterClose
  /\ Enqueue(Head(call[t].args))
  /\ Finish(t, "ok")
  /\ UNCHANGED <<lockVars, closed, call, deadline, stopped>>

\* "Do not add to closed queue"
AddRefused(t) ==
  /\ Running(t, "add")
  /\ call[t].args # <<STOP>>
  /\ MayProceed(t)
  /\ closed /\ ~ AllowAddAfterClose
  /\ Finish(t, "refused")
  /\ UNCHANGED <<lockVars, queue, closed, call, deadline, stopped>>

\* fault: `closed` is not looked at again
StartAddingUnchecked(t) ==
  /\ Running(t, "push") \/ Running(t, "extend")
  /\ MayProceed(t)
  /\ stage' = [stage EXCEPT ![t] = "adding"]
  /\ UNCHANGED <<lockVars, queue, closed, call, deadline, ret, stopped>>

\* push and extend have space; they look at `closed` once more
StartAdding(t) ==
  /\ Running(t, "push") \/ Running(t, "extend")
  /\ MayProceed(t)
  /\ ~ closed
  /\ stage' = [stage EXCEPT ![t] = "adding"]
  /\ UNCHANGED <<lockVars, queue, closed, call, deadline, ret, stopped>>

\* closed while it waited for the lock or for space: the values are dropped
Drop(t) ==
  /\ Running(t, "push") \/ Running(t, "extend")
  /\ closed
  /\ Finish(t, "ok")
  /\ UNCHANGED <<lockVars, queue, closed, call, deadline, stopped>>

NextArg(t) == Head(call[t].args)
DropArg(t) == call' = [call EXCEPT ![t].args = Tail(@)]

\* extend adds its next value, or closes the queue when that is THREAD_STOP
ExtendOne(t) ==
  /\ at[t] = "in" /\ stage[t] = "adding" /\ call[t].op = "extend"
  /\ call[t].args # <<>>
  /\ \/ /\ NextArg(t) = STOP
        /\ closed' = TRUE
        /\ UNCHANGED queue
     \/ /\ NextArg(t) # STOP
        /\ Enqueue(NextArg(t))
        /\ UNCHANGED closed
  /\ DropArg(t)
  /\ UNCHANGED <<lockVars, stage, deadline, ret, stopped>>

\* push and push_all put their next value in front, whether it is there or not
PushOne(t) ==
  /\ at[t] = "in" /\ stage[t] = "adding" /\ call[t].op = "push"
  /\ call[t].args # <<>>
  /\ queue' = <<NextArg(t)>> \o queue
  /\ DropArg(t)
  /\ UNCHANGED <<lockVars, closed, stage, deadline, ret, stopped>>

AddedAll(t) ==
  /\ at[t] = "in" /\ stage[t] = "adding"
  /\ call[t].args = <<>>
  /\ Finish(t, "ok")
  /\ UNCHANGED <<lockVars, queue, closed, call, deadline, stopped>>

\* fault: a silent queue waits without a limit
WaitForSpaceUntimed(t) ==
  /\ \E op \in Producing : Running(t, op)
  /\ call[t].args # <<STOP>> \/ call[t].op # "add"
  /\ ~ MayProceed(t)
  /\ stage[t] = "waited" => deadline[t] # "gone"
  /\ WaitRegister(t, "none")
  /\ stage' = [stage EXCEPT ![t] = "waited"]
  /\ deadline' = [deadline EXCEPT ![t] = "pending"]
  /\ UNCHANGED <<queue, closed, call, ret, stopped>>

\* _wait_for_queue_space: another round of waiting; the first one starts stop_waiting
WaitForSpace(t) ==
  /\ \E op \in Producing : Running(t, op)
  /\ call[t].args # <<STOP>> \/ call[t].op # "add"
  /\ ~ MayProceed(t)
  /\ stage[t] = "waited" => deadline[t] # "gone"
  /\ WaitRegister(t, "pending")
  /\ stage' = [stage EXCEPT ![t] = "waited"]
  /\ deadline' = [deadline EXCEPT ![t] = "pending"]
  /\ UNCHANGED <<queue, closed, call, ret, stopped>>

\* _wait_for_queue_space gives up: THREAD_TIMEOUT is raised
SpaceTimeout(t) ==
  /\ \E op \in Producing : Running(t, op)
  /\ stage[t] = "waited"
  /\ ~ MayProceed(t)
  /\ deadline[t] = "gone"
  /\ Finish(t, "timeout")
  /\ UNCHANGED <<lockVars, queue, closed, call, deadline, stopped>>

-----------------------------------------------------------------------------
(* Consumers                                                               *)

\* pop's loop is at its top: at the start, or when wait() has answered True
Looping(t) == Running(t, "pop") /\ (stage[t] = "waited" => answer[t])

TakeFirst(t) ==
  /\ queue # <<>>
  /\ queue' = Tail(queue)
  /\ Finish(t, Head(queue))

PopItem(t) ==
  /\ Looping(t)
  /\ TakeFirst(t)
  /\ stopped' = (stopped \/ Head(queue) = STOP)
  /\ UNCHANGED <<lockVars, closed, call, deadline>>

PopClosed(t) ==
  /\ Looping(t)
  /\ queue = <<>> /\ closed
  /\ Finish(t, STOP)
  /\ stopped' = TRUE
  /\ UNCHANGED <<lockVars, queue, closed, call, deadline>>

\* wait(till=self.closed | till)
PopWait(t) ==
  /\ Looping(t)
  /\ queue = <<>> /\ ~ closed
  /\ WaitRegister(t, IF deadline[t] = "gone" THEN "gone" ELSE "pending")
  /\ stage' = [stage EXCEPT ![t] = "waited"]
  /\ UNCHANGED <<queue, closed, call, deadline, ret, stopped>>

\* fault: `closed` is not looked at
PopGivesUpUnchecked(t) ==
  /\ Running(t, "pop")
  /\ stage[t] = "waited" /\ ~ answer[t]
  /\ Finish(t, None)
  /\ UNCHANGED <<lockVars, queue, closed, call, deadline, stopped>>

\* wait() has answered False: the queue is not looked at again
PopGivesUp(t) ==
  /\ Running(t, "pop")
  /\ stage[t] = "waited" /\ ~ answer[t]
  /\ Finish(t, IF closed THEN STOP ELSE None)
  /\ stopped' = (stopped \/ closed)
  /\ UNCHANGED <<lockVars, queue, closed, call, deadline>>

\* pop_one does not wait, and looks at `closed` before the queue
PopOne(t) ==
  /\ Running(t, "pop_one")
  /\ \/ /\ closed
        /\ Finish(t, STOP)
        /\ UNCHANGED <<queue, closed>>
     \/ /\ ~ closed /\ queue = <<>>
        /\ Finish(t, None)
        /\ UNCHANGED <<queue, closed>>
     \/ /\ ~ closed
        /\ TakeFirst(t)
        /\ closed' = (Head(queue) = STOP)
  /\ UNCHANGED <<lockVars, call, deadline, stopped>>

PopAll(t) ==
  /\ Running(t, "pop_all")
  /\ queue' = <<>>
  /\ Finish(t, "ok")
  /\ UNCHANGED <<lockVars, closed, call, deadline, stopped>>

-----------------------------------------------------------------------------
(* The lock's own steps, and the signals                                   *)

\* the acquire() and release() inside __enter__ and wait()
LockMove(t) ==
  /\ Acquire(t) \/ WaitRelease(t) \/ Wake(t) \/ Reacquire(t) \/ WaitReturn(t)
  /\ UNCHANGED queueVars

\* __exit__, first half
Leave(t) ==
  /\ stage[t] = "leave"
  /\ ExitSignal(t)
  /\ UNCHANGED queueVars

\* __exit__, second half, if there was a with block: the call is over
Return(t) ==
  /\ \/ stage[t] = "leave" /\ Release(t)
     \/ stage[t] = "over" /\ UNCHANGED lockVars
  /\ stage' = [stage EXCEPT ![t] = "idle"]
  /\ call' = [call EXCEPT ![t] = NoCall]
  /\ deadline' = [deadline EXCEPT ![t] = "none"]
  /\ ret' = [ret EXCEPT ![t] = "unanswered"]
  /\ UNCHANGED <<queue, closed, stopped>>

\* fault: a pop waits for its caller's till only
WaitTillGoAlone(t) ==
  /\ at[t] \in WaitPlaces
  /\ call[t].op = "pop" => deadline[t] = "gone"
  /\ (call[t].op # "pop" /\ Silent) => deadline[t] = "gone"
  /\ TillGo(t)
  /\ UNCHANGED queueVars

\* the `till` of the current Lock.wait(): for a pop `closed | till`, for a producer
\* stop_waiting if the queue is silent and a Till(5 seconds) if it is not
WaitTillGo(t) ==
  /\ at[t] \in WaitPlaces
  /\ call[t].op = "pop" => closed \/ deadline[t] = "gone"
  /\ (call[t].op # "pop" /\ Silent) => deadline[t] = "gone"
  /\ TillGo(t)
  /\ UNCHANGED queueVars

\* the caller's till, or stop_waiting, goes
DeadlineGo(t) ==
  /\ deadline[t] = "pending"
  /\ deadline' = [deadline EXCEPT ![t] = "gone"]
  /\ UNCHANGED <<lockVars, queue, closed, call, stage, ret, stopped>>

-----------------------------------------------------------------------------
Produce(t) ==
  \/ AddStop(t) \/ AddItem(t) \/ AddRefused(t) \/ StartAdding(t) \/ Drop(t)
  \/ ExtendOne(t) \/ PushOne(t) \/ AddedAll(t) \/ WaitForSpace(t) \/ SpaceTimeout(t)

Consume(t) ==
  \/ PopItem(t) \/ PopClosed(t) \/ PopWait(t) \/ PopGivesUp(t)
  \/ PopOne(t) \/ PopAll(t)

\* what t does next on its own
Step(t) == Produce(t) \/ Consume(t) \/ LockMove(t) \/ Leave(t) \/ Return(t)

Request(t) == \E c \in Requests[t] : Begin(t, c) \/ RefuseEarly(t, c) \/ Close(t, c)

Next == \E t \in Threads : Request(t) \/ Step(t) \/ WaitTillGo(t) \/ DeadlineGo(t)

Spec == Init /\ [][Next]_vars

\* Every thread that can go on does, the signals behind wait(till) go off, and a
\* thread that asks for the lock gets it if it is free again and again.  The last
\* needs strong fairness: two idle consumers wake each other for ever, and a
\* producer of a full queue wakes up every five seconds.
Fairness ==
  \A t \in Threads :
    /\ WF_vars(Step(t))
    /\ SF_vars((Acquire(t) \/ Reacquire(t)) /\ UNCHANGED queueVars)
    /\ WF_vars(WaitTillGo(t))

FairSpec == Spec /\ Fairness

-----------------------------------------------------------------------------
(* What the queue promises                                                 *)

QueueTypeOK ==
  /\ LockTypeOK
  /\ queue \in Seq(Values)
  /\ closed \in BOOLEAN
  /\ call \in [Threads -> Calls]
  /\ stage \in [Threads -> Stages]
  /\ deadline \in [Threads -> TillStates]
  /\ ret \in [Threads -> Values \cup {None} \cup Answers]
  /\ stopped \in BOOLEAN

\* pop() does not look at the queue again when wait() has answered False; it may
\* not have to, because then nobody has had the lock, the queue is still empty,
\* and the reason to stop is there (queues.py:218-221).
GivesUpOnEmpty ==
  \A t \in Threads :
    (Running(t, "pop") /\ stage[t] = "waited" /\ ~ answer[t])
      => queue = <<>> /\ (closed \/ deadline[t] = "gone")

\* A consumer that was told to stop misses nothing: once pop() has returned
\* THREAD_STOP no item is ever in the queue again (queues.py:90-91, 108, 142,
\* 213-223), unless the queue was made with allow_add_after_close.
StopIsFinal ==
  (stopped /\ ~ AllowAddAfterClose) => \A i \in DOMAIN queue : queue[i] = STOP

ChannelOfQueue ==
  INSTANCE Channel WITH
    Callers <- Threads,
    items <- queue,
    shut <- closed,
    doing <- [t \in Threads |-> call[t].op],
    expired <- {t \in Threads : deadline[t] = "gone"},
    result <- ret

\* Every behaviour of the queue, with all its waits and wakeups, is one of the channel.
ImplementsChannel == ChannelOfQueue!Spec

\* close() ends every pop() (queues.py:216-220, 250-251).
CloseEndsPop ==
  \A t \in Threads :
    (closed /\ call[t].op = "pop" /\ stage[t] # "idle") ~> stage[t] = "idle"

\* A consumer does not sleep on a queue that has something for it (queues.py:44-49 of
\* the lock, 213-218).
ItemWakesConsumer ==
  \A t \in Threads :
    (call[t].op = "pop" /\ stage[t] = "waited" /\ queue # <<>>)
      ~> (stage[t] = "idle" \/ queue = <<>>)

\* A producer does not sleep on a queue that has room (queues.py:174-181).
RoomWakesProducer ==
  \A t \in Threads :
    (call[t].op \in Producing /\ stage[t] = "waited" /\ ~ Full)
      ~> (stage[t] = "idle" \/ Full)

\* No wakeup goes to a thread of the wrong kind for good: consumers that have something to
\* take and producers that have room are both reached (queues.py:174-181, 213-218, over
\* lock.py:44-49).
NoLostWakeup == ItemWakesConsumer /\ RoomWakesProducer

\* No producer outlives its stop_waiting: it gives up, or what it waited for is there
\* (queues.py:171-179).
DeadlineEndsProducer ==
  \A t \in Threads :
    (call[t].op \in Producing /\ deadline[t] = "gone") ~> stage[t] = "idle"

\* The state of the queue is sound, a pop() that gives up has found nothing, and THREAD_STOP
\* is the last that a consumer hears (queues.py:90-91, 108, 142, 213-223).
QueueInv == QueueTypeOK /\ GivesUpOnEmpty /\ StopIsFinal
=============================================================================

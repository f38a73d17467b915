---------------------------- MODULE ThreadedQueue ----------------------------
(***************************************************************************)
(* mo_threads.queues.ThreadedQueue: a queue with a thread, worker_bee,     *)
(* that moves what is added to a slow queue, in batches, and runs the      *)
(* functions that are added after it has pushed what was added before.     *)
(*                                                                         *)
(* The queue itself is atomic here: module Queue shows that it is one.     *)
(* The slow queue accepts a batch or raises.  Time is left out: next_push  *)
(* may go at any moment.                                                   *)
(***************************************************************************)
EXTENDS Integers, Sequences

CONSTANTS BatchSize,     \* batch_size
          MaxSize,       \* max_size, the limit of the queue
          MaxItems,      \* bound: values and functions that are added
          MaxFailures    \* bound: pushes that raise

ASSUME ThreadedAssumption ==
  /\ BatchSize \in Nat \ {0} /\ MaxSize \in Nat \ {0}
  /\ MaxItems \in Nat /\ MaxFailures \in Nat

\* what is added, numbered in the order in which the queue takes it
Items == [kind : {"value", "function"}, n : 1 .. MaxItems]
STOP == [kind |-> "stop", n |-> 0]

VARIABLES
  queue,        \* ThreadedQueue.queue
  closed,       \* Queue.closed
  taken,        \* how many items the queue has taken
  buffer,       \* worker_bee: _buffer
  hooks,        \* worker_bee: _post_push_functions
  nextPush,     \* worker_bee: is next_push gone?
  pleaseStop,   \* please_stop of the thread
  slow,         \* what the slow queue has accepted
  ran,          \* the functions that have run
  worker,       \* where worker_bee is
  stopper,      \* where the thread is that calls stop() or __exit__()
  raising,      \* does __exit__() pass an exception?
  stopAt,       \* what was taken before the THREAD_STOP of stop(), or MaxItems
  failures,     \* pushes that have raised
  stopLost      \* has a push raised with THREAD_STOP in hand?

vars == <<queue, closed, taken, buffer, hooks, nextPush, pleaseStop, slow, ran, worker,
          stopper, raising, stopAt, failures, stopLost>>
callerVars == <<stopper, raising, stopAt>>

WorkerPlaces == {"loop", "pop", "stop", "go", "batch", "last", "bye", "ended", "dead"}
StopperPlaces == {"idle", "add", "go", "job", "join", "over"}

\* functions are not pushed, and the buffer has no STOP
ThreadedTypeOK ==
  /\ queue \in Seq(Items \cup {STOP}) 
  /\ closed \in BOOLEAN
  /\ taken \in 0 .. MaxItems
  /\ buffer \in Seq({i \in Items : i.kind = "value"})
  /\ hooks \subseteq {i \in Items : i.kind = "function"}
  /\ nextPush \in BOOLEAN
  /\ pleaseStop \in BOOLEAN
  /\ slow \in Seq({i \in Items : i.kind = "value"} \cup {STOP})
  /\ ran \subseteq {i \in Items : i.kind = "function"}
  /\ worker \in WorkerPlaces
  /\ stopper \in StopperPlaces
  /\ raising \in BOOLEAN
  /\ stopAt \in 0 .. MaxItems
  /\ failures \in 0 .. MaxFailures
  /\ stopLost \in BOOLEAN

Init ==
  /\ queue = <<>> /\ closed = FALSE /\ taken = 0
  /\ buffer = <<>> /\ hooks = {} /\ nextPush = FALSE /\ pleaseStop = FALSE
  /\ slow = <<>> /\ ran = {}
  /\ worker = "loop" /\ stopper = "idle"
  /\ raising \in BOOLEAN /\ stopAt = MaxItems
  /\ failures = 0 /\ stopLost = FALSE

-----------------------------------------------------------------------------
(* The callers                                                             *)

Room == Len(queue) < MaxSize

\* add() of a value or a function; on a closed queue it is dropped
Add ==
  /\ Room /\ ~ closed /\ taken < MaxItems
  /\ \E kind \in {"value", "function"} :
       queue' = Append(queue, [kind |-> kind, n |-> taken + 1])
  /\ taken' = taken + 1
  /\ UNCHANGED <<closed, buffer, hooks, nextPush, pleaseStop, slow, ran, worker, callerVars,
                 failures, stopLost>>

\* extend() of two values: room for one is enough
Extend ==
  /\ Room /\ ~ closed /\ taken + 2 <= MaxItems
  /\ queue' = queue \o <<[kind |-> "value", n |-> taken + 1], [kind |-> "value", n |-> taken + 2]>>
  /\ taken' = taken + 2
  /\ UNCHANGED <<closed, buffer, hooks, nextPush, pleaseStop, slow, ran, worker, callerVars,
                 failures, stopLost>>

\* Queue.close()
Close ==
  /\ ~ closed
  /\ closed' = TRUE
  /\ UNCHANGED <<queue, taken, buffer, hooks, nextPush, pleaseStop, slow, ran, worker,
                 callerVars, failures, stopLost>>

\* add(THREAD_STOP), by any thread: it does not close the queue
PutStop ==
  /\ Room \/ closed
  /\ queue' = IF closed THEN queue ELSE Append(queue, STOP)

\* stop() or __exit__()
StopAdd ==
  /\ stopper = "idle"
  /\ PutStop
  /\ stopAt' = IF closed THEN stopAt ELSE taken
  /\ stopper' = IF raising THEN "go" ELSE "join"
  /\ UNCHANGED <<closed, taken, buffer, hooks, nextPush, pleaseStop, slow, ran, worker, raising,
                 failures, stopLost>>

\* __exit__() with an exception: the first please_stop.go() runs add(THREAD_STOP)
StopGo ==
  /\ stopper = "go"
  /\ pleaseStop' = TRUE
  /\ stopper' = IF pleaseStop THEN "join" ELSE "job"
  /\ UNCHANGED <<queue, closed, taken, buffer, hooks, nextPush, slow, ran, worker, raising,
                 stopAt, failures, stopLost>>

\* add(THREAD_STOP) waits for room, ten minutes at most
\* fault: it waits for ever
PutStopPatiently == PutStop

PutStopOrGiveUp == PutStop \/ (~ Room /\ ~ closed /\ UNCHANGED queue)

StopJob ==
  /\ stopper = "job"
  /\ PutStopOrGiveUp
  /\ stopper' = "join"
  /\ UNCHANGED <<closed, taken, buffer, hooks, nextPush, pleaseStop, slow, ran, worker, raising,
                 stopAt, failures, stopLost>>

StopJoined ==
  /\ stopper = "join"
  /\ worker \in {"ended", "dead"}
  /\ stopper' = "over"
  /\ UNCHANGED <<queue, closed, taken, buffer, hooks, nextPush, pleaseStop, slow, ran, worker,
                 raising, stopAt, failures, stopLost>>

-----------------------------------------------------------------------------
(* worker_bee                                                              *)

Tick ==
  /\ ~ nextPush
  /\ nextPush' = TRUE
  /\ UNCHANGED <<queue, closed, taken, buffer, hooks, pleaseStop, slow, ran, worker,
                 callerVars, failures, stopLost>>

\* while not please_stop
Loop ==
  /\ worker = "loop"
  /\ worker' = IF pleaseStop THEN "last" ELSE "pop"
  /\ UNCHANGED <<queue, closed, taken, buffer, hooks, nextPush, pleaseStop, slow, ran,
                 callerVars, failures, stopLost>>

\* pop(), or pop(till=next_push) with something in the buffer.  With an empty buffer
\* next_push is a new one if the last push is long ago
Pop ==
  /\ worker = "pop"
  /\ queue # <<>>
  /\ queue' = Tail(queue)
  /\ nextPush' \in IF buffer = <<>> THEN {nextPush, FALSE} ELSE {nextPush}
  /\ LET item == Head(queue) IN
       /\ worker' = IF item = STOP THEN "stop" ELSE "batch"
       /\ hooks' = IF item.kind = "function" THEN hooks \cup {item} ELSE hooks
       /\ buffer' = IF item.kind = "value" THEN Append(buffer, item) ELSE buffer
  /\ UNCHANGED <<closed, taken, pleaseStop, slow, ran, callerVars, failures, stopLost>>

\* nothing to pop: THREAD_STOP if the queue is closed, None if next_push is gone
PopNothing ==
  /\ worker = "pop"
  /\ queue = <<>>
  /\ \/ closed /\ worker' = "stop"
     \/ ~ closed /\ buffer # <<>> /\ nextPush /\ worker' = "batch"
  /\ UNCHANGED <<queue, closed, taken, buffer, hooks, nextPush, pleaseStop, slow, ran,
                 callerVars, failures, stopLost>>

\* push_to_queue()
Push ==
  /\ slow' = slow \o buffer
  /\ buffer' = <<>>
  /\ ran' = ran \cup hooks
  /\ hooks' = {}
  /\ UNCHANGED <<failures, stopLost>>

\* fault: the buffer is emptied although the slow queue has refused it
PushRaisesEmptied ==
  /\ failures < MaxFailures
  /\ failures' = failures + 1
  /\ stopLost' = (stopLost \/ worker = "stop")
  /\ buffer' = <<>>
  /\ UNCHANGED <<slow, ran, hooks>>

\* extend() raises, or a function does after it: no function is taken off the list
PushRaises ==
  /\ failures < MaxFailures
  /\ failures' = failures + 1
  /\ stopLost' = (stopLost \/ worker = "stop")
  /\ \/ UNCHANGED <<slow, buffer, ran>>
     \/ \E f \in hooks :
          /\ slow' = slow \o buffer
          /\ buffer' = <<>>
          /\ ran' = ran \cup {g \in hooks : g.n < f.n}
  /\ UNCHANGED hooks

\* THREAD_STOP in hand; if the push raises it is gone
Stopping ==
  /\ worker = "stop"
  /\ \/ Push /\ worker' = "go"
     \/ PushRaises /\ worker' = "batch"
  /\ UNCHANGED <<queue, closed, taken, nextPush, pleaseStop, callerVars>>

\* please_stop.go(): if it is the first one it adds a THREAD_STOP to the queue of
\* which this thread is the only consumer
GoSelf ==
  /\ worker = "go"
  /\ pleaseStop' = TRUE
  /\ IF pleaseStop THEN UNCHANGED queue ELSE PutStopOrGiveUp
  /\ worker' = "last"
  /\ UNCHANGED <<closed, taken, buffer, hooks, nextPush, slow, ran, callerVars, failures,
                 stopLost>>

\* push when there is enough, or when it is time
\* fault: only when there is enough
BatchFull ==
  /\ worker = "batch"
  /\ IF Len(buffer) >= BatchSize
     THEN /\ (Push /\ nextPush' = FALSE) \/ (PushRaises /\ UNCHANGED nextPush)
     ELSE /\ UNCHANGED <<buffer, hooks, slow, ran, failures, stopLost>>
          /\ nextPush' = FALSE
  /\ worker' = "loop"
  /\ UNCHANGED <<queue, closed, taken, pleaseStop, callerVars>>

Batch ==
  /\ worker = "batch"
  /\ IF (Len(buffer) >= BatchSize \/ nextPush) /\ buffer # <<>>
     THEN /\ (Push /\ nextPush' = FALSE) \/ (PushRaises /\ UNCHANGED nextPush)
     ELSE /\ UNCHANGED <<buffer, hooks, slow, ran, failures, stopLost>>
          /\ nextPush' = FALSE
  /\ worker' = "loop"
  /\ UNCHANGED <<queue, closed, taken, pleaseStop, callerVars>>

\* fault: the last push is left out
LastLeftOut ==
  /\ worker = "last"
  /\ worker' = "bye"
  /\ UNCHANGED <<queue, closed, taken, buffer, hooks, nextPush, pleaseStop, slow, ran, callerVars,
                 failures, stopLost>>

\* "ONE LAST PUSH": if it raises, the thread ends
Last ==
  /\ worker = "last"
  /\ \/ buffer = <<>> /\ worker' = "bye" /\ UNCHANGED <<buffer, hooks, slow, ran, failures, stopLost>>
     \/ buffer # <<>> /\ Push /\ worker' = "bye"
     \/ buffer # <<>> /\ PushRaises /\ worker' = "dead"
  /\ UNCHANGED <<queue, closed, taken, nextPush, pleaseStop, callerVars>>

\* slow_queue.add(THREAD_STOP)
Bye ==
  /\ worker = "bye"
  /\ slow' = Append(slow, STOP)
  /\ worker' = "ended"
  /\ UNCHANGED <<queue, closed, taken, buffer, hooks, nextPush, pleaseStop, ran, callerVars,
                 failures, stopLost>>

-----------------------------------------------------------------------------
Worker == Loop \/ Pop \/ PopNothing \/ Stopping \/ GoSelf \/ Batch \/ Last \/ Bye

Stopper == StopGo \/ StopJob \/ StopJoined

Next == Add \/ Extend \/ Close \/ StopAdd \/ Stopper \/ Tick \/ Worker

Spec == Init /\ [][Next]_vars

\* both threads go on, time passes
FairSpec == Spec /\ WF_vars(Worker) /\ WF_vars(Stopper) /\ WF_vars(Tick)
-----------------------------------------------------------------------------
Elements(s) == {s[k] : k \in 1 .. Len(s)}

\* what is in s, without the THREAD_STOPs
ItemsIn(s) == Elements(s) \ {STOP}

InOrder(s) ==
  \A j, k \in 1 .. Len(s) : (j < k /\ s[j] # STOP /\ s[k] # STOP) => s[j].n < s[k].n

\* No item is dropped, doubled or overtaken, by failing pushes neither: what the slow queue
\* has, the buffer and the queue are, in this order, in the order in which it was taken;
\* a function is in the queue, in the list, or has run (queues.py:455-483, 497-522).
NothingDropped ==
  LET all == slow \o buffer \o queue IN
  /\ InOrder(all)
  /\ {i.n : i \in ItemsIn(all) \cup hooks \cup ran} = 1 .. taken

\* A function runs after everything that was added before it is in the slow queue
\* (queues.py:459-463).
FunctionsFollow ==
  \A f \in ran : \A i \in ItemsIn(buffer) \cup ItemsIn(queue) : f.n < i.n

\* When the slow queue is told to stop it has got everything: nothing is left in the
\* buffer, and what is left in the queue was added after stop(), unless an exception was
\* passed to __exit__ (queues.py:476-479, 519-522).
StopDelivers ==
  worker = "ended" =>
    /\ buffer = <<>>
    /\ ~ raising => \A i \in ItemsIn(queue) : i.n > stopAt

InTransit(n) == \E i \in Elements(buffer) \cup Elements(queue) : i.kind = "value" /\ i.n = n

\* What is added is pushed, also if the batch does not fill up and if pushes raise, as
\* long as nobody stops the queue (queues.py:497-501).
Delivered ==
  \A n \in 1 .. MaxItems : InTransit(n) ~> (~ InTransit(n) \/ stopper # "idle" \/ closed)

\* stop() returns, also if the queue is full: only a push that raises when THREAD_STOP was
\* taken already leaves the thread waiting (queues.py:476-479, 542-551).
StopReturns ==
  (stopper \notin {"idle", "over"}) ~> (stopper = "over" \/ stopLost)

\* Nothing is dropped, doubled or overtaken, by functions neither (queues.py:455-483, 497-522).
ThreadedInv == ThreadedTypeOK /\ NothingDropped /\ FunctionsFollow
=============================================================================

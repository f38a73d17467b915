----------------------------- MODULE QueueLimit -----------------------------
(***************************************************************************)
(* What Queue.max means: how far a queue can grow beyond it.  The variable *)
(* `forced` is added to the queue, because an add(force=True) may put any  *)
(* number of items into it.                                                *)
(***************************************************************************)
EXTENDS Queue

CONSTANT LongestBatch   \* how many items a push or an extend brings at most

VARIABLE forced         \* history: has a call asked for force=True?

\* how many items there are in s, without the THREAD_STOPs
Backlog(s) == Cardinality({i \in DOMAIN s : s[i] # STOP})

ASSUME BatchAssumption ==
  /\ LongestBatch \in Nat \ {0}
  /\ \A t \in Threads : \A c \in Requests[t] : Backlog(c.args) <= LongestBatch

LimitInit == Init /\ forced = FALSE

NewRequest(t) == Request(t) /\ forced' = (forced \/ call'[t].force)

Work(t) == (Step(t) \/ WaitTillGo(t) \/ DeadlineGo(t)) /\ UNCHANGED forced

LimitNext == \E t \in Threads : NewRequest(t) \/ Work(t)

LimitSpec == LimitInit /\ [][LimitNext]_<<vars, forced>>

\* a queue made with allow_add_after_close does not wait for space when it is closed
Unlimited == forced \/ (closed /\ AllowAddAfterClose)

\* Producers that wait for space look again when they are woken: without a forced add
\* no more than the rest of one batch is ever beyond the limit, however many of them
\* one free place has woken (queues.py:88-91, 107, 141, 164-181).
LimitRespected == ~ Unlimited => Backlog(queue) <= Limit + LongestBatch - 1
=============================================================================

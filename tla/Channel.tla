------------------------------ MODULE Channel ------------------------------
(***************************************************************************)
(* What mo_threads.queues.Queue promises its callers, without the lock,    *)
(* the waits and the wakeups: each call takes effect in one step on a      *)
(* sequence of values and a "shut" flag.  In particular a pop() answers    *)
(* None only while the channel is empty, open, and the caller's `till` is  *)
(* gone, and answers STOP only if it is empty and shut or if STOP is the   *)
(* value it took.                                                          *)
(***************************************************************************)
EXTENDS Sequences

CONSTANTS Callers, Items, STOP, None, Unique, AllowAddAfterClose

VARIABLES items,     \* what is in the channel, first out first
          shut,      \* has it been closed?
          doing,     \* doing[t]: the operation t is in, or was last in
          expired,   \* the callers whose time is up
          result     \* result[t]: what t's call is about to return

channelVars == <<items, shut, doing, expired, result>>

Init ==
  /\ items = <<>>
  /\ shut = FALSE
  /\ doing = [t \in Callers |-> "close"]
  /\ expired = {}
  /\ result = [t \in Callers |-> "unanswered"]

Answer(t, r) == result' = [result EXCEPT ![t] = r]

\* t makes a call; its time limit starts, or is over
Start(t) ==
  /\ \E op \in {"add", "push", "extend", "pop", "pop_one", "pop_all"} :
       doing' = [doing EXCEPT ![t] = op]
  /\ expired' \in {expired \cup {t}, expired \ {t}}
  /\ UNCHANGED <<items, shut, result>>

Expire(t) ==
  /\ expired' = expired \cup {t}
  /\ UNCHANGED <<items, shut, doing, result>>

\* the call hands its answer over
Deliver(t) ==
  /\ doing' = [doing EXCEPT ![t] = "close"]
  /\ expired' = expired \ {t}
  /\ Answer(t, "unanswered")
  /\ UNCHANGED <<items, shut>>

\* t turned down as it starts
TurnDown(t) ==
  /\ shut /\ ~ AllowAddAfterClose
  /\ \E op \in {"push", "extend"} : doing' = [doing EXCEPT ![t] = op]
  /\ Answer(t, "refused")
  /\ UNCHANGED <<items, shut, expired>>

Shut(t) ==
  /\ shut' = TRUE
  /\ UNCHANGED <<items, doing, expired, result>>

\* a value goes in at the back; a unique channel keeps the instance it has
Put(t, v) ==
  /\ doing[t] = "extend" \/ ~ shut \/ AllowAddAfterClose
  /\ \/ items' = Append(items, v)
     \/ Unique /\ (\E i \in DOMAIN items : items[i] = v) /\ UNCHANGED items
  /\ result' \in {result, [result EXCEPT ![t] = "ok"]}
  /\ UNCHANGED <<shut, doing, expired>>

PutFront(t, v) ==
  /\ doing[t] = "push"
  /\ items' = <<v>> \o items
  /\ UNCHANGED <<shut, doing, expired, result>>

PutStop(t) ==
  /\ doing[t] = "add"
  /\ items' = Append(items, STOP)
  /\ shut' = TRUE
  /\ Answer(t, "ok")
  /\ UNCHANGED <<doing, expired>>

\* the call has nothing more to do, or is turned down
End(t) ==
  /\ \/ Answer(t, "ok")
     \/ shut /\ ~ AllowAddAfterClose /\ Answer(t, "refused")
     \/ ~ shut /\ t \in expired /\ Answer(t, "timeout")
  /\ UNCHANGED <<items, shut, doing, expired>>

Take(t) ==
  /\ doing[t] \in {"pop", "pop_one"}
  /\ items # <<>>
  /\ items' = Tail(items)
  /\ Answer(t, Head(items))
  /\ shut' = (shut \/ (doing[t] = "pop_one" /\ Head(items) = STOP))
  /\ UNCHANGED <<doing, expired>>

TakeStop(t) ==
  /\ doing[t] \in {"pop", "pop_one"}
  /\ shut
  /\ doing[t] = "pop" => items = <<>>
  /\ Answer(t, STOP)
  /\ UNCHANGED <<items, shut, doing, expired>>

TakeNothing(t) ==
  /\ doing[t] \in {"pop", "pop_one"}
  /\ ~ shut
  /\ items = <<>>
  /\ doing[t] = "pop" => t \in expired
  /\ Answer(t, None)
  /\ UNCHANGED <<items, shut, doing, expired>>

TakeAll(t) ==
  /\ doing[t] = "pop_all"
  /\ items' = <<>>
  /\ Answer(t, "ok")
  /\ UNCHANGED <<shut, doing, expired>>

Next ==
  \E t \in Callers :
    \/ Start(t) \/ TurnDown(t) \/ Deliver(t) \/ Expire(t) \/ Shut(t) \/ PutStop(t) \/ End(t)
    \/ \E v \in Items : Put(t, v) \/ PutFront(t, v)
    \/ Take(t) \/ TakeStop(t) \/ TakeNothing(t) \/ TakeAll(t)

Spec == Init /\ [][Next]_channelVars
=============================================================================

------------------------------ MODULE QueueMC ------------------------------
(***************************************************************************)
(* Instances of Queue for TLC: threads p, q, r with a handful of calls     *)
(* each.  Thread t makes at most MaxCalls[t] calls; nothing else is bounded. *)
(***************************************************************************)
EXTENDS QueueLimit, TLC

CONSTANTS p, q, r, a, b,   \* three threads, two items
          MaxCalls         \* MaxCalls[t]: how many calls t may make

VARIABLE calls   \* calls[t]: how many calls t has made

mcVars == <<vars, forced, calls>>

New(op, args, force, lim) == [op |-> op, args |-> args, force |-> force, till |-> lim]
Add(v) == New("add", <<v>>, FALSE, "none")
ForceAdd(v) == New("add", <<v>>, TRUE, "none")
PushAll(s) == New("push", s, FALSE, "none")
Extend(s) == New("extend", s, FALSE, "none")
Pop(lim) == New("pop", <<>>, FALSE, lim)
Do(op) == New(op, <<>>, FALSE, "none")

\* every operation: two threads compete for the room, two for the items
MixedRequests ==
  (p :> {Add(a), ForceAdd(a), Add(STOP), Extend(<<a, STOP, b>>), Extend(<<a, b>>)}) @@
  (q :> {Add(b), PushAll(<<a, b>>), Pop("none"), Do("pop_all"), Do("close")}) @@
  (r :> {Pop("none"), Pop("pending"), Pop("gone"), Do("pop_one")})

\* consumers on an idle queue, which keep each other busy, and producers on a full one
WaitingRequests ==
  (p :> {Add(a), Add(STOP), Extend(<<a, b>>), Do("close")}) @@
  (q :> {Add(b), PushAll(<<a, b>>), Pop("none"), Do("close")}) @@
  (r :> {Pop("none"), Pop("pending"), Do("pop_all")})

TwoOneOne == (p :> 2) @@ (q :> 1) @@ (r :> 1)
OneEach == (p :> 1) @@ (q :> 1) @@ (r :> 1)

MCInit == LimitInit /\ calls = [t \in Threads |-> 0]

MCNext ==
  \E t \in Threads :
    \/ /\ calls[t] < MaxCalls[t]
       /\ calls' = [calls EXCEPT ![t] = @ + 1]
       /\ NewRequest(t)
    \/ Work(t) /\ UNCHANGED calls

MCSpec == MCInit /\ [][MCNext]_mcVars

MCFairSpec == MCSpec /\ Fairness
=============================================================================

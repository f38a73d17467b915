---------------------------- MODULE ThreadProofs ----------------------------
(***************************************************************************)
(* Theorems about Thread, for any set of threads and whatever the targets  *)
(* do: what a thread may rely on in the tree it is part of.                *)
(***************************************************************************)
EXTENDS Thread, SequenceTheorems, WellFoundedInduction, TLAPS

-----------------------------------------------------------------------------
(* Lists of children                                                       *)

\* RemoveFirst is defined by the smallest index that has the element
LEMMA SmallestExists ==
  ASSUME NEW T \in SUBSET Nat, T # {}
  PROVE  Min(T) \in T
<1>1. \E x \in T : \A y \in T : ~ (<<y, x>> \in OpToRel(<, Nat))
  BY NatLessThanWellFounded, WFMin
<1>2. \E x \in T : \A y \in T : x <= y
  <2>1. PICK x \in T : \A y \in T : ~ (<<y, x>> \in OpToRel(<, Nat))
    BY <1>1
  <2>2. ASSUME NEW y \in T PROVE x <= y
    <3>1. x \in Nat /\ y \in Nat
      OBVIOUS
    <3>2. ~ (y < x)
      BY <2>1, <3>1 DEF OpToRel
    <3> QED
      BY <3>1, <3>2
  <2> QED
    BY <2>2
<1> QED
  BY <1>2 DEF Min

LEMMA RemoveFirstProperties ==
  ASSUME NEW S, NEW s \in Seq(S), NEW e
  PROVE  /\ RemoveFirst(s, e) \in Seq(S)
         /\ \A u : Contains(RemoveFirst(s, e), u) => Contains(s, u)
         /\ \A u : Contains(s, u) /\ u # e => Contains(RemoveFirst(s, e), u)
<1>1. CASE ~ Contains(s, e)
  <2>1. RemoveFirst(s, e) = s
    BY <1>1 DEF Contains, RemoveFirst
  <2> QED
    BY <2>1
<1>2. CASE Contains(s, e)
  <2> DEFINE I == {i \in 1 .. Len(s) : s[i] = e}
             k == Min(I)
             r == SubSeq(s, 1, k - 1) \o SubSeq(s, k + 1, Len(s))
  <2>1. k \in 1 .. Len(s) /\ s[k] = e
    <3>1. I \in SUBSET Nat /\ I # {}
      BY <1>2 DEF Contains
    <3>2. k \in I
      BY <3>1, SmallestExists
    <3> QED
      BY <3>2
  <2>2. RemoveFirst(s, e) = r
    <3>1. I # {}
      BY <1>2 DEF Contains
    <3> QED
      BY <1>2, <3>1 DEF RemoveFirst, RemoveAt, SelectInSeq
  <2> HIDE DEF k
  <2>3. /\ r \in Seq(S)
        /\ Len(r) = Len(s) - 1
        /\ \A i \in 1 .. Len(r) : r[i] = IF i < k THEN s[i] ELSE s[i + 1]
    <3>1. /\ SubSeq(s, 1, k - 1) \in Seq(S)
          /\ Len(SubSeq(s, 1, k - 1)) = k - 1
          /\ \A i \in 1 .. (k - 1) : SubSeq(s, 1, k - 1)[i] = s[i]
      BY <2>1, SubSeqProperties, Z3
    <3>2. /\ SubSeq(s, k + 1, Len(s)) \in Seq(S)
          /\ Len(SubSeq(s, k + 1, Len(s))) = Len(s) - k
          /\ \A i \in 1 .. (Len(s) - k) : SubSeq(s, k + 1, Len(s))[i] = s[k + i]
      BY <2>1, SubSeqProperties, Z3
    <3> HIDE DEF r
    <3> DEFINE p == SubSeq(s, 1, k - 1)
               q == SubSeq(s, k + 1, Len(s))
    <3>3. p \in Seq(S) /\ q \in Seq(S) /\ r = p \o q
      BY <3>1, <3>2 DEF r
    <3> HIDE DEF p, q
    <3>4. /\ r \in Seq(S)
          /\ Len(r) = Len(p) + Len(q)
          /\ \A i \in 1 .. Len(r) : r[i] = IF i <= Len(p) THEN p[i] ELSE q[i - Len(p)]
      BY <3>3, ConcatProperties
    <3>5. /\ Len(p) = k - 1 /\ Len(q) = Len(s) - k
          /\ \A i \in 1 .. (k - 1) : p[i] = s[i]
          /\ \A i \in 1 .. (Len(s) - k) : q[i] = s[k + i]
      BY <3>1, <3>2 DEF p, q
    <3>6. k \in Nat /\ Len(s) \in Nat /\ 1 <= k /\ k <= Len(s)
      BY <2>1
    <3>7. Len(r) = Len(s) - 1
      BY <3>4, <3>5, <3>6
    <3>8. ASSUME NEW i \in 1 .. Len(r)
          PROVE  r[i] = IF i < k THEN s[i] ELSE s[i + 1]
      <4>1. CASE i < k
        BY <3>4, <3>5, <3>6, <3>7, <4>1
      <4>2. CASE ~ (i < k)
        <5>1. i - (k - 1) \in 1 .. (Len(s) - k) /\ k + (i - (k - 1)) = i + 1
          BY <3>6, <3>7, <4>2
        <5>2. ~ (i <= Len(p)) /\ i \in 1 .. Len(r)
          BY <3>5, <3>6, <3>7, <4>2
        <5>3. r[i] = q[i - (k - 1)]
          BY <3>4, <3>5, <5>2
        <5> QED
          BY <3>5, <4>2, <5>1, <5>3
      <4> QED
        BY <4>1, <4>2
    <3> QED
      BY <3>4, <3>7, <3>8
  <2> HIDE DEF r
  <2>4. ASSUME NEW u, Contains(r, u) PROVE Contains(s, u)
    <3>1. PICK i \in 1 .. Len(r) : r[i] = u
      BY <2>4 DEF Contains
    <3>2. i \in 1 .. Len(s) /\ i + 1 \in 1 .. Len(s)
      BY <2>1, <2>3, <3>1
    <3> QED
      BY <2>3, <3>1, <3>2 DEF Contains
  <2>5. ASSUME NEW u, Contains(s, u), u # e PROVE Contains(r, u)
    <3>1. PICK i \in 1 .. Len(s) : s[i] = u
      BY <2>5 DEF Contains
    <3>2. i # k
      BY <2>1, <2>5, <3>1
    <3>3. CASE i < k
      <4>1. i \in 1 .. Len(r) /\ r[i] = u
        BY <2>1, <2>3, <3>1, <3>3
      <4> QED
        BY <4>1 DEF Contains
    <3>4. CASE i > k
      <4>1. i - 1 \in 1 .. Len(r) /\ ~ (i - 1 < k) /\ (i - 1) + 1 = i
        BY <2>1, <2>3, <3>1, <3>4
      <4>2. r[i - 1] = u
        BY <2>3, <3>1, <4>1
      <4> QED
        BY <4>1, <4>2 DEF Contains
    <3> QED
      BY <2>1, <3>1, <3>2, <3>3, <3>4
  <2> QED
    BY <2>2, <2>3, <2>4, <2>5
<1> QED
  BY <1>1, <1>2

LEMMA WithoutProperties ==
  ASSUME NEW S, NEW s \in Seq(S), NEW e
  PROVE  /\ Without(s, e) \in Seq(S)
         /\ \A u : Contains(Without(s, e), u) => Contains(s, u)
         /\ \A u : Contains(s, u) /\ u # e => Contains(Without(s, e), u)
BY RemoveFirstProperties DEF Without

LEMMA AppendContains ==
  ASSUME NEW S, NEW s \in Seq(S), NEW e \in S
  PROVE  /\ Append(s, e) \in Seq(S)
         /\ Contains(Append(s, e), e)
         /\ \A u : Contains(s, u) => Contains(Append(s, e), u)
<1>1. /\ Append(s, e) \in Seq(S)
      /\ Len(Append(s, e)) = Len(s) + 1
      /\ \A i \in 1 .. Len(s) : Append(s, e)[i] = s[i]
      /\ Append(s, e)[Len(s) + 1] = e
      /\ Len(s) \in Nat
  OBVIOUS
<1> QED
  BY <1>1 DEF Contains

LEMMA ReverseContains ==
  ASSUME NEW S, NEW s \in Seq(S)
  PROVE  /\ Reverse(s) \in Seq(S)
         /\ \A u : Contains(Reverse(s), u) <=> Contains(s, u)
<1>1. /\ Reverse(s) \in Seq(S)
      /\ Len(Reverse(s)) = Len(s)
      /\ \A i \in 1 .. Len(s) : Reverse(s)[i] = s[(Len(s) - i) + 1]
  BY DEF Reverse
<1>2. \A i \in 1 .. Len(s) :
        (Len(s) - i) + 1 \in 1 .. Len(s) /\ (Len(s) - ((Len(s) - i) + 1)) + 1 = i
  OBVIOUS
<1> QED
  BY <1>1, <1>2 DEF Contains

-----------------------------------------------------------------------------
(* The inductive invariant                                                 *)

StoppedPlaces ==
  /\ \A t \in Threads : t \in stopped <=> place[t] \in {"linger", "exit", "over"}
  /\ place[Main] \in {"target", "ending", "over"}

\* a target that runs has no result
EndsKnown ==
  \A w \in Workers : place[w] \in {"unborn", "target"} => end_of_thread[w] = "none"

\* all the frames of a stack are of one recursion, and only a join() waits
OneCall ==
  \A t \in Threads : \A f, g \in ToSet(stack[t]) : f.op = g.op /\ (f.waits => f.op = "join")

\* the joins at the end of a thread have no time limit
NoLimitAtEnd ==
  \A t \in Threads : place[t] = "ending" => \A f \in ToSet(stack[t]) : ~ f.till

\* the call op(w) is still to come in t's ending, or t is in it
Pending(t, op, w) ==
  \/ \E e \in ToSet(ending[t]) : e.op = op /\ e.on = w
  \/ \E f \in ToSet(stack[t]) : f.op = op /\ f.on = w

\* a thread that ends has told its children to stop, or is going to
ToBeStopped ==
  \A w \in Born :
    place[parent[w]] = "ending"
      => w \in please_stop \cup stopped \/ Pending(parent[w], "stop", w)

NoFailure == \A w \in Workers : end_of_thread[w] # "exception"

\* a thread that ends has joined with its children, or is going to
ToBeJoined ==
  NoFailure =>
    \A w \in Born :
      place[parent[w]] = "ending" => w \in stopped \/ Pending(parent[w], "join", w)

\* a failure is reported, or the parent still has the child to join with
FailureKept ==
  \A w \in Workers :
    end_of_thread[w] = "exception" => w \in reported \/ Contains(children[parent[w]], w)

ThreadIInv ==
  /\ ThreadTypeOK
  /\ StoppedPlaces
  /\ EndsKnown
  /\ OneCall
  /\ NoLimitAtEnd
  /\ NotForgotten
  /\ ToBeStopped
  /\ NobodyUntold
  /\ ToBeJoined
  /\ ChildrenStopFirst
  /\ FailureKept

-----------------------------------------------------------------------------
(* Elements of sequences                                                   *)

LEMMA ListElements ==
  ASSUME NEW S, NEW s \in Seq(S)
  PROVE  /\ \A u : Contains(s, u) <=> u \in ToSet(s)
         /\ ToSet(s) \subseteq S
         /\ s = <<>> <=> ToSet(s) = {}
<1>1. DOMAIN s = 1 .. Len(s) /\ \A i \in 1 .. Len(s) : s[i] \in S
  OBVIOUS
<1>2. s # <<>> => 1 \in 1 .. Len(s)
  OBVIOUS
<1>3. s = <<>> => 1 .. Len(s) = {}
  OBVIOUS
<1> QED
  BY <1>1, <1>2, <1>3 DEF Contains, ToSet

LEMMA PushElements ==
  ASSUME NEW S, NEW s \in Seq(S), NEW f \in S
  PROVE  /\ <<f>> \o s \in Seq(S)
         /\ ToSet(<<f>> \o s) = {f} \cup ToSet(s)
<1> DEFINE r == <<f>> \o s
<1>1. /\ r \in Seq(S)
      /\ Len(r) = Len(s) + 1 /\ Len(s) \in Nat
      /\ r[1] = f
      /\ \A i \in 1 .. Len(s) : r[i + 1] = s[i]
  OBVIOUS
<1> HIDE DEF r
<1>2. DOMAIN s = 1 .. Len(s) /\ DOMAIN r = 1 .. (Len(s) + 1)
  BY <1>1
<1>3. \A j \in DOMAIN r \ {1} : j - 1 \in DOMAIN s /\ r[j] = s[j - 1]
  BY <1>1, <1>2
<1>4. \A i \in DOMAIN s : i + 1 \in DOMAIN r /\ r[i + 1] = s[i]
  BY <1>1, <1>2
<1>5. ToSet(r) \subseteq {f} \cup ToSet(s)
  BY <1>1, <1>3 DEF ToSet
<1>6. {f} \cup ToSet(s) \subseteq ToSet(r)
  <2>1. 1 \in DOMAIN r
    BY <1>1, <1>2
  <2> QED
    BY <1>1, <1>4, <2>1 DEF ToSet
<1> QED
  BY <1>1, <1>5, <1>6 DEF r

LEMMA EmptyElements ==
  ASSUME NEW S
  PROVE  <<>> \in Seq(S) /\ ToSet(<<>>) = {}
<1>1. <<>> \in Seq(S)
  OBVIOUS
<1> QED
  BY <1>1, ListElements

LEMMA HeadTailElements ==
  ASSUME NEW S, NEW s \in Seq(S), s # <<>>
  PROVE  /\ Head(s) \in S /\ Head(s) \in ToSet(s)
         /\ Tail(s) \in Seq(S)
         /\ ToSet(s) = {Head(s)} \cup ToSet(Tail(s))
<1>1. Head(s) \in S /\ Tail(s) \in Seq(S) /\ s = <<Head(s)>> \o Tail(s)
  OBVIOUS
<1>2. ToSet(<<Head(s)>> \o Tail(s)) = {Head(s)} \cup ToSet(Tail(s))
  BY <1>1, PushElements
<1> QED
  BY <1>1, <1>2

LEMMA PushTwo ==
  ASSUME NEW S, NEW s \in Seq(S), NEW f \in S, NEW g \in S
  PROVE  <<f, g>> \o s = <<f>> \o (<<g>> \o s)
<1> DEFINE r == <<g>> \o s
           a == <<f, g>> \o s
           b == <<f>> \o r
<1>1. /\ r \in Seq(S) /\ Len(r) = Len(s) + 1 /\ r[1] = g /\ Len(s) \in Nat
      /\ \A i \in 1 .. Len(s) : r[i + 1] = s[i]
  OBVIOUS
<1>2. /\ a \in Seq(S) /\ Len(a) = Len(s) + 2 /\ a[1] = f /\ a[2] = g
      /\ \A i \in 1 .. Len(s) : a[i + 2] = s[i]
  OBVIOUS
<1> HIDE DEF r, a
<1>3. /\ b \in Seq(S) /\ Len(b) = Len(r) + 1 /\ b[1] = f
      /\ \A i \in 1 .. Len(r) : b[i + 1] = r[i]
  BY <1>1
<1> HIDE DEF b
<1>4. ASSUME NEW i \in 1 .. Len(s) + 2 PROVE a[i] = b[i]
  <2>1. CASE i = 1
    BY <1>2, <1>3, <2>1
  <2>2. CASE i = 2
    BY <1>1, <1>2, <1>3, <2>2
  <2>3. CASE i > 2
    <3>1. i - 2 \in 1 .. Len(s) /\ (i - 2) + 2 = i /\ (i - 2) + 1 \in 1 .. Len(r)
          /\ ((i - 2) + 1) + 1 = i
      BY <1>1, <2>3
    <3>2. a[i] = s[i - 2] /\ b[i] = r[(i - 2) + 1] /\ r[(i - 2) + 1] = s[i - 2]
      BY <1>1, <1>2, <1>3, <3>1
    <3> QED
      BY <3>2
  <2> QED
    BY <1>1, <2>1, <2>2, <2>3
<1>5. a = b
  BY <1>1, <1>2, <1>3, <1>4, SeqEqual
<1> QED
  BY <1>5 DEF a, b, r

Entries == [op : {"stop", "join"}, on : Workers]

LEMMA EndingCalls ==
  ASSUME NEW a \in Seq(Workers), NEW b \in Seq(Workers)
  PROVE  /\ StopsThenJoins(a, b) \in Seq(Entries)
         /\ \A w : Contains(a, w)
              => \E e \in ToSet(StopsThenJoins(a, b)) : e.op = "stop" /\ e.on = w
         /\ \A w : Contains(b, w)
              => \E e \in ToSet(StopsThenJoins(a, b)) : e.op = "join" /\ e.on = w
<1> DEFINE p == [i \in 1 .. Len(a) |-> [op |-> "stop", on |-> a[i]]]
           q == [i \in 1 .. Len(b) |-> [op |-> "join", on |-> b[i]]]
           r == p \o q
<1>1. /\ p \in Seq(Entries) /\ Len(p) = Len(a)
      /\ \A i \in 1 .. Len(a) : p[i].op = "stop" /\ p[i].on = a[i]
  BY DEF Entries
<1>2. /\ q \in Seq(Entries) /\ Len(q) = Len(b)
      /\ \A i \in 1 .. Len(b) : q[i].op = "join" /\ q[i].on = b[i]
  BY DEF Entries
<1>3. StopsThenJoins(a, b) = r /\ r = p \o q
  BY DEF StopsThenJoins
<1> HIDE DEF p, q, r
<1>4. /\ r \in Seq(Entries)
      /\ Len(r) = Len(p) + Len(q)
      /\ \A i \in 1 .. Len(p) + Len(q) : r[i] = IF i <= Len(p) THEN p[i] ELSE q[i - Len(p)]
  <2>1. p \in Seq(Entries) /\ q \in Seq(Entries) /\ r = p \o q
    BY <1>1, <1>2, <1>3
  <2> HIDE DEF Entries
  <2> QED
    BY <2>1, ConcatProperties
<1>5. DOMAIN r = 1 .. Len(a) + Len(b) /\ Len(a) \in Nat /\ Len(b) \in Nat
  BY <1>1, <1>2, <1>4
<1>6. ASSUME NEW w, Contains(a, w) PROVE \E e \in ToSet(r) : e.op = "stop" /\ e.on = w
  <2>1. PICK i \in 1 .. Len(a) : a[i] = w
    BY <1>6 DEF Contains
  <2>2. i \in DOMAIN r /\ r[i] = p[i]
    BY <1>1, <1>2, <1>4, <1>5
  <2> QED
    BY <1>1, <2>1, <2>2 DEF ToSet
<1>7. ASSUME NEW w, Contains(b, w) PROVE \E e \in ToSet(r) : e.op = "join" /\ e.on = w
  <2>1. PICK i \in 1 .. Len(b) : b[i] = w
    BY <1>7 DEF Contains
  <2>2. Len(a) + i \in DOMAIN r /\ ~ (Len(a) + i <= Len(p)) /\ (Len(a) + i) - Len(p) = i
    BY <1>1, <1>5
  <2>3. r[Len(a) + i] = q[i]
    BY <1>1, <1>2, <1>4, <1>5, <2>2
  <2> QED
    BY <1>2, <2>1, <2>2, <2>3 DEF ToSet
<1> QED
  BY <1>3, <1>4, <1>6, <1>7

-----------------------------------------------------------------------------
(* What the operations on stacks and lists do                              *)

\* a step within a call: the frames stay for the same calls, or go one level down
Reshaped(t) ==
  /\ stack' \in [Threads -> Seq(Frames)]
  /\ \A u \in Threads \ {t} : stack'[u] = stack[u]
  /\ \A f \in ToSet(stack'[t]) : \E g \in ToSet(stack[t]) :
       f.op = g.op /\ f.till = g.till /\ (f.waits => g.waits \/ f.op = "join")
  /\ \A g \in ToSet(stack[t]) : \E f \in ToSet(stack'[t]) : f.op = g.op /\ f.on = g.on

LEMMA ReshapedBy ==
  ASSUME ThreadTypeOK, NEW t \in Threads, Descend(t) \/ JoinWait(t)
  PROVE  Reshaped(t)
<1>1. stack[t] \in Seq(Frames) /\ stack[t] # <<>>
  BY DEF ThreadTypeOK, Descend, JoinWait
<1>2. /\ Top(t) \in Frames /\ Top(t) \in ToSet(stack[t]) /\ Tail(stack[t]) \in Seq(Frames)
      /\ ToSet(stack[t]) = {Top(t)} \cup ToSet(Tail(stack[t]))
  BY <1>1, HeadTailElements DEF Top
<1>3. CASE Descend(t)
  <2> DEFINE f == Frame(Top(t).op, Head(Top(t).todo), Top(t).till)
             g == [Top(t) EXCEPT !.todo = Tail(Top(t).todo)]
             rest == Tail(stack[t])
  <2>1. Head(Top(t).todo) \in Workers /\ Tail(Top(t).todo) \in Seq(Workers)
    BY <1>2, <1>3, HeadTailElements DEF Descend, Frames
  <2>2. /\ f \in Frames /\ f.op = Top(t).op /\ f.till = Top(t).till /\ ~ f.waits
        /\ g \in Frames /\ g.op = Top(t).op /\ g.on = Top(t).on
        /\ g.till = Top(t).till /\ g.waits = Top(t).waits
    BY <1>2, <2>1 DEF Frame, Frames, ThreadTypeOK, Threads
  <2>3. stack' = [stack EXCEPT ![t] = <<f, g>> \o rest]
    BY <1>3 DEF Descend
  <2> HIDE DEF f, g, rest
  <2>4. <<f, g>> \o rest = <<f>> \o (<<g>> \o rest)
    BY <1>2, <2>2, PushTwo
  <2>5. /\ <<f, g>> \o rest \in Seq(Frames)
        /\ ToSet(<<f, g>> \o rest) = {f} \cup ({g} \cup ToSet(rest))
    <3>1. <<g>> \o rest \in Seq(Frames) /\ ToSet(<<g>> \o rest) = {g} \cup ToSet(rest)
      BY <1>2, <2>2, PushElements DEF rest
    <3> QED
      BY <2>2, <2>4, <3>1, PushElements
  <2>6. stack' \in [Threads -> Seq(Frames)] /\ stack'[t] = <<f, g>> \o rest
    BY <2>3, <2>5 DEF ThreadTypeOK
  <2> QED
    BY <1>2, <2>2, <2>3, <2>5, <2>6 DEF Reshaped, rest
<1>4. CASE JoinWait(t)
  <2> DEFINE g == [Top(t) EXCEPT !.waits = TRUE]
             rest == Tail(stack[t])
  <2>1. g \in Frames /\ g.op = "join" /\ g.op = Top(t).op /\ g.on = Top(t).on /\ g.till = Top(t).till
    BY <1>2, <1>4 DEF Frames, JoinWait
  <2>2. stack' = [stack EXCEPT ![t] = <<g>> \o rest]
    BY <1>4 DEF JoinWait, SetTop
  <2> HIDE DEF g, rest
  <2>3. <<g>> \o rest \in Seq(Frames) /\ ToSet(<<g>> \o rest) = {g} \cup ToSet(rest)
    BY <1>2, <2>1, PushElements DEF rest
  <2>4. stack' \in [Threads -> Seq(Frames)] /\ stack'[t] = <<g>> \o rest
    BY <2>2, <2>3 DEF ThreadTypeOK
  <2> QED
    BY <1>2, <2>1, <2>2, <2>3, <2>4 DEF Reshaped, rest
<1> QED
  BY <1>3, <1>4

LEMMA PopEffect ==
  ASSUME ThreadTypeOK, NEW t \in Threads, stack[t] # <<>>
  PROVE  /\ Top(t) \in Frames /\ Top(t) \in ToSet(stack[t])
         /\ Pop(t) => /\ stack' \in [Threads -> Seq(Frames)]
                      /\ \A u \in Threads \ {t} : stack'[u] = stack[u]
                      /\ ToSet(stack[t]) = {Top(t)} \cup ToSet(stack'[t])
<1>1. stack[t] \in Seq(Frames)
  BY DEF ThreadTypeOK
<1>2. /\ Top(t) \in Frames /\ Top(t) \in ToSet(stack[t]) /\ Tail(stack[t]) \in Seq(Frames)
      /\ ToSet(stack[t]) = {Top(t)} \cup ToSet(Tail(stack[t]))
  BY <1>1, HeadTailElements DEF Top
<1> DEFINE rest == Tail(stack[t])
<1>3. Pop(t) => stack' = [stack EXCEPT ![t] = rest]
  BY DEF Pop
<1>4. rest \in Seq(Frames) /\ ToSet(stack[t]) = {Top(t)} \cup ToSet(rest)
  BY <1>2
<1>5. stack \in [Threads -> Seq(Frames)]
  BY DEF ThreadTypeOK
<1> HIDE DEF rest
<1>6. ASSUME Pop(t)
      PROVE  /\ stack' \in [Threads -> Seq(Frames)]
             /\ \A u \in Threads \ {t} : stack'[u] = stack[u]
             /\ stack'[t] = rest
  BY <1>3, <1>4, <1>5, <1>6
<1> QED
  BY <1>2, <1>4, <1>6

LEMMA UnwindEffect ==
  ASSUME ThreadTypeOK, NEW t \in Threads, Unwind(t)
  PROVE  /\ stack' \in [Threads -> Seq(Frames)]
         /\ \A u \in Threads \ {t} : stack'[u] = stack[u]
         /\ ToSet(stack'[t]) = {}
<1>1. <<>> \in Seq(Frames) /\ ToSet(<<>>) = {}
  BY EmptyElements
<1> QED
  BY <1>1 DEF ThreadTypeOK, Unwind

LEMMA FrameIs ==
  ASSUME ThreadTypeOK, NEW op \in {"stop", "join"}, NEW w \in Workers, NEW l \in BOOLEAN
  PROVE  /\ Frame(op, w, l) \in Frames
         /\ Frame(op, w, l).op = op /\ Frame(op, w, l).on = w
         /\ Frame(op, w, l).till = l /\ ~ Frame(op, w, l).waits
BY DEF Frame, Frames, ThreadTypeOK, Threads

LEMMA PushEffect ==
  ASSUME ThreadTypeOK, NEW t \in Threads, stack[t] = <<>>, NEW f \in Frames, Push(t, f)
  PROVE  /\ stack' \in [Threads -> Seq(Frames)]
         /\ \A u \in Threads \ {t} : stack'[u] = stack[u]
         /\ ToSet(stack'[t]) = {f}
<1>1. stack' = [stack EXCEPT ![t] = <<f>> \o <<>>]
  BY DEF Push
<1>2. <<>> \in Seq(Frames) /\ ToSet(<<>>) = {}
  BY EmptyElements
<1>3. <<f>> \o <<>> \in Seq(Frames) /\ ToSet(<<f>> \o <<>>) = {f} \cup ToSet(<<>>)
  BY <1>2, PushElements
<1> QED
  BY <1>1, <1>2, <1>3 DEF ThreadTypeOK

\* a child that leaves the list of its parent leaves the others there
LEMMA RemoveChildEffect ==
  ASSUME ThreadTypeOK, NEW c \in Workers, RemoveChild(c)
  PROVE  /\ children' \in [Threads -> Seq(Workers)]
         /\ \A w \in Workers \ {c} :
              Contains(children[parent[w]], w) => Contains(children'[parent[w]], w)
<1>1. parent[c] \in Threads /\ children[parent[c]] \in Seq(Workers)
  BY DEF ThreadTypeOK
<1>2. Without(children[parent[c]], c) \in Seq(Workers)
  BY <1>1, WithoutProperties
<1>3. \A w \in Workers \ {c} :
        Contains(children[parent[c]], w) => Contains(Without(children[parent[c]], c), w)
  BY <1>1, WithoutProperties
<1> QED
  BY <1>1, <1>2, <1>3 DEF RemoveChild, ThreadTypeOK

\* what makes the frames of one thread of one recursion
OneCallAt(t) == \A f, g \in ToSet(stack[t]) : f.op = g.op /\ (f.waits => f.op = "join")

LEMMA OneCallByThread == OneCall <=> \A t \in Threads : OneCallAt(t)
BY DEF OneCall, OneCallAt

LEMMA OneCallKept ==
  ASSUME OneCall, NEW t \in Threads, OneCallAt(t)',
         \A u \in Threads \ {t} : stack'[u] = stack[u]
  PROVE  OneCall'
<1>1. ASSUME NEW u \in Threads, u # t PROVE OneCallAt(u)'
  <2>1. stack'[u] = stack[u] /\ OneCallAt(u)
    BY <1>1, OneCallByThread
  <2> QED
    BY <2>1 DEF OneCallAt
<1> QED
  BY <1>1 DEF OneCall, OneCallAt

LEMMA ReshapedOneCall ==
  ASSUME OneCall, NEW t \in Threads, Reshaped(t)
  PROVE  OneCall'
<1>1. OneCallAt(t)'
  BY DEF OneCall, OneCallAt, Reshaped
<1> QED
  BY <1>1, OneCallKept DEF Reshaped

\* a call that is still to come stays so as long as its thread does not go on
LEMMA StillPending ==
  ASSUME NEW u, NEW op, NEW w, Pending(u, op, w),
         stack'[u] = stack[u], ending'[u] = ending[u]
  PROVE  Pending(u, op, w)'
BY DEF Pending

LEMMA ReshapedPending ==
  ASSUME NEW t, NEW op, NEW w, Pending(t, op, w), Reshaped(t), ending'[t] = ending[t]
  PROVE  Pending(t, op, w)'
BY DEF Pending, Reshaped

-----------------------------------------------------------------------------
(* The invariant is kept                                                   *)

LEMMA ThreadInitInv == Init => ThreadIInv
<1> SUFFICES ASSUME Init PROVE ThreadIInv
  OBVIOUS
<1> USE MainAssumption DEF Init, Threads
<1>a. <<>> \in Seq(Workers) /\ <<>> \in Seq(Frames) /\ <<>> \in Seq(Entries) /\ ToSet(<<>>) = {}
  BY EmptyElements
<1>1. ThreadTypeOK
  BY <1>a DEF ThreadTypeOK, Places
<1>2. StoppedPlaces /\ EndsKnown
  BY DEF StoppedPlaces, EndsKnown
<1>3. OneCall /\ NoLimitAtEnd
  BY <1>a DEF OneCall, NoLimitAtEnd
<1>4. Born = {}
  BY DEF Born
<1>5. NotForgotten /\ ToBeStopped /\ NobodyUntold /\ ToBeJoined /\ ChildrenStopFirst
  BY <1>4 DEF NotForgotten, ToBeStopped, NobodyUntold, ToBeJoined, ChildrenStopFirst
<1>6. FailureKept
  BY DEF FailureKept
<1> QED
  BY <1>1, <1>2, <1>3, <1>5, <1>6 DEF ThreadIInv

LEMMA ThreadInvStep == ThreadIInv /\ [Next]_vars => ThreadIInv'
<1> SUFFICES ASSUME ThreadIInv, [Next]_vars PROVE ThreadIInv'
  OBVIOUS
<1> USE MainAssumption
<1>1. ASSUME NEW t \in Threads, NEW c \in Workers, Run(t, c)
      PROVE  ThreadIInv'
  <2>e. /\ children' \in [Threads -> Seq(Workers)]
        /\ Contains(children'[t], c)
        /\ \A u \in Threads, w \in Workers : Contains(children[u], w) => Contains(children'[u], w)
    BY <1>1, AppendContains DEF ThreadIInv, ThreadTypeOK, Run
  <2>1. ThreadTypeOK'
    BY <1>1, <2>e DEF ThreadIInv, ThreadTypeOK, Threads, Goto, Run, signals, Places
  <2>2. StoppedPlaces'
    BY <1>1, <2>e DEF ThreadIInv, Goto, Run, signals, StoppedPlaces
  <2>3. EndsKnown'
    BY <1>1, <2>e DEF ThreadIInv, Goto, Run, EndsKnown
  <2>4. NoLimitAtEnd'
    BY <1>1, <2>e DEF ThreadIInv, Goto, Run, NoLimitAtEnd
  <2>5. NotForgotten'
    BY <1>1, <2>e DEF ThreadIInv, ThreadTypeOK, Threads, Goto, Run, signals, NotForgotten, Born
  <2>6. ToBeStopped'
    <3> SUFFICES ASSUME NEW w \in Born', place'[parent'[w]] = "ending",
                        w \notin (please_stop \cup stopped)'
                 PROVE  Pending(parent[w], "stop", w)'
      BY DEF ToBeStopped
    <3>1. w # c /\ w \in Born /\ parent'[w] = parent[w] /\ place[parent[w]] = "ending"
      BY <1>1 DEF Run, InTarget, ThreadIInv, ThreadTypeOK, Born, Goto
    <3>2. Pending(parent[w], "stop", w)
      BY <1>1, <3>1 DEF Run, signals, ThreadIInv, ToBeStopped
    <3> QED
      BY <1>1, <3>1, <3>2 DEF Run, Pending
  <2>7. NobodyUntold'
    <3>1. \A w \in Born' : w \in Workers /\ (w = c \/ (w \in Born /\ parent'[w] = parent[w]))
      BY <1>1 DEF Run, Born, Goto
    <3>2. parent'[c] = t /\ t \notin stopped
      BY <1>1 DEF Run, InTarget, ThreadIInv, ThreadTypeOK, StoppedPlaces
    <3> QED
      BY <1>1, <3>1, <3>2 DEF Run, signals, ThreadIInv, NobodyUntold
  <2>8. ToBeJoined'
    <3> SUFFICES ASSUME NoFailure', NEW w \in Born', place'[parent'[w]] = "ending",
                        w \notin (stopped)'
                 PROVE  Pending(parent[w], "join", w)'
      BY DEF ToBeJoined
    <3>1. w # c /\ w \in Born /\ parent'[w] = parent[w] /\ place[parent[w]] = "ending"
      BY <1>1 DEF Run, InTarget, ThreadIInv, ThreadTypeOK, Born, Goto
    <3>2. Pending(parent[w], "join", w)
      BY <1>1, <3>1 DEF Run, signals, ThreadIInv, ToBeJoined, NoFailure
    <3> QED
      BY <1>1, <3>1, <3>2 DEF Run, Pending
  <2>9. ChildrenStopFirst'
    <3>1. \A w \in Born' : w \in Workers /\ (w = c \/ (w \in Born /\ parent'[w] = parent[w]))
      BY <1>1 DEF Run, Born, Goto
    <3>2. parent'[c] = t /\ t \notin stopped
      BY <1>1 DEF Run, InTarget, ThreadIInv, ThreadTypeOK, StoppedPlaces
    <3> QED
      BY <1>1, <3>1, <3>2 DEF Run, signals, ThreadIInv, ChildrenStopFirst
  <2>10. FailureKept'
    BY <1>1, <2>e DEF ThreadIInv, ThreadTypeOK, Run, FailureKept
  <2>11. OneCall'
    BY <1>1 DEF ThreadIInv, Run, OneCall
  <2> QED
    BY <2>1, <2>2, <2>3, <2>4, <2>5, <2>6, <2>7, <2>8, <2>9, <2>10, <2>11 DEF ThreadIInv
<1>2. ASSUME NEW t \in Threads, NEW c \in Workers, CallStop(t, c) \/ CallJoin(t, c)
      PROVE  ThreadIInv'
  <2>d. PICK op \in {"stop", "join"}, l \in BOOLEAN :
          Push(t, Frame(op, c, l)) /\ stack[t] = <<>> /\ place[t] = "target"
    BY <1>2 DEF CallStop, CallJoin, InTarget
  <2> DEFINE call == Frame(op, c, l)
  <2>c. call \in Frames /\ ~ call.waits
    BY FrameIs DEF ThreadIInv
  <2> HIDE DEF call
  <2>e. /\ stack' \in [Threads -> Seq(Frames)]
        /\ \A u \in Threads \ {t} : stack'[u] = stack[u]
        /\ ToSet(stack'[t]) = {call}
        /\ place[t] = "target"
    BY <1>2, <2>c, <2>d, PushEffect DEF ThreadIInv, call
  <2>1. ThreadTypeOK'
    BY <1>2, <2>d, <2>c, <2>e DEF ThreadIInv, ThreadTypeOK, CallStop, CallJoin, tree, signals
  <2>2. OneCall'
    <3>1. OneCallAt(t)'
      BY <2>c, <2>e DEF OneCallAt
    <3> QED
      BY <2>c, <2>e, <3>1, OneCallKept DEF ThreadIInv
  <2>3. NoLimitAtEnd'
    BY <1>2, <2>d, <2>c, <2>e DEF ThreadIInv, CallStop, CallJoin, NoLimitAtEnd
  <2>4. ToBeStopped'
    <3> SUFFICES ASSUME NEW w \in Born', place'[parent'[w]] = "ending",
                        w \notin (please_stop \cup stopped)'
                 PROVE  Pending(parent[w], "stop", w)'
      BY DEF ToBeStopped
    <3>1. /\ parent' = parent /\ parent[w] \in Threads /\ w \in Workers
          /\ Pending(parent[w], "stop", w)
      BY <1>2 DEF ThreadIInv, ThreadTypeOK, CallStop, CallJoin, tree, signals, ToBeStopped, Born
    <3>2. parent[w] # t /\ ending' = ending
      BY <1>2, <2>e, <3>1 DEF CallStop, CallJoin
    <3> QED
      BY <2>e, <3>1, <3>2, StillPending
  <2>5. ToBeJoined'
    <3> SUFFICES ASSUME NoFailure', NEW w \in Born', place'[parent'[w]] = "ending",
                        w \notin (stopped)'
                 PROVE  Pending(parent[w], "join", w)'
      BY DEF ToBeJoined
    <3>1. /\ parent' = parent /\ parent[w] \in Threads /\ w \in Workers
          /\ Pending(parent[w], "join", w)
      BY <1>2 DEF ThreadIInv, ThreadTypeOK, CallStop, CallJoin, tree, signals, ToBeJoined,
         NoFailure, Born
    <3>2. parent[w] # t /\ ending' = ending
      BY <1>2, <2>e, <3>1 DEF CallStop, CallJoin
    <3> QED
      BY <2>e, <3>1, <3>2, StillPending
  <2>6. /\ StoppedPlaces' /\ EndsKnown' /\ NotForgotten' /\ NobodyUntold'
        /\ ChildrenStopFirst' /\ FailureKept'
    BY <1>2 DEF ThreadIInv, CallStop, CallJoin, tree, signals, StoppedPlaces, EndsKnown,
       NotForgotten, Born, NobodyUntold, ChildrenStopFirst, FailureKept
  <2> QED
    BY <2>1, <2>2, <2>3, <2>4, <2>5, <2>6 DEF ThreadIInv
<1>3. ASSUME NEW t \in Threads, NEW c \in Workers, Release(t, c)
      PROVE  ThreadIInv'
  <2>1. ThreadTypeOK'
    BY <1>3 DEF ThreadIInv, ThreadTypeOK, Release, tree
  <2>2. /\ StoppedPlaces' /\ EndsKnown' /\ OneCall' /\ NoLimitAtEnd'
        /\ NotForgotten' /\ ToBeStopped' /\ NobodyUntold' /\ ToBeJoined'
        /\ ChildrenStopFirst' /\ FailureKept'
    BY <1>3 DEF ThreadIInv, Release, tree, StoppedPlaces, EndsKnown, OneCall, NoLimitAtEnd,
       NotForgotten, Born, ToBeStopped, Pending, NobodyUntold, ToBeJoined, NoFailure,
       ChildrenStopFirst, FailureKept
  <2> QED
    BY <2>1, <2>2 DEF ThreadIInv
<1>4. ASSUME NEW t \in Threads, Descend(t)
      PROVE  ThreadIInv'
  <2>e. Reshaped(t)
    BY <1>4, ReshapedBy DEF ThreadIInv
  <2>1. ThreadTypeOK'
    BY <1>4, <2>e DEF ThreadIInv, ThreadTypeOK, Descend, tree, signals, Reshaped
  <2>2. OneCall'
    BY <2>e, ReshapedOneCall DEF ThreadIInv
  <2>3. NoLimitAtEnd'
    BY <1>4, <2>e DEF ThreadIInv, Descend, NoLimitAtEnd, Reshaped
  <2>4. ToBeStopped'
    <3> SUFFICES ASSUME NEW w \in Born', place'[parent'[w]] = "ending",
                        w \notin (please_stop \cup stopped)'
                 PROVE  Pending(parent[w], "stop", w)'
      BY DEF ToBeStopped
    <3>1. /\ parent' = parent /\ parent[w] \in Threads /\ w \in Workers
          /\ Pending(parent[w], "stop", w)
      BY <1>4 DEF ThreadIInv, ThreadTypeOK, Descend, tree, signals, ToBeStopped, Born
    <3>2. ending' = ending /\ (parent[w] # t => stack'[parent[w]] = stack[parent[w]])
      BY <1>4, <2>e, <3>1 DEF Descend
    <3> QED
      BY <2>e, <3>1, <3>2, StillPending, ReshapedPending
  <2>5. ToBeJoined'
    <3> SUFFICES ASSUME NoFailure', NEW w \in Born', place'[parent'[w]] = "ending",
                        w \notin (stopped)'
                 PROVE  Pending(parent[w], "join", w)'
      BY DEF ToBeJoined
    <3>1. /\ parent' = parent /\ parent[w] \in Threads /\ w \in Workers
          /\ Pending(parent[w], "join", w)
      BY <1>4 DEF ThreadIInv, ThreadTypeOK, Descend, tree, signals, ToBeJoined, NoFailure, Born
    <3>2. ending' = ending /\ (parent[w] # t => stack'[parent[w]] = stack[parent[w]])
      BY <1>4, <2>e, <3>1 DEF Descend
    <3> QED
      BY <2>e, <3>1, <3>2, StillPending, ReshapedPending
  <2>6. /\ StoppedPlaces' /\ EndsKnown' /\ NotForgotten' /\ NobodyUntold'
        /\ ChildrenStopFirst' /\ FailureKept'
    BY <1>4 DEF ThreadIInv, Descend, tree, signals, StoppedPlaces, EndsKnown, NotForgotten,
       Born, NobodyUntold, ChildrenStopFirst, FailureKept
  <2> QED
    BY <2>1, <2>2, <2>3, <2>4, <2>5, <2>6 DEF ThreadIInv
<1>5. ASSUME NEW t \in Threads, StopEnd(t)
      PROVE  ThreadIInv'
  <2>e. /\ Top(t) \in Frames /\ Top(t) \in ToSet(stack[t])
        /\ stack' \in [Threads -> Seq(Frames)]
        /\ \A u \in Threads \ {t} : stack'[u] = stack[u]
        /\ ToSet(stack[t]) = {Top(t)} \cup ToSet(stack'[t])
    BY <1>5, PopEffect DEF ThreadIInv, StopEnd
  <2>f. Top(t).op = "stop" /\ Top(t).on \in Workers
    BY <1>5, <2>e DEF StopEnd, Frames
  <2>1. ThreadTypeOK'
    BY <1>5, <2>e, <2>f DEF ThreadIInv, ThreadTypeOK, Threads, StopEnd, tree
  <2>2. OneCall'
    <3>1. OneCallAt(t)'
      BY <2>e DEF ThreadIInv, OneCall, OneCallAt
    <3> QED
      BY <2>e, <3>1, OneCallKept DEF ThreadIInv
  <2>3. NoLimitAtEnd'
    BY <1>5, <2>e, <2>f DEF ThreadIInv, StopEnd, NoLimitAtEnd
  <2>4. ToBeStopped'
    <3> SUFFICES ASSUME NEW w \in Born', place'[parent'[w]] = "ending",
                        w \notin (please_stop \cup stopped)'
                 PROVE  Pending(parent[w], "stop", w)'
      BY DEF ToBeStopped
    <3>1. /\ parent' = parent /\ parent[w] \in Threads /\ w \in Workers
          /\ Pending(parent[w], "stop", w)
      BY <1>5 DEF ThreadIInv, ThreadTypeOK, StopEnd, tree, ToBeStopped, Born
    <3>2. ending' = ending /\ (parent[w] # t => stack'[parent[w]] = stack[parent[w]])
      BY <1>5, <2>e, <3>1 DEF StopEnd
    <3>3. CASE parent[w] = t
      <4>1. ~ (Top(t).op = "stop" /\ Top(t).on = w)
        BY <1>5, <2>f DEF StopEnd
      <4> QED
        BY <2>e, <3>1, <3>2, <3>3, <4>1 DEF Pending
    <3> QED
      BY <3>1, <3>2, <3>3, StillPending
  <2>5. NobodyUntold'
    BY <1>5, <2>e, <2>f DEF ThreadIInv, StopEnd, tree, NobodyUntold, Born
  <2>6. ToBeJoined'
    <3> SUFFICES ASSUME NoFailure', NEW w \in Born', place'[parent'[w]] = "ending",
                        w \notin (stopped)'
                 PROVE  Pending(parent[w], "join", w)'
      BY DEF ToBeJoined
    <3>1. /\ parent' = parent /\ parent[w] \in Threads /\ w \in Workers
          /\ Pending(parent[w], "join", w)
      BY <1>5 DEF ThreadIInv, ThreadTypeOK, StopEnd, tree, ToBeJoined, NoFailure, Born
    <3>2. ending' = ending /\ (parent[w] # t => stack'[parent[w]] = stack[parent[w]])
      BY <1>5, <2>e, <3>1 DEF StopEnd
    <3>3. CASE parent[w] = t
      <4>1. ~ (Top(t).op = "join" /\ Top(t).on = w)
        BY <1>5, <2>f
      <4> QED
        BY <2>e, <3>1, <3>2, <3>3, <4>1 DEF Pending
    <3> QED
      BY <3>1, <3>2, <3>3, StillPending
  <2>7. StoppedPlaces' /\ EndsKnown' /\ NotForgotten' /\ ChildrenStopFirst' /\ FailureKept'
    BY <1>5 DEF ThreadIInv, StopEnd, tree, StoppedPlaces, EndsKnown, NotForgotten, Born,
       ChildrenStopFirst, FailureKept
  <2> QED
    BY <2>1, <2>2, <2>3, <2>4, <2>5, <2>6, <2>7 DEF ThreadIInv
<1>6. ASSUME NEW t \in Threads, JoinWait(t)
      PROVE  ThreadIInv'
  <2>e. Reshaped(t)
    BY <1>6, ReshapedBy DEF ThreadIInv
  <2>f. Top(t).on \in Workers
    BY <1>6, PopEffect DEF ThreadIInv, JoinWait, Frames
  <2>1. ThreadTypeOK'
    BY <1>6, <2>e, <2>f DEF ThreadIInv, ThreadTypeOK, JoinWait, tree, Reshaped
  <2>2. OneCall'
    BY <2>e, ReshapedOneCall DEF ThreadIInv
  <2>3. NoLimitAtEnd'
    BY <1>6, <2>e, <2>f DEF ThreadIInv, JoinWait, NoLimitAtEnd, Reshaped
  <2>4. ToBeStopped'
    <3> SUFFICES ASSUME NEW w \in Born', place'[parent'[w]] = "ending",
                        w \notin (please_stop \cup stopped)'
                 PROVE  Pending(parent[w], "stop", w)'
      BY DEF ToBeStopped
    <3>1. /\ parent' = parent /\ parent[w] \in Threads /\ w \in Workers
          /\ Pending(parent[w], "stop", w)
      BY <1>6 DEF ThreadIInv, ThreadTypeOK, JoinWait, tree, ToBeStopped, Born
    <3>2. ending' = ending /\ (parent[w] # t => stack'[parent[w]] = stack[parent[w]])
      BY <1>6, <2>e, <3>1 DEF JoinWait, Reshaped
    <3> QED
      BY <2>e, <3>1, <3>2, StillPending, ReshapedPending
  <2>5. ToBeJoined'
    <3> SUFFICES ASSUME NoFailure', NEW w \in Born', place'[parent'[w]] = "ending",
                        w \notin (stopped)'
                 PROVE  Pending(parent[w], "join", w)'
      BY DEF ToBeJoined
    <3>1. /\ parent' = parent /\ parent[w] \in Threads /\ w \in Workers
          /\ Pending(parent[w], "join", w)
      BY <1>6 DEF ThreadIInv, ThreadTypeOK, JoinWait, tree, ToBeJoined, NoFailure, Born
    <3>2. ending' = ending /\ (parent[w] # t => stack'[parent[w]] = stack[parent[w]])
      BY <1>6, <2>e, <3>1 DEF JoinWait, Reshaped
    <3> QED
      BY <2>e, <3>1, <3>2, StillPending, ReshapedPending
  <2>6. /\ StoppedPlaces' /\ EndsKnown' /\ NotForgotten' /\ NobodyUntold'
        /\ ChildrenStopFirst' /\ FailureKept'
    BY <1>6 DEF ThreadIInv, JoinWait, tree, StoppedPlaces, EndsKnown, NotForgotten, Born,
       NobodyUntold, ChildrenStopFirst, FailureKept
  <2> QED
    BY <2>1, <2>2, <2>3, <2>4, <2>5, <2>6 DEF ThreadIInv
<1>7. ASSUME NEW t \in Threads, JoinReturn(t)
      PROVE  ThreadIInv'
  <2>e. /\ Top(t) \in Frames /\ Top(t) \in ToSet(stack[t])
        /\ Top(t).on \in Workers /\ Top(t).waits /\ Top(t).on \in stopped
    BY <1>7, PopEffect DEF ThreadIInv, JoinReturn, Frames
  <2>f. /\ stack' \in [Threads -> Seq(Frames)]
        /\ \A u \in Threads \ {t} : stack'[u] = stack[u]
        /\ \/ ToSet(stack[t]) = {Top(t)} \cup ToSet(stack'[t])
           \/ end_of_thread[Top(t).on] = "exception" /\ ToSet(stack'[t]) = {}
    BY <1>7, PopEffect, UnwindEffect DEF ThreadIInv, JoinReturn
  <2>g. /\ children' \in [Threads -> Seq(Workers)]
        /\ \A w \in Workers \ {Top(t).on} :
             Contains(children[parent[w]], w) => Contains(children'[parent[w]], w)
    BY <1>7, <2>e, RemoveChildEffect DEF ThreadIInv, JoinReturn
  <2>1. ThreadTypeOK'
    BY <1>7, <2>e, <2>f, <2>g DEF ThreadIInv, ThreadTypeOK, JoinReturn, signals
  <2>2. OneCall'
    <3>1. OneCallAt(t)'
      BY <2>f DEF ThreadIInv, OneCall, OneCallAt
    <3> QED
      BY <2>f, <3>1, OneCallKept DEF ThreadIInv
  <2>3. NoLimitAtEnd'
    BY <1>7, <2>e, <2>f, <2>g DEF ThreadIInv, JoinReturn, NoLimitAtEnd
  <2>4. NotForgotten'
    BY <1>7, <2>e, <2>f, <2>g DEF ThreadIInv, JoinReturn, signals, NotForgotten, Born
  <2>5. ToBeStopped'
    <3> SUFFICES ASSUME NEW w \in Born', place'[parent'[w]] = "ending",
                        w \notin (please_stop \cup stopped)'
                 PROVE  Pending(parent[w], "stop", w)'
      BY DEF ToBeStopped
    <3>1. /\ parent' = parent /\ parent[w] \in Threads /\ w \in Workers
          /\ Pending(parent[w], "stop", w)
      BY <1>7 DEF ThreadIInv, ThreadTypeOK, JoinReturn, signals, ToBeStopped, Born
    <3>2. ending' = ending /\ (parent[w] # t => stack'[parent[w]] = stack[parent[w]])
      BY <1>7, <2>f, <3>1 DEF JoinReturn
    <3>3. CASE parent[w] = t
      <4>1. \A g \in ToSet(stack[t]) : g.op = "join"
        BY <2>e DEF ThreadIInv, OneCall
      <4> QED
        BY <2>f, <3>1, <3>2, <3>3, <4>1 DEF Pending
    <3> QED
      BY <3>1, <3>2, <3>3, StillPending
  <2>6. ToBeJoined'
    <3> SUFFICES ASSUME NoFailure', NEW w \in Born', place'[parent'[w]] = "ending",
                        w \notin (stopped)'
                 PROVE  Pending(parent[w], "join", w)'
      BY DEF ToBeJoined
    <3>1. /\ parent' = parent /\ parent[w] \in Threads /\ w \in Workers
          /\ Pending(parent[w], "join", w)
      BY <1>7 DEF ThreadIInv, ThreadTypeOK, JoinReturn, signals, ToBeJoined, NoFailure, Born
    <3>2. ending' = ending /\ (parent[w] # t => stack'[parent[w]] = stack[parent[w]])
      BY <1>7, <2>f, <3>1 DEF JoinReturn
    <3>3. CASE parent[w] = t
      <4>1. \A g \in ToSet(stack[t]) : g.op = "join"
        BY <2>e DEF ThreadIInv, OneCall
      <4>2. Top(t).on # w /\ ToSet(stack[t]) = {Top(t)} \cup ToSet(stack'[t])
        BY <1>7, <2>e, <2>f, <3>1 DEF NoFailure, JoinReturn, signals
      <4> QED
        BY <3>1, <3>2, <3>3, <4>2 DEF Pending
    <3> QED
      BY <3>1, <3>2, <3>3, StillPending
  <2>7. FailureKept'
    BY <1>7, <2>e, <2>f, <2>g DEF ThreadIInv, JoinReturn, FailureKept
  <2>8. StoppedPlaces' /\ EndsKnown' /\ NobodyUntold' /\ ChildrenStopFirst'
    BY <1>7 DEF ThreadIInv, JoinReturn, signals, StoppedPlaces, EndsKnown, NobodyUntold, Born,
       ChildrenStopFirst
  <2> QED
    BY <2>1, <2>2, <2>3, <2>4, <2>5, <2>6, <2>7, <2>8 DEF ThreadIInv
<1>8. ASSUME NEW t \in Threads, JoinTimeout(t)
      PROVE  ThreadIInv'
  <2>e. /\ Top(t) \in ToSet(stack[t]) /\ Top(t).till
        /\ stack' \in [Threads -> Seq(Frames)]
        /\ \A u \in Threads \ {t} : stack'[u] = stack[u]
        /\ ToSet(stack'[t]) = {}
    BY <1>8, PopEffect, UnwindEffect DEF ThreadIInv, JoinTimeout
  <2>1. ThreadTypeOK'
    BY <1>8, <2>e DEF ThreadIInv, ThreadTypeOK, JoinTimeout, tree, signals
  <2>2. OneCall'
    <3>1. OneCallAt(t)'
      BY <2>e DEF OneCallAt
    <3> QED
      BY <2>e, <3>1, OneCallKept DEF ThreadIInv
  <2>3. NoLimitAtEnd'
    BY <1>8, <2>e DEF ThreadIInv, JoinTimeout, NoLimitAtEnd
  <2>4. ToBeStopped'
    <3> SUFFICES ASSUME NEW w \in Born', place'[parent'[w]] = "ending",
                        w \notin (please_stop \cup stopped)'
                 PROVE  Pending(parent[w], "stop", w)'
      BY DEF ToBeStopped
    <3>1. /\ parent' = parent /\ parent[w] \in Threads /\ w \in Workers
          /\ Pending(parent[w], "stop", w)
      BY <1>8 DEF ThreadIInv, ThreadTypeOK, JoinTimeout, tree, signals, ToBeStopped, Born
    <3>2. ending' = ending /\ parent[w] # t
      BY <1>8, <2>e, <3>1 DEF JoinTimeout, ThreadIInv, NoLimitAtEnd
    <3> QED
      BY <2>e, <3>1, <3>2, StillPending
  <2>5. ToBeJoined'
    <3> SUFFICES ASSUME NoFailure', NEW w \in Born', place'[parent'[w]] = "ending",
                        w \notin (stopped)'
                 PROVE  Pending(parent[w], "join", w)'
      BY DEF ToBeJoined
    <3>1. /\ parent' = parent /\ parent[w] \in Threads /\ w \in Workers
          /\ Pending(parent[w], "join", w)
      BY <1>8 DEF ThreadIInv, ThreadTypeOK, JoinTimeout, tree, signals, ToBeJoined, NoFailure,
         Born
    <3>2. ending' = ending /\ parent[w] # t
      BY <1>8, <2>e, <3>1 DEF JoinTimeout, ThreadIInv, NoLimitAtEnd
    <3> QED
      BY <2>e, <3>1, <3>2, StillPending
  <2>6. /\ StoppedPlaces' /\ EndsKnown' /\ NotForgotten' /\ NobodyUntold'
        /\ ChildrenStopFirst' /\ FailureKept'
    BY <1>8 DEF ThreadIInv, JoinTimeout, tree, signals, StoppedPlaces, EndsKnown, NotForgotten,
       Born, NobodyUntold, ChildrenStopFirst, FailureKept
  <2> QED
    BY <2>1, <2>2, <2>3, <2>4, <2>5, <2>6 DEF ThreadIInv
<1>9. ASSUME NEW c \in Workers, NEW how \in {"none", "value", "exception"}, TargetEnd(c, how)
      PROVE  ThreadIInv'
  <2>e. /\ StopsThenJoins(children[c], children[c]) \in Seq(Entries)
        /\ \A w : Contains(children[c], w) =>
             \A op \in {"stop", "join"} :
               \E e \in ToSet(StopsThenJoins(children[c], children[c])) : e.op = op /\ e.on = w
    BY EndingCalls DEF ThreadIInv, ThreadTypeOK, Threads
  <2>f. ToSet(stack[c]) = {} /\ stack' = stack
    BY <1>9, EmptyElements DEF TargetEnd, InTarget
  <2>g. ending'[c] = StopsThenJoins(children[c], children[c])
    BY <1>9 DEF TargetEnd, ThreadIInv, ThreadTypeOK, Threads
  <2>1. ThreadTypeOK'
    BY <1>9, <2>e, <2>f, <2>g DEF ThreadIInv, ThreadTypeOK, Goto, TargetEnd, tree, signals,
       Places, Entries
  <2>2. StoppedPlaces'
    BY <1>9, <2>e, <2>f, <2>g DEF ThreadIInv, Goto, TargetEnd, InTarget, signals, StoppedPlaces
  <2>3. EndsKnown'
    BY <1>9, <2>e, <2>f, <2>g DEF ThreadIInv, ThreadTypeOK, Threads, Goto, TargetEnd, EndsKnown
  <2>4. NoLimitAtEnd'
    BY <1>9, <2>e, <2>f, <2>g DEF ThreadIInv, Goto, TargetEnd, NoLimitAtEnd
  <2>5. NotForgotten'
    BY <1>9, <2>e, <2>f, <2>g DEF ThreadIInv, Goto, TargetEnd, InTarget, tree, signals,
       NotForgotten, Born
  <2>6. ToBeStopped'
    <3> SUFFICES ASSUME NEW w \in Born', place'[parent'[w]] = "ending",
                        w \notin (please_stop \cup stopped)'
                 PROVE  Pending(parent[w], "stop", w)'
      BY DEF ToBeStopped
    <3>1. /\ parent' = parent /\ parent[w] \in Threads /\ w \in Workers /\ w \in Born
          /\ stack' = stack /\ ending' = [ending EXCEPT ![c] = StopsThenJoins(children[c], children[c])]
          /\ place' = [place EXCEPT ![c] = "ending"]
          /\ w \notin please_stop \cup stopped
      BY <1>9 DEF ThreadIInv, ThreadTypeOK, TargetEnd, tree, signals, InTarget, Goto, Born
    <3>2. CASE parent[w] = c
      <4>1. Contains(children[c], w)
        BY <3>1, <3>2 DEF ThreadIInv, NotForgotten
      <4>2. \E e \in ToSet(ending'[c]) : e.op = "stop" /\ e.on = w
        BY <2>e, <2>g, <4>1
      <4> QED
        BY <3>1, <3>2, <4>2 DEF Pending
    <3>3. CASE parent[w] # c
      <4>1. Pending(parent[w], "stop", w) /\ ending'[parent[w]] = ending[parent[w]]
        BY <3>1, <3>3 DEF ThreadIInv, ToBeStopped
      <4> QED
        BY <3>1, <4>1, StillPending
    <3> QED
      BY <3>2, <3>3
  <2>7. NobodyUntold'
    BY <1>9, <2>e, <2>f, <2>g DEF ThreadIInv, Goto, TargetEnd, InTarget, tree, signals,
       NobodyUntold, Born
  <2>8. ToBeJoined'
    <3> SUFFICES ASSUME NoFailure', NEW w \in Born', place'[parent'[w]] = "ending",
                        w \notin (stopped)'
                 PROVE  Pending(parent[w], "join", w)'
      BY DEF ToBeJoined
    <3>1. /\ parent' = parent /\ parent[w] \in Threads /\ w \in Workers /\ w \in Born
          /\ stack' = stack /\ ending' = [ending EXCEPT ![c] = StopsThenJoins(children[c], children[c])]
          /\ place' = [place EXCEPT ![c] = "ending"]
          /\ w \notin stopped /\ NoFailure
      BY <1>9 DEF ThreadIInv, ThreadTypeOK, TargetEnd, tree, signals, InTarget, Goto, Born,
         NoFailure, EndsKnown
    <3>2. CASE parent[w] = c
      <4>1. Contains(children[c], w)
        BY <3>1, <3>2 DEF ThreadIInv, NotForgotten
      <4>2. \E e \in ToSet(ending'[c]) : e.op = "join" /\ e.on = w
        BY <2>e, <2>g, <4>1
      <4> QED
        BY <3>1, <3>2, <4>2 DEF Pending
    <3>3. CASE parent[w] # c
      <4>1. Pending(parent[w], "join", w) /\ ending'[parent[w]] = ending[parent[w]]
        BY <3>1, <3>3 DEF ThreadIInv, ToBeJoined
      <4> QED
        BY <3>1, <4>1, StillPending
    <3> QED
      BY <3>2, <3>3
  <2>9. ChildrenStopFirst'
    <3>1. NoFailure' => NoFailure
      BY <1>9 DEF TargetEnd, InTarget, NoFailure, ThreadIInv, EndsKnown
    <3>2. Born' = Born /\ parent' = parent /\ stopped' = stopped
      BY <1>9 DEF TargetEnd, InTarget, tree, signals, Born, Goto
    <3> QED
      BY <3>1, <3>2 DEF ThreadIInv, ChildrenStopFirst, NoFailure
  <2>10. FailureKept'
    BY <1>9, <2>e, <2>f, <2>g DEF ThreadIInv, TargetEnd, tree, FailureKept
  <2>11. OneCall'
    BY <1>9 DEF ThreadIInv, TargetEnd, OneCall
  <2> QED
    BY <2>1, <2>2, <2>3, <2>4, <2>5, <2>6, <2>7, <2>8, <2>9, <2>10, <2>11 DEF ThreadIInv
<1>10. ASSUME MainStop
      PROVE  ThreadIInv'
  <2>e. /\ Reverse(children[Main]) \in Seq(Workers)
        /\ \A w : Contains(Reverse(children[Main]), w) <=> Contains(children[Main], w)
    BY ReverseContains DEF ThreadIInv, ThreadTypeOK, Threads
  <2> DEFINE calls == StopsThenJoins(Reverse(children[Main]), children[Main])
  <2>f. /\ calls \in Seq(Entries)
        /\ \A w : Contains(children[Main], w) =>
             \A op \in {"stop", "join"} : \E e \in ToSet(calls) : e.op = op /\ e.on = w
    BY <2>e, EndingCalls DEF ThreadIInv, ThreadTypeOK, Threads
  <2>g. ToSet(stack[Main]) = {} /\ stack' = stack
    BY <1>10, EmptyElements DEF MainStop, InTarget
  <2>h. ending' = [ending EXCEPT ![Main] = calls]
    BY <1>10 DEF MainStop
  <2> HIDE DEF calls
  <2>1. ThreadTypeOK'
    <3>1. ending \in [Threads -> Seq(Entries)]
      BY DEF ThreadIInv, ThreadTypeOK, Entries
    <3>2. ending' \in [Threads -> Seq(Entries)]
      BY <3>1, <2>f, <2>h
    <3>3. ending' \in [Threads -> Seq([op : {"stop", "join"}, on : Workers])]
      BY <3>2 DEF Entries
    <3>4. /\ parent' = parent /\ children' = children /\ stopped' = stopped
          /\ joiner_is_waiting' = joiner_is_waiting /\ please_stop' \subseteq Threads
          /\ place' \in [Threads -> Places] /\ end_of_thread' = end_of_thread
          /\ stack' \in [Threads -> Seq(Frames)]
          /\ all' = all /\ reported' = reported /\ released' = released
      BY <1>10, <2>g DEF ThreadIInv, ThreadTypeOK, MainStop, tree, Goto, Places, Threads
    <3> QED
      BY <3>3, <3>4 DEF ThreadIInv, ThreadTypeOK
  <2>2. StoppedPlaces'
    BY <1>10, <2>e, <2>f, <2>g, <2>h DEF ThreadIInv, Goto, MainStop, InTarget, StoppedPlaces
  <2>3. EndsKnown'
    BY <1>10, <2>e, <2>f, <2>g, <2>h DEF ThreadIInv, Goto, MainStop, EndsKnown
  <2>4. NoLimitAtEnd'
    BY <1>10, <2>e, <2>f, <2>g, <2>h DEF ThreadIInv, Goto, MainStop, NoLimitAtEnd
  <2>5. NotForgotten'
    BY <1>10, <2>e, <2>f, <2>g, <2>h DEF ThreadIInv, Goto, MainStop, tree, NotForgotten, Born
  <2>6. ToBeStopped'
    <3> SUFFICES ASSUME NEW w \in Born', place'[parent'[w]] = "ending",
                        w \notin (please_stop \cup stopped)'
                 PROVE  Pending(parent[w], "stop", w)'
      BY DEF ToBeStopped
    <3>1. /\ parent' = parent /\ parent[w] \in Threads /\ w \in Workers /\ w \in Born
          /\ stack' = stack /\ ending' = [ending EXCEPT ![Main] = calls]
          /\ place' = [place EXCEPT ![Main] = "ending"]
          /\ w \notin please_stop \cup stopped
      BY <1>10, <2>h DEF ThreadIInv, ThreadTypeOK, MainStop, tree, Goto, Born, Threads
    <3>2. CASE parent[w] = Main
      <4>1. Contains(children[Main], w)
        BY <3>1, <3>2 DEF ThreadIInv, NotForgotten
      <4>2. \E e \in ToSet(ending'[Main]) : e.op = "stop" /\ e.on = w
        BY <2>f, <3>1, <4>1 DEF ThreadIInv, ThreadTypeOK, Threads
      <4> QED
        BY <3>1, <3>2, <4>2 DEF Pending
    <3>3. CASE parent[w] # Main
      <4>1. Pending(parent[w], "stop", w) /\ ending'[parent[w]] = ending[parent[w]]
        BY <3>1, <3>3 DEF ThreadIInv, ToBeStopped
      <4> QED
        BY <3>1, <4>1, StillPending
    <3> QED
      BY <3>2, <3>3
  <2>7. NobodyUntold'
    BY <1>10, <2>e, <2>f, <2>g, <2>h DEF ThreadIInv, Goto, MainStop, tree, NobodyUntold, Born
  <2>8. ToBeJoined'
    <3> SUFFICES ASSUME NoFailure', NEW w \in Born', place'[parent'[w]] = "ending",
                        w \notin (stopped)'
                 PROVE  Pending(parent[w], "join", w)'
      BY DEF ToBeJoined
    <3>1. /\ parent' = parent /\ parent[w] \in Threads /\ w \in Workers /\ w \in Born
          /\ stack' = stack /\ ending' = [ending EXCEPT ![Main] = calls]
          /\ place' = [place EXCEPT ![Main] = "ending"]
          /\ w \notin stopped /\ NoFailure
      BY <1>10, <2>h DEF ThreadIInv, ThreadTypeOK, MainStop, tree, Goto, Born, Threads,
         NoFailure
    <3>2. CASE parent[w] = Main
      <4>1. Contains(children[Main], w)
        BY <3>1, <3>2 DEF ThreadIInv, NotForgotten
      <4>2. \E e \in ToSet(ending'[Main]) : e.op = "join" /\ e.on = w
        BY <2>f, <3>1, <4>1 DEF ThreadIInv, ThreadTypeOK, Threads
      <4> QED
        BY <3>1, <3>2, <4>2 DEF Pending
    <3>3. CASE parent[w] # Main
      <4>1. Pending(parent[w], "join", w) /\ ending'[parent[w]] = ending[parent[w]]
        BY <3>1, <3>3 DEF ThreadIInv, ToBeJoined
      <4> QED
        BY <3>1, <4>1, StillPending
    <3> QED
      BY <3>2, <3>3
  <2>9. ChildrenStopFirst'
    BY <1>10, <2>e, <2>f, <2>g, <2>h DEF ThreadIInv, Goto, MainStop, tree, ChildrenStopFirst,
       Born
  <2>10. OneCall' /\ FailureKept'
    BY <1>10 DEF ThreadIInv, MainStop, tree, OneCall, FailureKept
  <2> QED
    BY <2>1, <2>2, <2>3, <2>4, <2>5, <2>6, <2>7, <2>8, <2>9, <2>10 DEF ThreadIInv
<1>11. ASSUME NEW t \in Threads, Ending(t)
      PROVE  ThreadIInv'
  <2>e. /\ ending[t] \in Seq(Entries) /\ ending[t] # <<>> /\ place[t] = "ending" /\ ToSet(stack[t]) = {}
    BY <1>11, EmptyElements DEF Ending, ThreadIInv, ThreadTypeOK, Entries
  <2>f. /\ Head(ending[t]) \in Entries /\ Tail(ending[t]) \in Seq(Entries)
        /\ ToSet(ending[t]) = {Head(ending[t])} \cup ToSet(Tail(ending[t]))
    BY <2>e, HeadTailElements
  <2>g. ending' = [ending EXCEPT ![t] = Tail(ending[t])]
    BY <1>11 DEF Ending
  <2> DEFINE call == Frame(Head(ending[t]).op, Head(ending[t]).on, FALSE)
  <2>c. /\ call \in Frames
        /\ call.op = Head(ending[t]).op /\ call.on = Head(ending[t]).on
        /\ ~ call.till /\ ~ call.waits
    <3> DEFINE op == Head(ending[t]).op
               on == Head(ending[t]).on
    <3>1. op \in {"stop", "join"} /\ on \in Workers
      BY <2>f DEF Entries
    <3> HIDE DEF op, on
    <3>2. /\ Frame(op, on, FALSE) \in Frames
          /\ Frame(op, on, FALSE).op = op /\ Frame(op, on, FALSE).on = on
          /\ ~ Frame(op, on, FALSE).till /\ ~ Frame(op, on, FALSE).waits
      BY <3>1 DEF Frame, Frames, ThreadIInv, ThreadTypeOK, Threads
    <3> QED
      BY <3>2 DEF op, on
  <2>d. stack[t] = <<>> /\ Push(t, call)
    BY <1>11 DEF Ending
  <2> HIDE DEF call
  <2>h. /\ stack' \in [Threads -> Seq(Frames)]
        /\ \A u \in Threads \ {t} : stack'[u] = stack[u]
        /\ ToSet(stack'[t]) = {call}
    BY <1>11, <2>c, <2>d, PushEffect DEF ThreadIInv
  <2>1. ThreadTypeOK'
    <3> DEFINE rest == Tail(ending[t])
    <3>0. rest \in Seq(Entries) /\ ending' = [ending EXCEPT ![t] = rest]
      BY <2>f, <2>g
    <3> HIDE DEF rest
    <3>1. ending \in [Threads -> Seq(Entries)]
      BY DEF ThreadIInv, ThreadTypeOK, Entries
    <3>2. ending' \in [Threads -> Seq(Entries)]
      BY <3>1, <3>0
    <3>3. ending' \in [Threads -> Seq([op : {"stop", "join"}, on : Workers])]
      BY <3>2 DEF Entries
    <3>4. /\ parent' = parent /\ children' = children /\ stopped' = stopped
          /\ joiner_is_waiting' = joiner_is_waiting /\ please_stop' \subseteq Threads
          /\ place' \in [Threads -> Places] /\ end_of_thread' = end_of_thread
          /\ stack' \in [Threads -> Seq(Frames)]
          /\ all' = all /\ reported' = reported /\ released' = released
      BY <1>11, <2>h DEF ThreadIInv, ThreadTypeOK, Ending, tree, signals
    <3> QED
      BY <3>3, <3>4 DEF ThreadIInv, ThreadTypeOK
  <2>2. OneCall'
    <3>1. OneCallAt(t)'
      BY <2>c, <2>h DEF OneCallAt
    <3> QED
      BY <2>c, <2>h, <3>1, OneCallKept DEF ThreadIInv
  <2>3. NoLimitAtEnd'
    BY <1>11, <2>c, <2>h DEF ThreadIInv, Ending, NoLimitAtEnd
  <2>4. ToBeStopped'
    <3> SUFFICES ASSUME NEW w \in Born', place'[parent'[w]] = "ending",
                        w \notin (please_stop \cup stopped)'
                 PROVE  Pending(parent[w], "stop", w)'
      BY DEF ToBeStopped
    <3>1. /\ parent' = parent /\ parent[w] \in Threads /\ w \in Workers
          /\ Pending(parent[w], "stop", w)
      BY <1>11 DEF ThreadIInv, ThreadTypeOK, Ending, tree, signals, ToBeStopped, Born
    <3>2. CASE parent[w] = t
      BY <2>c, <2>e, <2>f, <2>g, <2>h, <3>1, <3>2 DEF Pending
    <3>3. CASE parent[w] # t
      BY <2>g, <2>h, <3>1, <3>3, StillPending
    <3> QED
      BY <3>2, <3>3
  <2>5. ToBeJoined'
    <3> SUFFICES ASSUME NoFailure', NEW w \in Born', place'[parent'[w]] = "ending",
                        w \notin (stopped)'
                 PROVE  Pending(parent[w], "join", w)'
      BY DEF ToBeJoined
    <3>1. /\ parent' = parent /\ parent[w] \in Threads /\ w \in Workers
          /\ Pending(parent[w], "join", w)
      BY <1>11 DEF ThreadIInv, ThreadTypeOK, Ending, tree, signals, ToBeJoined, NoFailure, Born
    <3>2. CASE parent[w] = t
      BY <2>c, <2>e, <2>f, <2>g, <2>h, <3>1, <3>2 DEF Pending
    <3>3. CASE parent[w] # t
      BY <2>g, <2>h, <3>1, <3>3, StillPending
    <3> QED
      BY <3>2, <3>3
  <2>6. /\ StoppedPlaces' /\ EndsKnown' /\ NotForgotten' /\ NobodyUntold'
        /\ ChildrenStopFirst' /\ FailureKept'
    BY <1>11 DEF ThreadIInv, Ending, tree, signals, StoppedPlaces, EndsKnown, NotForgotten,
       Born, NobodyUntold, ChildrenStopFirst, FailureKept
  <2> QED
    BY <2>1, <2>2, <2>3, <2>4, <2>5, <2>6 DEF ThreadIInv
<1>12. ASSUME NEW t \in Threads, JoinedAll(t)
      PROVE  ThreadIInv'
  <2>e. place[t] = "ending" /\ ToSet(stack[t]) = {} /\ ToSet(ending[t]) = {}
    BY <1>12, EmptyElements DEF JoinedAll
  <2>1. ThreadTypeOK'
    BY <1>12, <2>e DEF ThreadIInv, ThreadTypeOK, Goto, JoinedAll, tree, Places
  <2>2. StoppedPlaces'
    BY <1>12, <2>e DEF ThreadIInv, ThreadTypeOK, Goto, JoinedAll, StoppedPlaces
  <2>3. EndsKnown'
    BY <1>12, <2>e DEF ThreadIInv, Goto, JoinedAll, EndsKnown
  <2>4. NoLimitAtEnd'
    BY <1>12, <2>e DEF ThreadIInv, Goto, JoinedAll, NoLimitAtEnd
  <2>5. NotForgotten'
    BY <1>12, <2>e DEF ThreadIInv, Goto, JoinedAll, tree, NotForgotten, Born
  <2>6. ToBeStopped'
    BY <1>12, <2>e DEF ThreadIInv, Goto, JoinedAll, tree, ToBeStopped, Pending, Born
  <2>7. NobodyUntold'
    BY <1>12, <2>e DEF ThreadIInv, Goto, JoinedAll, tree, NobodyUntold, Born, ToBeStopped,
       Pending
  <2>8. ToBeJoined'
    BY <1>12, <2>e DEF ThreadIInv, Goto, JoinedAll, tree, ToBeJoined, Pending, Born, NoFailure
  <2>9. ChildrenStopFirst'
    <3> SUFFICES ASSUME NoFailure', NEW w \in Born', parent'[w] \in stopped', w \notin stopped'
                 PROVE  FALSE
      BY DEF ChildrenStopFirst, NoFailure
    <3>1. /\ parent' = parent /\ NoFailure /\ w \in Workers /\ w \in Born /\ parent[w] \in Threads
          /\ stopped' = stopped \cup {t}
      BY <1>12 DEF JoinedAll, tree, ThreadIInv, ThreadTypeOK, NoFailure, Born, Goto
    <3>2. parent[w] = t
      BY <3>1 DEF ThreadIInv, ChildrenStopFirst, NoFailure
    <3> QED
      BY <2>e, <3>1, <3>2 DEF ThreadIInv, ToBeJoined, Pending
  <2>10. OneCall' /\ FailureKept'
    BY <1>12 DEF ThreadIInv, JoinedAll, tree, OneCall, FailureKept
  <2> QED
    BY <2>1, <2>2, <2>3, <2>4, <2>5, <2>6, <2>7, <2>8, <2>9, <2>10 DEF ThreadIInv
<1>13. ASSUME NEW w \in Threads, LingerJoined(w)
      PROVE  ThreadIInv'
  <2>1. ThreadTypeOK'
    BY <1>13 DEF ThreadIInv, ThreadTypeOK, Goto, LingerJoined, tree, signals, Places
  <2>2. StoppedPlaces'
    BY <1>13 DEF ThreadIInv, Goto, LingerJoined, signals, StoppedPlaces
  <2>3. EndsKnown'
    BY <1>13 DEF ThreadIInv, Goto, LingerJoined, EndsKnown
  <2>4. NoLimitAtEnd'
    BY <1>13 DEF ThreadIInv, Goto, LingerJoined, NoLimitAtEnd
  <2>5. NotForgotten'
    BY <1>13 DEF ThreadIInv, Goto, LingerJoined, tree, signals, NotForgotten, Born
  <2>6. ToBeStopped'
    BY <1>13 DEF ThreadIInv, Goto, LingerJoined, tree, signals, ToBeStopped, Pending, Born
  <2>7. NobodyUntold'
    BY <1>13 DEF ThreadIInv, Goto, LingerJoined, tree, signals, NobodyUntold, Born
  <2>8. ToBeJoined'
    BY <1>13 DEF ThreadIInv, Goto, LingerJoined, tree, signals, ToBeJoined, Pending, Born,
       NoFailure
  <2>9. ChildrenStopFirst'
    BY <1>13 DEF ThreadIInv, Goto, LingerJoined, tree, signals, ChildrenStopFirst, Born
  <2>10. OneCall' /\ FailureKept'
    BY <1>13 DEF ThreadIInv, LingerJoined, tree, OneCall, FailureKept
  <2> QED
    BY <2>1, <2>2, <2>3, <2>4, <2>5, <2>6, <2>7, <2>8, <2>9, <2>10 DEF ThreadIInv
<1>14. ASSUME NEW t \in Threads, LingerOver(t)
      PROVE  ThreadIInv'
  <2>e. t \in Workers /\ t \in stopped
    BY <1>14 DEF LingerOver, ThreadIInv, StoppedPlaces, Threads
  <2>f. /\ children' \in [Threads -> Seq(Workers)]
        /\ \A w \in Workers \ {t} :
             Contains(children[parent[w]], w) => Contains(children'[parent[w]], w)
        /\ end_of_thread[t] = "exception" => children' = children
    BY <1>14, <2>e, RemoveChildEffect DEF ThreadIInv, ThreadTypeOK, LingerOver
  <2>1. ThreadTypeOK'
    BY <1>14, <2>e, <2>f DEF ThreadIInv, ThreadTypeOK, Goto, LingerOver, signals, Places
  <2>2. StoppedPlaces'
    BY <1>14, <2>e, <2>f DEF ThreadIInv, Goto, LingerOver, signals, StoppedPlaces
  <2>3. EndsKnown'
    BY <1>14, <2>e, <2>f DEF ThreadIInv, Goto, LingerOver, EndsKnown
  <2>4. NoLimitAtEnd'
    BY <1>14, <2>e, <2>f DEF ThreadIInv, Goto, LingerOver, NoLimitAtEnd
  <2>5. NotForgotten'
    BY <1>14, <2>e, <2>f DEF ThreadIInv, Goto, LingerOver, signals, NotForgotten, Born
  <2>6. ToBeStopped'
    BY <1>14, <2>e, <2>f DEF ThreadIInv, ThreadTypeOK, Threads, Goto, LingerOver, signals,
       ToBeStopped, Pending, Born
  <2>7. NobodyUntold'
    BY <1>14, <2>e, <2>f DEF ThreadIInv, Goto, LingerOver, signals, NobodyUntold, Born
  <2>8. ToBeJoined'
    BY <1>14, <2>e, <2>f DEF ThreadIInv, ThreadTypeOK, Threads, Goto, LingerOver, signals,
       ToBeJoined, Pending, Born, NoFailure
  <2>9. ChildrenStopFirst'
    BY <1>14, <2>e, <2>f DEF ThreadIInv, Goto, LingerOver, signals, ChildrenStopFirst, Born
  <2>10. FailureKept'
    BY <1>14, <2>e, <2>f DEF ThreadIInv, LingerOver, FailureKept
  <2>11. OneCall'
    BY <1>14 DEF ThreadIInv, LingerOver, OneCall
  <2> QED
    BY <2>1, <2>2, <2>3, <2>4, <2>5, <2>6, <2>7, <2>8, <2>9, <2>10, <2>11 DEF ThreadIInv
<1>15. ASSUME NEW w \in Threads, Exit(w)
      PROVE  ThreadIInv'
  <2>1. ThreadTypeOK'
    BY <1>15 DEF ThreadIInv, ThreadTypeOK, Goto, Exit, tree, signals, Places
  <2>2. StoppedPlaces'
    BY <1>15 DEF ThreadIInv, Goto, Exit, signals, StoppedPlaces
  <2>3. EndsKnown'
    BY <1>15 DEF ThreadIInv, Goto, Exit, EndsKnown
  <2>4. NoLimitAtEnd'
    BY <1>15 DEF ThreadIInv, Goto, Exit, NoLimitAtEnd
  <2>5. NotForgotten'
    BY <1>15 DEF ThreadIInv, Goto, Exit, tree, signals, NotForgotten, Born
  <2>6. ToBeStopped'
    BY <1>15 DEF ThreadIInv, Goto, Exit, tree, signals, ToBeStopped, Pending, Born
  <2>7. NobodyUntold'
    BY <1>15 DEF ThreadIInv, Goto, Exit, tree, signals, NobodyUntold, Born
  <2>8. ToBeJoined'
    BY <1>15 DEF ThreadIInv, Goto, Exit, tree, signals, ToBeJoined, Pending, Born, NoFailure
  <2>9. ChildrenStopFirst'
    BY <1>15 DEF ThreadIInv, Goto, Exit, tree, signals, ChildrenStopFirst, Born
  <2>10. OneCall' /\ FailureKept'
    BY <1>15 DEF ThreadIInv, Exit, tree, OneCall, FailureKept
  <2> QED
    BY <2>1, <2>2, <2>3, <2>4, <2>5, <2>6, <2>7, <2>8, <2>9, <2>10 DEF ThreadIInv
<1>16. CASE UNCHANGED vars
  <2>1. UNCHANGED <<parent, children, please_stop, stopped, joiner_is_waiting, place, ending,
                    stack, end_of_thread, all, reported, released>>
    BY <1>16 DEF vars, tree, signals
  <2>2. ThreadTypeOK' /\ StoppedPlaces' /\ EndsKnown' /\ OneCall' /\ NoLimitAtEnd'
    BY <2>1 DEF ThreadIInv, ThreadTypeOK, StoppedPlaces, EndsKnown, OneCall, NoLimitAtEnd
  <2>3. NotForgotten' /\ ToBeStopped' /\ NobodyUntold'
    BY <2>1 DEF ThreadIInv, NotForgotten, ToBeStopped, Pending, NobodyUntold, Born
  <2>4. ToBeJoined' /\ ChildrenStopFirst' /\ FailureKept'
    BY <2>1 DEF ThreadIInv, ToBeJoined, Pending, NoFailure, ChildrenStopFirst, FailureKept,
       Born
  <2> QED
    BY <2>2, <2>3, <2>4 DEF ThreadIInv
<1>17. Main \in Threads /\ (\A how : ~ TargetEnd(Main, how)) /\ (\A t \in Threads : t \in Workers \/ t = Main)
  BY DEF Threads, TargetEnd
<1> QED
  BY <1>1, <1>2, <1>3, <1>4, <1>5, <1>6, <1>7, <1>8, <1>9, <1>10, <1>11, <1>12, <1>13, <1>14,
     <1>15, <1>16, <1>17 DEF Next, Target, Goes

LEMMA ThreadInvAlways == Spec => []ThreadIInv
BY ThreadInitInv, ThreadInvStep, PTL DEF Spec

-----------------------------------------------------------------------------
(* What a thread may rely on                                               *)

\* For any threads, and targets that make, stop, join and release their children as
\* they like: a thread stays in its parent's list until it has stopped, and no thread
\* stops before it has told all of its children to (threads.py:298-317, 368-391).
THEOREM ThreadSafe == Spec => []ThreadInv
<1>1. ThreadIInv => ThreadInv
  BY DEF ThreadIInv, ThreadInv
<1> QED
  BY <1>1, ThreadInvAlways, PTL

\* As long as no target has failed, no thread stops before its children have, although
\* stop() and join() walk over copies of lists that change under them (threads.py:298-317).
THEOREM ThreadChildrenFirst == Spec => []ChildrenStopFirst
<1>1. ThreadIInv => ChildrenStopFirst
  BY DEF ThreadIInv
<1> QED
  BY <1>1, ThreadInvAlways, PTL

\* The failure of a target is raised in a join(), or logged, or the parent still has the
\* child to join with: no order of joins, time limits and ends loses it (threads.py:333-397).
THEOREM ThreadFailureKept == Spec => []FailureNotLost
<1>1. ThreadIInv => FailureNotLost
  BY DEF ThreadIInv, FailureKept, FailureNotLost
<1> QED
  BY <1>1, ThreadInvAlways, PTL
=============================================================================

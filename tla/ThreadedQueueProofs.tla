------------------------ MODULE ThreadedQueueProofs ------------------------
(***************************************************************************)
(* Theorems about ThreadedQueue, for any batch size, limit and number of   *)
(* items: nothing is dropped, doubled or overtaken, and the slow queue is  *)
(* told to stop when it has everything.                                    *)
(***************************************************************************)
EXTENDS ThreadedQueue, TLAPS

-----------------------------------------------------------------------------
(* The inductive invariant                                                 *)

Entries == Items \cup {STOP}
ValueItems == {i \in Items : i.kind = "value"}
FunctionItems == {i \in Items : i.kind = "function"}

\* what is in A was taken before what is in B
Before(A, B) == \A x \in A, y \in B : (x # STOP /\ y # STOP) => x.n < y.n

\* where the items are: in the queue q, the buffer b, the slow queue s, the list of
\* functions h, or among the functions r that have run, when t items were taken
Sound(q, b, s, h, r, t) ==
  /\ q \in Seq(Entries) /\ b \in Seq(ValueItems) /\ s \in Seq(ValueItems \cup {STOP})
  /\ h \subseteq FunctionItems /\ r \subseteq FunctionItems
  /\ t \in 0 .. MaxItems
  /\ InOrder(q) /\ InOrder(b) /\ InOrder(s)
  /\ Before(Elements(b), Elements(q))
  /\ Before(Elements(s), Elements(b) \cup Elements(q))
  /\ Before(h, Elements(q))
  /\ Before(r, Elements(b) \cup Elements(q))
  /\ {i.n : i \in ItemsIn(q) \cup ItemsIn(b) \cup ItemsIn(s) \cup h \cup r} = 1 .. t

ItemsSound == Sound(queue, buffer, slow, hooks, ran, taken)

\* what is behind a THREAD_STOP in s was taken after the first m
Behind(s, m) ==
  \A j, k \in 1 .. Len(s) : (j < k /\ s[j] = STOP /\ s[k] # STOP) => s[k].n > m

Stopped == worker \in {"stop", "go", "last", "bye", "ended", "dead"} \/ pleaseStop

\* without an exception nobody but worker_bee lets please_stop go; and it stops because the
\* queue is closed and empty, or at a THREAD_STOP that came after what had been taken then
OrderlyStop ==
  ~ raising =>
    /\ stopper \notin {"go", "job"}
    /\ (Stopped \/ STOP \in Elements(queue)) => closed \/ stopper # "idle"
    /\ closed \/ stopper = "idle" \/ stopAt <= taken
    /\ Behind(queue, stopAt)
    /\ Stopped => \A i \in ItemsIn(queue) : i.n > stopAt

LastPush == worker \in {"bye", "ended"} => buffer = <<>>

ThreadedIInv ==
  /\ ThreadedTypeOK
  /\ ItemsSound
  /\ OrderlyStop
  /\ LastPush

-----------------------------------------------------------------------------
(* Lists                                                                   *)

LEMMA EmptyList ==
  /\ Elements(<<>>) = {} /\ InOrder(<<>>)
  /\ \A m : Behind(<<>>, m)
BY DEF Elements, InOrder, Behind

LEMMA JoinedLists ==
  ASSUME NEW S, NEW s \in Seq(S), NEW r \in Seq(S)
  PROVE  /\ s \o r \in Seq(S)
         /\ Elements(s \o r) = Elements(s) \cup Elements(r)
         /\ InOrder(s) /\ InOrder(r) /\ Before(Elements(s), Elements(r)) => InOrder(s \o r)
<1> DEFINE q == s \o r
<1>1. /\ q \in Seq(S) /\ Len(q) = Len(s) + Len(r) /\ Len(s) \in Nat /\ Len(r) \in Nat
      /\ \A k \in 1 .. Len(s) : q[k] = s[k]
      /\ \A k \in 1 .. Len(r) : q[Len(s) + k] = r[k]
  OBVIOUS
<1> HIDE DEF q
<1>2. \A k \in 1 .. Len(q) :
        \/ k \in 1 .. Len(s) /\ q[k] = s[k]
        \/ k > Len(s) /\ \E j \in 1 .. Len(r) : k = Len(s) + j /\ q[k] = r[j]
  <2> SUFFICES ASSUME NEW k \in 1 .. Len(q), k \notin 1 .. Len(s)
               PROVE  k > Len(s) /\ \E j \in 1 .. Len(r) : k = Len(s) + j /\ q[k] = r[j]
    BY <1>1
  <2>1. k > Len(s) /\ k - Len(s) \in 1 .. Len(r) /\ k = Len(s) + (k - Len(s))
    BY <1>1
  <2> QED
    BY <1>1, <2>1
<1>3. Elements(q) = Elements(s) \cup Elements(r)
  <2>1. \A k \in 1 .. Len(q) : q[k] \in Elements(s) \cup Elements(r)
    BY <1>2 DEF Elements
  <2>2. \A k \in 1 .. Len(s) : s[k] \in Elements(q)
    <3>1. \A k \in 1 .. Len(s) : k \in 1 .. Len(q)
      BY <1>1
    <3> QED
      BY <1>1, <3>1 DEF Elements
  <2>3. \A k \in 1 .. Len(r) : r[k] \in Elements(q)
    <3>1. \A k \in 1 .. Len(r) : Len(s) + k \in 1 .. Len(q)
      BY <1>1
    <3> QED
      BY <1>1, <3>1 DEF Elements
  <2> QED
    BY <2>1, <2>2, <2>3 DEF Elements
<1>4. ASSUME InOrder(s), InOrder(r), Before(Elements(s), Elements(r))
      PROVE  InOrder(q)
  <2> SUFFICES ASSUME NEW j \in 1 .. Len(q), NEW k \in 1 .. Len(q), j < k,
                      q[j] # STOP, q[k] # STOP
               PROVE  q[j].n < q[k].n
    BY DEF InOrder
  <2>1. CASE j \in 1 .. Len(s) /\ k \in 1 .. Len(s)
    BY <1>1, <1>4, <2>1 DEF InOrder
  <2>2. CASE j \in 1 .. Len(s) /\ k \notin 1 .. Len(s)
    <3>1. q[j] \in Elements(s) /\ q[k] \in Elements(r)
      BY <1>1, <1>2, <2>2 DEF Elements
    <3> QED
      BY <1>4, <3>1 DEF Before
  <2>3. CASE j \notin 1 .. Len(s)
    <3>1. PICK i \in 1 .. Len(r) : j = Len(s) + i /\ q[j] = r[i]
      BY <1>2, <2>3
    <3>2. k \notin 1 .. Len(s)
      BY <1>1, <2>3
    <3>3. PICK l \in 1 .. Len(r) : k = Len(s) + l /\ q[k] = r[l]
      BY <1>2, <3>2
    <3>4. i < l
      BY <1>1, <3>1, <3>3
    <3> QED
      BY <1>4, <3>1, <3>3, <3>4 DEF InOrder
  <2> QED
    BY <2>1, <2>2, <2>3
<1> QED
  BY <1>1, <1>3, <1>4 DEF q

LEMMA AppendedList ==
  ASSUME NEW S, NEW s \in Seq(S), NEW e \in S
  PROVE  /\ Append(s, e) \in Seq(S)
         /\ Elements(Append(s, e)) = Elements(s) \cup {e}
         /\ InOrder(s) /\ Before(Elements(s), {e}) => InOrder(Append(s, e))
<1>1. <<e>> \in Seq(S) /\ Append(s, e) = s \o <<e>> /\ Len(<<e>>) = 1 /\ <<e>>[1] = e
  OBVIOUS
<1>2. Elements(<<e>>) = {e} /\ InOrder(<<e>>)
  BY <1>1 DEF Elements, InOrder
<1>3. \A r \in Seq(S) :
        /\ s \o r \in Seq(S)
        /\ Elements(s \o r) = Elements(s) \cup Elements(r)
        /\ InOrder(s) /\ InOrder(r) /\ Before(Elements(s), Elements(r)) => InOrder(s \o r)
  BY JoinedLists
<1> QED
  BY <1>1, <1>2, <1>3

LEMMA BehindAppended ==
  ASSUME NEW S, NEW s \in Seq(S), NEW e \in S, NEW m, Behind(s, m),
         e = STOP \/ STOP \notin Elements(s) \/ e.n > m
  PROVE  Behind(Append(s, e), m)
<1> DEFINE q == Append(s, e)
<1>1. /\ q \in Seq(S) /\ Len(q) = Len(s) + 1 /\ Len(s) \in Nat /\ q[Len(s) + 1] = e
      /\ \A k \in 1 .. Len(s) : q[k] = s[k]
  OBVIOUS
<1> HIDE DEF q
<1> SUFFICES ASSUME NEW j \in 1 .. Len(q), NEW k \in 1 .. Len(q), j < k,
                    q[j] = STOP, q[k] # STOP
             PROVE  q[k].n > m
  BY DEF Behind, q
<1>3. j \in 1 .. Len(s)
  BY <1>1
<1>4. s[j] = STOP /\ STOP \in Elements(s)
  BY <1>1, <1>3 DEF Elements
<1>5. CASE k \in 1 .. Len(s)
  BY <1>1, <1>3, <1>4, <1>5 DEF Behind
<1>6. CASE k = Len(s) + 1
  BY <1>1, <1>4, <1>6
<1> QED
  BY <1>1, <1>5, <1>6

LEMMA BehindNothing ==
  ASSUME NEW S, NEW s \in Seq(S), NEW m, STOP \notin Elements(s)
  PROVE  Behind(s, m)
BY DEF Behind, Elements

LEMMA TailOfList ==
  ASSUME NEW S, NEW s \in Seq(S), s # <<>>
  PROVE  /\ Tail(s) \in Seq(S) /\ Head(s) \in S
         /\ Elements(s) = {Head(s)} \cup Elements(Tail(s))
         /\ InOrder(s) => InOrder(Tail(s)) /\ Before({Head(s)}, Elements(Tail(s)))
         /\ \A m : Behind(s, m) =>
              /\ Behind(Tail(s), m)
              /\ Head(s) = STOP => \A i \in ItemsIn(Tail(s)) : i.n > m
<1> DEFINE r == Tail(s)
           e == Head(s)
<1>1. /\ r \in Seq(S) /\ Len(r) = Len(s) - 1 /\ Len(s) \in Nat \ {0} /\ e = s[1] /\ e \in S
      /\ \A k \in 1 .. Len(r) : r[k] = s[k + 1]
  OBVIOUS
<1> HIDE DEF r, e
<1>2. \A k \in 1 .. Len(r) : k \in Nat /\ k + 1 \in 2 .. Len(s) /\ k + 1 \in 1 .. Len(s) /\ 1 < k + 1
  BY <1>1
<1>3. \A k \in 1 .. Len(s) : k = 1 \/ (k - 1 \in 1 .. Len(r) /\ (k - 1) + 1 = k)
  BY <1>1
<1>4. 1 \in 1 .. Len(s)
  BY <1>1
<1>5. Elements(s) = {e} \cup Elements(r)
  <2>1. \A k \in 1 .. Len(s) : s[k] \in {e} \cup Elements(r)
    <3> SUFFICES ASSUME NEW k \in 1 .. Len(s), k # 1 PROVE s[k] \in Elements(r)
      BY <1>1
    <3>1. k - 1 \in 1 .. Len(r) /\ (k - 1) + 1 = k
      BY <1>3
    <3>2. s[k] = r[k - 1]
      BY <1>1, <3>1
    <3> QED
      BY <3>1, <3>2 DEF Elements
  <2>2. \A k \in 1 .. Len(r) : r[k] \in Elements(s)
    BY <1>1, <1>2 DEF Elements
  <2>3. e \in Elements(s)
    BY <1>1, <1>4 DEF Elements
  <2> QED
    BY <2>1, <2>2, <2>3 DEF Elements
<1>6. ASSUME InOrder(s) PROVE InOrder(r) /\ Before({e}, Elements(r))
  <2>1. \A j, k \in 1 .. Len(r) : j < k => j + 1 < k + 1
    BY <1>2
  <2>2. InOrder(r)
    BY <1>1, <1>2, <1>6, <2>1 DEF InOrder
  <2>3. \A k \in 1 .. Len(r) : (e # STOP /\ r[k] # STOP) => e.n < r[k].n
    BY <1>1, <1>2, <1>4, <1>6 DEF InOrder
  <2> QED
    BY <2>2, <2>3 DEF Before, Elements
<1>7. ASSUME NEW m, Behind(s, m)
      PROVE  Behind(r, m) /\ (e = STOP => \A i \in ItemsIn(r) : i.n > m)
  <2>1. \A j, k \in 1 .. Len(r) : j < k => j + 1 < k + 1
    BY <1>2
  <2>2. Behind(r, m)
    BY <1>1, <1>2, <1>7, <2>1 DEF Behind
  <2>3. ASSUME e = STOP PROVE \A k \in 1 .. Len(r) : r[k] # STOP => r[k].n > m
    BY <1>1, <1>2, <1>4, <1>7, <2>3 DEF Behind
  <2> QED
    BY <2>2, <2>3 DEF ItemsIn, Elements
<1> QED
  BY <1>1, <1>5, <1>6, <1>7 DEF r, e

LEMMA ListsOfMore ==
  ASSUME NEW S, NEW T, S \subseteq T, NEW s \in Seq(S)
  PROVE  s \in Seq(T) /\ Elements(s) \subseteq S
<1>1. s \in [1 .. Len(s) -> S] /\ Len(s) \in Nat
  OBVIOUS
<1>2. s \in [1 .. Len(s) -> T]
  BY <1>1
<1> QED
  BY <1>1, <1>2 DEF Elements

-----------------------------------------------------------------------------
(* Where the items are                                                     *)

LEMMA ItemFacts ==
  /\ MaxItems \in Nat
  /\ STOP \notin Items /\ STOP.n = 0
  /\ \A i \in Items : i # STOP /\ i.n \in 1 .. MaxItems
  /\ \A i \in ValueItems \cup FunctionItems : i \in Items
BY ThreadedAssumption DEF Items, STOP, ValueItems, FunctionItems

All(q, b, s, h, r) == ItemsIn(q) \cup ItemsIn(b) \cup ItemsIn(s) \cup h \cup r

LEMMA SoundFacts ==
  ASSUME NEW q, NEW b, NEW s, NEW h, NEW r, NEW t, Sound(q, b, s, h, r, t)
  PROVE  /\ t \in Nat /\ {i.n : i \in All(q, b, s, h, r)} = 1 .. t
         /\ All(q, b, s, h, r) \subseteq Items
         /\ \A i \in All(q, b, s, h, r) : i.n \in 1 .. t
         /\ Elements(q) \subseteq Entries /\ Elements(b) \subseteq ValueItems
         /\ Elements(s) \subseteq ValueItems \cup {STOP}
         /\ \A x \in Elements(q) \cup Elements(b) \cup Elements(s) \cup h \cup r :
              x # STOP => x.n \in 1 .. t
<1>1. /\ Elements(q) \subseteq Entries /\ Elements(b) \subseteq ValueItems
      /\ Elements(s) \subseteq ValueItems \cup {STOP}
      /\ h \subseteq FunctionItems /\ r \subseteq FunctionItems
  BY ListsOfMore DEF Sound
<1>2. /\ t \in Nat /\ {i.n : i \in All(q, b, s, h, r)} = 1 .. t
  BY ThreadedAssumption DEF Sound, All
<1>3. All(q, b, s, h, r) \subseteq Items
  BY <1>1, ItemFacts DEF All, ItemsIn, Entries
<1>4. \A i \in All(q, b, s, h, r) : i.n \in 1 .. t
  BY <1>2
<1> QED
  BY <1>1, <1>2, <1>3, <1>4 DEF All, ItemsIn

LEMMA SoundStart == Sound(<<>>, <<>>, <<>>, {}, {}, 0)
<1>1. \A S : <<>> \in Seq(S)
  OBVIOUS
<1>2. ItemsIn(<<>>) = {}
  BY EmptyList DEF ItemsIn
<1>3. 0 \in 0 .. MaxItems /\ 1 .. 0 = {}
  BY ThreadedAssumption
<1> QED
  BY <1>1, <1>2, <1>3, EmptyList DEF Sound, Before

\* the next item is taken
LEMMA SoundTaken ==
  ASSUME NEW q, NEW b, NEW s, NEW h, NEW r, NEW t, Sound(q, b, s, h, r, t), t < MaxItems,
         NEW kind \in {"value", "function"}
  PROVE  Sound(Append(q, [kind |-> kind, n |-> t + 1]), b, s, h, r, t + 1)
<1> DEFINE e == [kind |-> kind, n |-> t + 1]
<1>1. t \in Nat /\ MaxItems \in Nat /\ e.n = t + 1 /\ e \in Items /\ e # STOP
  <2>1. t \in Nat /\ MaxItems \in Nat /\ t + 1 \in 1 .. MaxItems
    BY SoundFacts, ThreadedAssumption
  <2> QED
    BY <2>1, ItemFacts DEF Items
<1> HIDE DEF e
<1>2. /\ Append(q, e) \in Seq(Entries)
      /\ Elements(Append(q, e)) = Elements(q) \cup {e}
      /\ InOrder(q) /\ Before(Elements(q), {e}) => InOrder(Append(q, e))
  BY <1>1, AppendedList DEF Sound, Entries
<1>3. \A x \in Elements(q) \cup Elements(b) \cup Elements(s) \cup h \cup r : x # STOP => x.n < e.n
  BY <1>1, SoundFacts
<1>4. /\ InOrder(Append(q, e))
      /\ Before(Elements(b), Elements(Append(q, e)))
      /\ Before(Elements(s), Elements(b) \cup Elements(Append(q, e)))
      /\ Before(h, Elements(Append(q, e)))
      /\ Before(r, Elements(b) \cup Elements(Append(q, e)))
  BY <1>2, <1>3 DEF Sound, Before
<1>5. ItemsIn(Append(q, e)) = ItemsIn(q) \cup {e}
  BY <1>1, <1>2 DEF ItemsIn
<1>6. {i.n : i \in All(Append(q, e), b, s, h, r)} = 1 .. (t + 1)
  <2>1. All(Append(q, e), b, s, h, r) = All(q, b, s, h, r) \cup {e}
    BY <1>5 DEF All
  <2>2. {i.n : i \in All(q, b, s, h, r) \cup {e}} = {i.n : i \in All(q, b, s, h, r)} \cup {e.n}
    OBVIOUS
  <2>3. 1 .. (t + 1) = 1 .. t \cup {t + 1}
    BY <1>1
  <2> QED
    BY <1>1, <2>1, <2>2, <2>3, SoundFacts
<1>7. t + 1 \in 0 .. MaxItems
  BY <1>1
<1> QED
  BY <1>2, <1>4, <1>6, <1>7 DEF Sound, All, e

\* a THREAD_STOP is added
LEMMA SoundStop ==
  ASSUME NEW q, NEW b, NEW s, NEW h, NEW r, NEW t, Sound(q, b, s, h, r, t)
  PROVE  Sound(Append(q, STOP), b, s, h, r, t)
<1>1. /\ Append(q, STOP) \in Seq(Entries)
      /\ Elements(Append(q, STOP)) = Elements(q) \cup {STOP}
      /\ InOrder(q) /\ Before(Elements(q), {STOP}) => InOrder(Append(q, STOP))
  BY AppendedList DEF Sound, Entries
<1>2. ItemsIn(Append(q, STOP)) = ItemsIn(q)
  BY <1>1 DEF ItemsIn
<1> QED
  BY <1>1, <1>2 DEF Sound, Before

\* the first entry is popped: it goes to the buffer, or to the list of functions
LEMMA SoundPopped ==
  ASSUME NEW q, NEW b, NEW s, NEW h, NEW r, NEW t, Sound(q, b, s, h, r, t), q # <<>>,
         NEW c, c = IF Head(q).kind = "value" THEN Append(b, Head(q)) ELSE b,
         NEW g, g = IF Head(q).kind = "function" THEN h \cup {Head(q)} ELSE h
  PROVE  Sound(Tail(q), c, s, g, r, t)
<1> DEFINE e == Head(q)
           p == Tail(q)
<1>1. /\ p \in Seq(Entries) /\ e \in Entries
      /\ Elements(q) = {e} \cup Elements(p)
      /\ InOrder(p) /\ Before({e}, Elements(p))
  BY TailOfList DEF Sound
<1>2. /\ e.kind = "value" => c = Append(b, e)
      /\ e.kind # "value" => c = b
      /\ e.kind = "function" => g = h \cup {e}
      /\ e.kind # "function" => g = h
  OBVIOUS
<1> HIDE DEF e, p
<1>3. CASE e = STOP
  <2>1. e.kind # "value" /\ e.kind # "function"
    BY <1>3 DEF STOP
  <2>2. c = b /\ g = h
    BY <1>2, <2>1
  <2>3. ItemsIn(q) = ItemsIn(p)
    BY <1>1, <1>3 DEF ItemsIn
  <2> QED
    BY <1>1, <2>2, <2>3 DEF Sound, Before, p
<1>4. CASE e \in ValueItems
  <2>1. e # STOP /\ e.kind = "value" /\ e.kind # "function"
    BY <1>4, ItemFacts DEF ValueItems
  <2>2. c = Append(b, e) /\ g = h
    BY <1>2, <2>1
  <2>3. /\ c \in Seq(ValueItems) /\ Elements(c) = Elements(b) \cup {e}
        /\ InOrder(b) /\ Before(Elements(b), {e}) => InOrder(c)
    <3>1. b \in Seq(ValueItems)
      BY DEF Sound
    <3>2. /\ Append(b, e) \in Seq(ValueItems) /\ Elements(Append(b, e)) = Elements(b) \cup {e}
          /\ InOrder(b) /\ Before(Elements(b), {e}) => InOrder(Append(b, e))
      BY <1>4, <3>1, AppendedList
    <3> QED
      BY <2>2, <3>2
  <2>4. /\ InOrder(c)
        /\ Before(Elements(c), Elements(p))
        /\ Before(Elements(s), Elements(c) \cup Elements(p))
        /\ Before(h, Elements(p))
        /\ Before(r, Elements(c) \cup Elements(p))
    BY <1>1, <2>3 DEF Sound, Before
  <2>5. ItemsIn(q) \cup ItemsIn(b) = ItemsIn(p) \cup ItemsIn(c)
    BY <1>1, <2>3 DEF ItemsIn
  <2>6. /\ s \in Seq(ValueItems \cup {STOP}) /\ InOrder(s) /\ t \in 0 .. MaxItems
        /\ h \subseteq FunctionItems /\ r \subseteq FunctionItems
        /\ {i.n : i \in ItemsIn(p) \cup ItemsIn(c) \cup ItemsIn(s) \cup h \cup r} = 1 .. t
    BY <2>5 DEF Sound
  <2> QED
    BY <1>1, <2>2, <2>3, <2>4, <2>6 DEF Sound, p
<1>5. CASE e \in FunctionItems
  <2>1. e # STOP /\ e.kind = "function" /\ e.kind # "value"
    BY <1>5, ItemFacts DEF FunctionItems
  <2>2. c = b /\ g = h \cup {e}
    BY <1>2, <2>1
  <2>3. /\ Before(Elements(b), Elements(p))
        /\ Before(Elements(s), Elements(b) \cup Elements(p))
        /\ Before(g, Elements(p))
        /\ Before(r, Elements(b) \cup Elements(p))
    BY <1>1, <2>2 DEF Sound, Before
  <2>4. ItemsIn(q) \cup h = ItemsIn(p) \cup g
    BY <1>1, <2>1, <2>2 DEF ItemsIn
  <2>5. ItemsIn(q) \cup ItemsIn(b) \cup ItemsIn(s) \cup h \cup r
          = ItemsIn(p) \cup ItemsIn(b) \cup ItemsIn(s) \cup g \cup r
    BY <2>4
  <2>6. /\ b \in Seq(ValueItems) /\ InOrder(b)
        /\ s \in Seq(ValueItems \cup {STOP}) /\ InOrder(s) /\ t \in 0 .. MaxItems
        /\ g \subseteq FunctionItems /\ r \subseteq FunctionItems
        /\ {i.n : i \in ItemsIn(p) \cup ItemsIn(b) \cup ItemsIn(s) \cup g \cup r} = 1 .. t
    BY <1>5, <2>2, <2>5 DEF Sound
  <2> QED
    BY <1>1, <2>2, <2>3, <2>6 DEF Sound, p
<1> QED
  BY <1>1, <1>3, <1>4, <1>5 DEF Entries, Items, ValueItems, FunctionItems

\* the slow queue takes the buffer, and some of the functions run: those are taken off the
\* list, or stay on it
LEMMA SoundPushed ==
  ASSUME NEW q, NEW b, NEW s, NEW h, NEW r, NEW t, Sound(q, b, s, h, r, t),
         NEW f, f \subseteq h, NEW g, g \subseteq h, h \subseteq f \cup g
  PROVE  Sound(q, <<>>, s \o b, g, r \cup f, t)
<1>1. b \in Seq(ValueItems \cup {STOP})
  BY ListsOfMore DEF Sound
<1>2. /\ s \o b \in Seq(ValueItems \cup {STOP})
      /\ Elements(s \o b) = Elements(s) \cup Elements(b)
      /\ InOrder(s \o b)
  <2>1. Before(Elements(s), Elements(b))
    BY DEF Sound, Before
  <2> QED
    BY <1>1, <2>1, JoinedLists DEF Sound
<1>3. <<>> \in Seq(ValueItems) /\ Elements(<<>>) = {} /\ InOrder(<<>>)
  BY EmptyList
<1>4. /\ Before(Elements(<<>>), Elements(q))
      /\ Before(Elements(s \o b), Elements(<<>>) \cup Elements(q))
      /\ Before(g, Elements(q))
      /\ Before(r \cup f, Elements(<<>>) \cup Elements(q))
  BY <1>2, <1>3 DEF Sound, Before
<1>5. ItemsIn(q) \cup ItemsIn(<<>>) \cup ItemsIn(s \o b) \cup g \cup (r \cup f)
        = ItemsIn(q) \cup ItemsIn(b) \cup ItemsIn(s) \cup h \cup r
  <2>1. ItemsIn(<<>>) = {} /\ ItemsIn(s \o b) = ItemsIn(s) \cup ItemsIn(b)
    BY <1>2, <1>3 DEF ItemsIn
  <2>2. g \cup f = h
    OBVIOUS
  <2> QED
    BY <2>1, <2>2
<1>6. /\ q \in Seq(Entries) /\ InOrder(q) /\ t \in 0 .. MaxItems
      /\ g \subseteq FunctionItems /\ r \cup f \subseteq FunctionItems
      /\ {i.n : i \in ItemsIn(q) \cup ItemsIn(<<>>) \cup ItemsIn(s \o b) \cup g \cup (r \cup f)} = 1 .. t
  BY <1>5 DEF Sound
<1> QED
  BY <1>2, <1>3, <1>4, <1>6 DEF Sound

\* the slow queue gets the last THREAD_STOP
LEMMA SoundBye ==
  ASSUME NEW q, NEW b, NEW s, NEW h, NEW r, NEW t, Sound(q, b, s, h, r, t)
  PROVE  Sound(q, b, Append(s, STOP), h, r, t)
<1>1. /\ Append(s, STOP) \in Seq(ValueItems \cup {STOP})
      /\ Elements(Append(s, STOP)) = Elements(s) \cup {STOP}
      /\ InOrder(s) /\ Before(Elements(s), {STOP}) => InOrder(Append(s, STOP))
  BY AppendedList DEF Sound
<1>2. ItemsIn(Append(s, STOP)) = ItemsIn(s)
  BY <1>1 DEF ItemsIn
<1> QED
  BY <1>1, <1>2 DEF Sound, Before

-----------------------------------------------------------------------------
(* Steps                                                                   *)

LEMMA TypesOfState ==
  ASSUME ThreadedTypeOK
  PROVE  /\ queue \in Seq(Entries) /\ taken \in 0 .. MaxItems /\ stopAt \in 0 .. MaxItems
         /\ taken \in Int /\ stopAt \in Int /\ MaxItems \in Int
         /\ closed \in BOOLEAN /\ pleaseStop \in BOOLEAN /\ raising \in BOOLEAN
BY ThreadedAssumption DEF ThreadedTypeOK, Entries

LEMMA ExtendTwice ==
  ASSUME NEW S, NEW s \in Seq(S), NEW d \in S, NEW e \in S
  PROVE  s \o <<d, e>> = Append(Append(s, d), e)
OBVIOUS

\* what the push does to the places of the items; PushRaises may have run some functions
LEMMA PushSound ==
  ASSUME ItemsSound, Push \/ PushRaises
  PROVE  Sound(queue, buffer', slow', hooks', ran', taken)
<1>1. CASE Push
  BY <1>1, SoundPushed DEF ItemsSound, Push
<1>2. CASE PushRaises /\ UNCHANGED <<slow, buffer, ran>>
  BY <1>2 DEF ItemsSound, PushRaises
<1>3. CASE PushRaises /\ ~ UNCHANGED <<slow, buffer, ran>>
  <2>1. PICK f \in hooks :
          /\ slow' = slow \o buffer /\ buffer' = <<>>
          /\ ran' = ran \cup {g \in hooks : g.n < f.n}
    BY <1>3 DEF PushRaises
  <2>2. hooks' = hooks
    BY <1>3 DEF PushRaises
  <2> DEFINE some == {g \in hooks : g.n < f.n}
  <2>3. some \subseteq hooks
    OBVIOUS
  <2> HIDE DEF some
  <2>4. Sound(queue, <<>>, slow \o buffer, hooks, ran \cup some, taken)
    BY <2>3, SoundPushed DEF ItemsSound
  <2> QED
    BY <2>1, <2>2, <2>4 DEF some
<1> QED
  BY <1>1, <1>2, <1>3

LEMMA PutStopSound ==
  ASSUME ItemsSound, PutStopOrGiveUp
  PROVE  Sound(queue', buffer, slow, hooks, ran, taken)
<1>1. queue' = queue \/ queue' = Append(queue, STOP)
  BY DEF PutStopOrGiveUp, PutStop
<1> QED
  BY <1>1, SoundStop DEF ItemsSound

LEMMA ItemsSoundStep ==
  ASSUME ThreadedIInv, [Next]_vars
  PROVE  ItemsSound'
<1>a. ItemsSound /\ ThreadedTypeOK
  BY ThreadedAssumption DEF ThreadedIInv
<1>1. CASE Add
  <2>1. PICK kind \in {"value", "function"} :
          queue' = Append(queue, [kind |-> kind, n |-> taken + 1])
    BY <1>1 DEF Add
  <2> QED
    BY <1>1, <1>a, <2>1, SoundTaken DEF Add, ItemsSound
<1>2. CASE Extend
  <2> DEFINE one == [kind |-> "value", n |-> taken + 1]
             two == [kind |-> "value", n |-> (taken + 1) + 1]
  <2>1. /\ taken \in Nat /\ taken < MaxItems /\ taken + 1 < MaxItems
        /\ (taken + 1) + 1 = taken + 2
    BY <1>2, <1>a, TypesOfState DEF Extend
  <2>2. Sound(Append(queue, one), buffer, slow, hooks, ran, taken + 1)
    BY <1>a, <2>1, SoundTaken DEF ItemsSound
  <2>3. Sound(Append(Append(queue, one), two), buffer, slow, hooks, ran, (taken + 1) + 1)
    BY <2>1, <2>2, SoundTaken
  <2>4. queue' = Append(Append(queue, one), two)
    BY <1>2, <1>a, <2>1, ExtendTwice, TypesOfState DEF Extend
  <2> HIDE DEF one, two
  <2> QED
    BY <1>2, <2>1, <2>3, <2>4 DEF Extend, ItemsSound
<1>3. CASE Close \/ StopGo \/ StopJoined \/ Tick \/ Loop \/ PopNothing \/ UNCHANGED vars
  BY <1>3, <1>a DEF Close, StopGo, StopJoined, Tick, Loop, PopNothing, vars, ItemsSound
<1>4. CASE StopAdd \/ StopJob
  BY <1>4, <1>a, PutStopSound DEF StopAdd, StopJob, PutStopOrGiveUp, ItemsSound
<1>5. CASE Pop
  <2>1. /\ queue # <<>> /\ queue' = Tail(queue)
        /\ buffer' = IF Head(queue).kind = "value" THEN Append(buffer, Head(queue)) ELSE buffer
        /\ hooks' = IF Head(queue).kind = "function" THEN hooks \cup {Head(queue)} ELSE hooks
        /\ slow' = slow /\ ran' = ran /\ taken' = taken
    BY <1>5 DEF Pop
  <2>2. Sound(Tail(queue), buffer', slow, hooks', ran, taken)
    BY <1>a, <2>1, SoundPopped DEF ItemsSound
  <2> QED
    BY <2>1, <2>2 DEF ItemsSound
<1>6. CASE Stopping \/ Batch \/ Last
  <2>1. queue' = queue /\ taken' = taken
    BY <1>6 DEF Stopping, Batch, Last
  <2>2. Push \/ PushRaises \/ UNCHANGED <<buffer, hooks, slow, ran>>
    BY <1>6 DEF Stopping, Batch, Last
  <2>3. Sound(queue, buffer', slow', hooks', ran', taken)
    BY <1>a, <2>2, PushSound DEF ItemsSound
  <2> QED
    BY <2>1, <2>3 DEF ItemsSound
<1>7. CASE GoSelf
  <2>1. Sound(queue', buffer, slow, hooks, ran, taken)
    BY <1>7, <1>a, PutStopSound DEF GoSelf, ItemsSound
  <2> QED
    BY <1>7, <2>1 DEF GoSelf, ItemsSound
<1>8. CASE Bye
  BY <1>8, <1>a, SoundBye DEF Bye, ItemsSound
<1> QED
  BY <1>1, <1>2, <1>3, <1>4, <1>5, <1>6, <1>7, <1>8 DEF Next, Stopper, Worker

LEMMA TypeStep ==
  ASSUME ThreadedIInv, [Next]_vars
  PROVE  ThreadedTypeOK'
<1>a. ThreadedTypeOK /\ MaxItems \in Nat /\ MaxFailures \in Nat
  BY ThreadedAssumption DEF ThreadedIInv
<1>1. /\ queue' \in Seq(Items \cup {STOP}) /\ taken' \in 0 .. MaxItems
      /\ buffer' \in Seq({i \in Items : i.kind = "value"})
      /\ hooks' \subseteq {i \in Items : i.kind = "function"}
      /\ ran' \subseteq {i \in Items : i.kind = "function"}
      /\ slow' \in Seq({i \in Items : i.kind = "value"} \cup {STOP})
  BY ItemsSoundStep DEF ItemsSound, Sound, Entries, ValueItems, FunctionItems
<1>2. failures' \in 0 .. MaxFailures /\ stopLost' \in BOOLEAN
  <2>1. failures' = failures \/ (failures < MaxFailures /\ failures' = failures + 1)
    BY DEF Next, Stopper, Worker, Add, Extend, Close, StopAdd, StopGo, StopJob, StopJoined, Tick,
       Loop, Pop, PopNothing, Stopping, GoSelf, Batch, Last, Bye, Push, PushRaises, vars
  <2>2. stopLost' = stopLost \/ stopLost' = (stopLost \/ worker = "stop")
    BY DEF Next, Stopper, Worker, Add, Extend, Close, StopAdd, StopGo, StopJob, StopJoined, Tick,
       Loop, Pop, PopNothing, Stopping, GoSelf, Batch, Last, Bye, Push, PushRaises, vars
  <2>3. failures' \in 0 .. MaxFailures
    <3>1. failures \in 0 .. MaxFailures
      BY <1>a DEF ThreadedTypeOK
    <3> QED
      BY <1>a, <2>1, <3>1
  <2>4. stopLost' \in BOOLEAN
    BY <1>a, <2>2 DEF ThreadedTypeOK
  <2> QED
    BY <2>3, <2>4
<1>3. /\ closed' \in BOOLEAN /\ nextPush' \in BOOLEAN /\ pleaseStop' \in BOOLEAN
      /\ worker' \in WorkerPlaces /\ raising' \in BOOLEAN
  <2> USE <1>a DEF ThreadedTypeOK, WorkerPlaces
  <2>1. CASE Add \/ Extend \/ Close \/ StopAdd \/ Stopper \/ Tick \/ UNCHANGED vars
    BY <2>1 DEF Add, Extend, Close, StopAdd, Stopper, StopGo, StopJob, StopJoined, Tick, vars,
       callerVars
  <2>2. CASE Loop \/ Pop \/ PopNothing
    BY <2>2 DEF Loop, Pop, PopNothing, callerVars
  <2>3. CASE Stopping \/ GoSelf \/ Batch \/ Last \/ Bye
    BY <2>3 DEF Stopping, GoSelf, Batch, Last, Bye, callerVars
  <2> QED
    BY <2>1, <2>2, <2>3 DEF Next, Worker
<1>4. stopper' \in StopperPlaces /\ stopAt' \in 0 .. MaxItems
  <2> USE <1>a DEF ThreadedTypeOK, StopperPlaces
  <2>1. CASE StopAdd \/ Stopper \/ UNCHANGED vars
    BY <2>1 DEF StopAdd, Stopper, StopGo, StopJob, StopJoined, vars, callerVars
  <2>2. CASE Add \/ Extend \/ Close \/ Tick \/ Worker
    BY <2>2 DEF Add, Extend, Close, Tick, Worker, Loop, Pop, PopNothing, Stopping, GoSelf, Batch,
       Last, Bye, callerVars
  <2> QED
    BY <2>1, <2>2 DEF Next
<1> QED
  BY <1>1, <1>2, <1>3, <1>4 DEF ThreadedTypeOK

LEMMA LastPushStep ==
  ASSUME ThreadedIInv, [Next]_vars
  PROVE  LastPush'
<1>a. LastPush
  BY DEF ThreadedIInv
<1>1. CASE Add \/ Extend \/ Close \/ StopAdd \/ Stopper \/ Tick \/ UNCHANGED vars
  BY <1>1, <1>a DEF Add, Extend, Close, StopAdd, Stopper, StopGo, StopJob, StopJoined, Tick, vars,
     LastPush
<1>2. CASE Loop \/ Pop \/ PopNothing \/ Stopping \/ GoSelf \/ Batch
  BY <1>2 DEF Loop, Pop, PopNothing, Stopping, GoSelf, Batch, LastPush
<1>3. CASE Last \/ Bye
  BY <1>3, <1>a DEF Last, Bye, Push, LastPush
<1> QED
  BY <1>1, <1>2, <1>3 DEF Next, Worker

-----------------------------------------------------------------------------
(* Stopping                                                                *)

LEMMA BehindTaken ==
  ASSUME NEW q \in Seq(Entries), NEW e \in Entries \ {STOP}, NEW m, Behind(q, m),
         e.n > m \/ STOP \notin Elements(q)
  PROVE  /\ Append(q, e) \in Seq(Entries)
         /\ Behind(Append(q, e), m)
         /\ STOP \in Elements(Append(q, e)) <=> STOP \in Elements(q)
         /\ ItemsIn(Append(q, e)) = ItemsIn(q) \cup {e}
<1>1. /\ Append(q, e) \in Seq(Entries)
      /\ Elements(Append(q, e)) = Elements(q) \cup {e}
  BY AppendedList
<1>2. Behind(Append(q, e), m)
  BY BehindAppended
<1> QED
  BY <1>1, <1>2 DEF ItemsIn

LEMMA BehindStop ==
  ASSUME NEW q \in Seq(Entries), NEW m, Behind(q, m)
  PROVE  Behind(Append(q, STOP), m) /\ ItemsIn(Append(q, STOP)) = ItemsIn(q)
<1>1. PICK e \in Entries : e = STOP
  BY DEF Entries
<1>2. /\ Append(q, e) \in Seq(Entries)
      /\ Elements(Append(q, e)) = Elements(q) \cup {e}
      /\ InOrder(q) /\ Before(Elements(q), {e}) => InOrder(Append(q, e))
  BY AppendedList
<1>3. Behind(Append(q, e), m)
  BY <1>1, BehindAppended
<1> QED
  BY <1>1, <1>2, <1>3 DEF ItemsIn

\* nothing is put into a closed queue, and what is put behind a THREAD_STOP was taken after it
LEMMA OrderlyStopStep ==
  ASSUME ThreadedIInv, [Next]_vars
  PROVE  OrderlyStop'
<1>r. raising' = raising
  BY DEF Next, Stopper, Worker, Add, Extend, Close, StopAdd, StopGo, StopJob, StopJoined, Tick,
     Loop, Pop, PopNothing, Stopping, GoSelf, Batch, Last, Bye, callerVars, vars
<1> SUFFICES ASSUME ~ raising
             PROVE  /\ stopper' \notin {"go", "job"}
                    /\ (Stopped \/ STOP \in Elements(queue))' => closed' \/ stopper' # "idle"
                    /\ closed' \/ stopper' = "idle" \/ stopAt' <= taken'
                    /\ Behind(queue', stopAt')
                    /\ Stopped' => \A i \in ItemsIn(queue') : i.n > stopAt'
  BY <1>r DEF OrderlyStop
<1>a. /\ stopper \notin {"go", "job"}
      /\ (Stopped \/ STOP \in Elements(queue)) => closed \/ stopper # "idle"
      /\ closed \/ stopper = "idle" \/ stopAt <= taken
      /\ Behind(queue, stopAt)
      /\ Stopped => \A i \in ItemsIn(queue) : i.n > stopAt
  BY DEF ThreadedIInv, OrderlyStop
<1>t. /\ queue \in Seq(Entries) /\ taken \in Int /\ stopAt \in Int /\ ThreadedTypeOK
      /\ closed \in BOOLEAN /\ pleaseStop \in BOOLEAN
  BY TypesOfState DEF ThreadedIInv
<1>e. \A kind \in {"value", "function"}, n \in 1 .. MaxItems :
        [kind |-> kind, n |-> n] \in Entries \ {STOP}
  BY ItemFacts DEF Entries, Items
<1>1. CASE Add
  <2>1. PICK kind \in {"value", "function"} :
          queue' = Append(queue, [kind |-> kind, n |-> taken + 1])
    BY <1>1 DEF Add
  <2>2. /\ ~ closed /\ closed' = closed /\ stopper' = stopper /\ stopAt' = stopAt
        /\ taken' = taken + 1 /\ (Stopped' <=> Stopped)
    BY <1>1 DEF Add, Stopped, callerVars
  <2> DEFINE e == [kind |-> kind, n |-> taken + 1]
  <2>3. e \in Entries \ {STOP} /\ e.n = taken + 1
    <3>1. taken + 1 \in 1 .. MaxItems
      BY <1>1, <1>t, ThreadedAssumption DEF Add, ThreadedTypeOK
    <3> QED
      BY <1>e, <3>1
  <2>4. queue' = Append(queue, e)
    BY <2>1
  <2> HIDE DEF e
  <2>5. e.n > stopAt \/ (STOP \notin Elements(queue) /\ ~ Stopped)
    BY <1>a, <1>t, <2>2, <2>3
  <2>6. /\ Behind(queue', stopAt)
        /\ STOP \in Elements(queue') <=> STOP \in Elements(queue)
        /\ ItemsIn(queue') = ItemsIn(queue) \cup {e}
    BY <1>a, <1>t, <2>3, <2>4, <2>5, BehindTaken
  <2>7. stopper = "idle" \/ stopAt <= taken + 1
    BY <1>a, <1>t, <2>2
  <2> QED
    BY <1>a, <2>2, <2>5, <2>6, <2>7
<1>2. CASE Extend
  <2> DEFINE one == [kind |-> "value", n |-> taken + 1]
             two == [kind |-> "value", n |-> taken + 2]
  <2>1. /\ ~ closed /\ closed' = closed /\ stopper' = stopper /\ stopAt' = stopAt
        /\ taken' = taken + 2 /\ (Stopped' <=> Stopped)
        /\ queue' = queue \o <<one, two>>
    BY <1>2 DEF Extend, Stopped, callerVars
  <2>2. taken + 1 \in 1 .. MaxItems /\ taken + 2 \in 1 .. MaxItems
    BY <1>2, <1>t, ThreadedAssumption DEF Extend, ThreadedTypeOK
  <2>3. one \in Entries \ {STOP} /\ two \in Entries \ {STOP}
        /\ one.n = taken + 1 /\ two.n = taken + 2
    BY <1>e, <2>2
  <2> HIDE DEF one, two
  <2>4. queue' = Append(Append(queue, one), two)
    BY <1>t, <2>1, <2>3, ExtendTwice
  <2>5. \/ one.n > stopAt /\ two.n > stopAt
        \/ STOP \notin Elements(queue) /\ ~ Stopped
    BY <1>a, <1>t, <2>1, <2>3
  <2>6. PICK q : q = Append(queue, one)
    OBVIOUS
  <2>7. /\ q \in Seq(Entries) /\ Behind(q, stopAt)
        /\ STOP \in Elements(q) <=> STOP \in Elements(queue)
        /\ ItemsIn(q) = ItemsIn(queue) \cup {one}
    BY <1>a, <1>t, <2>3, <2>5, <2>6, BehindTaken
  <2>8. /\ Behind(queue', stopAt)
        /\ STOP \in Elements(queue') <=> STOP \in Elements(queue)
        /\ ItemsIn(queue') = ItemsIn(queue) \cup {one, two}
    <3>1. queue' = Append(q, two)
      BY <2>4, <2>6
    <3> QED
      BY <2>3, <2>5, <2>7, <3>1, BehindTaken
  <2>9. stopper = "idle" \/ stopAt <= taken + 2
    BY <1>a, <1>t, <2>1
  <2> QED
    BY <1>a, <2>1, <2>5, <2>8, <2>9
<1>3. CASE Close \/ StopGo \/ StopJob \/ StopJoined \/ Tick \/ UNCHANGED vars
  <2>1. /\ queue' = queue /\ stopAt' = stopAt /\ taken' = taken /\ (Stopped' <=> Stopped)
        /\ stopper' = "idle" <=> stopper = "idle"
        /\ stopper' \notin {"go", "job"}
    BY <1>3, <1>a DEF Close, StopGo, StopJob, StopJoined, Tick, vars, callerVars, Stopped
  <2>2. closed' = closed \/ closed' = TRUE
    BY <1>3 DEF Close, StopGo, StopJob, StopJoined, Tick, vars
  <2>3. CASE closed' = TRUE
    BY <1>a, <2>1, <2>3
  <2>4. CASE closed' = closed
    BY <1>a, <2>1, <2>4
  <2> QED
    BY <2>2, <2>3, <2>4
<1>4. CASE StopAdd
  <2>1. /\ stopper = "idle" /\ stopper' = "join" /\ closed' = closed /\ taken' = taken
        /\ Stopped' <=> Stopped
    BY <1>4 DEF StopAdd, Stopped
  <2>2. CASE closed
    <3>1. queue' = queue /\ stopAt' = stopAt
      BY <1>4, <2>2 DEF StopAdd, PutStop
    <3> QED
      BY <1>a, <2>1, <2>2, <3>1
  <2>3. CASE ~ closed
    <3>1. queue' = Append(queue, STOP) /\ stopAt' = taken
      BY <1>4, <2>3 DEF StopAdd, PutStop
    <3>2. ~ Stopped /\ STOP \notin Elements(queue)
      BY <1>a, <2>1, <2>3
    <3>3. Behind(queue', taken)
      BY <1>t, <3>1, <3>2, BehindNothing, BehindStop
    <3> QED
      BY <1>t, <2>1, <3>1, <3>2, <3>3
  <2> QED
    BY <2>2, <2>3
<1>5. CASE Pop
  <2>1. /\ queue # <<>> /\ queue' = Tail(queue) /\ closed' = closed /\ stopper' = stopper
        /\ stopAt' = stopAt /\ taken' = taken /\ pleaseStop' = pleaseStop
        /\ worker' = IF Head(queue) = STOP THEN "stop" ELSE "batch"
    BY <1>5 DEF Pop, callerVars
  <2>2. /\ Behind(queue', stopAt)
        /\ Head(queue) = STOP => \A i \in ItemsIn(queue') : i.n > stopAt
        /\ Elements(queue) = {Head(queue)} \cup Elements(queue')
    BY <1>a, <1>t, <2>1, TailOfList
  <2>3. ItemsIn(queue') \subseteq ItemsIn(queue)
    BY <2>2 DEF ItemsIn
  <2>4. Stopped' => Stopped \/ Head(queue) = STOP
    BY <2>1 DEF Stopped
  <2> QED
    BY <1>a, <2>1, <2>2, <2>3, <2>4
<1>6. CASE PopNothing
  <2>1. /\ queue' = queue /\ queue = <<>> /\ closed' = closed /\ stopper' = stopper
        /\ stopAt' = stopAt /\ taken' = taken /\ pleaseStop' = pleaseStop
        /\ worker' = "batch" \/ closed
    BY <1>6 DEF PopNothing, callerVars
  <2>2. Elements(queue) = {} /\ ItemsIn(queue) = {}
    BY <2>1, EmptyList DEF ItemsIn
  <2>3. Stopped' => Stopped \/ closed
    BY <2>1 DEF Stopped
  <2> QED
    BY <1>a, <2>1, <2>2, <2>3
<1>7. CASE Loop \/ Stopping \/ Batch \/ Last \/ Bye
  <2>1. /\ queue' = queue /\ closed' = closed /\ stopper' = stopper
        /\ stopAt' = stopAt /\ taken' = taken /\ (Stopped' => Stopped)
    BY <1>7 DEF Loop, Stopping, Batch, Last, Bye, Stopped, callerVars
  <2> QED
    BY <1>a, <2>1
<1>8. CASE GoSelf
  <2>1. /\ closed' = closed /\ stopper' = stopper /\ stopAt' = stopAt /\ taken' = taken
        /\ Stopped
        /\ queue' = queue \/ queue' = Append(queue, STOP)
    BY <1>8 DEF GoSelf, PutStopOrGiveUp, PutStop, Stopped, callerVars
  <2>2. Behind(queue', stopAt) /\ ItemsIn(queue') = ItemsIn(queue)
    BY <1>a, <1>t, <2>1, BehindStop
  <2> QED
    BY <1>a, <2>1, <2>2
<1> QED
  BY <1>1, <1>2, <1>3, <1>4, <1>5, <1>6, <1>7, <1>8 DEF Next, Stopper, Worker

-----------------------------------------------------------------------------
(* The theorems                                                            *)

THEOREM ThreadedInvariant == Spec => []ThreadedIInv
<1>1. Init => ThreadedIInv
  <2> SUFFICES ASSUME Init PROVE ThreadedIInv
    OBVIOUS
  <2>1. ItemsSound
    BY SoundStart DEF Init, ItemsSound
  <2>2. ThreadedTypeOK
    <3>1. /\ MaxItems \in 0 .. MaxItems /\ 0 \in 0 .. MaxItems /\ 0 \in 0 .. MaxFailures
      BY ThreadedAssumption
    <3> QED
      BY <2>1, <3>1 DEF Init, ThreadedTypeOK, WorkerPlaces, StopperPlaces, ItemsSound, Sound,
         Entries, ValueItems, FunctionItems
  <2>3. OrderlyStop /\ LastPush
    BY EmptyList DEF Init, OrderlyStop, LastPush, Stopped
  <2> QED
    BY <2>1, <2>2, <2>3 DEF ThreadedIInv
<1>2. ThreadedIInv /\ [Next]_vars => ThreadedIInv'
  <2> SUFFICES ASSUME ThreadedIInv, [Next]_vars PROVE ThreadedIInv'
    OBVIOUS
  <2> QED
    BY TypeStep, ItemsSoundStep, OrderlyStopStep, LastPushStep DEF ThreadedIInv
<1> QED
  BY <1>1, <1>2, PTL DEF Spec

\* No item is dropped, doubled or overtaken, by failing pushes neither, and a function runs
\* after everything that was added before it is in the slow queue (queues.py:455-483, 497-522).
THEOREM ThreadedSafe == Spec => []ThreadedInv
<1>1. ASSUME ThreadedIInv PROVE ThreadedInv
  <2>1. Sound(queue, buffer, slow, hooks, ran, taken)
    BY <1>1 DEF ThreadedIInv, ItemsSound
  <2>2. /\ queue \in Seq(Entries) /\ buffer \in Seq(Entries) /\ slow \in Seq(Entries)
    BY <2>1, ListsOfMore DEF Sound, Entries, ValueItems
  <2>3. /\ slow \o buffer \in Seq(Entries)
        /\ Elements(slow \o buffer) = Elements(slow) \cup Elements(buffer)
        /\ InOrder(slow \o buffer)
    <3>1. InOrder(slow) /\ InOrder(buffer) /\ Before(Elements(slow), Elements(buffer))
      BY <2>1 DEF Sound, Before
    <3> QED
      BY <2>2, <3>1, JoinedLists
  <2>4. /\ Elements(slow \o buffer \o queue) = Elements(slow) \cup Elements(buffer) \cup Elements(queue)
        /\ InOrder(slow \o buffer \o queue)
    <3>1. InOrder(queue) /\ Before(Elements(slow) \cup Elements(buffer), Elements(queue))
      BY <2>1 DEF Sound, Before
    <3> QED
      <4>1. \A q \in Seq(Entries) :
              /\ Elements(q \o queue) = Elements(q) \cup Elements(queue)
              /\ InOrder(q) /\ InOrder(queue) /\ Before(Elements(q), Elements(queue))
                   => InOrder(q \o queue)
        BY <2>2, JoinedLists
      <4> QED
        BY <2>3, <3>1, <4>1
  <2>5. {i.n : i \in ItemsIn(slow \o buffer \o queue) \cup hooks \cup ran} = 1 .. taken
    <3>1. ItemsIn(slow \o buffer \o queue) \cup hooks \cup ran
            = ItemsIn(queue) \cup ItemsIn(buffer) \cup ItemsIn(slow) \cup hooks \cup ran
      BY <2>4 DEF ItemsIn
    <3> QED
      BY <2>1, <3>1 DEF Sound
  <2>6. FunctionsFollow
    <3>1. \A f \in ran : f # STOP
      BY <2>1, ItemFacts DEF Sound
    <3> QED
      BY <2>1, <3>1 DEF Sound, Before, FunctionsFollow, ItemsIn
  <2> QED
    BY <1>1, <2>4, <2>5, <2>6 DEF ThreadedInv, NothingDropped, ThreadedIInv
<1> QED
  BY <1>1, ThreadedInvariant, PTL

\* When the slow queue is told to stop, nothing is left in the buffer, and what is left in the
\* queue was added after stop(), unless __exit__ passes an exception (queues.py:476-479, 519-522).
THEOREM ThreadedStopDelivers == Spec => []StopDelivers
<1>1. ThreadedIInv => StopDelivers
  BY DEF ThreadedIInv, LastPush, OrderlyStop, Stopped, StopDelivers
<1> QED
  BY <1>1, ThreadedInvariant, PTL
=============================================================================

----------------------------- MODULE RelayProofs -----------------------------
(***************************************************************************)
(* Theorems about RelayCache, for any paths, workers, rate and period: a   *)
(* path is fetched once, the rate is kept, and answers agree.              *)
(***************************************************************************)
EXTENDS RelayCache, FiniteSetTheorems, SequenceTheorems, WellFoundedInduction, TLAPS

-----------------------------------------------------------------------------
(* The inductive invariant                                                 *)

\* the thread has a path in its hands at some of its places only
HandsFull ==
  /\ limiter.at = "add" <=> limiter.hand # Absent
  /\ \A w \in Workers :
       worker[w].at \in {"send", "store", "publish"} <=> worker[w].hand # Absent

CrashesAreFaults == crashes <= faults

InHands(p) == {w \in Workers : worker[w].hand = p}

FewHands == \A p \in Paths : IsFiniteSet(InHands(p))

\* a signal that is gone belongs to an entry of the cache
ReadyIsKnown ==
  \A p \in Paths : cache[p] = Absent => p \notin ready

\* what the limiter remembers and what it may still pass on are Max together
Popped == IF limiter.at = "add" THEN 1 ELSE 0

Budget ==
  /\ limiter.at \in {"pop", "add"} =>
       limiter.left >= 1 /\ Len(recent) + limiter.left = Max + Popped
  /\ limiter.at = "top" => limiter.left = 0
  /\ Len(recent) >= Popped

\* the latest times come last
InOrder(ages) == \A j, k \in 1 .. Len(ages) : j <= k => ages[j] >= ages[k]

\* the index of the pop() in recent that came after the add() number j in passed
NextPop(j) == Len(recent) - Popped - Len(passed) + j + 1

\* the limiter takes a task only after it has passed on the one before
OneByOne ==
  /\ InOrder(recent) /\ InOrder(passed)
  /\ \A j \in 1 .. Len(passed) : passed[j] < Period
  /\ \A j \in 1 .. (Len(passed) - 1 + Popped) :
       NextPop(j) \in 1 .. Len(recent) /\ recent[NextPop(j)] <= passed[j]

\* the path is on its way to the server
InTransit(p) ==
  \/ Count(p, todo) > 0 \/ Count(p, requests) > 0
  \/ limiter.hand = p
  \/ \E w \in Workers : worker[w].hand = p /\ worker[w].at # "publish"

\* what is fetched is not in the database yet
NotStoredYet == \A p \in Paths : InTransit(p) => db[p] = Absent

StoredBefore ==
  \A w \in Workers :
    /\ worker[w].at = "store" => worker[w].hand \in Cacheable
    /\ worker[w].at = "publish" /\ worker[w].hand \in Cacheable => db[worker[w].hand] = crashes

\* what was answered, and what the cache has, is what the database has
AnswersStored ==
  \A p \in Cacheable :
    /\ \A a \in answers[p] : a.response = db[p]
    /\ \A a \in answers[p] : a.coding = "bytes" \/ p \in NonAscii
    /\ db[p] = Absent => answers[p] = {}
    /\ cache[p] \in Responses => db[p] = cache[p]

RelayIInv ==
  /\ RelayTypeOK
  /\ HandsFull
  /\ CrashesAreFaults
  /\ FewHands
  /\ FetchedOnce
  /\ ReadyIsKnown
  /\ OrphansHaveReason
  /\ Budget
  /\ OneByOne
  /\ NotStoredYet
  /\ StoredBefore
  /\ AnswersStored

-----------------------------------------------------------------------------
(* How often a path is in a queue                                          *)

At(p, s) == {k \in 1 .. Len(s) : s[k] = p}

LEMMA CountIsNat ==
  ASSUME NEW S, NEW s \in Seq(S), NEW p
  PROVE  /\ IsFiniteSet(At(p, s)) /\ Count(p, s) = Cardinality(At(p, s))
         /\ Count(p, s) \in Nat
         /\ Count(p, s) = 0 <=> At(p, s) = {}
<1>1. IsFiniteSet(1 .. Len(s)) /\ At(p, s) \subseteq 1 .. Len(s)
  BY FS_Interval DEF At
<1>2. IsFiniteSet(At(p, s))
  BY <1>1, FS_Subset
<1> QED
  BY <1>2, FS_CardinalityType, FS_EmptySet DEF Count, At

LEMMA CountEmpty ==
  ASSUME NEW p
  PROVE  Count(p, <<>>) = 0
<1>1. {k \in 1 .. Len(<<>>) : <<>>[k] = p} = {}
  OBVIOUS
<1> QED
  BY <1>1, FS_EmptySet DEF Count

LEMMA CountAppend ==
  ASSUME NEW S, NEW s \in Seq(S), NEW e \in S, NEW p
  PROVE  Count(p, Append(s, e)) = Count(p, s) + (IF e = p THEN 1 ELSE 0)
<1> DEFINE r == Append(s, e)
<1>1. /\ r \in Seq(S) /\ Len(r) = Len(s) + 1 /\ Len(s) \in Nat /\ r[Len(s) + 1] = e
      /\ \A k \in 1 .. Len(s) : r[k] = s[k]
  OBVIOUS
<1> HIDE DEF r
<1>2. /\ IsFiniteSet(At(p, s)) /\ Count(p, s) = Cardinality(At(p, s))
      /\ Cardinality(At(p, s)) \in Nat
      /\ Count(p, r) = Cardinality(At(p, r))
  BY <1>1, CountIsNat
<1>3. CASE e = p
  <2>1. At(p, r) = At(p, s) \cup {Len(s) + 1} /\ Len(s) + 1 \notin At(p, s)
    BY <1>1, <1>3 DEF At
  <2>2. Cardinality(At(p, r)) = Cardinality(At(p, s)) + 1
    BY <1>2, <2>1, FS_AddElement
  <2> QED
    BY <1>2, <1>3, <2>2 DEF r
<1>4. CASE e # p
  <2>1. At(p, r) = At(p, s)
    BY <1>1, <1>4 DEF At
  <2>2. Count(p, r) = Count(p, s) + 0
    BY <1>2, <2>1
  <2> QED
    BY <1>4, <2>2 DEF r
<1> QED
  BY <1>3, <1>4

LEMMA CountTail ==
  ASSUME NEW S, NEW s \in Seq(S), s # <<>>, NEW p
  PROVE  Count(p, s) = Count(p, Tail(s)) + (IF Head(s) = p THEN 1 ELSE 0)
<1> DEFINE r == Tail(s)
           T == {k \in 2 .. Len(s) : s[k] = p}
<1>1. /\ r \in Seq(S) /\ Len(r) = Len(s) - 1 /\ Len(s) \in Nat \ {0} /\ Head(s) = s[1]
      /\ \A k \in 1 .. Len(r) : r[k] = s[k + 1]
  OBVIOUS
<1> HIDE DEF r
<1>2. IsFiniteSet(T) /\ Cardinality(T) = Count(p, r)
  <2> DEFINE f == [k \in At(p, r) |-> k + 1]
  <2>1. f \in Bijection(At(p, r), T)
    <3>1. \A k \in At(p, r) : k \in Nat /\ k + 1 \in T
      BY <1>1 DEF At
    <3>2. \A j \in T : j - 1 \in At(p, r) /\ (j - 1) + 1 = j
      BY <1>1 DEF At
    <3>3. f \in [At(p, r) -> T]
      BY <3>1
    <3>4. \A j, k \in At(p, r) : f[j] = f[k] => j = k
      BY <3>1
    <3>5. \A j \in T : \E k \in At(p, r) : f[k] = j
      BY <3>2
    <3> HIDE DEF f, T
    <3> QED
      <4>1. f \in Injection(At(p, r), T)
        BY <3>3, <3>4 DEF Injection, IsInjective
      <4>2. f \in Surjection(At(p, r), T)
        BY <3>3, <3>5 DEF Surjection
      <4> QED
        BY <4>1, <4>2 DEF Bijection
  <2>2. ExistsBijection(At(p, r), T)
    BY <2>1 DEF ExistsBijection
  <2> QED
    BY <1>1, <2>2, CountIsNat, FS_Bijection
<1>3. Count(p, s) = Cardinality(At(p, s)) /\ Count(p, r) \in Nat
  BY <1>1, CountIsNat
<1>4. CASE Head(s) = p
  <2>1. At(p, s) = T \cup {1} /\ 1 \notin T
    BY <1>1, <1>4 DEF At
  <2> HIDE DEF T
  <2>2. Cardinality(At(p, s)) = Cardinality(T) + 1
    BY <1>2, <2>1, FS_AddElement
  <2> QED
    BY <1>2, <1>3, <1>4, <2>2 DEF r
<1>5. CASE Head(s) # p
  <2>1. At(p, s) = T
    BY <1>1, <1>5 DEF At
  <2> HIDE DEF T
  <2>2. Count(p, s) = Count(p, r) + 0
    BY <1>2, <1>3, <2>1
  <2> QED
    BY <1>5, <2>2 DEF r
<1> QED
  BY <1>4, <1>5

LEMMA OneOrNone ==
  ASSUME NEW S, NEW p
  PROVE  Cardinality({x \in S : x = p}) = IF p \in S THEN 1 ELSE 0
<1>1. CASE p \in S
  <2>1. {x \in S : x = p} = {p}
    BY <1>1
  <2> QED
    BY <1>1, <2>1, FS_Singleton
<1>2. CASE p \notin S
  <2>1. {x \in S : x = p} = {}
    BY <1>2
  <2> QED
    BY <1>2, <2>1, FS_EmptySet
<1> QED
  BY <1>1, <1>2

LEMMA HandOrNone ==
  ASSUME NEW l, NEW p
  PROVE  Cardinality({x \in {l} : x.hand = p}) = IF l.hand = p THEN 1 ELSE 0
<1>1. CASE l.hand = p
  <2>1. {x \in {l} : x.hand = p} = {l}
    BY <1>1
  <2> QED
    BY <1>1, <2>1, FS_Singleton
<1>2. CASE l.hand # p
  <2>1. {x \in {l} : x.hand = p} = {}
    BY <1>2
  <2> QED
    BY <1>2, <2>1, FS_EmptySet
<1> QED
  BY <1>1, <1>2

-----------------------------------------------------------------------------
(* Who is to fetch a path                                                  *)

LEMMA HoldersSum ==
  ASSUME NEW p
  PROVE  Holders(p) =
           Count(p, todo) + Count(p, requests)
           + (IF p \in lookup THEN 1 ELSE 0) + (IF limiter.hand = p THEN 1 ELSE 0)
           + Cardinality(InHands(p))
BY OneOrNone, HandOrNone DEF Holders, InHands

LEMMA HoldersSumNext ==
  ASSUME NEW p
  PROVE  Holders(p)' =
           Count(p, todo') + Count(p, requests')
           + (IF p \in lookup' THEN 1 ELSE 0) + (IF limiter'.hand = p THEN 1 ELSE 0)
           + Cardinality(InHands(p)')
<1>1. Cardinality({x \in lookup' : x = p}) = IF p \in lookup' THEN 1 ELSE 0
  BY OneOrNone
<1>2. Cardinality({x \in {limiter'} : x.hand = p}) = IF limiter'.hand = p THEN 1 ELSE 0
  BY HandOrNone
<1> QED
  BY <1>1, <1>2 DEF Holders, InHands, Count

LEMMA SumIsNat ==
  ASSUME RelayTypeOK, FewHands, NEW p \in Paths
  PROVE  /\ Count(p, todo) \in Nat /\ Count(p, requests) \in Nat
         /\ Cardinality(InHands(p)) \in Nat
         /\ Holders(p) \in Nat
<1>1. Count(p, todo) \in Nat /\ Count(p, requests) \in Nat
  BY CountIsNat DEF RelayTypeOK
<1>2. Cardinality(InHands(p)) \in Nat
  BY FS_CardinalityType DEF FewHands
<1> QED
  BY <1>1, <1>2, HoldersSum

\* a path in the hands of a worker is nowhere else
LEMMA OnlyHolder ==
  ASSUME RelayTypeOK, FewHands, FetchedOnce, NEW w \in Workers, worker[w].hand \in Paths
  PROVE  LET p == worker[w].hand IN
         /\ Holders(p) = 1 /\ Count(p, todo) = 0 /\ Count(p, requests) = 0
         /\ p \notin lookup /\ limiter.hand # p /\ InHands(p) = {w}
         /\ cache[p] = Reserved /\ p \notin ready
<1> DEFINE p == worker[w].hand
<1>1. w \in InHands(p) /\ IsFiniteSet(InHands(p))
  BY DEF InHands, FewHands
<1>2. Cardinality(InHands(p)) # 0
  BY <1>1, FS_EmptySet
<1> HIDE DEF p
<1>3. p \in Paths /\ Holders(p) <= 1
  BY DEF FetchedOnce, p
<1>4. /\ Count(p, todo) \in Nat /\ Count(p, requests) \in Nat
      /\ Cardinality(InHands(p)) \in Nat
  BY <1>3, SumIsNat
<1>5. /\ Holders(p) = 1 /\ Count(p, todo) = 0 /\ Count(p, requests) = 0
      /\ p \notin lookup /\ limiter.hand # p /\ Cardinality(InHands(p)) = 1
  BY <1>2, <1>3, <1>4, HoldersSum
<1>6. InHands(p) = {w}
  BY <1>1, <1>5, FS_Singleton
<1>7. cache[p] = Reserved /\ p \notin ready
  BY <1>3, <1>5 DEF FetchedOnce
<1> QED
  BY <1>5, <1>6, <1>7 DEF p

\* and so is one that is looked up
LEMMA OnlyInLookup ==
  ASSUME RelayTypeOK, FewHands, FetchedOnce, NEW p \in Paths, p \in lookup
  PROVE  /\ Holders(p) = 1 /\ Count(p, todo) = 0 /\ Count(p, requests) = 0
         /\ limiter.hand # p /\ Cardinality(InHands(p)) = 0 /\ InHands(p) = {}
         /\ cache[p] = Reserved /\ p \notin ready
<1>1. /\ Count(p, todo) \in Nat /\ Count(p, requests) \in Nat
      /\ Cardinality(InHands(p)) \in Nat /\ Holders(p) <= 1
  BY SumIsNat DEF FetchedOnce
<1>2. /\ Holders(p) = 1 /\ Count(p, todo) = 0 /\ Count(p, requests) = 0
      /\ limiter.hand # p /\ Cardinality(InHands(p)) = 0
  BY <1>1, HoldersSum
<1>3. InHands(p) = {}
  BY <1>2, FS_EmptySet DEF FewHands
<1> QED
  BY <1>2, <1>3 DEF FetchedOnce

\* a step that moves no path, or moves one from one place to the next
LEMMA HandsKept ==
  ASSUME \A u \in Workers : worker'[u].hand = worker[u].hand, NEW p
  PROVE  InHands(p)' = InHands(p)
BY DEF InHands

LEMMA HandTaken ==
  ASSUME FewHands, NEW w \in Workers, NEW q \in Paths,
         worker[w].hand = Absent, worker'[w].hand = q,
         \A u \in Workers \ {w} : worker'[u] = worker[u]
  PROVE  /\ FewHands'
         /\ \A p \in Paths : Cardinality(InHands(p))' =
              Cardinality(InHands(p)) + (IF p = q THEN 1 ELSE 0)
<1> USE NamesAssumption
<1>1. ASSUME NEW p \in Paths, p # q PROVE InHands(p)' = InHands(p)
  BY <1>1 DEF InHands
<1>2. InHands(q)' = InHands(q) \cup {w} /\ w \notin InHands(q)
  BY DEF InHands
<1>3. IsFiniteSet(InHands(q)) /\ Cardinality(InHands(q)) \in Nat
  BY FS_CardinalityType DEF FewHands
<1>4. /\ IsFiniteSet(InHands(q)')
      /\ Cardinality(InHands(q)') = Cardinality(InHands(q)) + 1
  BY <1>2, <1>3, FS_AddElement
<1>5. \A p \in Paths : Cardinality(InHands(p)) \in Nat
  BY FS_CardinalityType DEF FewHands
<1> QED
  BY <1>1, <1>4, <1>5 DEF FewHands

LEMMA HandEmptied ==
  ASSUME RelayTypeOK, FewHands, FetchedOnce, NEW w \in Workers, NEW q \in Paths,
         worker[w].hand = q,
         worker'[w].hand = Absent,
         \A u \in Workers \ {w} : worker'[u] = worker[u]
  PROVE  /\ FewHands'
         /\ Cardinality(InHands(q))' = 0
         /\ \A p \in Paths \ {q} : InHands(p)' = InHands(p)
<1>1. ASSUME NEW p \in Paths, p # q PROVE InHands(p)' = InHands(p)
  BY <1>1, NamesAssumption DEF InHands
<1>2. \A u \in Workers : worker[u].hand = q => u = w
  <2>1. InHands(q) = {w}
    BY OnlyHolder
  <2> QED
    BY <2>1 DEF InHands
<1>3. InHands(q)' = {}
  BY <1>2, NamesAssumption DEF InHands
<1>4. IsFiniteSet({}) /\ Cardinality({}) = 0
  BY FS_EmptySet
<1>5. FewHands'
  BY <1>1, <1>3, <1>4 DEF FewHands
<1> QED
  BY <1>1, <1>3, <1>4, <1>5

LEMMA InTransitNext ==
  ASSUME NEW p
  PROVE  InTransit(p)' <=>
           \/ Count(p, todo') > 0 \/ Count(p, requests') > 0
           \/ limiter'.hand = p
           \/ \E w \in Workers : worker'[w].hand = p /\ worker'[w].at # "publish"
BY DEF InTransit, Count

-----------------------------------------------------------------------------
(* The times that the limiter remembers                                    *)

Ages == Seq(0 .. Period)

\* the old ones come first
LEMMA OldComeFirst ==
  ASSUME NEW s \in Ages, InOrder(s)
  PROVE  \E c \in 0 .. Len(s) : {k \in 1 .. Len(s) : s[k] >= Period} = 1 .. c
<1> USE RelayAssumption
<1> DEFINE T == {k \in 1 .. Len(s) + 1 : k = Len(s) + 1 \/ s[k] < Period}
<1>1. Len(s) \in Nat /\ \A k \in 1 .. Len(s) : s[k] \in 0 .. Period
  BY DEF Ages
<1>2. T \in SUBSET Nat /\ T # {}
  <2>1. T \subseteq Nat
    BY <1>1
  <2>2. Len(s) + 1 \in 1 .. Len(s) + 1
    BY <1>1
  <2>3. Len(s) + 1 \in T
    BY <2>2
  <2> QED
    BY <2>1, <2>3
<1>3. \E m \in T : \A k \in T : ~ (<<k, m>> \in OpToRel(<, Nat))
  <2> HIDE DEF T
  <2> QED
    BY <1>2, NatLessThanWellFounded, WFMin
<1>4. PICK m \in T : \A k \in T : m <= k
  <2>1. PICK m \in T : \A k \in T : ~ (<<k, m>> \in OpToRel(<, Nat))
    BY <1>3
  <2>2. \A k \in T : m \in Nat /\ k \in Nat /\ ~ (k < m)
    BY <1>2, <2>1 DEF OpToRel
  <2>3. \A k \in T : m <= k
    <3> HIDE DEF T
    <3> QED
      BY <2>2
  <2> QED
    BY <2>3
<1>5. m - 1 \in 0 .. Len(s)
  BY <1>1
<1>6. ASSUME NEW k \in 1 .. Len(s) PROVE s[k] >= Period <=> k <= m - 1
  <2>1. CASE k < m
    <3>1. k \notin T
      BY <1>1, <1>4, <2>1
    <3> QED
      BY <1>1, <2>1, <3>1
  <2>2. CASE k >= m
    <3>1. m \in 1 .. Len(s) /\ s[m] < Period
      BY <1>1, <2>2
    <3>2. s[m] >= s[k]
      BY <2>2, <3>1 DEF InOrder
    <3> QED
      BY <1>1, <2>2, <3>1, <3>2
  <2> QED
    BY <1>1, <2>1, <2>2
<1>7. {k \in 1 .. Len(s) : s[k] >= Period} = 1 .. (m - 1)
  BY <1>1, <1>5, <1>6
<1> QED
  BY <1>5, <1>7

LEMMA FreshProperties ==
  ASSUME NEW s \in Ages, InOrder(s)
  PROVE  \E c \in 0 .. Len(s) :
           /\ Fresh(s) \in Ages /\ Len(Fresh(s)) = Len(s) - c
           /\ \A k \in 1 .. Len(s) - c : Fresh(s)[k] = s[k + c]
           /\ \A k \in 1 .. Len(s) : k > c <=> s[k] < Period
<1> USE RelayAssumption
<1>1. Len(s) \in Nat /\ DOMAIN s = 1 .. Len(s) /\ \A k \in 1 .. Len(s) : s[k] \in 0 .. Period
  BY DEF Ages
<1>2. PICK c \in 0 .. Len(s) : {k \in 1 .. Len(s) : s[k] >= Period} = 1 .. c
  BY OldComeFirst
<1>3. Cardinality(1 .. c) = c
  BY <1>1, <1>2, FS_Interval
<1>4. Fresh(s) = SubSeq(s, c + 1, Len(s))
  BY <1>1, <1>2, <1>3 DEF Fresh
<1>5. /\ SubSeq(s, c + 1, Len(s)) \in Ages
      /\ Len(SubSeq(s, c + 1, Len(s))) = Len(s) - c
      /\ \A k \in 1 .. Len(s) - c : SubSeq(s, c + 1, Len(s))[k] = s[k + c]
  <2> DEFINE S == 0 .. Period
             m == c + 1
             n == Len(s)
             r == SubSeq(s, m, n)
  <2>1. s \in Seq(S) /\ m \in 1 .. n + 1 /\ n \in Nat /\ n \in m - 1 .. Len(s)
    BY <1>1, <1>2 DEF Ages
  <2> HIDE DEF S, m, n
  <2>2. /\ r \in Seq(S) /\ Len(r) = n - m + 1
        /\ \A k \in 1 .. n - m + 1 : r[k] = s[m + k - 1]
    BY <2>1, SubSeqProperties, Z3
  <2> HIDE DEF r
  <2>3. n - m + 1 = Len(s) - c /\ \A k \in 1 .. Len(s) - c : m + k - 1 = k + c
    BY <1>1, <1>2 DEF m, n
  <2>4. Len(r) = Len(s) - c /\ \A k \in 1 .. Len(s) - c : r[k] = s[k + c]
    BY <2>2, <2>3
  <2> QED
    BY <2>2, <2>4 DEF r, S, m, n, Ages
<1>6. \A k \in 1 .. Len(s) : k > c <=> s[k] < Period
  <2>1. \A k \in 1 .. Len(s) : s[k] >= Period <=> k \in 1 .. c
    BY <1>2
  <2> QED
    BY <1>1, <1>2, <2>1
<1> QED
  BY <1>4, <1>5, <1>6

LEMMA OlderProperties ==
  ASSUME NEW s \in Ages
  PROVE  /\ Older(s) \in Ages /\ Len(Older(s)) = Len(s)
         /\ \A k \in 1 .. Len(s) :
              Older(s)[k] = IF s[k] < Period THEN s[k] + 1 ELSE Period
         /\ InOrder(s) => InOrder(Older(s))
<1> USE RelayAssumption
<1>1. Len(s) \in Nat /\ DOMAIN s = 1 .. Len(s) /\ \A k \in 1 .. Len(s) : s[k] \in 0 .. Period
  BY DEF Ages
<1>2. /\ Older(s) \in Ages /\ Len(Older(s)) = Len(s)
      /\ \A k \in 1 .. Len(s) :
           Older(s)[k] = IF s[k] < Period THEN s[k] + 1 ELSE Period
  BY <1>1 DEF Older, Ages
<1> HIDE DEF Ages
<1>3. InOrder(s) => InOrder(Older(s))
  BY <1>1, <1>2 DEF InOrder
<1> QED
  BY <1>2, <1>3

LEMMA LaterProperties ==
  ASSUME NEW s \in Ages, InOrder(s)
  PROVE  /\ Append(s, 0) \in Ages /\ Len(Append(s, 0)) = Len(s) + 1
         /\ \A k \in 1 .. Len(s) : Append(s, 0)[k] = s[k]
         /\ Append(s, 0)[Len(s) + 1] = 0
         /\ InOrder(Append(s, 0))
<1> USE RelayAssumption
<1> DEFINE r == Append(s, 0)
<1>1. /\ Len(s) \in Nat /\ \A k \in 1 .. Len(s) : s[k] \in 0 .. Period
      /\ r \in Ages /\ Len(r) = Len(s) + 1 /\ r[Len(s) + 1] = 0
      /\ \A k \in 1 .. Len(s) : r[k] = s[k]
  BY DEF Ages
<1> HIDE DEF r
<1>2. InOrder(r)
  BY <1>1 DEF InOrder
<1> QED
  BY <1>1, <1>2 DEF r

\* dropping the old times keeps the order
LEMMA FreshInOrder ==
  ASSUME NEW s \in Ages, InOrder(s)
  PROVE  InOrder(Fresh(s))
<1>1. PICK c \in 0 .. Len(s) :
        /\ Len(Fresh(s)) = Len(s) - c
        /\ \A k \in 1 .. Len(s) - c : Fresh(s)[k] = s[k + c]
  BY FreshProperties
<1>2. Len(s) \in Nat
  BY DEF Ages
<1> QED
  BY <1>1, <1>2 DEF InOrder

-----------------------------------------------------------------------------
(* What a step leaves alone                                                *)

LEMMA HoldersKept ==
  ASSUME UNCHANGED <<todo, requests, lookup, limiter, worker>>, NEW p
  PROVE  Holders(p)' = Holders(p)
BY DEF Holders, Count

\* each part of the invariant is about some of the variables only
LEMMA Frame ==
  ASSUME RelayIInv
  PROVE  /\ UNCHANGED <<limiter, worker>> => HandsFull'
         /\ UNCHANGED <<crashes, faults>> => CrashesAreFaults'
         /\ UNCHANGED worker => FewHands'
         /\ UNCHANGED <<cache, ready, todo, requests, lookup, limiter, worker>> => FetchedOnce'
         /\ UNCHANGED <<cache, ready>> => ReadyIsKnown'
         /\ UNCHANGED <<cache, ready, todo, requests, lookup, limiter, worker, broken>>
              => OrphansHaveReason'
         /\ UNCHANGED <<limiter, recent>> => Budget'
         /\ UNCHANGED <<recent, passed, limiter>> => OneByOne'
         /\ UNCHANGED <<db, todo, requests, limiter, worker>> => NotStoredYet'
         /\ UNCHANGED <<worker, db, crashes>> => StoredBefore'
         /\ UNCHANGED <<answers, db, cache>> => AnswersStored'
<1>1. ASSUME UNCHANGED <<limiter, worker>> PROVE HandsFull'
  BY <1>1 DEF RelayIInv, HandsFull
<1>2. ASSUME UNCHANGED <<crashes, faults>> PROVE CrashesAreFaults'
  BY <1>2 DEF RelayIInv, CrashesAreFaults
<1>3. ASSUME UNCHANGED worker PROVE FewHands'
  BY <1>3 DEF RelayIInv, FewHands, InHands
<1>4. ASSUME UNCHANGED <<cache, ready, todo, requests, lookup, limiter, worker>> PROVE FetchedOnce'
  BY <1>4, HoldersKept DEF RelayIInv, FetchedOnce
<1>5. ASSUME UNCHANGED <<cache, ready>> PROVE ReadyIsKnown'
  BY <1>5 DEF RelayIInv, ReadyIsKnown
<1>6. ASSUME UNCHANGED <<cache, ready, todo, requests, lookup, limiter, worker, broken>>
      PROVE  OrphansHaveReason'
  BY <1>6, HoldersKept DEF RelayIInv, OrphansHaveReason, Orphan
<1>7. ASSUME UNCHANGED <<limiter, recent>> PROVE Budget'
  BY <1>7 DEF RelayIInv, Budget, Popped
<1>8. ASSUME UNCHANGED <<recent, passed, limiter>> PROVE OneByOne'
  BY <1>8 DEF RelayIInv, OneByOne, NextPop, Popped, InOrder
<1>9. ASSUME UNCHANGED <<db, todo, requests, limiter, worker>> PROVE NotStoredYet'
  BY <1>9 DEF RelayIInv, NotStoredYet, InTransit, Count
<1>10. ASSUME UNCHANGED <<worker, db, crashes>> PROVE StoredBefore'
  BY <1>10 DEF RelayIInv, StoredBefore
<1>11. ASSUME UNCHANGED <<answers, db, cache>> PROVE AnswersStored'
  BY <1>11 DEF RelayIInv, AnswersStored
<1> QED
  BY <1>1, <1>2, <1>3, <1>4, <1>5, <1>6, <1>7, <1>8, <1>9, <1>10, <1>11

LEMMA RelayInitInv == Init => RelayIInv
<1> SUFFICES ASSUME Init PROVE RelayIInv
  OBVIOUS
<1> USE RelayAssumption, NamesAssumption
<1>1. \A p \in Paths : Holders(p) = 0 /\ InHands(p) = {}
  <2> SUFFICES ASSUME NEW p \in Paths PROVE Holders(p) = 0 /\ InHands(p) = {}
    OBVIOUS
  <2>1. InHands(p) = {}
    BY DEF Init, InHands, Started, Idle
  <2>2. Count(p, todo) = 0 /\ Count(p, requests) = 0
    BY CountEmpty DEF Init
  <2>3. p \notin lookup /\ limiter.hand # p /\ Cardinality(InHands(p)) = 0
    BY <2>1, FS_EmptySet DEF Init, Started
  <2>4. Count(p, todo) \in Nat /\ Count(p, requests) \in Nat
    BY <2>2
  <2>5. Holders(p) = Count(p, todo) + Count(p, requests) + 0 + 0 + Cardinality(InHands(p))
    BY <2>3, HoldersSum
  <2> QED
    BY <2>1, <2>2, <2>3, <2>4, <2>5
<1>2. RelayTypeOK
  <2>1. <<>> \in Seq(Paths) /\ <<>> \in Seq(0 .. Period) /\ Len(<<>>) = 0
    OBVIOUS
  <2>2. limiter \in LimiterRecords /\ worker \in [Workers -> WorkerRecords]
    BY DEF Init, Started, Idle, LimiterRecords, WorkerRecords
  <2> QED
    BY <2>1, <2>2 DEF Init, Started, RelayTypeOK, Responses
<1>3. HandsFull /\ CrashesAreFaults /\ FewHands
  <2>1. HandsFull
    BY DEF Init, Started, Idle, HandsFull
  <2>2. CrashesAreFaults
    BY DEF Init, CrashesAreFaults
  <2>3. FewHands
    BY <1>1, FS_EmptySet DEF FewHands
  <2> QED
    BY <2>1, <2>2, <2>3
<1>4. FetchedOnce /\ OrphansHaveReason /\ ReadyIsKnown
  BY <1>1 DEF Init, Started, FetchedOnce, OrphansHaveReason, Orphan, ReadyIsKnown
<1>5. Budget /\ OneByOne
  BY DEF Init, Started, Budget, Popped, OneByOne, InOrder
<1>6. NotStoredYet /\ StoredBefore /\ AnswersStored
  BY DEF Init, Started, Idle, NotStoredYet, StoredBefore, AnswersStored
<1> QED
  BY <1>2, <1>3, <1>4, <1>5, <1>6 DEF RelayIInv


-----------------------------------------------------------------------------
(* The invariant is kept                                                   *)

LEMMA RelayInvStep == RelayIInv /\ [Next]_vars => RelayIInv'
<1> SUFFICES ASSUME RelayIInv, [Next]_vars PROVE RelayIInv'
  OBVIOUS
<1> USE RelayAssumption, NamesAssumption
<1>0. RelayTypeOK /\ HandsFull /\ FewHands /\ FetchedOnce
  BY DEF RelayIInv
<1>c. \A p \in Paths : /\ Count(p, todo) \in Nat /\ Count(p, requests) \in Nat
                       /\ Cardinality(InHands(p)) \in Nat /\ Holders(p) \in Nat
  BY <1>0, SumIsNat
<1>t. /\ Len(recent) \in Nat /\ \A k \in 1 .. Len(recent) : recent[k] \in 0 .. Period
      /\ Len(passed) \in Nat /\ \A k \in 1 .. Len(passed) : passed[k] \in 0 .. Period
  BY <1>0 DEF RelayTypeOK
<1>1. ASSUME NEW p \in Paths, Reserve(p)
      PROVE  RelayIInv'
  <2>u. /\ cache[p] = Absent /\ cache' = [cache EXCEPT ![p] = Reserved]
        /\ lookup' = lookup \cup {p}
        /\ UNCHANGED <<ready, db, todo, requests, waiting, limiter, recent, worker, told,
                      passed, answers, broken, crashes, faults>>
    BY <1>1 DEF Reserve, history, clientVars, limiterVars, Missing
  <2>a. Holders(p) = 0 /\ p \notin lookup /\ p \notin ready
    BY <1>0, <1>c, <2>u, HoldersSum DEF FetchedOnce, RelayIInv, ReadyIsKnown
  <2>h. ASSUME NEW q \in Paths PROVE Holders(q)' = IF q = p THEN 1 ELSE Holders(q)
    <3>1. /\ Count(q, todo') = Count(q, todo)
          /\ Count(q, requests') = Count(q, requests)
          /\ q \in lookup' <=> q \in lookup \/ q = p
          /\ limiter'.hand = q <=> limiter.hand = q
          /\ Cardinality(InHands(q)') = Cardinality(InHands(q))
      BY <2>u, HandsKept
    <3> QED
      BY <1>0, <1>c, <3>1, <2>a, HoldersSum, HoldersSumNext
  <2>1. RelayTypeOK'
    <3>1. cache' \in [Paths -> {Absent, Reserved} \cup Responses]
      BY <1>0, <2>u DEF RelayTypeOK
    <3>2. lookup' \subseteq Paths
      BY <1>0, <2>u DEF RelayTypeOK
    <3> QED
      BY <1>0, <2>u, <3>1, <3>2 DEF RelayTypeOK
  <2>5. FetchedOnce'
    BY <1>0, <2>u, <2>a, <2>h DEF FetchedOnce, RelayTypeOK
  <2>6. ReadyIsKnown'
    BY <1>0, <2>u DEF RelayIInv, ReadyIsKnown, RelayTypeOK
  <2>7. OrphansHaveReason'
    BY <1>0, <2>u, <2>h DEF RelayIInv, OrphansHaveReason, Orphan, RelayTypeOK
  <2>12. AnswersStored'
    BY <1>0, <2>u DEF RelayIInv, AnswersStored, RelayTypeOK, OfBytes, OfText
  <2>f. /\ HandsFull' /\ CrashesAreFaults' /\ FewHands' /\ Budget'
        /\ OneByOne' /\ NotStoredYet' /\ StoredBefore'
    BY <2>u, Frame
  <2> QED
    BY <2>1, <2>5, <2>6, <2>7, <2>12, <2>f DEF RelayIInv
<1>2. ASSUME NEW p \in Paths, Share(p)
      PROVE  RelayIInv'
  <2>u. /\ waiting' = [waiting EXCEPT ![p] = @ + 1]
        /\ UNCHANGED <<cache, ready, db, todo, requests, lookup, limiter, recent, worker,
                      told, passed, answers, broken, crashes, faults>>
    BY <1>2 DEF Share, history, clientVars, limiterVars
  <2>1. RelayTypeOK'
    <3>1. waiting' \in [Paths -> Nat]
      BY <1>0, <2>u DEF RelayTypeOK
    <3> QED
      BY <1>0, <2>u, <3>1 DEF RelayTypeOK
  <2>f. /\ HandsFull' /\ CrashesAreFaults' /\ FewHands' /\ FetchedOnce'
        /\ ReadyIsKnown' /\ OrphansHaveReason' /\ Budget' /\ OneByOne'
        /\ NotStoredYet' /\ StoredBefore' /\ AnswersStored'
    BY <2>u, Frame
  <2> QED
    BY <2>1, <2>f DEF RelayIInv
<1>3. ASSUME NEW p \in Paths, Serve(p)
      PROVE  RelayIInv'
  <2>u. /\ answers' = IF cache[p] \in Responses
                       THEN [answers EXCEPT ![p] = @ \cup {OfBytes(cache[p])}] ELSE answers
        /\ UNCHANGED <<cache, ready, db, todo, requests, lookup, waiting, limiter, recent,
                      worker, told, passed, broken, crashes, faults>>
    BY <1>3 DEF Serve, history, clientVars, limiterVars, Answer
  <2>1. RelayTypeOK'
    <3>1. answers' \in [Paths -> SUBSET Bodies]
      BY <1>0, <2>u DEF RelayTypeOK, Bodies, OfBytes, OfText
    <3> QED
      BY <1>0, <2>u, <3>1 DEF RelayTypeOK
  <2>12. AnswersStored'
    BY <1>0, <2>u DEF RelayIInv, AnswersStored, RelayTypeOK, OfBytes, OfText
  <2>f. /\ HandsFull' /\ CrashesAreFaults' /\ FewHands' /\ FetchedOnce'
        /\ ReadyIsKnown' /\ OrphansHaveReason' /\ Budget' /\ OneByOne'
        /\ NotStoredYet' /\ StoredBefore'
    BY <2>u, Frame
  <2> QED
    BY <2>1, <2>12, <2>f DEF RelayIInv
<1>4. ASSUME NEW p \in Paths, LookupHit(p)
      PROVE  RelayIInv'
  <2>u. /\ db[p] # Absent /\ lookup' = lookup \ {p}
        /\ cache' = [cache EXCEPT ![p] = db[p]] /\ ready' = ready \cup {p}
        /\ answers' = [answers EXCEPT ![p] = @ \cup {OfText(p, db[p])}]
        /\ UNCHANGED <<db, todo, requests, waiting, limiter, recent, worker, told, passed,
                      broken, crashes, faults>>
    BY <1>4 DEF LookupHit, history, clientVars, limiterVars, Go
  <2>a. /\ p \in lookup
        /\ Holders(p) = 1 /\ Count(p, todo) = 0 /\ Count(p, requests) = 0
        /\ limiter.hand # p /\ Cardinality(InHands(p)) = 0 /\ InHands(p) = {}
        /\ cache[p] = Reserved /\ p \notin ready
    BY <1>0, <1>4, OnlyInLookup DEF LookupHit
  <2>h. ASSUME NEW q \in Paths PROVE Holders(q)' = IF q = p THEN 0 ELSE Holders(q)
    <3>1. /\ Count(q, todo') = Count(q, todo)
          /\ Count(q, requests') = Count(q, requests)
          /\ q \in lookup' <=> q \in lookup /\ q # p
          /\ limiter'.hand = q <=> limiter.hand = q
          /\ Cardinality(InHands(q)') = Cardinality(InHands(q))
      BY <2>u, HandsKept
    <3>2. CASE q = p
      <4>1. /\ Holders(p)' = Count(p, todo') + Count(p, requests') + 0 + 0
                             + Cardinality(InHands(p)')
            /\ Count(p, todo') = 0 /\ Count(p, requests') = 0
            /\ Cardinality(InHands(p)') = 0
        BY <2>a, <3>1, <3>2, HoldersSumNext
      <4> QED
        BY <3>2, <4>1
    <3>3. CASE q # p
      BY <1>0, <1>c, <3>1, <3>3, HoldersSum, HoldersSumNext
    <3> QED
      BY <3>2, <3>3
  <2>1. RelayTypeOK'
    <3>1. cache' \in [Paths -> {Absent, Reserved} \cup Responses]
      BY <1>0, <2>u DEF RelayTypeOK
    <3>2. lookup' \subseteq Paths /\ ready' \subseteq Paths
      BY <1>0, <2>u DEF RelayTypeOK
    <3>3. answers' \in [Paths -> SUBSET Bodies]
      BY <1>0, <2>u DEF RelayTypeOK, Bodies, OfBytes, OfText
    <3> QED
      BY <1>0, <2>u, <3>1, <3>2, <3>3 DEF RelayTypeOK
  <2>5. FetchedOnce'
    BY <1>0, <2>u, <2>a, <2>h DEF FetchedOnce, RelayTypeOK
  <2>6. ReadyIsKnown'
    BY <1>0, <2>u DEF RelayIInv, ReadyIsKnown, RelayTypeOK
  <2>7. OrphansHaveReason'
    BY <1>0, <2>u, <2>h DEF RelayIInv, OrphansHaveReason, Orphan, RelayTypeOK
  <2>12. AnswersStored'
    BY <1>0, <2>u DEF RelayIInv, AnswersStored, RelayTypeOK, OfBytes, OfText
  <2>f. /\ HandsFull' /\ CrashesAreFaults' /\ FewHands' /\ Budget'
        /\ OneByOne' /\ NotStoredYet' /\ StoredBefore'
    BY <2>u, Frame
  <2> QED
    BY <2>1, <2>5, <2>6, <2>7, <2>12, <2>f DEF RelayIInv
<1>5. ASSUME NEW p \in Paths, LookupMiss(p)
      PROVE  RelayIInv'
  <2>u. /\ p \in lookup /\ db[p] = Absent /\ lookup' = lookup \ {p}
        /\ todo' = Append(todo, p) /\ waiting' = [waiting EXCEPT ![p] = @ + 1]
        /\ UNCHANGED <<cache, ready, db, requests, limiter, recent, worker, told, passed,
                      answers, broken, crashes, faults>>
    BY <1>5 DEF LookupMiss, history, clientVars, limiterVars
  <2>b. \A q \in Paths : Count(q, todo') = Count(q, todo) + (IF p = q THEN 1 ELSE 0)
    <3>1. todo \in Seq(Paths)
      BY <1>0 DEF RelayTypeOK
    <3> QED
      BY <2>u, <3>1, CountAppend
  <2>h. ASSUME NEW q \in Paths PROVE Holders(q)' = Holders(q)
    <3>1. /\ Count(q, todo') = Count(q, todo) + (IF p = q THEN 1 ELSE 0)
          /\ Count(q, requests') = Count(q, requests)
          /\ q \in lookup' <=> q \in lookup /\ q # p
          /\ limiter'.hand = q <=> limiter.hand = q
          /\ Cardinality(InHands(q)') = Cardinality(InHands(q))
      BY <2>u, <2>b, HandsKept
    <3> QED
      BY <1>0, <1>c, <3>1, <2>u, HoldersSum, HoldersSumNext
  <2>1. RelayTypeOK'
    <3>1. lookup' \subseteq Paths
      BY <1>0, <2>u DEF RelayTypeOK
    <3>2. todo' \in Seq(Paths)
      BY <1>0, <2>u DEF RelayTypeOK
    <3>3. waiting' \in [Paths -> Nat]
      BY <1>0, <2>u DEF RelayTypeOK
    <3> QED
      BY <1>0, <2>u, <3>1, <3>2, <3>3 DEF RelayTypeOK
  <2>5. FetchedOnce'
    BY <1>0, <1>c, <2>u, <2>h DEF FetchedOnce
  <2>7. OrphansHaveReason'
    BY <1>0, <1>c, <2>u, <2>h DEF RelayIInv, OrphansHaveReason, Orphan
  <2>10. NotStoredYet'
    <3>1. ASSUME NEW q \in Paths, InTransit(q)' PROVE db[q] = Absent
      <4>1. CASE q = p
        BY <2>u, <4>1
      <4>2. CASE q # p
        <5>1. InTransit(q)
          BY <1>0, <1>c, <2>u, <2>b, <3>1, <4>2, InTransitNext DEF InTransit
        <5> QED
          BY <5>1 DEF RelayIInv, NotStoredYet
      <4> QED
        BY <4>1, <4>2
    <3> QED
      BY <2>u, <3>1 DEF NotStoredYet
  <2>f. /\ HandsFull' /\ CrashesAreFaults' /\ FewHands' /\ ReadyIsKnown'
        /\ Budget' /\ OneByOne' /\ StoredBefore' /\ AnswersStored'
    BY <2>u, Frame
  <2> QED
    BY <2>1, <2>5, <2>7, <2>10, <2>f DEF RelayIInv
<1>6. ASSUME NEW p \in Paths, LookupFails(p)
      PROVE  RelayIInv'
  <2>u. /\ faults < MaxFaults /\ faults' = faults + 1
        /\ lookup' = lookup \ {p} /\ broken' = broken \cup {p}
        /\ UNCHANGED <<cache, ready, db, todo, requests, waiting, limiter, recent, worker,
                      told, passed, answers, crashes>>
    BY <1>6 DEF LookupFails, history, clientVars, limiterVars
  <2>a. /\ p \in lookup
        /\ Holders(p) = 1 /\ Count(p, todo) = 0 /\ Count(p, requests) = 0
        /\ limiter.hand # p /\ Cardinality(InHands(p)) = 0 /\ InHands(p) = {}
        /\ cache[p] = Reserved /\ p \notin ready
    BY <1>0, <1>6, OnlyInLookup DEF LookupFails
  <2>h. ASSUME NEW q \in Paths PROVE Holders(q)' = IF q = p THEN 0 ELSE Holders(q)
    <3>1. /\ Count(q, todo') = Count(q, todo)
          /\ Count(q, requests') = Count(q, requests)
          /\ q \in lookup' <=> q \in lookup /\ q # p
          /\ limiter'.hand = q <=> limiter.hand = q
          /\ Cardinality(InHands(q)') = Cardinality(InHands(q))
      BY <2>u, HandsKept
    <3>2. CASE q = p
      <4>1. /\ Holders(p)' = Count(p, todo') + Count(p, requests') + 0 + 0
                             + Cardinality(InHands(p)')
            /\ Count(p, todo') = 0 /\ Count(p, requests') = 0
            /\ Cardinality(InHands(p)') = 0
        BY <2>a, <3>1, <3>2, HoldersSumNext
      <4> QED
        BY <3>2, <4>1
    <3>3. CASE q # p
      BY <1>0, <1>c, <3>1, <3>3, HoldersSum, HoldersSumNext
    <3> QED
      BY <3>2, <3>3
  <2>1. RelayTypeOK'
    <3>1. lookup' \subseteq Paths /\ broken' \subseteq Paths
      BY <1>0, <2>u DEF RelayTypeOK
    <3>2. faults' \in 0 .. MaxFaults
      BY <1>0, <2>u DEF RelayTypeOK
    <3> QED
      BY <1>0, <2>u, <3>1, <3>2 DEF RelayTypeOK
  <2>3. CrashesAreFaults'
    BY <1>0, <2>u DEF RelayIInv, CrashesAreFaults, RelayTypeOK
  <2>5. FetchedOnce'
    BY <1>0, <1>c, <2>u, <2>a, <2>h DEF FetchedOnce
  <2>7. OrphansHaveReason'
    BY <1>0, <1>c, <2>u, <2>a, <2>h DEF RelayIInv, OrphansHaveReason, Orphan
  <2>f. /\ HandsFull' /\ FewHands' /\ ReadyIsKnown' /\ Budget'
        /\ OneByOne' /\ NotStoredYet' /\ StoredBefore' /\ AnswersStored'
    BY <2>u, Frame
  <2> QED
    BY <2>1, <2>3, <2>5, <2>7, <2>f DEF RelayIInv
<1>7. ASSUME NEW p \in Paths, Wake(p)
      PROVE  RelayIInv'
  <2>u. /\ waiting[p] > 0 /\ waiting' = [waiting EXCEPT ![p] = @ - 1]
        /\ answers' = IF cache[p] \in Responses
                       THEN [answers EXCEPT ![p] = @ \cup {OfBytes(cache[p])}] ELSE answers
        /\ UNCHANGED <<cache, ready, db, todo, requests, lookup, limiter, recent, worker,
                      told, passed, broken, crashes, faults>>
    BY <1>7 DEF Wake, history, clientVars, limiterVars, Answer
  <2>1. RelayTypeOK'
    <3>1. waiting' \in [Paths -> Nat]
      BY <1>0, <2>u DEF RelayTypeOK
    <3>2. answers' \in [Paths -> SUBSET Bodies]
      BY <1>0, <2>u DEF RelayTypeOK, Bodies, OfBytes, OfText
    <3> QED
      BY <1>0, <2>u, <3>1, <3>2 DEF RelayTypeOK
  <2>12. AnswersStored'
    BY <1>0, <2>u DEF RelayIInv, AnswersStored, RelayTypeOK, OfBytes, OfText
  <2>f. /\ HandsFull' /\ CrashesAreFaults' /\ FewHands' /\ FetchedOnce'
        /\ ReadyIsKnown' /\ OrphansHaveReason' /\ Budget' /\ OneByOne'
        /\ NotStoredYet' /\ StoredBefore'
    BY <2>u, Frame
  <2> QED
    BY <2>1, <2>12, <2>f DEF RelayIInv
<1>8. ASSUME LimiterTop
      PROVE  RelayIInv'
  <2>u. /\ limiter.at = "top" /\ recent' = Fresh(recent)
        /\ \/ limiter' = [limiter EXCEPT !.at = "ended"]
           \/ /\ Len(recent') < Max
              /\ limiter' = [limiter EXCEPT !.at = "pop", !.left = Max - Len(recent')]
        /\ UNCHANGED <<cache, ready, db, todo, requests, lookup, waiting, worker, told,
                      passed, answers, broken, crashes, faults>>
    BY <1>8 DEF LimiterTop, history, clientVars, limiterVars
  <2>a. /\ Len(recent) \in Nat /\ Len(recent) <= Max /\ recent' \in Ages /\ InOrder(recent')
        /\ \E c \in 0 .. Len(recent) :
             /\ Len(recent') = Len(recent) - c
             /\ \A k \in 1 .. Len(recent) - c : recent'[k] = recent[k + c]
             /\ \A k \in 1 .. Len(recent) : k > c <=> recent[k] < Period
    <3>1. recent \in Ages /\ InOrder(recent) /\ Len(recent) \in Nat /\ Len(recent) <= Max
      BY <1>0 DEF RelayIInv, RelayTypeOK, OneByOne, Ages
    <3> QED
      BY <2>u, <3>1, FreshProperties, FreshInOrder
  <2> PICK c \in 0 .. Len(recent) :
             /\ Len(recent') = Len(recent) - c
             /\ \A k \in 1 .. Len(recent) - c : recent'[k] = recent[k + c]
             /\ \A k \in 1 .. Len(recent) : k > c <=> recent[k] < Period
    BY <2>a
  <2>d. /\ limiter'.at \in {"pop", "ended"} /\ limiter'.hand = limiter.hand
        /\ limiter.at = "top" /\ limiter.hand = Absent
    BY <1>0, <2>u DEF RelayTypeOK, LimiterRecords, HandsFull
  <2>e. limiter'.at = "pop" => Len(recent') < Max /\ limiter'.left = Max - Len(recent')
    BY <1>0, <2>u DEF RelayTypeOK, LimiterRecords
  <2>h. ASSUME NEW q \in Paths PROVE Holders(q)' = Holders(q)
    <3>1. /\ Count(q, todo') = Count(q, todo)
          /\ Count(q, requests') = Count(q, requests)
          /\ q \in lookup' <=> q \in lookup
          /\ limiter'.hand = q <=> limiter.hand = q
          /\ Cardinality(InHands(q)') = Cardinality(InHands(q))
      BY <2>u, <2>d, HandsKept
    <3> QED
      BY <1>0, <1>c, <3>1, HoldersSum, HoldersSumNext
  <2>i. \A q \in Paths : InTransit(q)' => InTransit(q)
    BY <2>u, <2>d, InTransitNext DEF InTransit
  <2>1. RelayTypeOK'
    <3>0. limiter \in LimiterRecords /\ Len(recent') \in 0 .. Max
      BY <1>0, <2>a DEF RelayTypeOK
    <3>1. limiter' \in LimiterRecords
      <4>1. CASE limiter' = [limiter EXCEPT !.at = "ended"]
        BY <3>0, <4>1 DEF LimiterRecords
      <4>2. CASE limiter' = [limiter EXCEPT !.at = "pop", !.left = Max - Len(recent')]
        <5>1. Max - Len(recent') \in 0 .. Max
          BY <3>0
        <5> QED
          BY <3>0, <4>2, <5>1 DEF LimiterRecords
      <4> QED
        BY <2>u, <4>1, <4>2
    <3>2. recent' \in Seq(0 .. Period) /\ Len(recent') <= Max
      BY <1>0, <2>a DEF RelayTypeOK, Ages
    <3> QED
      BY <1>0, <2>u, <3>1, <3>2 DEF RelayTypeOK
  <2>2. HandsFull'
    BY <1>0, <2>u, <2>d DEF HandsFull
  <2>5. FetchedOnce'
    BY <1>0, <1>c, <2>u, <2>h DEF FetchedOnce
  <2>7. OrphansHaveReason'
    BY <1>0, <1>c, <2>u, <2>d, <2>h DEF RelayIInv, OrphansHaveReason, Orphan
  <2>8. Budget'
    <3>1. limiter.left = 0
      BY <2>u DEF RelayIInv, Budget
    <3>2. Len(recent') \in Nat
      BY <2>a
    <3> QED
      BY <2>d, <2>e, <3>1, <3>2 DEF Budget, Popped
  <2>9. OneByOne'
    <3>1. InOrder(recent') /\ InOrder(passed)
      BY <2>a DEF RelayIInv, OneByOne
    <3>2. Popped = 0 /\ Popped' = 0
      BY <2>u, <2>d DEF Popped
    <3>3. ASSUME NEW j \in 1 .. Len(passed) - 1
          PROVE  /\ NextPop(j)' \in 1 .. Len(recent')
                 /\ recent'[NextPop(j)'] <= passed[j]
      <4> DEFINE n == NextPop(j)
      <4>1. n = Len(recent) - Len(passed) + j + 1 /\ NextPop(j)' = n - c
        <5>1. /\ Len(recent) \in Nat /\ Len(passed) \in Nat /\ passed' = passed
              /\ Len(recent') = Len(recent) - c /\ c \in Nat
          BY <1>t, <2>u
        <5> QED
          BY <3>2, <5>1 DEF NextPop
      <4>2. /\ n \in 1 .. Len(recent) /\ recent[n] <= passed[j] /\ passed[j] < Period
            /\ recent[n] \in 0 .. Period /\ passed[j] \in 0 .. Period
        BY <1>t, <3>2, <3>3 DEF RelayIInv, OneByOne
      <4>3. recent[n] < Period
        BY <4>2
      <4> HIDE DEF n
      <4>4. n > c /\ recent'[n - c] = recent[n]
        BY <2>a, <4>2, <4>3
      <4> QED
        BY <2>a, <4>1, <4>2, <4>4
    <3>4. \A j \in 1 .. Len(passed) : passed[j] < Period
      BY DEF RelayIInv, OneByOne
    <3> QED
      BY <2>u, <3>1, <3>2, <3>3, <3>4 DEF OneByOne
  <2>10. NotStoredYet'
    BY <1>0, <2>u, <2>i DEF RelayIInv, NotStoredYet
  <2>f. /\ CrashesAreFaults' /\ FewHands' /\ ReadyIsKnown' /\ StoredBefore'
        /\ AnswersStored'
    BY <2>u, Frame
  <2> QED
    BY <2>1, <2>2, <2>5, <2>7, <2>8, <2>9, <2>10, <2>f DEF RelayIInv
<1>9. ASSUME LimiterPop
      PROVE  RelayIInv'
  <2>u. /\ limiter.at = "pop" /\ todo # <<>> /\ todo' = Tail(todo) /\ recent' = Append(recent, 0)
        /\ limiter' = [limiter EXCEPT !.at = "add", !.hand = Head(todo)]
        /\ UNCHANGED <<cache, ready, db, requests, lookup, waiting, worker, told, passed,
                      answers, broken, crashes, faults>>
    BY <1>9 DEF LimiterPop, history, clientVars, limiterVars
  <2>b. /\ Head(todo) \in Paths /\ todo' \in Seq(Paths)
        /\ limiter'.hand = Head(todo) /\ limiter.hand = Absent
        /\ limiter'.at = "add" /\ limiter'.left = limiter.left
    BY <1>0, <2>u DEF RelayTypeOK, HandsFull, LimiterRecords
  <2>c. \A q \in Paths : /\ Count(q, todo') \in Nat
                         /\ Count(q, todo) =
                              Count(q, todo') + (IF Head(todo) = q THEN 1 ELSE 0)
    <3>1. todo \in Seq(Paths)
      BY <1>0 DEF RelayTypeOK
    <3>2. \A q \in Paths : Count(q, todo') \in Nat
      BY <2>b, CountIsNat
    <3> QED
      BY <2>u, <3>1, <3>2, CountTail
  <2>d. /\ recent' \in Ages /\ Len(recent') = Len(recent) + 1 /\ Len(recent) \in Nat
        /\ \A k \in 1 .. Len(recent) : recent'[k] = recent[k]
        /\ recent'[Len(recent) + 1] = 0
        /\ InOrder(recent')
    <3>1. recent \in Ages /\ InOrder(recent) /\ Len(recent) \in Nat
      BY <1>0 DEF RelayIInv, RelayTypeOK, OneByOne, Ages
    <3> QED
      BY <2>u, <3>1, LaterProperties
  <2>h. ASSUME NEW q \in Paths PROVE Holders(q)' = Holders(q)
    <3>1. /\ Count(q, todo') \in Nat
          /\ Count(q, todo) = Count(q, todo') + (IF Head(todo) = q THEN 1 ELSE 0)
          /\ limiter'.hand = q <=> Head(todo) = q
          /\ limiter.hand # q
          /\ Count(q, requests') = Count(q, requests)
          /\ q \in lookup' <=> q \in lookup
          /\ Cardinality(InHands(q)') = Cardinality(InHands(q))
      BY <2>b, <2>c, <2>u, HandsKept
    <3> QED
      BY <1>0, <1>c, <3>1, HoldersSum, HoldersSumNext
  <2>i. \A q \in Paths : InTransit(q)' => InTransit(q)
    <3> SUFFICES ASSUME NEW q \in Paths, InTransit(q)' PROVE InTransit(q)
      OBVIOUS
    <3>1. /\ Count(q, todo') \in Nat
          /\ Count(q, todo) = Count(q, todo') + (IF Head(todo) = q THEN 1 ELSE 0)
      BY <2>c
    <3> QED
      BY <2>b, <2>u, <3>1, InTransitNext DEF InTransit
  <2>1. RelayTypeOK'
    <3>1. limiter' \in LimiterRecords
      BY <1>0, <2>b, <2>u DEF RelayTypeOK, LimiterRecords
    <3>2. recent' \in Seq(0 .. Period) /\ Len(recent') <= Max
      <4>1. Len(recent) + limiter.left = Max /\ limiter.left >= 1 /\ limiter.left \in Nat
        BY <1>0, <2>u DEF RelayIInv, Budget, Popped, RelayTypeOK, LimiterRecords
      <4> QED
        BY <2>d, <4>1 DEF Ages
    <3> QED
      BY <1>0, <2>b, <2>u, <3>1, <3>2 DEF RelayTypeOK
  <2>2. HandsFull'
    BY <1>0, <2>b, <2>u DEF HandsFull
  <2>5. FetchedOnce'
    BY <1>0, <1>c, <2>u, <2>h DEF FetchedOnce
  <2>7. OrphansHaveReason'
    BY <1>0, <1>c, <2>b, <2>u, <2>h DEF RelayIInv, OrphansHaveReason, Orphan
  <2>8. Budget'
    <3>1. Len(recent) + limiter.left = Max /\ limiter.left >= 1 /\ limiter.left \in Nat
      BY <1>0, <2>u DEF RelayIInv, Budget, Popped, RelayTypeOK, LimiterRecords
    <3>2. Popped' = 1
      BY <2>b DEF Popped
    <3>3. Len(recent') = Len(recent) + 1 /\ Len(recent) \in Nat
      BY <2>d
    <3> QED
      <4>1. limiter'.left \in Nat /\ limiter'.left >= 1
        BY <2>b, <3>1
      <4>2. Len(recent') + limiter'.left = Max + 1 /\ Len(recent') >= 1
        <5> DEFINE l == limiter.left
                   n == Len(recent)
        <5>1. /\ l \in Nat /\ n \in Nat /\ n + l = Max /\ Max \in Nat
              /\ limiter'.left = l /\ Len(recent') = n + 1
          BY <2>b, <3>1, <3>3
        <5> HIDE DEF l, n
        <5>2. (n + 1) + l = Max + 1 /\ n + 1 >= 1
          BY <5>1
        <5> QED
          BY <5>1, <5>2
      <4> QED
        BY <2>b, <3>2, <4>1, <4>2 DEF Budget
  <2>9. OneByOne'
    <3>1. InOrder(recent') /\ InOrder(passed)
      BY <2>d DEF RelayIInv, OneByOne
    <3>2. Popped = 0 /\ Popped' = 1
      BY <2>u, <2>b DEF Popped
    <3>3. ASSUME NEW j \in 1 .. Len(passed)
          PROVE  /\ NextPop(j)' \in 1 .. Len(recent')
                 /\ recent'[NextPop(j)'] <= passed[j]
      <4> DEFINE n == NextPop(j)
      <4>1. /\ n = Len(recent) - Len(passed) + j + 1 /\ NextPop(j)' = n
            /\ passed[j] \in 0 .. Period /\ Len(passed) \in Nat
        BY <1>t, <2>d, <2>u, <3>2 DEF NextPop
      <4>2. CASE j = Len(passed)
        <5>1. n = Len(recent) + 1
          BY <2>d, <4>1, <4>2
        <5> HIDE DEF n
        <5> QED
          BY <2>d, <4>1, <5>1
      <4>3. CASE j # Len(passed)
        <5>1. n \in 1 .. Len(recent) /\ recent[n] <= passed[j]
          BY <3>2, <4>1, <4>3 DEF RelayIInv, OneByOne
        <5> HIDE DEF n
        <5> QED
          BY <2>d, <4>1, <5>1
      <4> QED
        BY <4>2, <4>3
    <3>4. Len(passed) \in Nat /\ \A j \in 1 .. Len(passed) : passed[j] < Period
      BY <1>0 DEF RelayIInv, OneByOne, RelayTypeOK
    <3>5. Len(passed) - 1 + Popped' = Len(passed)
      BY <3>2, <3>4
    <3> QED
      BY <2>u, <3>1, <3>3, <3>4, <3>5 DEF OneByOne
  <2>10. NotStoredYet'
    BY <1>0, <2>u, <2>i DEF RelayIInv, NotStoredYet
  <2>f. /\ CrashesAreFaults' /\ FewHands' /\ ReadyIsKnown' /\ StoredBefore'
        /\ AnswersStored'
    BY <2>u, Frame
  <2> QED
    BY <2>1, <2>2, <2>5, <2>7, <2>8, <2>9, <2>10, <2>f DEF RelayIInv
<1>10. ASSUME LimiterAdd
      PROVE  RelayIInv'
  <2>u. /\ limiter.at = "add" /\ Len(requests) < Max
        /\ requests' = Append(requests, limiter.hand) /\ passed' = Append(passed, 0)
        /\ limiter' = [at |-> IF limiter.left = 1 THEN "top" ELSE "pop", left |-> limiter.left - 1,
                       hand |-> Absent]
        /\ UNCHANGED <<cache, ready, db, todo, lookup, waiting, recent, worker, told, answers,
                      broken, crashes, faults>>
    BY <1>10 DEF LimiterAdd, history, clientVars, limiterVars, Room
  <2>a. /\ limiter.hand \in Paths /\ limiter'.hand = Absent
        /\ limiter'.at = (IF limiter.left = 1 THEN "top" ELSE "pop")
        /\ limiter'.left = limiter.left - 1
    BY <1>0, <2>u DEF RelayTypeOK, HandsFull, LimiterRecords
  <2>b. \A q \in Paths :
          Count(q, requests') = Count(q, requests) + (IF limiter.hand = q THEN 1 ELSE 0)
    <3>1. requests \in Seq(Paths)
      BY <1>0 DEF RelayTypeOK
    <3> QED
      BY <2>a, <2>u, <3>1, CountAppend
  <2>c. /\ passed' \in Ages /\ Len(passed') = Len(passed) + 1 /\ Len(passed) \in Nat
        /\ \A k \in 1 .. Len(passed) : passed'[k] = passed[k]
        /\ passed'[Len(passed) + 1] = 0
        /\ InOrder(passed')
    <3>1. passed \in Ages /\ InOrder(passed) /\ Len(passed) \in Nat
      BY <1>0 DEF RelayIInv, RelayTypeOK, OneByOne, Ages
    <3> QED
      BY <2>u, <3>1, LaterProperties
  <2>e. /\ limiter.left \in 1 .. Max /\ Len(recent) \in Nat
        /\ Len(recent) + limiter.left = Max + 1
    BY <1>0, <2>u DEF RelayIInv, Budget, Popped, RelayTypeOK, LimiterRecords
  <2>h. ASSUME NEW q \in Paths PROVE Holders(q)' = Holders(q)
    <3>1. /\ Count(q, todo') = Count(q, todo)
          /\ Count(q, requests') = Count(q, requests) + (IF limiter.hand = q THEN 1 ELSE 0)
          /\ limiter'.hand # q
          /\ q \in lookup' <=> q \in lookup
          /\ Cardinality(InHands(q)') = Cardinality(InHands(q))
      BY <2>a, <2>b, <2>u, HandsKept
    <3> QED
      BY <1>0, <1>c, <3>1, HoldersSum, HoldersSumNext
  <2>i. \A q \in Paths : InTransit(q)' => InTransit(q)
    <3> SUFFICES ASSUME NEW q \in Paths, InTransit(q)' PROVE InTransit(q)
      OBVIOUS
    <3>1. Count(q, requests') = Count(q, requests) + (IF limiter.hand = q THEN 1 ELSE 0)
      BY <2>b
    <3>2. Count(q, requests) \in Nat /\ limiter'.hand # q
      BY <1>c, <2>a, NamesAssumption
    <3>3. CASE limiter.hand = q
      BY <3>3 DEF InTransit
    <3>4. CASE limiter.hand # q
      BY <2>u, <3>1, <3>2, <3>4, InTransitNext DEF InTransit
    <3> QED
      BY <3>3, <3>4
  <2>1. RelayTypeOK'
    <3>1. limiter' \in LimiterRecords
      BY <1>0, <2>e, <2>u DEF RelayTypeOK, LimiterRecords
    <3>2. requests' \in Seq(Paths) /\ Len(requests') <= Max
      BY <1>0, <2>a, <2>u DEF RelayTypeOK
    <3> QED
      BY <1>0, <2>c, <2>u, <3>1, <3>2 DEF RelayTypeOK, Ages
  <2>2. HandsFull'
    BY <1>0, <2>a, <2>u DEF HandsFull
  <2>5. FetchedOnce'
    BY <1>0, <1>c, <2>u, <2>h DEF FetchedOnce
  <2>7. OrphansHaveReason'
    BY <1>0, <1>c, <2>a, <2>u, <2>h DEF RelayIInv, OrphansHaveReason, Orphan
  <2>8. Budget'
    <3>1. Popped' = 0 /\ Len(recent') = Len(recent)
      BY <2>a, <2>u DEF Popped
    <3>2. CASE limiter.left = 1
      BY <2>a, <2>e, <3>1, <3>2 DEF Budget
    <3>3. CASE limiter.left # 1
      BY <2>a, <2>e, <3>1, <3>3 DEF Budget
    <3> QED
      BY <3>2, <3>3
  <2>9. OneByOne'
    <3>1. InOrder(recent) /\ InOrder(passed')
      BY <2>c DEF RelayIInv, OneByOne
    <3>2. Popped = 1 /\ Popped' = 0
      BY <2>u, <2>a DEF Popped
    <3>3. ASSUME NEW j \in 1 .. Len(passed)
          PROVE  /\ NextPop(j)' \in 1 .. Len(recent)
                 /\ recent[NextPop(j)'] <= passed'[j]
      <4>1. NextPop(j)' = NextPop(j) /\ j \in 1 .. (Len(passed) - 1 + Popped)
        BY <2>c, <2>e, <2>u, <3>2 DEF NextPop
      <4> QED
        BY <2>c, <4>1 DEF RelayIInv, OneByOne
    <3>4. \A j \in 1 .. Len(passed') : passed'[j] < Period
      BY <2>c DEF RelayIInv, OneByOne
    <3>5. Len(passed') - 1 + Popped' = Len(passed)
      BY <2>c, <3>2
    <3> QED
      BY <2>u, <3>1, <3>3, <3>4, <3>5 DEF OneByOne
  <2>10. NotStoredYet'
    BY <1>0, <2>u, <2>i DEF RelayIInv, NotStoredYet
  <2>f. /\ CrashesAreFaults' /\ FewHands' /\ ReadyIsKnown' /\ StoredBefore'
        /\ AnswersStored'
    BY <2>u, Frame
  <2> QED
    BY <2>1, <2>2, <2>5, <2>7, <2>8, <2>9, <2>10, <2>f DEF RelayIInv
<1>11. ASSUME LimiterGivesUp
      PROVE  RelayIInv'
  <2>u. /\ limiter.at = "add"
        /\ limiter' = [at |-> "dead", left |-> 0, hand |-> Absent]
        /\ UNCHANGED <<cache, ready, db, todo, requests, lookup, waiting, recent, worker,
                      told, passed, answers, broken, crashes, faults>>
    BY <1>11 DEF LimiterGivesUp, history, clientVars, limiterVars
  <2>a. limiter.hand \in Paths
    BY <1>0, <2>u DEF RelayTypeOK, HandsFull, LimiterRecords
  <2>h. ASSUME NEW q \in Paths PROVE Holders(q)' \in Nat /\ Holders(q)' <= Holders(q)
    <3>1. /\ Count(q, todo') = Count(q, todo)
          /\ Count(q, requests') = Count(q, requests)
          /\ q \in lookup' <=> q \in lookup
          /\ limiter'.hand # q
          /\ Cardinality(InHands(q)') = Cardinality(InHands(q))
      BY <2>u, HandsKept
    <3> QED
      BY <1>0, <1>c, <3>1, HoldersSum, HoldersSumNext
  <2>i. \A q \in Paths : InTransit(q)' => InTransit(q)
    BY <2>u, InTransitNext DEF InTransit
  <2>1. RelayTypeOK'
    <3>1. limiter' \in LimiterRecords
      BY <1>0, <2>u DEF RelayTypeOK, LimiterRecords
    <3> QED
      BY <1>0, <2>u, <3>1 DEF RelayTypeOK
  <2>2. HandsFull'
    BY <1>0, <2>u DEF HandsFull
  <2>5. FetchedOnce'
    BY <1>0, <1>c, <2>a, <2>u, <2>h DEF FetchedOnce
  <2>7. OrphansHaveReason'
    BY <2>u DEF OrphansHaveReason
  <2>8. Budget'
    BY <1>0, <2>u DEF RelayIInv, Budget, Popped, RelayTypeOK
  <2>9. OneByOne'
    <3>1. Popped = 1 /\ Popped' = 0 /\ Len(recent) \in Nat /\ Len(passed) \in Nat
      BY <1>0, <2>u DEF Popped, RelayTypeOK
    <3>2. ASSUME NEW j \in 1 .. Len(passed) - 1
          PROVE  /\ NextPop(j)' \in 1 .. Len(recent)
                 /\ recent[NextPop(j)'] <= passed[j]
      <4> DEFINE n == NextPop(j)
      <4>1. /\ NextPop(j)' = n + 1 /\ n + 1 \in 1 .. Len(recent)
            /\ j \in 1 .. (Len(passed) - 1 + Popped)
        BY <2>u, <3>1 DEF NextPop, RelayIInv, OneByOne
      <4>2. n \in 1 .. Len(recent) /\ recent[n] <= passed[j] /\ InOrder(recent)
        BY <4>1 DEF RelayIInv, OneByOne
      <4>3. recent[n] \in Nat /\ recent[n + 1] \in Nat /\ passed[j] \in Nat
        BY <1>t, <3>2, <4>1, <4>2
      <4> HIDE DEF n
      <4>4. recent[n] >= recent[n + 1]
        BY <4>1, <4>2 DEF InOrder
      <4> QED
        BY <4>1, <4>2, <4>3, <4>4
    <3>3. /\ InOrder(recent) /\ InOrder(passed)
          /\ \A j \in 1 .. Len(passed) : passed[j] < Period
      BY DEF RelayIInv, OneByOne
    <3>4. Len(passed) - 1 + Popped' = Len(passed) - 1
      BY <3>1
    <3> QED
      BY <2>u, <3>2, <3>3, <3>4 DEF OneByOne
  <2>10. NotStoredYet'
    BY <1>0, <2>u, <2>i DEF RelayIInv, NotStoredYet
  <2>f. /\ CrashesAreFaults' /\ FewHands' /\ ReadyIsKnown' /\ StoredBefore'
        /\ AnswersStored'
    BY <2>u, Frame
  <2> QED
    BY <2>1, <2>2, <2>5, <2>7, <2>8, <2>9, <2>10, <2>f DEF RelayIInv
<1>12. ASSUME NEW w \in Workers, Take(w)
      PROVE  RelayIInv'
  <2>u. /\ worker[w].at = "pop" /\ requests # <<>> /\ requests' = Tail(requests)
        /\ worker' = [worker EXCEPT ![w] = [at |-> "send", hand |-> Head(requests)]]
        /\ UNCHANGED <<cache, ready, db, todo, lookup, waiting, limiter, recent, told, passed,
                      answers, broken, crashes, faults>>
    BY <1>12 DEF Take, history, clientVars, limiterVars
  <2>a. /\ Head(requests) \in Paths /\ requests' \in Seq(Paths) /\ Len(requests') <= Max
        /\ worker[w].hand = Absent
    <3>1. requests \in Seq(Paths) /\ Len(requests) <= Max
      BY <1>0 DEF RelayTypeOK
    <3>2. /\ Head(requests) \in Paths /\ requests' \in Seq(Paths)
          /\ Len(requests') <= Max
      BY <2>u, <3>1
    <3>3. worker[w].hand = Absent
      BY <1>0, <2>u DEF HandsFull
    <3> QED
      BY <3>2, <3>3
  <2>c. \A q \in Paths : /\ Count(q, requests') \in Nat
                         /\ Count(q, requests) =
                              Count(q, requests') + (IF Head(requests) = q THEN 1 ELSE 0)
    <3>1. requests \in Seq(Paths)
      BY <1>0 DEF RelayTypeOK
    <3>2. \A q \in Paths : Count(q, requests') \in Nat
      BY <2>a, CountIsNat
    <3> QED
      BY <2>u, <3>1, <3>2, CountTail
  <2>d. /\ worker'[w].at = "send" /\ worker'[w].hand = Head(requests)
        /\ \A u \in Workers \ {w} : worker'[u] = worker[u]
    BY <1>0, <2>u DEF RelayTypeOK
  <2>e. /\ FewHands'
        /\ \A q \in Paths : Cardinality(InHands(q))' =
             Cardinality(InHands(q)) + (IF q = Head(requests) THEN 1 ELSE 0)
    BY <1>0, <2>a, <2>d, HandTaken
  <2>h. ASSUME NEW q \in Paths PROVE Holders(q)' = Holders(q)
    <3>1. /\ Count(q, requests') \in Nat
          /\ Count(q, requests) = Count(q, requests') + (IF Head(requests) = q THEN 1 ELSE 0)
          /\ Cardinality(InHands(q)') = Cardinality(InHands(q)) + (IF q = Head(requests) THEN 1 ELSE 0)
          /\ limiter'.hand = q <=> limiter.hand = q
          /\ Count(q, todo') = Count(q, todo)
          /\ q \in lookup' <=> q \in lookup
      BY <2>c, <2>e, <2>u
    <3> QED
      BY <1>0, <1>c, <3>1, HoldersSum, HoldersSumNext
  <2>i. \A q \in Paths : InTransit(q)' => InTransit(q)
    <3> SUFFICES ASSUME NEW q \in Paths, InTransit(q)' PROVE InTransit(q)
      OBVIOUS
    <3>1. /\ Count(q, requests') \in Nat
          /\ Count(q, requests) = Count(q, requests') + (IF Head(requests) = q THEN 1 ELSE 0)
      BY <2>c
    <3> QED
      BY <2>d, <2>u, <3>1, InTransitNext DEF InTransit
  <2>1. RelayTypeOK'
    <3>1. worker' \in [Workers -> WorkerRecords]
      BY <1>0, <2>a, <2>u DEF RelayTypeOK, WorkerRecords
    <3> QED
      BY <1>0, <2>a, <2>u, <3>1 DEF RelayTypeOK
  <2>2. HandsFull'
    BY <1>0, <2>a, <2>d, <2>u DEF HandsFull
  <2>4. FewHands'
    BY <2>e
  <2>5. FetchedOnce'
    BY <1>0, <1>c, <2>u, <2>h DEF FetchedOnce
  <2>7. OrphansHaveReason'
    BY <1>0, <1>c, <2>d, <2>u, <2>h DEF RelayIInv, OrphansHaveReason, Orphan
  <2>10. NotStoredYet'
    BY <1>0, <2>u, <2>i DEF RelayIInv, NotStoredYet
  <2>11. StoredBefore'
    BY <2>d, <2>u DEF RelayIInv, StoredBefore
  <2>f. /\ CrashesAreFaults' /\ ReadyIsKnown' /\ Budget' /\ OneByOne'
        /\ AnswersStored'
    BY <2>u, Frame
  <2> QED
    BY <2>1, <2>2, <2>4, <2>5, <2>7, <2>10, <2>11, <2>f DEF RelayIInv
<1>13. ASSUME NEW w \in Workers, Leave(w)
      PROVE  RelayIInv'
  <2>u. /\ worker[w].at = "pop" /\ worker' = [worker EXCEPT ![w].at = "ended"]
        /\ requests' = requests \/ (requests # <<>> /\ requests' = Tail(requests))
        /\ UNCHANGED <<cache, ready, db, todo, lookup, waiting, limiter, recent, told, passed,
                      answers, broken, crashes, faults>>
    BY <1>13 DEF Leave, history, clientVars, limiterVars
  <2>a. /\ worker[w].hand = Absent /\ worker'[w].hand = Absent /\ worker'[w].at = "ended"
        /\ \A u \in Workers \ {w} : worker'[u] = worker[u]
    <3>1. worker[w].hand = Absent
      BY <1>0, <2>u DEF HandsFull
    <3> QED
      BY <1>0, <2>u, <3>1 DEF RelayTypeOK, WorkerRecords
  <2>c. /\ requests' \in Seq(Paths) /\ Len(requests') <= Max
        /\ \A q \in Paths :
             Count(q, requests') \in Nat /\ Count(q, requests') <= Count(q, requests)
    <3>0. requests \in Seq(Paths)
      BY <1>0 DEF RelayTypeOK
    <3>1. CASE requests' = requests
      <4>1. Len(requests) <= Max
        BY <1>0 DEF RelayTypeOK
      <4> QED
        BY <1>c, <3>0, <3>1, <4>1
    <3>2. CASE requests # <<>> /\ requests' = Tail(requests)
      <4>1. requests' \in Seq(Paths) /\ Len(requests') <= Max
        BY <1>0, <3>2 DEF RelayTypeOK
      <4>2. \A q \in Paths :
              Count(q, requests) = Count(q, requests') + (IF Head(requests) = q THEN 1 ELSE 0)
        BY <3>0, <3>2, CountTail
      <4>3. ASSUME NEW q \in Paths
            PROVE  Count(q, requests') \in Nat /\ Count(q, requests') <= Count(q, requests)
        <5>1. Count(q, requests') \in Nat
          BY <4>1, CountIsNat
        <5>2. Count(q, requests) = Count(q, requests') + (IF Head(requests) = q THEN 1 ELSE 0)
          BY <4>2
        <5>3. Count(q, requests') <= Count(q, requests)
          BY <5>1, <5>2
        <5> QED
          BY <5>1, <5>3
      <4> QED
        BY <4>1, <4>3
    <3> QED
      BY <2>u, <3>1, <3>2
  <2>d. \A q \in Paths : InHands(q)' = InHands(q)
    BY <2>a, HandsKept
  <2>h. ASSUME NEW q \in Paths PROVE Holders(q)' \in Nat /\ Holders(q)' <= Holders(q)
    <3>1. /\ Count(q, requests') \in Nat /\ Count(q, requests') <= Count(q, requests)
          /\ Cardinality(InHands(q)') = Cardinality(InHands(q))
          /\ limiter'.hand = q <=> limiter.hand = q
          /\ Count(q, todo') = Count(q, todo)
          /\ q \in lookup' <=> q \in lookup
      BY <2>c, <2>d, <2>u
    <3> QED
      BY <1>0, <1>c, <3>1, HoldersSum, HoldersSumNext
  <2>i. \A q \in Paths : InTransit(q)' => InTransit(q)
    <3> SUFFICES ASSUME NEW q \in Paths, InTransit(q)' PROVE InTransit(q)
      OBVIOUS
    <3>1. Count(q, requests') > 0 => Count(q, requests) > 0
      BY <1>0, <1>c, <2>c
    <3> QED
      BY <2>a, <2>u, <3>1, InTransitNext DEF InTransit
  <2>1. RelayTypeOK'
    <3>0. worker \in [Workers -> WorkerRecords]
      BY <1>0 DEF RelayTypeOK
    <3>1. worker' \in [Workers -> WorkerRecords]
      <4>1. worker' = [worker EXCEPT ![w].at = "ended"]
        BY <2>u
      <4> QED
        BY <3>0, <4>1 DEF WorkerRecords
    <3> QED
      BY <1>0, <2>c, <2>u, <3>1 DEF RelayTypeOK
  <2>2. HandsFull'
    BY <1>0, <2>a, <2>u DEF HandsFull
  <2>4. FewHands'
    BY <1>0, <2>d DEF FewHands
  <2>5. FetchedOnce'
    BY <1>0, <1>c, <2>u, <2>h DEF FetchedOnce
  <2>7. OrphansHaveReason'
    BY <2>a DEF OrphansHaveReason
  <2>10. NotStoredYet'
    BY <1>0, <2>u, <2>i DEF RelayIInv, NotStoredYet
  <2>11. StoredBefore'
    BY <2>a, <2>u DEF RelayIInv, StoredBefore
  <2>f. /\ CrashesAreFaults' /\ ReadyIsKnown' /\ Budget' /\ OneByOne'
        /\ AnswersStored'
    BY <2>u, Frame
  <2> QED
    BY <2>1, <2>2, <2>4, <2>5, <2>7, <2>10, <2>11, <2>f DEF RelayIInv
<1>14. ASSUME NEW w \in Workers, Fetch(w)
      PROVE  RelayIInv'
  <2>u. /\ worker[w].at = "send"
        /\ worker' = [worker EXCEPT
             ![w].at = IF worker[w].hand \in Cacheable THEN "store" ELSE "publish"]
        /\ UNCHANGED <<cache, ready, db, todo, requests, lookup, waiting, limiter, recent,
                      told, passed, answers, broken, crashes, faults>>
    BY <1>14 DEF Fetch, history, clientVars, limiterVars
  <2>a. /\ worker[w].hand \in Paths /\ worker'[w].hand = worker[w].hand
        /\ worker'[w].at = (IF worker[w].hand \in Cacheable THEN "store" ELSE "publish")
        /\ \A u \in Workers \ {w} : worker'[u] = worker[u]
    BY <1>0, <2>u DEF RelayTypeOK, HandsFull, WorkerRecords
  <2>d. \A q \in Paths : InHands(q)' = InHands(q)
    BY <2>a, HandsKept
  <2>h. ASSUME NEW q \in Paths PROVE Holders(q)' = Holders(q)
    <3>1. /\ Count(q, todo') = Count(q, todo)
          /\ Count(q, requests') = Count(q, requests)
          /\ q \in lookup' <=> q \in lookup
          /\ limiter'.hand = q <=> limiter.hand = q
          /\ Cardinality(InHands(q)') = Cardinality(InHands(q))
      BY <2>d, <2>u
    <3> QED
      BY <1>0, <1>c, <3>1, HoldersSum, HoldersSumNext
  <2>i. \A q \in Paths : InTransit(q)' => InTransit(q)
    BY <2>a, <2>u, InTransitNext DEF InTransit
  <2>1. RelayTypeOK'
    <3>0. worker \in [Workers -> WorkerRecords]
      BY <1>0 DEF RelayTypeOK
    <3>1. worker' \in [Workers -> WorkerRecords]
      <4>1. \/ worker' = [worker EXCEPT ![w].at = "store"]
            \/ worker' = [worker EXCEPT ![w].at = "publish"]
        BY <2>u
      <4> QED
        BY <3>0, <4>1 DEF WorkerRecords
    <3> QED
      BY <1>0, <2>u, <3>1 DEF RelayTypeOK
  <2>2. HandsFull'
    BY <1>0, <2>a, <2>u DEF HandsFull
  <2>4. FewHands'
    BY <1>0, <2>d DEF FewHands
  <2>5. FetchedOnce'
    BY <1>0, <1>c, <2>u, <2>h DEF FetchedOnce
  <2>7. OrphansHaveReason'
    BY <1>0, <1>c, <2>a, <2>u, <2>h DEF RelayIInv, OrphansHaveReason, Orphan
  <2>10. NotStoredYet'
    BY <1>0, <2>u, <2>i DEF RelayIInv, NotStoredYet
  <2>11. StoredBefore'
    BY <2>a, <2>u DEF RelayIInv, StoredBefore
  <2>f. /\ CrashesAreFaults' /\ ReadyIsKnown' /\ Budget' /\ OneByOne'
        /\ AnswersStored'
    BY <2>u, Frame
  <2> QED
    BY <2>1, <2>2, <2>4, <2>5, <2>7, <2>10, <2>11, <2>f DEF RelayIInv
<1>15. ASSUME NEW w \in Workers, Store(w)
      PROVE  RelayIInv'
  <2>u. /\ worker[w].at = "store" /\ db' = [db EXCEPT ![worker[w].hand] = crashes]
        /\ worker' = [worker EXCEPT ![w].at = "publish"]
        /\ UNCHANGED <<cache, ready, todo, requests, lookup, waiting, limiter, recent, told,
                      passed, answers, broken, crashes, faults>>
    BY <1>15 DEF Store, history, clientVars, limiterVars, Inserted
  <2>a. /\ worker[w].hand \in Paths /\ worker'[w].hand = worker[w].hand
        /\ worker'[w].at = "publish"
        /\ \A u \in Workers \ {w} : worker'[u] = worker[u]
    BY <1>0, <2>u DEF RelayTypeOK, HandsFull, WorkerRecords
  <2>d. \A q \in Paths : InHands(q)' = InHands(q)
    BY <2>a, HandsKept
  <2>o. PICK h \in Paths :
        /\ h = worker[w].hand
        /\ Holders(h) = 1 /\ Count(h, todo) = 0 /\ Count(h, requests) = 0
        /\ h \notin lookup /\ limiter.hand # h /\ InHands(h) = {w}
        /\ cache[h] = Reserved /\ h \notin ready
    BY <1>0, <2>a, OnlyHolder
  <2>b. db'[h] = crashes /\ \A q \in Paths \ {h} : db'[q] = db[q]
    BY <1>0, <2>o, <2>u DEF RelayTypeOK
  <2>h. ASSUME NEW q \in Paths PROVE Holders(q)' = Holders(q)
    <3>1. /\ Count(q, todo') = Count(q, todo)
          /\ Count(q, requests') = Count(q, requests)
          /\ q \in lookup' <=> q \in lookup
          /\ limiter'.hand = q <=> limiter.hand = q
          /\ Cardinality(InHands(q)') = Cardinality(InHands(q))
      BY <2>d, <2>u
    <3> QED
      BY <1>0, <1>c, <3>1, HoldersSum, HoldersSumNext
  <2>i. \A q \in Paths : InTransit(q)' => InTransit(q)
    BY <2>a, <2>u, InTransitNext DEF InTransit
  <2>1. RelayTypeOK'
    <3>0. worker \in [Workers -> WorkerRecords]
      BY <1>0 DEF RelayTypeOK
    <3>1. worker' \in [Workers -> WorkerRecords]
      <4>1. worker' = [worker EXCEPT ![w].at = "publish"]
        BY <2>u
      <4> QED
        BY <3>0, <4>1 DEF WorkerRecords
    <3>2. db' \in [Paths -> {Absent} \cup Responses]
      BY <1>0, <2>u DEF RelayTypeOK, Responses
    <3> QED
      BY <1>0, <2>u, <3>1, <3>2 DEF RelayTypeOK
  <2>2. HandsFull'
    BY <1>0, <2>a, <2>u DEF HandsFull
  <2>4. FewHands'
    BY <1>0, <2>d DEF FewHands
  <2>5. FetchedOnce'
    BY <1>0, <1>c, <2>u, <2>h DEF FetchedOnce
  <2>7. OrphansHaveReason'
    BY <1>0, <1>c, <2>a, <2>u, <2>h DEF RelayIInv, OrphansHaveReason, Orphan
  <2>10. NotStoredYet'
    <3>1. ~ InTransit(h)'
      BY <1>0, <2>a, <2>o, <2>u, InTransitNext DEF InHands
    <3>2. \A q \in Paths \ {h} : db'[q] = db[q]
      BY <2>b
    <3> QED
      BY <2>i, <3>1, <3>2 DEF RelayIInv, NotStoredYet
  <2>11. StoredBefore'
    <3>1. \A u \in Workers \ {w} : worker[u].hand # h
      BY <2>o DEF InHands
    <3>2. \A u \in Workers \ {w} : worker[u].hand \in Cacheable =>
             db'[worker[u].hand] = db[worker[u].hand]
      BY <2>b, <3>1
    <3> QED
      BY <2>a, <2>b, <2>o, <2>u, <3>2 DEF RelayIInv, StoredBefore
  <2>12. AnswersStored'
    <3>1. db[h] = Absent
      BY <2>a, <2>o, <2>u DEF InTransit, RelayIInv, NotStoredYet
    <3>2. ASSUME NEW q \in Cacheable
          PROVE  /\ \A a \in answers[q] : a.response = db'[q]
                 /\ \A a \in answers[q] : a.coding = "bytes" \/ q \in NonAscii
                 /\ db'[q] = Absent => answers[q] = {}
                 /\ cache[q] \in Responses => db'[q] = cache[q]
      <4>1. CASE q = h
        BY <2>o, <3>1, <4>1 DEF RelayIInv, AnswersStored
      <4>2. CASE q # h
        BY <2>b, <4>2 DEF RelayIInv, AnswersStored
      <4> QED
        BY <4>1, <4>2
    <3> QED
      BY <2>u, <3>2 DEF AnswersStored
  <2>f. /\ CrashesAreFaults' /\ ReadyIsKnown' /\ Budget' /\ OneByOne'
    BY <2>u, Frame
  <2> QED
    BY <2>1, <2>2, <2>4, <2>5, <2>7, <2>10, <2>11, <2>12, <2>f DEF RelayIInv
<1>16. ASSUME NEW w \in Workers, Publish(w)
      PROVE  RelayIInv'
  <2>u. /\ worker[w].at = "publish" /\ cache' = [cache EXCEPT ![worker[w].hand] = crashes]
        /\ ready' = ready \cup {worker[w].hand}
        /\ worker' = [worker EXCEPT ![w] =
                         IF w \in told THEN [Idle EXCEPT !.at = "ended"] ELSE Idle]
        /\ UNCHANGED <<db, todo, requests, lookup, waiting, limiter, recent, told, passed,
                      answers, broken, crashes, faults>>
    BY <1>16 DEF Publish, history, clientVars, limiterVars, Go
  <2>v. LET r == IF w \in told THEN [Idle EXCEPT !.at = "ended"] ELSE Idle
        IN  r \in WorkerRecords /\ r.at \in {"pop", "ended"} /\ r.hand = Absent
    BY DEF Idle, WorkerRecords
  <2>a. /\ worker[w].hand \in Paths /\ worker'[w].hand = Absent
        /\ worker'[w].at \in {"pop", "ended", "dead"}
        /\ \A u \in Workers \ {w} : worker'[u] = worker[u]
    BY <1>0, <2>u, <2>v DEF RelayTypeOK, HandsFull, WorkerRecords
  <2>o. PICK h \in Paths :
        /\ h = worker[w].hand
        /\ Holders(h) = 1 /\ Count(h, todo) = 0 /\ Count(h, requests) = 0
        /\ h \notin lookup /\ limiter.hand # h /\ InHands(h) = {w}
        /\ cache[h] = Reserved /\ h \notin ready
    BY <1>0, <2>a, OnlyHolder
  <2>e. /\ FewHands' /\ Cardinality(InHands(h))' = 0
        /\ \A q \in Paths \ {h} : InHands(q)' = InHands(q)
    BY <1>0, <2>a, <2>o, HandEmptied
  <2>h. ASSUME NEW q \in Paths PROVE Holders(q)' = IF q = h THEN 0 ELSE Holders(q)
    <3>1. /\ Count(q, todo') = Count(q, todo)
          /\ Count(q, requests') = Count(q, requests)
          /\ q \in lookup' <=> q \in lookup
          /\ limiter'.hand = q <=> limiter.hand = q
          /\ Cardinality(InHands(q)') = IF q = h THEN 0 ELSE Cardinality(InHands(q))
      BY <2>e, <2>u
    <3> QED
      BY <1>0, <1>c, <3>1, <2>o, HoldersSum, HoldersSumNext
  <2>i. \A q \in Paths : InTransit(q)' => InTransit(q)
    <3> SUFFICES ASSUME NEW q \in Paths, InTransit(q)' PROVE InTransit(q)
      OBVIOUS
    <3>1. q # Absent
      BY NamesAssumption
    <3> QED
      BY <2>a, <2>u, <3>1, InTransitNext DEF InTransit
  <2>b. /\ cache'[h] = crashes /\ crashes \in Responses
        /\ \A q \in Paths \ {h} : cache'[q] = cache[q]
        /\ ready' = ready \cup {h}
    BY <1>0, <2>o, <2>u DEF RelayTypeOK, Responses
  <2>1. RelayTypeOK'
    <3>1. worker' \in [Workers -> WorkerRecords]
      BY <1>0, <2>u, <2>v DEF RelayTypeOK
    <3>2. cache' \in [Paths -> {Absent, Reserved} \cup Responses]
      BY <1>0, <2>u DEF RelayTypeOK, Responses
    <3> QED
      BY <1>0, <2>a, <2>u, <3>1, <3>2 DEF RelayTypeOK
  <2>2. HandsFull'
    BY <1>0, <2>a, <2>u DEF HandsFull
  <2>4. FewHands'
    BY <2>e
  <2>5. FetchedOnce'
    BY <1>0, <1>c, <2>o, <2>b, <2>h, <2>u DEF FetchedOnce
  <2>6. ReadyIsKnown'
    BY <2>o, <2>b, <2>u DEF RelayIInv, ReadyIsKnown
  <2>7. OrphansHaveReason'
    <3>1. ASSUME NEW q \in Paths, Orphan(q)' PROVE Orphan(q)
      BY <2>o, <2>b, <2>h, <2>u, <3>1 DEF Orphan
    <3>2. \A u \in Workers : worker[u].at = "ended" => worker'[u].at = "ended"
      BY <2>a, <2>u
    <3> QED
      BY <2>u, <3>1, <3>2 DEF RelayIInv, OrphansHaveReason
  <2>10. NotStoredYet'
    BY <1>0, <2>u, <2>i DEF RelayIInv, NotStoredYet
  <2>11. StoredBefore'
    BY <2>a, <2>u DEF RelayIInv, StoredBefore
  <2>12. AnswersStored'
    <3>1. h \in Cacheable => db[h] = crashes
      BY <2>o, <2>u DEF RelayIInv, StoredBefore
    <3> QED
      BY <2>b, <2>u, <3>1 DEF RelayIInv, AnswersStored
  <2>f. /\ CrashesAreFaults' /\ Budget' /\ OneByOne'
    BY <2>u, Frame
  <2> QED
    BY <2>1, <2>2, <2>4, <2>5, <2>6, <2>7, <2>10, <2>11, <2>12, <2>f DEF RelayIInv
<1>17. ASSUME NEW w \in Workers, Fail(w)
      PROVE  RelayIInv'
  <2>u. /\ worker[w].at \in {"send", "store"} /\ faults < MaxFaults /\ faults' = faults + 1
        /\ ready' = ready \cup {worker[w].hand}
        /\ worker' = [worker EXCEPT ![w] = [at |-> "dead", hand |-> Absent]]
        /\ UNCHANGED <<cache, db, todo, requests, lookup, waiting, limiter, recent, told,
                      passed, answers, broken, crashes>>
    BY <1>17 DEF Fail, history, clientVars, limiterVars, Go
  <2>a. /\ worker[w].hand \in Paths /\ worker'[w].hand = Absent
        /\ worker'[w].at \in {"pop", "ended", "dead"}
        /\ \A u \in Workers \ {w} : worker'[u] = worker[u]
    BY <1>0, <2>u DEF RelayTypeOK, HandsFull, WorkerRecords
  <2>o. PICK h \in Paths :
        /\ h = worker[w].hand
        /\ Holders(h) = 1 /\ Count(h, todo) = 0 /\ Count(h, requests) = 0
        /\ h \notin lookup /\ limiter.hand # h /\ InHands(h) = {w}
        /\ cache[h] = Reserved /\ h \notin ready
    BY <1>0, <2>a, OnlyHolder
  <2>e. /\ FewHands' /\ Cardinality(InHands(h))' = 0
        /\ \A q \in Paths \ {h} : InHands(q)' = InHands(q)
    BY <1>0, <2>a, <2>o, HandEmptied
  <2>h. ASSUME NEW q \in Paths PROVE Holders(q)' = IF q = h THEN 0 ELSE Holders(q)
    <3>1. /\ Count(q, todo') = Count(q, todo)
          /\ Count(q, requests') = Count(q, requests)
          /\ q \in lookup' <=> q \in lookup
          /\ limiter'.hand = q <=> limiter.hand = q
          /\ Cardinality(InHands(q)') = IF q = h THEN 0 ELSE Cardinality(InHands(q))
      BY <2>e, <2>u
    <3> QED
      BY <1>0, <1>c, <3>1, <2>o, HoldersSum, HoldersSumNext
  <2>i. \A q \in Paths : InTransit(q)' => InTransit(q)
    <3> SUFFICES ASSUME NEW q \in Paths, InTransit(q)' PROVE InTransit(q)
      OBVIOUS
    <3>1. q # Absent
      BY NamesAssumption
    <3> QED
      BY <2>a, <2>u, <3>1, InTransitNext DEF InTransit
  <2>1. RelayTypeOK'
    <3>1. worker' \in [Workers -> WorkerRecords]
      BY <1>0, <2>u DEF RelayTypeOK, WorkerRecords
    <3>2. ready' \subseteq Paths /\ faults' \in 0 .. MaxFaults
      BY <1>0, <2>a, <2>u DEF RelayTypeOK
    <3> QED
      BY <1>0, <2>u, <3>1, <3>2 DEF RelayTypeOK
  <2>2. HandsFull'
    BY <1>0, <2>a, <2>u DEF HandsFull
  <2>3. CrashesAreFaults'
    BY <1>0, <2>u DEF RelayIInv, CrashesAreFaults, RelayTypeOK
  <2>4. FewHands'
    BY <2>e
  <2>5. FetchedOnce'
    BY <1>0, <1>c, <2>o, <2>h, <2>u DEF FetchedOnce
  <2>6. ReadyIsKnown'
    BY <2>o, <2>u DEF RelayIInv, ReadyIsKnown
  <2>7. OrphansHaveReason'
    <3>1. ASSUME NEW q \in Paths, Orphan(q)' PROVE Orphan(q)
      BY <2>o, <2>h, <2>u, <3>1 DEF Orphan
    <3>2. \A u \in Workers : worker[u].at = "ended" => worker'[u].at = "ended"
      BY <2>a, <2>u
    <3> QED
      BY <2>u, <3>1, <3>2 DEF RelayIInv, OrphansHaveReason
  <2>10. NotStoredYet'
    BY <1>0, <2>u, <2>i DEF RelayIInv, NotStoredYet
  <2>11. StoredBefore'
    BY <2>a, <2>u DEF RelayIInv, StoredBefore
  <2>f. /\ Budget' /\ OneByOne' /\ AnswersStored'
    BY <2>u, Frame
  <2> QED
    BY <2>1, <2>2, <2>3, <2>4, <2>5, <2>6, <2>7, <2>10, <2>11, <2>f DEF RelayIInv
<1>18. ASSUME NEW t \in Workers \cup {Limiter}, Tell(t)
      PROVE  RelayIInv'
  <2>u. /\ faults < MaxFaults /\ faults' = faults + 1 /\ told' = told \cup {t}
        /\ UNCHANGED <<cache, ready, db, todo, requests, lookup, waiting, limiter, recent,
                      worker, passed, answers, broken, crashes>>
    BY <1>18 DEF Tell, history, clientVars, limiterVars
  <2>1. RelayTypeOK'
    <3>1. told' \subseteq Workers \cup {Limiter}
      BY <1>0, <2>u DEF RelayTypeOK
    <3>2. faults' \in 0 .. MaxFaults
      BY <1>0, <2>u DEF RelayTypeOK
    <3> QED
      BY <1>0, <2>u, <3>1, <3>2 DEF RelayTypeOK
  <2>3. CrashesAreFaults'
    BY <1>0, <2>u DEF RelayIInv, CrashesAreFaults, RelayTypeOK
  <2>f. /\ HandsFull' /\ FewHands' /\ FetchedOnce' /\ ReadyIsKnown'
        /\ OrphansHaveReason' /\ Budget' /\ OneByOne' /\ NotStoredYet'
        /\ StoredBefore' /\ AnswersStored'
    BY <2>u, Frame
  <2> QED
    BY <2>1, <2>3, <2>f DEF RelayIInv
<1>19. ASSUME Tick
      PROVE  RelayIInv'
  <2>u. /\ recent' = Older(recent) /\ passed' = Fresh(Older(passed))
        /\ UNCHANGED <<cache, ready, db, todo, requests, lookup, waiting, limiter, worker,
                      told, answers, broken, crashes, faults>>
    BY <1>19 DEF Tick, history, clientVars, limiterVars
  <2>a. /\ Len(recent) \in Nat /\ recent' \in Ages /\ Len(recent') = Len(recent)
        /\ \A k \in 1 .. Len(recent) :
             recent'[k] = IF recent[k] < Period THEN recent[k] + 1 ELSE Period
        /\ InOrder(recent')
        /\ Len(passed) \in Nat /\ Older(passed) \in Ages /\ Len(Older(passed)) = Len(passed)
        /\ \A k \in 1 .. Len(passed) :
             Older(passed)[k] = IF passed[k] < Period THEN passed[k] + 1 ELSE Period
        /\ InOrder(Older(passed))
    <3>1. /\ recent \in Ages /\ InOrder(recent) /\ passed \in Ages /\ InOrder(passed)
          /\ Len(recent) \in Nat /\ Len(passed) \in Nat
      BY <1>0 DEF RelayIInv, RelayTypeOK, OneByOne, Ages
    <3>2. /\ recent' \in Ages /\ Len(recent') = Len(recent) /\ InOrder(recent')
          /\ \A k \in 1 .. Len(recent) :
               recent'[k] = IF recent[k] < Period THEN recent[k] + 1 ELSE Period
      BY <2>u, <3>1, OlderProperties
    <3>3. /\ Older(passed) \in Ages /\ Len(Older(passed)) = Len(passed)
          /\ InOrder(Older(passed))
          /\ \A k \in 1 .. Len(passed) :
               Older(passed)[k] = IF passed[k] < Period THEN passed[k] + 1 ELSE Period
      BY <3>1, OlderProperties
    <3> QED
      BY <3>1, <3>2, <3>3
  <2>b. /\ passed' \in Ages /\ InOrder(passed')
        /\ \E c \in 0 .. Len(passed) :
             /\ Len(passed') = Len(passed) - c
             /\ \A k \in 1 .. Len(passed) - c : passed'[k] = Older(passed)[k + c]
             /\ \A k \in 1 .. Len(passed) : k > c <=> Older(passed)[k] < Period
    <3>1. Older(passed) \in Ages /\ InOrder(Older(passed)) /\ passed' = Fresh(Older(passed))
      BY <2>a, <2>u
    <3>2. PICK c \in 0 .. Len(Older(passed)) :
            /\ passed' \in Ages /\ Len(passed') = Len(Older(passed)) - c
            /\ \A k \in 1 .. Len(Older(passed)) - c : passed'[k] = Older(passed)[k + c]
            /\ \A k \in 1 .. Len(Older(passed)) : k > c <=> Older(passed)[k] < Period
      BY <3>1, FreshProperties
    <3>3. InOrder(passed')
      BY <3>1, FreshInOrder
    <3>4. Len(Older(passed)) = Len(passed)
      BY <2>a
    <3> QED
      BY <3>2, <3>3, <3>4
  <2> PICK c \in 0 .. Len(passed) :
         /\ Len(passed') = Len(passed) - c
         /\ \A k \in 1 .. Len(passed) - c : passed'[k] = Older(passed)[k + c]
         /\ \A k \in 1 .. Len(passed) : k > c <=> Older(passed)[k] < Period
    BY <2>b
  <2>c. /\ passed' \in Ages /\ InOrder(passed') /\ c \in 0 .. Len(passed)
        /\ Len(passed') = Len(passed) - c
        /\ \A k \in 1 .. Len(passed) - c : passed'[k] = Older(passed)[k + c]
        /\ \A k \in 1 .. Len(passed) : k > c <=> Older(passed)[k] < Period
    BY <2>b
  <2>1. RelayTypeOK'
    BY <1>0, <2>a, <2>c, <2>u DEF RelayTypeOK, Ages
  <2>8. Budget'
    BY <2>a, <2>u DEF RelayIInv, Budget, Popped
  <2>9. OneByOne'
    <3>0. Popped' = Popped /\ Popped \in {0, 1}
      BY <2>u DEF Popped
    <3>1. ASSUME NEW j \in 1 .. Len(passed') PROVE passed'[j] < Period
      BY <2>a, <2>c
    <3>2. ASSUME NEW j \in 1 .. (Len(passed') - 1 + Popped)
          PROVE  /\ NextPop(j)' \in 1 .. Len(recent')
                 /\ recent'[NextPop(j)'] <= passed'[j]
      <4> DEFINE i == j + c
                 n == NextPop(i)
      <4>1. i \in 1 .. (Len(passed) - 1 + Popped) /\ i \in 1 .. Len(passed)
            /\ j \in 1 .. Len(passed) - c
        BY <2>a, <2>c, <3>0
      <4>2. NextPop(j)' = n
        BY <2>a, <2>c, <3>0 DEF NextPop
      <4> HIDE DEF i
      <4>3. n \in 1 .. Len(recent) /\ recent[n] <= passed[i]
        BY <4>1 DEF RelayIInv, OneByOne
      <4> HIDE DEF n
      <4>4. recent[n] \in 0 .. Period /\ passed[i] \in 0 .. Period
        BY <1>t, <4>1, <4>3
      <4>5. passed'[j] = Older(passed)[i]
        BY <2>c, <4>1 DEF i
      <4>6. recent'[n] = IF recent[n] < Period THEN recent[n] + 1 ELSE Period
        BY <2>a, <4>3
      <4>7. Older(passed)[i] = IF passed[i] < Period THEN passed[i] + 1 ELSE Period
        BY <2>a, <4>1
      <4>8. recent'[n] <= Older(passed)[i]
        BY <4>3, <4>4, <4>6, <4>7
      <4> QED
        BY <2>a, <4>2, <4>3, <4>5, <4>8
    <3> QED
      BY <2>a, <2>c, <3>0, <3>1, <3>2 DEF OneByOne
  <2>f. /\ HandsFull' /\ CrashesAreFaults' /\ FewHands' /\ FetchedOnce'
        /\ ReadyIsKnown' /\ OrphansHaveReason' /\ NotStoredYet' /\ StoredBefore'
        /\ AnswersStored'
    BY <2>u, Frame
  <2> QED
    BY <2>1, <2>8, <2>9, <2>f DEF RelayIInv
<1>20. ASSUME Crash
      PROVE  RelayIInv'
  <2>u. /\ faults < MaxFaults /\ faults' = faults + 1 /\ crashes' = crashes + 1
        /\ cache' = [p \in Paths |-> Absent] /\ waiting' = [p \in Paths |-> 0]
        /\ limiter' = [at |-> "top", left |-> 0, hand |-> Absent]
        /\ worker' = [w \in Workers |-> [at |-> "pop", hand |-> Absent]]
        /\ ready' = {} /\ todo' = <<>> /\ requests' = <<>> /\ lookup' = {} /\ recent' = <<>>
        /\ told' = {} /\ passed' = <<>> /\ broken' = {}
        /\ UNCHANGED <<db, answers>>
    BY <1>20 DEF Crash, history, clientVars, limiterVars, Started, Idle
  <2>a. \A q \in Paths : Count(q, todo') = 0 /\ Count(q, requests') = 0 /\ InHands(q)' = {}
    BY <2>u, CountEmpty DEF InHands
  <2>h. \A q \in Paths : Holders(q)' = 0
    <3>1. \A q \in Paths : /\ q \notin lookup' /\ limiter'.hand # q
                           /\ Cardinality(InHands(q)') = 0
      BY <2>a, <2>u, FS_EmptySet
    <3> QED
      BY <2>a, <3>1, HoldersSumNext
  <2>1. RelayTypeOK'
    <3>1. /\ <<>> \in Seq(Paths) /\ <<>> \in Seq(0 .. Period) /\ Len(<<>>) = 0
      OBVIOUS
    <3>2. limiter' \in LimiterRecords /\ worker' \in [Workers -> WorkerRecords]
      BY <2>u DEF LimiterRecords, WorkerRecords
    <3>3. cache' \in [Paths -> {Absent, Reserved} \cup Responses] /\ waiting' \in [Paths -> Nat]
      BY <2>u
    <3>4. faults' \in 0 .. MaxFaults /\ crashes' \in 0 .. MaxFaults
      BY <1>0, <2>u DEF RelayIInv, RelayTypeOK, CrashesAreFaults
    <3> QED
      BY <1>0, <2>u, <3>1, <3>2, <3>3, <3>4 DEF RelayTypeOK
  <2>2. HandsFull'
    BY <2>u DEF HandsFull
  <2>3. CrashesAreFaults'
    BY <1>0, <2>u DEF RelayIInv, CrashesAreFaults, RelayTypeOK
  <2>4. FewHands'
    BY <2>a, FS_EmptySet DEF FewHands
  <2>5. FetchedOnce'
    BY <2>h DEF FetchedOnce
  <2>6. ReadyIsKnown'
    BY <2>u DEF ReadyIsKnown
  <2>7. OrphansHaveReason'
    BY <2>u DEF OrphansHaveReason, Orphan
  <2>8. Budget'
    BY <2>u DEF Budget, Popped
  <2>9. OneByOne'
    BY <2>u DEF OneByOne, InOrder, Popped
  <2>10. NotStoredYet'
    <3>1. \A q \in Paths : ~ InTransit(q)'
      BY <2>a, <2>u, InTransitNext
    <3> QED
      BY <3>1 DEF NotStoredYet
  <2>11. StoredBefore'
    BY <2>u DEF StoredBefore
  <2>12. AnswersStored'
    <3>1. \A q \in Paths : cache'[q] \notin Responses
      BY <2>u
    <3> QED
      BY <2>u, <3>1 DEF RelayIInv, AnswersStored
  <2> QED
    BY <2>1, <2>2, <2>3, <2>4, <2>5, <2>6, <2>7, <2>8, <2>9, <2>10, <2>11, <2>12 DEF RelayIInv
<1>21. CASE UNCHANGED vars
  <2>1. RelayTypeOK'
    BY <1>0, <1>21 DEF vars, RelayTypeOK
  <2>2. /\ HandsFull' /\ CrashesAreFaults' /\ FewHands' /\ FetchedOnce' /\ ReadyIsKnown'
        /\ OrphansHaveReason' /\ Budget' /\ OneByOne' /\ NotStoredYet' /\ StoredBefore'
        /\ AnswersStored'
    BY <1>21, Frame DEF vars
  <2> QED
    BY <2>1, <2>2 DEF RelayIInv
<1> QED
  BY <1>1, <1>2, <1>3, <1>4, <1>5, <1>6, <1>7, <1>8, <1>9, <1>10, <1>11, <1>12, <1>13, <1>14,
     <1>15, <1>16, <1>17, <1>18, <1>19, <1>20, <1>21 DEF Next, Request, Goes, Limits, Works

-----------------------------------------------------------------------------
(* Theorems                                                                *)

\* The state of the cache is sound, in every run: a path is in the hands of one thread at
\* most, and of none when it is known, and no more than Max + 1 fetches are passed on in a
\* period (cache.py:86-99, 146-149, 191).
THEOREM RelaySafe == Spec => []RelayInv
<1>1. RelayIInv => RelayInv
  <2> SUFFICES ASSUME RelayIInv PROVE RelayInv
    OBVIOUS
  <2> USE RelayAssumption
  <2>1. /\ Len(passed) \in Nat /\ Len(recent) \in Nat /\ Len(recent) <= Max
        /\ Popped \in {0, 1}
    BY DEF RelayIInv, RelayTypeOK, Popped
  <2>2. CASE Len(passed) > 1
    <3>1. 1 \in 1 .. (Len(passed) - 1 + Popped)
      BY <2>1, <2>2
    <3>2. NextPop(1) \in 1 .. Len(recent)
      BY <3>1 DEF RelayIInv, OneByOne
    <3>3. Len(passed) <= Max + 1
      BY <2>1, <3>2 DEF NextPop
    <3> QED
      BY <3>3 DEF RelayIInv, RelayInv, RateLimited
  <2>3. CASE Len(passed) <= 1
    BY <2>1, <2>3 DEF RelayIInv, RelayInv, RateLimited
  <2> QED
    BY <2>1, <2>2, <2>3
<1> QED
  BY <1>1, RelayInitInv, RelayInvStep, PTL DEF Spec

\* A path that is reserved, and in no queue and in nobody's hands, has lost its request to a
\* lookup that failed, to a worker that was told to stop, or to the limiter that gave up
\* (cache.py:149, 170, 200, 224-230).
THEOREM RelayOrphans == Spec => []OrphansHaveReason
<1>1. RelayIInv => OrphansHaveReason
  BY DEF RelayIInv
<1> QED
  BY <1>1, RelayInitInv, RelayInvStep, PTL DEF Spec

\* Requests for a path that is cached are answered alike, also across crashes: all were
\* answered what the database has, and where that is ASCII the same bytes of it
\* (cache.py:167, 174-188, 195, 214-223).
THEOREM RelayAnswersAgree == Spec => []AnswersAgree
<1>1. RelayIInv => AnswersAgree
  BY DEF RelayIInv, AnswersStored, AnswersAgree
<1> QED
  BY <1>1, RelayInitInv, RelayInvStep, PTL DEF Spec
=============================================================================

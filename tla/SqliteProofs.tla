---------------------------- MODULE SqliteProofs ----------------------------
(***************************************************************************)
(* Theorems about Sqlite, for any threads and any bounds: no item is lost, *)
(* a transaction without nested ones is all or nothing, and the threads    *)
(* have the database for themselves, as SerialDb says.                     *)
(***************************************************************************)
EXTENDS Sqlite, FiniteSetTheorems, SequenceTheorems, TLAPS

-----------------------------------------------------------------------------
(* The inductive invariant: the Transaction objects                        *)

\* objects are made in order, and only those that are made are used
MadeInOrder ==
  /\ available \subseteq 1 .. made
  /\ \A t \in Tx : t > made => tx[t] = NewTx
  /\ \A t \in 1 .. made : tx[t].owner \in Clients

\* a parent is older, of the same thread, and in the line of its children
Families ==
  \A t \in 1 .. made :
    /\ t \in tx[t].line /\ tx[t].line \subseteq 1 .. t
    /\ tx[t].parent = NoTx => tx[t].line = {t}
    /\ tx[t].parent # NoTx =>
         /\ tx[t].parent < t
         /\ tx[tx[t].parent].owner = tx[t].owner
         /\ tx[t].line = {t} \cup tx[tx[t].parent].line

\* of two in one line, one is in the line of the other
LinesAreChains ==
  \A t \in 1 .. made : \A p, q \in tx[t].line : p \in tx[q].line \/ q \in tx[p].line

\* who is in the line of another one has a nested transaction
LinesNest == \A s \in 1 .. made : \A t \in tx[s].line \ {s} : Nests(t)

-----------------------------------------------------------------------------
(* The threads                                                             *)

Asking(c) == thread[c].pc \in {"adding", "waiting"}

\* the `with` blocks of a thread are around transactions of its own that nobody has ended
BlocksOf(c) ==
  \A k \in 1 .. Len(thread[c].open) :
    /\ thread[c].open[k] \in available
    /\ tx[thread[c].open[k]].owner = c
    /\ tx[thread[c].open[k]].outcome = "open"
    /\ \A j \in 1 .. (k - 1) : thread[c].open[j] # thread[c].open[k]

Blocks == \A c \in Clients : BlocksOf(c)

\* a thread asks for something in its innermost block, or outside of transactions
CallOf(c) ==
  Asking(c) =>
    /\ thread[c].item.by = c
    /\ thread[c].item.tx # NoTx =>
         /\ thread[c].open # <<>> /\ thread[c].item.tx = Innermost(c)
         /\ thread[c].item.kind = "query" =>
              thread[c].item.n = tx[thread[c].item.tx].issued

Calls == \A c \in Clients : CallOf(c)

Has(s, i) == \E k \in 1 .. Len(s) : s[k] = i

Listed(i) == Has(queue, i) \/ Has(delayedQ, i) \/ Has(delayedT, i)

\* an item in a list is what its thread waits for
ItemsAreAwaited ==
  \A i \in Items : Listed(i) => thread[i.by].pc = "waiting" /\ thread[i.by].item = i

At(c, s) == {k \in 1 .. Len(s) : s[k].by = c}

Count(c, s) == Cardinality(At(c, s))

\* and it is there once
AwaitedOnce ==
  \A c \in Clients :
    Count(c, queue) + Count(c, delayedQ) + Count(c, delayedT)
      = IF thread[c].pc = "waiting" THEN 1 ELSE 0

-----------------------------------------------------------------------------
(* The current transaction                                                 *)

\* nothing is delayed when there is none
NoDelay == stack = <<>> => delayedQ = <<>> /\ delayedT = <<>>

\* s goes from parent to child, and all are of one thread
Chain(s) ==
  /\ \A k \in 1 .. (Len(s) - 1) : tx[s[k + 1]].parent = s[k]
  /\ \A k \in 1 .. Len(s) :
       /\ s[k] \in available
       /\ s[1] \in tx[s[k]].line
       /\ tx[s[k]].owner = tx[s[1]].owner
       /\ \A j \in 1 .. (k - 1) : s[j] < s[k]

\* the first one on the stack is no nested one, or has begun in the place of its parent
Nesting ==
  /\ Chain(stack)
  /\ stack # <<>> => tx[stack[1]].parent = NoTx \/ stack[1] \in headless
  /\ \A s \in headless : s <= made /\ tx[s].parent # NoTx

\* what is run since BEGIN is of the family of the first one
UnitOfFamily ==
  \A x \in unit :
    /\ stack # <<>> /\ x.tx \in 1 .. made
    /\ stack[1] \in tx[x.tx].line \/ x.tx \in tx[stack[1]].line

\* a transaction that is no part of another comes to be durable when it is committed, or
\* when a nested one is that has begun in its place
DurableForAReason ==
  \A x \in durable : x.tx # NoTx => 
    /\ x.tx <= made
    /\ tx[x.tx].parent = NoTx =>
         \/ tx[x.tx].outcome = "committed"
         \/ \E s \in headless : x.tx \in tx[s].line

SqliteIInv ==
  /\ SqliteTypeOK
  /\ MadeInOrder
  /\ Families
  /\ LinesAreChains
  /\ LinesNest
  /\ Blocks
  /\ Calls
  /\ ItemsAreAwaited
  /\ AwaitedOnce
  /\ NoDelay
  /\ Nesting
  /\ UnitOfFamily
  /\ DurableForAReason

-----------------------------------------------------------------------------
(* Lists of items                                                          *)

LEMMA AtIsFinite ==
  ASSUME NEW S, NEW s \in Seq(S), NEW c
  PROVE  IsFiniteSet(At(c, s)) /\ Count(c, s) \in Nat
<1>1. IsFiniteSet(1 .. Len(s)) /\ At(c, s) \in SUBSET (1 .. Len(s))
  BY FS_Interval DEF At
<1> QED
  BY <1>1, FS_Subset, FS_CardinalityType DEF Count

LEMMA EmptyList ==
  /\ \A c : Count(c, <<>>) = 0
  /\ \A i : ~ Has(<<>>, i)
<1>1. \A c : At(c, <<>>) = {}
  BY DEF At
<1> QED
  BY <1>1, FS_EmptySet DEF Count, Has

LEMMA OneItem ==
  ASSUME NEW e, NEW c
  PROVE  Count(c, <<e>>) = (IF e.by = c THEN 1 ELSE 0)
<1>1. CASE e.by = c
  <2>1. At(c, <<e>>) = {1}
    BY <1>1 DEF At
  <2> QED
    BY <1>1, <2>1, FS_Singleton DEF Count
<1>2. CASE e.by # c
  <2>1. At(c, <<e>>) = {}
    BY <1>2 DEF At
  <2> QED
    BY <1>2, <2>1, FS_EmptySet DEF Count
<1> QED
  BY <1>1, <1>2

\* What is in a list made of two, and how often.
LEMMA Concatenation ==
  ASSUME NEW S, NEW s \in Seq(S), NEW r \in Seq(S)
  PROVE  /\ s \o r \in Seq(S) /\ Len(s \o r) = Len(s) + Len(r)
         /\ \A i : Has(s \o r, i) <=> Has(s, i) \/ Has(r, i)
         /\ \A c : Count(c, s \o r) = Count(c, s) + Count(c, r)
<1> DEFINE q == s \o r
<1>1. /\ q \in Seq(S) /\ Len(q) = Len(s) + Len(r) /\ Len(s) \in Nat /\ Len(r) \in Nat
      /\ \A k \in 1 .. Len(s) : q[k] = s[k]
      /\ \A k \in 1 .. Len(r) : q[k + Len(s)] = r[k]
      /\ \A k \in 1 .. Len(q) : k <= Len(s) \/ k - Len(s) \in 1 .. Len(r)
  <2>1. q \in Seq(S) /\ Len(q) = Len(s) + Len(r) /\ Len(s) \in Nat /\ Len(r) \in Nat
        /\ \A k \in 1 .. Len(q) : q[k] = IF k <= Len(s) THEN s[k] ELSE r[k - Len(s)]
    BY ConcatProperties
  <2> HIDE DEF q
  <2>2. \A k \in 1 .. Len(s) : q[k] = s[k]
    BY <2>1
  <2>3. ASSUME NEW k \in 1 .. Len(r) PROVE q[k + Len(s)] = r[k]
    <3>1. k + Len(s) \in 1 .. Len(q) /\ ~ k + Len(s) <= Len(s) /\ (k + Len(s)) - Len(s) = k
      BY <2>1
    <3> QED
      BY <2>1, <3>1
  <2>4. \A k \in 1 .. Len(q) : k <= Len(s) \/ k - Len(s) \in 1 .. Len(r)
    BY <2>1
  <2> QED
    BY <2>1, <2>2, <2>3, <2>4
<1> HIDE DEF q
<1>2. ASSUME NEW i PROVE Has(q, i) <=> Has(s, i) \/ Has(r, i)
  <2>1. ASSUME Has(q, i) PROVE Has(s, i) \/ Has(r, i)
    <3>1. PICK k \in 1 .. Len(q) : q[k] = i
      BY <2>1 DEF Has
    <3>2. CASE k <= Len(s)
      BY <1>1, <3>1, <3>2 DEF Has
    <3>3. CASE k - Len(s) \in 1 .. Len(r)
      <4>1. q[(k - Len(s)) + Len(s)] = r[k - Len(s)] /\ (k - Len(s)) + Len(s) = k
        BY <1>1, <3>3
      <4> QED
        BY <3>1, <3>3, <4>1 DEF Has
    <3> QED
      BY <1>1, <3>2, <3>3
  <2>2. ASSUME Has(s, i) PROVE Has(q, i)
    <3>1. PICK k \in 1 .. Len(s) : s[k] = i
      BY <2>2 DEF Has
    <3> QED
      BY <1>1, <3>1 DEF Has
  <2>3. ASSUME Has(r, i) PROVE Has(q, i)
    <3>1. PICK k \in 1 .. Len(r) : r[k] = i
      BY <2>3 DEF Has
    <3>2. k + Len(s) \in 1 .. Len(q) /\ q[k + Len(s)] = i
      BY <1>1, <3>1
    <3> QED
      BY <3>2 DEF Has
  <2> QED
    BY <2>1, <2>2, <2>3
<1>3. ASSUME NEW c PROVE Count(c, q) = Count(c, s) + Count(c, r)
  <2> DEFINE T == {k \in (Len(s) + 1) .. Len(q) : q[k].by = c}
             f == [k \in At(c, r) |-> k + Len(s)]
  <2>1. /\ \A k \in At(c, r) : k \in Nat /\ k + Len(s) \in T
        /\ \A j \in T : j - Len(s) \in At(c, r) /\ (j - Len(s)) + Len(s) = j
    <3>1. ASSUME NEW k \in At(c, r) PROVE k \in Nat /\ k + Len(s) \in T
      BY <1>1 DEF At
    <3>2. ASSUME NEW j \in T PROVE j - Len(s) \in At(c, r) /\ (j - Len(s)) + Len(s) = j
      <4>1. j - Len(s) \in 1 .. Len(r) /\ (j - Len(s)) + Len(s) = j
        BY <1>1
      <4> QED
        BY <1>1, <4>1 DEF At
    <3> QED
      BY <3>1, <3>2
  <2> HIDE DEF T
  <2>2. f \in Bijection(At(c, r), T)
    <3>1. f \in [At(c, r) -> T]
      BY <2>1
    <3>2. \A j, k \in At(c, r) : f[j] = f[k] => j = k
      BY <1>1, <2>1
    <3>3. \A j \in T : \E k \in At(c, r) : f[k] = j
      BY <2>1
    <3> HIDE DEF f
    <3> QED
      BY <3>1, <3>2, <3>3 DEF Bijection, Injection, IsInjective, Surjection
  <2>3. IsFiniteSet(T) /\ Cardinality(T) = Count(c, r)
    <3>1. ExistsBijection(At(c, r), T)
      BY <2>2 DEF ExistsBijection
    <3> QED
      BY <1>1, <3>1, AtIsFinite, FS_Bijection DEF Count
  <2>4. At(c, q) = At(c, s) \cup T /\ At(c, s) \cap T = {}
    BY <1>1 DEF At, T
  <2>5. Cardinality(At(c, q)) = Cardinality(At(c, s)) + Cardinality(T) - 0
    <3>1. IsFiniteSet(At(c, s)) /\ Cardinality(At(c, s)) \in Nat /\ Cardinality(T) \in Nat
      BY <2>3, AtIsFinite DEF Count
    <3> QED
      BY <2>3, <2>4, <3>1, FS_Union, FS_EmptySet
  <2> QED
    BY <2>3, <2>5, AtIsFinite DEF Count
<1> QED
  BY <1>1, <1>2, <1>3 DEF q

\* What Append and Tail do to it.
LEMMA Appended ==
  ASSUME NEW S, NEW s \in Seq(S), NEW e \in S
  PROVE  /\ Append(s, e) \in Seq(S)
         /\ \A i : Has(Append(s, e), i) <=> Has(s, i) \/ i = e
         /\ \A c : Count(c, Append(s, e)) = Count(c, s) + (IF e.by = c THEN 1 ELSE 0)
<1>1. Append(s, e) = s \o <<e>> /\ <<e>> \in Seq(S)
  BY AppendIsConcat
<1>2. \A i : Has(<<e>>, i) <=> i = e
  BY DEF Has
<1> DEFINE o == <<e>>
<1>3. /\ s \o o \in Seq(S)
      /\ \A i : Has(s \o o, i) <=> Has(s, i) \/ Has(o, i)
      /\ \A c : Count(c, s \o o) = Count(c, s) + Count(c, o)
  <2>1. o \in Seq(S)
    BY <1>1
  <2> HIDE DEF o
  <2> QED
    BY <2>1, Concatenation
<1>4. \A c : Count(c, o) = IF e.by = c THEN 1 ELSE 0
  BY OneItem
<1> QED
  BY <1>1, <1>2, <1>3, <1>4

LEMMA Taken ==
  ASSUME NEW S, NEW s \in Seq(S), s # <<>>
  PROVE  /\ Head(s) \in S /\ Tail(s) \in Seq(S)
         /\ \A i : Has(s, i) <=> i = Head(s) \/ Has(Tail(s), i)
         /\ \A c : Count(c, s) = (IF Head(s).by = c THEN 1 ELSE 0) + Count(c, Tail(s))
<1>1. Head(s) \in S /\ Tail(s) \in Seq(S) /\ <<Head(s)>> \in Seq(S)
  OBVIOUS
<1>2. s = <<Head(s)>> \o Tail(s)
  <2> DEFINE r == <<Head(s)>> \o Tail(s)
  <2>1. /\ r \in Seq(S) /\ Len(r) = Len(s) /\ Len(s) \in Nat
        /\ \A k \in 1 .. Len(s) : r[k] = s[k]
    BY <1>1
  <2> HIDE DEF r
  <2>2. r = s
    BY <2>1
  <2> QED
    BY <2>2 DEF r
<1>3. \A i : Has(<<Head(s)>>, i) <=> i = Head(s)
  BY DEF Has
<1> DEFINE o == <<Head(s)>>
           r == Tail(s)
<1>4. /\ \A i : Has(o \o r, i) <=> Has(o, i) \/ Has(r, i)
      /\ \A c : Count(c, o \o r) = Count(c, o) + Count(c, r)
  <2>1. o \in Seq(S) /\ r \in Seq(S)
    BY <1>1
  <2> HIDE DEF o, r
  <2> QED
    BY <2>1, Concatenation
<1>5. \A c : Count(c, o) = IF Head(s).by = c THEN 1 ELSE 0
  BY OneItem
<1> QED
  BY <1>1, <1>2, <1>3, <1>4, <1>5

\* A thread that has no item in a list has none there.
LEMMA CountedNone ==
  ASSUME NEW s \in Seq(Items), NEW c
  PROVE  Count(c, s) = 0 <=> \A i \in Items : Has(s, i) => i.by # c
<1>1. Count(c, s) = 0 <=> At(c, s) = {}
  BY AtIsFinite, FS_EmptySet DEF Count
<1>2. \A k \in 1 .. Len(s) : s[k] \in Items
  OBVIOUS
<1> QED
  BY <1>1, <1>2 DEF At, Has

\* What is left of a sequence when its end is cut off.
LEMMA Prefix ==
  ASSUME NEW S, NEW s \in Seq(S), NEW n \in Nat, n <= Len(s)
  PROVE  /\ SubSeq(s, 1, n) \in Seq(S) /\ Len(SubSeq(s, 1, n)) = n
         /\ \A k \in 1 .. n : SubSeq(s, 1, n)[k] = s[k]
<1>1. Len(s) \in Nat /\ \A k \in 1 .. n : s[k] \in S
  OBVIOUS
<1> QED
  BY <1>1, SubSeqProperties, Z3

-----------------------------------------------------------------------------
(* Families and the stack                                                  *)

\* a step that makes no Transaction object leaves this alone
KeepsFamilies ==
  /\ made' = made
  /\ \A t \in Tx :
       /\ tx'[t].owner = tx[t].owner /\ tx'[t].parent = tx[t].parent
       /\ tx'[t].line = tx[t].line
       /\ t > made => tx'[t] = tx[t]

\* a step that makes one leaves at least this alone
KeepsOld ==
  /\ made' \in Nat /\ made <= made'
  /\ \A t \in 1 .. made :
       /\ tx'[t].owner = tx[t].owner /\ tx'[t].parent = tx[t].parent
       /\ tx'[t].line = tx[t].line

LEMMA Numbers ==
  ASSUME SqliteIInv
  PROVE  /\ MaxTx \in Nat /\ made \in Nat /\ made <= MaxTx
         /\ Tx \subseteq Nat \ {0} /\ 1 .. made \subseteq Tx
         /\ available \subseteq 1 .. made
         /\ stack \in Seq(Tx)
         /\ \A t \in 1 .. made : t \in tx[t].line /\ tx[t].line \subseteq 1 .. made
<1>1. /\ MaxTx \in Nat /\ made \in Nat /\ made <= MaxTx
      /\ stack \in Seq(Tx)
  BY SqliteAssumption DEF SqliteIInv, SqliteTypeOK
<1>2. Tx \subseteq Nat \ {0} /\ 1 .. made \subseteq Tx
  BY <1>1 DEF Tx
<1>3. available \subseteq 1 .. made
  BY DEF SqliteIInv, MadeInOrder
<1>4. ASSUME NEW t \in 1 .. made PROVE t \in tx[t].line /\ tx[t].line \subseteq 1 .. made
  <2>1. t \in tx[t].line /\ tx[t].line \subseteq 1 .. t
    BY DEF SqliteIInv, Families
  <2> QED
    BY <1>1, <2>1
<1> QED
  BY <1>1, <1>2, <1>3, <1>4

LEMMA OldKept == ASSUME SqliteIInv, KeepsFamilies PROVE KeepsOld
BY Numbers DEF KeepsFamilies, KeepsOld

LEMMA FamiliesKept ==
  ASSUME SqliteIInv, KeepsFamilies
  PROVE  /\ Families' /\ LinesAreChains' /\ LinesNest'
         /\ \A t : Nests(t)' <=> Nests(t)
         /\ available' \subseteq available => MadeInOrder'
<1>1. 1 .. made \subseteq Tx /\ made' = made
  BY Numbers DEF KeepsFamilies
<1>2. \A t : Nests(t)' <=> Nests(t)
  BY DEF Nests, KeepsFamilies
<1>3. \A t \in 1 .. made : tx'[t].owner = tx[t].owner /\ tx'[t].parent = tx[t].parent
                           /\ tx'[t].line = tx[t].line
  BY <1>1 DEF KeepsFamilies
<1>4. Families'
  <2> SUFFICES ASSUME NEW t \in 1 .. made
               PROVE  /\ t \in tx'[t].line /\ tx'[t].line \subseteq 1 .. t
                      /\ tx'[t].parent = NoTx => tx'[t].line = {t}
                      /\ tx'[t].parent # NoTx =>
                           /\ tx'[t].parent < t
                           /\ tx'[tx'[t].parent].owner = tx'[t].owner
                           /\ tx'[t].line = {t} \cup tx'[tx'[t].parent].line
    BY <1>1 DEF Families
  <2>1. tx[t].parent # NoTx => tx[t].parent \in 1 .. made
    BY <1>1 DEF SqliteIInv, Families, SqliteTypeOK, TxRecords, Tx, NoTx
  <2> QED
    BY <1>3, <2>1 DEF SqliteIInv, Families
<1>5. \A t \in 1 .. made : tx[t].line \subseteq 1 .. made
  BY Numbers
<1>6. LinesAreChains'
  BY <1>1, <1>3, <1>5 DEF SqliteIInv, LinesAreChains
<1>7. LinesNest'
  BY <1>1, <1>2, <1>3 DEF SqliteIInv, LinesNest
<1>8. ASSUME available' \subseteq available PROVE MadeInOrder'
  BY <1>1, <1>3, <1>8 DEF SqliteIInv, MadeInOrder, KeepsFamilies
<1> QED
  BY <1>2, <1>4, <1>6, <1>7, <1>8

LEMMA ChainKept ==
  ASSUME SqliteIInv, KeepsOld, NEW s \in Seq(Tx), Chain(s), stack' = s,
         \A k \in 1 .. Len(s) : s[k] \in available'
  PROVE  Chain(stack)'
<1>1. \A k \in 1 .. Len(s) : s[k] \in 1 .. made
  BY Numbers DEF Chain
<1>2. \A k \in 1 .. Len(s) : /\ tx'[s[k]].owner = tx[s[k]].owner
                             /\ tx'[s[k]].parent = tx[s[k]].parent
                             /\ tx'[s[k]].line = tx[s[k]].line
  BY <1>1 DEF KeepsOld
<1>3. Len(s) \in Nat
  OBVIOUS
<1> QED
  BY <1>2, <1>3 DEF Chain

\* What the stack is when an item of the transaction t is processed.
LEMMA RaisedChain ==
  ASSUME SqliteIInv, NEW t \in available, stack = <<>> \/ Top \in {t, tx[t].parent}
  PROVE  /\ Raised(t) \in Seq(Tx) /\ Len(Raised(t)) \in Nat \ {0}
         /\ Raised(t)[Len(Raised(t))] = t
         /\ Raised(t)[1] = (IF stack = <<>> THEN t ELSE stack[1])
         /\ Raised(t)[1] \in tx[t].line
         /\ Chain(Raised(t))
<1>1. t \in 1 .. made /\ t \in Tx /\ stack \in Seq(Tx) /\ t \in tx[t].line
      /\ available \subseteq Tx
  BY Numbers
<1>2. Len(stack) \in Nat /\ (stack # <<>> => Len(stack) # 0 /\ Top \in Tx)
      /\ \A k \in 1 .. Len(stack) : stack[k] \in Tx
  BY <1>1 DEF Top
<1>3. CASE stack # <<>> /\ Top = t
  <2>1. Raised(t) = stack /\ Chain(stack) /\ stack[Len(stack)] = t
    BY <1>3 DEF Raised, Top, SqliteIInv, Nesting
  <2>2. stack[1] \in tx[t].line
    BY <1>2, <1>3, <2>1 DEF Chain
  <2> QED
    BY <1>1, <1>2, <1>3, <2>1, <2>2
<1>4. CASE stack = <<>>
  <2>1. Raised(t) = <<t>>
    BY <1>4 DEF Raised
  <2>2. Chain(<<t>>)
    BY <1>1 DEF Chain
  <2> QED
    BY <1>1, <1>4, <2>1, <2>2
<1>5. CASE stack # <<>> /\ Top # t
  <2>1. Top = tx[t].parent /\ Top \in Tx /\ Raised(t) = Append(stack, t)
    BY <1>2, <1>5 DEF Raised
  <2>2. /\ Top < t /\ tx[Top].owner = tx[t].owner /\ tx[t].line = {t} \cup tx[Top].line
    BY <1>1, <2>1 DEF SqliteIInv, Families, Tx, NoTx
  <2>3. Chain(stack)
    BY DEF SqliteIInv, Nesting
  <2> DEFINE r == Append(stack, t)
  <2>4. /\ r \in Seq(Tx) /\ Len(r) = Len(stack) + 1 /\ r[Len(stack) + 1] = t
        /\ \A k \in 1 .. Len(stack) : r[k] = stack[k]
    BY <1>1
  <2> HIDE DEF r
  <2>5. Len(stack) \in 1 .. Len(stack) /\ 1 \in 1 .. Len(stack) /\ stack[Len(stack)] = Top
    BY <1>2, <1>5 DEF Top
  <2>6. /\ stack[1] \in tx[Top].line /\ tx[Top].owner = tx[stack[1]].owner
        /\ \A j \in 1 .. (Len(stack) - 1) : stack[j] < Top
    BY <2>3, <2>5 DEF Chain
  <2>7. Chain(r)
    <3>1. ASSUME NEW k \in 1 .. (Len(r) - 1) PROVE tx[r[k + 1]].parent = r[k]
      <4>1. CASE k = Len(stack)
        BY <1>2, <2>1, <2>4, <2>5, <4>1
      <4>2. CASE k # Len(stack)
        <5>1. k \in 1 .. (Len(stack) - 1) /\ k + 1 \in 1 .. Len(stack)
          BY <1>2, <2>4, <4>2
        <5> QED
          BY <2>3, <2>4, <5>1 DEF Chain
      <4> QED
        BY <4>1, <4>2
    <3>2. ASSUME NEW k \in 1 .. Len(r)
          PROVE  /\ r[k] \in available /\ r[1] \in tx[r[k]].line
                 /\ tx[r[k]].owner = tx[r[1]].owner
                 /\ \A j \in 1 .. (k - 1) : r[j] < r[k]
      <4>1. CASE k \in 1 .. Len(stack)
        <5>1. /\ r[k] = stack[k] /\ r[1] = stack[1]
              /\ \A j \in 1 .. (k - 1) : j \in 1 .. Len(stack) /\ r[j] = stack[j]
          BY <1>2, <2>4, <2>5, <4>1
        <5> QED
          BY <2>3, <4>1, <5>1 DEF Chain
      <4>2. CASE k = Len(stack) + 1
        <5>1. r[k] = t /\ r[1] = stack[1] /\ k - 1 = Len(stack)
          BY <1>2, <2>4, <2>5, <4>2
        <5>2. ASSUME NEW j \in 1 .. Len(stack) PROVE r[j] < t
          <6>1. r[j] = stack[j] /\ stack[j] \in Nat /\ Top \in Nat /\ t \in Nat
            BY <1>1, <1>2, <1>5, <2>1, <2>4 DEF Tx
          <6>2. stack[j] <= Top
            BY <1>2, <2>5, <2>6, <6>1
          <6> QED
            BY <2>2, <6>1, <6>2
        <5> QED
          BY <2>2, <2>6, <5>1, <5>2
      <4> QED
        BY <1>2, <2>4, <4>1, <4>2
    <3> QED
      BY <3>1, <3>2 DEF Chain
  <2>8. r[Len(r)] = t /\ r[1] = stack[1] /\ stack[1] \in tx[t].line /\ Len(r) \in Nat \ {0}
    BY <1>2, <2>2, <2>4, <2>5, <2>6
  <2> QED
    BY <1>5, <2>1, <2>4, <2>7, <2>8 DEF r
<1> QED
  BY <1>3, <1>4, <1>5

\* What is left of it when t is closed.
LEMMA ShortenedChain ==
  ASSUME NEW r \in Seq(Tx), r # <<>>, Chain(r)
  PROVE  LET q == SubSeq(r, 1, Len(r) - 1) IN
         /\ q \in Seq(Tx) /\ Len(q) = Len(r) - 1
         /\ \A k \in 1 .. Len(q) : q[k] = r[k] /\ q[k] # r[Len(r)] /\ q[k] \in available
         /\ Chain(q)
<1> DEFINE q == SubSeq(r, 1, Len(r) - 1)
<1>1. Len(r) \in Nat \ {0} /\ \A k \in 1 .. Len(r) : r[k] \in Tx /\ r[k] \in Int
  <2>1. Len(r) \in Nat /\ Len(r) # 0 /\ \A k \in 1 .. Len(r) : r[k] \in Tx
    OBVIOUS
  <2>2. Tx \subseteq Int
    BY DEF Tx
  <2> QED
    BY <2>1, <2>2
<1>2. /\ q \in Seq(Tx) /\ Len(q) = Len(r) - 1
      /\ \A k \in 1 .. (Len(r) - 1) : q[k] = r[k]
  <2>1. Len(r) - 1 \in Nat /\ Len(r) - 1 <= Len(r)
    BY <1>1
  <2> QED
    BY <2>1, Prefix
<1> HIDE DEF q
<1>3. Len(r) \in 1 .. Len(r) /\ \A j \in 1 .. (Len(r) - 1) : r[j] < r[Len(r)] /\ r[j] \in Int
  BY <1>1 DEF Chain
<1>4. \A k \in 1 .. Len(q) : q[k] = r[k] /\ q[k] # r[Len(r)] /\ q[k] \in available
  BY <1>1, <1>2, <1>3 DEF Chain
<1>5. Chain(q)
  <2>1. \A k \in 1 .. (Len(q) - 1) : k \in 1 .. (Len(r) - 1) /\ k \in 1 .. Len(q)
                                    /\ k + 1 \in 1 .. Len(q)
    BY <1>1, <1>2
  <2>2. \A k \in 1 .. Len(q) : k \in 1 .. Len(r) /\ 1 \in 1 .. Len(q)
                              /\ \A j \in 1 .. (k - 1) : j \in 1 .. Len(q)
    BY <1>1, <1>2
  <2> QED
    BY <1>2, <2>1, <2>2 DEF Chain
<1> QED
  BY <1>2, <1>4, <1>5 DEF q

-----------------------------------------------------------------------------
(* What a step does to the threads and the lists                           *)

\* A step that neither adds nor takes items.
LEMMA ListsKept ==
  ASSUME SqliteIInv, UNCHANGED <<queue, delayedQ, delayedT>>,
         \A d \in Clients :
           /\ thread'[d].pc = "waiting" <=> thread[d].pc = "waiting"
           /\ thread[d].pc = "waiting" => thread'[d].item = thread[d].item
  PROVE  /\ ItemsAreAwaited' /\ AwaitedOnce'
         /\ stack' = stack => NoDelay'
<1>1. ItemsAreAwaited'
  BY DEF SqliteIInv, ItemsAreAwaited, Listed, Items
<1>2. AwaitedOnce'
  BY DEF SqliteIInv, AwaitedOnce, Count, At
<1>3. ASSUME stack' = stack PROVE NoDelay'
  BY <1>3 DEF SqliteIInv, NoDelay
<1> QED
  BY <1>1, <1>2, <1>3

\* A thread puts its item on the queue.
LEMMA Posted ==
  ASSUME SqliteIInv, NEW c \in Clients, thread[c].pc # "waiting", NEW e \in Items, e.by = c,
         queue' = Append(queue, e), UNCHANGED <<delayedQ, delayedT>>,
         thread'[c].pc = "waiting", thread'[c].item = e,
         \A d \in Clients \ {c} : thread'[d] = thread[d]
  PROVE  queue' \in Seq(Items) /\ ItemsAreAwaited' /\ AwaitedOnce'
<1>1. /\ queue' \in Seq(Items)
      /\ \A i : Has(queue', i) <=> Has(queue, i) \/ i = e
      /\ \A d : Count(d, queue') = Count(d, queue) + (IF c = d THEN 1 ELSE 0)
  BY Appended DEF SqliteIInv, SqliteTypeOK
<1>2. \A i : Listed(i)' <=> Listed(i) \/ i = e
  BY <1>1 DEF Listed, Has
<1>3. ItemsAreAwaited'
  <2> SUFFICES ASSUME NEW i \in Items, Listed(i) \/ i = e
               PROVE  thread'[i.by].pc = "waiting" /\ thread'[i.by].item = i
    BY <1>2 DEF ItemsAreAwaited
  <2>1. CASE i = e
    BY <2>1
  <2>2. CASE Listed(i)
    <3>1. thread[i.by].pc = "waiting" /\ thread[i.by].item = i /\ i.by \in Clients
      BY <2>2 DEF SqliteIInv, ItemsAreAwaited, Items
    <3> QED
      BY <3>1
  <2> QED
    BY <2>1, <2>2
<1>4. AwaitedOnce'
  <2> SUFFICES ASSUME NEW d \in Clients
               PROVE  Count(d, queue') + Count(d, delayedQ) + Count(d, delayedT)
                        = IF thread'[d].pc = "waiting" THEN 1 ELSE 0
    BY DEF AwaitedOnce, Count, At
  <2>1. Count(d, queue) \in Nat /\ Count(d, delayedQ) \in Nat /\ Count(d, delayedT) \in Nat
    BY AtIsFinite DEF SqliteIInv, SqliteTypeOK
  <2>2. Count(d, queue) + Count(d, delayedQ) + Count(d, delayedT)
          = IF thread[d].pc = "waiting" THEN 1 ELSE 0
    BY DEF SqliteIInv, AwaitedOnce
  <2>3. CASE d = c
    BY <1>1, <2>1, <2>2, <2>3
  <2>4. CASE d # c
    BY <1>1, <2>1, <2>2, <2>4
  <2> QED
    BY <2>3, <2>4
<1> QED
  BY <1>1, <1>3, <1>4

\* The item at the head of the queue.
LEMMA HeadItem ==
  ASSUME SqliteIInv, queue # <<>>, NEW i, i = Head(queue)
  PROVE  /\ i \in Items /\ i.by \in Clients /\ i.tx \in Tx \cup {NoTx} /\ Tail(queue) \in Seq(Items)
         /\ thread[i.by].pc = "waiting" /\ thread[i.by].item = i /\ Asking(i.by)
         /\ i.tx # NoTx =>
              /\ i.tx \in Tx /\ i.tx \in available /\ i.tx \in 1 .. made
              /\ tx[i.tx].owner = i.by /\ tx[i.tx].outcome = "open"
              /\ Len(thread[i.by].open) \in Nat \ {0}
              /\ thread[i.by].open[Len(thread[i.by].open)] = i.tx
              /\ i.kind = "query" => i.n = tx[i.tx].issued
<1>1. i \in Items /\ Tail(queue) \in Seq(Items) /\ Has(queue, i)
  BY Taken DEF SqliteIInv, SqliteTypeOK
<1>2. i.by \in Clients /\ i.tx \in Tx \cup {NoTx}
  BY <1>1 DEF Items
<1>3. thread[i.by].pc = "waiting" /\ thread[i.by].item = i
  BY <1>1 DEF SqliteIInv, ItemsAreAwaited, Listed
<1>4. Asking(i.by)
  BY <1>3 DEF Asking
<1>5. ASSUME i.tx # NoTx
      PROVE  /\ i.tx \in Tx /\ i.tx \in available /\ i.tx \in 1 .. made
             /\ tx[i.tx].owner = i.by /\ tx[i.tx].outcome = "open"
             /\ Len(thread[i.by].open) \in Nat \ {0}
             /\ thread[i.by].open[Len(thread[i.by].open)] = i.tx
             /\ i.kind = "query" => i.n = tx[i.tx].issued
  <2>1. /\ thread[i.by].open # <<>> /\ i.tx = Innermost(i.by)
        /\ i.kind = "query" => i.n = tx[i.tx].issued
    BY <1>2, <1>3, <1>4, <1>5 DEF SqliteIInv, Calls, CallOf
  <2>2. thread[i.by].open \in Seq(Tx)
    BY <1>2 DEF SqliteIInv, SqliteTypeOK, ThreadRecords
  <2> DEFINE o == thread[i.by].open
  <2>3. Len(o) \in Nat \ {0} /\ Len(o) \in 1 .. Len(o) /\ o[Len(o)] = i.tx
    BY <2>1, <2>2 DEF Innermost
  <2>4. i.tx \in available /\ tx[i.tx].owner = i.by /\ tx[i.tx].outcome = "open"
    BY <1>2, <2>3 DEF SqliteIInv, Blocks, BlocksOf
  <2> QED
    BY <1>2, <1>5, <2>1, <2>3, <2>4, Numbers
<1> QED
  BY <1>1, <1>2, <1>3, <1>4, <1>5

\* An answer: the thread goes on, and has left a block if that was its question.
LEMMA Answer ==
  ASSUME SqliteIInv, queue # <<>>, NEW i, i = Head(queue), NEW ok \in BOOLEAN, Release(i, ok)
  PROVE  LET o == thread[i.by].open IN
         /\ thread' \in [Clients -> ThreadRecords]
         /\ \A d \in Clients \ {i.by} : thread'[d] = thread[d]
         /\ thread'[i.by].pc \in {"idle", "stopping"}
         /\ thread'[i.by].open \in {o, SubSeq(o, 1, Len(o) - 1)}
         /\ i.tx # NoTx /\ i.kind # "query" => thread'[i.by].open = SubSeq(o, 1, Len(o) - 1)
<1> DEFINE o == thread[i.by].open
           c == i.by
<1>1. i \in Items /\ c \in Clients /\ thread \in [Clients -> ThreadRecords]
  BY HeadItem DEF SqliteIInv, SqliteTypeOK
<1>2. o \in Seq(Tx) /\ SubSeq(o, 1, Len(o) - 1) \in Seq(Tx)
  <2>1. o \in Seq(Tx)
    BY <1>1 DEF ThreadRecords
  <2> HIDE DEF o
  <2>2. CASE o = <<>>
    BY <2>1, <2>2
  <2>3. CASE o # <<>>
    <3>1. Len(o) - 1 \in Nat /\ Len(o) - 1 <= Len(o)
      BY <2>1, <2>3
    <3> QED
      BY <2>1, <3>1, Prefix
  <2> QED
    BY <2>1, <2>2, <2>3
<1>3. NoItem(c) \in Items
  BY <1>1 DEF NoItem, Items
<1> DEFINE s == SubSeq(o, 1, Len(o) - 1)
           r == IF i.tx = NoTx /\ i.kind = "commit"
                THEN [thread[c] EXCEPT !.pc = "stopping"]
                ELSE [thread[c] EXCEPT !.pc = "idle", !.item = NoItem(c),
                                       !.raised = thread[c].raised \/ ~ ok,
                                       !.open = IF i.kind = "query" THEN o ELSE s]
<1>4. thread' = [thread EXCEPT ![c] = r]
  BY DEF Release
<1>5. /\ r \in ThreadRecords /\ r.pc \in {"idle", "stopping"}
      /\ r.open \in {o, s}
      /\ i.tx # NoTx /\ i.kind # "query" => r.open = s
  <2>1. thread[c] \in ThreadRecords /\ s \in Seq(Tx)
    BY <1>1, <1>2
  <2> HIDE DEF s
  <2> QED
    BY <1>1, <1>3, <2>1 DEF ThreadRecords
<1> HIDE DEF r, s
<1> QED
  BY <1>1, <1>4, <1>5 DEF s


\* The item is taken off the queue, and its thread waits no more; what was delayed is put
\* back, or is not.
LEMMA TakenOff ==
  ASSUME SqliteIInv, queue # <<>>, NEW i, i = Head(queue),
         thread'[i.by].pc # "waiting", \A d \in Clients \ {i.by} : thread'[d] = thread[d],
         PutBack \/ (queue' = Tail(queue) /\ UNCHANGED <<delayedQ, delayedT>>)
  PROVE  /\ queue' \in Seq(Items) /\ delayedQ' \in Seq(Items) /\ delayedT' \in Seq(Items)
         /\ ItemsAreAwaited' /\ AwaitedOnce'
<1> DEFINE r == Tail(queue)
           q == delayedQ
           d == delayedT
<1>1. /\ queue \in Seq(Items) /\ r \in Seq(Items) /\ q \in Seq(Items) /\ d \in Seq(Items)
      /\ \A j : Has(queue, j) <=> j = i \/ Has(r, j)
      /\ \A c : Count(c, queue) = (IF i.by = c THEN 1 ELSE 0) + Count(c, r)
      /\ i \in Items /\ i.by \in Clients
  BY Taken, HeadItem DEF SqliteIInv, SqliteTypeOK
<1>2. \A c : Count(c, r) \in Nat /\ Count(c, q) \in Nat /\ Count(c, d) \in Nat
  BY <1>1, AtIsFinite
<1>3. /\ queue' \in Seq(Items) /\ delayedQ' \in Seq(Items) /\ delayedT' \in Seq(Items)
      /\ \A j : Has(queue', j) \/ Has(delayedQ', j) \/ Has(delayedT', j)
                  <=> Has(r, j) \/ Has(q, j) \/ Has(d, j)
      /\ \A c : Count(c, queue') + Count(c, delayedQ') + Count(c, delayedT')
                  = Count(c, r) + Count(c, q) + Count(c, d)
  <2>1. CASE queue' = r /\ delayedQ' = q /\ delayedT' = d
    <3> HIDE DEF r, q, d
    <3> QED
      BY <1>1, <1>2, <2>1
  <2>2. CASE PutBack
    <3>1. queue' = q \o d \o r /\ delayedQ' = <<>> /\ delayedT' = <<>>
      BY <2>2 DEF PutBack
    <3> HIDE DEF r, q, d
    <3> DEFINE p == q \o d
    <3>2. /\ p \in Seq(Items)
          /\ \A j : Has(p, j) <=> Has(q, j) \/ Has(d, j)
          /\ \A c : Count(c, p) = Count(c, q) + Count(c, d)
      BY <1>1, Concatenation
    <3>3. queue' = p \o r
      BY <3>1
    <3> HIDE DEF p
    <3>4. /\ queue' \in Seq(Items)
          /\ \A j : Has(queue', j) <=> Has(p, j) \/ Has(r, j)
          /\ \A c : Count(c, queue') = Count(c, p) + Count(c, r)
      BY <1>1, <3>2, <3>3, Concatenation
    <3>5. /\ <<>> \in Seq(Items)
          /\ \A j : ~ Has(delayedQ', j) /\ ~ Has(delayedT', j)
          /\ \A c : Count(c, delayedQ') = 0 /\ Count(c, delayedT') = 0
      BY <3>1, EmptyList
    <3> QED
      BY <1>2, <3>1, <3>2, <3>4, <3>5
  <2> QED
    BY <2>1, <2>2
<1> HIDE DEF r, q, d
<1>4. Count(i.by, r) = 0 /\ Count(i.by, q) = 0 /\ Count(i.by, d) = 0
  <2>1. Count(i.by, queue) + Count(i.by, q) + Count(i.by, d)
          = IF thread[i.by].pc = "waiting" THEN 1 ELSE 0
    BY <1>1 DEF SqliteIInv, AwaitedOnce, q, d
  <2>2. Count(i.by, queue) = 1 + Count(i.by, r)
    BY <1>1
  <2> QED
    BY <1>2, <2>1, <2>2
<1>5. ItemsAreAwaited'
  <2> SUFFICES ASSUME NEW j \in Items, Has(r, j) \/ Has(q, j) \/ Has(d, j)
               PROVE  thread'[j.by].pc = "waiting" /\ thread'[j.by].item = j
    BY <1>3 DEF ItemsAreAwaited, Listed, Has
  <2>1. thread[j.by].pc = "waiting" /\ thread[j.by].item = j
    BY <1>1 DEF SqliteIInv, ItemsAreAwaited, Listed, q, d
  <2>2. j.by # i.by /\ j.by \in Clients
    <3>1. \A e \in {r, q, d} : \A x \in Items : Has(e, x) => x.by # i.by
      BY <1>1, <1>4, CountedNone
    <3> QED
      BY <3>1 DEF Items
  <2> QED
    BY <2>1, <2>2
<1>6. AwaitedOnce'
  <2> SUFFICES ASSUME NEW c \in Clients
               PROVE  Count(c, queue') + Count(c, delayedQ') + Count(c, delayedT')
                        = IF thread'[c].pc = "waiting" THEN 1 ELSE 0
    BY DEF AwaitedOnce, Count, At
  <2>1. Count(c, queue) + Count(c, q) + Count(c, d)
          = IF thread[c].pc = "waiting" THEN 1 ELSE 0
    BY DEF SqliteIInv, AwaitedOnce, q, d
  <2>2. CASE c = i.by
    BY <1>3, <1>4, <2>2
  <2>3. CASE c # i.by
    <3>1. Count(c, queue) = Count(c, r) /\ thread'[c] = thread[c]
      BY <1>1, <1>2, <2>3
    <3> QED
      BY <1>3, <2>1, <3>1
  <2> QED
    BY <2>2, <2>3
<1> QED
  BY <1>3, <1>5, <1>6

\* An item goes from the queue to one of the lists of delayed ones.
LEMMA Put ==
  ASSUME SqliteIInv, queue # <<>>, NEW i, i = Head(queue), queue' = Tail(queue),
         \/ delayedQ' = Append(delayedQ, i) /\ delayedT' = delayedT
         \/ delayedT' = Append(delayedT, i) /\ delayedQ' = delayedQ,
         thread' = thread
  PROVE  /\ queue' \in Seq(Items) /\ delayedQ' \in Seq(Items) /\ delayedT' \in Seq(Items)
         /\ ItemsAreAwaited' /\ AwaitedOnce'
<1> DEFINE r == Tail(queue)
           q == delayedQ
           d == delayedT
<1>1. /\ queue \in Seq(Items) /\ r \in Seq(Items) /\ q \in Seq(Items) /\ d \in Seq(Items)
      /\ \A j : Has(queue, j) <=> j = i \/ Has(r, j)
      /\ \A c : Count(c, queue) = (IF i.by = c THEN 1 ELSE 0) + Count(c, r)
      /\ i \in Items /\ i.by \in Clients
  BY Taken, HeadItem DEF SqliteIInv, SqliteTypeOK
<1>2. \A c : Count(c, r) \in Nat /\ Count(c, q) \in Nat /\ Count(c, d) \in Nat
  BY <1>1, AtIsFinite
<1>3. /\ delayedQ' \in Seq(Items) /\ delayedT' \in Seq(Items)
      /\ \A j : Has(delayedQ', j) \/ Has(delayedT', j) <=> Has(q, j) \/ Has(d, j) \/ j = i
      /\ \A c : Count(c, delayedQ') + Count(c, delayedT')
                  = Count(c, q) + Count(c, d) + (IF i.by = c THEN 1 ELSE 0)
  <2>1. \A s \in Seq(Items) :
          /\ Append(s, i) \in Seq(Items)
          /\ \A j : Has(Append(s, i), j) <=> Has(s, j) \/ j = i
          /\ \A c : Count(c, Append(s, i)) = Count(c, s) + (IF i.by = c THEN 1 ELSE 0)
    BY <1>1, Appended
  <2> HIDE DEF r
  <2>2. CASE delayedQ' = Append(q, i) /\ delayedT' = d
    BY <1>1, <1>2, <2>1, <2>2
  <2>3. CASE delayedT' = Append(d, i) /\ delayedQ' = q
    BY <1>1, <1>2, <2>1, <2>3
  <2> QED
    BY <2>2, <2>3
<1>4. queue' = r
  OBVIOUS
<1> HIDE DEF r
<1>5. \A j : Listed(j)' <=> Listed(j)
  <2>1. \A j : Listed(j)' <=> Has(queue', j) \/ Has(delayedQ', j) \/ Has(delayedT', j)
    BY DEF Listed, Has
  <2>2. \A j : Listed(j) <=> j = i \/ Has(r, j) \/ Has(q, j) \/ Has(d, j)
    BY <1>1 DEF Listed
  <2> QED
    BY <1>3, <1>4, <2>1, <2>2
<1>6. ItemsAreAwaited'
  BY <1>5 DEF SqliteIInv, ItemsAreAwaited
<1>7. AwaitedOnce'
  <2> SUFFICES ASSUME NEW c \in Clients
               PROVE  Count(c, queue') + Count(c, delayedQ') + Count(c, delayedT')
                        = IF thread[c].pc = "waiting" THEN 1 ELSE 0
    BY DEF AwaitedOnce, Count, At
  <2>1. Count(c, queue) + Count(c, q) + Count(c, d)
          = IF thread[c].pc = "waiting" THEN 1 ELSE 0
    BY DEF SqliteIInv, AwaitedOnce
  <2>2. Count(c, queue') = Count(c, r)
    BY <1>4
  <2>3. /\ Count(c, delayedQ') + Count(c, delayedT')
             = Count(c, q) + Count(c, d) + (IF i.by = c THEN 1 ELSE 0)
        /\ Count(c, queue) = (IF i.by = c THEN 1 ELSE 0) + Count(c, r)
        /\ Count(c, delayedQ') \in Nat /\ Count(c, delayedT') \in Nat
    BY <1>1, <1>3, AtIsFinite
  <2>4. Count(c, r) \in Nat /\ Count(c, q) \in Nat /\ Count(c, d) \in Nat
    BY <1>2
  <2>5. CASE i.by = c
    BY <2>1, <2>2, <2>3, <2>4, <2>5
  <2>6. CASE i.by # c
    BY <2>1, <2>2, <2>3, <2>4, <2>6
  <2> QED
    BY <2>5, <2>6
<1> QED
  BY <1>1, <1>3, <1>4, <1>6, <1>7

\* A thread that does not move, if nothing happens to its transactions.
LEMMA OtherThread ==
  ASSUME SqliteIInv, KeepsOld, NEW c \in Clients, thread'[c] = thread[c],
         \A t \in available : tx[t].owner = c =>
           t \in available' /\ tx'[t].outcome = tx[t].outcome /\ tx'[t].issued = tx[t].issued
  PROVE  BlocksOf(c)' /\ CallOf(c)'
<1> DEFINE o == thread[c].open
<1>1. thread[c] \in ThreadRecords /\ o \in Seq(Tx) /\ available \subseteq 1 .. made
  BY Numbers DEF SqliteIInv, SqliteTypeOK, ThreadRecords
<1>2. \A k \in 1 .. Len(o) :
        /\ o[k] \in available /\ tx[o[k]].owner = c /\ tx[o[k]].outcome = "open"
        /\ \A j \in 1 .. (k - 1) : o[j] # o[k]
  BY DEF SqliteIInv, Blocks, BlocksOf
<1>3. \A k \in 1 .. Len(o) : tx'[o[k]].owner = tx[o[k]].owner
  BY <1>1, <1>2 DEF KeepsOld
<1>4. BlocksOf(c)'
  <2>1. thread'[c].open = o
    OBVIOUS
  <2> HIDE DEF o
  <2> QED
    BY <1>2, <1>3, <2>1 DEF BlocksOf
<1>5. CallOf(c)'
  <2> SUFFICES ASSUME Asking(c), thread[c].item.tx # NoTx
               PROVE  /\ o # <<>> /\ thread[c].item.tx = o[Len(o)]
                      /\ thread[c].item.kind = "query" =>
                           thread[c].item.n = tx'[thread[c].item.tx].issued
    BY DEF SqliteIInv, Calls, CallOf, Asking, Innermost
  <2>1. /\ o # <<>> /\ thread[c].item.tx = o[Len(o)]
        /\ thread[c].item.kind = "query" => thread[c].item.n = tx[thread[c].item.tx].issued
    BY DEF SqliteIInv, Calls, CallOf, Innermost
  <2>2. Len(o) \in 1 .. Len(o)
    BY <1>1, <2>1
  <2> QED
    BY <1>2, <2>1, <2>2
<1> QED
  BY <1>4, <1>5

\* A thread that leaves its innermost block, or none.
LEMMA BlocksLeft ==
  ASSUME SqliteIInv, KeepsOld, NEW c \in Clients, NEW o, o = thread[c].open,
         NEW p, p = thread'[c].open, Len(p) \in Nat, Len(p) <= Len(o),
         \A k \in 1 .. Len(p) :
           p[k] = o[k] /\ o[k] \in available' /\ tx'[o[k]].outcome = tx[o[k]].outcome
  PROVE  BlocksOf(c)'
<1>1. o \in Seq(Tx) /\ available \subseteq 1 .. made
  BY Numbers DEF SqliteIInv, SqliteTypeOK, ThreadRecords
<1>2. \A k \in 1 .. Len(o) :
        /\ o[k] \in available /\ tx[o[k]].owner = c /\ tx[o[k]].outcome = "open"
        /\ \A j \in 1 .. (k - 1) : o[j] # o[k]
  BY DEF SqliteIInv, Blocks, BlocksOf
<1>3. \A k \in 1 .. Len(p) : k \in 1 .. Len(o) /\ \A j \in 1 .. (k - 1) : j \in 1 .. Len(p)
  BY <1>1
<1>4. ASSUME NEW k \in 1 .. Len(p)
      PROVE  /\ p[k] \in available' /\ tx'[p[k]].owner = c /\ tx'[p[k]].outcome = "open"
             /\ \A j \in 1 .. (k - 1) : p[j] # p[k]
  <2>1. p[k] = o[k] /\ p[k] \in available' /\ tx'[p[k]].outcome = tx[p[k]].outcome
    OBVIOUS
  <2>2. /\ o[k] \in 1 .. made /\ tx[o[k]].owner = c /\ tx[o[k]].outcome = "open"
        /\ \A j \in 1 .. (k - 1) : o[j] # o[k]
    BY <1>1, <1>2, <1>3
  <2>3. tx'[p[k]].owner = c /\ tx'[p[k]].outcome = "open"
    BY <2>1, <2>2 DEF KeepsOld
  <2>4. ASSUME NEW j \in 1 .. (k - 1) PROVE p[j] # p[k]
    <3>1. p[j] = o[j] /\ o[j] # o[k]
      BY <1>3, <2>2
    <3> QED
      BY <2>1, <3>1
  <2> QED
    BY <2>1, <2>3, <2>4
<1> QED
  BY <1>4 DEF BlocksOf

\* What an answer means for the blocks of all.
LEMMA Heard ==
  ASSUME SqliteIInv, KeepsFamilies, queue # <<>>, NEW i, i = Head(queue), NEW ok \in BOOLEAN,
         Release(i, ok),
         \A t \in Tx : tx'[t].issued = tx[t].issued,
         \A t \in Tx \ {i.tx} :
           tx'[t].outcome = tx[t].outcome /\ (t \in available => t \in available'),
         i.kind = "query" =>
           available' = available /\ \A t \in Tx : tx'[t].outcome = tx[t].outcome
  PROVE  Blocks' /\ Calls'
<1> DEFINE c == i.by
           o == thread[c].open
<1>1. /\ c \in Clients /\ thread[c] \in ThreadRecords /\ o \in Seq(Tx)
      /\ i.tx # NoTx => i.tx \in available /\ tx[i.tx].owner = c
                        /\ Len(o) \in Nat \ {0} /\ o[Len(o)] = i.tx
  BY HeadItem DEF SqliteIInv, SqliteTypeOK, ThreadRecords
<1>2. /\ \A d \in Clients \ {c} : thread'[d] = thread[d]
      /\ ~ Asking(c)'
      /\ thread'[c].open \in {o, SubSeq(o, 1, Len(o) - 1)}
      /\ i.tx # NoTx /\ i.kind # "query" => thread'[c].open = SubSeq(o, 1, Len(o) - 1)
  BY Answer DEF Asking
<1>3. ASSUME NEW d \in Clients \ {c} PROVE BlocksOf(d)' /\ CallOf(d)'
  <2>1. available \subseteq Tx
    BY Numbers
  <2>2. \A t \in available : tx[t].owner = d =>
          t \in available' /\ tx'[t].outcome = tx[t].outcome /\ tx'[t].issued = tx[t].issued
    BY <1>1, <2>1 DEF NoTx, Tx
  <2> QED
    BY <1>2, <2>2, OtherThread, OldKept
<1>4. CallOf(c)'
  BY <1>2 DEF CallOf
<1>5. /\ Len(o) \in Nat
      /\ \A k \in 1 .. Len(o) :
           /\ o[k] \in available /\ o[k] \in Tx
           /\ \A j \in 1 .. (k - 1) : o[j] # o[k]
  BY <1>1 DEF SqliteIInv, Blocks, BlocksOf
<1> DEFINE p == thread'[c].open
           Kept(k) == p[k] = o[k] /\ o[k] \in available' /\ tx'[o[k]].outcome = tx[o[k]].outcome
<1>6. Len(p) \in Nat /\ Len(p) <= Len(o) /\ \A k \in 1 .. Len(p) : Kept(k)
  <2> HIDE DEF o
  <2>1. CASE o = <<>>
    <3>1. p = o
      BY <1>2, <2>1
    <3> HIDE DEF p
    <3> QED
      BY <1>5, <2>1, <3>1
  <2>2. CASE i.kind = "query"
    <3>1. p = o
      BY <1>1, <2>2 DEF Release, o
    <3> HIDE DEF p
    <3> QED
      BY <1>5, <2>2, <3>1
  <2>3. CASE i.kind # "query" /\ o # <<>>
    <3>1. Len(o) - 1 \in Nat /\ Len(o) - 1 <= Len(o) /\ Len(o) \in 1 .. Len(o)
      BY <1>1, <1>5, <2>3
    <3> DEFINE s == SubSeq(o, 1, Len(o) - 1)
    <3>2. Len(s) = Len(o) - 1 /\ \A k \in 1 .. (Len(o) - 1) : s[k] = o[k]
      BY <1>1, <3>1, Prefix
    <3>3. p = s \/ (i.tx = NoTx /\ p = o)
      BY <1>2, <2>3
    <3> HIDE DEF s, p
    <3>4. \A k \in 1 .. Len(p) : k \in 1 .. Len(o) /\ p[k] = o[k]
      BY <1>5, <3>1, <3>2, <3>3
    <3>5. \A k \in 1 .. Len(p) : o[k] # i.tx
      BY <1>1, <1>5, <3>1, <3>2, <3>3 DEF Tx, NoTx
    <3> QED
      BY <1>5, <3>1, <3>2, <3>3, <3>4, <3>5
  <2> QED
    BY <2>1, <2>2, <2>3
<1>7. BlocksOf(c)'
  <2> HIDE DEF o
  <2>1. o = thread[c].open /\ p = thread'[c].open
    BY DEF o
  <2> HIDE DEF p
  <2> QED
    BY <1>1, <1>6, <2>1, BlocksLeft, OldKept
<1> QED
  BY <1>3, <1>4, <1>7 DEF Blocks, Calls

-----------------------------------------------------------------------------
(* What a step does to the transactions                                    *)

\* The commands that are to be run.
LEMMA TodoOf ==
  ASSUME SqliteIInv, NEW t \in 1 .. made
  PROVE  /\ Todo(t) \subseteq Commands
         /\ \A x \in Todo(t) : x.by = tx[t].owner /\ x.tx \in tx[t].line /\ x.n \in tx[x.tx].todo
         /\ \A a \in tx[t].line : \A n \in tx[a].todo :
              [by |-> tx[t].owner, tx |-> a, n |-> n] \in Todo(t)
<1>1. /\ tx[t].owner \in Clients /\ tx[t].line \subseteq Tx
      /\ \A a \in tx[t].line : tx[a].todo \subseteq Nat
  <2>1. tx[t].owner \in Clients /\ tx[t].line \subseteq Tx
    BY Numbers DEF SqliteIInv, MadeInOrder
  <2> QED
    BY <2>1 DEF SqliteIInv, SqliteTypeOK, TxRecords
<1>2. ASSUME NEW x \in Todo(t)
      PROVE  /\ x \in Commands
             /\ x.by = tx[t].owner /\ x.tx \in tx[t].line /\ x.n \in tx[x.tx].todo
  <2>1. PICK a \in tx[t].line : x \in [by : {tx[t].owner}, tx : {a}, n : tx[a].todo]
    BY DEF Todo
  <2> QED
    BY <1>1, <2>1 DEF Commands
<1>3. ASSUME NEW a \in tx[t].line, NEW n \in tx[a].todo
      PROVE  [by |-> tx[t].owner, tx |-> a, n |-> n] \in Todo(t)
  <2>1. [by |-> tx[t].owner, tx |-> a, n |-> n] \in [by : {tx[t].owner}, tx : {a}, n : tx[a].todo]
    OBVIOUS
  <2> QED
    BY <2>1 DEF Todo
<1> QED
  BY <1>2, <1>3

\* What do_all() leaves alone.
LEMMA RanKeeps ==
  ASSUME SqliteIInv, NEW t \in 1 .. made, NEW last
  PROVE  /\ Ran(t, last) \in [Tx -> TxRecords]
         /\ \A a \in Tx :
              /\ Ran(t, last)[a].owner = tx[a].owner /\ Ran(t, last)[a].parent = tx[a].parent
              /\ Ran(t, last)[a].line = tx[a].line /\ Ran(t, last)[a].issued = tx[a].issued
              /\ Ran(t, last)[a].exception = tx[a].exception
              /\ Ran(t, last)[a].outcome = tx[a].outcome
              /\ Ran(t, last)[a].todo = IF a \in tx[t].line /\ a <= last THEN {} ELSE tx[a].todo
              /\ a > made => Ran(t, last)[a] = tx[a]
<1>1. tx \in [Tx -> TxRecords] /\ tx[t].line \subseteq 1 .. made /\ made \in Nat
  BY Numbers DEF SqliteIInv, SqliteTypeOK
<1>2. ASSUME NEW a \in Tx
      PROVE  /\ Ran(t, last)[a] \in TxRecords
             /\ Ran(t, last)[a].owner = tx[a].owner /\ Ran(t, last)[a].parent = tx[a].parent
             /\ Ran(t, last)[a].line = tx[a].line /\ Ran(t, last)[a].issued = tx[a].issued
             /\ Ran(t, last)[a].exception = tx[a].exception
             /\ Ran(t, last)[a].outcome = tx[a].outcome
             /\ Ran(t, last)[a].todo = IF a \in tx[t].line /\ a <= last THEN {} ELSE tx[a].todo
             /\ a > made => Ran(t, last)[a] = tx[a]
  <2>1. tx[a] \in TxRecords
    BY <1>1
  <2>2. CASE a \in tx[t].line /\ a <= last
    <3>1. Ran(t, last)[a] = [tx[a] EXCEPT !.todo = {}]
      BY <2>2 DEF Ran
    <3>2. ~ a > made
      BY <1>1, <2>2
    <3> QED
      BY <2>1, <2>2, <3>1, <3>2 DEF TxRecords
  <2>3. CASE ~ (a \in tx[t].line /\ a <= last)
    <3>1. Ran(t, last)[a] = tx[a]
      BY <2>3 DEF Ran
    <3> QED
      BY <2>1, <2>3, <3>1
  <2> QED
    BY <2>2, <2>3
<1>3. Ran(t, last) \in [Tx -> TxRecords]
  <2>1. \A a \in Tx : Ran(t, last)[a] \in TxRecords
    BY <1>2
  <2>2. Ran(t, last) = [a \in Tx |-> Ran(t, last)[a]]
    BY DEF Ran
  <2> QED
    BY <2>1, <2>2
<1> QED
  BY <1>2, <1>3

\* A step that leaves the current transaction alone.
LEMMA WorkKept ==
  ASSUME SqliteIInv, KeepsOld, UNCHANGED <<stack, headless>>, available \subseteq available',
         unit' \subseteq unit, durable' \subseteq durable \cup {x \in Commands : x.tx = NoTx},
         \A t \in 1 .. made : tx[t].outcome = "committed" => tx'[t].outcome = "committed"
  PROVE  /\ {stack[k] : k \in 1 .. Len(stack)}' \subseteq available'
         /\ Nesting' /\ UnitOfFamily' /\ DurableForAReason'
<1>2. /\ stack \in Seq(Tx) /\ Tx \subseteq Nat \ {0} /\ made \in Nat
      /\ \A k \in 1 .. Len(stack) : stack[k] \in available /\ stack[k] \in 1 .. made
      /\ headless \subseteq 1 .. made
      /\ \A x \in durable : x.tx # NoTx => x.tx \in 1 .. made
      /\ made' \in Nat /\ made <= made'
  <2>1. \A x \in durable : x.tx # NoTx => x.tx \in 1 .. made
    BY Numbers DEF SqliteIInv, SqliteTypeOK, Commands, DurableForAReason
  <2>2. headless \subseteq 1 .. made
    BY Numbers DEF SqliteIInv, SqliteTypeOK, Nesting
  <2>3. \A k \in 1 .. Len(stack) : stack[k] \in available /\ stack[k] \in 1 .. made
    BY Numbers DEF SqliteIInv, Nesting, Chain
  <2> QED
    BY <2>1, <2>2, <2>3, Numbers DEF KeepsOld
<1>3. Chain(stack)'
  <2>1. Chain(stack) /\ \A k \in 1 .. Len(stack) : stack[k] \in available'
    BY <1>2 DEF SqliteIInv, Nesting
  <2> QED
    BY <1>2, <2>1, ChainKept
<1>4. Nesting'
  <2>1. stack # <<>> => stack[1] \in 1 .. made
    BY <1>2
  <2>2. \A s \in 1 .. made : tx'[s].parent = tx[s].parent
    BY DEF KeepsOld
  <2>3. stack # <<>> => tx[stack[1]].parent = NoTx \/ stack[1] \in headless
    BY DEF SqliteIInv, Nesting
  <2>4. \A s \in headless : s <= made' /\ tx'[s].parent # NoTx
    BY <1>2, <2>2 DEF SqliteIInv, Nesting
  <2> QED
    BY <1>2, <1>3, <2>1, <2>2, <2>3, <2>4 DEF Nesting
<1>5. UnitOfFamily'
  <2> SUFFICES ASSUME NEW x \in unit
               PROVE  /\ stack # <<>> /\ x.tx \in 1 .. made'
                      /\ stack[1] \in tx'[x.tx].line \/ x.tx \in tx'[stack[1]].line
    BY <1>2 DEF UnitOfFamily
  <2>1. /\ stack # <<>> /\ x.tx \in 1 .. made
        /\ stack[1] \in tx[x.tx].line \/ x.tx \in tx[stack[1]].line
    BY DEF SqliteIInv, UnitOfFamily
  <2>2. stack[1] \in 1 .. made /\ x.tx \in 1 .. made'
    BY <1>2, <2>1
  <2> QED
    BY <2>1, <2>2 DEF KeepsOld
<1>6. DurableForAReason'
  <2> SUFFICES ASSUME NEW x \in durable, x.tx # NoTx
               PROVE  /\ x.tx <= made'
                      /\ tx'[x.tx].parent = NoTx =>
                           \/ tx'[x.tx].outcome = "committed"
                           \/ \E s \in headless : x.tx \in tx'[s].line
    BY <1>2 DEF DurableForAReason
  <2>1. /\ x.tx \in 1 .. made /\ x.tx <= made'
        /\ tx[x.tx].parent = NoTx =>
             tx[x.tx].outcome = "committed" \/ \E s \in headless : x.tx \in tx[s].line
    BY <1>2 DEF SqliteIInv, DurableForAReason
  <2>2. \A s \in headless : tx'[s].line = tx[s].line
    BY <1>2 DEF KeepsOld
  <2> QED
    BY <1>2, <2>1, <2>2 DEF KeepsOld
<1>7. {stack[k] : k \in 1 .. Len(stack)}' \subseteq available'
  BY <1>2
<1> QED
  BY <1>4, <1>5, <1>6, <1>7

\* An item of the transaction t is processed: t is on top of the stack, or was and is closed.
LEMMA Worked ==
  ASSUME SqliteIInv, KeepsFamilies, NEW t \in available, stack = <<>> \/ Top \in {t, tx[t].parent},
         Headless(t),
         \/ stack' = Raised(t) /\ available' = available
         \/ stack' = SubSeq(Raised(t), 1, Len(Raised(t)) - 1) /\ available' = available \ {t},
         stack' = <<>> => unit' = {},
         unit' \subseteq unit \cup Todo(t) \cup {x \in Commands : x.tx = t}
  PROVE  /\ stack' \in Seq(Tx) /\ headless' \subseteq Tx
         /\ {stack[k] : k \in 1 .. Len(stack)}' \subseteq available'
         /\ MadeInOrder' /\ Families' /\ LinesAreChains' /\ LinesNest'
         /\ Nesting' /\ UnitOfFamily'
<1> DEFINE r == Raised(t)
<1>1. /\ r \in Seq(Tx) /\ Len(r) \in Nat \ {0} /\ r[Len(r)] = t
      /\ r[1] = (IF stack = <<>> THEN t ELSE stack[1]) /\ r[1] \in tx[t].line
      /\ Chain(r)
  BY RaisedChain
<1>2. /\ t \in 1 .. made /\ t \in Tx /\ tx[t].line \subseteq 1 .. made /\ 1 .. made \subseteq Tx
      /\ made' = made /\ Tx \subseteq Nat \ {0}
  BY Numbers DEF KeepsFamilies
<1>3. MadeInOrder' /\ Families' /\ LinesAreChains' /\ LinesNest'
  BY FamiliesKept
<1>4. /\ stack' \in Seq(Tx) /\ Len(stack') <= Len(r)
      /\ \A k \in 1 .. Len(stack') : stack'[k] = r[k]
      /\ Chain(stack') /\ \A k \in 1 .. Len(stack') : stack'[k] \in available'
  <2>1. CASE stack' = r /\ available' = available
    <3>1. \A k \in 1 .. Len(r) : r[k] \in available
      BY <1>1 DEF Chain
    <3> HIDE DEF r
    <3> QED
      BY <1>1, <2>1, <3>1
  <2>2. CASE stack' = SubSeq(r, 1, Len(r) - 1) /\ available' = available \ {t}
    <3> HIDE DEF r
    <3>1. r # <<>>
      BY <1>1
    <3> DEFINE q == SubSeq(r, 1, Len(r) - 1)
    <3>2. /\ q \in Seq(Tx) /\ Len(q) = Len(r) - 1
          /\ \A k \in 1 .. Len(q) : q[k] = r[k] /\ q[k] # r[Len(r)] /\ q[k] \in available
          /\ Chain(q)
      BY <1>1, <3>1, ShortenedChain
    <3>3. stack' = q
      BY <2>2
    <3> HIDE DEF q
    <3>4. /\ q \in Seq(Tx) /\ Len(q) <= Len(r)
          /\ \A k \in 1 .. Len(q) : q[k] = r[k] /\ q[k] \in available'
      BY <1>1, <2>2, <3>2
    <3> QED
      BY <3>2, <3>3, <3>4, Zenon
  <2> QED
    BY <2>1, <2>2
<1> HIDE DEF r
<1>5. /\ {stack[k] : k \in 1 .. Len(stack)}' \subseteq available'
      /\ stack' # <<>> => 1 \in 1 .. Len(stack') /\ stack'[1] = r[1]
  BY <1>1, <1>4
<1>6. /\ headless' \subseteq Tx
      /\ headless \subseteq headless'
      /\ \A s \in headless' : s \in headless \/ (s = t /\ tx[t].parent # NoTx)
      /\ stack = <<>> /\ tx[t].parent # NoTx => t \in headless'
  BY <1>2 DEF Headless, SqliteIInv, SqliteTypeOK
<1>7. Nesting'
  <2>1. Chain(stack)'
    <3> DEFINE s == stack'
    <3>1. s \in Seq(Tx) /\ Chain(s) /\ stack' = s /\ \A k \in 1 .. Len(s) : s[k] \in available'
      BY <1>4
    <3> HIDE DEF s
    <3> QED
      BY <3>1, ChainKept, OldKept
  <2>2. stack' # <<>> => tx'[stack'[1]].parent = NoTx \/ stack'[1] \in headless'
    <3> SUFFICES ASSUME stack' # <<>>
                 PROVE  tx'[r[1]].parent = NoTx \/ r[1] \in headless'
      BY <1>5
    <3>1. r[1] \in Tx /\ tx'[r[1]].parent = tx[r[1]].parent
      BY <1>1, <1>2 DEF KeepsFamilies
    <3>2. CASE stack = <<>>
      BY <1>1, <1>6, <3>1, <3>2
    <3>3. CASE stack # <<>>
      <4>1. tx[stack[1]].parent = NoTx \/ stack[1] \in headless
        BY <3>3 DEF SqliteIInv, Nesting
      <4> QED
        BY <1>1, <1>6, <3>1, <3>3, <4>1
    <3> QED
      BY <3>2, <3>3
  <2>3. ASSUME NEW s \in headless' PROVE s <= made /\ tx'[s].parent # NoTx
    <3>1. s \in Tx /\ s <= made /\ tx[s].parent # NoTx
      <4>1. CASE s \in headless
        BY <4>1 DEF SqliteIInv, SqliteTypeOK, Nesting
      <4>2. CASE s = t /\ tx[t].parent # NoTx
        BY <1>2, <4>2
      <4> QED
        BY <1>6, <4>1, <4>2
    <3> QED
      BY <3>1 DEF KeepsFamilies
  <2> QED
    BY <1>2, <2>1, <2>2, <2>3 DEF Nesting
<1>8. UnitOfFamily'
  <2> SUFFICES ASSUME NEW x \in unit'
               PROVE  /\ stack' # <<>> /\ x.tx \in 1 .. made
                      /\ stack'[1] \in tx'[x.tx].line \/ x.tx \in tx'[stack'[1]].line
    BY <1>2 DEF UnitOfFamily
  <2>1. stack' # <<>> /\ stack'[1] = r[1] /\ r[1] \in Tx
    BY <1>1, <1>2, <1>5
  <2>2. x.tx \in 1 .. made /\ (r[1] \in tx[x.tx].line \/ x.tx \in tx[r[1]].line)
    <3>1. CASE x \in unit
      <4>1. /\ stack # <<>> /\ x.tx \in 1 .. made
            /\ stack[1] \in tx[x.tx].line \/ x.tx \in tx[stack[1]].line
        BY <3>1 DEF SqliteIInv, UnitOfFamily
      <4> QED
        BY <1>1, <4>1
    <3>2. CASE x.tx \in tx[t].line
      BY <1>1, <1>2, <3>2 DEF SqliteIInv, LinesAreChains
    <3>3. CASE x.tx = t
      BY <1>1, <1>2, <3>3
    <3> QED
      BY <1>2, <3>1, <3>2, <3>3, TodoOf
  <2>3. tx'[x.tx].line = tx[x.tx].line /\ tx'[r[1]].line = tx[r[1]].line
    BY <1>2, <2>1, <2>2 DEF KeepsFamilies
  <2> QED
    BY <2>1, <2>2, <2>3
<1> QED
  BY <1>3, <1>4, <1>5, <1>6, <1>7, <1>8

\* What becomes durable when the outermost transaction t is committed.
LEMMA MadeDurable ==
  ASSUME SqliteIInv, KeepsFamilies, NEW t \in available, stack = <<>> \/ Top \in {t, tx[t].parent},
         Headless(t),
         \A a \in Tx : tx[a].outcome = "committed" => tx'[a].outcome = "committed",
         \/ durable' = durable
         \/ /\ Len(Raised(t)) = 1 /\ tx'[t].outcome = "committed"
            /\ durable' \subseteq durable \cup unit \cup Todo(t)
  PROVE  DurableForAReason'
<1>1. /\ t \in 1 .. made /\ t \in Tx /\ tx[t].line \subseteq 1 .. made /\ 1 .. made \subseteq Tx
      /\ made' = made /\ Tx \subseteq Nat \ {0} /\ made \in Nat
  BY Numbers DEF KeepsFamilies
<1>2. /\ headless \subseteq headless' /\ headless' \subseteq Tx
      /\ stack = <<>> /\ tx[t].parent # NoTx => t \in headless'
  BY <1>1 DEF Headless, SqliteIInv, SqliteTypeOK
<1> SUFFICES ASSUME NEW x \in durable', x.tx # NoTx
             PROVE  /\ x.tx <= made
                    /\ tx'[x.tx].parent = NoTx =>
                         \/ tx'[x.tx].outcome = "committed"
                         \/ \E s \in headless' : x.tx \in tx'[s].line
  BY <1>1 DEF DurableForAReason
<1>3. CASE x \in durable
  <2>1. /\ x.tx <= made
        /\ tx[x.tx].parent = NoTx =>
             tx[x.tx].outcome = "committed" \/ \E s \in headless : x.tx \in tx[s].line
    BY <1>3 DEF SqliteIInv, DurableForAReason
  <2>2. x.tx \in Tx
    BY <1>3 DEF SqliteIInv, SqliteTypeOK, Commands
  <2>3. \A s \in headless : s \in headless' /\ tx'[s].line = tx[s].line
    BY <1>2 DEF KeepsFamilies
  <2> QED
    BY <2>1, <2>2, <2>3 DEF KeepsFamilies
<1>4. CASE x \in unit \cup Todo(t) /\ Len(Raised(t)) = 1 /\ tx'[t].outcome = "committed"
  <2>1. /\ Raised(t)[1] = t
        /\ stack # <<>> => stack[1] = t
    BY <1>4, RaisedChain
  <2>2. x.tx \in 1 .. made /\ (t \in tx[x.tx].line \/ x.tx \in tx[t].line)
    <3>1. CASE x \in unit
      BY <2>1, <3>1 DEF SqliteIInv, UnitOfFamily
    <3>2. CASE x \in Todo(t)
      BY <1>1, <3>2, TodoOf
    <3> QED
      BY <1>4, <3>1, <3>2
  <2>3. x.tx <= made /\ x.tx \in Tx
    BY <1>1, <2>2
  <2>4. ASSUME tx'[x.tx].parent = NoTx
        PROVE  tx'[x.tx].outcome = "committed" \/ \E s \in headless' : x.tx \in tx'[s].line
    <3>1. tx[x.tx].parent = NoTx
      BY <2>3, <2>4 DEF KeepsFamilies
    <3>2. tx[x.tx].line = {x.tx}
      BY <2>2, <3>1 DEF SqliteIInv, Families
    <3>3. CASE x.tx = t
      BY <1>4, <3>3
    <3>4. CASE x.tx # t
      <4>1. x.tx \in tx[t].line /\ tx[t].parent # NoTx
        BY <1>1, <2>2, <3>2, <3>4 DEF SqliteIInv, Families
      <4>2. t \in headless'
        BY <1>2, <2>1, <4>1 DEF SqliteIInv, Nesting
      <4>3. tx'[t].line = tx[t].line
        BY <1>1 DEF KeepsFamilies
      <4> QED
        BY <4>1, <4>2, <4>3
    <3> QED
      BY <3>3, <3>4
  <2> QED
    BY <2>3, <2>4
<1> QED
  BY <1>3, <1>4

-----------------------------------------------------------------------------
(* The steps of the clients                                                *)

LEMMA SqliteInit == Init => SqliteIInv
<1> SUFFICES ASSUME Init PROVE SqliteIInv
  OBVIOUS
<1> USE SqliteAssumption
<1>1. SqliteTypeOK
  <2>1. NewTx \in TxRecords
    BY DEF NewTx, TxRecords, Outcomes
  <2>2. \A c \in Clients :
          [pc |-> "idle", item |-> NoItem(c), open |-> <<>>, raised |-> FALSE, asked |-> 0]
            \in ThreadRecords
    BY DEF ThreadRecords, NoItem, Items
  <2>3. tx \in [Tx -> TxRecords] /\ thread \in [Clients -> ThreadRecords]
    BY <2>1, <2>2 DEF Init
  <2>4. {stack[k] : k \in 1 .. Len(stack)} \subseteq available
    BY DEF Init
  <2>5. queue \in Seq(Items) /\ delayedQ \in Seq(Items) /\ delayedT \in Seq(Items)
        /\ stack \in Seq(Tx)
    BY DEF Init
  <2>6. made \in 0 .. MaxTx /\ failures \in Nat
    BY DEF Init
  <2> QED
    BY <2>3, <2>4, <2>5, <2>6 DEF Init, SqliteTypeOK
<1>2. MadeInOrder /\ Families /\ LinesAreChains /\ LinesNest
  BY DEF Init, MadeInOrder, Families, LinesAreChains, LinesNest
<1>3. Blocks /\ Calls
  BY DEF Init, Blocks, BlocksOf, Calls, CallOf, Asking
<1>4. ItemsAreAwaited /\ AwaitedOnce
  <2>1. \A c : Count(c, queue) = 0 /\ Count(c, delayedQ) = 0 /\ Count(c, delayedT) = 0
    BY EmptyList DEF Init
  <2>2. \A i : ~ Listed(i)
    BY EmptyList DEF Init, Listed
  <2> QED
    BY <2>1, <2>2 DEF Init, ItemsAreAwaited, AwaitedOnce
<1>5. NoDelay /\ Nesting /\ UnitOfFamily /\ DurableForAReason
  BY DEF Init, NoDelay, Nesting, Chain, UnitOfFamily, DurableForAReason
<1> QED
  BY <1>1, <1>2, <1>3, <1>4, <1>5 DEF SqliteIInv

\* The transaction of the innermost block.
LEMMA InnermostOpen ==
  ASSUME SqliteIInv, NEW c \in Clients, thread[c].open # <<>>
  PROVE  /\ Innermost(c) \in Tx /\ Innermost(c) \in available /\ Innermost(c) \in 1 .. made
         /\ tx[Innermost(c)].owner = c /\ tx[Innermost(c)].outcome = "open"
         /\ Len(thread[c].open) \in Nat \ {0}
         /\ \A k \in 1 .. Len(thread[c].open) :
              /\ thread[c].open[k] \in available /\ thread[c].open[k] \in Tx
              /\ k # Len(thread[c].open) => thread[c].open[k] # Innermost(c)
<1> DEFINE o == thread[c].open
<1>1. o \in Seq(Tx) /\ Len(o) \in Nat \ {0}
  <2>1. o \in Seq(Tx)
    BY DEF SqliteIInv, SqliteTypeOK, ThreadRecords
  <2> QED
    BY <2>1
<1>2. /\ \A k \in 1 .. Len(o) : /\ o[k] \in available /\ tx[o[k]].owner = c
                               /\ tx[o[k]].outcome = "open"
                               /\ \A j \in 1 .. (k - 1) : o[j] # o[k]
      /\ Len(o) \in 1 .. Len(o)
  BY <1>1 DEF SqliteIInv, Blocks, BlocksOf
<1>3. Innermost(c) = o[Len(o)] /\ available \subseteq Tx /\ available \subseteq 1 .. made
  BY Numbers DEF Innermost
<1> HIDE DEF o
<1>4. \A k \in 1 .. Len(o) : k # Len(o) => o[k] # o[Len(o)]
  BY <1>1, <1>2
<1> QED
  BY <1>1, <1>2, <1>3, <1>4 DEF o

LEMMA SameBlocks ==
  ASSUME SqliteIInv, KeepsFamilies, NEW c \in Clients, thread'[c].open = thread[c].open,
         available \subseteq available', \A t \in Tx : tx'[t].outcome = tx[t].outcome
  PROVE  BlocksOf(c)'
<1>1. thread[c].open \in Seq(Tx) /\ available \subseteq Tx
  BY Numbers DEF SqliteIInv, SqliteTypeOK, ThreadRecords
<1>2. /\ Len(thread[c].open) \in Nat
      /\ \A k \in 1 .. Len(thread[c].open) : thread[c].open[k] \in available
  BY <1>1 DEF SqliteIInv, Blocks, BlocksOf
<1> QED
  BY <1>1, <1>2, BlocksLeft, OldKept

\* the transactions of the other threads do not change, and what is committed remains so
Spares(c) ==
  \A t \in Tx :
    /\ tx[t].outcome = "committed" => tx'[t].outcome = "committed"
    /\ tx[t].owner # c => tx'[t].outcome = tx[t].outcome /\ tx'[t].issued = tx[t].issued

\* A step of a client that makes no transaction: it moves itself, or asks the worker.
LEMMA ClientStep ==
  ASSUME SqliteIInv, KeepsFamilies, NEW c \in Clients, NEW r \in ThreadRecords,
         thread' = [thread EXCEPT ![c] = r], tx' \in [Tx -> TxRecords],
         UNCHANGED <<delayedQ, delayedT, stack, available, headless, unit, durable, worker>>,
         closed' \in BOOLEAN, pleaseStop' \in BOOLEAN, failures' \in Nat,
         Spares(c), BlocksOf(c)', CallOf(c)',
         \/ /\ queue' = queue
            /\ r.pc = "waiting" <=> thread[c].pc = "waiting"
            /\ r.pc = "waiting" => r.item = thread[c].item
         \/ /\ thread[c].pc # "waiting" /\ r.pc = "waiting"
            /\ r.item.by = c /\ queue' = Append(queue, r.item)
  PROVE  SqliteIInv'
<1>1. thread \in [Clients -> ThreadRecords] /\ available \subseteq Tx
  BY Numbers DEF SqliteIInv, SqliteTypeOK
<1>2. thread' \in [Clients -> ThreadRecords] /\ thread'[c] = r
      /\ \A d \in Clients \ {c} : thread'[d] = thread[d]
  BY <1>1
<1>3. /\ {stack[k] : k \in 1 .. Len(stack)}' \subseteq available'
      /\ MadeInOrder' /\ Families' /\ LinesAreChains' /\ LinesNest'
      /\ Nesting' /\ UnitOfFamily' /\ DurableForAReason'
  <2>1. \A t \in 1 .. made : tx[t].outcome = "committed" => tx'[t].outcome = "committed"
    BY Numbers DEF Spares
  <2> QED
    BY <2>1, WorkKept, FamiliesKept, OldKept
<1>4. Blocks' /\ Calls'
  <2>1. ASSUME NEW d \in Clients \ {c} PROVE BlocksOf(d)' /\ CallOf(d)'
    BY <1>1, <1>2, OtherThread, OldKept DEF Spares
  <2> QED
    BY <2>1 DEF Blocks, Calls
<1>5. queue' \in Seq(Items) /\ ItemsAreAwaited' /\ AwaitedOnce' /\ NoDelay'
  <2>1. CASE /\ queue' = queue
             /\ r.pc = "waiting" <=> thread[c].pc = "waiting"
             /\ r.pc = "waiting" => r.item = thread[c].item
    <3>1. ASSUME NEW d \in Clients
          PROVE  /\ thread'[d].pc = "waiting" <=> thread[d].pc = "waiting"
                 /\ thread[d].pc = "waiting" => thread'[d].item = thread[d].item
      BY <1>2, <2>1
    <3>2. ItemsAreAwaited' /\ AwaitedOnce' /\ NoDelay'
      BY <2>1, <3>1, ListsKept
    <3> QED
      BY <2>1, <3>2 DEF SqliteIInv, SqliteTypeOK
  <2>2. CASE /\ thread[c].pc # "waiting" /\ r.pc = "waiting"
             /\ r.item.by = c /\ queue' = Append(queue, r.item)
    <3>1. r.item \in Items
      BY DEF ThreadRecords
    <3>2. queue' \in Seq(Items) /\ ItemsAreAwaited' /\ AwaitedOnce'
      BY <1>2, <2>2, <3>1, Posted
    <3> QED
      BY <3>2 DEF NoDelay, SqliteIInv
  <2> QED
    BY <2>1, <2>2
<1>6. SqliteTypeOK'
  BY <1>2, <1>3, <1>5 DEF SqliteIInv, SqliteTypeOK, KeepsFamilies
<1> QED
  BY <1>3, <1>4, <1>5, <1>6 DEF SqliteIInv

\* steps that do not touch the transactions
LEMMA NothingMade ==
  ASSUME UNCHANGED <<tx, made>>
  PROVE  KeepsFamilies /\ (\A t \in Tx : tx'[t] = tx[t]) /\ \A c \in Clients : Spares(c)
BY DEF KeepsFamilies, Spares

\* It goes on in the block it is in, and asks for nothing.
LEMMA ClientGoesOn ==
  ASSUME SqliteIInv, NEW c \in Clients, NEW r \in ThreadRecords,
         thread' = [thread EXCEPT ![c] = r], r.open = thread[c].open,
         thread[c].pc # "waiting", r.pc \notin {"adding", "waiting"},
         UNCHANGED <<workerVars, tx, made, available, headless, unit, durable>>,
         closed' \in BOOLEAN, pleaseStop' \in BOOLEAN, failures' \in Nat
  PROVE  SqliteIInv'
<1>1. KeepsFamilies /\ Spares(c) /\ \A t \in Tx : tx'[t] = tx[t]
  BY NothingMade
<1>2. tx' \in [Tx -> TxRecords] /\ thread'[c] = r
  BY DEF SqliteIInv, SqliteTypeOK
<1>3. BlocksOf(c)'
  BY <1>1, <1>2, SameBlocks
<1>4. CallOf(c)'
  BY <1>2 DEF CallOf, Asking
<1> QED
  BY <1>1, <1>2, <1>3, <1>4, ClientStep DEF workerVars

LEMMA RaiseKeeps == ASSUME SqliteIInv, NEW c \in Clients, Raise(c) PROVE SqliteIInv'
<1> DEFINE r == [thread[c] EXCEPT !.raised = TRUE]
<1>1. r \in ThreadRecords /\ r.open = thread[c].open /\ r.pc = "idle" /\ thread[c].pc = "idle"
  BY DEF SqliteIInv, SqliteTypeOK, ThreadRecords, Raise, InBlock
<1>2. thread' = [thread EXCEPT ![c] = r]
  BY DEF Raise
<1>3. failures' \in Nat
  BY DEF Raise, SqliteIInv, SqliteTypeOK
<1> HIDE DEF r
<1> QED
  BY <1>1, <1>2, <1>3, ClientGoesOn DEF Raise, SqliteIInv, SqliteTypeOK

LEMMA CatchKeeps == ASSUME SqliteIInv, NEW c \in Clients, Catch(c) PROVE SqliteIInv'
<1> DEFINE r == [thread[c] EXCEPT !.raised = FALSE]
<1>1. r \in ThreadRecords /\ r.open = thread[c].open /\ r.pc = "idle" /\ thread[c].pc = "idle"
  BY DEF SqliteIInv, SqliteTypeOK, ThreadRecords, Catch
<1>2. thread' = [thread EXCEPT ![c] = r]
  BY DEF Catch
<1> HIDE DEF r
<1> QED
  BY <1>1, <1>2, ClientGoesOn DEF Catch, dbVars, SqliteIInv, SqliteTypeOK

LEMMA PleaseStopKeeps == ASSUME SqliteIInv, NEW c \in Clients, PleaseStop(c) PROVE SqliteIInv'
<1> DEFINE r == [thread[c] EXCEPT !.pc = "joining"]
<1>1. r \in ThreadRecords /\ r.open = thread[c].open /\ r.pc = "joining"
      /\ thread[c].pc = "stopping"
  BY DEF SqliteIInv, SqliteTypeOK, ThreadRecords, PleaseStop
<1>2. thread' = [thread EXCEPT ![c] = r]
  BY DEF PleaseStop
<1> HIDE DEF r
<1> QED
  BY <1>1, <1>2, ClientGoesOn DEF PleaseStop, dbVars, SqliteIInv, SqliteTypeOK

LEMMA JoinedKeeps == ASSUME SqliteIInv, NEW c \in Clients, Joined(c) PROVE SqliteIInv'
<1> DEFINE r == [thread[c] EXCEPT !.pc = "over"]
<1>1. r \in ThreadRecords /\ r.open = thread[c].open /\ r.pc = "over" /\ thread[c].pc = "joining"
  BY DEF SqliteIInv, SqliteTypeOK, ThreadRecords, Joined
<1>2. thread' = [thread EXCEPT ![c] = r]
  BY DEF Joined
<1> HIDE DEF r
<1> QED
  BY <1>1, <1>2, ClientGoesOn DEF Joined, dbVars, SqliteIInv, SqliteTypeOK

LEMMA AddKeeps == ASSUME SqliteIInv, NEW c \in Clients, Add(c) PROVE SqliteIInv'
<1> DEFINE r == [thread[c] EXCEPT !.pc = "waiting"]
<1>1. /\ thread[c].pc = "adding" /\ thread[c].item.by = c
      /\ r \in ThreadRecords /\ r.open = thread[c].open /\ r.item = thread[c].item
      /\ r.pc = "waiting"
  BY DEF SqliteIInv, SqliteTypeOK, ThreadRecords, Add, Calls, CallOf, Asking
<1>2. thread' = [thread EXCEPT ![c] = r] /\ queue' = Append(queue, r.item)
  BY <1>1 DEF Add
<1> HIDE DEF r
<1>3. KeepsFamilies /\ Spares(c) /\ \A t \in Tx : tx'[t] = tx[t]
  BY NothingMade DEF Add
<1>4. tx' \in [Tx -> TxRecords] /\ thread'[c] = r
  BY <1>2 DEF SqliteIInv, SqliteTypeOK, Add
<1>5. BlocksOf(c)'
  BY <1>1, <1>3, <1>4, SameBlocks DEF Add
<1>6. CallOf(c)'
  <2>1. CallOf(c) /\ Asking(c)
    BY <1>1 DEF SqliteIInv, Calls, Asking
  <2> QED
    BY <1>1, <1>4, <2>1 DEF CallOf, Innermost, Add
<1> QED
  BY <1>1, <1>2, <1>3, <1>4, <1>5, <1>6, ClientStep DEF Add, dbVars, SqliteIInv, SqliteTypeOK

LEMMA StopKeeps == ASSUME SqliteIInv, NEW c \in Clients, Stop(c) PROVE SqliteIInv'
<1> DEFINE item == [by |-> c, kind |-> "commit", tx |-> NoTx, n |-> 0]
           r == [thread[c] EXCEPT !.pc = "waiting", !.item = item]
<1>1. /\ thread[c].pc = "idle" /\ item \in Items
      /\ r \in ThreadRecords /\ r.open = thread[c].open /\ r.item = item /\ r.pc = "waiting"
  <2>1. item \in Items
    BY DEF Items
  <2> HIDE DEF item
  <2> QED
    BY <2>1 DEF SqliteIInv, SqliteTypeOK, ThreadRecords, Stop
<1>2. thread' = [thread EXCEPT ![c] = r] /\ queue' = Append(queue, r.item)
  BY <1>1 DEF Stop
<1>3. r.item.by = c /\ r.item.tx = NoTx
  BY <1>1
<1> HIDE DEF r, item
<1>4. KeepsFamilies /\ Spares(c) /\ \A t \in Tx : tx'[t] = tx[t]
  BY NothingMade DEF Stop
<1>5. tx' \in [Tx -> TxRecords] /\ thread'[c] = r
  BY <1>2 DEF SqliteIInv, SqliteTypeOK, Stop
<1>6. BlocksOf(c)'
  BY <1>1, <1>4, <1>5, SameBlocks DEF Stop
<1>7. CallOf(c)'
  BY <1>3, <1>5 DEF CallOf
<1> QED
  BY <1>1, <1>2, <1>3, <1>4, <1>5, <1>6, <1>7, ClientStep
    DEF Stop, dbVars, SqliteIInv, SqliteTypeOK

\* a step that changes one transaction, but not its place in the family
LEMMA OneChanged ==
  ASSUME SqliteIInv, NEW t \in 1 .. made, NEW z \in TxRecords, tx' = [tx EXCEPT ![t] = z],
         made' = made,
         z.owner = tx[t].owner, z.parent = tx[t].parent, z.line = tx[t].line
  PROVE  /\ tx' \in [Tx -> TxRecords] /\ tx'[t] = z
         /\ \A a \in Tx \ {t} : tx'[a] = tx[a]
         /\ KeepsFamilies
<1>1. t \in Tx /\ tx \in [Tx -> TxRecords] /\ made \in Nat
  BY Numbers DEF SqliteIInv, SqliteTypeOK
<1>2. tx' \in [Tx -> TxRecords] /\ tx'[t] = z /\ \A a \in Tx \ {t} : tx'[a] = tx[a]
  BY <1>1
<1> QED
  BY <1>1, <1>2 DEF KeepsFamilies

LEMMA ExecuteKeeps == ASSUME SqliteIInv, NEW c \in Clients, Execute(c) PROVE SqliteIInv'
<1> DEFINE t == Innermost(c)
           r == thread[c]
<1>1. /\ t \in Tx /\ t \in 1 .. made /\ tx[t].owner = c /\ thread[c].pc = "idle"
      /\ r \in ThreadRecords /\ thread' = [thread EXCEPT ![c] = r] /\ tx[t] \in TxRecords
      /\ tx[t].issued \in Nat
  BY InnermostOpen DEF Execute, InBlock, SqliteIInv, SqliteTypeOK, TxRecords
<1> DEFINE n == tx[t].issued + 1
           d == tx[t].todo \cup {n}
           z == [tx[t] EXCEPT !.issued = n, !.todo = d]
<1>2. tx' = [tx EXCEPT ![t] = z] /\ made' = made
  BY DEF Execute
<1> HIDE DEF t
<1>11. d \in SUBSET Nat /\ n \in Nat
  BY <1>1 DEF TxRecords
<1> HIDE DEF d, n
<1>3. /\ z \in TxRecords /\ z.owner = tx[t].owner /\ z.parent = tx[t].parent
      /\ z.line = tx[t].line /\ z.outcome = tx[t].outcome
  BY <1>1, <1>11 DEF TxRecords
<1> HIDE DEF z
<1>4. /\ tx' \in [Tx -> TxRecords] /\ tx'[t] = z
      /\ \A a \in Tx \ {t} : tx'[a] = tx[a]
      /\ KeepsFamilies
  BY <1>1, <1>2, <1>3, OneChanged
<1>5. thread'[c] = thread[c]
  BY DEF Execute
<1>6. BlocksOf(c)'
  BY <1>3, <1>4, <1>5, SameBlocks DEF Execute
<1>7. CallOf(c)'
  BY <1>1, <1>5 DEF CallOf, Asking
<1>8. Spares(c)
  BY <1>1, <1>3, <1>4 DEF Spares
<1> HIDE DEF r
<1>9. /\ UNCHANGED <<delayedQ, delayedT, stack, available, headless, unit, durable, worker>>
      /\ UNCHANGED <<queue, thread>>
      /\ closed' \in BOOLEAN /\ pleaseStop' \in BOOLEAN /\ failures' \in Nat
  BY DEF Execute, workerVars, dbVars, SqliteIInv, SqliteTypeOK
<1>10. /\ queue' = queue
       /\ r.pc = "waiting" <=> thread[c].pc = "waiting"
       /\ r.pc = "waiting" => r.item = thread[c].item
  BY <1>9 DEF r
<1> QED
  BY <1>1, <1>4, <1>6, <1>7, <1>8, <1>9, <1>10, ClientStep

LEMMA QueryOutsideKeeps ==
  ASSUME SqliteIInv, NEW c \in Clients, QueryOutside(c) PROVE SqliteIInv'
<1>1. thread[c] \in ThreadRecords /\ thread[c].pc = "idle" /\ thread[c].asked \in Nat
  BY DEF SqliteIInv, SqliteTypeOK, ThreadRecords, QueryOutside
<1>2. CASE closed
  <2> DEFINE r == [thread[c] EXCEPT !.raised = TRUE]
  <2>1. r \in ThreadRecords /\ r.open = thread[c].open /\ r.pc = "idle"
    BY <1>1 DEF ThreadRecords
  <2>2. thread' = [thread EXCEPT ![c] = r]
    BY <1>2 DEF QueryOutside
  <2> HIDE DEF r
  <2> QED
    BY <1>1, <2>1, <2>2, ClientGoesOn DEF QueryOutside, dbVars, SqliteIInv, SqliteTypeOK
<1>3. CASE ~ closed
  <2> DEFINE n == thread[c].asked + 1
             item == [by |-> c, kind |-> "query", tx |-> NoTx, n |-> n]
             r == [thread[c] EXCEPT !.pc = "adding", !.asked = n, !.item = item]
  <2>1. /\ item \in Items
        /\ r \in ThreadRecords /\ r.open = thread[c].open /\ r.item = item /\ r.pc = "adding"
    <3>1. item \in Items /\ n \in Nat
      BY <1>1 DEF Items
    <3> HIDE DEF item, n
    <3> QED
      BY <1>1, <3>1 DEF ThreadRecords
  <2>2. thread' = [thread EXCEPT ![c] = r]
    BY <1>3 DEF QueryOutside
  <2>3. r.item.by = c /\ r.item.tx = NoTx
    BY <2>1
  <2> HIDE DEF r, item
  <2>4. KeepsFamilies /\ Spares(c) /\ \A t \in Tx : tx'[t] = tx[t]
    BY NothingMade DEF QueryOutside
  <2>5. tx' \in [Tx -> TxRecords] /\ thread'[c] = r
    BY <2>2 DEF SqliteIInv, SqliteTypeOK, QueryOutside
  <2>6. BlocksOf(c)'
    BY <2>1, <2>4, <2>5, SameBlocks DEF QueryOutside
  <2>7. CallOf(c)'
    BY <2>3, <2>5 DEF CallOf
  <2> QED
    BY <1>1, <2>1, <2>2, <2>4, <2>5, <2>6, <2>7, ClientStep
      DEF QueryOutside, workerVars, dbVars, SqliteIInv, SqliteTypeOK
<1> QED
  BY <1>2, <1>3

LEMMA QueryKeeps == ASSUME SqliteIInv, NEW c \in Clients, Query(c) PROVE SqliteIInv'
<1> DEFINE t == Innermost(c)
           item == [by |-> c, kind |-> "query", tx |-> t, n |-> tx[t].issued + 1]
           r == IF closed THEN [thread[c] EXCEPT !.raised = TRUE, !.open = thread[c].open]
                ELSE [thread[c] EXCEPT !.pc = "adding", !.item = item]
<1>1. /\ t \in Tx /\ t \in 1 .. made /\ tx[t].owner = c /\ thread[c].pc = "idle"
      /\ thread[c] \in ThreadRecords /\ thread[c].open # <<>> /\ tx[t] \in TxRecords
      /\ t = thread[c].open[Len(thread[c].open)] /\ tx[t].issued \in Nat
  BY InnermostOpen DEF Query, InBlock, SqliteIInv, SqliteTypeOK, Innermost, TxRecords
<1> DEFINE n == tx[t].issued + 1
           z == [tx[t] EXCEPT !.issued = n]
<1>2. tx' = [tx EXCEPT ![t] = z] /\ made' = made /\ thread' = [thread EXCEPT ![c] = r]
  BY DEF Query, Ask
<1> HIDE DEF t
<1>3. /\ z \in TxRecords /\ z.owner = tx[t].owner /\ z.parent = tx[t].parent
      /\ z.line = tx[t].line /\ z.outcome = tx[t].outcome /\ z.issued = tx[t].issued + 1
  <2>1. n \in Nat /\ n = tx[t].issued + 1
    BY <1>1
  <2> HIDE DEF n
  <2> QED
    BY <1>1, <2>1 DEF TxRecords
<1> HIDE DEF z
<1>6. /\ tx' \in [Tx -> TxRecords] /\ tx'[t] = z
      /\ \A a \in Tx \ {t} : tx'[a] = tx[a]
      /\ KeepsFamilies
  BY <1>1, <1>2, <1>3, OneChanged
<1>4. item \in Items
  BY <1>1, <1>3 DEF Items
<1>5. /\ r \in ThreadRecords /\ r.open = thread[c].open
      /\ r.pc \in {"idle", "adding"}
      /\ r.pc = "adding" => r.item.by = c /\ r.item.tx = t /\ r.item.n = tx'[t].issued
  <2>1. item.by = c /\ item.tx = t /\ item.n = tx'[t].issued
    BY <1>3, <1>6
  <2> HIDE DEF item
  <2> QED
    BY <1>1, <1>4, <2>1 DEF ThreadRecords
<1> HIDE DEF r, item
<1>7. thread'[c] = r
  BY <1>2 DEF SqliteIInv, SqliteTypeOK
<1>8. BlocksOf(c)'
  BY <1>3, <1>5, <1>6, <1>7, SameBlocks DEF Query
<1>9. CallOf(c)'
  BY <1>1, <1>5, <1>7 DEF CallOf, Asking, Innermost
<1>10. Spares(c)
  BY <1>1, <1>3, <1>6 DEF Spares
<1>11. /\ UNCHANGED <<delayedQ, delayedT, stack, available, headless, unit, durable, worker>>
       /\ UNCHANGED queue
       /\ closed' \in BOOLEAN /\ pleaseStop' \in BOOLEAN /\ failures' \in Nat
  BY DEF Query, workerVars, dbVars, SqliteIInv, SqliteTypeOK
<1>12. /\ queue' = queue
       /\ r.pc = "waiting" <=> thread[c].pc = "waiting"
       /\ r.pc = "waiting" => r.item = thread[c].item
  BY <1>1, <1>5, <1>11
<1> QED
  BY <1>2, <1>5, <1>6, <1>8, <1>9, <1>10, <1>11, <1>12, ClientStep

LEMMA ExitKeeps == ASSUME SqliteIInv, NEW c \in Clients, Exit(c) PROVE SqliteIInv'
<1> DEFINE t == Innermost(c)
           o == thread[c].open
           s == SubSeq(o, 1, Len(o) - 1)
           item == [by |-> c, kind |-> IF thread[c].raised THEN "rollback" ELSE "commit",
                    tx |-> t, n |-> 0]
           r == IF closed THEN [thread[c] EXCEPT !.raised = TRUE, !.open = s]
                ELSE [thread[c] EXCEPT !.pc = "adding", !.item = item]
           z == IF closed THEN [tx[t] EXCEPT !.outcome = "failed"] ELSE tx[t]
<1>1. /\ t \in Tx /\ t \in 1 .. made /\ tx[t].owner = c /\ thread[c].pc = "idle"
      /\ tx[t].outcome = "open" /\ tx[t] \in TxRecords
      /\ thread[c] \in ThreadRecords /\ o # <<>> /\ t = o[Len(o)] /\ o \in Seq(Tx)
      /\ Len(o) \in Nat \ {0}
      /\ \A k \in 1 .. Len(o) : o[k] \in available /\ o[k] \in Tx /\ (k # Len(o) => o[k] # t)
  BY InnermostOpen DEF Exit, InBlock, SqliteIInv, SqliteTypeOK, Innermost, ThreadRecords
<1>2. item \in Items /\ item.kind # "query" /\ item.by = c /\ item.tx = t
  BY <1>1 DEF Items
<1>3. thread' = [thread EXCEPT ![c] = r]
  <2>1. Ask(c, item)
    BY DEF Exit
  <2> HIDE DEF item
  <2> QED
    BY <1>2, <2>1 DEF Ask
<1>4. tx' = [tx EXCEPT ![t] = z] /\ made' = made
  BY <1>1 DEF Exit, SqliteIInv, SqliteTypeOK
<1> HIDE DEF t, item
<1>5. /\ z \in TxRecords /\ z.owner = tx[t].owner /\ z.parent = tx[t].parent
      /\ z.line = tx[t].line /\ z.issued = tx[t].issued
      /\ ~ closed => z = tx[t]
  BY <1>1 DEF TxRecords, Outcomes
<1>6. s \in Seq(Tx) /\ Len(s) = Len(o) - 1 /\ \A k \in 1 .. (Len(o) - 1) : s[k] = o[k]
  <2>1. Len(o) - 1 \in Nat /\ Len(o) - 1 <= Len(o)
    BY <1>1
  <2> QED
    BY <1>1, <2>1, Prefix
<1> HIDE DEF z, s
<1>7. /\ r \in ThreadRecords /\ r.pc \in {"idle", "adding"}
      /\ closed => r.open = s /\ r.pc = "idle"
      /\ ~ closed => r.open = o /\ r.item = item
  BY <1>1, <1>2, <1>6 DEF ThreadRecords
<1> HIDE DEF r
<1>8. /\ tx' \in [Tx -> TxRecords] /\ tx'[t] = z
      /\ \A a \in Tx \ {t} : tx'[a] = tx[a]
      /\ KeepsFamilies
  BY <1>1, <1>4, <1>5, OneChanged
<1>9. thread'[c] = r /\ available' = available
  BY <1>3 DEF SqliteIInv, SqliteTypeOK, Exit
<1>10. BlocksOf(c)'
  <2>1. CASE closed
    <3> DEFINE p == thread'[c].open
    <3>1. p = s
      BY <1>7, <1>9, <2>1
    <3>2. o = thread[c].open
      OBVIOUS
    <3> HIDE DEF o, p
    <3>3. Len(p) \in Nat /\ Len(p) <= Len(o)
      BY <1>1, <1>6, <3>1
    <3>4. \A k \in 1 .. Len(p) :
            p[k] = o[k] /\ o[k] \in available' /\ tx'[o[k]].outcome = tx[o[k]].outcome
      <4>1. \A k \in 1 .. Len(p) : p[k] = o[k] /\ o[k] \in available /\ o[k] \in Tx \ {t}
        BY <1>1, <1>6, <3>1
      <4> QED
        BY <1>8, <1>9, <4>1
    <3> QED
      BY <3>2, <3>3, <3>4, BlocksLeft, <1>8, OldKept DEF p
  <2>2. CASE ~ closed
    <3>1. thread'[c].open = thread[c].open /\ \A a \in Tx : tx'[a].outcome = tx[a].outcome
      BY <1>5, <1>7, <1>8, <1>9, <2>2
    <3> QED
      BY <1>8, <1>9, <3>1, SameBlocks
  <2> QED
    BY <2>1, <2>2
<1>11. CallOf(c)'
  <2>1. CASE closed
    BY <1>7, <1>9, <2>1 DEF CallOf, Asking
  <2>2. CASE ~ closed
    BY <1>1, <1>2, <1>7, <1>9, <2>2 DEF CallOf, Innermost
  <2> QED
    BY <2>1, <2>2
<1>12. Spares(c)
  BY <1>1, <1>5, <1>8 DEF Spares
<1>13. /\ UNCHANGED <<delayedQ, delayedT, stack, available, headless, unit, durable, worker>>
       /\ closed' \in BOOLEAN /\ pleaseStop' \in BOOLEAN /\ failures' \in Nat
       /\ queue' = queue
  BY DEF Exit, workerVars, dbVars, SqliteIInv, SqliteTypeOK
<1>14. /\ queue' = queue
       /\ r.pc = "waiting" <=> thread[c].pc = "waiting"
       /\ r.pc = "waiting" => r.item = thread[c].item
  BY <1>1, <1>7, <1>13
<1> QED
  BY <1>3, <1>7, <1>8, <1>10, <1>11, <1>12, <1>13, <1>14, ClientStep

LEMMA OpenKeeps == ASSUME SqliteIInv, NEW c \in Clients, Open(c) PROVE SqliteIInv'
<1> DEFINE n == made + 1
           o == thread[c].open
<1>1. /\ made \in Nat /\ MaxTx \in Nat /\ n \in Tx /\ n \in Nat /\ made' = n
      /\ 1 .. made \subseteq Tx /\ available \subseteq 1 .. made /\ Tx \subseteq Nat \ {0}
      /\ \A t \in 1 .. n : t \in 1 .. made \/ t = n
      /\ \A t \in 1 .. made : t # n /\ t \in 1 .. n
      /\ tx \in [Tx -> TxRecords]
      /\ \A t \in 1 .. made : t \in tx[t].line /\ tx[t].line \subseteq 1 .. made
  BY Numbers DEF Open, SqliteIInv, SqliteTypeOK, Tx
<1>2. PICK p \in Mine(c) \cup {NoTx} :
        tx' = [tx EXCEPT ![n] =
                [NewTx EXCEPT !.owner = c, !.parent = p, !.outcome = "open",
                              !.line = {n} \cup (IF p = NoTx THEN {} ELSE tx[p].line)]]
  BY DEF Open
<1> DEFINE line == {n} \cup (IF p = NoTx THEN {} ELSE tx[p].line)
           z == [NewTx EXCEPT !.owner = c, !.parent = p, !.outcome = "open", !.line = line]
<1>3. p # NoTx => p \in 1 .. made /\ tx[p].owner = c
  BY <1>1 DEF Mine
<1>4. available' = available \cup {n} /\ thread' = [thread EXCEPT ![c].open = Append(o, n)]
      /\ thread[c].pc = "idle"
      /\ UNCHANGED <<queue, delayedQ, delayedT, stack, worker, closed, pleaseStop, unit, durable,
                     failures, headless>>
  BY DEF Open, workerVars, dbVars
<1> HIDE DEF n
<1>5. line \subseteq Tx /\ line \in SUBSET Tx /\ n \in line /\ line \subseteq 1 .. n
  BY <1>1, <1>3
<1> HIDE DEF line
<1>6. /\ z \in TxRecords /\ z.owner = c /\ z.parent = p /\ z.line = line /\ z.outcome = "open"
  BY <1>1, <1>3, <1>5 DEF TxRecords, NewTx, Outcomes
<1>7. tx' = [tx EXCEPT ![n] = z]
  BY <1>2 DEF line
<1> HIDE DEF z
<1>8. /\ tx' \in [Tx -> TxRecords] /\ tx'[n] = z
      /\ \A t \in Tx \ {n} : tx'[t] = tx[t]
      /\ \A t \in 1 .. made : tx'[t] = tx[t]
  BY <1>1, <1>6, <1>7
<1>9. KeepsOld
  BY <1>1, <1>8 DEF KeepsOld
<1>10. MadeInOrder'
  <2>1. \A t \in Tx : t > n => t > made /\ t # n
    <3>1. made \in Nat /\ n = made + 1 /\ Tx \subseteq Nat
      BY <1>1 DEF n
    <3> HIDE DEF n
    <3> QED
      BY <3>1
  <2>2. available' \subseteq 1 .. n
    BY <1>1, <1>4
  <2>3. \A t \in Tx : t > n => tx'[t] = NewTx
    BY <1>8, <2>1 DEF SqliteIInv, MadeInOrder
  <2>4. \A t \in 1 .. n : tx'[t].owner \in Clients
    BY <1>1, <1>6, <1>8 DEF SqliteIInv, MadeInOrder
  <2> QED
    BY <1>1, <2>2, <2>3, <2>4 DEF MadeInOrder
<1>11. Families'
  <2> SUFFICES ASSUME NEW t \in 1 .. n
               PROVE  /\ t \in tx'[t].line /\ tx'[t].line \subseteq 1 .. t
                      /\ tx'[t].parent = NoTx => tx'[t].line = {t}
                      /\ tx'[t].parent # NoTx =>
                           /\ tx'[t].parent < t
                           /\ tx'[tx'[t].parent].owner = tx'[t].owner
                           /\ tx'[t].line = {t} \cup tx'[tx'[t].parent].line
    BY <1>1 DEF Families
  <2>1. CASE t \in 1 .. made
    <3>1. tx[t].parent # NoTx => tx[t].parent \in 1 .. made
      BY <1>1, <2>1 DEF SqliteIInv, Families, SqliteTypeOK, TxRecords, Tx, NoTx
    <3> QED
      BY <1>8, <2>1, <3>1 DEF SqliteIInv, Families
  <2>2. CASE t = n
    <3>1. p = NoTx => line = {n}
      BY DEF line
    <3>2. p # NoTx => p < n /\ line = {n} \cup tx[p].line /\ tx'[p] = tx[p]
      BY <1>1, <1>3, <1>8 DEF line, n
    <3> QED
      BY <1>3, <1>5, <1>6, <1>8, <2>2, <3>1, <3>2
  <2> QED
    BY <1>1, <2>1, <2>2
<1>12. LinesAreChains'
  <2> SUFFICES ASSUME NEW t \in 1 .. n, NEW x \in tx'[t].line, NEW y \in tx'[t].line
               PROVE  x \in tx'[y].line \/ y \in tx'[x].line
    BY <1>1 DEF LinesAreChains
  <2>1. \A s \in 1 .. made : \A v, w \in tx[s].line : v \in tx'[w].line \/ w \in tx'[v].line
    BY <1>1, <1>8 DEF SqliteIInv, LinesAreChains
  <2>2. CASE t \in 1 .. made
    BY <1>8, <2>1, <2>2
  <2>3. CASE t = n
    <3>1. x \in line /\ y \in line /\ tx'[n].line = line
      BY <1>6, <1>8, <2>3
    <3>2. CASE x = n \/ y = n
      BY <3>1, <3>2
    <3>3. CASE x # n /\ y # n
      <4>1. p # NoTx /\ x \in tx[p].line /\ y \in tx[p].line
        BY <3>1, <3>3 DEF line
      <4> QED
        BY <1>3, <2>1, <4>1
    <3> QED
      BY <3>2, <3>3
  <2> QED
    BY <1>1, <2>2, <2>3
<1>13. LinesNest'
  <2>1. \A t \in 1 .. made : Nests(t) => Nests(t)'
    <3> SUFFICES ASSUME NEW t \in 1 .. made, NEW s \in Tx, tx[s].parent = t
                 PROVE  \E u \in Tx : tx'[u].parent = t
      BY DEF Nests
    <3>1. s # n
      <4>1. tx[n] = NewTx
        BY <1>1 DEF SqliteIInv, MadeInOrder, n
      <4> QED
        BY <1>1, <4>1 DEF NewTx, NoTx
    <3> QED
      BY <1>8, <3>1
  <2>2. p # NoTx => Nests(p)'
    BY <1>1, <1>6, <1>8 DEF Nests
  <2> SUFFICES ASSUME NEW s \in 1 .. n, NEW t \in tx'[s].line, t # s PROVE Nests(t)'
    BY <1>1 DEF LinesNest
  <2>3. \A u \in 1 .. made : \A v \in tx[u].line : v # u => Nests(v)'
    BY <1>1, <2>1 DEF SqliteIInv, LinesNest
  <2>4. CASE s \in 1 .. made
    BY <1>8, <2>3, <2>4
  <2>5. CASE s = n
    <3>1. p # NoTx /\ t \in tx[p].line
      BY <1>6, <1>8, <2>5 DEF line
    <3> QED
      BY <1>3, <2>2, <2>3, <3>1
  <2> QED
    BY <1>1, <2>4, <2>5
<1>14. /\ {stack[k] : k \in 1 .. Len(stack)}' \subseteq available'
       /\ Nesting' /\ UnitOfFamily' /\ DurableForAReason'
  BY <1>4, <1>8, <1>9, WorkKept
<1>15. /\ o \in Seq(Tx) /\ Append(o, n) \in Seq(Tx) /\ Len(o) \in Nat
       /\ Len(Append(o, n)) = Len(o) + 1 /\ Append(o, n)[Len(o) + 1] = n
       /\ \A k \in 1 .. Len(o) : Append(o, n)[k] = o[k]
  <2>1. o \in Seq(Tx)
    BY DEF SqliteIInv, SqliteTypeOK, ThreadRecords
  <2> HIDE DEF o
  <2> QED
    BY <1>1, <2>1
<1>16. /\ thread' \in [Clients -> ThreadRecords] /\ thread'[c].open = Append(o, n)
       /\ thread'[c].pc = "idle"
       /\ \A d \in Clients \ {c} : thread'[d] = thread[d]
  <2> DEFINE q == Append(o, n)
  <2>1. q \in Seq(Tx) /\ thread' = [thread EXCEPT ![c].open = q]
    BY <1>4, <1>15
  <2> HIDE DEF q
  <2>2. /\ thread' \in [Clients -> ThreadRecords] /\ thread'[c].open = q
        /\ thread'[c].pc = thread[c].pc
        /\ \A d \in Clients \ {c} : thread'[d] = thread[d]
    BY <2>1 DEF SqliteIInv, SqliteTypeOK, ThreadRecords
  <2> QED
    BY <1>4, <2>2 DEF q
<1>17. ItemsAreAwaited' /\ AwaitedOnce' /\ NoDelay'
  <2>1. ASSUME NEW d \in Clients
        PROVE  /\ thread'[d].pc = "waiting" <=> thread[d].pc = "waiting"
               /\ thread[d].pc = "waiting" => thread'[d].item = thread[d].item
    BY <1>4, <1>16
  <2> QED
    BY <1>4, <2>1, ListsKept
<1>18. Blocks' /\ Calls'
  <2>1. ASSUME NEW d \in Clients \ {c} PROVE BlocksOf(d)' /\ CallOf(d)'
    <3>1. \A t \in available : t \in available' /\ tx'[t] = tx[t]
      BY <1>1, <1>4, <1>8
    <3> QED
      BY <1>9, <1>16, <3>1, OtherThread
  <2>2. CallOf(c)'
    BY <1>16 DEF CallOf, Asking
  <2>3. BlocksOf(c)'
    <3> DEFINE q == Append(o, n)
    <3>1. \A k \in 1 .. Len(o) :
            /\ o[k] \in available /\ tx[o[k]].owner = c /\ tx[o[k]].outcome = "open"
            /\ \A j \in 1 .. (k - 1) : o[j] # o[k]
      BY DEF SqliteIInv, Blocks, BlocksOf
    <3>2. /\ Len(q) = Len(o) + 1 /\ q[Len(o) + 1] = n /\ thread'[c].open = q
          /\ \A k \in 1 .. Len(o) : q[k] = o[k]
      BY <1>15, <1>16
    <3>3. Len(o) \in Nat
      BY <1>15
    <3> HIDE DEF q, o
    <3>4. ASSUME NEW k \in 1 .. Len(q)
          PROVE  /\ q[k] \in available' /\ tx'[q[k]].owner = c /\ tx'[q[k]].outcome = "open"
                 /\ \A j \in 1 .. (k - 1) : q[j] # q[k]
      <4>1. CASE k \in 1 .. Len(o)
        <5>1. q[k] = o[k] /\ o[k] \in available /\ o[k] \in 1 .. made /\ tx[o[k]].owner = c
              /\ tx[o[k]].outcome = "open"
          BY <1>1, <3>1, <3>2, <4>1
        <5>2. \A j \in 1 .. (k - 1) : q[j] = o[j] /\ o[j] # o[k]
          BY <3>1, <3>2, <3>3, <4>1
        <5> QED
          BY <1>4, <1>8, <5>1, <5>2
      <4>2. CASE k = Len(o) + 1
        <5>1. \A j \in 1 .. (k - 1) : q[j] = o[j] /\ o[j] \in 1 .. made
          <6>1. \A j \in 1 .. (k - 1) : j \in 1 .. Len(o)
            BY <3>3, <4>2
          <6> QED
            BY <1>1, <3>1, <3>2, <6>1
        <5> QED
          BY <1>1, <1>4, <1>6, <1>8, <3>2, <4>2, <5>1
      <4> QED
        BY <3>2, <3>3, <4>1, <4>2
    <3> QED
      BY <3>2, <3>4 DEF BlocksOf
  <2> QED
    BY <2>1, <2>2, <2>3 DEF Blocks, Calls
<1>19. SqliteTypeOK'
  <2>1. made' \in 0 .. MaxTx /\ available' \subseteq Tx
    BY <1>1, <1>4 DEF Tx
  <2> QED
    BY <1>4, <1>8, <1>14, <1>16, <2>1 DEF SqliteIInv, SqliteTypeOK
<1> QED
  BY <1>10, <1>11, <1>12, <1>13, <1>14, <1>17, <1>18, <1>19 DEF SqliteIInv

-----------------------------------------------------------------------------
(* The steps of the worker                                                 *)

LEMMA EndKeeps == ASSUME SqliteIInv, End PROVE SqliteIInv'
<1>1. KeepsFamilies /\ \A t \in Tx : tx'[t] = tx[t]
  BY NothingMade DEF End
<1>2. /\ {stack[k] : k \in 1 .. Len(stack)}' \subseteq available'
      /\ MadeInOrder' /\ Families' /\ LinesAreChains' /\ LinesNest'
      /\ Nesting' /\ UnitOfFamily' /\ DurableForAReason'
  <2>1. \A t \in 1 .. made : tx'[t] = tx[t]
    BY DEF End
  <2> QED
    BY <1>1, <2>1, WorkKept, FamiliesKept, OldKept DEF End
<1>3. ItemsAreAwaited' /\ AwaitedOnce' /\ NoDelay'
  BY ListsKept DEF End
<1>4. Blocks' /\ Calls'
  BY DEF End, SqliteIInv, Blocks, BlocksOf, Calls, CallOf, Asking, Innermost
<1>5. SqliteTypeOK'
  BY <1>2 DEF End, SqliteIInv, SqliteTypeOK
<1> QED
  BY <1>2, <1>3, <1>4, <1>5 DEF SqliteIInv

LEMMA DelayKeeps == ASSUME SqliteIInv, Delay PROVE SqliteIInv'
<1> DEFINE i == Head(queue)
<1>1. /\ queue # <<>> /\ stack # <<>> /\ worker' \in {"pop", "out"} /\ queue' = Tail(queue)
      /\ \/ delayedQ' = Append(delayedQ, i) /\ delayedT' = delayedT
         \/ delayedT' = Append(delayedT, i) /\ delayedQ' = delayedQ
      /\ UNCHANGED <<stack, available, closed, pleaseStop, tx, made, thread>>
      /\ UNCHANGED <<unit, durable, failures, headless>>
  BY DEF Delay, Popped, Deferred, dbVars
<1> HIDE DEF i
<1>2. KeepsFamilies /\ \A t \in Tx : tx'[t] = tx[t]
  BY <1>1, NothingMade
<1>3. /\ {stack[k] : k \in 1 .. Len(stack)}' \subseteq available'
      /\ MadeInOrder' /\ Families' /\ LinesAreChains' /\ LinesNest'
      /\ Nesting' /\ UnitOfFamily' /\ DurableForAReason'
  <2>1. \A t \in 1 .. made : tx'[t] = tx[t]
    BY <1>1
  <2> QED
    BY <1>1, <1>2, <2>1, WorkKept, FamiliesKept, OldKept
<1>4. /\ queue' \in Seq(Items) /\ delayedQ' \in Seq(Items) /\ delayedT' \in Seq(Items)
      /\ ItemsAreAwaited' /\ AwaitedOnce'
  BY <1>1, Put DEF i
<1>5. NoDelay'
  BY <1>1 DEF NoDelay
<1>6. Blocks' /\ Calls'
  BY <1>1 DEF SqliteIInv, Blocks, BlocksOf, Calls, CallOf, Asking, Innermost
<1>7. SqliteTypeOK'
  BY <1>1, <1>3, <1>4 DEF SqliteIInv, SqliteTypeOK
<1> QED
  BY <1>3, <1>4, <1>5, <1>6, <1>7 DEF SqliteIInv

\* the only outcome that changes is that of the transaction that i is to end
OutcomeOf(i) ==
  \A t \in Tx :
    /\ tx'[t].issued = tx[t].issued
    /\ t # i.tx \/ i.kind = "query" => tx'[t].outcome = tx[t].outcome

\* An item that the current transaction has no part in, or that is refused.
LEMMA AnsweredOnly ==
  ASSUME SqliteIInv, KeepsFamilies, queue # <<>>, NEW i, i = Head(queue), NEW ok \in BOOLEAN,
         Release(i, ok), queue' = Tail(queue), worker' \in {"pop", "out"},
         UNCHANGED <<delayedQ, delayedT, stack, available, closed, pleaseStop, made, headless>>,
         unit' \subseteq unit, durable' \subseteq durable \cup {x \in Commands : x.tx = NoTx},
         failures' \in Nat, tx' \in [Tx -> TxRecords], OutcomeOf(i)
  PROVE  SqliteIInv'
<1>1. /\ \A t \in 1 .. made : tx[t].outcome = "committed" => tx'[t].outcome = "committed"
      /\ 1 .. made \subseteq Tx
  <2>1. i.tx # NoTx => tx[i.tx].outcome = "open"
    BY HeadItem
  <2> QED
    BY <2>1, Numbers DEF Tx, NoTx, OutcomeOf
<1>2. /\ {stack[k] : k \in 1 .. Len(stack)}' \subseteq available'
      /\ MadeInOrder' /\ Families' /\ LinesAreChains' /\ LinesNest'
      /\ Nesting' /\ UnitOfFamily' /\ DurableForAReason'
  BY <1>1, WorkKept, FamiliesKept, OldKept
<1>3. /\ thread' \in [Clients -> ThreadRecords]
      /\ thread'[i.by].pc # "waiting"
      /\ \A d \in Clients \ {i.by} : thread'[d] = thread[d]
  BY Answer
<1>4. /\ queue' \in Seq(Items) /\ delayedQ' \in Seq(Items) /\ delayedT' \in Seq(Items)
      /\ ItemsAreAwaited' /\ AwaitedOnce'
  BY <1>3, TakenOff
<1>5. NoDelay'
  BY DEF SqliteIInv, NoDelay
<1>6. Blocks' /\ Calls'
  BY Heard DEF OutcomeOf
<1>7. SqliteTypeOK'
  BY <1>2, <1>3, <1>4, <1>1 DEF SqliteIInv, SqliteTypeOK, Commands
<1> QED
  BY <1>2, <1>4, <1>5, <1>6, <1>7 DEF SqliteIInv

LEMMA RefuseKeeps == ASSUME SqliteIInv, Refuse PROVE SqliteIInv'
<1> DEFINE i == Head(queue)
<1>1. /\ queue # <<>> /\ worker' \in {"pop", "out"} /\ queue' = Tail(queue)
      /\ Release(i, FALSE) /\ Refused(i)
      /\ tx' = IF i.kind = "commit" THEN [tx EXCEPT ![i.tx].outcome = "failed"] ELSE tx
      /\ UNCHANGED <<delayedQ, delayedT, stack, available, closed, pleaseStop, made>>
      /\ UNCHANGED <<unit, durable, failures, headless>>
  BY DEF Refuse, Popped, dbVars
<1>2. i = Head(queue)
  OBVIOUS
<1> HIDE DEF i
<1> DEFINE z == IF i.kind = "commit" THEN [tx[i.tx] EXCEPT !.outcome = "failed"] ELSE tx[i.tx]
<1>3. /\ i.tx \in Tx /\ i.tx \in 1 .. made /\ tx \in [Tx -> TxRecords] /\ tx[i.tx] \in TxRecords
      /\ i.tx # NoTx
  BY <1>1, <1>2, HeadItem DEF Refused, SqliteIInv, SqliteTypeOK
<1>4. tx' = [tx EXCEPT ![i.tx] = z]
  BY <1>1, <1>3
<1>5. /\ z \in TxRecords /\ z.owner = tx[i.tx].owner /\ z.parent = tx[i.tx].parent
      /\ z.line = tx[i.tx].line /\ z.issued = tx[i.tx].issued
      /\ i.kind = "query" => z.outcome = tx[i.tx].outcome
  BY <1>3 DEF TxRecords, Outcomes
<1> HIDE DEF z
<1>6. /\ tx' \in [Tx -> TxRecords] /\ tx'[i.tx] = z
      /\ \A a \in Tx \ {i.tx} : tx'[a] = tx[a]
      /\ KeepsFamilies
  BY <1>1, <1>3, <1>4, <1>5, OneChanged
<1>7. OutcomeOf(i)
  BY <1>5, <1>6 DEF OutcomeOf
<1>8. failures' \in Nat /\ unit' \subseteq unit
      /\ durable' \subseteq durable \cup {x \in Commands : x.tx = NoTx}
  BY <1>1 DEF SqliteIInv, SqliteTypeOK
<1> QED
  BY <1>1, <1>2, <1>6, <1>7, <1>8, AnsweredOnly

LEMMA StopAnsweredKeeps == ASSUME SqliteIInv, StopAnswered PROVE SqliteIInv'
<1> DEFINE i == Head(queue)
<1>1. /\ queue # <<>> /\ worker' \in {"pop", "out"} /\ queue' = Tail(queue)
      /\ Release(i, FALSE)
      /\ UNCHANGED <<delayedQ, delayedT, stack, available, closed, pleaseStop, tx, made>>
      /\ UNCHANGED <<unit, durable, failures, headless>>
  BY DEF StopAnswered, Popped, dbVars
<1>2. i = Head(queue)
  OBVIOUS
<1> HIDE DEF i
<1>3. KeepsFamilies /\ \A t \in Tx : tx'[t] = tx[t]
  BY <1>1, NothingMade
<1>4. failures' \in Nat /\ tx' \in [Tx -> TxRecords] /\ unit' \subseteq unit
      /\ durable' \subseteq durable \cup {x \in Commands : x.tx = NoTx}
  BY <1>1 DEF SqliteIInv, SqliteTypeOK
<1> QED
  BY <1>1, <1>2, <1>3, <1>4, AnsweredOnly DEF OutcomeOf

\* A command outside of transactions is run only when nothing has begun.
LEMMA RunOutsideDoes ==
  ASSUME SqliteIInv, RunOutside
  PROVE  /\ stack = <<>> /\ unit' = unit /\ durable \subseteq durable'
         /\ \A x \in durable' \ durable :
              x \in Commands /\ x.tx = NoTx /\ x.by = Head(queue).by
<1> DEFINE i == Head(queue)
           command == [by |-> i.by, tx |-> NoTx, n |-> i.n]
<1>1. queue # <<>> /\ i \in Items /\ i.by \in Clients
  BY HeadItem DEF RunOutside, Popped
<1>2. stack = <<>>
  BY DEF RunOutside, Deferred
<1>3. command \in Commands /\ command.tx = NoTx /\ command.by = i.by
  BY <1>1 DEF Items, Commands
<1>4. unit' = unit /\ (durable' = durable \/ durable' = durable \cup {command})
  BY <1>2 DEF RunOutside
<1> HIDE DEF command
<1> QED
  BY <1>2, <1>3, <1>4

LEMMA RunOutsideKeeps == ASSUME SqliteIInv, RunOutside PROVE SqliteIInv'
<1> DEFINE i == Head(queue)
<1>1. /\ queue # <<>> /\ worker' \in {"pop", "out"} /\ queue' = Tail(queue)
      /\ UNCHANGED <<delayedQ, delayedT, stack, available, closed, pleaseStop, tx, made, headless>>
  BY DEF RunOutside, Popped
<1>2. i = Head(queue) /\ unit' = unit
      /\ durable' \subseteq durable \cup {x \in Commands : x.tx = NoTx}
  BY RunOutsideDoes
<1>3. failures' \in Nat
  <2>1. failures' = failures \/ failures' = failures + 1
    BY DEF RunOutside
  <2> QED
    BY <2>1 DEF SqliteIInv, SqliteTypeOK
<1>4. Release(i, TRUE) \/ Release(i, FALSE)
  BY DEF RunOutside
<1> HIDE DEF i
<1>5. KeepsFamilies /\ \A t \in Tx : tx'[t] = tx[t]
  BY <1>1, NothingMade
<1>6. tx' \in [Tx -> TxRecords]
  BY <1>1 DEF SqliteIInv, SqliteTypeOK
<1> QED
  BY <1>1, <1>2, <1>3, <1>4, <1>5, <1>6, AnsweredOnly DEF OutcomeOf

\* the item is run, and its transaction is on top of the stack or, at its end, taken off
Works(i, commit, run) ==
  \/ /\ i.kind = "query" /\ stack' = Raised(i.tx) /\ queue' = Tail(queue)
     /\ UNCHANGED <<delayedQ, delayedT, available, durable>>
     /\ unit' \subseteq unit \cup Todo(i.tx) \cup {x \in Commands : x.tx = i.tx}
  \/ /\ i.kind # "query" /\ Close(i.tx, commit, run)
     /\ commit => tx'[i.tx].outcome = "committed"

\* An item of the current transaction.
LEMMA Processed ==
  ASSUME SqliteIInv, KeepsFamilies, queue # <<>>, NEW i, i = Head(queue), NEW ok \in BOOLEAN,
         Release(i, ok), i.tx # NoTx, ~ Deferred(i), Headless(i.tx), worker' \in {"pop", "out"},
         UNCHANGED <<closed, pleaseStop, made>>, failures' \in Nat, tx' \in [Tx -> TxRecords],
         OutcomeOf(i),
         NEW commit \in BOOLEAN, NEW run \in SUBSET Todo(i.tx), Works(i, commit, run)
  PROVE  SqliteIInv'
<1> DEFINE t == i.tx
<1>1. /\ t \in Tx /\ t \in available /\ t \in 1 .. made /\ tx[t].outcome = "open"
      /\ 1 .. made \subseteq Tx /\ available \subseteq Tx
  BY HeadItem, Numbers
<1>2. stack = <<>> \/ Top \in {t, tx[t].parent}
  BY DEF Deferred
<1>3. \/ /\ i.kind = "query" /\ stack' = Raised(t) /\ queue' = Tail(queue)
          /\ UNCHANGED <<delayedQ, delayedT, available, durable>>
          /\ unit' \subseteq unit \cup Todo(t) \cup {x \in Commands : x.tx = t}
       \/ /\ i.kind # "query" /\ Close(t, commit, run)
          /\ commit => tx'[t].outcome = "committed"
  BY DEF Works
<1>4. /\ Raised(t) \in Seq(Tx) /\ Len(Raised(t)) \in Nat \ {0}
  BY <1>1, <1>2, RaisedChain
<1>5. Todo(t) \subseteq Commands
  BY <1>1, TodoOf
<1>6. \A a \in Tx : tx[a].outcome = "committed" => tx'[a].outcome = "committed"
  BY <1>1 DEF OutcomeOf
<1>7. /\ \/ stack' = Raised(t) /\ available' = available
         \/ stack' = SubSeq(Raised(t), 1, Len(Raised(t)) - 1) /\ available' = available \ {t}
      /\ stack' = <<>> => unit' = {}
      /\ unit' \subseteq unit \cup Todo(t) \cup {x \in Commands : x.tx = t}
  <2>1. CASE i.kind = "query"
    <3>1. stack' # <<>>
      BY <1>4, <1>3, <2>1
    <3> QED
      BY <1>3, <2>1, <3>1
  <2>2. CASE i.kind # "query"
    <3>1. /\ stack' = SubSeq(Raised(t), 1, Len(Raised(t)) - 1) /\ available' = available \ {t}
          /\ unit' = IF Len(Raised(t)) = 1 THEN {} ELSE unit \cup run
      BY <1>3, <2>2 DEF Close
    <3>2. stack' = <<>> => Len(Raised(t)) = 1
      <4>1. Len(Raised(t)) - 1 \in Nat /\ Len(Raised(t)) - 1 <= Len(Raised(t))
        BY <1>4
      <4>2. Len(stack') = Len(Raised(t)) - 1
        BY <1>4, <3>1, <4>1, Prefix
      <4> QED
        BY <1>4, <4>2
    <3> QED
      BY <3>1, <3>2
  <2> QED
    BY <2>1, <2>2
<1>8. \/ durable' = durable
      \/ /\ Len(Raised(t)) = 1 /\ tx'[t].outcome = "committed"
         /\ durable' \subseteq durable \cup unit \cup Todo(t)
  BY <1>3 DEF Close
<1>9. \A a \in Tx \ {i.tx} :
        tx'[a].outcome = tx[a].outcome /\ (a \in available => a \in available')
  BY <1>7 DEF OutcomeOf
<1>10. i.kind = "query" => available' = available /\ \A a \in Tx : tx'[a].outcome = tx[a].outcome
  BY <1>3 DEF Close, OutcomeOf
<1>11. PutBack \/ (queue' = Tail(queue) /\ UNCHANGED <<delayedQ, delayedT>>)
  BY <1>3 DEF Close
<1>12. stack' # <<>> \/ PutBack
  BY <1>4, <1>3 DEF Close
<1>13. Headless(t) /\ run \subseteq Todo(t)
  OBVIOUS
<1> HIDE DEF t
<1>14. /\ stack' \in Seq(Tx) /\ headless' \subseteq Tx
       /\ {stack[k] : k \in 1 .. Len(stack)}' \subseteq available'
       /\ MadeInOrder' /\ Families' /\ LinesAreChains' /\ LinesNest'
       /\ Nesting' /\ UnitOfFamily'
  BY <1>1, <1>2, <1>7, <1>13, Worked
<1>15. DurableForAReason'
  BY <1>1, <1>2, <1>6, <1>8, <1>13, MadeDurable
<1>16. /\ thread' \in [Clients -> ThreadRecords]
       /\ thread'[i.by].pc # "waiting"
       /\ \A d \in Clients \ {i.by} : thread'[d] = thread[d]
  BY Answer
<1>17. /\ queue' \in Seq(Items) /\ delayedQ' \in Seq(Items) /\ delayedT' \in Seq(Items)
       /\ ItemsAreAwaited' /\ AwaitedOnce'
  BY <1>11, <1>16, TakenOff
<1>18. NoDelay'
  BY <1>12 DEF NoDelay, PutBack
<1>19. Blocks' /\ Calls'
  BY <1>9, <1>10, Heard DEF OutcomeOf
<1>20. SqliteTypeOK'
  <2>1. available' \subseteq Tx
    BY <1>1, <1>7
  <2>2. unit' \subseteq Commands /\ durable' \subseteq Commands
    BY <1>5, <1>7, <1>8 DEF SqliteIInv, SqliteTypeOK
  <2>3. made' \in 0 .. MaxTx /\ closed' \in BOOLEAN /\ pleaseStop' \in BOOLEAN
    BY DEF SqliteIInv, SqliteTypeOK
  <2> QED
    BY <1>14, <1>16, <1>17, <2>1, <2>2, <2>3 DEF SqliteTypeOK
<1> QED
  BY <1>14, <1>15, <1>17, <1>18, <1>19, <1>20 DEF SqliteIInv

\* what do_all() and the item itself do to the transactions
Result(t, last, e, u) ==
  [Ran(t, last) EXCEPT ![t] = [Ran(t, last)[t] EXCEPT !.exception = e, !.outcome = u]]

LEMMA RanThen ==
  ASSUME SqliteIInv, NEW t \in 1 .. made, NEW last, NEW e \in BOOLEAN, NEW u \in Outcomes,
         made' = made,
         tx' = Result(t, last, e, u)
  PROVE  /\ tx' \in [Tx -> TxRecords] /\ KeepsFamilies
         /\ tx'[t].exception = e /\ tx'[t].outcome = u
         /\ \A a \in Tx \ {t} :
              tx'[a].exception = tx[a].exception /\ tx'[a].outcome = tx[a].outcome
         /\ \A a \in Tx :
              /\ tx'[a].issued = tx[a].issued
              /\ tx'[a].todo = IF a \in tx[t].line /\ a <= last THEN {} ELSE tx[a].todo
<1> DEFINE R == Ran(t, last)
           z == [R[t] EXCEPT !.exception = e, !.outcome = u]
<1>1. /\ R \in [Tx -> TxRecords]
      /\ \A a \in Tx :
           /\ R[a].owner = tx[a].owner /\ R[a].parent = tx[a].parent
           /\ R[a].line = tx[a].line /\ R[a].issued = tx[a].issued
           /\ R[a].exception = tx[a].exception /\ R[a].outcome = tx[a].outcome
           /\ R[a].todo = IF a \in tx[t].line /\ a <= last THEN {} ELSE tx[a].todo
           /\ a > made => R[a] = tx[a]
  BY RanKeeps
<1>2. t \in Tx /\ made \in Nat
  BY Numbers
<1> HIDE DEF R
<1>3. /\ z \in TxRecords /\ z.exception = e /\ z.outcome = u
      /\ z.owner = R[t].owner /\ z.parent = R[t].parent /\ z.line = R[t].line
      /\ z.issued = R[t].issued /\ z.todo = R[t].todo
  <2>1. R[t] \in TxRecords
    BY <1>1, <1>2
  <2> QED
    BY <2>1 DEF TxRecords
<1>4. tx' = [R EXCEPT ![t] = z]
  BY DEF R, Result
<1> HIDE DEF z
<1>5. /\ tx' \in [Tx -> TxRecords] /\ tx'[t] = z
      /\ \A a \in Tx \ {t} : tx'[a] = R[a]
  BY <1>1, <1>2, <1>3, <1>4
<1>6. /\ tx'[t].exception = e /\ tx'[t].outcome = u
      /\ \A a \in Tx :
           /\ tx'[a].owner = R[a].owner /\ tx'[a].parent = R[a].parent
           /\ tx'[a].line = R[a].line /\ tx'[a].issued = R[a].issued
           /\ tx'[a].todo = R[a].todo
           /\ a # t => tx'[a] = R[a]
  BY <1>3, <1>5
<1>7. KeepsFamilies
  <2>1. \A a \in Tx : a > made => a # t
    BY <1>2
  <2> QED
    BY <1>1, <1>6, <2>1 DEF KeepsFamilies
<1> QED
  BY <1>1, <1>5, <1>6, <1>7

\* What RunQuery, RunEnd and DoAllFails have in common, with the outcome u, the exception e,
\* and the commands run.
Does(i, ok, last, e, u, commit, run) ==
  /\ queue # <<>> /\ i = Head(queue) /\ Release(i, ok)
  /\ i.tx # NoTx /\ ~ Deferred(i) /\ ~ Refused(i) /\ Headless(i.tx)
  /\ worker = "pop" /\ worker' \in {"pop", "out"}
  /\ UNCHANGED <<closed, pleaseStop, made>> /\ failures' \in Nat
  /\ ok \in BOOLEAN /\ e \in BOOLEAN /\ u \in Outcomes /\ commit \in BOOLEAN
  /\ run \subseteq Todo(i.tx)
  /\ tx' = Result(i.tx, last, e, u)
  /\ tx[i.tx].exception => e
  /\ \/ /\ i.kind = "query" /\ stack' = Raised(i.tx) /\ queue' = Tail(queue)
        /\ UNCHANGED <<delayedQ, delayedT, available, durable>>
        /\ unit' = unit \cup run \cup
             (IF ok THEN {[by |-> i.by, tx |-> i.tx, n |-> i.n]} ELSE {})
        /\ u = tx[i.tx].outcome /\ ~ commit /\ e = (tx[i.tx].exception \/ ~ ok)
     \/ /\ i.kind # "query" /\ Close(i.tx, commit, run) /\ (commit => i.kind = "commit")
        /\ u = IF ~ ok THEN "failed" ELSE IF commit THEN "committed" ELSE "rolledback"
  /\ ok => run = Todo(i.tx) /\ last = i.tx

LEMMA DoesKeeps ==
  ASSUME SqliteIInv, NEW i, NEW ok, NEW last, NEW e, NEW u, NEW commit, NEW run,
         Does(i, ok, last, e, u, commit, run), commit => ok
  PROVE  SqliteIInv'
<1>1. /\ queue # <<>> /\ i = Head(queue) /\ ok \in BOOLEAN /\ Release(i, ok) /\ i.tx # NoTx
      /\ ~ Deferred(i) /\ Headless(i.tx) /\ worker' \in {"pop", "out"}
      /\ UNCHANGED <<closed, pleaseStop, made>> /\ failures' \in Nat
      /\ commit \in BOOLEAN /\ run \in SUBSET Todo(i.tx) /\ e \in BOOLEAN /\ u \in Outcomes
      /\ tx' = Result(i.tx, last, e, u)
  BY DEF Does
<1>2. /\ i.tx \in 1 .. made /\ i \in Items /\ i.tx \in Tx
      /\ tx[i.tx].owner = i.by /\ i.by \in Clients
  BY <1>1, HeadItem
<1>3. /\ tx' \in [Tx -> TxRecords] /\ KeepsFamilies
      /\ tx'[i.tx].outcome = u
      /\ \A a \in Tx \ {i.tx} : tx'[a].outcome = tx[a].outcome
      /\ \A a \in Tx : tx'[a].issued = tx[a].issued
  <2>1. /\ tx' = Result(i.tx, last, e, u) /\ i.tx \in 1 .. made /\ made' = made
        /\ e \in BOOLEAN /\ u \in Outcomes
    BY <1>1, <1>2
  <2> QED
    BY <2>1, RanThen
<1>4. i.kind = "query" => u = tx[i.tx].outcome
  BY DEF Does
<1>5. OutcomeOf(i)
  BY <1>2, <1>3, <1>4 DEF OutcomeOf
<1>6. Works(i, commit, run)
  <2> DEFINE command == [by |-> i.by, tx |-> i.tx, n |-> i.n]
  <2>1. command \in Commands /\ command.tx = i.tx
    BY <1>2 DEF Commands, Items
  <2>2. CASE i.kind = "query"
    <3>1. unit' = unit \cup run \cup (IF ok THEN {command} ELSE {})
      BY <2>2 DEF Does
    <3> HIDE DEF command
    <3>2. unit' \subseteq unit \cup Todo(i.tx) \cup {x \in Commands : x.tx = i.tx}
      BY <1>1, <2>1, <3>1
    <3> QED
      BY <2>2, <3>2 DEF Does, Works
  <2>3. CASE i.kind # "query"
    <3>1. Close(i.tx, commit, run) /\ (commit => u = "committed")
      BY <2>3 DEF Does
    <3> QED
      BY <1>3, <2>3, <3>1 DEF Works
  <2> QED
    BY <2>2, <2>3
<1> QED
  BY <1>1, <1>3, <1>5, <1>6, Processed

LEMMA RunQueryDoes ==
  ASSUME SqliteIInv, RunQuery
  PROVE  \E ok \in BOOLEAN, e \in BOOLEAN :
           Does(Head(queue), ok, Head(queue).tx, e, tx[Head(queue).tx].outcome, FALSE,
                Todo(Head(queue).tx))
<1> DEFINE i == Head(queue)
           t == i.tx
           R == Ran(t, t)
           command == [by |-> i.by, tx |-> t, n |-> i.n]
<1>1. /\ queue # <<>> /\ worker = "pop" /\ worker' \in {"pop", "out"}
      /\ t # NoTx /\ ~ Deferred(i) /\ ~ Refused(i) /\ i.kind = "query"
      /\ stack' = Raised(t) /\ Headless(t)
      /\ queue' = Tail(queue)
      /\ UNCHANGED <<delayedQ, delayedT, available, closed, pleaseStop, made, durable>>
      /\ \/ /\ unit' = unit \cup Todo(t) \cup {command} /\ tx' = R /\ Release(i, TRUE)
            /\ failures' = failures
         \/ /\ unit' = unit \cup Todo(t) /\ tx' = [R EXCEPT ![t].exception = TRUE]
            /\ Release(i, FALSE) /\ failures' = failures + 1
  BY DEF RunQuery, Current, Popped
<1>2. /\ t \in Tx /\ t \in 1 .. made /\ tx[t] \in TxRecords
      /\ R \in [Tx -> TxRecords] /\ R[t].exception = tx[t].exception
      /\ R[t].outcome = tx[t].outcome
  BY <1>1, HeadItem, RanKeeps DEF SqliteIInv, SqliteTypeOK
<1>3. tx[t].exception \in BOOLEAN /\ tx[t].outcome \in Outcomes /\ failures \in Nat
  BY <1>2 DEF TxRecords, SqliteIInv, SqliteTypeOK
<1> HIDE DEF i, t, R, command
<1>4. R[t] \in TxRecords
  BY <1>2
<1>5. R[t] = [R[t] EXCEPT !.exception = tx[t].exception, !.outcome = tx[t].outcome]
  BY <1>2, <1>4 DEF TxRecords
<1>6. [R[t] EXCEPT !.exception = TRUE]
        = [R[t] EXCEPT !.exception = TRUE, !.outcome = tx[t].outcome]
  BY <1>2, <1>4 DEF TxRecords
<1>7. CASE /\ unit' = unit \cup Todo(t) \cup {command} /\ tx' = R /\ Release(i, TRUE)
           /\ failures' = failures
  <2>1. tx' = Result(t, t, tx[t].exception, tx[t].outcome)
    BY <1>2, <1>5, <1>7 DEF Result, R
  <2>2. Does(i, TRUE, t, tx[t].exception, tx[t].outcome, FALSE, Todo(t))
    BY <1>1, <1>3, <1>7, <2>1 DEF Does, t, i, command
  <2> QED
    BY <1>3, <2>2 DEF i, t
<1>8. CASE /\ unit' = unit \cup Todo(t) /\ tx' = [R EXCEPT ![t].exception = TRUE]
           /\ Release(i, FALSE) /\ failures' = failures + 1
  <2>1. tx' = Result(t, t, TRUE, tx[t].outcome)
    BY <1>2, <1>6, <1>8 DEF Result, R
  <2>2. unit' = unit \cup Todo(t) \cup {}
    BY <1>8
  <2>3. /\ TRUE = (tx[t].exception \/ ~ FALSE) /\ failures' \in Nat
        /\ unit' = unit \cup Todo(t) \cup
             (IF FALSE THEN {[by |-> i.by, tx |-> i.tx, n |-> i.n]} ELSE {})
    BY <1>3, <1>8, <2>2
  <2>4. Does(i, FALSE, t, TRUE, tx[t].outcome, FALSE, Todo(t))
    <3>1. i = Head(queue) /\ t = i.tx
      BY DEF i, t
    <3> QED
      BY <1>1, <1>3, <1>8, <2>1, <2>3, <3>1 DEF Does
  <2> QED
    BY <2>4 DEF i, t
<1> QED
  BY <1>1, <1>7, <1>8

LEMMA RunEndDoes ==
  ASSUME SqliteIInv, RunEnd
  PROVE  \E commit \in BOOLEAN, e \in BOOLEAN :
           Does(Head(queue), TRUE, Head(queue).tx, e,
                IF commit THEN "committed" ELSE "rolledback", commit, Todo(Head(queue).tx))
<1> DEFINE i == Head(queue)
           t == i.tx
           R == Ran(t, t)
           commit == i.kind = "commit"
           u == IF commit THEN "committed" ELSE "rolledback"
           e == tx[t].exception
<1>1. /\ queue # <<>> /\ worker = "pop" /\ worker' \in {"pop", "out"}
      /\ t # NoTx /\ ~ Deferred(i) /\ ~ Refused(i) /\ i.kind # "query"
      /\ Headless(t) /\ Close(t, commit, Todo(t)) /\ Release(i, TRUE)
      /\ UNCHANGED <<closed, pleaseStop, made, failures>>
      /\ tx' = [R EXCEPT ![t].outcome = u]
  BY DEF RunEnd, Current, Popped
<1>2. /\ t \in Tx /\ t \in 1 .. made /\ tx[t] \in TxRecords
      /\ R \in [Tx -> TxRecords] /\ R[t].exception = e
  BY <1>1, HeadItem, RanKeeps DEF SqliteIInv, SqliteTypeOK
<1>3. e \in BOOLEAN /\ u \in Outcomes /\ failures \in Nat /\ commit \in BOOLEAN
  BY <1>2 DEF TxRecords, SqliteIInv, SqliteTypeOK, Outcomes
<1>4. /\ i = Head(queue) /\ t = i.tx /\ u = (IF commit THEN "committed" ELSE "rolledback")
      /\ commit => i.kind = "commit"
      /\ e => e
  OBVIOUS
<1> HIDE DEF i, t, R, u, commit
<1>5. R[t] \in TxRecords
  BY <1>2
<1>6. [R[t] EXCEPT !.outcome = u] = [R[t] EXCEPT !.exception = e, !.outcome = u]
  BY <1>2, <1>5 DEF TxRecords
<1>7. tx' = Result(t, t, e, u)
  BY <1>1, <1>2, <1>6 DEF Result, R
<1>8. u = IF ~ TRUE THEN "failed" ELSE IF commit THEN "committed" ELSE "rolledback"
  BY <1>4
<1>9. Does(i, TRUE, t, e, u, commit, Todo(t))
  BY <1>1, <1>3, <1>4, <1>7, <1>8 DEF Does
<1> QED
  BY <1>3, <1>4, <1>9

LEMMA DoAllFailsDoes ==
  ASSUME SqliteIInv, DoAllFails
  PROVE  \E last, u, run : Does(Head(queue), FALSE, last, TRUE, u, FALSE, run)
<1> DEFINE i == Head(queue)
           t == i.tx
<1>1. /\ queue # <<>> /\ worker = "pop" /\ worker' \in {"pop", "out"}
      /\ t # NoTx /\ ~ Deferred(i) /\ ~ Refused(i)
      /\ Headless(t) /\ Release(i, FALSE)
      /\ UNCHANGED <<closed, pleaseStop, made>> /\ failures' = failures + 1
  BY DEF DoAllFails, Current, Popped
<1>2. PICK x \in Todo(t) :
        LET run == {y \in Todo(t) : Before(y, x)} IN
        /\ tx' = [Ran(t, x.tx) EXCEPT
                   ![t].exception = TRUE,
                   ![t].outcome = IF i.kind = "query" THEN @ ELSE "failed"]
        /\ \/ /\ i.kind = "query"
              /\ stack' = Raised(t)
              /\ unit' = unit \cup run
              /\ queue' = Tail(queue)
              /\ UNCHANGED <<delayedQ, delayedT, available, durable>>
           \/ /\ i.kind # "query"
              /\ Close(t, FALSE, run)
  BY DEF DoAllFails
<1> DEFINE run == {y \in Todo(t) : Before(y, x)}
           R == Ran(t, x.tx)
           u == IF i.kind = "query" THEN tx[t].outcome ELSE "failed"
<1>3. /\ t \in Tx /\ t \in 1 .. made /\ tx[t] \in TxRecords
      /\ R \in [Tx -> TxRecords] /\ R[t].outcome = tx[t].outcome
  <2>1. t \in Tx /\ t \in 1 .. made
    BY <1>1, HeadItem
  <2> HIDE DEF t
  <2> QED
    BY <2>1, RanKeeps DEF SqliteIInv, SqliteTypeOK
<1>4. u \in Outcomes /\ failures' \in Nat
  BY <1>1, <1>3 DEF TxRecords, SqliteIInv, SqliteTypeOK, Outcomes
<1>5. /\ tx' = [R EXCEPT ![t].exception = TRUE,
                         ![t].outcome = IF i.kind = "query" THEN R[t].outcome ELSE "failed"]
      /\ \/ /\ i.kind = "query" /\ stack' = Raised(t) /\ unit' = unit \cup run
            /\ queue' = Tail(queue) /\ UNCHANGED <<delayedQ, delayedT, available, durable>>
         \/ i.kind # "query" /\ Close(t, FALSE, run)
  BY <1>2, <1>3
<1>6. i = Head(queue) /\ t = i.tx /\ run \subseteq Todo(t)
  OBVIOUS
<1>7. /\ i.kind = "query" => u = tx[t].outcome
      /\ i.kind # "query" => u = "failed"
      /\ u = IF i.kind = "query" THEN R[t].outcome ELSE "failed"
  BY <1>3
<1> HIDE DEF i, t, R, u, run
<1>8. tx' = Result(t, x.tx, TRUE, u)
  BY <1>3, <1>5, <1>7 DEF Result, R
<1>9. /\ unit \cup run = unit \cup run \cup
           (IF FALSE THEN {[by |-> i.by, tx |-> i.tx, n |-> i.n]} ELSE {})
      /\ TRUE = (tx[t].exception \/ ~ FALSE)
  OBVIOUS
<1>10. Does(i, FALSE, x.tx, TRUE, u, FALSE, run)
  BY <1>1, <1>4, <1>5, <1>6, <1>7, <1>8, <1>9 DEF Does
<1> QED
  BY <1>6, <1>10

\* Every step of the worker on an item of the current transaction.
LEMMA ItemRun ==
  ASSUME SqliteIInv, RunQuery \/ RunEnd \/ DoAllFails
  PROVE  \E ok, last, e, u, commit, run :
           Does(Head(queue), ok, last, e, u, commit, run) /\ (commit => ok)
<1>1. CASE RunQuery
  BY <1>1, RunQueryDoes
<1>2. CASE RunEnd
  BY <1>2, RunEndDoes
<1>3. CASE DoAllFails
  BY <1>3, DoAllFailsDoes
<1> QED
  BY <1>1, <1>2, <1>3

THEOREM SqliteStep == SqliteIInv /\ [Next]_vars => SqliteIInv'
<1> SUFFICES ASSUME SqliteIInv, [Next]_vars PROVE SqliteIInv'
  OBVIOUS
<1>1. ASSUME NEW c \in Clients, Open(c) PROVE SqliteIInv'
  BY <1>1, OpenKeeps
<1>2. ASSUME NEW c \in Clients, Execute(c) PROVE SqliteIInv'
  BY <1>2, ExecuteKeeps
<1>3. ASSUME NEW c \in Clients, Query(c) PROVE SqliteIInv'
  BY <1>3, QueryKeeps
<1>4. ASSUME NEW c \in Clients, Exit(c) PROVE SqliteIInv'
  BY <1>4, ExitKeeps
<1>5. ASSUME NEW c \in Clients, QueryOutside(c) PROVE SqliteIInv'
  BY <1>5, QueryOutsideKeeps
<1>6. ASSUME NEW c \in Clients, Add(c) PROVE SqliteIInv'
  BY <1>6, AddKeeps
<1>7. ASSUME NEW c \in Clients, Raise(c) \/ Catch(c) PROVE SqliteIInv'
  BY <1>7, RaiseKeeps, CatchKeeps
<1>8. ASSUME NEW c \in Clients, Stop(c) PROVE SqliteIInv'
  BY <1>8, StopKeeps
<1>9. ASSUME NEW c \in Clients, PleaseStop(c) \/ Joined(c) PROVE SqliteIInv'
  BY <1>9, PleaseStopKeeps, JoinedKeeps
<1>10. CASE End
  BY <1>10, EndKeeps
<1>11. CASE Delay
  BY <1>11, DelayKeeps
<1>12. CASE Refuse
  BY <1>12, RefuseKeeps
<1>13. CASE RunOutside
  BY <1>13, RunOutsideKeeps
<1>14. CASE StopAnswered
  BY <1>14, StopAnsweredKeeps
<1>15. CASE RunQuery \/ RunEnd \/ DoAllFails
  <2>1. PICK ok, last, e, u, commit, run :
          Does(Head(queue), ok, last, e, u, commit, run) /\ (commit => ok)
    BY <1>15, ItemRun
  <2> QED
    BY <2>1, DoesKeeps
<1>16. CASE UNCHANGED vars
  BY <1>16 DEF vars, SqliteIInv, SqliteTypeOK, MadeInOrder, Families, LinesAreChains, LinesNest,
               Nests, Blocks, BlocksOf, Calls, CallOf, Asking, Innermost, ItemsAreAwaited, Listed,
               Has, AwaitedOnce, Count, At, NoDelay, Nesting, Chain, UnitOfFamily,
               DurableForAReason
<1> QED
  BY <1>1, <1>2, <1>3, <1>4, <1>5, <1>6, <1>7, <1>8, <1>9, <1>10, <1>11, <1>12, <1>13, <1>14,
     <1>15, <1>16 DEF Next, Worker

-----------------------------------------------------------------------------
(* Theorems                                                                *)

\* The invariant holds, whatever the threads and the bounds are.
THEOREM SqliteInvariant == Spec => []SqliteIInv
<1> QED
  BY SqliteInit, SqliteStep, PTL DEF Spec

\* The state of the worker is sound, and whoever waits has its item in exactly one of the
\* three lists (sqlite.py:399-407, 437-455).
THEOREM SqliteSafe == Spec => []SqliteInv
<1>1. ASSUME SqliteIInv PROVE SqliteInv
  <2>1. NothingLost
    BY <1>1 DEF SqliteIInv, NothingLost, AwaitedOnce, Count, At, NoDelay
  <2> QED
    BY <1>1, <2>1 DEF SqliteInv, SqliteIInv
<1> QED
  BY <1>1, SqliteInvariant, PTL

-----------------------------------------------------------------------------
(* The refinement of SerialDb                                              *)

holderBar == IF worker = "ended" \/ stack = <<>> THEN NoClient ELSE tx[stack[1]].owner

\* Serial!vars, which holds an expression and no variable
serialVars == <<holderBar, unit, durable>>

\* A step on an item of the current transaction is one of the thread that has the database.
LEMMA DoesSerial ==
  ASSUME SqliteIInv, NEW i, NEW ok, NEW last, NEW e, NEW u, NEW commit, NEW run,
         Does(i, ok, last, e, u, commit, run)
  PROVE  \E c \in Clients : Serial!Work(c) \/ Serial!Commit(c) \/ Serial!Rollback(c)
<1> DEFINE t == i.tx
           c == i.by
           r == Raised(t)
<1>1. /\ queue # <<>> /\ i = Head(queue) /\ t # NoTx /\ ~ Deferred(i)
      /\ worker = "pop" /\ worker' # "ended" /\ run \subseteq Todo(t) /\ made' = made
      /\ tx' = Result(t, last, e, u) /\ e \in BOOLEAN /\ u \in Outcomes
  BY DEF Does
<1>2. /\ t \in 1 .. made /\ t \in Tx /\ t \in available /\ i \in Items
      /\ tx[t].owner = c /\ c \in Clients
  BY <1>1, HeadItem
<1>3. KeepsFamilies
  BY <1>1, <1>2, RanThen
<1>4. /\ r \in Seq(Tx) /\ Len(r) \in Nat \ {0} /\ r[Len(r)] = t /\ Chain(r)
      /\ r[1] = (IF stack = <<>> THEN t ELSE stack[1])
  BY <1>1, <1>2, RaisedChain DEF Deferred
<1>5. tx[r[1]].owner = c /\ r[1] \in Tx
  BY <1>2, <1>4 DEF Chain
<1>6. holderBar \in {NoClient, c}
  BY <1>1, <1>4, <1>5 DEF holderBar
<1>7. \A x \in run : x.by = c
  BY <1>1, <1>2, TodoOf
<1>8. tx'[r[1]].owner = c
  BY <1>3, <1>5 DEF KeepsFamilies
<1>9. CASE i.kind = "query"
  <2> DEFINE command == [by |-> i.by, tx |-> i.tx, n |-> i.n]
  <2>1. command.by = c
    OBVIOUS
  <2>2. stack' = r /\ durable' = durable
        /\ unit' = unit \cup run \cup (IF ok THEN {command} ELSE {})
    BY <1>9 DEF Does
  <2> HIDE DEF r, c, t, command
  <2>3. holderBar' = c
    BY <1>1, <1>4, <1>8, <2>2 DEF holderBar
  <2>4. unit \subseteq unit' /\ \A x \in unit' \ unit : x.by = c
    BY <1>7, <2>1, <2>2
  <2>5. Serial!Work(c)
    BY <1>6, <2>2, <2>3, <2>4 DEF Serial!Work, holderBar
  <2> QED
    BY <1>2, <2>5
<1>10. CASE i.kind # "query"
  <2>1. /\ stack' = SubSeq(r, 1, Len(r) - 1)
        /\ unit' = IF Len(r) = 1 THEN {} ELSE unit \cup run
        /\ durable' = IF Len(r) = 1 /\ commit THEN durable \cup unit \cup run ELSE durable
    BY <1>10 DEF Does, Close
  <2>2. /\ Len(stack') = Len(r) - 1
        /\ \A k \in 1 .. (Len(r) - 1) : stack'[k] = r[k]
    <3>1. Len(r) - 1 \in Nat /\ Len(r) - 1 <= Len(r)
      BY <1>4
    <3> QED
      BY <1>4, <2>1, <3>1, Prefix
  <2> HIDE DEF r, c, t
  <2>3. CASE Len(r) = 1
    <3>1. stack' = <<>>
      <4>1. SubSeq(r, 1, 1 - 1) = <<>>
        BY <1>4
      <4> QED
        BY <2>1, <2>3, <4>1
    <3>2. holderBar' = NoClient /\ unit' = {}
      BY <2>1, <2>3, <3>1 DEF holderBar
    <3>3. CASE commit
      <4>1. durable \cup unit \subseteq durable' /\ \A x \in durable' \ (durable \cup unit) : x.by = c
        BY <1>7, <2>1, <2>3, <3>3
      <4>2. Serial!Commit(c)
        BY <1>6, <3>2, <4>1 DEF Serial!Commit, holderBar
      <4> QED
        BY <1>2, <4>2
    <3>4. CASE ~ commit
      <4>1. Serial!Rollback(c)
        BY <1>6, <2>1, <3>2, <3>4 DEF Serial!Rollback, holderBar
      <4> QED
        BY <1>2, <4>1
    <3> QED
      BY <3>3, <3>4
  <2>4. CASE Len(r) # 1
    <3>1. stack' # <<>> /\ stack'[1] = r[1]
      BY <1>4, <2>2, <2>4
    <3>2. holderBar' = c
      BY <1>1, <1>8, <3>1 DEF holderBar
    <3>3. unit \subseteq unit' /\ (\A x \in unit' \ unit : x.by = c) /\ durable' = durable
      BY <1>7, <2>1, <2>4
    <3>4. Serial!Work(c)
      BY <1>6, <3>2, <3>3 DEF Serial!Work, holderBar
    <3> QED
      BY <1>2, <3>4
  <2> QED
    BY <2>3, <2>4
<1> QED
  BY <1>9, <1>10

\* No step changes the family of a transaction.
LEMMA OpenOld == ASSUME SqliteIInv, NEW c \in Clients, Open(c) PROVE KeepsOld
<1>1. made \in Nat /\ 1 .. made \subseteq Tx /\ tx \in [Tx -> TxRecords]
  BY Numbers DEF SqliteIInv, SqliteTypeOK
<1>2. \A t \in 1 .. made : t # made + 1
  BY <1>1
<1>3. made' = made + 1 /\ \E r : tx' = [tx EXCEPT ![made + 1] = r]
  BY DEF Open
<1>4. \A t \in 1 .. made : tx'[t] = tx[t]
  BY <1>1, <1>2, <1>3
<1> QED
  BY <1>1, <1>3, <1>4 DEF KeepsOld

LEMMA OwnersKept ==
  ASSUME SqliteIInv,
         \/ Delay \/ Refuse \/ StopAnswered
         \/ \E c \in Clients :
              \/ Execute(c) \/ Query(c) \/ Exit(c) \/ QueryOutside(c) \/ Add(c)
              \/ Raise(c) \/ Catch(c) \/ Stop(c) \/ PleaseStop(c) \/ Joined(c)
  PROVE  KeepsOld
<1>1. tx \in [Tx -> TxRecords] /\ made \in Nat /\ 1 .. made \subseteq Tx
  BY Numbers DEF SqliteIInv, SqliteTypeOK
<1>2. made' = made
  BY DEF Delay, Refuse, StopAnswered, Execute, Query, Exit, QueryOutside, Add, Raise, Catch, Stop,
         PleaseStop, Joined
<1>3. \A t \in Tx : /\ tx'[t].owner = tx[t].owner /\ tx'[t].parent = tx[t].parent
                   /\ tx'[t].line = tx[t].line
  <2>1. CASE tx' = tx
    BY <2>1
  <2>2. ASSUME NEW t \in Tx, tx' = [tx EXCEPT ![t].outcome = "failed"]
        PROVE  \A a \in Tx : /\ tx'[a].owner = tx[a].owner /\ tx'[a].parent = tx[a].parent
                             /\ tx'[a].line = tx[a].line
    BY <1>1, <2>2 DEF TxRecords
  <2>3. ASSUME NEW t \in Tx, NEW n, NEW d,
               \/ tx' = [tx EXCEPT ![t].issued = n]
               \/ tx' = [tx EXCEPT ![t].issued = n, ![t].todo = d]
        PROVE  \A a \in Tx : /\ tx'[a].owner = tx[a].owner /\ tx'[a].parent = tx[a].parent
                             /\ tx'[a].line = tx[a].line
    BY <1>1, <2>3 DEF TxRecords
  <2>4. CASE Delay \/ StopAnswered
    BY <2>1, <2>4 DEF Delay, StopAnswered
  <2>5. CASE Refuse
    <3>1. Head(queue).tx \in Tx
      BY <2>5, HeadItem DEF Refuse, Refused, Popped
    <3> QED
      BY <2>1, <2>2, <2>5, <3>1 DEF Refuse
  <2>6. ASSUME NEW c \in Clients, Execute(c) \/ Query(c) \/ Exit(c)
        PROVE  \A a \in Tx : /\ tx'[a].owner = tx[a].owner /\ tx'[a].parent = tx[a].parent
                             /\ tx'[a].line = tx[a].line
    <3>1. Innermost(c) \in Tx
      BY <2>6, InnermostOpen DEF Execute, Query, Exit, InBlock
    <3> QED
      BY <2>1, <2>2, <2>3, <2>6, <3>1 DEF Execute, Query, Exit
  <2>7. ASSUME NEW c \in Clients,
               \/ QueryOutside(c) \/ Add(c) \/ Raise(c) \/ Catch(c) \/ Stop(c)
               \/ PleaseStop(c) \/ Joined(c)
        PROVE  tx' = tx
    BY <2>7 DEF QueryOutside, Add, Raise, Catch, Stop, PleaseStop, Joined
  <2> QED
    BY <2>1, <2>4, <2>5, <2>6, <2>7
<1> QED
  BY <1>1, <1>2, <1>3 DEF KeepsOld

\* A step that leaves the transactions on the stack to their owners changes no holder.
LEMMA SameHolder ==
  ASSUME SqliteIInv, KeepsOld, stack' = stack, worker' = "ended" <=> worker = "ended"
  PROVE  holderBar' = holderBar
<1>1. stack # <<>> => stack[1] \in 1 .. made
  <2>1. stack # <<>> => 1 \in 1 .. Len(stack)
    BY Numbers
  <2> QED
    BY <2>1, Numbers DEF SqliteIInv, Nesting, Chain
<1> QED
  BY <1>1 DEF holderBar, KeepsOld

LEMMA SerialStep == SqliteIInv /\ [Next]_vars => [Serial!Next]_serialVars
<1> SUFFICES ASSUME SqliteIInv, [Next]_vars PROVE [Serial!Next]_serialVars
  OBVIOUS
<1>1. ASSUME NEW c \in Clients,
             Open(c) \/ Execute(c) \/ Query(c) \/ Exit(c) \/ QueryOutside(c) \/ Add(c)
             \/ Raise(c) \/ Catch(c) \/ Stop(c) \/ PleaseStop(c) \/ Joined(c)
      PROVE  UNCHANGED serialVars
  <2>1. UNCHANGED <<stack, worker, unit, durable>>
    BY <1>1 DEF Open, Execute, Query, Exit, QueryOutside, Add, Raise, Catch, Stop, PleaseStop,
                Joined, workerVars, dbVars
  <2>2. KeepsOld
    <3>1. CASE Open(c)
      BY <3>1, OpenOld
    <3>2. CASE ~ Open(c)
      BY <1>1, <3>2, OwnersKept
    <3> QED
      BY <3>1, <3>2
  <2> QED
    BY <2>1, <2>2, SameHolder DEF serialVars
<1>2. CASE End
  <2>1. Serial!CloseDb
    BY <1>2 DEF End, Serial!CloseDb
  <2> QED
    BY <2>1 DEF Serial!Next
<1>3. CASE Delay \/ Refuse \/ StopAnswered
  <2>1. UNCHANGED <<stack, unit, durable, made>> /\ worker = "pop" /\ worker' # "ended"
    BY <1>3 DEF Delay, Refuse, StopAnswered, Popped, dbVars
  <2>2. KeepsOld
    BY <1>3, OwnersKept
  <2> QED
    BY <2>1, <2>2, SameHolder DEF serialVars
<1>4. CASE RunOutside
  <2>1. /\ stack = <<>> /\ stack' = <<>> /\ unit' = unit /\ durable \subseteq durable'
        /\ \A x \in durable' \ durable : x.by = Head(queue).by
    BY <1>4, RunOutsideDoes DEF RunOutside
  <2>2. Head(queue).by \in Clients
    BY <1>4, HeadItem DEF RunOutside, Popped
  <2>3. Serial!Single(Head(queue).by)
    BY <2>1 DEF Serial!Single
  <2> QED
    BY <2>2, <2>3 DEF Serial!Next
<1>5. CASE RunQuery \/ RunEnd \/ DoAllFails
  <2>1. PICK ok, last, e, u, commit, run : Does(Head(queue), ok, last, e, u, commit, run)
    BY <1>5, ItemRun
  <2> QED
    BY <2>1, DoesSerial DEF Serial!Next
<1>6. CASE UNCHANGED vars
  BY <1>6 DEF vars, serialVars, holderBar
<1> QED
  BY <1>1, <1>2, <1>3, <1>4, <1>5, <1>6 DEF Next, Worker

\* The threads have the database for themselves between BEGIN and the end of their
\* transaction, whatever the others ask for (sqlite.py:437-455).
THEOREM SqliteImplementsSerial == Spec => ImplementsSerial
<1>1. Init => Serial!Init
  BY DEF Init, Serial!Init
<1>2. SqliteIInv /\ [Next]_vars => [Serial!Next]_(Serial!vars)
  BY SerialStep DEF serialVars, holderBar, Serial!vars
<1> QED
  BY <1>1, <1>2, SqliteInvariant, PTL DEF Spec, ImplementsSerial, Serial!Spec

-----------------------------------------------------------------------------
(* All of a transaction, or nothing                                        *)

\* one without nested ones that has failed is the current one, and has to be rolled back
FailedOnTop ==
  \A t \in Tx :
    (tx[t].exception /\ tx[t].outcome = "open" /\ ~ Nests(t) /\ worker # "ended")
      => stack # <<>> /\ Top = t

\* the thread of t is in a call about t
Speaks(t) ==
  LET c == tx[t].owner IN Asking(c) /\ thread[c].item.tx = t

Committing(t) == Speaks(t) /\ thread[tx[t].owner].item.kind = "commit"

\* t can still be committed: after stop() only if the call is under way
Committable(t) ==
  /\ tx[t].outcome = "open" /\ tx[t].parent = NoTx /\ ~ Nests(t)
  /\ ~ tx[t].exception
  /\ worker # "ended"
  /\ ~ closed \/ Committing(t)

\* the query of t that is not run yet
Pending(t) ==
  IF Speaks(t) /\ thread[tx[t].owner].item.kind = "query"
  THEN {thread[tx[t].owner].item.n} ELSE {}

\* the commands of t that are run, or will be
Run(t) == {x.n : x \in {y \in unit \cup durable : y.tx = t}}

Given(t) == Run(t) \cup tx[t].todo

\* no command is missing, and none is there that was not given
Accounted(t) == Committable(t) => Given(t) \cup Pending(t) = 1 .. tx[t].issued

CommittedWhole(t) ==
  (tx[t].outcome = "committed" /\ tx[t].parent = NoTx /\ ~ Nests(t))
    => {x.n : x \in Of(t)} = 1 .. tx[t].issued

SqliteWhole ==
  /\ FailedOnTop
  /\ \A t \in 1 .. made : Accounted(t) /\ CommittedWhole(t)

-----------------------------------------------------------------------------
(* A step that has nothing to do with t                                    *)

Untouched(t) ==
  /\ tx'[t].owner = tx[t].owner /\ tx'[t].parent = tx[t].parent /\ tx'[t].todo = tx[t].todo
  /\ tx'[t].issued = tx[t].issued /\ tx'[t].exception = tx[t].exception
  /\ tx'[t].outcome = tx[t].outcome
  /\ Run(t)' = Run(t) /\ Of(t)' = Of(t)
  /\ Speaks(t)' <=> Speaks(t)
  /\ Speaks(t) => thread'[tx[t].owner].item = thread[tx[t].owner].item

LEMMA NestsKept ==
  ASSUME SqliteIInv, KeepsOld, NEW t \in Tx, Nests(t)
  PROVE  Nests(t)'
<1>1. PICK s \in Tx : tx[s].parent = t
  BY DEF Nests
<1>2. s \in 1 .. made
  <2>1. s > made => tx[s] = NewTx
    BY DEF SqliteIInv, MadeInOrder
  <2> QED
    BY <1>1, <2>1, Numbers DEF NewTx, NoTx, Tx
<1> QED
  BY <1>1, <1>2 DEF KeepsOld, Nests

LEMMA UntouchedKept ==
  ASSUME SqliteIInv, SqliteWhole, KeepsOld, NEW t \in 1 .. made, Untouched(t),
         worker' # "ended" => worker # "ended", closed => closed'
  PROVE  Accounted(t)' /\ CommittedWhole(t)'
<1>1. ~ Nests(t)' => ~ Nests(t)
  BY NestsKept, Numbers
<1>2. Accounted(t) /\ CommittedWhole(t)
  BY DEF SqliteWhole
<1>3. Pending(t)' = Pending(t) /\ (Committing(t)' <=> Committing(t))
  BY DEF Pending, Committing, Untouched
<1>4. Given(t)' = Given(t)
  BY DEF Given, Untouched
<1>5. Committable(t)' => Committable(t)
  BY <1>1, <1>3 DEF Committable, Untouched
<1>6. Accounted(t)'
  BY <1>2, <1>3, <1>4, <1>5 DEF Accounted, Untouched
<1>7. CommittedWhole(t)'
  BY <1>1, <1>2 DEF CommittedWhole, Untouched
<1> QED
  BY <1>6, <1>7

\* A step that brings no failure and leaves the stack alone.
LEMMA FailedKept ==
  ASSUME SqliteIInv, SqliteWhole, KeepsOld, stack' = stack,
         worker' # "ended" => worker # "ended",
         \A t \in Tx : tx'[t].exception /\ tx'[t].outcome = "open" =>
                       tx[t].exception /\ tx[t].outcome = "open"
  PROVE  FailedOnTop'
<1> SUFFICES ASSUME NEW t \in Tx, tx'[t].exception, tx'[t].outcome = "open", ~ Nests(t)',
                    worker' # "ended"
             PROVE  stack # <<>> /\ Top = t
  BY DEF FailedOnTop, Top
<1>1. ~ Nests(t)
  BY NestsKept
<1> QED
  BY <1>1 DEF SqliteWhole, FailedOnTop

\* the thread c goes on with the same call, or its calls are about nothing but f
Mute(c, f) ==
  \/ /\ Asking(c)' <=> Asking(c)
     /\ Asking(c) => thread'[c].item = thread[c].item
  \/ /\ Asking(c) => thread[c].item.tx \in {NoTx, f}
     /\ Asking(c)' => thread'[c].item.tx \in {NoTx, f}

\* A step that has to do with the transaction f at most.
LEMMA OthersWhole ==
  ASSUME SqliteIInv, SqliteWhole, KeepsOld, NEW f, \A t \in (1 .. made) \ {f} : tx'[t] = tx[t],
         \A c \in Clients : Mute(c, f), unit' = unit,
         durable \subseteq durable', \A x \in durable' \ durable : x.tx = NoTx,
         worker' # "ended" => worker # "ended", closed => closed'
  PROVE  \A t \in (1 .. made) \ {f} : Accounted(t)' /\ CommittedWhole(t)'
<1> SUFFICES ASSUME NEW t \in (1 .. made) \ {f} PROVE Accounted(t)' /\ CommittedWhole(t)'
  OBVIOUS
<1>1. t # NoTx /\ tx[t].owner \in Clients
  BY Numbers DEF SqliteIInv, MadeInOrder, NoTx
<1>2. Of(t)' = Of(t)
  BY <1>1 DEF Of
<1>3. Run(t)' = Run(t)
  <2>1. {y \in unit' \cup durable' : y.tx = t} = {y \in unit \cup durable : y.tx = t}
    BY <1>1
  <2> QED
    BY <2>1 DEF Run
<1>4. /\ Speaks(t)' <=> Speaks(t)
      /\ Speaks(t) => thread'[tx[t].owner].item = thread[tx[t].owner].item
  <2>1. Mute(tx[t].owner, f) /\ tx'[t].owner = tx[t].owner
    BY <1>1
  <2>2. Speaks(t)' <=> (Asking(tx[t].owner)' /\ thread'[tx[t].owner].item.tx = t)
    BY <2>1 DEF Speaks, Asking
  <2> QED
    BY <1>1, <2>1, <2>2 DEF Mute, Speaks
<1>5. Untouched(t)
  BY <1>2, <1>3, <1>4 DEF Untouched
<1> QED
  BY <1>5, UntouchedKept

\* A step that has to do with none.
LEMMA QuietWhole ==
  ASSUME SqliteIInv, SqliteWhole, UNCHANGED <<tx, made, unit, stack>>,
         \A c \in Clients : Mute(c, NoTx),
         durable \subseteq durable', \A x \in durable' \ durable : x.tx = NoTx,
         worker' # "ended" => worker # "ended", closed => closed'
  PROVE  SqliteWhole'
<1>1. KeepsOld
  BY NothingMade, OldKept
<1>2. \A t \in 1 .. made : t # NoTx /\ tx'[t] = tx[t]
  BY Numbers DEF NoTx
<1>3. \A t \in 1 .. made : Accounted(t)' /\ CommittedWhole(t)'
  BY <1>1, <1>2, OthersWhole
<1>4. FailedOnTop'
  BY <1>1, FailedKept
<1> QED
  BY <1>3, <1>4 DEF SqliteWhole

LEMMA QuietClients ==
  ASSUME SqliteIInv, SqliteWhole, NEW c \in Clients,
         \/ QueryOutside(c) \/ Add(c) \/ Raise(c) \/ Catch(c) \/ Stop(c)
         \/ PleaseStop(c) \/ Joined(c)
  PROVE  SqliteWhole'
<1>1. thread \in [Clients -> ThreadRecords] /\ thread[c] \in ThreadRecords
  BY DEF SqliteIInv, SqliteTypeOK
<1>2. \A d \in Clients \ {c} : Mute(d, NoTx)
  <2>1. \A d \in Clients \ {c} : thread'[d] = thread[d]
    BY <1>1 DEF QueryOutside, Add, Raise, Catch, Stop, PleaseStop, Joined
  <2> QED
    BY <2>1 DEF Mute, Asking
<1>3. Mute(c, NoTx)
  <2>1. CASE QueryOutside(c)
    <3>1. ~ Asking(c)
      BY <2>1 DEF QueryOutside, Asking
    <3>2. CASE closed
      <4>1. thread'[c].pc = "idle"
        BY <1>1, <2>1, <3>2 DEF QueryOutside, ThreadRecords
      <4> QED
        BY <3>1, <4>1 DEF Mute, Asking
    <3>3. CASE ~ closed
      <4>1. thread'[c].item.tx = NoTx
        BY <1>1, <2>1, <3>3 DEF QueryOutside, ThreadRecords
      <4> QED
        BY <3>1, <4>1 DEF Mute
    <3> QED
      BY <3>2, <3>3
  <2>2. CASE Add(c)
    <3>1. thread'[c].pc = "waiting" /\ thread'[c].item = thread[c].item /\ thread[c].pc = "adding"
      BY <1>1, <2>2 DEF Add, ThreadRecords
    <3> QED
      BY <3>1 DEF Mute, Asking
  <2>3. CASE Raise(c) \/ Catch(c)
    <3>1. thread'[c].pc = thread[c].pc /\ thread'[c].item = thread[c].item
      BY <1>1, <2>3 DEF Raise, Catch, ThreadRecords
    <3> QED
      BY <3>1 DEF Mute, Asking
  <2>4. CASE Stop(c)
    <3>1. thread'[c].item.tx = NoTx /\ thread[c].pc = "idle"
      BY <1>1, <2>4 DEF Stop, ThreadRecords
    <3> QED
      BY <3>1 DEF Mute, Asking
  <2>5. CASE PleaseStop(c) \/ Joined(c)
    <3>1. thread'[c].pc \in {"joining", "over"} /\ thread[c].pc \in {"stopping", "joining"}
      BY <1>1, <2>5 DEF PleaseStop, Joined, ThreadRecords
    <3> QED
      BY <3>1 DEF Mute, Asking
  <2> QED
    BY <2>1, <2>2, <2>3, <2>4, <2>5
<1>4. UNCHANGED <<tx, made, unit, stack, durable, worker>> /\ (closed => closed')
  BY DEF QueryOutside, Add, Raise, Catch, Stop, PleaseStop, Joined, workerVars, dbVars
<1> QED
  BY <1>2, <1>3, <1>4, QuietWhole

LEMMA QuietWorker ==
  ASSUME SqliteIInv, SqliteWhole, Delay \/ RunOutside \/ StopAnswered
  PROVE  SqliteWhole'
<1>1. PICK i : i = Head(queue)
  OBVIOUS
<1>2. queue # <<>> /\ i.by \in Clients /\ thread[i.by].item = i /\ Asking(i.by)
  BY <1>1, HeadItem DEF Delay, RunOutside, StopAnswered, Popped
<1>3. \A c \in Clients : Mute(c, NoTx)
  <2>1. CASE Delay
    BY <2>1 DEF Delay, Mute, Asking
  <2>2. CASE RunOutside \/ StopAnswered
    <3>1. i.tx = NoTx /\ \E ok \in BOOLEAN : Release(i, ok)
      BY <1>1, <2>2 DEF RunOutside, StopAnswered
    <3>2. /\ ~ Asking(i.by)'
          /\ \A c \in Clients \ {i.by} : thread'[c] = thread[c]
      <4>1. PICK ok \in BOOLEAN : Release(i, ok)
        BY <3>1
      <4>2. /\ thread'[i.by].pc \in {"idle", "stopping"}
            /\ \A c \in Clients \ {i.by} : thread'[c] = thread[c]
        BY <1>2, <1>1, <4>1, Answer
      <4> QED
        BY <4>2 DEF Asking
    <3>3. Mute(i.by, NoTx)
      BY <1>2, <3>1, <3>2 DEF Mute
    <3>4. \A c \in Clients \ {i.by} : Mute(c, NoTx)
      BY <3>2 DEF Mute, Asking
    <3> QED
      BY <3>3, <3>4
  <2> QED
    BY <2>1, <2>2
<1>4. UNCHANGED <<tx, made, unit, stack, closed>> /\ worker # "ended"
      /\ durable \subseteq durable' /\ \A x \in durable' \ durable : x.tx = NoTx
  BY RunOutsideDoes DEF Delay, RunOutside, StopAnswered, Popped, dbVars
<1> QED
  BY <1>3, <1>4, QuietWhole

LEMMA EndWhole == ASSUME SqliteIInv, SqliteWhole, End PROVE SqliteWhole'
<1>1. worker' = "ended" /\ UNCHANGED <<tx, made, durable>>
  BY DEF End
<1>2. FailedOnTop'
  BY <1>1 DEF FailedOnTop
<1>3. \A t \in 1 .. made : Accounted(t)'
  BY <1>1 DEF Accounted, Committable
<1>4. \A t \in 1 .. made : CommittedWhole(t)'
  BY <1>1 DEF SqliteWhole, CommittedWhole, Nests, Of
<1> QED
  BY <1>1, <1>2, <1>3, <1>4 DEF SqliteWhole

LEMMA OpenWhole == ASSUME SqliteIInv, SqliteWhole, NEW c \in Clients, Open(c) PROVE SqliteWhole'
<1>1. PICK n : n = made + 1
  OBVIOUS
<1>2. /\ made \in Nat /\ made' = n /\ n \in Tx /\ 1 .. made \subseteq Tx
      /\ UNCHANGED <<unit, durable, stack, worker, closed>>
      /\ tx \in [Tx -> TxRecords] /\ thread \in [Clients -> ThreadRecords]
      /\ thread[c].pc = "idle"
      /\ \A t \in 1 .. n : t \in 1 .. made \/ t = n
  <2>1. /\ made \in Nat /\ MaxTx \in Nat /\ 1 .. made \subseteq Tx
        /\ tx \in [Tx -> TxRecords] /\ thread \in [Clients -> ThreadRecords]
    BY Numbers DEF SqliteIInv, SqliteTypeOK
  <2>2. /\ made < MaxTx /\ made' = n /\ UNCHANGED <<unit, durable, stack, worker, closed>>
        /\ thread[c].pc = "idle"
    BY <1>1 DEF Open, workerVars, dbVars
  <2>3. n \in Tx /\ \A t \in 1 .. n : t \in 1 .. made \/ t = n
    BY <1>1, <2>1, <2>2 DEF Tx
  <2> QED
    BY <2>1, <2>2, <2>3
<1>3. /\ \A t \in Tx \ {n} : tx'[t] = tx[t]
      /\ tx'[n].owner = c /\ tx'[n].outcome = "open" /\ ~ tx'[n].exception /\ tx'[n].todo = {}
      /\ tx'[n].issued = 0
  BY <1>1, <1>2 DEF Open, NewTx
<1>4. /\ \A d \in Clients \ {c} : thread'[d] = thread[d]
      /\ thread'[c].pc = "idle"
  BY <1>2 DEF Open, ThreadRecords
<1>5. \A d \in Clients : Mute(d, NoTx)
  <2>1. \A d \in Clients \ {c} : Mute(d, NoTx)
    BY <1>4 DEF Mute, Asking
  <2>2. Mute(c, NoTx)
    BY <1>2, <1>4 DEF Mute, Asking
  <2> QED
    BY <2>1, <2>2
<1>6. KeepsOld
  BY OpenOld
<1>7. \A t \in 1 .. made : Accounted(t)' /\ CommittedWhole(t)'
  <2>1. \A t \in 1 .. made : t # NoTx /\ tx'[t] = tx[t]
    BY <1>1, <1>2, <1>3 DEF NoTx
  <2> QED
    BY <1>2, <1>5, <1>6, <2>1, OthersWhole
<1>8. Accounted(n)' /\ CommittedWhole(n)'
  <2>1. \A x \in unit \cup durable : x.tx # n
    <3>1. \A x \in unit : x.tx \in 1 .. made
      BY DEF SqliteIInv, UnitOfFamily
    <3>2. \A x \in durable : x.tx # NoTx => x.tx <= made
      BY DEF SqliteIInv, DurableForAReason
    <3>3. \A x \in durable : x.tx # n
      BY <1>1, <1>2, <3>2 DEF NoTx
    <3> QED
      BY <1>1, <1>2, <3>1, <3>3
  <2>2. Run(n)' = {}
    BY <1>2, <2>1 DEF Run
  <2>3. ~ Speaks(n)'
    BY <1>3, <1>4 DEF Speaks, Asking
  <2>4. Given(n)' = {} /\ Pending(n)' = {} /\ 1 .. tx'[n].issued = {}
    BY <1>3, <2>2, <2>3 DEF Given, Pending
  <2>5. Accounted(n)'
    BY <2>4 DEF Accounted
  <2>6. CommittedWhole(n)'
    BY <1>3 DEF CommittedWhole
  <2> QED
    BY <2>5, <2>6
<1>9. FailedOnTop'
  <2>1. \A t \in Tx : tx'[t].exception /\ tx'[t].outcome = "open" =>
                       tx[t].exception /\ tx[t].outcome = "open"
    BY <1>3
  <2> QED
    BY <1>2, <1>6, <2>1, FailedKept
<1> QED
  BY <1>2, <1>7, <1>8, <1>9 DEF SqliteWhole

\* A step that has to do with the transaction t alone.
LEMMA FocusWhole ==
  ASSUME SqliteIInv, SqliteWhole, KeepsOld, NEW t \in 1 .. made,
         \A s \in Tx \ {t} : tx'[s] = tx[s],
         \A c \in Clients : Mute(c, t), UNCHANGED <<made, stack, unit, durable, worker, closed>>,
         tx'[t].exception = tx[t].exception,
         tx'[t].outcome = tx[t].outcome \/ tx'[t].outcome = "failed",
         Accounted(t)', CommittedWhole(t)'
  PROVE  SqliteWhole'
<1>1. \A s \in (1 .. made) \ {t} : Accounted(s)' /\ CommittedWhole(s)'
  <2>1. \A s \in (1 .. made) \ {t} : tx'[s] = tx[s]
    BY Numbers
  <2> QED
    BY <2>1, OthersWhole
<1>2. \A s \in Tx : tx'[s].exception /\ tx'[s].outcome = "open" =>
                     tx[s].exception /\ tx[s].outcome = "open"
  BY Numbers
<1>3. FailedOnTop'
  BY <1>2, FailedKept
<1> QED
  BY <1>1, <1>3 DEF SqliteWhole

\* What matters of it if its thread is in no call about it afterwards.
LEMMA FailedWhole ==
  ASSUME NEW t, tx'[t].outcome = "failed" \/ tx'[t].exception,
         tx'[t].outcome \in {"open", "failed"}
  PROVE  Accounted(t)' /\ CommittedWhole(t)'
BY DEF Accounted, Committable, CommittedWhole

\* The commands of a transaction are numbered as they are given.
LEMMA OneMore == ASSUME NEW n \in Nat PROVE 1 .. (n + 1) = (1 .. n) \cup {n + 1}
OBVIOUS

LEMMA ExecuteWhole ==
  ASSUME SqliteIInv, SqliteWhole, NEW c \in Clients, Execute(c) PROVE SqliteWhole'
<1>1. PICK t : t = Innermost(c)
  OBVIOUS
<1>2. /\ t \in Tx /\ t \in 1 .. made /\ tx[t].owner = c /\ tx[t].outcome = "open"
      /\ thread[c].pc = "idle" /\ tx \in [Tx -> TxRecords] /\ tx[t] \in TxRecords
      /\ tx[t].issued \in Nat
  BY <1>1, InnermostOpen DEF Execute, InBlock, SqliteIInv, SqliteTypeOK, TxRecords
<1>3. PICK n : n = tx[t].issued
  OBVIOUS
<1>4. /\ tx' = [tx EXCEPT ![t].issued = n + 1, ![t].todo = tx[t].todo \cup {n + 1}]
      /\ UNCHANGED <<made, stack, unit, durable, worker, closed, thread>>
  BY <1>1, <1>2, <1>3 DEF Execute, workerVars, dbVars
<1>5. /\ \A s \in Tx \ {t} : tx'[s] = tx[s]
      /\ tx'[t].owner = c /\ tx'[t].outcome = "open" /\ tx'[t].parent = tx[t].parent
      /\ tx'[t].exception = tx[t].exception /\ tx'[t].issued = n + 1
      /\ tx'[t].todo = tx[t].todo \cup {n + 1}
  BY <1>2, <1>4 DEF TxRecords
<1>6. KeepsOld
  BY OwnersKept
<1>7. \A d \in Clients : Mute(d, t)
  BY <1>4 DEF Mute, Asking
<1>8. ~ Speaks(t) /\ ~ Speaks(t)'
  BY <1>2, <1>4, <1>5 DEF Speaks, Asking
<1>9. Accounted(t)'
  <2>1. Run(t)' = Run(t)
    BY <1>4 DEF Run
  <2>2. Given(t)' = Given(t) \cup {n + 1} /\ Pending(t) = {} /\ Pending(t)' = {}
    BY <1>5, <1>8, <2>1 DEF Given, Pending
  <2>3. Committable(t)' => Committable(t)
    BY <1>2, <1>4, <1>5, <1>6, <1>8, NestsKept DEF Committable, Committing
  <2>4. Committable(t) => Given(t) = 1 .. n
    BY <1>2, <1>3, <2>2 DEF SqliteWhole, Accounted
  <2> QED
    BY <1>2, <1>3, <1>5, <2>2, <2>3, <2>4, OneMore DEF Accounted
<1>10. CommittedWhole(t)'
  BY <1>5 DEF CommittedWhole
<1> QED
  BY <1>2, <1>4, <1>5, <1>6, <1>7, <1>9, <1>10, FocusWhole

LEMMA QueryWhole ==
  ASSUME SqliteIInv, SqliteWhole, NEW c \in Clients, Query(c) PROVE SqliteWhole'
<1>1. PICK t : t = Innermost(c)
  OBVIOUS
<1>2. /\ t \in Tx /\ t \in 1 .. made /\ tx[t].owner = c /\ tx[t].outcome = "open"
      /\ thread[c].pc = "idle" /\ tx \in [Tx -> TxRecords] /\ tx[t] \in TxRecords
      /\ tx[t].issued \in Nat /\ thread \in [Clients -> ThreadRecords]
  BY <1>1, InnermostOpen DEF Query, InBlock, SqliteIInv, SqliteTypeOK, TxRecords
<1>3. PICK n : n = tx[t].issued
  OBVIOUS
<1>4. /\ tx' = [tx EXCEPT ![t].issued = n + 1]
      /\ Ask(c, [by |-> c, kind |-> "query", tx |-> t, n |-> n + 1])
      /\ UNCHANGED <<made, stack, unit, durable, worker, closed>>
  BY <1>1, <1>2, <1>3 DEF Query, workerVars, dbVars
<1>5. /\ \A s \in Tx \ {t} : tx'[s] = tx[s]
      /\ tx'[t].owner = c /\ tx'[t].outcome = "open" /\ tx'[t].parent = tx[t].parent
      /\ tx'[t].exception = tx[t].exception /\ tx'[t].issued = n + 1
      /\ tx'[t].todo = tx[t].todo
  BY <1>2, <1>4 DEF TxRecords
<1>6. KeepsOld
  BY OwnersKept
<1>7. /\ \A d \in Clients \ {c} : thread'[d] = thread[d]
      /\ closed => thread'[c].pc = "idle"
      /\ ~ closed => /\ thread'[c].pc = "adding"
                     /\ thread'[c].item = [by |-> c, kind |-> "query", tx |-> t, n |-> n + 1]
  BY <1>2, <1>4 DEF Ask, ThreadRecords
<1>8. \A d \in Clients : Mute(d, t)
  <2>1. \A d \in Clients \ {c} : Mute(d, t)
    BY <1>7 DEF Mute, Asking
  <2>2. Mute(c, t)
    BY <1>2, <1>7 DEF Mute, Asking
  <2> QED
    BY <2>1, <2>2
<1>9. Accounted(t)'
  <2>1. Run(t)' = Run(t)
    BY <1>4 DEF Run
  <2>2. Given(t)' = Given(t)
    BY <1>5, <2>1 DEF Given
  <2>3. ~ Speaks(t) /\ Pending(t) = {}
    BY <1>2 DEF Speaks, Asking, Pending
  <2>4. CASE closed
    <3>1. ~ Speaks(t)'
      BY <1>5, <1>7, <2>4 DEF Speaks, Asking
    <3> QED
      BY <1>4, <2>4, <3>1 DEF Accounted, Committable, Committing
  <2>5. CASE ~ closed
    <3>1. Pending(t)' = {n + 1}
      BY <1>5, <1>7, <2>5 DEF Pending, Speaks, Asking
    <3>2. Committable(t)' => Committable(t)
      BY <1>2, <1>4, <1>5, <1>6, <2>5, NestsKept DEF Committable
    <3>3. Committable(t) => Given(t) = 1 .. n
      BY <1>2, <1>3, <2>3 DEF SqliteWhole, Accounted
    <3> QED
      BY <1>2, <1>3, <1>5, <2>2, <3>1, <3>2, <3>3, OneMore DEF Accounted
  <2> QED
    BY <2>4, <2>5
<1>10. CommittedWhole(t)'
  BY <1>5 DEF CommittedWhole
<1> QED
  BY <1>2, <1>4, <1>5, <1>6, <1>8, <1>9, <1>10, FocusWhole

LEMMA ExitWhole ==
  ASSUME SqliteIInv, SqliteWhole, NEW c \in Clients, Exit(c) PROVE SqliteWhole'
<1>1. PICK t : t = Innermost(c)
  OBVIOUS
<1>2. /\ t \in Tx /\ t \in 1 .. made /\ tx[t].owner = c /\ tx[t].outcome = "open"
      /\ thread[c].pc = "idle" /\ tx \in [Tx -> TxRecords] /\ tx[t] \in TxRecords
      /\ thread \in [Clients -> ThreadRecords]
  BY <1>1, InnermostOpen DEF Exit, InBlock, SqliteIInv, SqliteTypeOK
<1>3. PICK item : item = [by |-> c, kind |-> IF thread[c].raised THEN "rollback" ELSE "commit",
                          tx |-> t, n |-> 0]
  OBVIOUS
<1>4. /\ tx' = IF closed THEN [tx EXCEPT ![t].outcome = "failed"] ELSE tx
      /\ Ask(c, item) /\ item.tx = t /\ item.kind # "query"
      /\ UNCHANGED <<made, stack, unit, durable, worker, closed>>
  BY <1>1, <1>2, <1>3 DEF Exit, workerVars, dbVars
<1>5. /\ \A s \in Tx \ {t} : tx'[s] = tx[s]
      /\ tx'[t].owner = c /\ tx'[t].parent = tx[t].parent
      /\ tx'[t].outcome = (IF closed THEN "failed" ELSE "open")
      /\ tx'[t].exception = tx[t].exception /\ tx'[t].issued = tx[t].issued
      /\ tx'[t].todo = tx[t].todo
  BY <1>2, <1>4 DEF TxRecords
<1>6. KeepsOld
  BY OwnersKept
<1>7. /\ \A d \in Clients \ {c} : thread'[d] = thread[d]
      /\ closed => thread'[c].pc = "idle"
      /\ ~ closed => thread'[c].pc = "adding" /\ thread'[c].item = item
  BY <1>2, <1>4 DEF Ask, ThreadRecords
<1>8. \A d \in Clients : Mute(d, t)
  <2>1. \A d \in Clients \ {c} : Mute(d, t)
    BY <1>7 DEF Mute, Asking
  <2>2. Mute(c, t)
    BY <1>2, <1>4, <1>7 DEF Mute, Asking
  <2> QED
    BY <2>1, <2>2
<1>9. Accounted(t)' /\ CommittedWhole(t)'
  <2>1. CASE closed
    BY <1>5, <2>1, FailedWhole
  <2>2. CASE ~ closed
    <3>1. Run(t)' = Run(t)
      BY <1>4 DEF Run
    <3>2. Given(t)' = Given(t)
      BY <1>5, <3>1 DEF Given
    <3>3. Pending(t) = {}
      BY <1>2 DEF Speaks, Asking, Pending
    <3>4. Pending(t)' = {}
      BY <1>4, <1>5, <1>7, <2>2 DEF Pending
    <3>5. Committable(t)' => Committable(t)
      BY <1>2, <1>4, <1>5, <1>6, <2>2, NestsKept DEF Committable
    <3>6. Accounted(t)'
      BY <1>2, <1>5, <3>2, <3>3, <3>4, <3>5 DEF Accounted, SqliteWhole
    <3>7. CommittedWhole(t)'
      BY <1>5, <2>2 DEF CommittedWhole
    <3> QED
      BY <3>6, <3>7
  <2> QED
    BY <2>1, <2>2
<1> QED
  BY <1>2, <1>4, <1>5, <1>6, <1>8, <1>9, FocusWhole

LEMMA RefuseWhole == ASSUME SqliteIInv, SqliteWhole, Refuse PROVE SqliteWhole'
<1>1. PICK i : i = Head(queue)
  OBVIOUS
<1>2. PICK t : t = i.tx
  OBVIOUS
<1>3. /\ queue # <<>> /\ Release(i, FALSE) /\ Refused(i) /\ worker = "pop" /\ worker' # "ended"
      /\ tx' = IF i.kind = "commit" THEN [tx EXCEPT ![t].outcome = "failed"] ELSE tx
      /\ UNCHANGED <<made, stack, unit, durable, closed>>
  BY <1>1, <1>2 DEF Refuse, Popped, dbVars
<1>4. /\ t \in Tx /\ t \in 1 .. made /\ tx[t].owner = i.by /\ tx[t].outcome = "open"
      /\ i.by \in Clients /\ thread[i.by].item = i /\ tx[t].exception
      /\ tx \in [Tx -> TxRecords] /\ tx[t] \in TxRecords
  BY <1>1, <1>2, <1>3, HeadItem DEF Refused, SqliteIInv, SqliteTypeOK
<1>5. /\ \A s \in Tx \ {t} : tx'[s] = tx[s]
      /\ tx'[t].exception /\ tx'[t].outcome \in {"open", "failed"}
  BY <1>3, <1>4 DEF TxRecords
<1>6. KeepsOld
  BY OwnersKept
<1>7. /\ thread'[i.by].pc \in {"idle", "stopping"}
      /\ \A d \in Clients \ {i.by} : thread'[d] = thread[d]
  BY <1>1, <1>3, Answer
<1>8. \A d \in Clients : Mute(d, t)
  <2>1. \A d \in Clients \ {i.by} : Mute(d, t)
    BY <1>7 DEF Mute, Asking
  <2>2. Mute(i.by, t)
    BY <1>2, <1>4, <1>7 DEF Mute, Asking
  <2> QED
    BY <2>1, <2>2
<1>9. Accounted(t)' /\ CommittedWhole(t)'
  BY <1>5, FailedWhole
<1>10. \A s \in (1 .. made) \ {t} : Accounted(s)' /\ CommittedWhole(s)'
  <2>1. \A s \in (1 .. made) \ {t} : tx'[s] = tx[s]
    BY <1>5, Numbers
  <2> QED
    BY <1>3, <1>6, <1>8, <2>1, OthersWhole
<1>11. FailedOnTop'
  <2>1. \A s \in Tx : tx'[s].exception /\ tx'[s].outcome = "open" =>
                       tx[s].exception /\ tx[s].outcome = "open"
    BY <1>4, <1>5
  <2> QED
    BY <1>3, <1>6, <2>1, FailedKept
<1> QED
  BY <1>3, <1>9, <1>10, <1>11 DEF SqliteWhole

-----------------------------------------------------------------------------
(* All or nothing: an item of the current transaction                      *)

\* The facts about such a step that the lemmas below share.
LEMMA DoesWhat ==
  ASSUME SqliteIInv, NEW i, NEW ok, NEW last, NEW e, NEW u, NEW commit, NEW run,
         Does(i, ok, last, e, u, commit, run)
  PROVE  /\ queue # <<>> /\ i = Head(queue) /\ i.tx # NoTx /\ ~ Deferred(i) /\ ~ Refused(i)
         /\ i.tx \in Tx /\ i.tx \in 1 .. made /\ i.tx \in available
         /\ tx[i.tx].owner = i.by /\ tx[i.tx].outcome = "open"
         /\ i.by \in Clients /\ thread[i.by].item = i /\ Asking(i.by)
         /\ thread'[i.by].pc \in {"idle", "stopping"} /\ ~ Asking(i.by)'
         /\ \A d \in Clients \ {i.by} : thread'[d] = thread[d]
         /\ KeepsFamilies /\ KeepsOld /\ made' = made /\ closed' = closed
         /\ worker = "pop" /\ worker' # "ended"
         /\ run \subseteq Todo(i.tx)
         /\ tx'[i.tx].exception = e /\ tx'[i.tx].outcome = u
         /\ \A a \in Tx \ {i.tx} :
              tx'[a].exception = tx[a].exception /\ tx'[a].outcome = tx[a].outcome
         /\ \A a \in Tx :
              /\ tx'[a].issued = tx[a].issued
              /\ tx'[a].todo = IF a \in tx[i.tx].line /\ a <= last THEN {} ELSE tx[a].todo
         /\ \A a : Nests(a)' <=> Nests(a)
         /\ stack = <<>> \/ Top \in {i.tx, tx[i.tx].parent}
<1>1. /\ queue # <<>> /\ i = Head(queue) /\ i.tx # NoTx /\ ~ Deferred(i) /\ ~ Refused(i)
      /\ Release(i, ok) /\ ok \in BOOLEAN /\ e \in BOOLEAN /\ u \in Outcomes
      /\ made' = made /\ closed' = closed /\ worker = "pop" /\ worker' # "ended"
      /\ run \subseteq Todo(i.tx) /\ tx' = Result(i.tx, last, e, u)
  BY DEF Does
<1>2. /\ i.tx \in Tx /\ i.tx \in 1 .. made /\ i.tx \in available
      /\ tx[i.tx].owner = i.by /\ tx[i.tx].outcome = "open"
      /\ i.by \in Clients /\ thread[i.by].item = i /\ Asking(i.by)
  BY <1>1, HeadItem
<1>3. /\ thread'[i.by].pc \in {"idle", "stopping"}
      /\ \A d \in Clients \ {i.by} : thread'[d] = thread[d]
  BY <1>1, Answer
<1>4. tx' = Result(i.tx, last, e, u) /\ i.tx \in 1 .. made /\ made' = made
      /\ e \in BOOLEAN /\ u \in Outcomes
  BY <1>1, <1>2
<1>8. /\ tx' \in [Tx -> TxRecords] /\ KeepsFamilies
      /\ tx'[i.tx].exception = e /\ tx'[i.tx].outcome = u
      /\ \A a \in Tx \ {i.tx} :
           tx'[a].exception = tx[a].exception /\ tx'[a].outcome = tx[a].outcome
      /\ \A a \in Tx :
           /\ tx'[a].issued = tx[a].issued
           /\ tx'[a].todo = IF a \in tx[i.tx].line /\ a <= last THEN {} ELSE tx[a].todo
  BY <1>4, RanThen
<1>5. KeepsOld /\ \A a : Nests(a)' <=> Nests(a)
  BY <1>8, OldKept, FamiliesKept
<1>6. ~ Asking(i.by)'
  BY <1>3 DEF Asking
<1>7. stack = <<>> \/ Top \in {i.tx, tx[i.tx].parent}
  BY <1>1 DEF Deferred
<1> QED
  BY <1>1, <1>2, <1>3, <1>4, <1>5, <1>6, <1>7, <1>8

\* where such a step leaves the unit and what is durable
LEMMA DoesWhere ==
  ASSUME NEW i, NEW ok, NEW last, NEW e, NEW u, NEW commit, NEW run,
         Does(i, ok, last, e, u, commit, run)
  PROVE  \/ /\ i.kind = "query" /\ stack' = Raised(i.tx) /\ durable' = durable
            /\ unit' = unit \cup run \cup
                 (IF ok THEN {[by |-> i.by, tx |-> i.tx, n |-> i.n]} ELSE {})
            /\ u = tx[i.tx].outcome /\ e = (tx[i.tx].exception \/ ~ ok)
         \/ /\ i.kind # "query" /\ (commit => i.kind = "commit")
            /\ unit' = (IF Len(Raised(i.tx)) = 1 THEN {} ELSE unit \cup run)
            /\ durable' = (IF Len(Raised(i.tx)) = 1 /\ commit THEN durable \cup unit \cup run
                           ELSE durable)
            /\ u = IF ~ ok THEN "failed" ELSE IF commit THEN "committed" ELSE "rolledback"
BY DEF Does, Close

LEMMA DoesFailed ==
  ASSUME SqliteIInv, SqliteWhole,
         NEW i, NEW ok, NEW last, NEW e, NEW u, NEW commit, NEW run,
         Does(i, ok, last, e, u, commit, run)
  PROVE  FailedOnTop'
<1> SUFFICES ASSUME NEW t \in Tx, tx'[t].exception, tx'[t].outcome = "open", ~ Nests(t)'
             PROVE  stack' # <<>> /\ Top' = t
  BY DEF FailedOnTop
<1>1. ~ Nests(t) /\ stack \in Seq(Tx)
  BY DoesWhat, Numbers
<1>2. CASE t = i.tx
  <2>1. stack' = Raised(i.tx)
    BY <1>2, DoesWhat, DoesWhere
  <2>2. Len(Raised(i.tx)) \in Nat \ {0} /\ Raised(i.tx)[Len(Raised(i.tx))] = i.tx
    BY DoesWhat, RaisedChain
  <2>3. Raised(i.tx) # <<>>
    BY <2>2
  <2> QED
    BY <1>2, <2>1, <2>2, <2>3 DEF Top
<1>3. CASE t # i.tx
  <2>1. tx[t].exception /\ tx[t].outcome = "open" /\ worker # "ended"
    BY <1>3, DoesWhat
  <2>2. stack # <<>> /\ Top = t
    BY <1>1, <2>1 DEF SqliteWhole, FailedOnTop
  <2>3. tx[i.tx].parent = t /\ i.tx \in Tx
    BY <1>3, <2>2, DoesWhat
  <2> QED
    BY <1>1, <2>3 DEF Nests
<1> QED
  BY <1>2, <1>3

\* One that is no part of another and has none in it is alone in its line, and in the unit.
LEMMA Alone ==
  ASSUME SqliteIInv, NEW s \in 1 .. made, tx[s].parent = NoTx, ~ Nests(s)
  PROVE  /\ tx[s].line = {s}
         /\ \A t \in 1 .. made : s \in tx[t].line => t = s
         /\ \A x \in unit : x.tx = s => stack # <<>> /\ stack[1] = s
<1>1. tx[s].line = {s} /\ \A t \in 1 .. made : s \in tx[t].line => t = s
  BY DEF SqliteIInv, Families, LinesNest
<1>2. ASSUME NEW x \in unit, x.tx = s PROVE stack # <<>> /\ stack[1] = s
  <2>1. stack # <<>> /\ (stack[1] \in tx[s].line \/ s \in tx[stack[1]].line)
    BY <1>2 DEF SqliteIInv, UnitOfFamily
  <2>2. stack[1] \in 1 .. made
    <3>1. 1 \in 1 .. Len(stack)
      BY <2>1, Numbers
    <3>2. stack[1] \in available
      BY <3>1 DEF SqliteIInv, Nesting, Chain
    <3> QED
      BY <3>2, Numbers
  <2> QED
    BY <1>1, <2>1, <2>2
<1> QED
  BY <1>1, <1>2

LEMMA DoesOther ==
  ASSUME SqliteIInv, SqliteWhole,
         NEW i, NEW ok, NEW last, NEW e, NEW u, NEW commit, NEW run,
         Does(i, ok, last, e, u, commit, run), NEW s \in 1 .. made, s # i.tx
  PROVE  Accounted(s)' /\ CommittedWhole(s)'
<1>1. s \in Tx /\ s # NoTx /\ tx[s].owner \in Clients
  BY Numbers DEF SqliteIInv, MadeInOrder, NoTx
<1>2. /\ tx'[s].owner = tx[s].owner /\ tx'[s].parent = tx[s].parent
      /\ Nests(s)' <=> Nests(s)
  BY <1>1, DoesWhat DEF KeepsFamilies
<1>3. CASE Nests(s) \/ tx[s].parent # NoTx
  BY <1>2, <1>3 DEF Accounted, Committable, CommittedWhole
<1>4. CASE ~ Nests(s) /\ tx[s].parent = NoTx
  <2>1. s \notin tx[i.tx].line
    BY <1>4, Alone, DoesWhat
  <2>2. /\ tx'[s].todo = tx[s].todo /\ tx'[s].issued = tx[s].issued
        /\ tx'[s].exception = tx[s].exception /\ tx'[s].outcome = tx[s].outcome
    BY <1>1, <2>1, DoesWhat
  <2>3. \A x \in unit : x.tx # s
    <3>1. stack # <<>> => stack[1] \in tx[i.tx].line
      BY DoesWhat, RaisedChain
    <3> QED
      BY <1>4, <2>1, <3>1, Alone
  <2>4. \A x \in run : x.tx # s
    BY <2>1, DoesWhat, TodoOf
  <2>5. /\ \A x \in unit' : x.tx # s
        /\ {y \in durable' : y.tx = s} = {y \in durable : y.tx = s}
    <3> DEFINE command == [by |-> i.by, tx |-> i.tx, n |-> i.n]
    <3>1. command.tx # s
      OBVIOUS
    <3>2. unit' \subseteq unit \cup run \cup {command} /\ durable \subseteq durable'
          /\ durable' \subseteq durable \cup unit \cup run
      BY DoesWhere
    <3> HIDE DEF command
    <3> QED
      BY <2>3, <2>4, <3>1, <3>2
  <2>6. Of(s)' = Of(s)
    BY <2>5 DEF Of
  <2>7. Run(s)' = Run(s)
    <3>1. {y \in unit' \cup durable' : y.tx = s} = {y \in unit \cup durable : y.tx = s}
      BY <2>3, <2>5
    <3> QED
      BY <3>1 DEF Run
  <2>8. /\ Speaks(s)' <=> Speaks(s)
        /\ Speaks(s) => thread'[tx[s].owner].item = thread[tx[s].owner].item
    <3>1. CASE tx[s].owner = i.by
      <4>1. ~ Speaks(s) /\ ~ Speaks(s)'
        BY <1>2, <3>1, DoesWhat DEF Speaks
      <4> QED
        BY <4>1
    <3>2. CASE tx[s].owner # i.by
      <4>1. thread'[tx[s].owner] = thread[tx[s].owner]
        BY <1>1, <3>2, DoesWhat
      <4> QED
        BY <1>2, <4>1 DEF Speaks, Asking
    <3> QED
      BY <3>1, <3>2
  <2>9. Untouched(s)
    BY <1>2, <2>2, <2>6, <2>7, <2>8 DEF Untouched
  <2> QED
    BY <2>9, UntouchedKept, DoesWhat
<1> QED
  BY <1>3, <1>4

\* All that do_all() has to run for it is of the transaction itself.
LEMMA TodoAlone ==
  ASSUME SqliteIInv, NEW t \in 1 .. made, tx[t].line = {t}
  PROVE  (\A x \in Todo(t) : x.tx = t) /\ {x.n : x \in Todo(t)} = tx[t].todo
<1>1. /\ \A x \in Todo(t) : x.tx = t /\ x.n \in tx[t].todo
      /\ \A n \in tx[t].todo : [by |-> tx[t].owner, tx |-> t, n |-> n] \in Todo(t)
  BY TodoOf
<1>2. ASSUME NEW n \in tx[t].todo PROVE n \in {x.n : x \in Todo(t)}
  <2> DEFINE x == [by |-> tx[t].owner, tx |-> t, n |-> n]
  <2>1. x \in Todo(t) /\ x.n = n
    BY <1>1
  <2> HIDE DEF x
  <2> QED
    BY <2>1
<1> QED
  BY <1>1, <1>2

\* The stack is of this transaction alone when it is the current one.
LEMMA RaisedAlone ==
  ASSUME SqliteIInv, NEW t \in available, tx[t].line = {t},
         stack = <<>> \/ Top \in {t, tx[t].parent}
  PROVE  Len(Raised(t)) = 1
<1>1. PICK r : r = Raised(t)
  OBVIOUS
<1>2. PICK n : n = Len(r)
  OBVIOUS
<1>3. n \in Nat \ {0} /\ r[n] = t /\ r[1] = t /\ Chain(r) /\ t \in Nat
  BY <1>1, <1>2, RaisedChain, Numbers
<1>4. ASSUME n # 1 PROVE FALSE
  <2>1. n \in 1 .. n /\ 1 \in 1 .. (n - 1)
    BY <1>3, <1>4
  <2>2. r[1] < r[n]
    BY <1>2, <1>3, <2>1 DEF Chain
  <2> QED
    BY <1>3, <2>2
<1> QED
  BY <1>1, <1>2, <1>4

LEMMA DoesSelf ==
  ASSUME SqliteIInv, SqliteWhole,
         NEW i, NEW ok, NEW last, NEW e, NEW u, NEW commit, NEW run,
         Does(i, ok, last, e, u, commit, run), commit => ok
  PROVE  Accounted(i.tx)' /\ CommittedWhole(i.tx)'
<1>1. PICK t : t = i.tx
  OBVIOUS
<1>2. /\ t \in 1 .. made /\ t \in Tx /\ t \in available /\ tx[t].owner = i.by
      /\ tx'[t].owner = i.by /\ tx'[t].parent = tx[t].parent
      /\ tx[t].outcome = "open" /\ tx'[t].outcome = u /\ tx'[t].exception = e
      /\ tx'[t].issued = tx[t].issued
      /\ Nests(t)' <=> Nests(t)
  BY <1>1, DoesWhat DEF KeepsFamilies
<1>3. CASE Nests(t) \/ tx[t].parent # NoTx
  <2>1. Accounted(t)' /\ CommittedWhole(t)'
    BY <1>2, <1>3 DEF Accounted, Committable, CommittedWhole
  <2> QED
    BY <1>1, <2>1
<1>4. CASE u = "failed" \/ (u = "open" /\ e) \/ u = "rolledback"
  <2>1. Accounted(t)' /\ CommittedWhole(t)'
    BY <1>2, <1>4 DEF Accounted, Committable, CommittedWhole
  <2> QED
    BY <1>1, <2>1
<1>5. ASSUME ~ Nests(t), tx[t].parent = NoTx, ok, u = "open" => ~ e, u # "rolledback"
      PROVE  Accounted(t)' /\ CommittedWhole(t)'
  <2>1. tx[t].line = {t}
    BY <1>2, <1>5, Alone
  <2>2. /\ \A x \in Todo(t) : x.tx = t
        /\ {x.n : x \in Todo(t)} = tx[t].todo
    BY <1>2, <2>1, TodoAlone
  <2>3. run = Todo(t) /\ last = t
    BY <1>1, <1>5 DEF Does
  <2>4. tx'[t].todo = {}
    BY <1>1, <1>2, <2>1, <2>3, DoesWhat, Numbers
  <2>5. ~ Speaks(t)'
    BY <1>2, DoesWhat DEF Speaks
  <2>6. Speaks(t) /\ thread[tx[t].owner].item = i
    BY <1>1, <1>2, DoesWhat DEF Speaks
  <2>7. Accounted(t)
    BY <1>2 DEF SqliteWhole
  <2>8. CASE i.kind = "query"
    <3> DEFINE command == [by |-> i.by, tx |-> i.tx, n |-> i.n]
    <3>1. /\ unit' = unit \cup Todo(t) \cup {command} /\ durable' = durable
          /\ u = "open" /\ ~ e /\ ~ tx[t].exception
      BY <1>1, <1>2, <1>5, <2>3, <2>8, DoesWhere
    <3>2. command.tx = t /\ command.n = i.n
      BY <1>1
    <3> HIDE DEF command
    <3>3. {y \in unit' \cup durable' : y.tx = t}
            = {y \in unit \cup durable : y.tx = t} \cup Todo(t) \cup {command}
      BY <2>2, <3>1, <3>2
    <3>4. Run(t)' = Run(t) \cup tx[t].todo \cup {i.n}
      BY <2>2, <3>2, <3>3 DEF Run
    <3>5. Pending(t) = {i.n} /\ Pending(t)' = {}
      BY <2>5, <2>6, <2>8 DEF Pending
    <3>6. Given(t)' \cup Pending(t)' = Given(t) \cup Pending(t)
      BY <2>4, <3>4, <3>5 DEF Given
    <3>7. Committable(t)' => Committable(t)
      BY <1>2, <1>5, <2>5, <3>1, DoesWhat DEF Committable, Committing
    <3>8. Accounted(t)'
      BY <1>2, <2>7, <3>6, <3>7 DEF Accounted
    <3>9. CommittedWhole(t)'
      BY <1>2, <3>1 DEF CommittedWhole
    <3> QED
      BY <3>8, <3>9
  <2>9. CASE i.kind # "query"
    <3>1. commit /\ i.kind = "commit" /\ u = "committed"
      <4>1. commit \in BOOLEAN
        BY DEF Does
      <4>2. /\ commit => i.kind = "commit"
            /\ u = IF ~ ok THEN "failed" ELSE IF commit THEN "committed" ELSE "rolledback"
        BY <2>9, DoesWhere
      <4> QED
        BY <1>5, <4>1, <4>2
    <3>2. Len(Raised(t)) = 1
      BY <1>1, <1>2, <2>1, RaisedAlone, DoesWhat
    <3>3. durable' = durable \cup unit \cup Todo(t)
      BY <1>1, <2>3, <2>9, <3>1, <3>2, DoesWhere
    <3>4. ~ tx[t].exception
      <4>1. SUFFICES ASSUME tx[t].exception PROVE FALSE
        OBVIOUS
      <4>2. stack # <<>> /\ Top = t
        BY <1>2, <1>5, <4>1, DoesWhat DEF SqliteWhole, FailedOnTop
      <4>3. Refused(i)
        BY <1>1, <3>1, <4>1, <4>2, DoesWhat DEF Refused
      <4> QED
        BY <4>3, DoesWhat
    <3>5. Committable(t)
      BY <1>2, <1>5, <2>6, <3>1, <3>4, DoesWhat DEF Committable, Committing
    <3>6. Pending(t) = {}
      BY <2>6, <3>1 DEF Pending
    <3>7. Given(t) = 1 .. tx[t].issued
      BY <2>7, <3>5, <3>6 DEF Accounted
    <3>8. {y \in durable' : y.tx = t}
            = {y \in unit \cup durable : y.tx = t} \cup Todo(t)
      BY <2>2, <3>3
    <3>9. {x.n : x \in Of(t)'} = Given(t)
      BY <2>2, <3>8 DEF Of, Given, Run
    <3>10. CommittedWhole(t)'
      BY <1>2, <3>7, <3>9 DEF CommittedWhole
    <3>11. Accounted(t)'
      BY <1>2, <3>1 DEF Accounted, Committable
    <3> QED
      BY <3>10, <3>11
  <2> QED
    BY <2>8, <2>9
<1>6. ok \/ u = "failed" \/ (u = "open" /\ e)
  <2>1. ok \in BOOLEAN
    BY DEF Does
  <2> QED
    BY <1>1, <1>2, <2>1, DoesWhere
<1>7. Accounted(t)' /\ CommittedWhole(t)'
  BY <1>1, <1>3, <1>4, <1>5, <1>6
<1> QED
  BY <1>1, <1>7

LEMMA DoesWhole ==
  ASSUME SqliteIInv, SqliteWhole,
         NEW i, NEW ok, NEW last, NEW e, NEW u, NEW commit, NEW run,
         Does(i, ok, last, e, u, commit, run), commit => ok
  PROVE  SqliteWhole'
<1>1. made' = made
  BY DoesWhat
<1>2. \A s \in 1 .. made : Accounted(s)' /\ CommittedWhole(s)'
  <2> SUFFICES ASSUME NEW s \in 1 .. made PROVE Accounted(s)' /\ CommittedWhole(s)'
    OBVIOUS
  <2>1. CASE s # i.tx
    BY <2>1, DoesOther
  <2>2. PICK t : t = i.tx
    OBVIOUS
  <2>3. Accounted(t)' /\ CommittedWhole(t)'
    BY <2>2, DoesSelf
  <2> QED
    BY <2>1, <2>2, <2>3
<1>3. FailedOnTop'
  BY DoesFailed
<1> QED
  BY <1>1, <1>2, <1>3 DEF SqliteWhole

LEMMA SqliteWholeStep == SqliteIInv /\ SqliteWhole /\ [Next]_vars => SqliteWhole'
<1> SUFFICES ASSUME SqliteIInv, SqliteWhole, [Next]_vars PROVE SqliteWhole'
  OBVIOUS
<1>1. ASSUME NEW c \in Clients, Open(c) PROVE SqliteWhole'
  BY <1>1, OpenWhole
<1>2. ASSUME NEW c \in Clients, Execute(c) PROVE SqliteWhole'
  BY <1>2, ExecuteWhole
<1>3. ASSUME NEW c \in Clients, Query(c) PROVE SqliteWhole'
  BY <1>3, QueryWhole
<1>4. ASSUME NEW c \in Clients, Exit(c) PROVE SqliteWhole'
  BY <1>4, ExitWhole
<1>5. ASSUME NEW c \in Clients,
             \/ QueryOutside(c) \/ Add(c) \/ Raise(c) \/ Catch(c) \/ Stop(c)
             \/ PleaseStop(c) \/ Joined(c)
      PROVE  SqliteWhole'
  BY <1>5, QuietClients
<1>6. CASE End
  BY <1>6, EndWhole
<1>7. CASE Delay \/ RunOutside \/ StopAnswered
  BY <1>7, QuietWorker
<1>8. CASE Refuse
  BY <1>8, RefuseWhole
<1>9. CASE RunQuery \/ RunEnd \/ DoAllFails
  <2>1. PICK ok, last, e, u, commit, run :
          Does(Head(queue), ok, last, e, u, commit, run) /\ (commit => ok)
    BY <1>9, ItemRun
  <2> QED
    BY <2>1, DoesWhole
<1>10. CASE UNCHANGED vars
  <2>1. /\ UNCHANGED <<tx, made, unit, stack, durable, worker, closed, thread>>
        /\ \A x \in durable' \ durable : x.tx = NoTx
    BY <1>10 DEF vars
  <2>2. \A c \in Clients : Mute(c, NoTx)
    BY <2>1 DEF Mute, Asking
  <2> QED
    BY <2>1, <2>2, QuietWhole
<1> QED
  BY <1>1, <1>2, <1>3, <1>4, <1>5, <1>6, <1>7, <1>8, <1>9, <1>10 DEF Next, Worker

LEMMA SqliteWholeInit == Init => SqliteWhole
<1> SUFFICES ASSUME Init PROVE SqliteWhole
  OBVIOUS
<1>1. 1 .. made = {} /\ tx = [t \in Tx |-> NewTx]
  BY DEF Init
<1>2. FailedOnTop
  BY <1>1 DEF FailedOnTop, NewTx
<1> QED
  BY <1>1, <1>2 DEF SqliteWhole

\* A transaction that neither is part of another nor has one in it is durable with every
\* command it was given once commit() has returned, and leaves nothing if it has failed or was
\* rolled back; one with nested ones leaves nothing when it was rolled back, unless a nested one
\* has begun in its place.  Nothing is said of nested ones: the code commits the buffered
\* commands of a parent with a nested one that begins before it (sqlite.py:457-505).
THEOREM SqliteAllOrNothing == Spec => []AllOrNothing
<1>1. ASSUME SqliteIInv, SqliteWhole PROVE AllOrNothing
  <2> SUFFICES ASSUME NEW t \in Tx, tx[t].parent = NoTx
               PROVE  /\ tx[t].outcome = "committed" /\ ~ Nests(t) =>
                           {x.n : x \in Of(t)} = 1 .. tx[t].issued
                      /\ tx[t].outcome = "failed" /\ ~ Nests(t) => Of(t) = {}
                      /\ tx[t].outcome = "rolledback" /\ (\A s \in headless : t \notin tx[s].line)
                           => Of(t) = {}
    BY DEF AllOrNothing
  <2>1. CASE t \in 1 .. made
    <3>1. CommittedWhole(t) /\ t # NoTx
      BY <1>1, <2>1, Numbers DEF SqliteWhole, NoTx
    <3>2. \A x \in Of(t) : tx[t].outcome = "committed" \/ \E s \in headless : t \in tx[s].line
      BY <1>1, <3>1 DEF Of, SqliteIInv, DurableForAReason
    <3>3. ~ Nests(t) => \A s \in headless : t \notin tx[s].line
      <4> SUFFICES ASSUME ~ Nests(t), NEW s \in headless, t \in tx[s].line PROVE FALSE
        OBVIOUS
      <4>1. s \in 1 .. made /\ tx[s].parent # NoTx
        <5>1. s <= made /\ tx[s].parent # NoTx /\ s \in Tx
          BY <1>1 DEF SqliteIInv, SqliteTypeOK, Nesting
        <5> QED
          BY <1>1, <5>1, Numbers DEF Tx
      <4>2. s = t
        BY <1>1, <2>1, <4>1, Alone
      <4> QED
        BY <4>1, <4>2
    <3> QED
      BY <3>1, <3>2, <3>3 DEF CommittedWhole
  <2>2. CASE t \notin 1 .. made
    <3>1. t > made
      BY <1>1, <2>2, Numbers DEF Tx
    <3>2. tx[t].outcome = "none"
      BY <1>1, <3>1 DEF SqliteIInv, MadeInOrder, NewTx
    <3> QED
      BY <3>2
  <2> QED
    BY <2>1, <2>2
<1>2. Spec => []SqliteWhole
  BY SqliteWholeInit, SqliteWholeStep, SqliteInvariant, PTL DEF Spec
<1> QED
  BY <1>1, <1>2, SqliteInvariant, PTL
=============================================================================

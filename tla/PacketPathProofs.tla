-------------------------- MODULE PacketPathProofs --------------------------
(***************************************************************************)
(* Every mbuf has one owner and no buffer or ring holds more than its      *)
(* size, for every number of packets and NFs, every size of the rings and  *)
(* of a burst, both builds of nflib and all the rare ways to treat a       *)
(* packet.                                                                 *)
(***************************************************************************)
EXTENDS PacketPath, SequenceTheorems, FiniteSetTheorems, WellFoundedInduction, TLAPS

\* What the proofs need to know of the constants.
LEMMA Constants ==
    /\ NumIds \in Nat \ {0} /\ ReadSize \in Nat \ {0} /\ RingSize \in Nat \ {0}
    /\ HandleTx \subseteq BOOLEAN /\ MaxStarts \in Nat
BY PathAssumption

\* There is an NF slot.
LEMMA FirstNf == 1 \in NfId
BY Constants DEF NfId

-----------------------------------------------------------------------------
(* Sequences without repetition *)

Once(s) == \A j, k \in DOMAIN s : s[j] = s[k] => j = k

\* The empty sequence.
LEMMA EmptyRange == Range(<<>>) = {} /\ Once(<<>>) /\ Len(<<>>) = 0
<1>1. DOMAIN <<>> = {}
  OBVIOUS
<1>2. QED
  BY <1>1 DEF Range, Once

\* A packet at the front is taken off.
LEMMA TailRange ==
    ASSUME NEW S, NEW s \in Seq(S), s # <<>>
    PROVE  /\ Tail(s) \in Seq(S) /\ Head(s) \in S /\ Len(Tail(s)) = Len(s) - 1
           /\ Range(s) = Range(Tail(s)) \cup {Head(s)}
           /\ Once(s) => Once(Tail(s)) /\ Head(s) \notin Range(Tail(s))
<1> DEFINE n == Len(s)
           t == Tail(s)
<1>1. /\ n \in Nat \ {0} /\ t \in Seq(S) /\ Head(s) \in S /\ Len(t) = n - 1
      /\ \A k \in 1 .. (n - 1) : t[k] = s[k + 1]
      /\ Head(s) = s[1]
  BY HeadTailProperties, EmptySeq
<1>2. DOMAIN s = 1 .. n /\ DOMAIN t = 1 .. (n - 1)
  BY <1>1, LenProperties
<1> HIDE DEF n, t
<1>3. ASSUME NEW x \in Range(s) PROVE x \in Range(t) \cup {Head(s)}
  <2>1. PICK k \in 1 .. n : s[k] = x
    BY <1>2, <1>3 DEF Range
  <2>2. CASE k = 1
    BY <1>1, <2>1, <2>2
  <2>3. CASE k # 1
    <3>1. k - 1 \in 1 .. (n - 1) /\ (k - 1) + 1 = k
      BY <1>1, <2>1, <2>3
    <3>2. t[k - 1] = x
      BY <1>1, <2>1, <3>1
    <3>3. QED
      BY <1>2, <3>1, <3>2 DEF Range
  <2>4. QED
    BY <2>2, <2>3
<1>4. ASSUME NEW x \in Range(t) PROVE x \in Range(s)
  <2>1. PICK k \in 1 .. (n - 1) : t[k] = x
    BY <1>2, <1>4 DEF Range
  <2>2. k + 1 \in 1 .. n /\ s[k + 1] = x
    BY <1>1, <2>1
  <2>3. QED
    BY <1>2, <2>2 DEF Range
<1>5. Head(s) \in Range(s)
  BY <1>1, <1>2 DEF Range
<1>6. ASSUME Once(s) PROVE Once(t)
  <2>1. ASSUME NEW j \in 1 .. (n - 1), NEW k \in 1 .. (n - 1), t[j] = t[k] PROVE j = k
    <3>1. j + 1 \in 1 .. n /\ k + 1 \in 1 .. n /\ s[j + 1] = s[k + 1]
      BY <1>1, <2>1
    <3>2. j + 1 = k + 1
      BY <1>2, <1>6, <3>1 DEF Once
    <3>3. QED
      BY <3>2
  <2>2. QED
    BY <1>2, <2>1 DEF Once
<1>7. ASSUME Once(s), Head(s) \in Range(t) PROVE FALSE
  <2>1. PICK k \in 1 .. (n - 1) : t[k] = Head(s)
    BY <1>2, <1>7 DEF Range
  <2>2. k + 1 \in 1 .. n /\ 1 \in 1 .. n /\ s[k + 1] = s[1] /\ k + 1 # 1
    BY <1>1, <2>1
  <2>3. QED
    BY <1>2, <1>7, <2>2 DEF Once
<1>8. QED
  BY <1>1, <1>3, <1>4, <1>5, <1>6, <1>7 DEF n, t

\* One sequence is put behind another.
LEMMA ConcatRange ==
    ASSUME NEW S, NEW s \in Seq(S), NEW t \in Seq(S)
    PROVE  /\ s \o t \in Seq(S) /\ Len(s \o t) = Len(s) + Len(t)
           /\ Range(s \o t) = Range(s) \cup Range(t)
           /\ Once(s) /\ Once(t) /\ Range(s) \cap Range(t) = {} => Once(s \o t)
<1> DEFINE m == Len(s)
           n == Len(t)
           c == s \o t
<1>1. /\ c \in Seq(S) /\ Len(c) = m + n /\ m \in Nat /\ n \in Nat
      /\ \A i \in 1 .. (m + n) : c[i] = IF i <= m THEN s[i] ELSE t[i - m]
  BY ConcatProperties, LenProperties
<1>2. DOMAIN s = 1 .. m /\ DOMAIN t = 1 .. n /\ DOMAIN c = 1 .. (m + n)
  BY <1>1, LenProperties
<1> HIDE DEF m, n, c
<1>3. ASSUME NEW i \in 1 .. (m + n)
      PROVE  \/ i \in 1 .. m /\ c[i] = s[i]
             \/ i - m \in 1 .. n /\ c[i] = t[i - m]
  BY <1>1
<1>4. ASSUME NEW i \in 1 .. m PROVE i \in 1 .. (m + n) /\ c[i] = s[i]
  BY <1>1
<1>5. ASSUME NEW i \in 1 .. n PROVE m + i \in 1 .. (m + n) /\ c[m + i] = t[i]
  <2>1. m + i \in 1 .. (m + n) /\ ~(m + i <= m) /\ (m + i) - m = i
    BY <1>1
  <2>2. QED
    BY <1>1, <2>1
<1>6. Range(c) = Range(s) \cup Range(t)
  <2>1. \A x \in Range(c) : x \in Range(s) \cup Range(t)
    BY <1>2, <1>3 DEF Range
  <2>2. \A x \in Range(s) : x \in Range(c)
    BY <1>2, <1>4 DEF Range
  <2>3. \A x \in Range(t) : x \in Range(c)
    BY <1>2, <1>5 DEF Range
  <2>4. QED
    BY <2>1, <2>2, <2>3
<1>7. ASSUME Once(s), Once(t), Range(s) \cap Range(t) = {} PROVE Once(c)
  <2>1. ASSUME NEW i \in 1 .. (m + n), NEW j \in 1 .. (m + n), c[i] = c[j] PROVE i = j
    <3>1. \A k \in 1 .. m, l \in 1 .. n : s[k] # t[l]
      BY <1>2, <1>7 DEF Range
    <3>2. CASE i \in 1 .. m /\ j \in 1 .. m
      BY <1>2, <1>4, <1>7, <2>1, <3>2 DEF Once
    <3>3. CASE i - m \in 1 .. n /\ j - m \in 1 .. n
      <4>1. c[i] = t[i - m] /\ c[j] = t[j - m]
        <5>1. ~(i <= m) /\ ~(j <= m)
          BY <1>1, <3>3
        <5>2. QED
          BY <1>1, <5>1
      <4>2. i - m = j - m
        BY <1>2, <1>7, <2>1, <3>3, <4>1 DEF Once
      <4>3. QED
        BY <1>1, <4>2
    <3>4. QED
      BY <1>3, <2>1, <3>1, <3>2, <3>3
  <2>2. QED
    BY <1>2, <2>1 DEF Once
<1>8. QED
  BY <1>1, <1>6, <1>7 DEF m, n, c

\* A packet is put at the end.
LEMMA AppendRange ==
    ASSUME NEW S, NEW s \in Seq(S), NEW e \in S
    PROVE  /\ Append(s, e) \in Seq(S) /\ Len(Append(s, e)) = Len(s) + 1
           /\ Range(Append(s, e)) = Range(s) \cup {e}
           /\ Once(s) /\ e \notin Range(s) => Once(Append(s, e))
<1>1. Append(s, e) = s \o <<e>>
  BY AppendIsConcat
<1>2. <<e>> \in Seq(S) /\ Len(<<e>>) = 1 /\ Range(<<e>>) = {e} /\ Once(<<e>>)
  <2>1. <<e>> \in Seq(S) /\ Len(<<e>>) = 1 /\ DOMAIN <<e>> = {1} /\ <<e>>[1] = e
    OBVIOUS
  <2>2. QED
    BY <2>1 DEF Range, Once
<1> DEFINE t == <<e>>
<1> HIDE DEF t
<1>3. t \in Seq(S) /\ Len(t) = 1 /\ Range(t) = {e} /\ Once(t) /\ Append(s, e) = s \o t
  BY <1>1, <1>2 DEF t
<1>4. Range(s) \cap Range(t) = {} <=> e \notin Range(s)
  BY <1>3
<1>5. QED
  BY <1>3, <1>4, ConcatRange

\* A sequence in two parts, of which the first has length k.
Parts(s, k, a, b) ==
    /\ Len(a) = k /\ Len(b) = Len(s) - k
    /\ \A i \in 1 .. k : a[i] = s[i]
    /\ \A i \in 1 .. (Len(s) - k) : b[i] = s[k + i]

\* The two parts of a sequence are what SubSeq returns.
LEMMA SubSeqParts ==
    ASSUME NEW S, NEW s \in Seq(S), NEW k \in 0 .. Len(s)
    PROVE  /\ SubSeq(s, 1, k) \in Seq(S) /\ SubSeq(s, k + 1, Len(s)) \in Seq(S)
           /\ Parts(s, k, SubSeq(s, 1, k), SubSeq(s, k + 1, Len(s)))
<1> DEFINE n == Len(s)
<1>1. n \in Nat /\ k \in Nat /\ k <= n /\ \A i \in 1 .. n : s[i] \in S
  BY LenProperties, ElementOfSeq
<1> HIDE DEF n
<1>2. PICK a : a = SubSeq(s, 1, k)
  OBVIOUS
<1>3. PICK b : b = SubSeq(s, k + 1, n)
  OBVIOUS
<1>4. /\ a \in Seq(S) /\ Len(a) = IF 1 <= k THEN k - 1 + 1 ELSE 0
      /\ \A i \in 1 .. k - 1 + 1 : a[i] = s[1 + i - 1]
  <2>1. (\A i \in 1 .. k : s[i] \in S) /\ 1 \in Int /\ k \in Int
    BY <1>1
  <2>2. QED
    BY <1>2, <2>1, SubSeqProperties
<1>5. /\ b \in Seq(S) /\ Len(b) = IF k + 1 <= n THEN n - (k + 1) + 1 ELSE 0
      /\ \A i \in 1 .. n - (k + 1) + 1 : b[i] = s[k + 1 + i - 1]
  <2>1. (\A i \in (k + 1) .. n : s[i] \in S) /\ k + 1 \in Int /\ n \in Int
    BY <1>1
  <2>2. QED
    BY <1>3, <2>1, SubSeqProperties
<1>6. Len(a) = k /\ \A i \in 1 .. k : a[i] = s[i]
  BY <1>1, <1>4
<1>7. Len(b) = n - k /\ \A i \in 1 .. (n - k) : b[i] = s[k + i]
  BY <1>1, <1>5
<1>8. a \in Seq(S) /\ b \in Seq(S) /\ Parts(s, k, a, b)
  BY <1>4, <1>5, <1>6, <1>7 DEF Parts, n
<1>9. QED
  BY <1>2, <1>3, <1>8 DEF n

\* A burst is taken from a ring: its first packets, and the rest.
LEMMA SplitRange ==
    ASSUME NEW S, NEW s \in Seq(S), NEW k \in 0 .. Len(s),
           NEW a \in Seq(S), NEW b \in Seq(S), Parts(s, k, a, b)
    PROVE  /\ Range(s) = Range(a) \cup Range(b)
           /\ Once(s) => Once(a) /\ Once(b) /\ Range(a) \cap Range(b) = {}
<1> DEFINE n == Len(s)
<1>1. n \in Nat /\ k \in Nat /\ k <= n /\ DOMAIN s = 1 .. n
  BY LenProperties
<1>2. Len(a) = k /\ \A i \in 1 .. k : a[i] = s[i]
  BY DEF Parts
<1>3. Len(b) = n - k /\ \A i \in 1 .. (n - k) : b[i] = s[k + i]
  BY DEF Parts
<1>4. DOMAIN a = 1 .. k /\ DOMAIN b = 1 .. (n - k)
  BY <1>2, <1>3, LenProperties
<1> HIDE DEF n
<1>5. ASSUME NEW i \in 1 .. n PROVE i \in 1 .. k \/ (i - k \in 1 .. (n - k) /\ k + (i - k) = i)
  BY <1>1
<1>6. ASSUME NEW i \in 1 .. (n - k) PROVE k + i \in 1 .. n /\ ~(k + i \in 1 .. k)
  BY <1>1
<1>7. \A i \in 1 .. k : i \in 1 .. n
  BY <1>1
<1>8. Range(s) = Range(a) \cup Range(b)
  <2>1. ASSUME NEW x \in Range(s) PROVE x \in Range(a) \cup Range(b)
    <3>1. PICK i \in 1 .. n : s[i] = x
      BY <1>1, <2>1 DEF Range
    <3>2. CASE i \in 1 .. k
      BY <1>2, <1>4, <3>1, <3>2 DEF Range
    <3>3. CASE i - k \in 1 .. (n - k) /\ k + (i - k) = i
      <4>1. b[i - k] = x
        BY <1>3, <3>1, <3>3
      <4>2. QED
        BY <1>4, <3>3, <4>1 DEF Range
    <3>4. QED
      BY <1>5, <3>2, <3>3
  <2>2. \A x \in Range(a) : x \in Range(s)
    BY <1>1, <1>2, <1>4, <1>7 DEF Range
  <2>3. \A x \in Range(b) : x \in Range(s)
    BY <1>1, <1>3, <1>4, <1>6 DEF Range
  <2>4. QED
    BY <2>1, <2>2, <2>3
<1>9. ASSUME Once(s) PROVE Once(a) /\ Once(b) /\ Range(a) \cap Range(b) = {}
  <2>1. Once(a)
    BY <1>1, <1>2, <1>4, <1>7, <1>9 DEF Once
  <2>2. ASSUME NEW i \in 1 .. (n - k), NEW j \in 1 .. (n - k), b[i] = b[j] PROVE i = j
    <3>1. k + i = k + j
      BY <1>1, <1>3, <1>6, <1>9, <2>2 DEF Once
    <3>2. QED
      BY <1>1, <3>1
  <2>3. ASSUME NEW i \in 1 .. k, NEW j \in 1 .. (n - k), a[i] = b[j] PROVE FALSE
    <3>1. i = k + j
      BY <1>1, <1>2, <1>3, <1>6, <1>7, <1>9, <2>3 DEF Once
    <3>2. QED
      BY <1>6, <3>1
  <2>4. Once(b)
    BY <1>4, <2>2 DEF Once
  <2>5. Range(a) \cap Range(b) = {}
    BY <1>4, <2>3 DEF Range
  <2>6. QED
    BY <2>1, <2>4, <2>5
<1>10. QED
  BY <1>8, <1>9

\* A sequence without repetition has as many elements as it is long.
LEMMA OnceCounts ==
    ASSUME NEW S, NEW s \in Seq(S), Once(s)
    PROVE  Cardinality(Range(s)) = Len(s)
<1>1. Len(s) \in Nat /\ DOMAIN s = 1 .. Len(s) /\ s \in [1 .. Len(s) -> S]
  BY LenProperties
<1>2. s \in Bijection(1 .. Len(s), Range(s))
  <2> DEFINE n == Len(s)
  <2>1. DOMAIN s = 1 .. n /\ s = [i \in 1 .. n |-> s[i]]
    BY <1>1
  <2> HIDE DEF n
  <2>2. s \in [1 .. n -> Range(s)]
    BY <2>1 DEF Range
  <2>3. \A j, k \in 1 .. n : s[j] = s[k] => j = k
    BY <2>1 DEF Once
  <2>4. \A t \in Range(s) : \E i \in 1 .. n : s[i] = t
    BY <2>1 DEF Range
  <2>5. QED
    BY <2>1, <2>2, <2>3, <2>4 DEF Bijection, Injection, Surjection, IsInjective, n
<1>3. ExistsBijection(1 .. Len(s), Range(s))
  BY <1>2 DEF ExistsBijection
<1>4. QED
  BY <1>1, <1>3, FS_CountingElements

-----------------------------------------------------------------------------
(* Packets and their owners *)

\* Queues r, pool f and lost packets l: every packet is in one place, once.
Sound(r, f, l) ==
    /\ r \in [Queue -> Seq(Packet)] /\ f \subseteq Packet /\ l \subseteq Packet
    /\ \A x \in Queue : Once(r[x])
    /\ \A x, y \in Queue : x # y => Range(r[x]) \cap Range(r[y]) = {}
    /\ \A x \in Queue : Range(r[x]) \cap f = {} /\ Range(r[x]) \cap l = {}
    /\ f \cap l = {}
    /\ \A p \in Packet : p \in f \/ p \in l \/ \E x \in Queue : p \in Range(r[x])

\* Only the queues of X have changed.
Same(r, r2, X) == \A z \in Queue : z \notin X => r2[z] = r[z]

\* The packets on a queue are packets.
LEMMA RangeSeq ==
    ASSUME NEW S, NEW s \in Seq(S)
    PROVE  Range(s) \subseteq S
BY ElementOfSeq, LenProperties DEF Range

\* What is in the queues x and y, in the pool or lost has changed places.
Exchange(r, f, l, x, y, r2, f2, l2) ==
    /\ Once(r2[x]) /\ Once(r2[y]) /\ Range(r2[x]) \cap Range(r2[y]) = {} /\ f2 \cap l2 = {}
    /\ (Range(r2[x]) \cup Range(r2[y])) \cap (f2 \cup l2) = {}
    /\ Range(r2[x]) \cup Range(r2[y]) \cup f2 \cup l2
         = Range(r[x]) \cup Range(r[y]) \cup f \cup l

\* The same for one queue.
Change(r, f, l, x, r2, f2, l2) ==
    /\ Once(r2[x]) /\ f2 \cap l2 = {} /\ Range(r2[x]) \cap (f2 \cup l2) = {}
    /\ Range(r2[x]) \cup f2 \cup l2 = Range(r[x]) \cup f \cup l

\* Packets move between two queues, the pool and the lost ones.
LEMMA TwoQueues ==
    ASSUME NEW r, NEW f, NEW l, Sound(r, f, l), NEW x \in Queue, NEW y \in Queue, x # y,
           NEW r2 \in [Queue -> Seq(Packet)], Same(r, r2, {x, y}), NEW f2, NEW l2,
           Exchange(r, f, l, x, y, r2, f2, l2)
    PROVE  Sound(r2, f2, l2)
<1> USE DEF Exchange
<1> DEFINE old == Range(r[x]) \cup Range(r[y]) \cup f \cup l
<1>1. old \subseteq Packet
  BY RangeSeq DEF Sound
<1>2. f2 \subseteq Packet /\ l2 \subseteq Packet
  BY <1>1
<1>3. \A z \in Queue : z = x \/ z = y \/ (r2[z] = r[z] /\ z # x /\ z # y)
  BY DEF Same
<1>4. \A z \in Queue : Once(r2[z])
  BY <1>3 DEF Sound
<1>5. ASSUME NEW z \in Queue, z # x, z # y
      PROVE  Range(r2[z]) \cap old = {}
  BY <1>3, <1>5 DEF Sound
<1>6. \A z, w \in Queue : z # w => Range(r2[z]) \cap Range(r2[w]) = {}
  <2> SUFFICES ASSUME NEW z \in Queue, NEW w \in Queue, z # w
               PROVE  Range(r2[z]) \cap Range(r2[w]) = {}
    OBVIOUS
  <2>1. CASE z \in {x, y} /\ w \in {x, y}
    BY <2>1
  <2>2. CASE z \in {x, y} /\ w \notin {x, y}
    BY <2>2, <1>5
  <2>3. CASE z \notin {x, y} /\ w \in {x, y}
    BY <2>3, <1>5
  <2>4. CASE z \notin {x, y} /\ w \notin {x, y}
    BY <2>4, <1>3 DEF Sound
  <2>5. QED
    BY <2>1, <2>2, <2>3, <2>4
<1>7. \A z \in Queue : Range(r2[z]) \cap f2 = {} /\ Range(r2[z]) \cap l2 = {}
  <2> SUFFICES ASSUME NEW z \in Queue
               PROVE  Range(r2[z]) \cap f2 = {} /\ Range(r2[z]) \cap l2 = {}
    OBVIOUS
  <2>1. CASE z \in {x, y}
    BY <2>1
  <2>2. CASE z \notin {x, y}
    BY <2>2, <1>5
  <2>3. QED
    BY <2>1, <2>2
<1>8. ASSUME NEW p \in Packet
      PROVE  p \in f2 \/ p \in l2 \/ \E z \in Queue : p \in Range(r2[z])
  <2>1. CASE p \in old
    BY <2>1
  <2>2. CASE p \notin old
    <3>1. PICK z \in Queue : p \in Range(r[z])
      BY <2>2 DEF Sound
    <3>2. z # x /\ z # y
      BY <2>2, <3>1
    <3>3. QED
      BY <1>3, <3>1, <3>2
  <2>3. QED
    BY <2>1, <2>2
<1>9. QED
  BY <1>2, <1>4, <1>6, <1>7, <1>8 DEF Sound

\* Packets move between one queue, the pool and the lost ones.
LEMMA OneQueue ==
    ASSUME NEW r, NEW f, NEW l, Sound(r, f, l), NEW x \in Queue,
           NEW r2 \in [Queue -> Seq(Packet)], Same(r, r2, {x}), NEW f2, NEW l2,
           Change(r, f, l, x, r2, f2, l2)
    PROVE  Sound(r2, f2, l2)
<1>1. PICK y \in Queue : y # x
  <2>1. RxQ(1) \in Queue /\ TxQ(1) \in Queue /\ RxQ(1) # TxQ(1)
    BY Constants DEF Queue, NfId, RxQ, TxQ
  <2>2. QED
    BY <2>1
<1>2. r2[y] = r[y] /\ Same(r, r2, {x, y})
  BY <1>1 DEF Same
<1>3. Once(r2[y]) /\ Range(r2[x]) \cap Range(r2[y]) = {} /\ Range(r2[y]) \cap (f2 \cup l2) = {}
  BY <1>1, <1>2 DEF Sound, Change
<1>4. Exchange(r, f, l, x, y, r2, f2, l2)
  BY <1>2, <1>3 DEF Exchange, Change
<1>5. QED
  BY <1>1, <1>2, <1>4, TwoQueues

\* The packets on the queues of X.
UnionOf(r, X) == UNION {Range(r[x]) : x \in X}

\* The queues of X are emptied into the pool or given up.
LEMMA Emptied ==
    ASSUME NEW r, NEW f, NEW l, Sound(r, f, l), NEW X \in SUBSET Queue,
           NEW r2 \in [Queue -> Seq(Packet)], Same(r, r2, X), \A x \in X : r2[x] = <<>>,
           NEW f2, NEW l2, f2 \cap l2 = {},
           f2 \cup l2 = UnionOf(r, X) \cup f \cup l
    PROVE  Sound(r2, f2, l2)
<1> DEFINE old == UnionOf(r, X) \cup f \cup l
<1>0. /\ \A p : p \in old <=> p \in f \/ p \in l \/ \E x \in X : p \in Range(r[x])
      /\ f2 \cup l2 = old
  <2>1. \A p : p \in UnionOf(r, X) <=> \E x \in X : p \in Range(r[x])
    BY Zenon DEF UnionOf
  <2>2. QED
    BY <2>1
<1> HIDE DEF old
<1>1. old \subseteq Packet
  <2>1. \A x \in X : Range(r[x]) \subseteq Packet
    BY RangeSeq DEF Sound
  <2>2. QED
    BY <1>0, <2>1 DEF Sound
<1>2. f2 \subseteq Packet /\ l2 \subseteq Packet
  BY <1>0, <1>1
<1>3. \A z \in Queue : \/ Range(r2[z]) = {} /\ Once(r2[z])
                       \/ r2[z] = r[z] /\ z \notin X
  BY EmptyRange DEF Same
<1>4. \A z \in Queue : Once(r2[z])
  BY <1>3 DEF Sound
<1>5. ASSUME NEW z \in Queue, z \notin X
      PROVE  Range(r[z]) \cap old = {}
  <2>1. \A x \in X : Range(r[z]) \cap Range(r[x]) = {}
    BY <1>5 DEF Sound
  <2>2. QED
    BY <1>0, <2>1 DEF Sound
<1>6. \A z, w \in Queue : z # w => Range(r2[z]) \cap Range(r2[w]) = {}
  BY <1>3 DEF Sound
<1>7. \A z \in Queue : Range(r2[z]) \cap f2 = {} /\ Range(r2[z]) \cap l2 = {}
  BY <1>0, <1>3, <1>5
<1>8. ASSUME NEW p \in Packet
      PROVE  p \in f2 \/ p \in l2 \/ \E z \in Queue : p \in Range(r2[z])
  <2>1. CASE p \in old
    BY <1>0, <2>1
  <2>2. CASE p \notin old
    <3>1. PICK z \in Queue : p \in Range(r[z])
      BY <1>0, <2>2 DEF Sound
    <3>2. z \notin X
      BY <1>0, <2>2, <3>1
    <3>3. QED
      BY <3>1, <3>2 DEF Same
  <2>3. QED
    BY <2>1, <2>2
<1>9. QED
  BY <1>2, <1>4, <1>6, <1>7, <1>8 DEF Sound

-----------------------------------------------------------------------------
(* The steps of a thread, as changes of queues *)

\* The packet at the front of queue x is taken off ...
HeadOff(r, r2, x) == r[x] # <<>> /\ r2 = [r EXCEPT ![x] = Tail(r[x])]

\* ... and put at the end of queue y.
HeadOver(r, r2, x, y) ==
    r[x] # <<>> /\ r2 = [r EXCEPT ![x] = Tail(r[x]), ![y] = Append(r[y], Head(r[x]))]

\* The lengths of x and y then.
Shift(r, r2, x, y) == Len(r2[x]) = Len(r[x]) - 1 /\ Len(r2[y]) = Len(r[y]) + 1

\* The packet at the front of a queue is freed, or lost.
LEMMA HeadGone ==
    ASSUME NEW r, NEW f, NEW l, Sound(r, f, l), NEW x \in Queue, NEW r2, HeadOff(r, r2, x)
    PROVE  /\ r2 \in [Queue -> Seq(Packet)] /\ Same(r, r2, {x})
           /\ Len(r2[x]) = Len(r[x]) - 1
           /\ Sound(r2, f \cup {Head(r[x])}, l) /\ Sound(r2, f, l \cup {Head(r[x])})
<1>1. r \in [Queue -> Seq(Packet)] /\ r[x] \in Seq(Packet) /\ Once(r[x])
  BY DEF Sound
<1>2. /\ Tail(r[x]) \in Seq(Packet) /\ Range(r[x]) = Range(Tail(r[x])) \cup {Head(r[x])}
      /\ Once(Tail(r[x])) /\ Head(r[x]) \notin Range(Tail(r[x]))
  BY <1>1, TailRange DEF HeadOff
<1>3. r2 \in [Queue -> Seq(Packet)] /\ Same(r, r2, {x}) /\ r2[x] = Tail(r[x])
  BY <1>1, <1>2 DEF Same, HeadOff
<1>4. f \cap l = {} /\ Range(r[x]) \cap f = {} /\ Range(r[x]) \cap l = {}
  BY DEF Sound
<1>5. PICK h, t : h = Head(r[x]) /\ t = Range(Tail(r[x]))
  OBVIOUS
<1>6. Sound(r2, f \cup {h}, l)
  <2>1. (f \cup {h}) \cap l = {} /\ Range(r2[x]) \cap ((f \cup {h}) \cup l) = {}
    BY <1>2, <1>3, <1>4, <1>5
  <2>2. Range(r2[x]) \cup (f \cup {h}) \cup l = Range(r[x]) \cup f \cup l
    BY <1>2, <1>3, <1>5
  <2>3. Change(r, f, l, x, r2, f \cup {h}, l)
    BY <1>2, <1>3, <2>1, <2>2 DEF Change
  <2>4. QED
    BY <1>3, <2>3, OneQueue
<1>7. Sound(r2, f, l \cup {h})
  <2>1. f \cap (l \cup {h}) = {} /\ Range(r2[x]) \cap (f \cup (l \cup {h})) = {}
    BY <1>2, <1>3, <1>4, <1>5
  <2>2. Range(r2[x]) \cup f \cup (l \cup {h}) = Range(r[x]) \cup f \cup l
    BY <1>2, <1>3, <1>5
  <2>3. Change(r, f, l, x, r2, f, l \cup {h})
    BY <1>2, <1>3, <2>1, <2>2 DEF Change
  <2>4. QED
    BY <1>3, <2>3, OneQueue
<1>8. QED
  <2>1. Len(r2[x]) = Len(r[x]) - 1
    BY <1>1, <1>3, TailRange DEF HeadOff
  <2>2. QED
    BY <1>3, <1>5, <1>6, <1>7, <2>1

\* The packet at the front of queue x goes to the end of queue y.
LEMMA HeadMoved ==
    ASSUME NEW r, NEW f, NEW l, Sound(r, f, l), NEW x \in Queue, NEW y \in Queue, x # y,
           NEW r2, HeadOver(r, r2, x, y)
    PROVE  /\ Sound(r2, f, l) /\ Same(r, r2, {x, y})
           /\ Shift(r, r2, x, y)
<1>1. r \in [Queue -> Seq(Packet)] /\ r[x] \in Seq(Packet) /\ r[y] \in Seq(Packet)
  BY DEF Sound
<1>2. /\ Tail(r[x]) \in Seq(Packet) /\ Range(r[x]) = Range(Tail(r[x])) \cup {Head(r[x])}
      /\ Once(Tail(r[x])) /\ Head(r[x]) \notin Range(Tail(r[x])) /\ Head(r[x]) \in Packet
      /\ Len(Tail(r[x])) = Len(r[x]) - 1
  BY <1>1, TailRange DEF Sound, HeadOver
<1>3. PICK h, t : h = Head(r[x]) /\ t = Tail(r[x])
  OBVIOUS
<1>4. h \notin Range(r[y])
  BY <1>2, <1>3 DEF Sound
<1>5. /\ Append(r[y], h) \in Seq(Packet) /\ Once(Append(r[y], h))
      /\ Range(Append(r[y], h)) = Range(r[y]) \cup {h} /\ Len(Append(r[y], h)) = Len(r[y]) + 1
  <2>1. Once(r[y])
    BY DEF Sound
  <2>2. QED
    BY <1>1, <1>2, <1>3, <1>4, <2>1, AppendRange
<1>6. PICK a : a = Append(r[y], h)
  OBVIOUS
<1>7. /\ r2 \in [Queue -> Seq(Packet)] /\ Same(r, r2, {x, y}) /\ r2[x] = t /\ r2[y] = a
  BY <1>1, <1>2, <1>3, <1>5, <1>6 DEF Same, HeadOver
<1>8. Sound(r2, f, l)
  <2>1. /\ Range(r[x]) \cap f = {} /\ Range(r[x]) \cap l = {} /\ f \cap l = {}
        /\ Range(r[y]) \cap f = {} /\ Range(r[y]) \cap l = {} /\ Range(r[x]) \cap Range(r[y]) = {}
    BY DEF Sound
  <2>2. Range(t) \cap Range(a) = {} /\ (Range(t) \cup Range(a)) \cap (f \cup l) = {}
    BY <1>2, <1>3, <1>5, <1>6, <2>1
  <2>3. Range(t) \cup Range(a) \cup f \cup l = Range(r[x]) \cup Range(r[y]) \cup f \cup l
    BY <1>2, <1>3, <1>5, <1>6
  <2>4. Once(t) /\ Once(a)
    BY <1>2, <1>3, <1>5, <1>6
  <2>5. Exchange(r, f, l, x, y, r2, f, l)
    BY <1>7, <2>1, <2>2, <2>3, <2>4, Zenon DEF Exchange
  <2>6. QED
    BY <1>7, <2>5, TwoQueues
<1>9. Len(r2[x]) = Len(r[x]) - 1 /\ Len(r2[y]) = Len(r[y]) + 1
  BY <1>2, <1>3, <1>5, <1>6, <1>7, Zenon
<1>10. QED
  BY <1>7, <1>8, <1>9 DEF Shift

\* Queue x is emptied.
Cleared(r, r2, x) == r2 = [r EXCEPT ![x] = <<>>]

\* The packets of a queue are freed, or lost.
LEMMA ClearedSound ==
    ASSUME NEW r, NEW f, NEW l, Sound(r, f, l), NEW x \in Queue, NEW r2, Cleared(r, r2, x)
    PROVE  /\ Same(r, r2, {x}) /\ r2[x] = <<>>
           /\ Sound(r2, f \cup Range(r[x]), l) /\ Sound(r2, f, l \cup Range(r[x]))
<1>1. r \in [Queue -> Seq(Packet)] /\ <<>> \in Seq(Packet)
  BY EmptySeq DEF Sound
<1>2. r2 \in [Queue -> Seq(Packet)] /\ Same(r, r2, {x}) /\ r2[x] = <<>>
  BY <1>1 DEF Same, Cleared
<1>3. Once(r2[x]) /\ Range(r2[x]) = {}
  BY <1>2, EmptyRange
<1>4. PICK g : g = Range(r[x])
  OBVIOUS
<1>5. f \cap l = {} /\ g \cap f = {} /\ g \cap l = {}
  BY <1>4 DEF Sound
<1>6. Change(r, f, l, x, r2, f \cup g, l) /\ Change(r, f, l, x, r2, f, l \cup g)
  <2>1. (f \cup g) \cap l = {} /\ f \cap (l \cup g) = {}
    BY <1>5
  <2>2. Range(r2[x]) \cup (f \cup g) \cup l = Range(r[x]) \cup f \cup l
    BY <1>3, <1>4
  <2>3. Range(r2[x]) \cup f \cup (l \cup g) = Range(r[x]) \cup f \cup l
    BY <1>3, <1>4
  <2>4. QED
    BY <1>3, <2>1, <2>2, <2>3 DEF Change
<1>7. Sound(r2, f \cup g, l) /\ Sound(r2, f, l \cup g)
  BY <1>2, <1>6, OneQueue
<1>8. QED
  BY <1>2, <1>4, <1>7

\* How long queue x may be: k is its length.
Fits(x, k) ==
    /\ x[1] \in {"rx_q", "tx_q"} => k <= RingSize
    /\ x[1] \in {"nf_rx_bufs", "pkts"} => k <= ReadSize
    /\ x[1] \in {"to_tx_buf", "port_tx_bufs"} => k < ReadSize

IsRing(x) == x[1] \in {"rx_q", "tx_q"}

\* Queue from is put on the ring with rte_ring_enqueue_bulk.
Bulked(r, f, from, ring, r2, f2) ==
    r2 = Bulk(r, from, ring).queue /\ f2 = f \cup Bulk(r, from, ring).freed

\* A buffer is put on a ring as a whole, or freed when it does not fit.
LEMMA BulkSound ==
    ASSUME NEW r, NEW f, NEW l, Sound(r, f, l), NEW from \in Queue, NEW ring \in Queue,
           from # ring, IsRing(ring), NEW r2, NEW f2, Bulked(r, f, from, ring, r2, f2)
    PROVE  /\ Sound(r2, f2, l) /\ Same(r, r2, {from, ring}) /\ r2[from] = <<>>
           /\ Fits(ring, Len(r[ring])) => Fits(ring, Len(r2[ring]))
<1>0. PICK b : b = Bulk(r, from, ring)
  OBVIOUS
<1>1. r \in [Queue -> Seq(Packet)] /\ r[from] \in Seq(Packet) /\ r[ring] \in Seq(Packet)
  BY DEF Sound
<1>2. Len(r[from]) \in Nat /\ Len(r[ring]) \in Nat
  BY <1>1, LenProperties
<1>3. /\ Range(r[from]) \cap f = {} /\ Range(r[from]) \cap l = {} /\ f \cap l = {}
      /\ Range(r[ring]) \cap f = {} /\ Range(r[ring]) \cap l = {}
      /\ Range(r[from]) \cap Range(r[ring]) = {} /\ Once(r[from]) /\ Once(r[ring])
  BY DEF Sound
<1>4. CASE Len(r[ring]) + Len(r[from]) > RingSize
  <2>1. /\ b.queue = [r EXCEPT ![ring] = r[ring], ![from] = <<>>]
        /\ b.freed = Range(r[from])
    BY <1>0, <1>4 DEF Bulk
  <2>2. PICK g : r2 = b.queue /\ g = b.freed /\ f2 = f \cup g
    BY <1>0 DEF Bulked
  <2>3. /\ r2 \in [Queue -> Seq(Packet)] /\ Same(r, r2, {from, ring})
        /\ r2[from] = <<>> /\ r2[ring] = r[ring]
    BY <1>1, <2>1, <2>2, EmptySeq DEF Same
  <2>4. Range(r2[from]) = {} /\ Once(r2[from])
    BY <2>3, EmptyRange
  <2>5. Range(r2[from]) \cap Range(r2[ring]) = {} /\ (f \cup g) \cap l = {}
    BY <1>3, <2>1, <2>2, <2>4
  <2>6. (Range(r2[from]) \cup Range(r2[ring])) \cap ((f \cup g) \cup l) = {}
    BY <1>3, <2>1, <2>2, <2>3, <2>4
  <2>7. Range(r2[from]) \cup Range(r2[ring]) \cup (f \cup g) \cup l
          = Range(r[from]) \cup Range(r[ring]) \cup f \cup l
    BY <2>1, <2>2, <2>3, <2>4
  <2>8. Sound(r2, f \cup g, l)
    <3>1. Exchange(r, f, l, from, ring, r2, f \cup g, l)
      BY <1>3, <2>3, <2>4, <2>5, <2>6, <2>7 DEF Exchange
    <3>2. QED
      BY <2>3, <3>1, TwoQueues
  <2>9. QED
    BY <2>2, <2>3, <2>8
<1>5. CASE ~(Len(r[ring]) + Len(r[from]) > RingSize)
  <2>0. PICK c : c = r[ring] \o r[from]
    OBVIOUS
  <2>1. b.queue = [r EXCEPT ![ring] = c, ![from] = <<>>] /\ b.freed = {}
    BY <1>0, <1>5, <2>0 DEF Bulk
  <2>2. PICK g : r2 = b.queue /\ g = b.freed /\ f2 = f \cup g
    BY <1>0 DEF Bulked
  <2>3. /\ c \in Seq(Packet) /\ Len(c) = Len(r[ring]) + Len(r[from]) /\ Once(c)
        /\ Range(c) = Range(r[ring]) \cup Range(r[from])
    BY <1>1, <1>3, <2>0, ConcatRange
  <2>4. /\ r2 \in [Queue -> Seq(Packet)] /\ Same(r, r2, {from, ring})
        /\ r2[from] = <<>> /\ r2[ring] = c
    BY <1>1, <2>1, <2>2, <2>3 DEF Same
  <2>5. Range(r2[from]) = {} /\ Once(r2[from])
    BY <2>4, EmptyRange
  <2>6. Range(r2[from]) \cap Range(r2[ring]) = {} /\ (f \cup g) \cap l = {}
    BY <1>3, <2>1, <2>2, <2>5
  <2>7. (Range(r2[from]) \cup Range(r2[ring])) \cap ((f \cup g) \cup l) = {}
    BY <1>3, <2>1, <2>2, <2>3, <2>4, <2>5
  <2>8. Range(r2[from]) \cup Range(r2[ring]) \cup (f \cup g) \cup l
          = Range(r[from]) \cup Range(r[ring]) \cup f \cup l
    BY <2>1, <2>2, <2>3, <2>4, <2>5
  <2>9. Sound(r2, f \cup g, l)
    <3>1. Exchange(r, f, l, from, ring, r2, f \cup g, l)
      BY <2>3, <2>4, <2>5, <2>6, <2>7, <2>8 DEF Exchange
    <3>2. QED
      BY <2>4, <3>1, TwoQueues
  <2>10. Fits(ring, Len(r2[ring]))
    <3>1. PICK i, j : i = Len(r[ring]) /\ j = Len(r[from])
      OBVIOUS
    <3>2. i \in Nat /\ j \in Nat /\ RingSize \in Nat /\ ~(i + j > RingSize)
      BY <1>2, <1>5, <3>1, Constants
    <3>3. i + j <= RingSize
      BY <3>2
    <3>4. Len(r2[ring]) = i + j
      BY <2>3, <2>4, <3>1, Zenon
    <3>5. Fits(ring, i + j)
      BY <3>3 DEF Fits, IsRing
    <3>6. QED
      BY <3>4, <3>5, Zenon
  <2>11. QED
    BY <2>2, <2>4, <2>9, <2>10
<1>6. QED
  BY <1>4, <1>5

-----------------------------------------------------------------------------
(* The invariant *)

\* The places of a thread where it has a batch in hand.
Busy == {"work", "check", "put"}

Bounded(r) == \A x \in Queue : Fits(x, Len(r[x]))

\* The places of a thread.
Places ==
    {"none", "recv", "scan", "take", "loop", "work", "check", "put", "out", "flush", "put_all"}

\* The variables besides the packets; the destination of a flush is an NF.
Scalars ==
    /\ build \in HandleTx
    /\ health \in {"up", "overflow", "freed", "confused"}
    /\ nf \in [NfId -> {"off", "running", "exited", "stopped", "drained"}]
    /\ starts \in 0 .. MaxStarts
    /\ pc \in [Thread -> Places]
    /\ idx \in [Thread -> 1 .. NumIds + 1] /\ to \in [Thread -> NfId]

\* An NF that does not run has no thread.
Asleep == \A n \in NfId : nf[n] # "running" => pc[n] = "none"

\* The TX thread takes packets from the NF before its loop index.
Taking == pc[Tx] = "take" => idx[Tx] >= 2

\* A thread that takes new packets has none left of the last batch: it
\* would overwrite them.
Idle == \A m \in Thread : pc[m] \notin Busy => q[Pkts(m)] = <<>>

Control == Scalars /\ Asleep /\ Taking

PathInv == Control /\ Idle /\ Sound(q, free, lost) /\ Bounded(q)

-----------------------------------------------------------------------------
(* Names of queues *)

\* The queues, and how long they may be.
LEMMA Names ==
    ASSUME NEW m \in Thread, NEW n \in NfId, NEW k
    PROVE  /\ RxQ(n) \in Queue /\ IsRing(RxQ(n))
           /\ TxQ(n) \in Queue /\ IsRing(TxQ(n))
           /\ Buf(m, n) \in Queue /\ (k <= ReadSize => Fits(Buf(m, n), k))
           /\ Pkts(m) \in Queue /\ (k <= ReadSize <=> Fits(Pkts(m), k))
           /\ Out(n) \in Queue /\ (k < ReadSize <=> Fits(Out(n), k))
           /\ Port \in Queue /\ (k < ReadSize <=> Fits(Port, k))
           /\ Kept(n) \in Queue /\ Fits(Kept(n), k)
<1>1. RxQ(n) \in Queue /\ IsRing(RxQ(n))
  BY DEF Queue, RxQ, IsRing
<1>2. TxQ(n) \in Queue /\ IsRing(TxQ(n))
  BY DEF Queue, TxQ, IsRing
<1>3. Buf(m, n) \in Queue /\ (k <= ReadSize => Fits(Buf(m, n), k))
  BY DEF Queue, Buf, Fits
<1>4. Pkts(m) \in Queue /\ (k <= ReadSize <=> Fits(Pkts(m), k))
  BY DEF Queue, Pkts, Fits
<1>5. Out(n) \in Queue /\ (k < ReadSize <=> Fits(Out(n), k))
  BY DEF Queue, Out, Fits
<1>6. Port \in Queue /\ (k < ReadSize <=> Fits(Port, k))
  BY DEF Queue, Port, Fits
<1>7. Kept(n) \in Queue /\ Fits(Kept(n), k)
  BY DEF Queue, Kept, Fits
<1>8. QED
  BY <1>1, <1>2, <1>3, <1>4, <1>5, <1>6, <1>7

\* Different queues have different names.
LEMMA Distinct ==
    ASSUME NEW m, NEW n, NEW k, NEW d
    PROVE  /\ Pkts(m) # Buf(k, d) /\ Pkts(m) # Port /\ Pkts(m) # Out(n) /\ Pkts(m) # RxQ(n)
           /\ Pkts(m) # TxQ(n) /\ Pkts(m) # Kept(n) /\ (Pkts(m) = Pkts(k) => m = k)
           /\ Out(n) # TxQ(k) /\ Kept(n) # TxQ(k) /\ Kept(n) # RxQ(k) /\ RxQ(n) # TxQ(k)
           /\ Buf(k, d) # RxQ(n)
BY DEF Pkts, Buf, Port, Out, RxQ, TxQ, Kept

\* Every NF has a thread, and so have the receiver and the transmitter.
LEMMA Threads ==
    /\ Rx \in Thread /\ Tx \in Thread /\ Rx # Tx /\ Rx \notin NfId /\ Tx \notin NfId
    /\ \A n \in NfId : n \in Thread
BY Constants DEF Rx, Tx, Thread, NfId

\* The empty queue is within every bound.
LEMMA EmptyFits == \A x : Fits(x, 0)
BY Constants DEF Fits

\* Bounds are kept when they are for the queues that change.
LEMMA StillBounded ==
    ASSUME NEW r, NEW r2, NEW X, Bounded(r), Same(r, r2, X),
           \A x \in X : Fits(x, Len(r2[x]))
    PROVE  Bounded(r2)
BY DEF Bounded, Same

\* The batches of other threads are not touched, and thread m is busy or
\* has none.
LEMMA StillIdle ==
    ASSUME Idle, NEW m \in Thread, NEW X, Same(q, q', X),
           \A k \in Thread : k # m => Pkts(k) \notin X /\ pc'[k] = pc[k],
           pc'[m] \in Busy \/ q'[Pkts(m)] = <<>>
    PROVE  Idle'
<1> SUFFICES ASSUME NEW k \in Thread, pc'[k] \notin Busy
             PROVE  q'[Pkts(k)] = <<>>
  BY DEF Idle, Pkts, Busy
<1>1. CASE k = m
  BY <1>1
<1>2. CASE k # m
  <2>1. \E n \in NfId : TRUE
    BY FirstNf
  <2>2. Pkts(k) \in Queue
    BY <2>1, Names
  <2>3. QED
    BY <1>2, <2>2 DEF Idle, Same
<1>3. QED
  BY <1>1, <1>2

-----------------------------------------------------------------------------
(* Steps with a batch in hand *)

\* The program runs into undefined behaviour.
LEMMA CorruptKeeps ==
    ASSUME PathInv, NEW how \in {"overflow", "freed", "confused"}, Corrupt(how)
    PROVE  PathInv'
<1>1. Scalars'
  BY DEF PathInv, Control, Scalars, Corrupt
<1>2. Asleep' /\ Taking' /\ Idle'
  BY DEF PathInv, Control, Asleep, Taking, Idle, Corrupt
<1>3. Sound(q, free, lost)' /\ Bounded(q)'
  BY DEF PathInv, Corrupt
<1>4. QED
  BY <1>1, <1>2, <1>3 DEF PathInv, Control

\* A thread treats a packet of its batch: only queues of its own and one
\* ring change.
LEMMA InHand ==
    ASSUME PathInv, NEW m \in Thread, pc[m] = "work", NEW X, Same(q, q', X),
           UNCHANGED <<build, health, nf, starts, pc, idx, to>>,
           \A k \in Thread : k # m => Pkts(k) \notin X,
           Sound(q', free', lost'), \A x \in X : Fits(x, Len(q'[x]))
    PROVE  PathInv'
<1>1. Control'
  BY DEF PathInv, Control, Scalars, Asleep, Taking
<1>2. Idle'
  <2>1. pc'[m] \in Busy
    BY DEF Busy
  <2>2. QED
    BY <2>1, StillIdle DEF PathInv
<1>3. Bounded(q')
  BY StillBounded DEF PathInv
<1>4. QED
  BY <1>1, <1>2, <1>3 DEF PathInv

\* The length of a batch is bounded, and so is what is left of it.
LEMMA BatchLength ==
    ASSUME PathInv, NEW m \in Thread, q[Pkts(m)] # <<>>
    PROVE  /\ Pkts(m) \in Queue /\ q[Pkts(m)] \in Seq(Packet)
           /\ Len(q[Pkts(m)]) \in Nat \ {0} /\ Len(q[Pkts(m)]) <= ReadSize
           /\ Fits(Pkts(m), Len(q[Pkts(m)]) - 1)
<1>1. PICK n : n \in NfId
  BY FirstNf
<1>2. Pkts(m) \in Queue
  BY <1>1, Names
<1>3. q[Pkts(m)] \in Seq(Packet)
  BY <1>2 DEF PathInv, Sound
<1>4. Len(q[Pkts(m)]) \in Nat \ {0}
  BY <1>3, LenProperties, EmptySeq
<1>5. Fits(Pkts(m), Len(q[Pkts(m)]))
  BY <1>2 DEF PathInv, Bounded
<1>6. PICK i : i = Len(q[Pkts(m)])
  OBVIOUS
<1>7. i <= ReadSize
  BY <1>1, <1>5, <1>6, Names
<1>8. i - 1 <= ReadSize
  BY <1>4, <1>6, <1>7, Constants
<1>9. Fits(Pkts(m), i - 1)
  BY <1>1, <1>8, Names
<1>10. QED
  BY <1>2, <1>3, <1>4, <1>6, <1>7, <1>9

\* A packet of the batch is dropped or forgotten.
LEMMA DropKeeps ==
    ASSUME PathInv, NEW m \in Thread, pc[m] = "work", q[Pkts(m)] # <<>>,
           DropPacket(m) \/ ForgetPacket(m)
    PROVE  PathInv'
<1>1. PICK x : x = Pkts(m)
  OBVIOUS
<1>2. x \in Queue /\ q[x] # <<>> /\ Fits(x, Len(q[x]) - 1)
  BY <1>1, BatchLength
<1>3. HeadOff(q, q', x)
  BY <1>1 DEF DropPacket, ForgetPacket, HeadOff
<1>4. /\ Same(q, q', {x}) /\ Len(q'[x]) = Len(q[x]) - 1
      /\ Sound(q', free \cup {Head(q[x])}, lost) /\ Sound(q', free, lost \cup {Head(q[x])})
  <2>1. Sound(q, free, lost)
    BY DEF PathInv
  <2>2. QED
    BY <1>2, <1>3, <2>1, HeadGone
<1>5. Sound(q', free', lost')
  <2>1. CASE DropPacket(m)
    <3>1. free' = free \cup {Head(q[x])} /\ lost' = lost
      BY <1>1, <2>1 DEF DropPacket
    <3>2. QED
      BY <1>4, <3>1
  <2>2. CASE ForgetPacket(m)
    <3>1. lost' = lost \cup {Head(q[x])} /\ free' = free
      BY <1>1, <2>2 DEF ForgetPacket
    <3>2. QED
      BY <1>4, <3>1
  <2>3. QED
    BY <2>1, <2>2
<1>6. \A k \in Thread : k # m => Pkts(k) \notin {x}
  BY <1>1, Distinct
<1>7. \A z \in {x} : Fits(z, Len(q'[z]))
  BY <1>2, <1>4
<1>8. UNCHANGED <<build, health, nf, starts, pc, idx, to>>
  BY DEF DropPacket, ForgetPacket
<1>9. QED
  BY <1>4, <1>5, <1>6, <1>7, <1>8, InHand

\* A packet is stored in the buffer for an NF.
LEMMA EnqueueNfKeeps ==
    ASSUME PathInv, NEW m \in Thread, pc[m] = "work", q[Pkts(m)] # <<>>, NEW d \in NfId,
           EnqueueNf(m, d)
    PROVE  PathInv'
<1>1. CASE ~Valid(d)
  BY <1>1, DropKeeps DEF EnqueueNf
<1>2. CASE Valid(d) /\ Len(q[Buf(m, d)]) >= ReadSize
  BY <1>2, CorruptKeeps DEF EnqueueNf
<1>3. CASE Valid(d) /\ ~(Len(q[Buf(m, d)]) >= ReadSize)
  <2>1. PICK x, y : x = Pkts(m) /\ y = Buf(m, d)
    OBVIOUS
  <2>2. /\ x \in Queue /\ y \in Queue /\ x # y /\ q[x] # <<>>
        /\ Fits(x, Len(q[x]) - 1)
    BY <2>1, BatchLength, Names, Distinct
  <2>3. HeadOver(q, q', x, y)
    <3>1. q' = [q EXCEPT ![x] = Tail(@), ![y] = Append(@, Head(q[x]))]
      BY <1>3, <2>1 DEF EnqueueNf
    <3>2. DOMAIN q = Queue
      BY DEF PathInv, Sound
    <3>3. q' = [q EXCEPT ![x] = Tail(q[x]), ![y] = Append(q[y], Head(q[x]))]
      BY <2>2, <3>1, <3>2
    <3>4. QED
      BY <2>2, <3>3 DEF HeadOver
  <2>4. /\ Sound(q', free, lost) /\ Same(q, q', {x, y})
        /\ Len(q'[x]) = Len(q[x]) - 1 /\ Len(q'[y]) = Len(q[y]) + 1
    <3>1. Sound(q, free, lost)
      BY DEF PathInv
    <3>2. Sound(q', free, lost) /\ Same(q, q', {x, y}) /\ Shift(q, q', x, y)
      BY <2>2, <2>3, <3>1, HeadMoved
    <3>3. QED
      BY <3>2 DEF Shift
  <2>5. UNCHANGED <<build, health, nf, starts, idx, free, lost>>
    BY <1>3 DEF EnqueueNf
  <2>6. Fits(y, Len(q'[y]))
    <3>1. PICK i : i = Len(q[y])
      OBVIOUS
    <3>2. i \in Nat /\ ~(i >= ReadSize)
      BY <1>3, <2>1, <2>2, <3>1, LenProperties DEF PathInv, Sound
    <3>3. i + 1 <= ReadSize
      BY <3>2, Constants
    <3>4. Fits(y, i + 1)
      BY <2>1, <3>3, Names
    <3>5. QED
      BY <2>4, <3>1, <3>4
  <2>7. Bounded(q')
    <3>1. \A z \in {x, y} : Fits(z, Len(q'[z]))
      BY <2>2, <2>4, <2>6
    <3>2. QED
      BY <2>4, <3>1, StillBounded DEF PathInv
  <2>8. /\ pc' \in [Thread -> Places]
        /\ \A k \in Thread : k # m => pc'[k] = pc[k]
        /\ pc'[m] \in {"work", "check"}
        /\ to' \in [Thread -> NfId]
    BY <1>3 DEF EnqueueNf, Goto, PathInv, Control, Scalars, Places
  <2>9. Idle'
    <3>1. \A k \in Thread : k # m => Pkts(k) \notin {x, y} /\ pc'[k] = pc[k]
      BY <2>1, <2>8, Distinct
    <3>2. pc'[m] \in Busy
      BY <2>8 DEF Busy
    <3>3. QED
      BY <2>4, <3>1, <3>2, StillIdle DEF PathInv
  <2>10. Scalars'
    BY <2>5, <2>8 DEF PathInv, Control, Scalars
  <2>11. Asleep'
    <3>1. \A n \in NfId : n \in Thread /\ (nf[n] # "running" => n # m)
      BY Threads DEF PathInv, Control, Asleep
    <3>2. QED
      BY <2>5, <2>8, <3>1 DEF PathInv, Control, Asleep
  <2>12. Taking'
    BY <2>5, <2>8, Threads DEF PathInv, Control, Taking, Tx
  <2>13. QED
    BY <2>4, <2>5, <2>7, <2>9, <2>10, <2>11, <2>12 DEF PathInv, Control
<1>4. QED
  BY <1>1, <1>2, <1>3

\* The front of the batch moves to another queue of the thread.
Stores(m, y, r) == r = [q EXCEPT ![Pkts(m)] = Tail(@), ![y] = Append(@, Head(q[Pkts(m)]))]

\* Its effect on the queues.
LEMMA Stored ==
    ASSUME PathInv, NEW m \in Thread, q[Pkts(m)] # <<>>, NEW y \in Queue, Pkts(m) # y,
           NEW r, Stores(m, y, r)
    PROVE  /\ Sound(r, free, lost) /\ Same(q, r, {Pkts(m), y})
           /\ Fits(Pkts(m), Len(r[Pkts(m)])) /\ Len(r[y]) = Len(q[y]) + 1
           /\ r[y] = Append(q[y], Head(q[Pkts(m)])) /\ r[Pkts(m)] = Tail(q[Pkts(m)])
<1>1. PICK x : x = Pkts(m)
  OBVIOUS
<1>2. x \in Queue /\ q[x] # <<>> /\ x # y /\ Fits(x, Len(q[x]) - 1)
  BY <1>1, BatchLength
<1>3. r = [q EXCEPT ![x] = Tail(@), ![y] = Append(@, Head(q[x]))] /\ DOMAIN q = Queue
  BY <1>1 DEF PathInv, Sound, Stores
<1>4. r = [q EXCEPT ![x] = Tail(q[x]), ![y] = Append(q[y], Head(q[x]))]
  BY <1>2, <1>3
<1>5. HeadOver(q, r, x, y) /\ Sound(q, free, lost)
  BY <1>2, <1>4 DEF HeadOver, PathInv
<1>6. Sound(r, free, lost) /\ Same(q, r, {x, y}) /\ Shift(q, r, x, y)
  BY <1>2, <1>5, HeadMoved
<1>7. r[y] = Append(q[y], Head(q[x])) /\ r[x] = Tail(q[x])
  BY <1>2, <1>3, <1>4
<1>8. Fits(x, Len(r[x])) /\ Len(r[y]) = Len(q[y]) + 1
  BY <1>2, <1>6 DEF Shift
<1>9. QED
  BY <1>1, <1>6, <1>7, <1>8

\* A packet is stored for the port, and the port is flushed when its buffer
\* is full.
LEMMA EnqueuePortKeeps ==
    ASSUME PathInv, pc[Tx] = "work", q[Pkts(Tx)] # <<>>, EnqueuePort
    PROVE  PathInv'
<1>1. PICK x, y, p : x = Pkts(Tx) /\ y = Port /\ p = Append(q[y], Head(q[x]))
  OBVIOUS
<1>2. Tx \in Thread /\ x \in Queue /\ y \in Queue /\ x # y
  <2>1. PICK n : n \in NfId
    BY FirstNf
  <2>2. QED
    BY <1>1, <2>1, Threads, Names, Distinct
<1>3. PICK r : r = [q EXCEPT ![x] = Tail(@), ![y] = Append(@, Head(q[x]))]
  OBVIOUS
<1>4. /\ Sound(r, free, lost) /\ Same(q, r, {x, y}) /\ Fits(x, Len(r[x]))
      /\ Len(r[y]) = Len(q[y]) + 1 /\ r[y] = p /\ r[x] = Tail(q[x])
  <2>1. Stores(Tx, y, r) /\ Pkts(Tx) # y
    BY <1>1, <1>2, <1>3 DEF Stores
  <2>2. QED
    BY <1>1, <1>2, <2>1, Stored
<1>5. UNCHANGED <<build, health, nf, starts, pc, idx, to, lost>>
  BY DEF EnqueuePort
<1>6. \A k \in Thread : k # Tx => Pkts(k) \notin {x, y}
  BY <1>1, Distinct
<1>7. DOMAIN q = Queue
  BY DEF PathInv, Sound
<1>8. CASE Len(p) = ReadSize
  <2>1. /\ q' = [q EXCEPT ![x] = Tail(q[x]), ![y] = <<>>]
        /\ free' = free \cup Range(p)
    BY <1>1, <1>8 DEF EnqueuePort
  <2>2. Cleared(r, q', y)
    BY <1>2, <1>3, <1>7, <2>1 DEF Cleared
  <2>3. Same(r, q', {y}) /\ q'[y] = <<>> /\ Sound(q', free \cup Range(r[y]), lost)
    BY <1>2, <1>4, <2>2, ClearedSound
  <2>4. Sound(q', free', lost')
    BY <1>4, <1>5, <2>1, <2>3
  <2>5. Same(q, q', {x, y}) /\ q'[x] = r[x]
    BY <1>2, <1>4, <2>3 DEF Same
  <2>6. Fits(x, Len(q'[x])) /\ Fits(y, Len(q'[y]))
    BY <1>4, <2>3, <2>5, EmptyFits, EmptyRange
  <2>7. \A z \in {x, y} : Fits(z, Len(q'[z]))
    BY <2>6
  <2>8. QED
    BY <1>2, <1>5, <1>6, <2>4, <2>5, <2>7, InHand
<1>9. CASE Len(p) # ReadSize
  <2>1. /\ q' = [q EXCEPT ![x] = Tail(q[x]), ![y] = p] /\ free' = free
    BY <1>1, <1>9 DEF EnqueuePort
  <2>2. q' = r
    BY <1>1, <1>2, <1>3, <1>7, <2>1
  <2>3. Fits(y, Len(q'[y]))
    <3>1. PICK i : i = Len(q[y])
      OBVIOUS
    <3>2. i \in Nat /\ i < ReadSize
      <4>1. Fits(y, i) /\ i \in Nat
        BY <1>2, <3>1, LenProperties DEF PathInv, Bounded, Sound
      <4>2. QED
        BY <1>1, <1>2, <4>1, Names, FirstNf
    <3>3. i + 1 # ReadSize /\ Len(q'[y]) = i + 1
      BY <1>4, <1>9, <2>2, <3>1
    <3>4. i + 1 < ReadSize
      BY <3>2, <3>3, Constants
    <3>5. QED
      BY <1>1, <1>2, <3>3, <3>4, Names, FirstNf
  <2>4. \A z \in {x, y} : Fits(z, Len(q'[z]))
    BY <1>4, <2>2, <2>3
  <2>5. Sound(q', free', lost') /\ Same(q, q', {x, y})
    BY <1>4, <1>5, <2>1, <2>2
  <2>6. QED
    BY <1>2, <1>5, <1>6, <2>4, <2>5, InHand
<1>10. QED
  BY <1>8, <1>9

\* A packet is stored for the TX thread, and to_tx_buf goes on the TX ring
\* when it is full.
LEMMA CollectOutKeeps ==
    ASSUME PathInv, NEW n \in NfId, pc[n] = "work", q[Pkts(n)] # <<>>, CollectOut(n)
    PROVE  PathInv'
<1>1. PICK x, y, w : x = Pkts(n) /\ y = Out(n) /\ w = TxQ(n)
  OBVIOUS
<1>2. n \in Thread /\ x \in Queue /\ y \in Queue /\ w \in Queue /\ IsRing(w)
      /\ x # y /\ y # w /\ x # w
  BY <1>1, Threads, Names, Distinct
<1>3. PICK r : r = [q EXCEPT ![x] = Tail(@), ![y] = Append(@, Head(q[x]))]
  OBVIOUS
<1>4. /\ Sound(r, free, lost) /\ Same(q, r, {x, y}) /\ Fits(x, Len(r[x]))
      /\ Len(r[y]) = Len(q[y]) + 1
  <2>1. Stores(n, y, r) /\ Pkts(n) # y
    BY <1>1, <1>2, <1>3 DEF Stores
  <2>2. QED
    BY <1>1, <1>2, <2>1, Stored
<1>5. UNCHANGED <<build, health, nf, starts, pc, idx, to, lost>>
  BY DEF CollectOut
<1>6. PICK b : b = Bulk(r, y, w)
  OBVIOUS
<1>7. Fits(w, Len(q[w])) /\ Fits(y, Len(q[y])) /\ Len(q[y]) \in Nat /\ r[w] = q[w]
  BY <1>2, <1>4, LenProperties DEF PathInv, Bounded, Sound, Same
<1>8. CASE Len(r[y]) = ReadSize
  <2>1. q' = b.queue /\ free' = free \cup b.freed
    BY <1>1, <1>3, <1>6, <1>8 DEF CollectOut
  <2>2. /\ Sound(q', free', lost) /\ Same(r, q', {y, w}) /\ q'[y] = <<>>
        /\ Fits(w, Len(r[w])) => Fits(w, Len(q'[w]))
    <3>1. Bulked(r, free, y, w, q', free')
      BY <1>6, <2>1 DEF Bulked
    <3>2. QED
      BY <1>2, <1>4, <3>1, BulkSound
  <2>3. Same(q, q', {x, y, w}) /\ q'[x] = r[x]
    BY <1>2, <1>4, <2>2 DEF Same
  <2>4. Fits(x, Len(q'[x])) /\ Fits(y, Len(q'[y]))
    BY <1>4, <2>2, <2>3, EmptyFits, EmptyRange
  <2>7. \A z \in {x, y, w} : Fits(z, Len(q'[z]))
    BY <1>7, <2>2, <2>4
  <2>8. \A k \in Thread : k # n => Pkts(k) \notin {x, y, w}
    BY <1>1, Distinct
  <2>9. QED
    BY <1>2, <1>5, <2>2, <2>3, <2>7, <2>8, InHand
<1>9. CASE Len(r[y]) # ReadSize
  <2>1. q' = r /\ free' = free
    BY <1>1, <1>3, <1>9 DEF CollectOut
  <2>2. Fits(y, Len(q'[y]))
    <3>1. PICK i : i = Len(q[y])
      OBVIOUS
    <3>2. i \in Nat /\ i < ReadSize
      BY <1>1, <1>2, <1>7, <3>1, Names
    <3>3. i + 1 # ReadSize /\ Len(q'[y]) = i + 1
      BY <1>4, <1>9, <2>1, <3>1
    <3>4. i + 1 < ReadSize
      BY <3>2, <3>3, Constants
    <3>5. QED
      BY <1>1, <1>2, <3>3, <3>4, Names
  <2>3. \A z \in {x, y} : Fits(z, Len(q'[z]))
    BY <1>4, <2>1, <2>2
  <2>4. \A k \in Thread : k # n => Pkts(k) \notin {x, y}
    BY <1>1, Distinct
  <2>5. Sound(q', free', lost') /\ Same(q, q', {x, y})
    BY <1>4, <1>5, <2>1
  <2>6. QED
    BY <1>2, <1>5, <2>3, <2>4, <2>5, InHand
<1>10. QED
  BY <1>8, <1>9

\* The rest of the batch is left where it is.
LEMMA InvalidKeeps ==
    ASSUME PathInv, NEW m \in Thread, pc[m] = "work", q[Pkts(m)] # <<>>, InvalidAction(m)
    PROVE  PathInv'
<1>1. PICK x, h : x = Pkts(m) /\ h = Head(q[x])
  OBVIOUS
<1>2. x \in Queue /\ q[x] # <<>> /\ Sound(q, free, lost) /\ DOMAIN q = Queue
  BY <1>1, BatchLength DEF PathInv, Sound
<1>3. PICK r : r = [q EXCEPT ![x] = Tail(q[x])]
  OBVIOUS
<1>4. Sound(r, free \cup {h}, lost) /\ Same(q, r, {x})
  <2>1. HeadOff(q, r, x)
    BY <1>2, <1>3 DEF HeadOff
  <2>2. QED
    BY <1>1, <1>2, <2>1, HeadGone
<1>5. /\ q' = [q EXCEPT ![x] = <<>>] /\ free' = free \cup {h}
      /\ lost' = lost \cup Range(Tail(q[x]))
      /\ UNCHANGED <<build, health, nf, starts, pc, idx, to>>
  BY <1>1 DEF InvalidAction
<1>6. Cleared(r, q', x) /\ r[x] = Tail(q[x])
  BY <1>2, <1>3, <1>5 DEF Cleared
<1>7. Same(r, q', {x}) /\ q'[x] = <<>> /\ Sound(q', free', lost \cup Range(r[x]))
  <2>1. Sound(r, free', lost)
    BY <1>4, <1>5
  <2>2. QED
    BY <1>2, <1>6, <2>1, ClearedSound
<1>8. Sound(q', free', lost')
  BY <1>5, <1>6, <1>7
<1>9. Same(q, q', {x})
  BY <1>4, <1>7 DEF Same
<1>10. \A z \in {x} : Fits(z, Len(q'[z]))
  BY <1>7, EmptyFits, EmptyRange
<1>11. \A k \in Thread : k # m => Pkts(k) \notin {x}
  BY <1>1, Distinct
<1>12. QED
  BY <1>5, <1>8, <1>9, <1>10, <1>11, InHand

\* The loop of onvm_pkt_process_tx_batch.
LEMMA ProcessPacketKeeps ==
    ASSUME PathInv, NEW m \in Thread, ProcessPacket(m)
    PROVE  PathInv'
<1>1. pc[m] = "work" /\ q[Pkts(m)] # <<>>
  BY DEF ProcessPacket
<1>2. CASE DropPacket(m) \/ ForgetPacket(m)
  BY <1>1, <1>2, DropKeeps
<1>3. CASE \E d \in NfId : EnqueueNf(m, d)
  BY <1>1, <1>3, EnqueueNfKeeps
<1>4. CASE m = Tx /\ EnqueuePort
  BY <1>1, <1>4, EnqueuePortKeeps
<1>5. CASE m \in NfId /\ CollectOut(m)
  BY <1>1, <1>5, CollectOutKeeps
<1>6. CASE InvalidAction(m)
  BY <1>1, <1>6, InvalidKeeps
<1>7. CASE Corrupt("confused")
  BY <1>7, CorruptKeeps
<1>8. QED
  BY <1>2, <1>3, <1>4, <1>5, <1>6, <1>7 DEF ProcessPacket, ChainAction

\* The loop of onvm_pkt_process_rx_batch.
LEMMA ProcessRxPacketKeeps ==
    ASSUME PathInv, ProcessRxPacket
    PROVE  PathInv'
BY EnqueueNfKeeps, Threads DEF ProcessRxPacket

-----------------------------------------------------------------------------
(* Steps between the places of a thread *)

\* Thread m goes on; NFs neither start nor stop.
LEMMA Proceeds ==
    ASSUME Control, NEW m \in Thread, NEW label \in Places, Goto(m, label), pc[m] # "none",
           UNCHANGED <<build, health, nf, starts>>,
           idx' \in [Thread -> 1 .. NumIds + 1], to' \in [Thread -> NfId],
           m # Tx => idx'[Tx] = idx[Tx],
           label = "take" => m = Tx /\ idx'[Tx] >= 2
    PROVE  Control' /\ pc'[m] = label /\ \A k \in Thread : k # m => pc'[k] = pc[k]
<1>1. pc' \in [Thread -> Places] /\ pc'[m] = label /\ \A k \in Thread : k # m => pc'[k] = pc[k]
  BY DEF Control, Scalars, Goto
<1>2. Scalars'
  BY <1>1 DEF Control, Scalars
<1>3. Asleep'
  <2>1. \A n \in NfId : n \in Thread /\ (nf[n] # "running" => n # m)
    BY Threads DEF Control, Asleep
  <2>2. QED
    BY <1>1, <2>1 DEF Control, Asleep
<1>4. Taking'
  <2>1. (pc[Tx] = "take" => idx[Tx] >= 2) /\ Tx \in Thread
    BY Threads DEF Control, Taking
  <2>2. pc'[Tx] = "take" => idx'[Tx] >= 2
    BY <1>1, <2>1
  <2>3. QED
    BY <2>2 DEF Taking, Tx
<1>5. QED
  BY <1>1, <1>2, <1>3, <1>4 DEF Control

\* A step that does not touch a packet.
LEMMA NoPackets ==
    ASSUME PathInv, NEW m \in Thread, Control', UNCHANGED <<q, free, lost>>,
           \A k \in Thread : k # m => pc'[k] = pc[k],
           pc'[m] \in Busy \/ q[Pkts(m)] = <<>>
    PROVE  PathInv'
<1>1. Same(q, q', {})
  BY DEF Same
<1>2. Idle'
  BY <1>1, StillIdle DEF PathInv
<1>3. Sound(q, free, lost)' /\ Bounded(q)'
  BY DEF PathInv
<1>4. QED
  BY <1>2, <1>3 DEF PathInv

\* The end of a batch.
LEMMA BatchDoneKeeps ==
    ASSUME PathInv, NEW m \in Thread, BatchDone(m)
    PROVE  PathInv'
<1>1. PICK label \in {"flush", "scan", "out"} : Goto(m, label)
  BY DEF BatchDone
<1>2. /\ UNCHANGED <<build, health, nf, starts, to, q, free, lost>> /\ pc[m] = "work"
      /\ q[Pkts(m)] = <<>> /\ idx' = [idx EXCEPT ![m] = IF m = Tx THEN @ ELSE 1]
  BY DEF BatchDone
<1>3. idx' \in [Thread -> 1 .. NumIds + 1] /\ (m # Tx => idx'[Tx] = idx[Tx]) /\ to' \in [Thread -> NfId]
  <2>1. idx \in [Thread -> 1 .. NumIds + 1] /\ to \in [Thread -> NfId] /\ 1 \in 1 .. NumIds + 1
    BY Constants DEF PathInv, Control, Scalars
  <2>2. QED
    BY <1>2, <2>1, Threads
<1>4. Control' /\ \A k \in Thread : k # m => pc'[k] = pc[k]
  <2>1. label \in Places /\ label # "take" /\ pc[m] # "none"
    BY <1>1, <1>2 DEF Places
  <2>2. QED
    BY <1>1, <1>2, <1>3, <2>1, Proceeds DEF PathInv
<1>5. QED
  BY <1>2, <1>4, NoPackets

\* The test of the destination of a full buffer.
LEMMA FlushCheckKeeps ==
    ASSUME PathInv, NEW m \in Thread, FlushCheck(m)
    PROVE  PathInv'
<1>1. PICK label \in {"put", "work"} : Goto(m, label)
  BY DEF FlushCheck
<1>2. /\ UNCHANGED <<build, health, nf, starts, idx, q, free, lost>> /\ pc[m] = "check"
      /\ to' = [to EXCEPT ![m] = IF Valid(@) THEN @ ELSE 1]
  BY DEF FlushCheck
<1>3. idx' \in [Thread -> 1 .. NumIds + 1] /\ idx'[Tx] = idx[Tx] /\ to' \in [Thread -> NfId]
  BY <1>2, FirstNf DEF PathInv, Control, Scalars
<1>4. Control' /\ pc'[m] = label /\ \A k \in Thread : k # m => pc'[k] = pc[k]
  <2>1. label \in Places /\ label # "take" /\ pc[m] # "none"
    BY <1>1, <1>2 DEF Places
  <2>2. QED
    BY <1>1, <1>2, <1>3, <2>1, Proceeds DEF PathInv
<1>5. pc'[m] \in Busy
  BY <1>1, <1>4 DEF Busy
<1>6. QED
  BY <1>2, <1>4, <1>5, NoPackets

\* A set of natural numbers has a smallest element.
LEMMA Smallest ==
    ASSUME NEW S \in SUBSET Nat, S # {}
    PROVE  (CHOOSE d \in S : \A e \in S : d <= e) \in S
<1>1. PICK m \in S : \A x \in S : ~(<<x, m>> \in OpToRel(<, Nat))
  BY NatLessThanWellFounded, WFMin
<1>2. ASSUME NEW x \in S PROVE m <= x
  <2>1. x \in Nat /\ m \in Nat
    OBVIOUS
  <2>2. <<x, m>> \in OpToRel(<, Nat) <=> x < m
    BY <2>1 DEF OpToRel
  <2>3. ~(x < m)
    BY <1>1, <2>2, Zenon
  <2>4. QED
    BY <2>1, <2>3
<1>3. QED
  BY <1>2

\* The next buffer that is not empty.
LEMMA FlushNextKeeps ==
    ASSUME PathInv, NEW m \in Thread, FlushNext(m)
    PROVE  PathInv'
<1> DEFINE D == {d \in NfId : d >= idx[m] /\ q[Buf(m, d)] # <<>>}
           next == CHOOSE d \in D : \A e \in D : d <= e
<1>1. /\ UNCHANGED <<build, health, nf, starts, q, free, lost>> /\ pc[m] = "flush"
      /\ \/ /\ \E label \in {"recv", "scan", "loop"} : Goto(m, label)
            /\ idx' = [idx EXCEPT ![m] = 1] /\ to' = to
         \/ /\ \E label \in {"put_all", "flush"} : Goto(m, label)
            /\ D # {} /\ idx' = [idx EXCEPT ![m] = next + 1]
            /\ to' = [to EXCEPT ![m] = IF Valid(next) THEN next ELSE 1]
  BY DEF FlushNext
<1>2. D # {} => next \in NfId /\ next + 1 \in 1 .. NumIds + 1
  <2> SUFFICES ASSUME D # {} PROVE next \in NfId /\ next + 1 \in 1 .. NumIds + 1
    OBVIOUS
  <2>1. D \in SUBSET Nat /\ D \subseteq NfId
    BY Constants DEF NfId
  <2> HIDE DEF D
  <2>2. next \in D
    BY <2>1, Smallest
  <2> HIDE DEF next
  <2>3. next \in NfId
    BY <2>1, <2>2
  <2>4. QED
    BY <2>3, Constants DEF NfId
<1> HIDE DEF D, next
<1>3. PICK label \in {"recv", "scan", "loop", "put_all", "flush"} : Goto(m, label)
  BY <1>1
<1>4. /\ idx \in [Thread -> 1 .. NumIds + 1] /\ to \in [Thread -> NfId]
      /\ 1 \in 1 .. NumIds + 1 /\ 1 \in NfId
  BY Constants, FirstNf DEF PathInv, Control, Scalars
<1>5. idx' \in [Thread -> 1 .. NumIds + 1] /\ (m # Tx => idx'[Tx] = idx[Tx])
  BY <1>1, <1>2, <1>4, Threads
<1>6. to' \in [Thread -> NfId]
  BY <1>1, <1>2, <1>4
<1>7. Control' /\ \A k \in Thread : k # m => pc'[k] = pc[k]
  <2>1. label \in Places /\ label # "take" /\ pc[m] # "none"
    BY <1>1, <1>3 DEF Places
  <2>2. QED
    BY <1>1, <1>3, <1>5, <1>6, <2>1, Proceeds DEF PathInv
<1>8. q[Pkts(m)] = <<>>
  BY <1>1 DEF PathInv, Idle, Busy
<1>9. QED
  BY <1>1, <1>7, <1>8, NoPackets

\* A step in which a queue of thread m goes on a ring as a whole.
LEMMA RingStep ==
    ASSUME PathInv, NEW m \in Thread, NEW from \in Queue, NEW ring \in Queue, from # ring,
           IsRing(ring), Bulked(q, free, from, ring, q', free'), lost' = lost, Control',
           \A k \in Thread : Pkts(k) # from /\ Pkts(k) # ring,
           \A k \in Thread : k # m => pc'[k] = pc[k],
           pc'[m] \in Busy \/ q[Pkts(m)] = <<>>
    PROVE  PathInv'
<1>1. Sound(q, free, lost) /\ Bounded(q) /\ Idle
  BY DEF PathInv
<1>2. /\ Sound(q', free', lost) /\ Same(q, q', {from, ring}) /\ q'[from] = <<>>
      /\ Fits(ring, Len(q[ring])) => Fits(ring, Len(q'[ring]))
  BY <1>1, BulkSound
<1>3. Fits(ring, Len(q'[ring])) /\ Fits(from, Len(q'[from]))
  BY <1>1, <1>2, EmptyFits, EmptyRange DEF Bounded
<1>4. \A x \in {from, ring} : Fits(x, Len(q'[x]))
  BY <1>3
<1>5. Bounded(q')
  BY <1>1, <1>2, <1>4, StillBounded
<1>6. Idle'
  <2>1. q'[Pkts(m)] = q[Pkts(m)]
    BY <1>2, Names, FirstNf DEF Same
  <2>2. QED
    BY <1>1, <1>2, <2>1, StillIdle
<1>7. QED
  BY <1>2, <1>5, <1>6 DEF PathInv

\* The rest of onvm_pkt_flush_nf_queue.
LEMMA FlushPutKeeps ==
    ASSUME PathInv, NEW m \in Thread, FlushPut(m)
    PROVE  PathInv'
<1>1. CASE ~HasRings(to[m])
  BY <1>1, CorruptKeeps DEF FlushPut
<1>2. CASE HasRings(to[m])
  <2>1. PICK d : d = to[m]
    OBVIOUS
  <2>2. d \in NfId
    BY <2>1 DEF PathInv, Control, Scalars
  <2>3. PICK x, y : x = Buf(m, d) /\ y = RxQ(d)
    OBVIOUS
  <2>4. x \in Queue /\ y \in Queue /\ x # y /\ IsRing(y) /\ \A k \in Thread : Pkts(k) # x /\ Pkts(k) # y
    BY <2>2, <2>3, Names, Distinct
  <2>5. Bulked(q, free, x, y, q', free')
    BY <1>2, <2>1, <2>3 DEF FlushPut, Bulked
  <2>6. /\ UNCHANGED <<build, health, nf, starts, idx, lost>>
        /\ to' = [to EXCEPT ![m] = 1] /\ pc[m] \in {"put", "put_all"}
        /\ Goto(m, IF pc[m] = "put" THEN "work" ELSE "flush")
    BY <1>2 DEF FlushPut
  <2>7. PICK label \in {"work", "flush"} : Goto(m, label) /\ (label = "flush" => pc[m] = "put_all")
    BY <2>6
  <2>8. idx' \in [Thread -> 1 .. NumIds + 1] /\ idx'[Tx] = idx[Tx] /\ to' \in [Thread -> NfId]
    BY <2>6, FirstNf DEF PathInv, Control, Scalars
  <2>9. Control' /\ pc'[m] = label /\ \A k \in Thread : k # m => pc'[k] = pc[k]
    <3>1. label \in Places /\ label # "take" /\ pc[m] # "none"
      BY <2>6, <2>7 DEF Places
    <3>2. QED
      BY <2>6, <2>7, <2>8, <3>1, Proceeds DEF PathInv
  <2>10. pc'[m] \in Busy \/ q[Pkts(m)] = <<>>
    BY <2>7, <2>9 DEF PathInv, Idle, Busy
  <2>11. QED
    BY <2>4, <2>5, <2>6, <2>9, <2>10, RingStep
<1>3. QED
  BY <1>1, <1>2

\* The steps of a flush and the end of a batch.
LEMMA FlushStepsKeep ==
    ASSUME PathInv, NEW m \in Thread, FlushSteps(m)
    PROVE  PathInv'
BY FlushCheckKeeps, FlushNextKeeps, FlushPutKeeps, BatchDoneKeeps DEF FlushSteps

-----------------------------------------------------------------------------
(* Bursts *)

\* A step that changes the queues of X, among them no batch but that of m.
LEMMA QueueStep ==
    ASSUME PathInv, NEW m \in Thread, NEW X, Control', Same(q, q', X),
           Sound(q', free', lost'), \A x \in X : Fits(x, Len(q'[x])),
           \A k \in Thread : k # m => Pkts(k) \notin X /\ pc'[k] = pc[k],
           pc'[m] \in Busy \/ q'[Pkts(m)] = <<>>
    PROVE  PathInv'
<1>1. Bounded(q')
  BY StillBounded DEF PathInv
<1>2. Idle'
  BY StillIdle DEF PathInv
<1>3. QED
  BY <1>1, <1>2 DEF PathInv

\* A map from 1 .. k onto k values repeats none.
LEMMA DistinctBurst ==
    ASSUME NEW k \in Nat, NEW S, NEW s \in [1 .. k -> S], Cardinality(Range(s)) = k
    PROVE  s \in Seq(S) /\ Len(s) = k /\ Once(s) /\ Range(s) \subseteq S
<1>1. s \in Seq(S) /\ Len(s) = k /\ Range(s) \subseteq S
  <2>1. s \in Seq(S)
    BY SeqDef
  <2>2. DOMAIN s = 1 .. k /\ Len(s) \in Nat /\ DOMAIN s = 1 .. Len(s)
    BY <2>1, LenProperties
  <2>3. Len(s) = k
    BY <2>2
  <2>4. QED
    BY <2>1, <2>3 DEF Range
<1>2. IsFiniteSet(1 .. k) /\ Cardinality(1 .. k) = Cardinality(Range(s))
  <2>1. IsFiniteSet(1 .. k) /\ Cardinality(1 .. k) = IF 1 > k THEN 0 ELSE k - 1 + 1
    BY FS_Interval
  <2>2. QED
    BY <2>1
<1>3. s \in Surjection(1 .. k, Range(s))
  <2>1. DOMAIN s = 1 .. k /\ s = [i \in 1 .. k |-> s[i]]
    OBVIOUS
  <2>2. s \in [1 .. k -> Range(s)]
    BY <2>1 DEF Range
  <2>3. \A t \in Range(s) : \E i \in 1 .. k : s[i] = t
    BY <2>1 DEF Range
  <2>4. QED
    BY <2>2, <2>3 DEF Surjection
<1>4. s \in Injection(1 .. k, Range(s))
  BY <1>2, <1>3, FS_SurjSameCardinalityImpliesInj
<1>5. DOMAIN s = 1 .. k
  OBVIOUS
<1>6. Once(s)
  BY <1>4, <1>5 DEF Injection, IsInjective, Once
<1>7. QED
  BY <1>1, <1>6

\* A burst from the NIC.
LEMMA RxBurstKeeps ==
    ASSUME PathInv, RxBurst
    PROVE  PathInv'
<1>0. PICK k \in 1 .. ReadSize : \E s \in [1 .. k -> free] :
        /\ Cardinality(Range(s)) = k /\ q' = [q EXCEPT ![Pkts(Rx)] = s]
        /\ free' = free \ Range(s)
  BY DEF RxBurst
<1>1. PICK s \in [1 .. k -> free] :
        /\ Cardinality(Range(s)) = k /\ q' = [q EXCEPT ![Pkts(Rx)] = s]
        /\ free' = free \ Range(s)
  BY <1>0
<1>2. /\ UNCHANGED <<build, health, nf, starts, idx, to, lost>>
      /\ Goto(Rx, "work") /\ pc[Rx] = "recv"
  BY DEF RxBurst
<1>3. s \in Seq(free) /\ Len(s) = k /\ Once(s) /\ Range(s) \subseteq free
  <2>1. k \in Nat
    BY Constants
  <2>2. QED
    BY <1>1, <2>1, DistinctBurst
<1>4. PICK x : x = Pkts(Rx)
  OBVIOUS
<1>5. Rx \in Thread /\ x \in Queue /\ q[x] = <<>>
  <2>1. q[Pkts(Rx)] = <<>>
    BY <1>2, Threads DEF PathInv, Idle, Busy
  <2>2. QED
    BY <1>4, <2>1, Names, FirstNf, Threads
<1>6. Sound(q, free, lost) /\ q \in [Queue -> Seq(Packet)] /\ free \subseteq Packet /\ free \cap lost = {}
  BY DEF PathInv, Sound
<1>7. s \in Seq(Packet)
  <2>1. \A i \in 1 .. k : s[i] \in Packet
    BY <1>1, <1>6
  <2>2. k \in Nat /\ s \in [1 .. k -> Packet]
    BY <1>1, <2>1, Constants
  <2>3. QED
    BY <2>2, SeqDef
<1>8. q' \in [Queue -> Seq(Packet)] /\ Same(q, q', {x}) /\ q'[x] = s
  BY <1>1, <1>4, <1>5, <1>6, <1>7 DEF Same
<1>9. Sound(q', free', lost')
  <2>1. Range(q[x]) = {}
    BY <1>5, EmptyRange
  <2>2. PICK g : g = Range(s)
    OBVIOUS
  <2>3. free' = free \ g /\ Range(q'[x]) = g /\ g \subseteq free
    BY <1>1, <1>3, <1>8, <2>2
  <2>4. g \cap ((free \ g) \cup lost) = {} /\ (free \ g) \cap lost = {}
    BY <1>6, <2>3
  <2>5. g \cup (free \ g) \cup lost = {} \cup free \cup lost
    BY <2>3
  <2>6. Change(q, free, lost, x, q', free', lost)
    BY <1>3, <1>8, <2>1, <2>3, <2>4, <2>5 DEF Change
  <2>7. Sound(q', free', lost)
    BY <1>5, <1>6, <1>8, <2>6, OneQueue
  <2>8. QED
    BY <1>2, <2>7
<1>10. Control' /\ pc'[Rx] = "work" /\ \A m \in Thread : m # Rx => pc'[m] = pc[m]
  <2>1. idx' \in [Thread -> 1 .. NumIds + 1] /\ idx'[Tx] = idx[Tx] /\ to' \in [Thread -> NfId]
    BY <1>2 DEF PathInv, Control, Scalars
  <2>2. "work" \in Places /\ pc[Rx] # "none"
    BY <1>2 DEF Places
  <2>3. QED
    BY <1>2, <1>5, <2>1, <2>2, Proceeds DEF PathInv
<1>11. \A z \in {x} : Fits(z, Len(q'[z]))
  <2>1. k <= ReadSize
    BY Constants
  <2>2. Fits(x, k)
    BY <1>4, <1>5, <2>1, Names, FirstNf
  <2>3. QED
    BY <1>3, <1>8, <2>2
<1>12. \A m \in Thread : m # Rx => Pkts(m) \notin {x} /\ pc'[m] = pc[m]
  BY <1>4, <1>10, Distinct
<1>13. pc'[Rx] \in Busy
  BY <1>10 DEF Busy
<1>14. QED
  BY <1>5, <1>8, <1>9, <1>10, <1>11, <1>12, <1>13, QueueStep

\* The loop of the TX thread over the NFs.
LEMMA TxScanKeeps ==
    ASSUME PathInv, TxScan
    PROVE  PathInv'
<1>1. /\ UNCHANGED <<build, health, nf, starts, to, lost>> /\ pc[Tx] = "scan"
      /\ Tx \in Thread /\ q[Pkts(Tx)] = <<>>
  BY Threads DEF TxScan, PathInv, Idle, Busy
<1>2. idx \in [Thread -> 1 .. NumIds + 1] /\ to' \in [Thread -> NfId]
  BY <1>1 DEF PathInv, Control, Scalars
<1>3. CASE idx[Tx] > NumIds
  <2>1. /\ q' = [q EXCEPT ![Port] = <<>>] /\ free' = free \cup Range(q[Port])
        /\ Goto(Tx, "flush") /\ idx' = [idx EXCEPT ![Tx] = 1]
    BY <1>3 DEF TxScan
  <2>2. PICK y : y = Port
    OBVIOUS
  <2>3. y \in Queue /\ Sound(q, free, lost) /\ Cleared(q, q', y)
    BY <2>1, <2>2, Names, FirstNf, Threads DEF PathInv, Cleared
  <2>4. Same(q, q', {y}) /\ q'[y] = <<>> /\ Sound(q', free \cup Range(q[y]), lost)
    BY <2>3, ClearedSound
  <2>5. Sound(q', free', lost')
    BY <1>1, <2>1, <2>2, <2>4
  <2>6. \A z \in {y} : Fits(z, Len(q'[z]))
    BY <2>4, EmptyFits, EmptyRange
  <2>7. Control' /\ \A m \in Thread : m # Tx => pc'[m] = pc[m]
    <3>1. idx' \in [Thread -> 1 .. NumIds + 1]
      <4>1. idx' = [idx EXCEPT ![Tx] = 1] /\ 1 \in 1 .. NumIds + 1
        BY <2>1, Constants
      <4>2. QED
        BY <1>2, <4>1
    <3>2. PICK label \in Places : label = "flush" /\ Goto(Tx, label) /\ label # "take"
      BY <2>1 DEF Places
    <3>3. pc[Tx] # "none" /\ Control
      BY <1>1 DEF PathInv
    <3>4. QED
      BY <1>1, <1>2, <3>1, <3>2, <3>3, Proceeds
  <2>8. \A m \in Thread : Pkts(m) \notin {y}
    BY <2>2, Distinct
  <2>9. q'[Pkts(Tx)] = <<>>
    BY <1>1, <2>4, <2>8, Names, FirstNf DEF Same
  <2>10. QED
    BY <1>1, <2>4, <2>5, <2>6, <2>7, <2>8, <2>9, QueueStep
<1>4. CASE ~(idx[Tx] > NumIds)
  <2>1. PICK label \in {"take", "scan"} : Goto(Tx, label)
    BY <1>4 DEF TxScan
  <2>2. UNCHANGED <<q, free>> /\ idx' = [idx EXCEPT ![Tx] = @ + 1]
    BY <1>4 DEF TxScan
  <2>3. idx' \in [Thread -> 1 .. NumIds + 1] /\ idx'[Tx] >= 2
    <3>1. idx[Tx] + 1 \in 1 .. NumIds + 1 /\ idx[Tx] + 1 >= 2
      BY <1>1, <1>2, <1>4, Constants
    <3>2. QED
      BY <1>1, <1>2, <2>2, <3>1
  <2>4. Control' /\ \A m \in Thread : m # Tx => pc'[m] = pc[m]
    <3>1. label \in Places /\ pc[Tx] # "none"
      BY <1>1, <2>1 DEF Places
    <3>2. QED
      BY <1>1, <1>2, <2>1, <2>3, <3>1, Proceeds DEF PathInv
  <2>5. QED
    BY <1>1, <2>2, <2>4, NoPackets
<1>5. QED
  BY <1>3, <1>4

\* What a burst takes from a ring and what it leaves there.
BurstOf(s, a, b) ==
    /\ a \in Seq(Packet) /\ b \in Seq(Packet) /\ Once(a) /\ Once(b)
    /\ Range(a) \cap Range(b) = {} /\ Range(s) = Range(a) \cup Range(b)
    /\ Len(a) <= ReadSize

\* The dequeue returns such a burst.
LEMMA BurstParts ==
    ASSUME PathInv, NEW x \in Queue
    PROVE  BurstOf(q[x], Burst(x), Rest(x)) /\ (IsRing(x) => Fits(x, Len(Rest(x))))
<1>1. PICK s : s = q[x]
  OBVIOUS
<1>2. s \in Seq(Packet) /\ Once(s) /\ Len(s) \in Nat /\ Fits(x, Len(s))
  BY <1>1, LenProperties DEF PathInv, Sound, Bounded
<1>3. PICK k : k = IF Len(s) < ReadSize THEN Len(s) ELSE ReadSize
  OBVIOUS
<1>4. k \in 0 .. Len(s) /\ k <= ReadSize
  BY <1>2, <1>3, Constants
<1>5. PICK a, b : a = SubSeq(s, 1, k) /\ b = SubSeq(s, k + 1, Len(s))
  OBVIOUS
<1>6. a \in Seq(Packet) /\ b \in Seq(Packet) /\ Parts(s, k, a, b)
  BY <1>2, <1>4, <1>5, SubSeqParts
<1>7. Range(s) = Range(a) \cup Range(b) /\ Once(a) /\ Once(b) /\ Range(a) \cap Range(b) = {}
  BY <1>2, <1>4, <1>6, SplitRange
<1>8. Len(a) = k /\ Len(b) = Len(s) - k
  BY <1>6 DEF Parts
<1>9. Burst(x) = a /\ Rest(x) = b
  <2>1. Burst(x) = a
    BY <1>1, <1>3, <1>5 DEF Burst
  <2>2. QED
    BY <1>1, <1>5, <1>8, <2>1 DEF Rest
<1>10. BurstOf(s, a, b)
  BY <1>4, <1>6, <1>7, <1>8 DEF BurstOf
<1>11. IsRing(x) => Fits(x, Len(b))
  <2> SUFFICES ASSUME IsRing(x) PROVE Fits(x, Len(b))
    OBVIOUS
  <2>1. PICK i, j : i = Len(s) /\ j = Len(b)
    OBVIOUS
  <2>2. i <= RingSize
    BY <1>2, <2>1 DEF Fits, IsRing
  <2>3. i \in Nat /\ k \in Nat /\ j = i - k
    BY <1>2, <1>4, <1>8, <2>1
  <2>4. j <= RingSize
    BY <2>2, <2>3, Constants
  <2>5. Fits(x, j)
    BY <2>4 DEF Fits, IsRing
  <2>6. QED
    BY <2>1, <2>5
<1>12. QED
  BY <1>1, <1>9, <1>10, <1>11

\* Queue y is taken from a ring x: y was empty.
Takes(r, r2, x, y) ==
    \E a, b : BurstOf(r[x], a, b) /\ r2 = [r EXCEPT ![y] = a, ![x] = b]

\* No packet is lost on the way, and none is taken twice.
LEMMA TakeSound ==
    ASSUME NEW r, NEW f, NEW l, Sound(r, f, l), NEW x \in Queue, NEW y \in Queue, x # y,
           r[y] = <<>>, NEW r2, Takes(r, r2, x, y)
    PROVE  Sound(r2, f, l) /\ Same(r, r2, {x, y})
<1>1. PICK a, b : BurstOf(r[x], a, b) /\ r2 = [r EXCEPT ![y] = a, ![x] = b]
  BY DEF Takes
<1>2. /\ a \in Seq(Packet) /\ b \in Seq(Packet) /\ Once(a) /\ Once(b)
      /\ Range(a) \cap Range(b) = {} /\ Range(r[x]) = Range(a) \cup Range(b)
  BY <1>1 DEF BurstOf
<1>3. r \in [Queue -> Seq(Packet)]
  BY DEF Sound
<1>4. r2 \in [Queue -> Seq(Packet)] /\ Same(r, r2, {x, y}) /\ r2[x] = b /\ r2[y] = a
  BY <1>1, <1>2, <1>3 DEF Same
<1>5. Range(r[y]) = {} /\ Range(r[x]) \cap f = {} /\ Range(r[x]) \cap l = {} /\ f \cap l = {}
  BY EmptyRange DEF Sound
<1>6. /\ Range(b) \cap Range(a) = {} /\ (Range(b) \cup Range(a)) \cap (f \cup l) = {}
      /\ Range(b) \cup Range(a) \cup f \cup l = Range(r[x]) \cup Range(r[y]) \cup f \cup l
  BY <1>2, <1>5
<1>7. Exchange(r, f, l, x, y, r2, f, l)
  BY <1>2, <1>4, <1>5, <1>6 DEF Exchange
<1>8. QED
  BY <1>4, <1>7, TwoQueues

\* The dequeue from the TX ring of an NF.
LEMMA TxTakeKeeps ==
    ASSUME PathInv, TxTake
    PROVE  PathInv'
<1>1. PICK n : n = idx[Tx] - 1
  OBVIOUS
<1>2. pc[Tx] = "take" /\ Tx \in Thread /\ q[Pkts(Tx)] = <<>> /\ n \in NfId
  <2>1. pc[Tx] = "take" /\ Tx \in Thread
    BY Threads DEF TxTake
  <2>2. idx[Tx] \in 1 .. NumIds + 1 /\ idx[Tx] >= 2
    BY <2>1 DEF PathInv, Control, Scalars, Taking
  <2>3. n \in NfId
    BY <1>1, <2>2, Constants DEF NfId
  <2>4. q[Pkts(Tx)] = <<>>
    BY <2>1 DEF PathInv, Idle, Busy
  <2>5. QED
    BY <2>1, <2>3, <2>4
<1>3. CASE ~HasRings(n)
  BY <1>1, <1>3, CorruptKeeps DEF TxTake
<1>4. CASE HasRings(n)
  <2>1. PICK x, y : x = TxQ(n) /\ y = Pkts(Tx)
    OBVIOUS
  <2>2. x \in Queue /\ y \in Queue /\ IsRing(x) /\ x # y /\ q[y] = <<>>
    BY <1>2, <2>1, Names, Distinct
  <2>3. PICK a, b : a = Burst(x) /\ b = Rest(x)
    OBVIOUS
  <2>4. BurstOf(q[x], a, b) /\ Fits(x, Len(b))
    BY <2>2, <2>3, BurstParts
  <2>5. /\ q' = [q EXCEPT ![y] = a, ![x] = b] /\ Goto(Tx, "work")
        /\ UNCHANGED <<build, health, nf, starts, idx, to, free, lost>>
    BY <1>1, <1>4, <2>1, <2>3 DEF TxTake
  <2>6. Takes(q, q', x, y) /\ Sound(q, free, lost) /\ DOMAIN q = Queue
    BY <2>4, <2>5 DEF Takes, PathInv, Sound
  <2>7. Sound(q', free, lost) /\ Same(q, q', {x, y})
    BY <2>2, <2>6, TakeSound
  <2>8. q'[x] = b /\ q'[y] = a
    BY <2>2, <2>5, <2>6
  <2>9. Fits(y, Len(a))
    <3>1. Len(a) <= ReadSize
      BY <2>4 DEF BurstOf
    <3>2. QED
      BY <1>2, <2>1, <3>1, Names
  <2>10. \A z \in {x, y} : Fits(z, Len(q'[z]))
    BY <2>4, <2>8, <2>9
  <2>11. Control' /\ pc'[Tx] = "work" /\ \A m \in Thread : m # Tx => pc'[m] = pc[m]
    <3>1. idx' \in [Thread -> 1 .. NumIds + 1] /\ to' \in [Thread -> NfId]
      BY <2>5 DEF PathInv, Control, Scalars
    <3>2. "work" \in Places /\ pc[Tx] # "none" /\ "work" # "take"
      BY <1>2 DEF Places
    <3>3. QED
      BY <1>2, <2>5, <3>1, <3>2, Proceeds DEF PathInv
  <2>12. \A m \in Thread : m # Tx => Pkts(m) \notin {x, y} /\ pc'[m] = pc[m]
    BY <2>1, <2>11, Distinct
  <2>13. pc'[Tx] \in Busy /\ Sound(q', free', lost')
    BY <2>5, <2>7, <2>11 DEF Busy
  <2>14. QED
    BY <1>2, <2>7, <2>10, <2>11, <2>12, <2>13, QueueStep
<1>5. QED
  BY <1>3, <1>4

\* The packets at the indices of f, in their order.
Picked(s, f) == [i \in DOMAIN f |-> s[f[i]]]

\* They are packets of s, and none is there twice.
LEMMA Chosen ==
    ASSUME NEW S, NEW s \in Seq(S), NEW f \in Ascending(Len(s)),
           NEW t, t = Picked(s, f)
    PROVE  /\ t \in Seq(S) /\ Range(t) = {s[j] : j \in Range(f)} /\ (Once(s) => Once(t))
           /\ Range(f) \subseteq 1 .. Len(s)
<1> DEFINE n == Len(s)
<1>1. n \in Nat /\ DOMAIN s = 1 .. n /\ \A j \in 1 .. n : s[j] \in S
  BY LenProperties, ElementOfSeq
<1>2. PICK k \in 0 .. n : f \in [1 .. k -> 1 .. n]
  <2>1. f \in UNION {[1 .. k -> 1 .. n] : k \in 0 .. n}
    BY DEF Ascending
  <2>2. QED
    BY <2>1
<1>3. \A i, j \in DOMAIN f : i < j => f[i] < f[j]
  BY DEF Ascending
<1> HIDE DEF n
<1>4. k \in Nat /\ DOMAIN f = 1 .. k /\ DOMAIN t = 1 .. k /\ \A i \in 1 .. k : t[i] = s[f[i]] /\ f[i] \in 1 .. n
  BY <1>1, <1>2 DEF Picked
<1>5. t \in Seq(S)
  <2>0. t = [i \in 1 .. k |-> s[f[i]]]
    BY <1>4 DEF Picked
  <2>1. t \in [1 .. k -> S]
    BY <1>1, <1>4, <2>0
  <2>2. QED
    BY <1>4, <2>1, SeqDef
<1>6. Range(t) = {s[j] : j \in Range(f)}
  BY <1>4 DEF Range
<1>7. ASSUME Once(s) PROVE Once(t)
  <2>1. ASSUME NEW i \in 1 .. k, NEW j \in 1 .. k, t[i] = t[j] PROVE i = j
    <3>1. f[i] = f[j]
      BY <1>1, <1>4, <1>7, <2>1 DEF Once
    <3>2. f[i] \in Int /\ ~(f[i] < f[j]) /\ ~(f[j] < f[i])
      BY <1>1, <1>4, <3>1
    <3>3. ~(i < j) /\ ~(j < i)
      BY <1>3, <1>4, <3>2
    <3>4. QED
      BY <1>4, <3>3
  <2>2. QED
    BY <1>4, <2>1 DEF Once
<1>8. Range(f) \subseteq 1 .. n
  BY <1>4 DEF Range
<1>9. QED
  BY <1>5, <1>6, <1>7, <1>8 DEF n

\* The handler keeps some packets of a burst and passes the others on.
LEMMA Divided ==
    ASSUME NEW S, NEW s \in Seq(S), Once(s),
           NEW f \in Ascending(Len(s)), NEW g \in Ascending(Len(s)),
           Range(f) = (1 .. Len(s)) \ Range(g),
           NEW t, t = Picked(s, f), NEW u, u = Picked(s, g)
    PROVE  /\ t \in Seq(S) /\ u \in Seq(S) /\ Once(t) /\ Once(u)
           /\ Range(t) \cap Range(u) = {} /\ Range(t) \cup Range(u) = Range(s)
<1>1. /\ t \in Seq(S) /\ Range(t) = {s[j] : j \in Range(f)} /\ Once(t)
      /\ Range(f) \subseteq 1 .. Len(s)
  BY Chosen
<1>2. /\ u \in Seq(S) /\ Range(u) = {s[j] : j \in Range(g)} /\ Once(u)
      /\ Range(g) \subseteq 1 .. Len(s)
  BY Chosen
<1>3. PICK A, B : A = Range(f) /\ B = Range(g)
  OBVIOUS
<1>4. DOMAIN s = 1 .. Len(s)
  BY LenProperties
<1>5. A \cap B = {} /\ A \cup B = DOMAIN s
  BY <1>2, <1>3, <1>4
<1>6. Range(t) \cap Range(u) = {}
  <2>1. \A i \in A, j \in B : s[i] # s[j]
    BY <1>5 DEF Once
  <2>2. QED
    BY <1>1, <1>2, <1>3, <2>1
<1>7. Range(t) \cup Range(u) = Range(s)
  BY <1>1, <1>2, <1>3, <1>5 DEF Range
<1>8. QED
  BY <1>1, <1>2, <1>6, <1>7

\* The packets that pass through an NF; with handlers that keep none in a
\* build in which the NF transmits itself.
LEMMA NfTakeKeeps ==
    ASSUME PathInv, NEW n \in NfId, NfTake(n), TRUE \notin Keeping
    PROVE  PathInv'
<1>1. /\ UNCHANGED <<build, health, nf, starts, idx, to, lost>>
      /\ Goto(n, "work") /\ pc[n] = "loop" /\ n \in Thread
  BY Threads DEF NfTake
<1>2. PICK x, y, z, w : x = RxQ(n) /\ y = Pkts(n) /\ z = Kept(n) /\ w = TxQ(n)
  OBVIOUS
<1>3. /\ x \in Queue /\ y \in Queue /\ z \in Queue /\ w \in Queue /\ IsRing(x) /\ IsRing(w)
      /\ x # y /\ x # z /\ x # w /\ y # z /\ y # w /\ z # w
  BY <1>1, <1>2, Names, Distinct
<1>4. PICK a, b : a = Burst(x) /\ b = Rest(x)
  OBVIOUS
<1>5. BurstOf(q[x], a, b) /\ Fits(x, Len(b))
  BY <1>3, <1>4, BurstParts
<1>6. a \in Seq(Packet) /\ b \in Seq(Packet) /\ Once(a) /\ Len(a) <= ReadSize
  BY <1>5 DEF BurstOf
<1>7. q[y] = <<>> /\ Sound(q, free, lost) /\ DOMAIN q = Queue /\ q[z] \in Seq(Packet)
  BY <1>1, <1>2, <1>3 DEF PathInv, Idle, Busy, Sound
<1>8. PICK kept, passed, r :
        /\ kept \in Ascending(Len(a)) /\ passed \in Ascending(Len(a))
        /\ r = [q EXCEPT ![x] = b, ![z] = @ \o Picked(a, kept),
                         ![y] = IF build THEN a ELSE Picked(a, passed)]
        /\ Range(kept) = (1 .. Len(a)) \ Range(passed)
        /\ kept # <<>> => build \in Keeping
        /\ q' = IF build THEN r ELSE Bulk(r, y, w).queue
        /\ free' = IF build THEN free ELSE free \cup Bulk(r, y, w).freed
  <2>1. PICK kept \in Ascending(Len(Burst(RxQ(n)))), passed \in Ascending(Len(Burst(RxQ(n)))) :
          LET pkts == Burst(RxQ(n))
              mine == [i \in DOMAIN kept |-> pkts[kept[i]]]
              others == [i \in DOMAIN passed |-> pkts[passed[i]]]
              s == [q EXCEPT ![RxQ(n)] = Rest(RxQ(n)), ![Kept(n)] = @ \o mine,
                             ![Pkts(n)] = IF build THEN pkts ELSE others]
              v == Bulk(s, Pkts(n), TxQ(n))
          IN  /\ Range(kept) = (1 .. Len(pkts)) \ Range(passed)
              /\ kept # <<>> => build \in Keeping
              /\ q' = IF build THEN s ELSE v.queue
              /\ free' = IF build THEN free ELSE free \cup v.freed
    BY Zenon DEF NfTake
  <2>2. a = Burst(RxQ(n)) /\ b = Rest(RxQ(n))
    BY <1>2, <1>4
  <2>3. kept \in Ascending(Len(a)) /\ passed \in Ascending(Len(a))
    BY <2>1, <2>2
  <2>4. PICK r : r = [q EXCEPT ![x] = b, ![z] = @ \o Picked(a, kept),
                               ![y] = IF build THEN a ELSE Picked(a, passed)]
    OBVIOUS
  <2>5. /\ Range(kept) = (1 .. Len(a)) \ Range(passed)
        /\ kept # <<>> => build \in Keeping
        /\ q' = IF build THEN r ELSE Bulk(r, y, w).queue
        /\ free' = IF build THEN free ELSE free \cup Bulk(r, y, w).freed
    BY <1>2, <2>1, <2>2, <2>4 DEF Picked
  <2>6. QED
    BY <2>3, <2>4, <2>5
<1>9. PICK mine, others : mine = Picked(a, kept) /\ others = Picked(a, passed)
  OBVIOUS
<1>10. PICK p : p = [q EXCEPT ![y] = a, ![x] = b]
  OBVIOUS
<1>11. Sound(p, free, lost) /\ Same(q, p, {x, y})
  <2>1. Takes(q, p, x, y)
    BY <1>5, <1>10 DEF Takes
  <2>2. QED
    BY <1>3, <1>7, <2>1, TakeSound
<1>12. p[x] = b /\ p[y] = a /\ p[z] = q[z] /\ p[w] = q[w] /\ p \in [Queue -> Seq(Packet)]
  <2>1. p \in [Queue -> Seq(Packet)]
    BY <1>11 DEF Sound
  <2>2. QED
    BY <1>3, <1>7, <1>10, <2>1
<1>13. Control' /\ pc'[n] = "work" /\ \A m \in Thread : m # n => pc'[m] = pc[m]
  <2>1. /\ idx' \in [Thread -> 1 .. NumIds + 1] /\ to' \in [Thread -> NfId]
        /\ idx'[Tx] = idx[Tx] /\ Control
    BY <1>1 DEF PathInv, Control, Scalars
  <2>2. PICK label \in Places : label = "work" /\ Goto(n, label) /\ label # "take"
    BY <1>1 DEF Places
  <2>3. pc[n] # "none"
    BY <1>1
  <2>4. QED
    BY <1>1, <2>1, <2>2, <2>3, Proceeds
<1>14. pc'[n] \in Busy
  BY <1>13 DEF Busy
<1>15. CASE build
  <2>1. kept = <<>> /\ q' = r /\ free' = free
    <3>1. build = TRUE
      <4>1. build \in BOOLEAN
        BY Constants DEF PathInv, Control, Scalars
      <4>2. QED
        BY <1>15, <4>1
    <3>2. QED
      BY <1>8, <1>15, <3>1
  <2>2. mine = <<>>
    BY <1>9, <2>1 DEF Picked
  <2>3. r = [q EXCEPT ![x] = b, ![z] = q[z], ![y] = a]
    <3>1. q[z] \o mine = q[z]
      BY <1>7, <2>2, ConcatEmptySeq
    <3>2. r = [q EXCEPT ![x] = b, ![z] = q[z] \o mine, ![y] = a]
      BY <1>3, <1>7, <1>8, <1>9, <1>15
    <3>3. QED
      BY <3>1, <3>2
  <2>4. q' = p
    BY <1>3, <1>7, <1>10, <2>1, <2>3
  <2>5. Sound(q', free', lost') /\ Same(q, q', {x, y})
    BY <1>1, <1>11, <2>1, <2>4
  <2>6. Fits(y, Len(a))
    BY <1>1, <1>2, <1>6, Names
  <2>7. \A v \in {x, y} : Fits(v, Len(q'[v]))
    BY <1>5, <1>12, <2>4, <2>6
  <2>8. \A m \in Thread : m # n => Pkts(m) \notin {x, y} /\ pc'[m] = pc[m]
    BY <1>2, <1>13, Distinct
  <2>9. QED
    BY <1>1, <1>13, <1>14, <2>5, <2>7, <2>8, QueueStep
<1>16. CASE ~build
  <2>1. /\ mine \in Seq(Packet) /\ others \in Seq(Packet) /\ Once(mine) /\ Once(others)
        /\ Range(mine) \cap Range(others) = {} /\ Range(mine) \cup Range(others) = Range(a)
    BY <1>6, <1>8, <1>9, Divided
  <2>2. PICK c : c = q[z] \o mine
    OBVIOUS
  <2>3. r = [q EXCEPT ![x] = b, ![z] = c, ![y] = others]
    BY <1>3, <1>7, <1>8, <1>9, <1>16, <2>2
  <2>4. /\ Range(p[y]) = Range(a) /\ Range(p[y]) \cap Range(p[z]) = {} /\ Once(p[z])
        /\ Range(p[y]) \cap free = {} /\ Range(p[y]) \cap lost = {} /\ free \cap lost = {}
        /\ Range(p[z]) \cap free = {} /\ Range(p[z]) \cap lost = {}
    BY <1>3, <1>11, <1>12 DEF Sound
  <2>5. c \in Seq(Packet) /\ Once(c) /\ Range(c) = Range(p[z]) \cup Range(mine)
    <3>1. Range(q[z]) \cap Range(mine) = {} /\ Once(q[z])
      BY <1>12, <2>1, <2>4
    <3>2. QED
      BY <1>7, <1>12, <2>1, <2>2, <3>1, ConcatRange
  <2>6. /\ r \in [Queue -> Seq(Packet)] /\ r[y] = others /\ r[z] = c /\ r[x] = b
        /\ Same(p, r, {y, z}) /\ r[w] = q[w]
    <3>1. r \in [Queue -> Seq(Packet)]
      <4>1. q \in [Queue -> Seq(Packet)]
        BY <1>7 DEF Sound
      <4>2. QED
        BY <1>3, <1>6, <2>1, <2>3, <2>5, <4>1
    <3>2. r[y] = others /\ r[z] = c /\ r[x] = b /\ r[w] = q[w]
      BY <1>3, <1>7, <2>3
    <3>3. \A v \in Queue : v \notin {y, z} => r[v] = p[v]
      BY <1>3, <1>7, <1>10, <2>3
    <3>4. QED
      BY <3>1, <3>2, <3>3 DEF Same
  <2>7. Sound(r, free, lost)
    <3>1. PICK A, B, C, O :
            A = Range(a) /\ B = Range(p[z]) /\ C = Range(mine) /\ O = Range(others)
      OBVIOUS
    <3>2. Range(r[y]) = O /\ Range(r[z]) = B \cup C /\ Range(p[y]) = A
      BY <2>4, <2>5, <2>6, <3>1
    <3>3. O \cap (B \cup C) = {} /\ (O \cup (B \cup C)) \cap (free \cup lost) = {}
      BY <2>1, <2>4, <3>1
    <3>4. O \cup (B \cup C) \cup free \cup lost = A \cup B \cup free \cup lost
      BY <2>1, <3>1
    <3>5. Once(r[y]) /\ Once(r[z]) /\ free \cap lost = {}
      BY <2>1, <2>4, <2>5, <2>6
    <3>6. Exchange(p, free, lost, y, z, r, free, lost)
      BY <3>1, <3>2, <3>3, <3>4, <3>5 DEF Exchange
    <3>7. QED
      BY <1>3, <1>11, <2>6, <3>6, TwoQueues
  <2>8. Bulked(r, free, y, w, q', free')
    BY <1>8, <1>16 DEF Bulked
  <2>9. /\ Sound(q', free', lost) /\ Same(r, q', {y, w}) /\ q'[y] = <<>>
        /\ Fits(w, Len(r[w])) => Fits(w, Len(q'[w]))
    BY <1>3, <2>7, <2>8, BulkSound
  <2>10. Same(q, q', {x, y, z, w}) /\ q'[x] = b
    BY <1>3, <1>11, <2>6, <2>9 DEF Same
  <2>11. Fits(w, Len(q'[w])) /\ Fits(y, Len(q'[y])) /\ Fits(z, Len(q'[z]))
    <3>1. Fits(w, Len(q[w]))
      BY <1>3 DEF PathInv, Bounded
    <3>2. Fits(z, Len(q'[z]))
      BY <1>1, <1>2, Names
    <3>3. QED
      BY <2>6, <2>9, <3>1, <3>2, EmptyFits, EmptyRange
  <2>12. \A v \in {x, y, z, w} : Fits(v, Len(q'[v]))
    BY <1>5, <2>10, <2>11
  <2>13. \A m \in Thread : m # n => Pkts(m) \notin {x, y, z, w} /\ pc'[m] = pc[m]
    BY <1>2, <1>13, Distinct
  <2>14. Sound(q', free', lost')
    BY <1>1, <2>9
  <2>15. QED
    BY <1>1, <1>13, <1>14, <2>10, <2>12, <2>13, <2>14, QueueStep
<1>17. QED
  BY <1>15, <1>16

\* What to_tx_buf holds goes on the TX ring.
LEMMA FlushOutKeeps ==
    ASSUME PathInv, NEW n \in NfId, FlushOut(n)
    PROVE  PathInv'
<1>1. PICK x, y : x = Out(n) /\ y = TxQ(n)
  OBVIOUS
<1>2. /\ n \in Thread /\ x \in Queue /\ y \in Queue /\ x # y /\ IsRing(y)
      /\ \A k \in Thread : Pkts(k) # x /\ Pkts(k) # y
  BY <1>1, Threads, Names, Distinct
<1>3. /\ UNCHANGED <<build, health, nf, starts, idx, to, lost>> /\ pc[n] = "out"
      /\ Goto(n, "flush") /\ Bulked(q, free, x, y, q', free')
  BY <1>1 DEF FlushOut, Bulked
<1>4. Control' /\ \A m \in Thread : m # n => pc'[m] = pc[m]
  <2>1. /\ idx' \in [Thread -> 1 .. NumIds + 1] /\ to' \in [Thread -> NfId]
        /\ idx'[Tx] = idx[Tx] /\ Control
    BY <1>3 DEF PathInv, Control, Scalars
  <2>2. PICK label \in Places : label = "flush" /\ Goto(n, label) /\ label # "take"
    BY <1>3 DEF Places
  <2>3. pc[n] # "none"
    BY <1>3
  <2>4. QED
    BY <1>2, <1>3, <2>1, <2>2, <2>3, Proceeds
<1>5. q[Pkts(n)] = <<>>
  BY <1>2, <1>3 DEF PathInv, Idle, Busy
<1>6. QED
  BY <1>2, <1>3, <1>4, <1>5, RingStep

\* An NF gives back what it kept.
LEMMA ReturnKeptKeeps ==
    ASSUME PathInv, NEW n \in NfId, ReturnKept(n)
    PROVE  PathInv'
<1>1. PICK x, y : x = Kept(n) /\ y = TxQ(n)
  OBVIOUS
<1>2. /\ n \in Thread /\ x \in Queue /\ y \in Queue /\ x # y /\ IsRing(y)
      /\ \A k \in Thread : Pkts(k) # x /\ Pkts(k) # y
  BY <1>1, Threads, Names, Distinct
<1>3. /\ UNCHANGED <<build, health, nf, starts, pc, idx, to, lost>> /\ pc[n] = "loop"
      /\ Bulked(q, free, x, y, q', free')
  BY <1>1 DEF ReturnKept, Bulked
<1>4. Control'
  BY <1>3 DEF PathInv, Control, Scalars, Asleep, Taking
<1>5. q[Pkts(n)] = <<>>
  BY <1>2, <1>3 DEF PathInv, Idle, Busy
<1>6. QED
  BY <1>2, <1>3, <1>4, <1>5, RingStep

-----------------------------------------------------------------------------
(* The life of an NF *)

\* NF n reaches another state of its life, and has a thread only if it runs.
LEMMA Lives ==
    ASSUME PathInv, NEW n \in NfId,
           NEW state \in {"off", "running", "exited", "stopped", "drained"},
           nf' = [nf EXCEPT ![n] = state], UNCHANGED <<build, health, idx, to>>,
           starts' \in 0 .. MaxStarts,
           NEW label \in {"none", "loop"}, pc' = [pc EXCEPT ![n] = label],
           state # "running" => label = "none", pc[n] \in {"none", "loop"}
    PROVE  /\ Control' /\ n \in Thread /\ q[Pkts(n)] = <<>>
           /\ \A k \in Thread : k # n => pc'[k] = pc[k]
<1>1. n \in Thread /\ Tx \in Thread /\ n # Tx
  BY Threads
<1>2. label \in Places
  BY DEF Places
<1>3. Scalars'
  BY <1>1, <1>2 DEF PathInv, Control, Scalars
<1>4. nf' \in [NfId -> {"off", "running", "exited", "stopped", "drained"}] /\ pc' \in [Thread -> Places]
  BY <1>3 DEF Scalars
<1>5. Asleep'
  <2>1. \A k \in NfId : nf'[k] # "running" => pc'[k] = "none"
    BY <1>1, Threads DEF PathInv, Control, Scalars, Asleep
  <2>2. QED
    BY <2>1 DEF Asleep
<1>6. Taking'
  <2>1. pc'[Tx] = pc[Tx]
    BY <1>1 DEF PathInv, Control, Scalars
  <2>2. QED
    BY <2>1 DEF PathInv, Control, Taking, Tx
<1>7. q[Pkts(n)] = <<>>
  BY <1>1 DEF PathInv, Idle, Busy
<1>8. \A k \in Thread : k # n => pc'[k] = pc[k]
  BY DEF PathInv, Control, Scalars
<1>9. QED
  BY <1>1, <1>3, <1>5, <1>6, <1>7, <1>8 DEF Control

\* An NF that does not run stays without a thread.
LEMMA NoThread ==
    ASSUME PathInv, NEW n \in NfId, nf[n] # "running"
    PROVE  pc[n] = "none" /\ pc = [pc EXCEPT ![n] = "none"]
<1>1. pc[n] = "none" /\ n \in Thread
  BY Threads DEF PathInv, Control, Asleep
<1>2. pc \in [Thread -> Places]
  BY DEF PathInv, Control, Scalars
<1>3. QED
  BY <1>1, <1>2

\* A new NF.
LEMMA NfStartKeeps ==
    ASSUME PathInv, NEW n \in NfId, NfStart(n)
    PROVE  PathInv'
<1>1. /\ nf[n] = "off" /\ starts < MaxStarts /\ nf' = [nf EXCEPT ![n] = "running"]
      /\ starts' = starts + 1 /\ pc' = [pc EXCEPT ![n] = "loop"]
      /\ UNCHANGED <<build, health, idx, to, q, free, lost>>
  BY DEF NfStart, Goto
<1>2. starts' \in 0 .. MaxStarts
  <2>1. starts \in 0 .. MaxStarts
    BY DEF PathInv, Control, Scalars
  <2>2. QED
    BY <1>1, <2>1, Constants
<1>3. pc[n] \in {"none", "loop"}
  <2>1. nf[n] # "running"
    BY <1>1
  <2>2. QED
    BY <2>1, NoThread
<1>4. PICK state \in {"off", "running", "exited", "stopped", "drained"}, label \in {"none", "loop"} :
        state = "running" /\ label = "loop"
  OBVIOUS
<1>5. nf' = [nf EXCEPT ![n] = state] /\ pc' = [pc EXCEPT ![n] = label]
      /\ (state # "running" => label = "none")
  BY <1>1, <1>4
<1>6. Control' /\ n \in Thread /\ q[Pkts(n)] = <<>> /\ \A k \in Thread : k # n => pc'[k] = pc[k]
  BY <1>1, <1>2, <1>3, <1>5, Lives
<1>7. QED
  BY <1>1, <1>6, NoPackets

\* The status of an NF changes.
LEMMA MarkStoppedKeeps ==
    ASSUME PathInv, NEW n \in NfId, MarkStopped(n)
    PROVE  PathInv'
<1>1. /\ nf[n] # "running" /\ nf' = [nf EXCEPT ![n] = "stopped"]
      /\ UNCHANGED <<build, health, starts, pc, idx, to, q, free, lost>>
  BY DEF MarkStopped
<1>2. pc[n] \in {"none", "loop"} /\ pc' = [pc EXCEPT ![n] = "none"]
  BY <1>1, NoThread
<1>3. starts' \in 0 .. MaxStarts
  BY <1>1 DEF PathInv, Control, Scalars
<1>4. PICK state \in {"off", "running", "exited", "stopped", "drained"}, label \in {"none", "loop"} :
        state = "stopped" /\ label = "none"
  OBVIOUS
<1>5. nf' = [nf EXCEPT ![n] = state] /\ pc' = [pc EXCEPT ![n] = label]
      /\ (state # "running" => label = "none")
  BY <1>1, <1>2, <1>4
<1>6. Control' /\ n \in Thread /\ q[Pkts(n)] = <<>> /\ \A k \in Thread : k # n => pc'[k] = pc[k]
  BY <1>1, <1>2, <1>3, <1>5, Lives
<1>7. QED
  BY <1>1, <1>6, NoPackets

\* Queues that hold no batch are emptied.
LEMMA EmptyStep ==
    ASSUME PathInv, NEW n \in Thread, NEW X \in SUBSET Queue, Control',
           \A k : Pkts(k) \notin X, \A k \in Thread : k # n => pc'[k] = pc[k],
           q[Pkts(n)] = <<>>,
           q' = [x \in Queue |-> IF x \in X THEN <<>> ELSE q[x]],
           free' \cup lost' = On(X) \cup free \cup lost, free' \cap lost' = {}
    PROVE  PathInv'
<1>1. Sound(q, free, lost) /\ q \in [Queue -> Seq(Packet)]
  BY DEF PathInv, Sound
<1>2. q' \in [Queue -> Seq(Packet)] /\ Same(q, q', X) /\ \A x \in X : q'[x] = <<>>
  BY <1>1, EmptySeq DEF Same
<1>3. Sound(q', free', lost')
  <2>1. free' \cup lost' = UnionOf(q, X) \cup free \cup lost
    BY DEF On, UnionOf
  <2>2. QED
    BY <1>1, <1>2, <2>1, Emptied
<1>4. \A x \in X : Fits(x, Len(q'[x]))
  BY <1>2, EmptyFits, EmptyRange
<1>5. q'[Pkts(n)] = <<>>
  BY <1>2, Names, FirstNf DEF Same
<1>6. QED
  BY <1>2, <1>3, <1>4, <1>5, QueueStep

\* The packets on some queues are in no other place.
LEMMA Apart ==
    ASSUME PathInv, NEW X \in SUBSET Queue
    PROVE  /\ (free \cup On(X)) \cap lost = {} /\ free \cap (lost \cup On(X)) = {}
<1>1. \A x \in X : Range(q[x]) \cap free = {} /\ Range(q[x]) \cap lost = {}
  BY DEF PathInv, Sound
<1>2. free \cap lost = {}
  BY DEF PathInv, Sound
<1>3. \A p : p \in On(X) => \E x \in X : p \in Range(q[x])
  BY Zenon DEF On
<1>4. QED
  BY <1>1, <1>2, <1>3

\* An NF ends; what its buffers hold is lost.
LEMMA NfExitKeeps ==
    ASSUME PathInv, NEW n \in NfId, NfExit(n)
    PROVE  PathInv'
<1>1. PICK X : X = {Buf(n, d) : d \in NfId} \cup {Out(n), Kept(n)}
  OBVIOUS
<1>2. /\ pc[n] = "loop" /\ nf' = [nf EXCEPT ![n] = "exited"] /\ pc' = [pc EXCEPT ![n] = "none"]
      /\ UNCHANGED <<build, health, starts, idx, to, free>>
      /\ lost' = lost \cup On(X)
      /\ q' = [x \in Queue |-> IF x \in X THEN <<>> ELSE q[x]]
  BY <1>1 DEF NfExit, Goto
<1>3. X \in SUBSET Queue /\ \A k : Pkts(k) \notin X
  BY <1>1, Threads, Names, Distinct
<1>4. starts' \in 0 .. MaxStarts
  BY <1>2 DEF PathInv, Control, Scalars
<1>5. PICK state \in {"off", "running", "exited", "stopped", "drained"}, label \in {"none", "loop"} :
        state = "exited" /\ label = "none"
  OBVIOUS
<1>6. nf' = [nf EXCEPT ![n] = state] /\ pc' = [pc EXCEPT ![n] = label] /\ pc[n] \in {"none", "loop"}
      /\ (state # "running" => label = "none")
  BY <1>2, <1>5
<1>7. Control' /\ n \in Thread /\ q[Pkts(n)] = <<>> /\ \A k \in Thread : k # n => pc'[k] = pc[k]
  BY <1>2, <1>4, <1>6, Lives
<1>8. free' \cap lost' = {} /\ free' \cup lost' = On(X) \cup free \cup lost
  BY <1>2, <1>3, Apart
<1>9. QED
  BY <1>2, <1>3, <1>7, <1>8, EmptyStep

\* The manager drains the rings, and frees them with what is on them.
LEMMA RingsGoneKeeps ==
    ASSUME PathInv, NEW n \in NfId, DrainRings(n) \/ ClearRings(n)
    PROVE  PathInv'
<1>1. PICK x, y, X : x = RxQ(n) /\ y = TxQ(n) /\ X = {x, y}
  OBVIOUS
<1>2. X \in SUBSET Queue /\ x # y /\ x \in Queue /\ y \in Queue /\ \A k : Pkts(k) \notin X
  BY <1>1, Threads, Names, Distinct
<1>3. PICK state \in {"off", "running", "exited", "stopped", "drained"}, label \in {"none", "loop"} :
        /\ nf' = [nf EXCEPT ![n] = state] /\ label = "none" /\ nf[n] # "running"
        /\ state # "running"
  BY DEF DrainRings, ClearRings
<1>4. UNCHANGED <<build, health, starts, pc, idx, to>> /\ q' = [q EXCEPT ![x] = <<>>, ![y] = <<>>]
  BY <1>1 DEF DrainRings, ClearRings
<1>5. \/ free' = free \cup On(X) /\ lost' = lost
      \/ lost' = lost \cup On(X) /\ free' = free
  BY <1>1 DEF DrainRings, ClearRings
<1>6. pc[n] \in {"none", "loop"} /\ pc' = [pc EXCEPT ![n] = label]
  BY <1>3, <1>4, NoThread
<1>7. starts' \in 0 .. MaxStarts
  BY <1>4 DEF PathInv, Control, Scalars
<1>8. Control' /\ n \in Thread /\ q[Pkts(n)] = <<>> /\ \A k \in Thread : k # n => pc'[k] = pc[k]
  BY <1>3, <1>4, <1>6, <1>7, Lives
<1>9. q' = [z \in Queue |-> IF z \in X THEN <<>> ELSE q[z]]
  <2>1. q \in [Queue -> Seq(Packet)]
    BY DEF PathInv, Sound
  <2>2. QED
    BY <1>1, <1>2, <1>4, <2>1
<1>10. free' \cap lost' = {} /\ free' \cup lost' = On(X) \cup free \cup lost
  BY <1>2, <1>5, Apart
<1>11. QED
  BY <1>2, <1>8, <1>9, <1>10, EmptyStep

-----------------------------------------------------------------------------
(* The theorem *)

\* Every packet starts in the pool.
LEMMA PathInit ==
    ASSUME Init
    PROVE  PathInv
<1>1. Scalars
  <2>1. pc \in [Thread -> Places]
    BY DEF Init, Places
  <2>2. idx \in [Thread -> 1 .. NumIds + 1] /\ to \in [Thread -> NfId]
    BY Constants, FirstNf DEF Init
  <2>3. QED
    BY <2>1, <2>2, Constants DEF Init, Scalars
<1>2. Asleep
  BY Threads DEF Init, Asleep
<1>3. Taking
  BY Threads DEF Init, Taking
<1>4. Idle
  <2>1. \A m \in Thread : Pkts(m) \in Queue
    BY Names, FirstNf
  <2>2. QED
    BY <2>1 DEF Init, Idle
<1>5. q = [x \in Queue |-> <<>>] /\ free = Packet /\ lost = {}
  BY DEF Init
<1>6. \A x \in Queue : q[x] = <<>> /\ Range(q[x]) = {} /\ Once(q[x]) /\ Len(q[x]) = 0
  BY <1>5, EmptyRange
<1>7. Sound(q, free, lost)
  <2>1. q \in [Queue -> Seq(Packet)]
    BY <1>5, EmptySeq
  <2>2. QED
    BY <1>5, <1>6, <2>1 DEF Sound
<1>8. Bounded(q)
  BY <1>6, EmptyFits DEF Bounded
<1>9. QED
  BY <1>1, <1>2, <1>3, <1>4, <1>7, <1>8 DEF PathInv, Control

\* The invariant is kept by every step.
LEMMA PathNext ==
    ASSUME PathInv, [Next]_vars, TRUE \notin Keeping
    PROVE  PathInv'
<1>1. CASE UNCHANGED vars
  <2>1. Scalars' /\ Asleep' /\ Taking' /\ Idle'
    BY <1>1 DEF PathInv, Control, Scalars, Asleep, Taking, Idle, vars
  <2>2. Sound(q, free, lost)' /\ Bounded(q)'
    BY <1>1 DEF PathInv, vars
  <2>3. QED
    BY <2>1, <2>2 DEF PathInv, Control
<1>2. CASE RxThread
  BY <1>2, Threads, RxBurstKeeps, ProcessRxPacketKeeps, FlushStepsKeep DEF RxThread
<1>3. CASE TxThread
  BY <1>3, Threads, TxScanKeeps, TxTakeKeeps, ProcessPacketKeeps, FlushStepsKeep DEF TxThread
<1>4. ASSUME NEW n \in NfId, NfThread(n) PROVE PathInv'
  BY <1>4, Threads, NfTakeKeeps, ProcessPacketKeeps, FlushOutKeeps, FlushStepsKeep DEF NfThread
<1>5. ASSUME NEW n \in NfId, Manager(n) PROVE PathInv'
  BY <1>5, MarkStoppedKeeps, RingsGoneKeeps DEF Manager
<1>6. ASSUME NEW n \in NfId, NfLife(n) PROVE PathInv'
  BY <1>6, NfStartKeeps, NfExitKeeps, ReturnKeptKeeps DEF NfLife
<1>7. QED
  BY <1>1, <1>2, <1>3, <1>4, <1>5, <1>6 DEF Next, Corrupted

\* In such a state every packet has one owner.
LEMMA OneOwner ==
    ASSUME PathInv, NEW p \in Packet
    PROVE  Owners(p) = 1
<1> DEFINE H == {x \in Queue : p \in Range(q[x])}
<1>1. CASE p \in free \/ p \in lost
  <2>1. H = {}
    BY <1>1 DEF PathInv, Sound
  <2>2. Cardinality(H) = 0
    BY <2>1, FS_EmptySet
  <2>3. ~(p \in free /\ p \in lost)
    BY DEF PathInv, Sound
  <2>4. QED
    BY <1>1, <2>2, <2>3 DEF Owners
<1>2. CASE p \notin free /\ p \notin lost
  <2>1. PICK x \in Queue : p \in Range(q[x])
    BY <1>2 DEF PathInv, Sound
  <2>2. \A y \in Queue : p \in Range(q[y]) => y = x
    BY <2>1 DEF PathInv, Sound
  <2>3. H = {x}
    BY <2>1, <2>2
  <2>4. Cardinality(H) = 1
    BY <2>3, FS_Singleton
  <2>5. QED
    BY <1>2, <2>4 DEF Owners
<1>3. QED
  BY <1>1, <1>2

\* The invariant implies what the runs check.
LEMMA PathSafe ==
    ASSUME PathInv
    PROVE  PacketsSafe
<1>1. PacketsAccounted
  <2>1. \A x \in Queue : Cardinality(Range(q[x])) = Len(q[x])
    BY OnceCounts DEF PathInv, Sound
  <2>2. QED
    BY <2>1, OneOwner DEF PacketsAccounted
<1>2. DOMAIN q = Queue /\ free \subseteq Packet /\ lost \subseteq Packet
  BY DEF PathInv, Sound
<1>3. ASSUME NEW x \in Queue
      PROVE  /\ Range(q[x]) \subseteq Packet
             /\ x[1] \in {"nf_rx_bufs", "port_tx_bufs", "to_tx_buf", "pkts"} => Len(q[x]) <= ReadSize
             /\ x[1] \in {"rx_q", "tx_q"} => Len(q[x]) <= RingSize
  <2>1. q[x] \in Seq(Packet)
    BY DEF PathInv, Sound
  <2>2. Range(q[x]) \subseteq Packet /\ Len(q[x]) \in Nat
    BY <2>1, RangeSeq, LenProperties
  <2>3. PICK k : k = Len(q[x])
    OBVIOUS
  <2>4. Fits(x, k) /\ k \in Nat /\ ReadSize \in Nat
    BY <2>2, <2>3, Constants DEF PathInv, Bounded
  <2>5. k < ReadSize => k <= ReadSize
    BY <2>4
  <2>6. QED
    BY <2>2, <2>3, <2>4, <2>5 DEF Fits
<1>4. TypeOK
  <2>1. Scalars
    BY DEF PathInv, Control
  <2>2. QED
    BY <1>2, <1>3, <2>1 DEF Scalars, Places, TypeOK
<1>5. QED
  BY <1>1, <1>4 DEF PacketsSafe

\* While NFs start and stop and buffers and rings fill up, every mbuf has
\* exactly one owner - a ring, a buffer of a thread, the pool, or it is
\* given up at one of the places described - and no ring or buffer holds
\* more than its size; provided that handlers keep no packet in a build with
\* ONVM_NF_HANDLE_TX, in which onvm_nflib_dequeue_packets passes the whole
\* burst on.
THEOREM PacketsOwned == TRUE \notin Keeping => (Spec => []PacketsSafe)
<1> SUFFICES ASSUME TRUE \notin Keeping PROVE Spec => []PacketsSafe
  OBVIOUS
<1>1. Init => PathInv
  BY PathInit
<1>2. PathInv /\ [Next]_vars => PathInv'
  BY PathNext
<1>3. PathInv => PacketsSafe
  BY PathSafe
<1>4. QED
  BY <1>1, <1>2, <1>3, PTL DEF Spec
=============================================================================

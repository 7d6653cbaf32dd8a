-------------------------- MODULE AfxdpUmemProofs --------------------------
(***************************************************************************)
(* Proofs about AfxdpUmem for every number of frames and every ring size.  *)
(***************************************************************************)
EXTENDS AfxdpUmemOwner, SequenceTheorems, FiniteSetTheorems, TLAPS

Slot == 0 .. NumFrames
Rings == [Place -> Seq(Slot)]

\* A sequence cut after its first n entries.
LEMMA CutFacts ==
    ASSUME NEW S, NEW s \in Seq(S), NEW n \in Nat, n <= Len(s)
    PROVE  /\ SubSeq(s, n + 1, Len(s)) \in Seq(S)
           /\ Len(SubSeq(s, n + 1, Len(s))) = Len(s) - n
           /\ \A i \in 1 .. (Len(s) - n) : SubSeq(s, n + 1, Len(s))[i] = s[i + n]
           /\ SubSeq(s, 1, n) \in Seq(S)
           /\ Len(SubSeq(s, 1, n)) = n
           /\ \A i \in 1 .. n : SubSeq(s, 1, n)[i] = s[i]
<1>1. Len(s) \in Nat /\ \A i \in 1 .. Len(s) : s[i] \in S
  BY LenProperties, ElementOfSeq
<1>2. /\ SubSeq(s, n + 1, Len(s)) \in Seq(S)
      /\ Len(SubSeq(s, n + 1, Len(s))) = IF n + 1 <= Len(s) THEN Len(s) - (n + 1) + 1 ELSE 0
      /\ \A i \in 1 .. (Len(s) - (n + 1) + 1) : SubSeq(s, n + 1, Len(s))[i] = s[(n + 1) + i - 1]
  <2>1. \A i \in (n + 1) .. Len(s) : s[i] \in S
    BY <1>1
  <2>2. n + 1 \in Int /\ Len(s) \in Int
    BY <1>1
  <2> HIDE <1>1
  <2>3. QED
    BY <2>1, <2>2, SubSeqProperties
<1>3. /\ SubSeq(s, 1, n) \in Seq(S)
      /\ Len(SubSeq(s, 1, n)) = IF 1 <= n THEN n - 1 + 1 ELSE 0
      /\ \A i \in 1 .. (n - 1 + 1) : SubSeq(s, 1, n)[i] = s[1 + i - 1]
  <2>1. \A i \in 1 .. n : s[i] \in S
    BY <1>1
  <2>2. n \in Int /\ 1 \in Int
    OBVIOUS
  <2>3. QED
    BY <2>1, <2>2, SubSeqProperties
<1>4. QED
  BY <1>1, <1>2, <1>3

\* What Move does to lengths and entries: the head of a place is appended to
\* another one and nothing else changes.
LEMMA MoveFacts ==
    ASSUME NEW r \in Rings, NEW a \in Place, NEW b \in Place, a # b,
           NEW n \in Nat, n <= Len(r[a])
    PROVE  /\ Move(r, a, b, n) \in Rings
           /\ Len(Move(r, a, b, n)[a]) = Len(r[a]) - n
           /\ Len(Move(r, a, b, n)[b]) = Len(r[b]) + n
           /\ \A p \in Place \ {a, b} : Move(r, a, b, n)[p] = r[p]
           /\ \A i \in 1 .. (Len(r[a]) - n) : Move(r, a, b, n)[a][i] = r[a][i + n]
           /\ \A i \in 1 .. (Len(r[b]) + n) :
                  Move(r, a, b, n)[b][i] =
                      IF i <= Len(r[b]) THEN r[b][i] ELSE r[a][i - Len(r[b])]
<1> DEFINE rest == SubSeq(r[a], n + 1, Len(r[a]))
           head == SubSeq(r[a], 1, n)
<1>1. r[a] \in Seq(Slot) /\ r[b] \in Seq(Slot)
  BY DEF Rings
<1>2. /\ rest \in Seq(Slot) /\ Len(rest) = Len(r[a]) - n
      /\ \A i \in 1 .. (Len(r[a]) - n) : rest[i] = r[a][i + n]
  BY <1>1, CutFacts
<1>3. /\ head \in Seq(Slot) /\ Len(head) = n
      /\ \A i \in 1 .. n : head[i] = r[a][i]
  BY <1>1, CutFacts
<1> HIDE DEF rest, head
<1>4. /\ r[b] \o head \in Seq(Slot)
      /\ Len(r[b] \o head) = Len(r[b]) + n
      /\ \A i \in 1 .. (Len(r[b]) + n) :
             (r[b] \o head)[i] =
                 IF i <= Len(r[b]) THEN r[b][i] ELSE r[a][i - Len(r[b])]
  <2>1. Len(r[b]) \in Nat
    BY <1>1, LenProperties
  <2>2. /\ r[b] \o head \in Seq(Slot)
        /\ Len(r[b] \o head) = Len(r[b]) + Len(head)
        /\ \A i \in 1 .. (Len(r[b]) + Len(head)) :
               (r[b] \o head)[i] =
                   IF i <= Len(r[b]) THEN r[b][i] ELSE head[i - Len(r[b])]
    BY <1>1, <1>3, ConcatProperties
  <2>3. ASSUME NEW i \in 1 .. (Len(r[b]) + n), ~(i <= Len(r[b]))
        PROVE  head[i - Len(r[b])] = r[a][i - Len(r[b])]
    <3>1. i - Len(r[b]) \in 1 .. n
      BY <2>1, <2>3
    <3>2. QED
      BY <3>1, <1>3
  <2>4. QED
    BY <1>3, <2>1, <2>2, <2>3
<1>5. Move(r, a, b, n) = [p \in Place |-> IF p = a THEN rest
                                          ELSE IF p = b THEN r[b] \o head
                                          ELSE r[p]]
  BY DEF Rings, Move, rest, head
<1>6. QED
  BY <1>1, <1>2, <1>4, <1>5 DEF Rings

\* What Free does: the head of a place is pushed on the free list in reverse.
LEMMA FreeFacts ==
    ASSUME NEW r \in Rings, NEW a \in Place \ {"free"},
           NEW n \in Nat, n <= Len(r[a])
    PROVE  /\ Free(r, a, n) \in Rings
           /\ Len(Free(r, a, n)[a]) = Len(r[a]) - n
           /\ Len(Free(r, a, n)["free"]) = Len(r["free"]) + n
           /\ \A p \in Place \ {a, "free"} : Free(r, a, n)[p] = r[p]
           /\ \A i \in 1 .. (Len(r[a]) - n) : Free(r, a, n)[a][i] = r[a][i + n]
           /\ \A i \in 1 .. (n + Len(r["free"])) :
                  Free(r, a, n)["free"][i] =
                      IF i <= n THEN r[a][n + 1 - i] ELSE r["free"][i - n]
<1> DEFINE rest == SubSeq(r[a], n + 1, Len(r[a]))
           list == [i \in 1 .. (n + Len(r["free"])) |->
                       IF i <= n THEN r[a][n + 1 - i] ELSE r["free"][i - n]]
<1>1. r[a] \in Seq(Slot) /\ r["free"] \in Seq(Slot)
  BY DEF Rings, Place
<1>2. /\ rest \in Seq(Slot) /\ Len(rest) = Len(r[a]) - n
      /\ \A i \in 1 .. (Len(r[a]) - n) : rest[i] = r[a][i + n]
  BY <1>1, CutFacts
<1>3. /\ list \in Seq(Slot) /\ Len(list) = n + Len(r["free"])
  <2>1. \A i \in 1 .. (n + Len(r["free"])) :
            (IF i <= n THEN r[a][n + 1 - i] ELSE r["free"][i - n]) \in Slot
    BY <1>1, LenProperties, ElementOfSeq
  <2>2. n + Len(r["free"]) \in Nat
    BY <1>1, LenProperties
  <2>3. QED
    BY <2>1, <2>2
<1>4. Free(r, a, n) = [p \in Place |-> IF p = a THEN rest
                                       ELSE IF p = "free" THEN list
                                       ELSE r[p]]
  BY DEF Rings, Free, Place
<1>5. \A i \in 1 .. (n + Len(r["free"])) :
          list[i] = IF i <= n THEN r[a][n + 1 - i] ELSE r["free"][i - n]
  OBVIOUS
<1> HIDE DEF rest, list
<1>6. Free(r, a, n)[a] = rest /\ Free(r, a, n)["free"] = list
  BY <1>4 DEF Place
<1>7. Free(r, a, n) \in Rings
  BY <1>2, <1>3, <1>4 DEF Rings
<1>8. \A p \in Place \ {a, "free"} : Free(r, a, n)[p] = r[p]
  BY <1>4
<1>9. Len(list) = Len(r["free"]) + n
  <2>1. Len(r["free"]) \in Nat
    BY <1>1, LenProperties
  <2>2. QED
    BY <1>3, <2>1
<1>10. QED
  BY <1>2, <1>5, <1>6, <1>7, <1>8, <1>9

\* What AllocToFill does: frames leave the top of the free list for the fill
\* ring, and once the list is exhausted the sentinel is written instead.
LEMMA AllocFacts ==
    ASSUME NEW r \in Rings, NEW n \in Nat
    PROVE  LET m    == AllocToFill(r, n)
               got  == Lesser(n, Count(r, "free"))
               fill == Len(r["fill"])
           IN  /\ got \in Nat /\ got <= n /\ got <= Len(r["free"])
               /\ m \in Rings
               /\ Len(m["free"]) = Len(r["free"]) - got
               /\ Len(m["fill"]) = fill + n
               /\ \A p \in Place \ {"free", "fill"} : m[p] = r[p]
               /\ \A i \in 1 .. (Len(r["free"]) - got) : m["free"][i] = r["free"][i + got]
               /\ \A i \in 1 .. (fill + n) :
                      m["fill"][i] = IF i <= fill THEN r["fill"][i]
                                     ELSE IF i <= fill + got THEN r["free"][i - fill]
                                     ELSE Invalid
<1> DEFINE m    == AllocToFill(r, n)
           got  == Lesser(n, Count(r, "free"))
           fill == Len(r["fill"])
           mv   == Move(r, "free", "fill", got)
           pad  == [i \in 1 .. (n - got) |-> Invalid]
<1>1. r["free"] \in Seq(Slot) /\ r["fill"] \in Seq(Slot)
  BY DEF Rings, Place
<1>2. Len(r["free"]) \in Nat /\ fill \in Nat
  BY <1>1, LenProperties
<1>3. got \in Nat /\ got <= n /\ got <= Len(r["free"])
  BY <1>2 DEF Lesser, Count
<1> HIDE DEF got
<1>4. /\ mv \in Rings
      /\ Len(mv["free"]) = Len(r["free"]) - got
      /\ Len(mv["fill"]) = fill + got
      /\ \A p \in Place \ {"free", "fill"} : mv[p] = r[p]
      /\ \A i \in 1 .. (Len(r["free"]) - got) : mv["free"][i] = r["free"][i + got]
      /\ \A i \in 1 .. (fill + got) :
             mv["fill"][i] = IF i <= fill THEN r["fill"][i] ELSE r["free"][i - fill]
  BY <1>3, MoveFacts DEF Place
<1>5. NumFrames \in Nat
  BY SizeAssumption
<1>6. /\ pad \in Seq(Slot) /\ Len(pad) = n - got
      /\ \A i \in 1 .. (n - got) : pad[i] = Invalid
  <2>1. n - got \in Nat
    BY <1>3
  <2>2. QED
    BY <2>1, <1>5 DEF Invalid, Slot
<1>7. m = [mv EXCEPT !["fill"] = mv["fill"] \o pad]
  BY <1>4 DEF AllocToFill, got
<1> HIDE DEF mv, pad
<1>8. mv["fill"] \in Seq(Slot)
  BY <1>4 DEF Rings, Place
<1>9. /\ mv["fill"] \o pad \in Seq(Slot)
      /\ Len(mv["fill"] \o pad) = Len(mv["fill"]) + Len(pad)
      /\ \A i \in 1 .. (Len(mv["fill"]) + Len(pad)) :
             (mv["fill"] \o pad)[i] = IF i <= Len(mv["fill"]) THEN mv["fill"][i]
                                      ELSE pad[i - Len(mv["fill"])]
  BY <1>6, <1>8, ConcatProperties
<1>10. Len(mv["fill"]) + Len(pad) = fill + n
  BY <1>2, <1>3, <1>4, <1>6
<1>11. /\ m \in Rings
       /\ m["fill"] = mv["fill"] \o pad
       /\ \A p \in Place \ {"fill"} : m[p] = mv[p]
  BY <1>4, <1>7, <1>9 DEF Rings, Place
<1>12. ASSUME NEW i \in 1 .. (fill + n)
       PROVE  m["fill"][i] = IF i <= fill THEN r["fill"][i]
                             ELSE IF i <= fill + got THEN r["free"][i - fill]
                             ELSE Invalid
  <2>1. CASE i <= fill + got
    BY <2>1, <1>2, <1>3, <1>4, <1>9, <1>10, <1>11
  <2>2. CASE ~(i <= fill + got)
    <3>1. i - (fill + got) \in 1 .. (n - got)
      BY <2>2, <1>2, <1>3
    <3>2. pad[i - (fill + got)] = Invalid
      BY <3>1, <1>6
    <3>3. m["fill"][i] = pad[i - (fill + got)]
      BY <2>2, <1>4, <1>9, <1>10, <1>11
    <3>4. ~(i <= fill)
      BY <2>2, <1>2, <1>3
    <3>5. QED
      BY <2>2, <3>2, <3>3, <3>4
  <2>3. QED
    BY <2>1, <2>2
<1>13. "free" \in Place \ {"fill"}
  BY DEF Place
<1> HIDE DEF m
<1>14. QED
  BY <1>3, <1>4, <1>9, <1>10, <1>11, <1>12, <1>13 DEF m, got

-----------------------------------------------------------------------------
(* Exclusive and conserved frames, for any contents of the places *)

Exclusive(r) ==
    \A p, q \in Place : \A i \in 1 .. Len(r[p]), j \in 1 .. Len(r[q]) :
        r[p][i] = r[q][j] /\ r[p][i] # Invalid => p = q /\ i = j

Conserved(r) ==
    \A f \in Frame : \E p \in Place : \E i \in 1 .. Len(r[p]) : r[p][i] = f

\* Exclusive at two given entries.
LEMMA ExclusiveAt ==
    ASSUME NEW r, Exclusive(r), NEW p \in Place, NEW q \in Place,
           NEW i \in 1 .. Len(r[p]), NEW j \in 1 .. Len(r[q]),
           r[p][i] = r[q][j], r[p][i] # Invalid
    PROVE  p = q /\ i = j
BY DEF Exclusive

\* An entry of Move(r, a, b, n) is an entry of r; the entry it was is given by
\* <<oa, oi>> and determines where it is now.
LEMMA MoveExclusive ==
    ASSUME NEW r \in Rings, NEW a \in Place, NEW b \in Place, a # b,
           NEW n \in Nat, n <= Len(r[a]), Exclusive(r)
    PROVE  Exclusive(Move(r, a, b, n))
<1> DEFINE m == Move(r, a, b, n)
           place(p, i) == IF p = b /\ i > Len(r[b]) THEN a ELSE p
           index(p, i) == IF p = a THEN i + n
                          ELSE IF p = b /\ i > Len(r[b]) THEN i - Len(r[b])
                          ELSE i
<1>1. \A p \in Place : Len(r[p]) \in Nat
  BY LenProperties DEF Rings
<1>2. /\ Len(m[a]) = Len(r[a]) - n
      /\ Len(m[b]) = Len(r[b]) + n
      /\ \A p \in Place \ {a, b} : m[p] = r[p]
      /\ \A i \in 1 .. (Len(r[a]) - n) : m[a][i] = r[a][i + n]
      /\ \A i \in 1 .. (Len(r[b]) + n) :
             m[b][i] = IF i <= Len(r[b]) THEN r[b][i] ELSE r[a][i - Len(r[b])]
  BY MoveFacts
<1> HIDE DEF m
<1>3. ASSUME NEW p \in Place, NEW i \in 1 .. Len(m[p])
      PROVE  /\ place(p, i) \in Place /\ index(p, i) \in 1 .. Len(r[place(p, i)])
             /\ m[p][i] = r[place(p, i)][index(p, i)]
  <2>1. CASE p = a
    BY <2>1, <1>1, <1>2
  <2>2. CASE p = b
    BY <2>2, <1>1, <1>2
  <2>3. CASE p \notin {a, b}
    BY <2>3, <1>1, <1>2
  <2>4. QED
    BY <2>1, <2>2, <2>3
<1>4. ASSUME NEW p \in Place, NEW q \in Place,
             NEW i \in 1 .. Len(m[p]), NEW j \in 1 .. Len(m[q]),
             m[p][i] = m[q][j], m[p][i] # Invalid
      PROVE  p = q /\ i = j
  <2>1. place(p, i) = place(q, j) /\ index(p, i) = index(q, j)
    <3>1. /\ place(p, i) \in Place /\ index(p, i) \in 1 .. Len(r[place(p, i)])
          /\ m[p][i] = r[place(p, i)][index(p, i)]
      BY <1>3, <1>4
    <3>2. /\ place(q, j) \in Place /\ index(q, j) \in 1 .. Len(r[place(q, j)])
          /\ m[q][j] = r[place(q, j)][index(q, j)]
      BY <1>3, <1>4
    <3> HIDE DEF place, index
    <3>3. /\ r[place(p, i)][index(p, i)] = r[place(q, j)][index(q, j)]
          /\ r[place(p, i)][index(p, i)] # Invalid
      BY <3>1, <3>2, <1>4
    <3>4. QED
      BY <3>1, <3>2, <3>3, ExclusiveAt
  <2>2. CASE p = a
    BY <2>1, <2>2, <1>1, <1>2
  <2>3. CASE p = b
    BY <2>1, <2>3, <1>1, <1>2
  <2>4. CASE p \notin {a, b}
    BY <2>1, <2>4, <1>1, <1>2
  <2>5. QED
    BY <2>2, <2>3, <2>4
<1>5. QED
  BY <1>4 DEF Exclusive, m

\* Moving frames loses none.
LEMMA MoveConserved ==
    ASSUME NEW r \in Rings, NEW a \in Place, NEW b \in Place, a # b,
           NEW n \in Nat, n <= Len(r[a]), Conserved(r)
    PROVE  Conserved(Move(r, a, b, n))
<1> DEFINE m == Move(r, a, b, n)
<1>1. \A p \in Place : Len(r[p]) \in Nat
  BY LenProperties DEF Rings
<1>2. /\ Len(m[a]) = Len(r[a]) - n
      /\ Len(m[b]) = Len(r[b]) + n
      /\ \A p \in Place \ {a, b} : m[p] = r[p]
      /\ \A i \in 1 .. (Len(r[a]) - n) : m[a][i] = r[a][i + n]
      /\ \A i \in 1 .. (Len(r[b]) + n) :
             m[b][i] = IF i <= Len(r[b]) THEN r[b][i] ELSE r[a][i - Len(r[b])]
  BY MoveFacts
<1> HIDE DEF m
<1>3. ASSUME NEW f \in Frame
      PROVE  \E p \in Place : \E i \in 1 .. Len(m[p]) : m[p][i] = f
  <2>1. PICK p \in Place : \E i \in 1 .. Len(r[p]) : r[p][i] = f
    BY DEF Conserved
  <2>i. PICK i \in 1 .. Len(r[p]) : r[p][i] = f
    BY <2>1
  <2>2. CASE p = a /\ i <= n
    <3> DEFINE k == Len(r[b]) + i
    <3>1. k \in 1 .. (Len(r[b]) + n) /\ ~(k <= Len(r[b])) /\ k - Len(r[b]) = i
      BY <2>i, <2>2, <1>1
    <3> HIDE DEF k
    <3>2. m[b][k] = f
      BY <3>1, <2>i, <2>2, <1>2
    <3>3. QED
      BY <3>1, <3>2, <1>2
  <2>3. CASE p = a /\ ~(i <= n)
    <3>1. i - n \in 1 .. Len(m[a]) /\ m[a][i - n] = f
      BY <2>i, <2>3, <1>1, <1>2
    <3>2. QED
      BY <3>1
  <2>4. CASE p = b
    <3>1. i \in 1 .. (Len(r[b]) + n) /\ i <= Len(r[b])
      BY <2>i, <2>4, <1>1
    <3>2. m[b][i] = f
      BY <3>1, <2>i, <2>4, <1>2
    <3>3. QED
      BY <3>1, <3>2, <1>2
  <2>5. CASE p \notin {a, b}
    <3>1. m[p] = r[p]
      BY <2>5, <1>2
    <3>2. QED
      BY <3>1, <2>i
  <2>6. QED
    BY <2>2, <2>3, <2>4, <2>5
<1>4. QED
  BY <1>3 DEF Conserved, m

\* The same two facts about freeing ...
LEMMA FreeExclusive ==
    ASSUME NEW r \in Rings, NEW a \in Place \ {"free"},
           NEW n \in Nat, n <= Len(r[a]), Exclusive(r)
    PROVE  Exclusive(Free(r, a, n))
<1> DEFINE m == Free(r, a, n)
           place(p, i) == IF p = "free" /\ i <= n THEN a ELSE p
           index(p, i) == IF p = a THEN i + n
                          ELSE IF p = "free"
                               THEN IF i <= n THEN n + 1 - i ELSE i - n
                          ELSE i
<1>0. "free" \in Place
  BY DEF Place
<1>1. \A p \in Place : Len(r[p]) \in Nat
  BY LenProperties DEF Rings
<1>2. /\ Len(m[a]) = Len(r[a]) - n
      /\ Len(m["free"]) = Len(r["free"]) + n
      /\ \A p \in Place \ {a, "free"} : m[p] = r[p]
      /\ \A i \in 1 .. (Len(r[a]) - n) : m[a][i] = r[a][i + n]
      /\ \A i \in 1 .. (n + Len(r["free"])) :
             m["free"][i] = IF i <= n THEN r[a][n + 1 - i] ELSE r["free"][i - n]
  BY FreeFacts
<1> HIDE DEF m
<1>3. ASSUME NEW p \in Place, NEW i \in 1 .. Len(m[p])
      PROVE  /\ place(p, i) \in Place /\ index(p, i) \in 1 .. Len(r[place(p, i)])
             /\ m[p][i] = r[place(p, i)][index(p, i)]
  <2>1. CASE p = a
    BY <2>1, <1>1, <1>2
  <2>2. CASE p = "free"
    BY <2>2, <1>1, <1>2
  <2>3. CASE p \notin {a, "free"}
    BY <2>3, <1>1, <1>2
  <2>4. QED
    BY <2>1, <2>2, <2>3
<1>4. ASSUME NEW p \in Place, NEW q \in Place,
             NEW i \in 1 .. Len(m[p]), NEW j \in 1 .. Len(m[q]),
             m[p][i] = m[q][j], m[p][i] # Invalid
      PROVE  p = q /\ i = j
  <2>1. place(p, i) = place(q, j) /\ index(p, i) = index(q, j)
    <3>1. /\ place(p, i) \in Place /\ index(p, i) \in 1 .. Len(r[place(p, i)])
          /\ m[p][i] = r[place(p, i)][index(p, i)]
      BY <1>3, <1>4
    <3>2. /\ place(q, j) \in Place /\ index(q, j) \in 1 .. Len(r[place(q, j)])
          /\ m[q][j] = r[place(q, j)][index(q, j)]
      BY <1>3, <1>4
    <3> HIDE DEF place, index
    <3>3. /\ r[place(p, i)][index(p, i)] = r[place(q, j)][index(q, j)]
          /\ r[place(p, i)][index(p, i)] # Invalid
      BY <3>1, <3>2, <1>4
    <3>4. QED
      BY <3>1, <3>2, <3>3, ExclusiveAt
  <2>2. CASE p = a
    BY <2>1, <2>2, <1>0, <1>1, <1>2
  <2>3. CASE p = "free"
    BY <2>1, <2>3, <1>0, <1>1, <1>2
  <2>4. CASE p \notin {a, "free"}
    BY <2>1, <2>4, <1>0, <1>1, <1>2
  <2>5. QED
    BY <2>2, <2>3, <2>4
<1>5. QED
  BY <1>4 DEF Exclusive, m

\* umem_free_frame keeps every frame in one place.
LEMMA FreeConserved ==
    ASSUME NEW r \in Rings, NEW a \in Place \ {"free"},
           NEW n \in Nat, n <= Len(r[a]), Conserved(r)
    PROVE  Conserved(Free(r, a, n))
<1> DEFINE m == Free(r, a, n)
<1>0. "free" \in Place
  BY DEF Place
<1>1. \A p \in Place : Len(r[p]) \in Nat
  BY LenProperties DEF Rings
<1>2. /\ Len(m[a]) = Len(r[a]) - n
      /\ Len(m["free"]) = Len(r["free"]) + n
      /\ \A p \in Place \ {a, "free"} : m[p] = r[p]
      /\ \A i \in 1 .. (Len(r[a]) - n) : m[a][i] = r[a][i + n]
      /\ \A i \in 1 .. (n + Len(r["free"])) :
             m["free"][i] = IF i <= n THEN r[a][n + 1 - i] ELSE r["free"][i - n]
  BY FreeFacts
<1> HIDE DEF m
<1>3. ASSUME NEW f \in Frame
      PROVE  \E p \in Place : \E i \in 1 .. Len(m[p]) : m[p][i] = f
  <2>1. PICK p \in Place : \E i \in 1 .. Len(r[p]) : r[p][i] = f
    BY DEF Conserved
  <2>i. PICK i \in 1 .. Len(r[p]) : r[p][i] = f
    BY <2>1
  <2>2. CASE p = a /\ i <= n
    <3> DEFINE k == n + 1 - i
    <3>1. k \in 1 .. (n + Len(r["free"])) /\ k <= n /\ n + 1 - k = i
      BY <2>i, <2>2, <1>0, <1>1
    <3> HIDE DEF k
    <3>2. m["free"][k] = f
      BY <3>1, <2>i, <2>2, <1>2
    <3>3. k \in 1 .. Len(m["free"])
      BY <3>1, <1>0, <1>1, <1>2
    <3>4. QED
      BY <3>2, <3>3, <1>0
  <2>3. CASE p = a /\ ~(i <= n)
    <3>1. i - n \in 1 .. Len(m[a]) /\ m[a][i - n] = f
      BY <2>i, <2>3, <1>1, <1>2
    <3>2. QED
      BY <3>1
  <2>4. CASE p = "free"
    <3> DEFINE k == n + i
    <3>1. k \in 1 .. (n + Len(r["free"])) /\ ~(k <= n) /\ k - n = i
      BY <2>i, <2>4, <1>0, <1>1
    <3> HIDE DEF k
    <3>2. m["free"][k] = f
      BY <3>1, <2>i, <2>4, <1>2
    <3>3. k \in 1 .. Len(m["free"])
      BY <3>1, <1>0, <1>1, <1>2
    <3>4. QED
      BY <3>2, <3>3, <1>0
  <2>5. CASE p \notin {a, "free"}
    BY <2>i, <2>5, <1>1, <1>2
  <2>6. QED
    BY <2>2, <2>3, <2>4, <2>5
<1>4. QED
  BY <1>3 DEF Conserved, m

\* ... and about refilling: the sentinel is not a frame.
LEMMA AllocExclusive ==
    ASSUME NEW r \in Rings, NEW n \in Nat, Exclusive(r)
    PROVE  Exclusive(AllocToFill(r, n))
<1> DEFINE m    == AllocToFill(r, n)
           got  == Lesser(n, Count(r, "free"))
           fill == Len(r["fill"])
           place(p, i) == IF p = "fill" /\ i > fill THEN "free" ELSE p
           index(p, i) == IF p = "free" THEN i + got
                          ELSE IF p = "fill" /\ i > fill THEN i - fill
                          ELSE i
<1>0. "free" \in Place /\ "fill" \in Place
  BY DEF Place
<1>1. \A p \in Place : Len(r[p]) \in Nat
  BY LenProperties DEF Rings
<1>2. /\ got \in Nat /\ got <= n /\ got <= Len(r["free"])
      /\ Len(m["free"]) = Len(r["free"]) - got
      /\ Len(m["fill"]) = fill + n
      /\ \A p \in Place \ {"free", "fill"} : m[p] = r[p]
      /\ \A i \in 1 .. (Len(r["free"]) - got) : m["free"][i] = r["free"][i + got]
      /\ \A i \in 1 .. (fill + n) :
             m["fill"][i] = IF i <= fill THEN r["fill"][i]
                            ELSE IF i <= fill + got THEN r["free"][i - fill]
                            ELSE Invalid
  BY AllocFacts
<1> HIDE DEF m, got
<1>3. ASSUME NEW p \in Place, NEW i \in 1 .. Len(m[p]), m[p][i] # Invalid
      PROVE  /\ place(p, i) \in Place /\ index(p, i) \in 1 .. Len(r[place(p, i)])
             /\ m[p][i] = r[place(p, i)][index(p, i)]
  <2>1. CASE p = "free"
    BY <2>1, <1>0, <1>1, <1>2
  <2>2. CASE p = "fill"
    <3>1. CASE i <= fill
      BY <2>2, <3>1, <1>0, <1>1, <1>2
    <3>2. CASE ~(i <= fill)
      <4>1. i \in 1 .. (fill + n)
        BY <2>2, <1>2
      <4>2. i <= fill + got /\ m["fill"][i] = r["free"][i - fill]
        BY <2>2, <3>2, <4>1, <1>2, <1>3
      <4>3. i - fill \in 1 .. Len(r["free"])
        BY <3>2, <4>1, <4>2, <1>0, <1>1, <1>2
      <4>4. QED
        BY <2>2, <3>2, <4>1, <4>2, <4>3, <1>0, <1>1
    <3>3. QED
      BY <3>1, <3>2
  <2>3. CASE p \notin {"free", "fill"}
    BY <2>3, <1>1, <1>2
  <2>4. QED
    BY <2>1, <2>2, <2>3
<1>4. ASSUME NEW p \in Place, NEW q \in Place,
             NEW i \in 1 .. Len(m[p]), NEW j \in 1 .. Len(m[q]),
             m[p][i] = m[q][j], m[p][i] # Invalid
      PROVE  p = q /\ i = j
  <2>1. place(p, i) = place(q, j) /\ index(p, i) = index(q, j)
    <3>1. /\ place(p, i) \in Place /\ index(p, i) \in 1 .. Len(r[place(p, i)])
          /\ m[p][i] = r[place(p, i)][index(p, i)]
      BY <1>3, <1>4
    <3>2. /\ place(q, j) \in Place /\ index(q, j) \in 1 .. Len(r[place(q, j)])
          /\ m[q][j] = r[place(q, j)][index(q, j)]
      BY <1>3, <1>4
    <3> HIDE DEF place, index
    <3>3. /\ r[place(p, i)][index(p, i)] = r[place(q, j)][index(q, j)]
          /\ r[place(p, i)][index(p, i)] # Invalid
      BY <3>1, <3>2, <1>4
    <3>4. QED
      BY <3>1, <3>2, <3>3, ExclusiveAt
  <2>2. (p = "fill" => i <= fill + got) /\ (q = "fill" => j <= fill + got)
    <3>1. ASSUME NEW k \in 1 .. Len(m["fill"]), m["fill"][k] # Invalid
          PROVE  k <= fill + got
      BY <3>1, <1>0, <1>1, <1>2
    <3>2. QED
      BY <3>1, <1>4
  <2>3. CASE p = "free"
    BY <2>1, <2>2, <2>3, <1>0, <1>1, <1>2
  <2>4. CASE p = "fill"
    BY <2>1, <2>2, <2>4, <1>0, <1>1, <1>2
  <2>5. CASE p \notin {"free", "fill"}
    BY <2>1, <2>5, <1>0, <1>1, <1>2
  <2>6. QED
    BY <2>3, <2>4, <2>5
<1>5. QED
  BY <1>4 DEF Exclusive, m

\* Filling the fill ring keeps every frame in one place.
LEMMA AllocConserved ==
    ASSUME NEW r \in Rings, NEW n \in Nat, Conserved(r)
    PROVE  Conserved(AllocToFill(r, n))
<1> DEFINE m    == AllocToFill(r, n)
           got  == Lesser(n, Count(r, "free"))
           fill == Len(r["fill"])
<1>0. "free" \in Place /\ "fill" \in Place
  BY DEF Place
<1>1. \A p \in Place : Len(r[p]) \in Nat
  BY LenProperties DEF Rings
<1>2. /\ got \in Nat /\ got <= n /\ got <= Len(r["free"])
      /\ Len(m["free"]) = Len(r["free"]) - got
      /\ Len(m["fill"]) = fill + n
      /\ \A p \in Place \ {"free", "fill"} : m[p] = r[p]
      /\ \A i \in 1 .. (Len(r["free"]) - got) : m["free"][i] = r["free"][i + got]
      /\ \A i \in 1 .. (fill + n) :
             m["fill"][i] = IF i <= fill THEN r["fill"][i]
                            ELSE IF i <= fill + got THEN r["free"][i - fill]
                            ELSE Invalid
  BY AllocFacts
<1> HIDE DEF m, got
<1>3. ASSUME NEW f \in Frame
      PROVE  \E p \in Place : \E i \in 1 .. Len(m[p]) : m[p][i] = f
  <2>1. PICK p \in Place : \E i \in 1 .. Len(r[p]) : r[p][i] = f
    BY DEF Conserved
  <2>i. PICK i \in 1 .. Len(r[p]) : r[p][i] = f
    BY <2>1
  <2>2. CASE p = "free" /\ i <= got
    <3> DEFINE k == fill + i
    <3>1. k \in 1 .. (fill + n) /\ ~(k <= fill) /\ k <= fill + got /\ k - fill = i
      BY <2>i, <2>2, <1>0, <1>1, <1>2
    <3> HIDE DEF k
    <3>2. m["fill"][k] = f
      BY <3>1, <2>i, <2>2, <1>2
    <3>3. k \in 1 .. Len(m["fill"])
      BY <3>1, <1>0, <1>1, <1>2
    <3>4. QED
      BY <3>2, <3>3, <1>0
  <2>3. CASE p = "free" /\ ~(i <= got)
    <3>1. i - got \in 1 .. Len(m["free"]) /\ m["free"][i - got] = f
      BY <2>i, <2>3, <1>0, <1>1, <1>2
    <3>2. QED
      BY <3>1, <1>0
  <2>4. CASE p = "fill"
    <3>1. i \in 1 .. Len(m["fill"]) /\ m["fill"][i] = f
      BY <2>i, <2>4, <1>0, <1>1, <1>2
    <3>2. QED
      BY <3>1, <1>0
  <2>5. CASE p \notin {"free", "fill"}
    BY <2>i, <2>5, <1>1, <1>2
  <2>6. QED
    BY <2>2, <2>3, <2>4, <2>5
<1>4. QED
  BY <1>3 DEF Conserved, m

-----------------------------------------------------------------------------
(* The same facts as counts, for the arithmetic of the steps *)

\* What a Move of n frames does to the counts, and that frames stay exclusive
\* and conserved.
LEMMA MoveCounts ==
    ASSUME NEW r \in Rings, NEW a \in Place, NEW b \in Place, a # b,
           NEW n \in Nat, n <= Count(r, a)
    PROVE  /\ Move(r, a, b, n) \in Rings
           /\ Count(Move(r, a, b, n), a) = Count(r, a) - n
           /\ Count(Move(r, a, b, n), b) = Count(r, b) + n
           /\ \A p \in Place \ {a, b} : Count(Move(r, a, b, n), p) = Count(r, p)
           /\ Exclusive(r) => Exclusive(Move(r, a, b, n))
           /\ Conserved(r) => Conserved(Move(r, a, b, n))
BY MoveFacts, MoveExclusive, MoveConserved DEF Count

\* The same for frames that are freed ...
LEMMA FreeCounts ==
    ASSUME NEW r \in Rings, NEW a \in Place \ {"free"},
           NEW n \in Nat, n <= Count(r, a)
    PROVE  /\ Free(r, a, n) \in Rings
           /\ Count(Free(r, a, n), a) = Count(r, a) - n
           /\ Count(Free(r, a, n), "free") = Count(r, "free") + n
           /\ \A p \in Place \ {a, "free"} : Count(Free(r, a, n), p) = Count(r, p)
           /\ Exclusive(r) => Exclusive(Free(r, a, n))
           /\ Conserved(r) => Conserved(Free(r, a, n))
BY FreeFacts, FreeExclusive, FreeConserved DEF Count

\* ... and for a refill, which takes no more than the free list has.
LEMMA AllocCounts ==
    ASSUME NEW r \in Rings, NEW n \in Nat
    PROVE  /\ AllocToFill(r, n) \in Rings
           /\ Count(AllocToFill(r, n), "free") = Count(r, "free") - Lesser(n, Count(r, "free"))
           /\ Count(AllocToFill(r, n), "fill") = Count(r, "fill") + n
           /\ \A p \in Place \ {"free", "fill"} :
                  Count(AllocToFill(r, n), p) = Count(r, p)
           /\ Exclusive(r) => Exclusive(AllocToFill(r, n))
           /\ Conserved(r) => Conserved(AllocToFill(r, n))
<1>1. /\ AllocToFill(r, n) \in Rings
      /\ Len(AllocToFill(r, n)["free"]) = Len(r["free"]) - Lesser(n, Count(r, "free"))
      /\ Len(AllocToFill(r, n)["fill"]) = Len(r["fill"]) + n
      /\ \A p \in Place \ {"free", "fill"} : AllocToFill(r, n)[p] = r[p]
  BY AllocFacts
<1>2. QED
  BY <1>1, AllocExclusive, AllocConserved DEF Count

-----------------------------------------------------------------------------
(* The inductive invariant *)

\* Where the RX thread is fixes how many peeked entries the batch still holds.
BatchLength ==
    IF pc \in {"stock", "refill", "reserve", "bounce"} THEN rcvd
    ELSE IF pc = "release" THEN rcvd - toTx
    ELSE 0

\* What the local variables of the thread promise at each step, the bounds of
\* the rings and the exact count of outstanding transmissions.
ThreadInv ==
    /\ RingsBounded
    /\ OutstandingExact
    /\ Count(ring, "kheld") <= KHold
    /\ seen <= Count(ring, "rx")
    /\ Count(ring, "batch") = BatchLength
    /\ pc \in {"loop", "drain", "peek"} => rcvd = 0
    /\ pc = "refill" => stock <= FillSize - Count(ring, "fill")
    /\ pc = "bounce" => toTx <= TxSize - Count(ring, "tx")
    /\ pc \in {"bounce", "release"} => toTx <= rcvd

FrameInv == Exclusive(ring) /\ Conserved(ring)

IInv == TypeOK /\ ThreadInv /\ FrameInv

CountsNat(r) ==
    /\ Count(r, "free") \in Nat /\ Count(r, "fill") \in Nat
    /\ Count(r, "kheld") \in Nat /\ Count(r, "rx") \in Nat
    /\ Count(r, "batch") \in Nat /\ Count(r, "tx") \in Nat
    /\ Count(r, "infl") \in Nat /\ Count(r, "comp") \in Nat

\* The length of every ring is a natural number.
LEMMA RingsCounts ==
    ASSUME NEW r \in Rings PROVE CountsNat(r)
<1>1. \A p \in Place : Count(r, p) \in Nat
  BY LenProperties DEF Rings, Count
<1>2. QED
  BY <1>1 DEF Place, CountsNat

\* The ranges that the step-by-step proofs compute with.
LEMMA Ranges ==
    ASSUME TypeOK
    PROVE  /\ ring \in Rings /\ CountsNat(ring)
           /\ seen \in Nat /\ rcvd \in Nat /\ stock \in Nat /\ toTx \in Nat
           /\ outstanding \in Nat
<1>1. ring \in Rings
  BY DEF TypeOK, Rings, Slot
<1>2. QED
  BY <1>1, RingsCounts DEF TypeOK

\* What the proofs need to know of the constants.
LEMMA Sizes ==
    /\ NumFrames \in Nat \ {0} /\ FillSize \in Nat \ {0} /\ RxSize \in Nat \ {0}
    /\ TxSize \in Nat \ {0} /\ CompSize \in Nat \ {0} /\ BatchSize \in Nat \ {0}
    /\ KHold \in Nat \ {0} /\ FillSize <= NumFrames
BY SizeAssumption

\* afxdp_configure_socket leaves the pool in order.
LEMMA InitIInv == Init => IInv
<1> SUFFICES ASSUME Init PROVE IInv
  OBVIOUS
<1> DEFINE all == [i \in 1 .. NumFrames |-> NumFrames - i]
           r0  == [p \in Place |-> IF p = "free" THEN all ELSE <<>>]
<1>1. all \in Seq(Slot) /\ Len(all) = NumFrames
  BY Sizes DEF Slot
<1>2. <<>> \in Seq(Slot) /\ Len(<<>>) = 0
  BY EmptySeq
<1>3. r0 \in Rings /\ r0["free"] = all /\ \A p \in Place \ {"free"} : r0[p] = <<>>
  BY <1>1, <1>2 DEF Rings, Place
<1>4. Exclusive(r0)
  <2>1. ASSUME NEW p \in Place, NEW q \in Place,
               NEW i \in 1 .. Len(r0[p]), NEW j \in 1 .. Len(r0[q]),
               r0[p][i] = r0[q][j]
        PROVE  p = q /\ i = j
    <3>1. p = "free" /\ q = "free"
      BY <1>2, <1>3
    <3>2. i \in 1 .. NumFrames /\ j \in 1 .. NumFrames /\ all[i] = all[j]
      BY <1>1, <1>3, <2>1, <3>1
    <3>3. NumFrames - i = NumFrames - j
      BY <3>2
    <3>4. QED
      BY <3>1, <3>2, <3>3, Sizes
  <2> HIDE DEF r0
  <2>2. QED
    BY <2>1 DEF Exclusive
<1>5. Conserved(r0)
  <2>1. ASSUME NEW f \in Frame
        PROVE  \E i \in 1 .. Len(r0["free"]) : r0["free"][i] = f
    <3>1. NumFrames - f \in 1 .. NumFrames /\ all[NumFrames - f] = f
      BY Sizes DEF Frame
    <3>2. QED
      BY <1>1, <1>3, <3>1
  <2>2. QED
    BY <2>1 DEF Conserved, Place
<1>6. ring = AllocToFill(r0, FillSize)
  BY DEF Init
<1>7. \A p \in Place \ {"free"} : Count(r0, p) = 0
  BY <1>2, <1>3 DEF Count
<1> HIDE DEF r0, all
<1>8. /\ ring \in Rings
      /\ Count(ring, "fill") = Count(r0, "fill") + FillSize
      /\ \A p \in Place \ {"free", "fill"} : Count(ring, p) = Count(r0, p)
      /\ Exclusive(ring) /\ Conserved(ring)
  BY <1>3, <1>4, <1>5, <1>6, Sizes, AllocCounts
<1>9. /\ Count(ring, "fill") = FillSize
      /\ Count(ring, "kheld") = 0 /\ Count(ring, "rx") = 0 /\ Count(ring, "batch") = 0
      /\ Count(ring, "tx") = 0 /\ Count(ring, "infl") = 0 /\ Count(ring, "comp") = 0
  BY <1>7, <1>8, Sizes DEF Place
<1>10. /\ pc = "loop" /\ kicked \in BOOLEAN
       /\ seen = 0 /\ rcvd = 0 /\ stock = 0 /\ toTx = 0 /\ outstanding = 0
  BY DEF Init
<1>11. TypeOK
  BY <1>8, <1>10 DEF TypeOK, Rings, Slot
<1>12. ThreadInv
  BY <1>9, <1>10, Sizes
     DEF ThreadInv, RingsBounded, OutstandingExact, BatchLength
<1>13. QED
  BY <1>8, <1>11, <1>12 DEF IInv, FrameInv

\* A pass of the RX thread, one step at a time.
LEMMA RxThreadIInv ==
    ASSUME IInv, RxThread
    PROVE  IInv'
<1> USE DEF IInv, FrameInv
<1>1. /\ ring \in Rings /\ CountsNat(ring)
      /\ seen \in Nat /\ rcvd \in Nat /\ stock \in Nat /\ toTx \in Nat
      /\ outstanding \in Nat
  BY Ranges
<1>2. kicked \in BOOLEAN
  BY DEF TypeOK
<1>3. CASE EnterPass
  <2>1. ring' = ring /\ kicked' \in BOOLEAN /\ pc' \in {"peek", "drain"} /\ pc = "loop"
    BY <1>2, <1>3 DEF EnterPass
  <2>2. TypeOK'
    BY <1>3, <2>1 DEF EnterPass, TypeOK
  <2>3. ThreadInv'
    BY <1>3, <2>1 DEF EnterPass, ThreadInv, RingsBounded, OutstandingExact, BatchLength
  <2>4. QED
    BY <2>1, <2>2, <2>3
<1>4. CASE DrainCompletions
  <2> DEFINE n == Count(ring, "comp")
  <2>1. /\ ring' = Free(ring, "comp", n) /\ outstanding' = outstanding - Lesser(n, outstanding)
        /\ kicked' \in BOOLEAN /\ pc = "drain" /\ pc' = "peek"
        /\ UNCHANGED <<seen, rcvd, stock, toTx>>
    BY <1>4 DEF DrainCompletions
  <2>2. n \in Nat /\ n <= outstanding
    BY <1>1 DEF ThreadInv, OutstandingExact, CountsNat
  <2>3. outstanding' = outstanding - n
    BY <2>1, <2>2 DEF Lesser
  <2>4. /\ ring' \in Rings
        /\ Count(ring', "comp") = Count(ring, "comp") - n
        /\ \A p \in Place \ {"comp", "free"} : Count(ring', p) = Count(ring, p)
        /\ FrameInv'
    BY <1>1, <2>1, <2>2, FreeCounts DEF Place
  <2>5. /\ Count(ring', "comp") = 0
        /\ Count(ring', "fill") = Count(ring, "fill") /\ Count(ring', "kheld") = Count(ring, "kheld")
        /\ Count(ring', "rx") = Count(ring, "rx") /\ Count(ring', "batch") = Count(ring, "batch")
        /\ Count(ring', "tx") = Count(ring, "tx") /\ Count(ring', "infl") = Count(ring, "infl")
    BY <2>2, <2>4 DEF Place
  <2>6. TypeOK'
    BY <1>1, <2>1, <2>2, <2>3, <2>4 DEF TypeOK, Rings, Slot
  <2> HIDE DEF n
  <2>n. n = Count(ring, "comp")
    BY DEF n
  <2>7. ThreadInv'
    <3>1. OutstandingExact'
      BY <1>1, <2>3, <2>5, <2>n DEF ThreadInv, OutstandingExact, CountsNat
    <3>2. RingsBounded'
      BY <1>1, <2>1, <2>5, Sizes DEF ThreadInv, RingsBounded, CountsNat
    <3>3. (Count(ring, "batch") = BatchLength)'
      BY <2>1, <2>5 DEF ThreadInv, BatchLength
    <3>4. QED
      BY <2>1, <2>5, <3>1, <3>2, <3>3 DEF ThreadInv
  <2>8. QED
    BY <2>4, <2>6, <2>7
<1>5. CASE PeekRx
  <2> DEFINE avail == IF seen > 0 THEN seen ELSE Count(ring, "rx")
             n     == Lesser(avail, BatchSize)
  <2>1. avail \in Nat /\ avail <= Count(ring, "rx")
    BY <1>1 DEF ThreadInv, CountsNat
  <2>2. /\ ring' = Move(ring, "rx", "batch", n) /\ seen' = avail - n /\ rcvd' = n
        /\ pc' = (IF n = 0 THEN "loop" ELSE "stock") /\ pc = "peek"
        /\ UNCHANGED <<stock, toTx, outstanding, kicked>>
    BY <1>5 DEF PeekRx
  <2> HIDE DEF avail
  <2>3. n \in Nat /\ n <= avail
    BY <2>1, Sizes DEF Lesser
  <2> HIDE DEF n
  <2>t. pc' \in {"loop", "stock"}
    BY <2>2
  <2>4. n <= Count(ring, "rx")
    BY <1>1, <2>1, <2>3 DEF CountsNat
  <2>5. /\ ring' \in Rings
        /\ Count(ring', "rx") = Count(ring, "rx") - n
        /\ Count(ring', "batch") = Count(ring, "batch") + n
        /\ \A p \in Place \ {"rx", "batch"} : Count(ring', p) = Count(ring, p)
        /\ FrameInv'
    BY <1>1, <2>2, <2>3, <2>4, MoveCounts DEF Place
  <2>6. /\ Count(ring', "fill") = Count(ring, "fill") /\ Count(ring', "kheld") = Count(ring, "kheld")
        /\ Count(ring', "tx") = Count(ring, "tx") /\ Count(ring', "infl") = Count(ring, "infl")
        /\ Count(ring', "comp") = Count(ring, "comp")
    BY <2>5 DEF Place
  <2>7. TypeOK'
    BY <1>1, <1>2, <2>1, <2>2, <2>3, <2>5, <2>t DEF TypeOK, Rings, Slot
  <2>8. ThreadInv'
    BY <1>1, <2>1, <2>2, <2>3, <2>4, <2>5, <2>6
       DEF ThreadInv, RingsBounded, OutstandingExact, BatchLength, CountsNat
  <2>9. QED
    BY <2>5, <2>7, <2>8
<1>6. CASE ReadStock
  <2>1. stock' \in Nat /\ stock' <= FillSize - Count(ring, "fill")
    BY <1>1, <1>6, Sizes DEF ReadStock, FillSlots, ThreadInv, RingsBounded, CountsNat
  <2>2. TypeOK'
    BY <1>1, <1>6, <2>1 DEF ReadStock, TypeOK
  <2>3. ThreadInv'
    BY <1>6, <2>1 DEF ReadStock, ThreadInv, RingsBounded, OutstandingExact, BatchLength
  <2>4. QED
    BY <1>6, <2>2, <2>3 DEF ReadStock
<1>7. CASE RefillFillRing
  <2>1. /\ ring' = AllocToFill(ring, stock) /\ pc = "refill" /\ pc' = "reserve"
        /\ UNCHANGED <<seen, rcvd, stock, toTx, outstanding, kicked>>
    BY <1>7 DEF RefillFillRing
  <2>2. /\ ring' \in Rings
        /\ Count(ring', "fill") = Count(ring, "fill") + stock
        /\ \A p \in Place \ {"free", "fill"} : Count(ring', p) = Count(ring, p)
        /\ FrameInv'
    BY <1>1, <2>1, AllocCounts
  <2>3. /\ Count(ring', "kheld") = Count(ring, "kheld") /\ Count(ring', "rx") = Count(ring, "rx")
        /\ Count(ring', "batch") = Count(ring, "batch") /\ Count(ring', "tx") = Count(ring, "tx")
        /\ Count(ring', "infl") = Count(ring, "infl") /\ Count(ring', "comp") = Count(ring, "comp")
    BY <2>2 DEF Place
  <2>4. TypeOK'
    BY <1>1, <2>1, <2>2 DEF TypeOK, Rings, Slot
  <2>5. ThreadInv'
    BY <1>1, <2>1, <2>2, <2>3, Sizes
       DEF ThreadInv, RingsBounded, OutstandingExact, BatchLength, CountsNat
  <2>6. QED
    BY <2>2, <2>4, <2>5
<1>8. CASE ReserveTx
  <2>1. toTx' \in Nat /\ toTx' <= TxSize - Count(ring, "tx") /\ toTx' <= rcvd
    BY <1>1, <1>8, Sizes DEF ReserveTx, Lesser, ThreadInv, RingsBounded, CountsNat
  <2>2. TypeOK'
    BY <1>1, <1>8, <2>1 DEF ReserveTx, TypeOK
  <2>3. ThreadInv'
    BY <1>8, <2>1 DEF ReserveTx, ThreadInv, RingsBounded, OutstandingExact, BatchLength
  <2>4. QED
    BY <1>8, <2>2, <2>3 DEF ReserveTx
<1>9. CASE BounceBatch
  <2>1. /\ ring' = Move(ring, "batch", "tx", toTx) /\ outstanding' = outstanding + toTx
        /\ pc = "bounce" /\ pc' = "release"
        /\ UNCHANGED <<seen, rcvd, stock, toTx, kicked>>
    BY <1>9 DEF BounceBatch
  <2>2. toTx <= Count(ring, "batch")
    BY <1>1, <2>1 DEF ThreadInv, BatchLength
  <2>3. /\ ring' \in Rings
        /\ Count(ring', "batch") = Count(ring, "batch") - toTx
        /\ Count(ring', "tx") = Count(ring, "tx") + toTx
        /\ \A p \in Place \ {"batch", "tx"} : Count(ring', p) = Count(ring, p)
        /\ FrameInv'
    BY <1>1, <2>1, <2>2, MoveCounts DEF Place
  <2>4. /\ Count(ring', "fill") = Count(ring, "fill") /\ Count(ring', "kheld") = Count(ring, "kheld")
        /\ Count(ring', "rx") = Count(ring, "rx") /\ Count(ring', "infl") = Count(ring, "infl")
        /\ Count(ring', "comp") = Count(ring, "comp")
    BY <2>3 DEF Place
  <2>5. TypeOK'
    BY <1>1, <2>1, <2>3 DEF TypeOK, Rings, Slot
  <2>6. ThreadInv'
    BY <1>1, <2>1, <2>3, <2>4, Sizes
       DEF ThreadInv, RingsBounded, OutstandingExact, BatchLength, CountsNat
  <2>7. QED
    BY <2>3, <2>5, <2>6
<1>10. CASE FreeRestAndRelease
  <2> DEFINE n == rcvd - toTx
  <2>1. /\ ring' = Free(ring, "batch", n) /\ rcvd' = 0
        /\ pc = "release" /\ pc' = "loop"
        /\ UNCHANGED <<seen, stock, toTx, outstanding, kicked>>
    BY <1>10 DEF FreeRestAndRelease
  <2>2. n \in Nat /\ n = Count(ring, "batch")
    BY <1>1, <2>1 DEF ThreadInv, BatchLength
  <2> HIDE DEF n
  <2>3. /\ ring' \in Rings
        /\ Count(ring', "batch") = Count(ring, "batch") - n
        /\ \A p \in Place \ {"batch", "free"} : Count(ring', p) = Count(ring, p)
        /\ FrameInv'
    BY <1>1, <2>1, <2>2, FreeCounts DEF Place
  <2>4. /\ Count(ring', "batch") = 0
        /\ Count(ring', "fill") = Count(ring, "fill") /\ Count(ring', "kheld") = Count(ring, "kheld")
        /\ Count(ring', "rx") = Count(ring, "rx") /\ Count(ring', "tx") = Count(ring, "tx")
        /\ Count(ring', "infl") = Count(ring, "infl") /\ Count(ring', "comp") = Count(ring, "comp")
    BY <2>2, <2>3 DEF Place
  <2>5. TypeOK'
    BY <1>1, <2>1, <2>3 DEF TypeOK, Rings, Slot
  <2>6. ThreadInv'
    BY <1>1, <2>1, <2>4, Sizes
       DEF ThreadInv, RingsBounded, OutstandingExact, BatchLength, CountsNat
  <2>7. QED
    BY <2>3, <2>5, <2>6
<1>11. QED
  BY <1>3, <1>4, <1>5, <1>6, <1>7, <1>8, <1>9, <1>10 DEF RxThread

\* The frame that a kernel step moves changes no count by more than one.
LEMMA KernelIInv ==
    ASSUME IInv, Kernel
    PROVE  IInv'
<1> USE DEF IInv, FrameInv
<1>1. /\ ring \in Rings /\ CountsNat(ring)
      /\ seen \in Nat /\ rcvd \in Nat /\ stock \in Nat /\ toTx \in Nat
      /\ outstanding \in Nat
  BY Ranges
<1>2. UNCHANGED <<pc, seen, rcvd, stock, toTx, outstanding, kicked>>
  BY DEF Kernel, KernelTakeFill, KernelSkipInvalid, KernelDeliver, KernelTakeTx,
         KernelCompleteTx, LeaveThread
<1>3. ASSUME NEW a \in Place, NEW b \in Place, a # b, Count(ring, a) > 0,
             ring' = Move(ring, a, b, 1)
      PROVE  /\ ring' \in Rings
             /\ Count(ring', a) = Count(ring, a) - 1
             /\ Count(ring', b) = Count(ring, b) + 1
             /\ \A p \in Place \ {a, b} : Count(ring', p) = Count(ring, p)
             /\ FrameInv'
             /\ TypeOK'
  <2>1. Count(ring, a) \in Nat
    BY <1>1 DEF CountsNat, Place
  <2>2. /\ ring' \in Rings
        /\ Count(ring', a) = Count(ring, a) - 1
        /\ Count(ring', b) = Count(ring, b) + 1
        /\ \A p \in Place \ {a, b} : Count(ring', p) = Count(ring, p)
        /\ FrameInv'
    BY <1>1, <1>3, <2>1, MoveCounts
  <2>3. TypeOK'
    BY <1>2, <2>2 DEF TypeOK, Rings, Slot
  <2>4. QED
    BY <2>2, <2>3
<1>4. CASE KernelTakeFill
  <2>1. Count(ring, "fill") > 0 /\ Count(ring, "kheld") < KHold /\ ring' = Move(ring, "fill", "kheld", 1)
    BY <1>4 DEF KernelTakeFill
  <2>2. /\ Count(ring', "fill") = Count(ring, "fill") - 1
        /\ Count(ring', "kheld") = Count(ring, "kheld") + 1
        /\ \A p \in Place \ {"fill", "kheld"} : Count(ring', p) = Count(ring, p)
        /\ FrameInv' /\ TypeOK'
    BY <1>3, <2>1 DEF Place
  <2>3. ThreadInv'
    BY <1>1, <1>2, <2>1, <2>2, Sizes
       DEF ThreadInv, RingsBounded, OutstandingExact, BatchLength, CountsNat, Place
  <2>4. QED
    BY <2>2, <2>3
<1>5. CASE KernelSkipInvalid
  <2> DEFINE t == Tail(ring["fill"])
  <2>1. /\ Count(ring, "fill") > 0 /\ ring["fill"][1] = Invalid
        /\ ring' = [ring EXCEPT !["fill"] = t]
    BY <1>5 DEF KernelSkipInvalid
  <2>2. /\ t \in Seq(Slot) /\ Len(t) = Len(ring["fill"]) - 1
        /\ \A i \in 1 .. Len(t) : t[i] = ring["fill"][i + 1]
    <3>1. ring["fill"] \in Seq(Slot) /\ ring["fill"] # <<>>
      BY <1>1, <2>1, EmptySeq DEF Rings, Place, Count
    <3>2. QED
      BY <3>1, HeadTailProperties
  <2> HIDE DEF t
  <2>3. /\ ring' \in Rings /\ ring'["fill"] = t
        /\ \A p \in Place \ {"fill"} : ring'[p] = ring[p]
    BY <1>1, <2>1, <2>2 DEF Rings, Place
  <2>4. /\ Count(ring', "fill") = Count(ring, "fill") - 1
        /\ \A p \in Place \ {"fill"} : Count(ring', p) = Count(ring, p)
    BY <2>2, <2>3 DEF Count
  <2>5. TypeOK'
    BY <1>2, <2>3 DEF TypeOK, Rings, Slot
  <2>6. ThreadInv'
    <3>1. /\ Count(ring', "kheld") = Count(ring, "kheld") /\ Count(ring', "rx") = Count(ring, "rx")
          /\ Count(ring', "batch") = Count(ring, "batch") /\ Count(ring', "tx") = Count(ring, "tx")
          /\ Count(ring', "infl") = Count(ring, "infl") /\ Count(ring', "comp") = Count(ring, "comp")
      BY <2>4 DEF Place
    <3>2. RingsBounded' /\ OutstandingExact'
      BY <1>1, <1>2, <2>4, <3>1, Sizes DEF ThreadInv, RingsBounded, OutstandingExact, CountsNat
    <3>3. (pc = "refill" => stock <= FillSize - Count(ring, "fill"))'
      BY <1>1, <1>2, <2>4, Sizes DEF ThreadInv, CountsNat
    <3>4. QED
      BY <1>2, <3>1, <3>2, <3>3 DEF ThreadInv, BatchLength
  <2>f. "fill" \in Place /\ Len(ring["fill"]) \in Nat
    BY <1>1 DEF Place, CountsNat, Count
  <2>7. ASSUME NEW p \in Place, NEW i \in 1 .. Len(ring'[p])
        PROVE  LET k == IF p = "fill" THEN i + 1 ELSE i
               IN  k \in 1 .. Len(ring[p]) /\ ring'[p][i] = ring[p][k]
    <3>1. CASE p = "fill"
      BY <3>1, <2>2, <2>3, <2>f
    <3>2. CASE p # "fill"
      BY <3>2, <2>3
    <3>3. QED
      BY <3>1, <3>2
  <2>8. Exclusive(ring')
    <3>1. ASSUME NEW p \in Place, NEW q \in Place,
                 NEW i \in 1 .. Len(ring'[p]), NEW j \in 1 .. Len(ring'[q]),
                 ring'[p][i] = ring'[q][j], ring'[p][i] # Invalid
          PROVE  p = q /\ i = j
      <4> DEFINE k == IF p = "fill" THEN i + 1 ELSE i
                 l == IF q = "fill" THEN j + 1 ELSE j
      <4>1. k \in 1 .. Len(ring[p]) /\ ring'[p][i] = ring[p][k]
        BY <2>7
      <4>2. l \in 1 .. Len(ring[q]) /\ ring'[q][j] = ring[q][l]
        BY <2>7
      <4> HIDE DEF k, l
      <4>3. ring[p][k] = ring[q][l] /\ ring[p][k] # Invalid
        BY <3>1, <4>1, <4>2
      <4>4. p = q /\ k = l
        BY <4>1, <4>2, <4>3 DEF Exclusive
      <4>5. QED
        BY <4>4 DEF k, l
    <3>2. QED
      BY <3>1 DEF Exclusive
  <2>9. Conserved(ring')
    <3>1. ASSUME NEW f \in Frame
          PROVE  \E p \in Place : \E i \in 1 .. Len(ring'[p]) : ring'[p][i] = f
      <4>1. PICK p \in Place : \E i \in 1 .. Len(ring[p]) : ring[p][i] = f
        BY DEF Conserved
      <4>2. PICK i \in 1 .. Len(ring[p]) : ring[p][i] = f
        BY <4>1
      <4>3. CASE p = "fill"
        <5>1. i # 1
          BY <2>1, <4>2, <4>3, Sizes DEF Frame, Invalid
        <5>2. i - 1 \in 1 .. Len(t) /\ (i - 1) + 1 = i
          BY <5>1, <4>3, <2>2, <2>f
        <5>3. t[i - 1] = f
          BY <5>2, <4>2, <4>3, <2>2
        <5>4. QED
          BY <5>2, <5>3, <2>3, <2>f
      <4>4. CASE p # "fill"
        BY <4>2, <4>4, <2>3
      <4>5. QED
        BY <4>3, <4>4
    <3>2. QED
      BY <3>1 DEF Conserved
  <2>10. QED
    BY <2>5, <2>6, <2>8, <2>9
<1>6. CASE KernelDeliver
  <2>1. /\ Count(ring, "kheld") > 0 /\ Count(ring, "rx") + rcvd < RxSize
        /\ ring' = Move(ring, "kheld", "rx", 1)
    BY <1>6 DEF KernelDeliver
  <2>2. /\ Count(ring', "kheld") = Count(ring, "kheld") - 1
        /\ Count(ring', "rx") = Count(ring, "rx") + 1
        /\ \A p \in Place \ {"kheld", "rx"} : Count(ring', p) = Count(ring, p)
        /\ FrameInv' /\ TypeOK'
    BY <1>3, <2>1 DEF Place
  <2>3. ThreadInv'
    BY <1>1, <1>2, <2>1, <2>2, Sizes
       DEF ThreadInv, RingsBounded, OutstandingExact, BatchLength, CountsNat, Place
  <2>4. QED
    BY <2>2, <2>3
<1>7. CASE KernelTakeTx
  <2>1. /\ Count(ring, "tx") > 0 /\ Count(ring, "infl") + Count(ring, "comp") < CompSize
        /\ ring' = Move(ring, "tx", "infl", 1)
    BY <1>7 DEF KernelTakeTx
  <2>2. /\ Count(ring', "tx") = Count(ring, "tx") - 1
        /\ Count(ring', "infl") = Count(ring, "infl") + 1
        /\ \A p \in Place \ {"tx", "infl"} : Count(ring', p) = Count(ring, p)
        /\ FrameInv' /\ TypeOK'
    BY <1>3, <2>1 DEF Place
  <2>3. ThreadInv'
    BY <1>1, <1>2, <2>1, <2>2, Sizes
       DEF ThreadInv, RingsBounded, OutstandingExact, BatchLength, CountsNat, Place
  <2>4. QED
    BY <2>2, <2>3
<1>8. CASE KernelCompleteTx
  <2>1. Count(ring, "infl") > 0 /\ ring' = Move(ring, "infl", "comp", 1)
    BY <1>8 DEF KernelCompleteTx
  <2>2. /\ Count(ring', "infl") = Count(ring, "infl") - 1
        /\ Count(ring', "comp") = Count(ring, "comp") + 1
        /\ \A p \in Place \ {"infl", "comp"} : Count(ring', p) = Count(ring, p)
        /\ FrameInv' /\ TypeOK'
    BY <1>3, <2>1 DEF Place
  <2>3. ThreadInv'
    BY <1>1, <1>2, <2>1, <2>2, Sizes
       DEF ThreadInv, RingsBounded, OutstandingExact, BatchLength, CountsNat, Place
  <2>4. QED
    BY <2>2, <2>3
<1>9. QED
  BY <1>4, <1>5, <1>6, <1>7, <1>8 DEF Kernel

-----------------------------------------------------------------------------
(* The theorems that hold whatever the sizes are *)

\* Every step of the thread and of the kernel keeps the invariant.
LEMMA NextIInv == IInv /\ [Next]_vars => IInv'
<1> SUFFICES ASSUME IInv, [Next]_vars PROVE IInv'
  OBVIOUS
<1>1. CASE RxThread
  BY <1>1, RxThreadIInv
<1>2. CASE Kernel
  BY <1>2, KernelIInv
<1>3. CASE UNCHANGED vars
  BY <1>3 DEF vars, IInv, FrameInv, TypeOK, ThreadInv, RingsBounded, OutstandingExact,
              BatchLength
<1>4. QED
  BY <1>1, <1>2, <1>3 DEF Next

\* The invariant holds in every state.
LEMMA InvariantIInv == Spec => []IInv
BY InitIInv, NextIInv, PTL DEF Spec

\* The state of the RX thread and the contents of the rings keep their types.
THEOREM TypeCorrect == Spec => []TypeOK
<1>1. IInv => TypeOK
  BY DEF IInv
<1>2. QED
  BY <1>1, InvariantIInv, PTL

\* No interleaving of passes and kernel steps, with any sizes, hands out a
\* frame twice.
THEOREM FramesExclusive == Spec => []FrameExclusive
<1>1. IInv => FrameExclusive
  BY DEF IInv, FrameInv, FrameExclusive, Exclusive
<1>2. QED
  BY <1>1, InvariantIInv, PTL

\* ... or loses one.
THEOREM FramesConserved == Spec => []FrameConserved
<1>1. IInv => FrameConserved
  BY DEF IInv, FrameInv, FrameConserved, Conserved
<1>2. QED
  BY <1>1, InvariantIInv, PTL

\* outstanding_tx is exact and no ring is ever overfull, with any sizes.
THEOREM OutstandingCorrect == Spec => [](OutstandingExact /\ RingsBounded)
<1>1. IInv => OutstandingExact /\ RingsBounded
  BY DEF IInv, ThreadInv
<1>2. QED
  BY <1>1, InvariantIInv, PTL

-----------------------------------------------------------------------------
(* A pool that covers every ring and the buffers the kernel holds *)

Clean(r) == \A p \in Place : \A i \in 1 .. Len(r[p]) : r[p][i] # Invalid

Total(r) == Count(r, "free") + Count(r, "fill") + Count(r, "kheld") + Count(r, "rx")
            + Count(r, "batch") + Count(r, "tx") + Count(r, "infl") + Count(r, "comp")

\* Moving frames between rings leaves no invalid frame.
LEMMA MoveClean ==
    ASSUME NEW r \in Rings, NEW a \in Place, NEW b \in Place, a # b,
           NEW n \in Nat, n <= Count(r, a), Clean(r)
    PROVE  Clean(Move(r, a, b, n))
<1> DEFINE m == Move(r, a, b, n)
<1>1. \A p \in Place : Len(r[p]) \in Nat
  BY LenProperties DEF Rings
<1>2. /\ Len(m[a]) = Len(r[a]) - n
      /\ Len(m[b]) = Len(r[b]) + n
      /\ \A p \in Place \ {a, b} : m[p] = r[p]
      /\ \A i \in 1 .. (Len(r[a]) - n) : m[a][i] = r[a][i + n]
      /\ \A i \in 1 .. (Len(r[b]) + n) :
             m[b][i] = IF i <= Len(r[b]) THEN r[b][i] ELSE r[a][i - Len(r[b])]
  <2>1. n <= Len(r[a])
    BY DEF Count
  <2>2. QED
    BY <2>1, MoveFacts
<1>3. n <= Len(r[a])
  BY DEF Count
<1> HIDE DEF m
<1>4. ASSUME NEW p \in Place, NEW i \in 1 .. Len(m[p])
      PROVE  m[p][i] # Invalid
  <2>1. CASE p = a
    <3>1. i \in 1 .. (Len(r[a]) - n) /\ i + n \in 1 .. Len(r[a])
      BY <2>1, <1>1, <1>2
    <3>2. QED
      BY <2>1, <3>1, <1>2 DEF Clean
  <2>2. CASE p = b
    <3>0. i \in 1 .. (Len(r[b]) + n)
      BY <2>2, <1>2
    <3>1. CASE i <= Len(r[b])
      <4>1. i \in 1 .. Len(r[b])
        BY <3>0, <3>1, <1>1
      <4>2. QED
        BY <2>2, <3>0, <3>1, <4>1, <1>2 DEF Clean
    <3>2. CASE ~(i <= Len(r[b]))
      <4>1. i - Len(r[b]) \in 1 .. Len(r[a])
        BY <2>2, <3>2, <1>1, <1>2, <1>3
      <4>2. QED
        BY <2>2, <3>2, <4>1, <1>2 DEF Clean
    <3>3. QED
      BY <3>1, <3>2
  <2>3. CASE p \notin {a, b}
    BY <2>3, <1>2 DEF Clean
  <2>4. QED
    BY <2>1, <2>2, <2>3
<1>5. QED
  BY <1>4 DEF Clean, m

\* Freeing frames leaves no invalid frame.
LEMMA FreeClean ==
    ASSUME NEW r \in Rings, NEW a \in Place \ {"free"},
           NEW n \in Nat, n <= Count(r, a), Clean(r)
    PROVE  Clean(Free(r, a, n))
<1> DEFINE m == Free(r, a, n)
<1>0. "free" \in Place
  BY DEF Place
<1>1. \A p \in Place : Len(r[p]) \in Nat
  BY LenProperties DEF Rings
<1>2. /\ Len(m[a]) = Len(r[a]) - n
      /\ Len(m["free"]) = Len(r["free"]) + n
      /\ \A p \in Place \ {a, "free"} : m[p] = r[p]
      /\ \A i \in 1 .. (Len(r[a]) - n) : m[a][i] = r[a][i + n]
      /\ \A i \in 1 .. (n + Len(r["free"])) :
             m["free"][i] = IF i <= n THEN r[a][n + 1 - i] ELSE r["free"][i - n]
  <2>1. n <= Len(r[a])
    BY DEF Count
  <2>2. /\ Len(m[a]) = Len(r[a]) - n /\ Len(m["free"]) = Len(r["free"]) + n
        /\ \A p \in Place \ {a, "free"} : m[p] = r[p]
    BY <2>1, FreeFacts
  <2>3. \A i \in 1 .. (Len(r[a]) - n) : m[a][i] = r[a][i + n]
    BY <2>1, FreeFacts
  <2>4. \A i \in 1 .. (n + Len(r["free"])) :
            m["free"][i] = IF i <= n THEN r[a][n + 1 - i] ELSE r["free"][i - n]
    BY <2>1, FreeFacts
  <2>5. QED
    BY <2>2, <2>3, <2>4
<1>3. n <= Len(r[a])
  BY DEF Count
<1> HIDE DEF m
<1>4. ASSUME NEW p \in Place, NEW i \in 1 .. Len(m[p])
      PROVE  m[p][i] # Invalid
  <2>1. CASE p = a
    <3>1. i \in 1 .. (Len(r[a]) - n) /\ i + n \in 1 .. Len(r[a])
      BY <2>1, <1>1, <1>2
    <3>2. QED
      BY <2>1, <3>1, <1>2 DEF Clean
  <2>2. CASE p = "free"
    <3>0. i \in 1 .. (n + Len(r["free"]))
      BY <2>2, <1>0, <1>1, <1>2
    <3>1. CASE i <= n
      <4>1. n + 1 - i \in 1 .. Len(r[a])
        BY <3>0, <3>1, <1>1, <1>3
      <4>2. QED
        BY <2>2, <3>0, <3>1, <4>1, <1>2 DEF Clean
    <3>2. CASE ~(i <= n)
      <4>1. i - n \in 1 .. Len(r["free"])
        BY <3>0, <3>2, <1>0, <1>1
      <4>2. QED
        BY <2>2, <3>0, <3>2, <4>1, <1>0, <1>2 DEF Clean
    <3>3. QED
      BY <3>1, <3>2
  <2>3. CASE p \notin {a, "free"}
    BY <2>3, <1>2 DEF Clean
  <2>4. QED
    BY <2>1, <2>2, <2>3
<1>5. QED
  BY <1>4 DEF Clean, m

\* A refill that the free list covers writes frames only.
LEMMA AllocClean ==
    ASSUME NEW r \in Rings, NEW n \in Nat, n <= Count(r, "free"), Clean(r)
    PROVE  Clean(AllocToFill(r, n)) /\ Lesser(n, Count(r, "free")) = n
<1> DEFINE m == AllocToFill(r, n)
<1>0. "free" \in Place /\ "fill" \in Place
  BY DEF Place
<1>1. \A p \in Place : Len(r[p]) \in Nat
  BY LenProperties DEF Rings
<1>2. Lesser(n, Count(r, "free")) = n
  BY DEF Lesser
<1>3. /\ Len(m["free"]) = Len(r["free"]) - n
      /\ Len(m["fill"]) = Len(r["fill"]) + n
      /\ \A p \in Place \ {"free", "fill"} : m[p] = r[p]
      /\ \A i \in 1 .. (Len(r["free"]) - n) : m["free"][i] = r["free"][i + n]
      /\ \A i \in 1 .. (Len(r["fill"]) + n) :
             m["fill"][i] = IF i <= Len(r["fill"]) THEN r["fill"][i]
                            ELSE IF i <= Len(r["fill"]) + n THEN r["free"][i - Len(r["fill"])]
                            ELSE Invalid
  <2> DEFINE got  == Lesser(n, Count(r, "free"))
             fill == Len(r["fill"])
  <2>1. /\ Len(m["free"]) = Len(r["free"]) - got
        /\ Len(m["fill"]) = fill + n
        /\ \A p \in Place \ {"free", "fill"} : m[p] = r[p]
        /\ \A i \in 1 .. (Len(r["free"]) - got) : m["free"][i] = r["free"][i + got]
        /\ \A i \in 1 .. (fill + n) :
               m["fill"][i] = IF i <= fill THEN r["fill"][i]
                              ELSE IF i <= fill + got THEN r["free"][i - fill]
                              ELSE Invalid
    BY AllocFacts
  <2>2. got = n
    BY <1>2
  <2> HIDE DEF m, got
  <2>3. QED
    BY <2>1, <2>2
<1>4. n <= Len(r["free"])
  BY DEF Count
<1> HIDE DEF m
<1>5. ASSUME NEW p \in Place, NEW i \in 1 .. Len(m[p])
      PROVE  m[p][i] # Invalid
  <2>1. CASE p = "free"
    <3>1. i \in 1 .. (Len(r["free"]) - n) /\ i + n \in 1 .. Len(r["free"])
      BY <2>1, <1>0, <1>1, <1>3
    <3>2. QED
      BY <2>1, <3>1, <1>0, <1>3 DEF Clean
  <2>2. CASE p = "fill"
    <3>0. i \in 1 .. (Len(r["fill"]) + n) /\ i <= Len(r["fill"]) + n
      BY <2>2, <1>0, <1>1, <1>3
    <3>1. CASE i <= Len(r["fill"])
      <4>1. i \in 1 .. Len(r["fill"])
        BY <3>0, <3>1, <1>0, <1>1
      <4>2. QED
        BY <2>2, <3>0, <3>1, <4>1, <1>0, <1>3 DEF Clean
    <3>2. CASE ~(i <= Len(r["fill"]))
      <4>1. i - Len(r["fill"]) \in 1 .. Len(r["free"])
        BY <3>0, <3>2, <1>0, <1>1, <1>4
      <4>2. QED
        BY <2>2, <3>0, <3>2, <4>1, <1>0, <1>3 DEF Clean
    <3>3. QED
      BY <3>1, <3>2
  <2>3. CASE p \notin {"free", "fill"}
    BY <2>3, <1>3 DEF Clean
  <2>4. QED
    BY <2>1, <2>2, <2>3
<1>6. QED
  BY <1>2, <1>5 DEF Clean, m

\* Between reading stock_frames and submitting, the kernel only makes room.
SupplyInv ==
    /\ RxSupplied
    /\ pc = "refill" => stock + Count(ring, "fill") + Count(ring, "kheld")
                            + Count(ring, "rx") >= FillSize

SizedInv == IInv /\ Clean(ring) /\ Total(ring) = NumFrames /\ SupplyInv

\* With enough frames the pool starts with a supply for the fill ring.
LEMMA InitSized ==
    ASSUME PoolCoversRings, Init
    PROVE  SizedInv
<1> DEFINE all == [i \in 1 .. NumFrames |-> NumFrames - i]
           r0  == [p \in Place |-> IF p = "free" THEN all ELSE <<>>]
<1>1. all \in Seq(Slot) /\ Len(all) = NumFrames
  BY Sizes DEF Slot
<1>2. <<>> \in Seq(Slot) /\ Len(<<>>) = 0
  BY EmptySeq
<1>3. r0 \in Rings /\ r0["free"] = all /\ \A p \in Place \ {"free"} : r0[p] = <<>>
  BY <1>1, <1>2 DEF Rings, Place
<1>4. Clean(r0)
  <2>1. ASSUME NEW p \in Place, NEW i \in 1 .. Len(r0[p])
        PROVE  r0[p][i] # Invalid
    <3>1. p = "free"
      BY <1>2, <1>3
    <3>2. i \in 1 .. NumFrames /\ r0[p][i] = NumFrames - i
      BY <1>1, <1>3, <3>1
    <3>3. QED
      BY <3>2, Sizes DEF Invalid
  <2> HIDE DEF r0
  <2>2. QED
    BY <2>1 DEF Clean
<1>5. Count(r0, "free") = NumFrames /\ \A p \in Place \ {"free"} : Count(r0, p) = 0
  BY <1>1, <1>2, <1>3 DEF Count
<1>6. ring = AllocToFill(r0, FillSize)
  BY DEF Init
<1> HIDE DEF r0, all
<1>7. Clean(ring) /\ Lesser(FillSize, Count(r0, "free")) = FillSize
  BY <1>3, <1>4, <1>5, <1>6, Sizes, AllocClean
<1>8. /\ Count(ring, "free") = Count(r0, "free") - FillSize
      /\ Count(ring, "fill") = Count(r0, "fill") + FillSize
      /\ \A p \in Place \ {"free", "fill"} : Count(ring, p) = Count(r0, p)
  BY <1>3, <1>6, <1>7, Sizes, AllocCounts
<1>9. /\ Count(ring, "free") = NumFrames - FillSize /\ Count(ring, "fill") = FillSize
      /\ Count(ring, "kheld") = 0 /\ Count(ring, "rx") = 0 /\ Count(ring, "batch") = 0
      /\ Count(ring, "tx") = 0 /\ Count(ring, "infl") = 0 /\ Count(ring, "comp") = 0
  BY <1>5, <1>8, Sizes DEF Place
<1>10. Total(ring) = NumFrames
  BY <1>9, Sizes DEF Total
<1>11. pc = "loop"
  BY DEF Init
<1>12. SupplyInv
  BY <1>9, <1>11, Sizes DEF SupplyInv, RxSupplied
<1>13. QED
  BY <1>7, <1>10, <1>12, InitIInv DEF SizedInv

\* The free list always covers the empty part of the fill ring.
LEMMA FreeCoversFill ==
    ASSUME PoolCoversRings, SizedInv
    PROVE  Count(ring, "free") >= FillSize - Count(ring, "fill")
           \/ pc \notin {"stock", "refill"}
<1>1. CountsNat(ring) /\ rcvd \in Nat
  BY Ranges DEF SizedInv, IInv
<1>2. /\ Count(ring, "rx") + rcvd <= RxSize /\ Count(ring, "tx") <= TxSize
      /\ Count(ring, "infl") + Count(ring, "comp") <= CompSize
      /\ Count(ring, "kheld") <= KHold
      /\ pc \in {"stock", "refill"} => Count(ring, "batch") = rcvd
  BY DEF SizedInv, IInv, ThreadInv, RingsBounded, BatchLength
<1>3. Total(ring) = NumFrames
  BY DEF SizedInv
<1>4. QED
  BY <1>1, <1>2, <1>3, Sizes DEF PoolCoversRings, Total, CountsNat

\* Every step keeps the supply.
LEMMA NextSized ==
    ASSUME PoolCoversRings, SizedInv, [Next]_vars
    PROVE  SizedInv'
<1>0. IInv /\ Clean(ring) /\ Total(ring) = NumFrames /\ SupplyInv
  BY DEF SizedInv
<1>1. IInv'
  BY <1>0, NextIInv
<1>2. /\ ring \in Rings /\ CountsNat(ring)
      /\ seen \in Nat /\ rcvd \in Nat /\ stock \in Nat /\ toTx \in Nat
  BY <1>0, Ranges DEF IInv
<1>t. ThreadInv
  BY <1>0 DEF IInv
<1>3. CASE EnterPass
  BY <1>0, <1>1, <1>3 DEF EnterPass, SizedInv, SupplyInv, RxSupplied, Total
<1>4. CASE DrainCompletions
  <2> DEFINE n == Count(ring, "comp")
  <2>1. ring' = Free(ring, "comp", n) /\ pc = "drain" /\ pc' = "peek" /\ UNCHANGED <<rcvd, stock>>
    BY <1>4 DEF DrainCompletions
  <2>2. n \in Nat /\ n <= Count(ring, "comp")
    BY <1>2 DEF CountsNat
  <2> HIDE DEF n
  <2>3. /\ Clean(ring')
        /\ Count(ring', "comp") = Count(ring, "comp") - n
        /\ Count(ring', "free") = Count(ring, "free") + n
        /\ \A p \in Place \ {"comp", "free"} : Count(ring', p) = Count(ring, p)
    BY <1>0, <1>2, <2>1, <2>2, FreeClean, FreeCounts DEF Place
  <2>4. /\ Count(ring', "fill") = Count(ring, "fill") /\ Count(ring', "kheld") = Count(ring, "kheld")
        /\ Count(ring', "rx") = Count(ring, "rx") /\ Count(ring', "batch") = Count(ring, "batch")
        /\ Count(ring', "tx") = Count(ring, "tx") /\ Count(ring', "infl") = Count(ring, "infl")
    BY <2>3 DEF Place
  <2>5. Total(ring') = NumFrames
    BY <1>0, <1>2, <2>2, <2>3, <2>4 DEF Total, CountsNat
  <2>6. SupplyInv'
    BY <1>0, <1>2, <2>1, <2>4 DEF SupplyInv, RxSupplied, CountsNat
  <2>7. QED
    BY <1>1, <2>3, <2>5, <2>6 DEF SizedInv
<1>5. CASE PeekRx
  <2> DEFINE avail == IF seen > 0 THEN seen ELSE Count(ring, "rx")
             n     == Lesser(avail, BatchSize)
  <2>1. avail \in Nat /\ avail <= Count(ring, "rx")
    BY <1>2, <1>t DEF ThreadInv, CountsNat
  <2>2. /\ ring' = Move(ring, "rx", "batch", n) /\ rcvd' = n
        /\ pc' = (IF n = 0 THEN "loop" ELSE "stock") /\ pc = "peek"
    BY <1>5 DEF PeekRx
  <2> HIDE DEF avail
  <2>3. n \in Nat /\ n <= avail
    BY <2>1, Sizes DEF Lesser
  <2> HIDE DEF n
  <2>4. n <= Count(ring, "rx")
    BY <1>2, <2>1, <2>3 DEF CountsNat
  <2>5. /\ Clean(ring')
        /\ Count(ring', "rx") = Count(ring, "rx") - n
        /\ Count(ring', "batch") = Count(ring, "batch") + n
        /\ \A p \in Place \ {"rx", "batch"} : Count(ring', p) = Count(ring, p)
    BY <1>0, <1>2, <2>2, <2>3, <2>4, MoveClean, MoveCounts DEF Place
  <2>6. /\ Count(ring', "fill") = Count(ring, "fill") /\ Count(ring', "kheld") = Count(ring, "kheld")
        /\ Count(ring', "free") = Count(ring, "free") /\ Count(ring', "comp") = Count(ring, "comp")
        /\ Count(ring', "tx") = Count(ring, "tx") /\ Count(ring', "infl") = Count(ring, "infl")
    BY <2>5 DEF Place
  <2>7. Total(ring') = NumFrames
    BY <1>0, <1>2, <2>3, <2>5, <2>6 DEF Total, CountsNat
  <2>8. SupplyInv'
    BY <1>0, <1>2, <2>2, <2>3, <2>5, <2>6 DEF SupplyInv, RxSupplied, CountsNat
  <2>9. QED
    BY <1>1, <2>5, <2>7, <2>8 DEF SizedInv
<1>6. CASE ReadStock
  <2>1. /\ ring' = ring /\ rcvd' = rcvd /\ pc = "stock" /\ pc' = "refill"
        /\ stock' = FillSlots(ring)
    BY <1>6 DEF ReadStock
  <2>2. Count(ring, "free") >= FillSize - Count(ring, "fill")
    BY <2>1, FreeCoversFill
  <2>3. Count(ring, "fill") <= FillSize
    BY <1>t DEF ThreadInv, RingsBounded
  <2>4. stock' = FillSize - Count(ring, "fill")
    BY <1>2, <2>1, <2>2, <2>3, Sizes DEF FillSlots, CountsNat
  <2>5. SupplyInv'
    BY <1>0, <1>2, <2>1, <2>4, Sizes DEF SupplyInv, RxSupplied, CountsNat
  <2>6. QED
    BY <1>0, <1>1, <2>1, <2>5 DEF SizedInv
<1>7. CASE RefillFillRing
  <2>1. /\ ring' = AllocToFill(ring, stock) /\ pc = "refill" /\ pc' = "reserve"
        /\ stock <= FillSize - Count(ring, "fill")
    BY <1>7 DEF RefillFillRing
  <2>2. stock <= Count(ring, "free")
    BY <1>2, <2>1, FreeCoversFill, Sizes DEF CountsNat
  <2>3. Clean(ring') /\ Lesser(stock, Count(ring, "free")) = stock
    BY <1>0, <1>2, <2>1, <2>2, AllocClean
  <2>4. /\ Count(ring', "free") = Count(ring, "free") - stock
        /\ Count(ring', "fill") = Count(ring, "fill") + stock
        /\ \A p \in Place \ {"free", "fill"} : Count(ring', p) = Count(ring, p)
    BY <1>2, <2>1, <2>3, AllocCounts
  <2>5. /\ Count(ring', "kheld") = Count(ring, "kheld") /\ Count(ring', "rx") = Count(ring, "rx")
        /\ Count(ring', "batch") = Count(ring, "batch") /\ Count(ring', "tx") = Count(ring, "tx")
        /\ Count(ring', "infl") = Count(ring, "infl") /\ Count(ring', "comp") = Count(ring, "comp")
    BY <2>4 DEF Place
  <2>6. Total(ring') = NumFrames
    BY <1>0, <1>2, <2>4, <2>5 DEF Total, CountsNat
  <2>7. SupplyInv'
    BY <1>0, <1>2, <2>1, <2>4, <2>5, Sizes DEF SupplyInv, RxSupplied, CountsNat
  <2>8. QED
    BY <1>1, <2>3, <2>6, <2>7 DEF SizedInv
<1>8. CASE ReserveTx
  BY <1>0, <1>1, <1>8 DEF ReserveTx, SizedInv, SupplyInv, RxSupplied, Total
<1>9. CASE BounceBatch
  <2>1. ring' = Move(ring, "batch", "tx", toTx) /\ pc = "bounce" /\ pc' = "release"
    BY <1>9 DEF BounceBatch
  <2>2. toTx <= Count(ring, "batch")
    BY <1>2, <1>t, <2>1 DEF ThreadInv, BatchLength
  <2>3. /\ Clean(ring')
        /\ Count(ring', "batch") = Count(ring, "batch") - toTx
        /\ Count(ring', "tx") = Count(ring, "tx") + toTx
        /\ \A p \in Place \ {"batch", "tx"} : Count(ring', p) = Count(ring, p)
    BY <1>0, <1>2, <2>1, <2>2, MoveClean, MoveCounts DEF Place
  <2>4. /\ Count(ring', "fill") = Count(ring, "fill") /\ Count(ring', "kheld") = Count(ring, "kheld")
        /\ Count(ring', "rx") = Count(ring, "rx") /\ Count(ring', "infl") = Count(ring, "infl")
        /\ Count(ring', "comp") = Count(ring, "comp") /\ Count(ring', "free") = Count(ring, "free")
    BY <2>3 DEF Place
  <2>5. Total(ring') = NumFrames
    BY <1>0, <1>2, <2>3, <2>4 DEF Total, CountsNat
  <2>6. SupplyInv'
    BY <1>0, <2>1, <2>4 DEF SupplyInv, RxSupplied
  <2>7. QED
    BY <1>1, <2>3, <2>5, <2>6 DEF SizedInv
<1>10. CASE FreeRestAndRelease
  <2> DEFINE n == rcvd - toTx
  <2>1. ring' = Free(ring, "batch", n) /\ pc = "release" /\ pc' = "loop"
    BY <1>10 DEF FreeRestAndRelease
  <2>2. n \in Nat /\ n = Count(ring, "batch")
    BY <1>2, <1>t, <2>1 DEF ThreadInv, BatchLength
  <2> HIDE DEF n
  <2>3. /\ Clean(ring')
        /\ Count(ring', "batch") = Count(ring, "batch") - n
        /\ Count(ring', "free") = Count(ring, "free") + n
        /\ \A p \in Place \ {"batch", "free"} : Count(ring', p) = Count(ring, p)
    BY <1>0, <1>2, <2>1, <2>2, FreeClean, FreeCounts DEF Place
  <2>4. /\ Count(ring', "fill") = Count(ring, "fill") /\ Count(ring', "kheld") = Count(ring, "kheld")
        /\ Count(ring', "rx") = Count(ring, "rx") /\ Count(ring', "tx") = Count(ring, "tx")
        /\ Count(ring', "infl") = Count(ring, "infl") /\ Count(ring', "comp") = Count(ring, "comp")
    BY <2>3 DEF Place
  <2>5. Total(ring') = NumFrames
    BY <1>0, <1>2, <2>2, <2>3, <2>4 DEF Total, CountsNat
  <2>6. SupplyInv'
    BY <1>0, <2>1, <2>4 DEF SupplyInv, RxSupplied
  <2>7. QED
    BY <1>1, <2>3, <2>5, <2>6 DEF SizedInv
<1>11. CASE Kernel
  <2>1. UNCHANGED <<pc, rcvd, stock>>
    BY <1>11 DEF Kernel, KernelTakeFill, KernelSkipInvalid, KernelDeliver, KernelTakeTx,
                 KernelCompleteTx, LeaveThread
  <2>2. ~KernelSkipInvalid
    <3>1. Count(ring, "fill") > 0 => ring["fill"][1] # Invalid
      <4>1. "fill" \in Place /\ Len(ring["fill"]) \in Nat
        BY <1>2 DEF Place, CountsNat, Count
      <4>2. Count(ring, "fill") > 0 => 1 \in 1 .. Len(ring["fill"])
        BY <4>1 DEF Count
      <4>3. QED
        BY <1>0, <4>1, <4>2 DEF Clean
    <3>2. QED
      BY <3>1 DEF KernelSkipInvalid
  <2>3. PICK a \in Place, b \in Place : /\ Count(ring, a) > 0 /\ ring' = Move(ring, a, b, 1)
                                        /\ \/ a = "fill" /\ b = "kheld"
                                           \/ a = "kheld" /\ b = "rx"
                                           \/ a = "tx" /\ b = "infl"
                                           \/ a = "infl" /\ b = "comp"
    BY <1>11, <2>2 DEF Kernel, KernelTakeFill, KernelDeliver, KernelTakeTx, KernelCompleteTx, Place
  <2>4. Count(ring, a) \in Nat /\ 1 <= Count(ring, a) /\ a # b
    BY <1>2, <2>3 DEF CountsNat
  <2>5. /\ Clean(ring')
        /\ Count(ring', a) = Count(ring, a) - 1
        /\ Count(ring', b) = Count(ring, b) + 1
        /\ \A p \in Place \ {a, b} : Count(ring', p) = Count(ring, p)
    BY <1>0, <1>2, <2>3, <2>4, MoveClean, MoveCounts
  <2>6. Total(ring') = NumFrames /\ SupplyInv'
    <3>1. CASE a = "fill" /\ b = "kheld"
      BY <1>0, <1>2, <2>1, <2>5, <3>1, Sizes
         DEF Total, CountsNat, SupplyInv, RxSupplied, Place
    <3>2. CASE a = "kheld" /\ b = "rx"
      BY <1>0, <1>2, <2>1, <2>5, <3>2, Sizes
         DEF Total, CountsNat, SupplyInv, RxSupplied, Place
    <3>3. CASE a = "tx" /\ b = "infl"
      BY <1>0, <1>2, <2>1, <2>5, <3>3, Sizes
         DEF Total, CountsNat, SupplyInv, RxSupplied, Place
    <3>4. CASE a = "infl" /\ b = "comp"
      BY <1>0, <1>2, <2>1, <2>5, <3>4, Sizes
         DEF Total, CountsNat, SupplyInv, RxSupplied, Place
    <3>5. QED
      BY <2>3, <3>1, <3>2, <3>3, <3>4
  <2>7. QED
    BY <1>1, <2>5, <2>6 DEF SizedInv
<1>12. CASE UNCHANGED vars
  BY <1>0, <1>1, <1>12 DEF vars, SizedInv, SupplyInv, RxSupplied, Total
<1>13. QED
  BY <1>3, <1>4, <1>5, <1>6, <1>7, <1>8, <1>9, <1>10, <1>11, <1>12 DEF Next, RxThread

\* With a frame for every ring entry and for every buffer the kernel keeps,
\* the fill ring only ever receives frames.
THEOREM NeverInvalid ==
    ASSUME PoolCoversRings PROVE Spec => []NoInvalidFill
<1>1. Init => SizedInv
  BY InitSized
<1>2. SizedInv /\ [Next]_vars => SizedInv'
  BY NextSized
<1>3. SizedInv => NoInvalidFill
  BY DEF SizedInv, Clean, NoInvalidFill
<1>4. QED
  BY <1>1, <1>2, <1>3, PTL DEF Spec

\* ... and the receive side never runs out of frames.
THEOREM NeverStarved ==
    ASSUME PoolCoversRings PROVE Spec => []RxSupplied
<1>1. Init => SizedInv
  BY InitSized
<1>2. SizedInv /\ [Next]_vars => SizedInv'
  BY NextSized
<1>3. SizedInv => RxSupplied
  BY DEF SizedInv, SupplyInv
<1>4. QED
  BY <1>1, <1>2, <1>3, PTL DEF Spec

-----------------------------------------------------------------------------
(***************************************************************************)
(* AfxdpUmem implements FrameOwner, for every number of frames and every   *)
(* ring size: a step of the pool moves the owners of a set of frames as a  *)
(* step of the protocol does, or not at all.                               *)
(***************************************************************************)

\* The frames among the first n entries of a sequence.
First(s, n) == {f \in Frame : \E i \in 1 .. n : s[i] = f}

\* There are at most n of them.
LEMMA FirstCard ==
    ASSUME NEW s, NEW n \in Nat
    PROVE  IsFiniteSet(First(s, n)) /\ Cardinality(First(s, n)) <= n
<1> DEFINE T == {s[i] : i \in 1 .. n}
           g == [i \in 1 .. n |-> s[i]]
<1>1. IsFiniteSet(1 .. n) /\ Cardinality(1 .. n) = n
  BY FS_Interval
<1>2. g \in Surjection(1 .. n, T)
  BY DEF Surjection
<1>3. IsFiniteSet(T) /\ Cardinality(T) <= Cardinality(1 .. n)
  BY <1>1, <1>2, FS_Surjection
<1>4. First(s, n) \in SUBSET T
  BY DEF First
<1> HIDE DEF T
<1>5. /\ IsFiniteSet(First(s, n))
      /\ Cardinality(First(s, n)) <= Cardinality(T)
  BY <1>3, <1>4, FS_Subset
<1>6. Cardinality(T) \in Nat /\ Cardinality(First(s, n)) \in Nat
  BY <1>3, <1>5, FS_CardinalityType
<1>7. QED
  BY <1>1, <1>3, <1>5, <1>6

\* A frame that no two places share belongs to the owner of its place.
LEMMA OwnerAt ==
    ASSUME NEW r, Exclusive(r), NEW f \in Frame, NEW p \in Place, Holds(r, p, f)
    PROVE  OwnersIn(r)[f] = OwnerOf(p)
<1> DEFINE places == {q \in Place : Holds(r, q, f)}
           owners == {OwnerOf(q) : q \in places}
<1>1. f # Invalid
  BY Sizes DEF Frame, Invalid
<1>2. ASSUME NEW q \in Place, Holds(r, q, f) PROVE q = p
  <2>1. PICK i \in 1 .. Len(r[p]) : r[p][i] = f
    BY DEF Holds
  <2>2. PICK j \in 1 .. Len(r[q]) : r[q][j] = f
    BY <1>2 DEF Holds
  <2>3. QED
    BY <1>1, <2>1, <2>2, ExclusiveAt
<1>3. places = {p}
  BY <1>2
<1> HIDE DEF places
<1>4. owners = {OwnerOf(p)}
  BY <1>3
<1>5. OwnersIn(r)[f] = IF \E o \in owners : owners = {o}
                       THEN CHOOSE o \in owners : TRUE ELSE "nobody"
  BY DEF OwnersIn, places
<1> HIDE DEF owners
<1>6. QED
  BY <1>4, <1>5

\* From r to m, the frames of S go from place a to place b and every other frame
\* stays where it is ...
Shift(r, m, a, b, S) ==
    /\ S \in SUBSET Frame
    /\ \A f \in S : Holds(r, a, f) /\ Holds(m, b, f)
    /\ \A f \in Frame \ S : \A p \in Place : Holds(r, p, f) => Holds(m, p, f)

\* ... and the owner of a gives the frames of S to the owner of b.
Handed(r, m, a, b, S) ==
    /\ \A f \in S : OwnersIn(r)[f] = OwnerOf(a)
    /\ OwnersIn(m) = [f \in Frame |-> IF f \in S THEN OwnerOf(b) ELSE OwnersIn(r)[f]]

\* The one is the other.
LEMMA OwnersShift ==
    ASSUME NEW r, NEW m, Exclusive(r), Conserved(r), Exclusive(m),
           NEW a \in Place, NEW b \in Place, NEW S, Shift(r, m, a, b, S)
    PROVE  Handed(r, m, a, b, S)
<1>1. \A f \in S : OwnersIn(r)[f] = OwnerOf(a) /\ OwnersIn(m)[f] = OwnerOf(b)
  BY OwnerAt DEF Shift
<1>2. ASSUME NEW f \in Frame \ S PROVE OwnersIn(m)[f] = OwnersIn(r)[f]
  <2>1. PICK p \in Place : Holds(r, p, f)
    BY DEF Conserved, Holds
  <2>2. Holds(m, p, f)
    BY <2>1 DEF Shift
  <2>3. QED
    BY <2>1, <2>2, OwnerAt
<1>3. OwnersIn(m) = [f \in Frame |-> OwnersIn(m)[f]]
  BY DEF OwnersIn
<1>4. QED
  BY <1>1, <1>2, <1>3 DEF Handed

\* Move as a change of owners ...
LEMMA MoveOwners ==
    ASSUME NEW r \in Rings, NEW a \in Place, NEW b \in Place, a # b,
           NEW n \in Nat, n <= Count(r, a), Exclusive(r), Conserved(r)
    PROVE  LET S == First(r[a], n) IN
           /\ \A f \in S : OwnersIn(r)[f] = OwnerOf(a)
           /\ OwnersIn(Move(r, a, b, n)) =
                  [f \in Frame |-> IF f \in S THEN OwnerOf(b) ELSE OwnersIn(r)[f]]
<1> DEFINE m == Move(r, a, b, n)
           S == First(r[a], n)
<1>0. n <= Len(r[a])
  BY DEF Count
<1>1. \A p \in Place : Len(r[p]) \in Nat
  BY LenProperties DEF Rings
<1>2. /\ Len(m[a]) = Len(r[a]) - n
      /\ Len(m[b]) = Len(r[b]) + n
      /\ \A p \in Place \ {a, b} : m[p] = r[p]
      /\ \A i \in 1 .. (Len(r[a]) - n) : m[a][i] = r[a][i + n]
      /\ \A i \in 1 .. (Len(r[b]) + n) :
             m[b][i] = IF i <= Len(r[b]) THEN r[b][i] ELSE r[a][i - Len(r[b])]
  BY <1>0, MoveFacts
<1>3. Exclusive(m)
  BY <1>0, MoveExclusive
<1> HIDE DEF m
<1>4. ASSUME NEW f \in S PROVE Holds(r, a, f) /\ Holds(m, b, f)
  <2>1. PICK i \in 1 .. n : r[a][i] = f
    BY DEF First
  <2> DEFINE k == Len(r[b]) + i
  <2>2. k \in 1 .. (Len(r[b]) + n) /\ ~(k <= Len(r[b])) /\ k - Len(r[b]) = i
    BY <2>1, <1>1
  <2> HIDE DEF k
  <2>3. k \in 1 .. Len(m[b]) /\ m[b][k] = f
    BY <2>1, <2>2, <1>2
  <2>4. i \in 1 .. Len(r[a])
    BY <2>1, <1>0, <1>1
  <2>5. QED
    BY <2>1, <2>3, <2>4 DEF Holds
<1>5. ASSUME NEW f \in Frame \ S, NEW p \in Place, Holds(r, p, f)
      PROVE  Holds(m, p, f)
  <2>1. PICK i \in 1 .. Len(r[p]) : r[p][i] = f
    BY <1>5 DEF Holds
  <2>2. CASE p = a
    <3>1. ~(i \in 1 .. n)
      BY <2>1, <2>2 DEF First
    <3>2. i - n \in 1 .. Len(m[a]) /\ m[a][i - n] = f
      BY <3>1, <2>1, <2>2, <1>0, <1>1, <1>2
    <3>3. QED
      BY <3>2, <2>2 DEF Holds
  <2>3. CASE p = b
    <3>1. i \in 1 .. (Len(r[b]) + n) /\ i <= Len(r[b])
      BY <2>1, <2>3, <1>1
    <3>2. i \in 1 .. Len(m[b]) /\ m[b][i] = f
      BY <3>1, <2>1, <2>3, <1>2
    <3>3. QED
      BY <3>2, <2>3 DEF Holds
  <2>4. CASE p \notin {a, b}
    BY <2>1, <2>4, <1>2 DEF Holds
  <2>5. QED
    BY <2>2, <2>3, <2>4
<1>6. Shift(r, m, a, b, S)
  BY <1>4, <1>5 DEF Shift, First
<1> HIDE DEF S
<1>7. Handed(r, m, a, b, S)
  BY <1>0, <1>3, <1>6, OwnersShift
<1>8. QED
  BY <1>7 DEF S, m, Handed

\* ... Free ...
LEMMA FreeOwners ==
    ASSUME NEW r \in Rings, NEW a \in Place \ {"free"},
           NEW n \in Nat, n <= Count(r, a), Exclusive(r), Conserved(r)
    PROVE  LET S == First(r[a], n) IN
           /\ \A f \in S : OwnersIn(r)[f] = OwnerOf(a)
           /\ OwnersIn(Free(r, a, n)) =
                  [f \in Frame |-> IF f \in S THEN OwnerOf("free") ELSE OwnersIn(r)[f]]
<1> DEFINE m == Free(r, a, n)
           S == First(r[a], n)
<1>0. n <= Len(r[a]) /\ "free" \in Place /\ a \in Place
  BY DEF Count, Place
<1>l. n <= Len(r[a])
  BY <1>0
<1>1. \A p \in Place : Len(r[p]) \in Nat
  BY LenProperties DEF Rings
<1>2. /\ Len(m[a]) = Len(r[a]) - n
      /\ Len(m["free"]) = Len(r["free"]) + n
      /\ \A p \in Place \ {a, "free"} : m[p] = r[p]
      /\ \A i \in 1 .. (Len(r[a]) - n) : m[a][i] = r[a][i + n]
      /\ \A i \in 1 .. (n + Len(r["free"])) :
             m["free"][i] = IF i <= n THEN r[a][n + 1 - i] ELSE r["free"][i - n]
  <2>1. Len(m[a]) = Len(r[a]) - n /\ Len(m["free"]) = Len(r["free"]) + n
    BY <1>l, FreeFacts
  <2>2. \A p \in Place \ {a, "free"} : m[p] = r[p]
    BY <1>l, FreeFacts
  <2>3. \A i \in 1 .. (Len(r[a]) - n) : m[a][i] = r[a][i + n]
    BY <1>l, FreeFacts
  <2>4. \A i \in 1 .. (n + Len(r["free"])) :
            m["free"][i] = IF i <= n THEN r[a][n + 1 - i] ELSE r["free"][i - n]
    BY <1>l, FreeFacts
  <2>5. QED
    BY <2>1, <2>2, <2>3, <2>4
<1>3. Exclusive(m)
  BY <1>l, FreeExclusive
<1> HIDE DEF m
<1>4. ASSUME NEW f \in S PROVE Holds(r, a, f) /\ Holds(m, "free", f)
  <2>1. PICK i \in 1 .. n : r[a][i] = f
    BY DEF First
  <2> DEFINE k == n + 1 - i
  <2>2. k \in 1 .. (n + Len(r["free"])) /\ k <= n /\ n + 1 - k = i
    BY <2>1, <1>0, <1>1
  <2> HIDE DEF k
  <2>3. m["free"][k] = f
    BY <2>1, <2>2, <1>2
  <2>4. k \in 1 .. Len(m["free"])
    BY <2>2, <1>0, <1>1, <1>2
  <2>5. i \in 1 .. Len(r[a])
    BY <2>1, <1>0, <1>1
  <2>6. QED
    BY <2>1, <2>3, <2>4, <2>5 DEF Holds
<1>5. ASSUME NEW f \in Frame \ S, NEW p \in Place, Holds(r, p, f)
      PROVE  Holds(m, p, f)
  <2>1. PICK i \in 1 .. Len(r[p]) : r[p][i] = f
    BY <1>5 DEF Holds
  <2>2. CASE p = a
    <3>1. ~(i \in 1 .. n)
      BY <2>1, <2>2 DEF First
    <3>2. i - n \in 1 .. Len(m[a]) /\ m[a][i - n] = f
      BY <3>1, <2>1, <2>2, <1>0, <1>1, <1>2
    <3>3. QED
      BY <3>2, <2>2 DEF Holds
  <2>3. CASE p = "free"
    <3> DEFINE k == i + n
    <3>1. k \in 1 .. (n + Len(r["free"])) /\ ~(k <= n) /\ k - n = i
      BY <2>1, <2>3, <1>0, <1>1
    <3> HIDE DEF k
    <3>2. m["free"][k] = r["free"][k - n]
      BY <3>1, <1>2
    <3>3. k \in 1 .. Len(m["free"])
      BY <3>1, <1>0, <1>1, <1>2
    <3>4. m["free"][k] = f
      BY <3>1, <3>2, <2>1, <2>3
    <3>5. QED
      BY <3>3, <3>4, <2>3 DEF Holds
  <2>4. CASE p \notin {a, "free"}
    BY <2>1, <2>4, <1>2 DEF Holds
  <2>5. QED
    BY <2>2, <2>3, <2>4
<1>6. Shift(r, m, a, "free", S)
  BY <1>4, <1>5 DEF Shift, First
<1> HIDE DEF S
<1>7. Handed(r, m, a, "free", S)
  BY <1>0, <1>3, <1>6, OwnersShift
<1>8. QED
  BY <1>7 DEF S, m, Handed

\* ... and a refill, which gives away what the free list has.
LEMMA AllocOwners ==
    ASSUME NEW r \in Rings, NEW n \in Nat, Exclusive(r), Conserved(r)
    PROVE  LET S == First(r["free"], Lesser(n, Count(r, "free"))) IN
           /\ \A f \in S : OwnersIn(r)[f] = OwnerOf("free")
           /\ OwnersIn(AllocToFill(r, n)) =
                  [f \in Frame |-> IF f \in S THEN OwnerOf("fill") ELSE OwnersIn(r)[f]]
<1> DEFINE m    == AllocToFill(r, n)
           got  == Lesser(n, Count(r, "free"))
           fill == Len(r["fill"])
           S    == First(r["free"], got)
<1>0. "free" \in Place /\ "fill" \in Place
  BY DEF Place
<1>1. \A p \in Place : Len(r[p]) \in Nat
  BY LenProperties DEF Rings
<1>2. /\ got \in Nat /\ got <= n /\ got <= Len(r["free"])
      /\ Len(m["free"]) = Len(r["free"]) - got
      /\ Len(m["fill"]) = fill + n
      /\ \A p \in Place \ {"free", "fill"} : m[p] = r[p]
      /\ \A i \in 1 .. (Len(r["free"]) - got) : m["free"][i] = r["free"][i + got]
      /\ \A i \in 1 .. (fill + n) :
             m["fill"][i] = IF i <= fill THEN r["fill"][i]
                            ELSE IF i <= fill + got THEN r["free"][i - fill]
                            ELSE Invalid
  <2>1. got \in Nat /\ got <= n /\ got <= Len(r["free"])
    BY AllocFacts
  <2>2. Len(m["free"]) = Len(r["free"]) - got /\ Len(m["fill"]) = fill + n
    BY AllocFacts
  <2>3. \A p \in Place \ {"free", "fill"} : m[p] = r[p]
    BY AllocFacts
  <2>4. \A i \in 1 .. (Len(r["free"]) - got) : m["free"][i] = r["free"][i + got]
    BY AllocFacts
  <2>5. \A i \in 1 .. (fill + n) :
            m["fill"][i] = IF i <= fill THEN r["fill"][i]
                           ELSE IF i <= fill + got THEN r["free"][i - fill]
                           ELSE Invalid
    BY AllocFacts
  <2>6. QED
    BY <2>1, <2>2, <2>3, <2>4, <2>5
<1>3. Exclusive(m)
  BY AllocExclusive
<1> HIDE DEF m, got
<1>4. ASSUME NEW f \in S PROVE Holds(r, "free", f) /\ Holds(m, "fill", f)
  <2>1. PICK i \in 1 .. got : r["free"][i] = f
    BY DEF First
  <2> DEFINE k == fill + i
  <2>2. k \in 1 .. (fill + n) /\ ~(k <= fill) /\ k <= fill + got /\ k - fill = i
    BY <2>1, <1>0, <1>1, <1>2
  <2> HIDE DEF k
  <2>3. k \in 1 .. Len(m["fill"]) /\ m["fill"][k] = f
    BY <2>1, <2>2, <1>0, <1>1, <1>2
  <2>4. i \in 1 .. Len(r["free"])
    BY <2>1, <1>0, <1>1, <1>2
  <2>5. QED
    BY <2>1, <2>3, <2>4 DEF Holds
<1>5. ASSUME NEW f \in Frame \ S, NEW p \in Place, Holds(r, p, f)
      PROVE  Holds(m, p, f)
  <2>1. PICK i \in 1 .. Len(r[p]) : r[p][i] = f
    BY <1>5 DEF Holds
  <2>2. CASE p = "free"
    <3>1. ~(i \in 1 .. got)
      BY <2>1, <2>2 DEF First
    <3> DEFINE k == i - got
    <3>2. k \in 1 .. (Len(r["free"]) - got) /\ k + got = i
      BY <3>1, <2>1, <2>2, <1>0, <1>1, <1>2
    <3> HIDE DEF k
    <3>3. m["free"][k] = f
      BY <3>2, <2>1, <2>2, <1>2
    <3>4. QED
      BY <3>2, <3>3, <2>2, <1>2 DEF Holds
  <2>3. CASE p = "fill"
    <3>1. i \in 1 .. (fill + n) /\ i <= fill
      BY <2>1, <2>3, <1>0, <1>1
    <3>2. m["fill"][i] = f
      BY <3>1, <2>1, <2>3, <1>2
    <3>3. i \in 1 .. Len(m["fill"])
      BY <3>1, <1>2
    <3>4. QED
      BY <3>2, <3>3, <2>3 DEF Holds
  <2>4. CASE p \notin {"free", "fill"}
    BY <2>1, <2>4, <1>2 DEF Holds
  <2>5. QED
    BY <2>2, <2>3, <2>4
<1>6. Shift(r, m, "free", "fill", S)
  BY <1>4, <1>5 DEF Shift, First
<1> HIDE DEF S
<1>7. Handed(r, m, "free", "fill", S)
  BY <1>0, <1>3, <1>6, OwnersShift
<1>8. QED
  BY <1>7 DEF S, m, got, Handed

\* The size of a union is at most the sum of the sizes.
LEMMA UnionBounded ==
    ASSUME NEW A, NEW B, NEW x \in Nat, NEW y \in Nat,
           IsFiniteSet(A), Cardinality(A) <= x, IsFiniteSet(B), Cardinality(B) <= y
    PROVE  IsFiniteSet(A \cup B) /\ Cardinality(A \cup B) <= x + y
<1>1. /\ IsFiniteSet(A \cup B)
      /\ Cardinality(A \cup B) = Cardinality(A) + Cardinality(B) - Cardinality(A \cap B)
  BY FS_Union
<1>2. IsFiniteSet(A \cap B)
  BY FS_Subset
<1>3. Cardinality(A) \in Nat /\ Cardinality(B) \in Nat /\ Cardinality(A \cap B) \in Nat
  BY <1>2, FS_CardinalityType
<1>4. QED
  BY <1>1, <1>3

\* What the transmit side owns is at most what its three places have room for.
LEMMA TransmitBounded ==
    ASSUME NEW r \in Rings, Exclusive(r), Conserved(r)
    PROVE  LET T == {f \in Frame : OwnersIn(r)[f] = "transmit"} IN
           /\ IsFiniteSet(T)
           /\ Cardinality(T) <= Count(r, "tx") + Count(r, "infl") + Count(r, "comp")
<1> DEFINE T == {f \in Frame : OwnersIn(r)[f] = "transmit"}
           X == First(r["tx"], Count(r, "tx"))
           Y == First(r["infl"], Count(r, "infl"))
           Z == First(r["comp"], Count(r, "comp"))
<1>1. Count(r, "tx") \in Nat /\ Count(r, "infl") \in Nat /\ Count(r, "comp") \in Nat
  BY RingsCounts DEF CountsNat
<1>2. ASSUME NEW f \in T PROVE f \in X \cup Y \cup Z
  <2>1. PICK p \in Place : Holds(r, p, f)
    BY DEF Conserved, Holds
  <2>2. OwnerOf(p) = "transmit"
    BY <2>1, OwnerAt
  <2>3. p \in {"tx", "infl", "comp"}
    BY <2>2 DEF OwnerOf, Place
  <2>4. QED
    BY <2>1, <2>3 DEF Holds, First, Count
<1>3. /\ IsFiniteSet(X) /\ Cardinality(X) <= Count(r, "tx")
      /\ IsFiniteSet(Y) /\ Cardinality(Y) <= Count(r, "infl")
      /\ IsFiniteSet(Z) /\ Cardinality(Z) <= Count(r, "comp")
  BY <1>1, FirstCard
<1> HIDE DEF X, Y, Z
<1>4. /\ IsFiniteSet(X \cup Y)
      /\ Cardinality(X \cup Y) <= Count(r, "tx") + Count(r, "infl")
  BY <1>1, <1>3, UnionBounded
<1>5. /\ IsFiniteSet((X \cup Y) \cup Z)
      /\ Cardinality((X \cup Y) \cup Z) <= (Count(r, "tx") + Count(r, "infl")) + Count(r, "comp")
  <2>1. Count(r, "tx") + Count(r, "infl") \in Nat
    BY <1>1
  <2>2. QED
    BY <1>1, <1>3, <1>4, <2>1, UnionBounded
<1>6. T \in SUBSET ((X \cup Y) \cup Z)
  BY <1>2
<1> HIDE DEF T
<1>7. IsFiniteSet(T) /\ Cardinality(T) <= Cardinality((X \cup Y) \cup Z)
  BY <1>5, <1>6, FS_Subset
<1>8. Cardinality(T) \in Nat /\ Cardinality((X \cup Y) \cup Z) \in Nat
  BY <1>5, <1>7, FS_CardinalityType
<1>9. QED
  BY <1>1, <1>5, <1>7, <1>8 DEF T

-----------------------------------------------------------------------------
(* The steps of the pool as steps of the protocol *)

\* The owner of each place.
LEMMA OwnerValues ==
    /\ OwnerOf("free") = "pool" /\ OwnerOf("batch") = "thread"
    /\ OwnerOf("fill") = "receive" /\ OwnerOf("kheld") = "receive" /\ OwnerOf("rx") = "receive"
    /\ OwnerOf("tx") = "transmit" /\ OwnerOf("infl") = "transmit" /\ OwnerOf("comp") = "transmit"
BY DEF OwnerOf

\* The kernel's steps stay within one owner.
LEMMA SameOwner ==
    ASSUME NEW r \in Rings, NEW a \in Place, NEW b \in Place, a # b, OwnerOf(a) = OwnerOf(b),
           1 <= Count(r, a), Exclusive(r), Conserved(r)
    PROVE  OwnersIn(Move(r, a, b, 1)) = OwnersIn(r)
<1> DEFINE S == First(r[a], 1)
<1>1. /\ \A f \in S : OwnersIn(r)[f] = OwnerOf(a)
      /\ OwnersIn(Move(r, a, b, 1)) =
             [f \in Frame |-> IF f \in S THEN OwnerOf(b) ELSE OwnersIn(r)[f]]
  BY MoveOwners
<1> HIDE DEF S
<1>2. OwnersIn(r) = [f \in Frame |-> OwnersIn(r)[f]]
  BY DEF OwnersIn
<1>3. QED
  BY <1>1, <1>2

\* An invalid address is nobody's frame.
LEMMA SkipOwners ==
    ASSUME IInv, KernelSkipInvalid, IInv'
    PROVE  OwnersIn(ring') = OwnersIn(ring)
<1>1. /\ ring \in Rings /\ Exclusive(ring) /\ Conserved(ring) /\ Exclusive(ring')
  BY Ranges DEF IInv, FrameInv
<1>2. /\ Count(ring, "fill") > 0 /\ ring["fill"][1] = Invalid
      /\ ring' = [ring EXCEPT !["fill"] = Tail(@)]
  BY DEF KernelSkipInvalid
<1>3. "fill" \in Place /\ ring["fill"] \in Seq(Slot) /\ Len(ring["fill"]) \in Nat
  BY <1>1, LenProperties DEF Rings, Place
<1>4. /\ ring'["fill"] = Tail(ring["fill"])
      /\ \A p \in Place \ {"fill"} : ring'[p] = ring[p]
  BY <1>1, <1>2, <1>3 DEF Rings
<1>5. /\ Len(ring'["fill"]) = Len(ring["fill"]) - 1
      /\ \A i \in 1 .. (Len(ring["fill"]) - 1) : ring'["fill"][i] = ring["fill"][i + 1]
  <2>1. ring["fill"] # <<>>
    BY <1>2, EmptySeq DEF Count
  <2>2. /\ Len(Tail(ring["fill"])) = Len(ring["fill"]) - 1
        /\ \A i \in 1 .. Len(Tail(ring["fill"])) : Tail(ring["fill"])[i] = ring["fill"][i + 1]
    BY <1>3, <2>1, HeadTailProperties
  <2>3. QED
    BY <1>4, <2>2
<1>6. ASSUME NEW f \in Frame, NEW p \in Place, Holds(ring, p, f)
      PROVE  Holds(ring', p, f)
  <2>1. PICK i \in 1 .. Len(ring[p]) : ring[p][i] = f
    BY <1>6 DEF Holds
  <2>2. CASE p = "fill"
    <3>1. f # Invalid
      BY Sizes DEF Frame, Invalid
    <3>2. i # 1
      BY <3>1, <2>1, <2>2, <1>2
    <3> DEFINE k == i - 1
    <3>3. k \in 1 .. (Len(ring["fill"]) - 1) /\ k + 1 = i
      BY <3>2, <2>1, <2>2, <1>3
    <3> HIDE DEF k
    <3>4. ring'["fill"][k] = f
      BY <3>3, <2>1, <2>2, <1>5
    <3>5. QED
      BY <3>3, <3>4, <2>2, <1>5 DEF Holds
  <2>3. CASE p # "fill"
    BY <2>1, <2>3, <1>4 DEF Holds
  <2>4. QED
    BY <2>2, <2>3
<1>7. ASSUME NEW f \in Frame PROVE OwnersIn(ring')[f] = OwnersIn(ring)[f]
  <2>1. PICK p \in Place : Holds(ring, p, f)
    BY <1>1 DEF Conserved, Holds
  <2>2. Holds(ring', p, f)
    BY <2>1, <1>6
  <2>3. QED
    BY <2>1, <2>2, <1>1, OwnerAt
<1>8. /\ OwnersIn(ring) = [f \in Frame |-> OwnersIn(ring)[f]]
      /\ OwnersIn(ring') = [f \in Frame |-> OwnersIn(ring')[f]]
  BY DEF OwnersIn
<1>9. QED
  BY <1>7, <1>8

\* afxdp_configure_socket: every frame is on the free list or the fill ring.
LEMMA OwnerInit == Init => Owners!Init
<1> SUFFICES ASSUME Init PROVE Owners!Init
  OBVIOUS
<1>1. IInv
  BY InitIInv
<1>2. /\ ring \in Rings /\ Exclusive(ring) /\ Conserved(ring) /\ CountsNat(ring)
      /\ Count(ring, "batch") = 0
      /\ Count(ring, "tx") + Count(ring, "infl") + Count(ring, "comp") = 0
  BY <1>1, Ranges
     DEF IInv, FrameInv, ThreadInv, OutstandingExact, BatchLength, Init
<1>3. ASSUME NEW f \in Frame PROVE OwnersIn(ring)[f] \in {"pool", "receive"}
  <2>1. PICK p \in Place : Holds(ring, p, f)
    BY <1>2 DEF Conserved, Holds
  <2>2. Count(ring, p) # 0
    BY <2>1 DEF Holds, Count
  <2>3. p \in {"free", "fill", "kheld", "rx"}
    BY <2>2, <1>2 DEF Place, CountsNat
  <2>4. QED
    BY <2>1, <2>3, <1>2, OwnerAt, OwnerValues
<1>4. OwnersIn(ring) = [f \in Frame |-> OwnersIn(ring)[f]]
  BY DEF OwnersIn
<1>5. QED
  BY <1>3, <1>4 DEF Owners!Init, OwnerMap

\* What a change of owners says in the words of the protocol.
LEMMA GiveStep ==
    ASSUME NEW S, NEW o,
           OwnersIn(ring') = [f \in Frame |-> IF f \in S THEN o ELSE OwnersIn(ring)[f]]
    PROVE  Owners!Give(S, o)
BY DEF Owners!Give, OwnerMap

\* The protocol counts with the same cardinality.
LEMMA SameCardinality == \A S : Owners!Cardinality(S) = Cardinality(S)
BY DEF Owners!Cardinality, Cardinality

\* The frames that the RX thread owns are those of its batch.
LEMMA ThreadOwns ==
    ASSUME Exclusive(ring), Conserved(ring)
    PROVE  Owners!Owned("thread") = First(ring["batch"], Count(ring, "batch"))
<1>1. ASSUME NEW f \in Owners!Owned("thread")
      PROVE  f \in First(ring["batch"], Count(ring, "batch"))
  <2>1. f \in Frame /\ OwnersIn(ring)[f] = "thread"
    BY DEF Owners!Owned, OwnerMap
  <2>2. PICK p \in Place : Holds(ring, p, f)
    BY <2>1 DEF Conserved, Holds
  <2>3. OwnerOf(p) = "thread"
    BY <2>1, <2>2, OwnerAt
  <2>4. p = "batch"
    BY <2>3 DEF OwnerOf, Place
  <2>5. QED
    BY <2>1, <2>2, <2>4 DEF Holds, First, Count
<1>2. ASSUME NEW f \in First(ring["batch"], Count(ring, "batch"))
      PROVE  f \in Owners!Owned("thread")
  <2>1. f \in Frame /\ Holds(ring, "batch", f) /\ "batch" \in Place
    BY DEF Holds, First, Count, Place
  <2>2. OwnersIn(ring)[f] = "thread"
    BY <2>1, OwnerAt, OwnerValues
  <2>3. QED
    BY <2>1, <2>2 DEF Owners!Owned, OwnerMap
<1>3. QED
  BY <1>1, <1>2

\* A step of the RX thread passes frames on, or leaves them where they are.
LEMMA RxThreadOwners ==
    ASSUME IInv, RxThread, IInv'
    PROVE  Owners!Next \/ OwnerMap' = OwnerMap
<1>1. /\ ring \in Rings /\ CountsNat(ring) /\ Exclusive(ring) /\ Conserved(ring)
      /\ seen \in Nat /\ rcvd \in Nat /\ stock \in Nat /\ toTx \in Nat
  BY Ranges DEF IInv, FrameInv
<1>2. ThreadInv
  BY DEF IInv
<1>3. CASE EnterPass \/ ReadStock \/ ReserveTx
  BY <1>3 DEF EnterPass, ReadStock, ReserveTx, OwnerMap
<1>4. CASE DrainCompletions
  <2> DEFINE n == Count(ring, "comp")
             S == First(ring["comp"], n)
  <2>1. ring' = Free(ring, "comp", n) /\ n \in Nat /\ n <= Count(ring, "comp")
    BY <1>1, <1>4 DEF DrainCompletions, CountsNat
  <2>2. "comp" \in Place \ {"free"} /\ S \in SUBSET Frame
    BY DEF Place, First
  <2> HIDE DEF n
  <2>3. /\ \A f \in S : OwnersIn(ring)[f] = "transmit"
        /\ OwnersIn(ring') = [f \in Frame |-> IF f \in S THEN "pool" ELSE OwnersIn(ring)[f]]
    BY <1>1, <2>1, <2>2, FreeOwners, OwnerValues
  <2> HIDE DEF S
  <2>4. S \in SUBSET Owners!Owned("transmit")
    BY <2>2, <2>3 DEF Owners!Owned, OwnerMap
  <2>5. Owners!Give(S, "pool")
    BY <2>3, GiveStep
  <2>6. QED
    BY <2>4, <2>5 DEF Owners!Next, Owners!Reclaim
<1>5. CASE PeekRx
  <2> DEFINE avail == IF seen > 0 THEN seen ELSE Count(ring, "rx")
             n     == Lesser(avail, BatchSize)
             S     == First(ring["rx"], n)
  <2>1. ring' = Move(ring, "rx", "batch", n) /\ pc = "peek"
    BY <1>5 DEF PeekRx
  <2>2. avail \in Nat /\ avail <= Count(ring, "rx")
    BY <1>1, <1>2 DEF ThreadInv, CountsNat
  <2> HIDE DEF avail
  <2>3. n \in Nat /\ n <= avail /\ n <= BatchSize
    BY <2>2, Sizes DEF Lesser
  <2>4. n <= Count(ring, "rx")
    BY <1>1, <2>2, <2>3 DEF CountsNat
  <2>5. "rx" \in Place /\ "batch" \in Place /\ S \in SUBSET Frame
    BY DEF Place, First
  <2> HIDE DEF n
  <2>6. /\ \A f \in S : OwnersIn(ring)[f] = "receive"
        /\ OwnersIn(ring') = [f \in Frame |-> IF f \in S THEN "thread" ELSE OwnersIn(ring)[f]]
    BY <1>1, <2>1, <2>3, <2>4, <2>5, MoveOwners, OwnerValues
  <2>7. Cardinality(S) <= BatchSize
    <3>1. IsFiniteSet(S) /\ Cardinality(S) <= n
      BY <2>3, FirstCard
    <3>2. Cardinality(S) \in Nat
      BY <3>1, FS_CardinalityType
    <3>3. QED
      BY <2>3, <3>1, <3>2, Sizes
  <2> HIDE DEF S
  <2>8. Owners!Owned("thread") = {}
    <3>1. Count(ring, "batch") = 0
      BY <1>2, <2>1 DEF ThreadInv, BatchLength
    <3>2. First(ring["batch"], 0) = {}
      BY DEF First
    <3>3. QED
      BY <1>1, <3>1, <3>2, ThreadOwns
  <2>9. S \in SUBSET Owners!Owned("receive")
    BY <2>5, <2>6 DEF Owners!Owned, OwnerMap
  <2>10. Owners!Give(S, "thread")
    BY <2>6, GiveStep
  <2>11. QED
    BY <2>7, <2>8, <2>9, <2>10, SameCardinality DEF Owners!Next, Owners!Take
<1>6. CASE RefillFillRing
  <2> DEFINE S == First(ring["free"], Lesser(stock, Count(ring, "free")))
  <2>1. ring' = AllocToFill(ring, stock)
    BY <1>6 DEF RefillFillRing
  <2>2. S \in SUBSET Frame
    BY DEF First
  <2>3. /\ \A f \in S : OwnersIn(ring)[f] = "pool"
        /\ OwnersIn(ring') = [f \in Frame |-> IF f \in S THEN "receive" ELSE OwnersIn(ring)[f]]
    BY <1>1, <2>1, AllocOwners, OwnerValues
  <2> HIDE DEF S
  <2>4. S \in SUBSET Owners!Owned("pool")
    BY <2>2, <2>3 DEF Owners!Owned, OwnerMap
  <2>5. Owners!Give(S, "receive")
    BY <2>3, GiveStep
  <2>6. QED
    BY <2>4, <2>5 DEF Owners!Next, Owners!Supply
<1>7. CASE BounceBatch
  <2> DEFINE S == First(ring["batch"], toTx)
             T == {f \in Frame : OwnersIn(ring')[f] = "transmit"}
  <2>1. ring' = Move(ring, "batch", "tx", toTx) /\ pc = "bounce"
    BY <1>7 DEF BounceBatch
  <2>2. toTx <= Count(ring, "batch")
    BY <1>1, <1>2, <2>1 DEF ThreadInv, BatchLength
  <2>3. "batch" \in Place /\ "tx" \in Place /\ S \in SUBSET Frame
    BY DEF Place, First
  <2>4. /\ \A f \in S : OwnersIn(ring)[f] = "thread"
        /\ OwnersIn(ring') = [f \in Frame |-> IF f \in S THEN "transmit" ELSE OwnersIn(ring)[f]]
    BY <1>1, <2>1, <2>2, <2>3, MoveOwners, OwnerValues
  <2>5. /\ ring' \in Rings /\ CountsNat(ring') /\ Exclusive(ring') /\ Conserved(ring')
        /\ Count(ring', "tx") <= TxSize
        /\ Count(ring', "infl") + Count(ring', "comp") <= CompSize
    <3>1. TypeOK' /\ Exclusive(ring') /\ Conserved(ring') /\ ThreadInv'
      BY DEF IInv, FrameInv
    <3>2. ring' \in Rings
      BY <3>1 DEF TypeOK, Rings, Slot
    <3>3. QED
      BY <3>1, <3>2, RingsCounts DEF ThreadInv, RingsBounded
  <2>6. /\ IsFiniteSet(T)
        /\ Cardinality(T) <= Count(ring', "tx") + Count(ring', "infl") + Count(ring', "comp")
    BY <2>5, TransmitBounded
  <2>7. Cardinality(T) <= TxSize + CompSize
    <3>1. Cardinality(T) \in Nat
      BY <2>6, FS_CardinalityType
    <3> HIDE DEF T
    <3>2. QED
      BY <3>1, <2>5, <2>6, Sizes DEF CountsNat
  <2> HIDE DEF S
  <2>8. Owners!Owned("transmit") \cup S = T
    BY <2>3, <2>4 DEF Owners!Owned, OwnerMap
  <2> HIDE DEF T
  <2>9. S \in SUBSET Owners!Owned("thread")
    BY <2>3, <2>4 DEF Owners!Owned, OwnerMap
  <2>10. Owners!Give(S, "transmit")
    BY <2>4, GiveStep
  <2>11. QED
    BY <2>7, <2>8, <2>9, <2>10, SameCardinality DEF Owners!Next, Owners!Send
<1>8. CASE FreeRestAndRelease
  <2> DEFINE n == rcvd - toTx
             S == First(ring["batch"], n)
  <2>1. ring' = Free(ring, "batch", n) /\ pc = "release"
    BY <1>8 DEF FreeRestAndRelease
  <2>2. n \in Nat /\ n = Count(ring, "batch")
    BY <1>1, <1>2, <2>1 DEF ThreadInv, BatchLength
  <2> HIDE DEF n
  <2>3. "batch" \in Place \ {"free"} /\ n <= Count(ring, "batch")
    BY <2>2 DEF Place
  <2>4. OwnersIn(ring') = [f \in Frame |-> IF f \in S THEN "pool" ELSE OwnersIn(ring)[f]]
    BY <1>1, <2>1, <2>2, <2>3, FreeOwners, OwnerValues
  <2>5. S = Owners!Owned("thread")
    BY <1>1, <2>2, ThreadOwns
  <2> HIDE DEF S
  <2>6. Owners!Give(S, "pool")
    BY <2>4, GiveStep
  <2>7. QED
    BY <2>5, <2>6 DEF Owners!Next, Owners!Drop
<1>9. QED
  BY <1>3, <1>4, <1>5, <1>6, <1>7, <1>8 DEF RxThread

\* The kernel works within the receive side and within the transmit side.
LEMMA KernelOwners ==
    ASSUME IInv, Kernel, IInv'
    PROVE  OwnerMap' = OwnerMap
<1>1. /\ ring \in Rings /\ CountsNat(ring) /\ Exclusive(ring) /\ Conserved(ring)
  BY Ranges DEF IInv, FrameInv
<1>2. ASSUME NEW a \in Place, NEW b \in Place, a # b, OwnerOf(a) = OwnerOf(b),
             Count(ring, a) > 0, ring' = Move(ring, a, b, 1)
      PROVE  OwnerMap' = OwnerMap
  <2>1. Count(ring, a) \in Nat
    BY <1>1, <1>2 DEF CountsNat, Place
  <2>2. 1 <= Count(ring, a)
    BY <1>2, <2>1
  <2>3. QED
    BY <1>1, <1>2, <2>2, SameOwner DEF OwnerMap
<1>3. Place = {"free", "fill", "kheld", "rx", "batch", "tx", "infl", "comp"}
  BY DEF Place
<1>4. CASE KernelTakeFill
  BY <1>2, <1>3, <1>4, OwnerValues DEF KernelTakeFill
<1>5. CASE KernelSkipInvalid
  BY <1>5, SkipOwners DEF OwnerMap
<1>6. CASE KernelDeliver
  BY <1>2, <1>3, <1>6, OwnerValues DEF KernelDeliver
<1>7. CASE KernelTakeTx
  BY <1>2, <1>3, <1>7, OwnerValues DEF KernelTakeTx
<1>8. CASE KernelCompleteTx
  BY <1>2, <1>3, <1>8, OwnerValues DEF KernelCompleteTx
<1>9. QED
  BY <1>4, <1>5, <1>6, <1>7, <1>8 DEF Kernel

\* Every step of the pool is a step of the protocol, or none.
LEMMA OwnerStep == IInv /\ [Next]_vars => [Owners!Next]_OwnerMap
<1> SUFFICES ASSUME IInv, [Next]_vars PROVE Owners!Next \/ OwnerMap' = OwnerMap
  OBVIOUS
<1>1. IInv'
  BY NextIInv
<1>2. CASE RxThread
  BY <1>1, <1>2, RxThreadOwners
<1>3. CASE Kernel
  BY <1>1, <1>3, KernelOwners
<1>4. CASE UNCHANGED vars
  BY <1>4 DEF vars, OwnerMap
<1>5. QED
  BY <1>2, <1>3, <1>4 DEF Next

\* The pool and the kernel, as afxdp_handle_receive, afxdp_complete_tx and the
\* four rings have them pass frames on, keep to the ownership protocol whatever
\* the number of frames and the sizes of the rings are.
THEOREM OwnershipImplemented == Spec => OwnershipFollowed
BY InvariantIInv, OwnerInit, OwnerStep, PTL DEF Spec, OwnershipFollowed, Owners!Spec
=============================================================================

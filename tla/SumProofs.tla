----------------------------- MODULE SumProofs -----------------------------
(***************************************************************************)
(* Sums over finite sets.  MapThenSumSet of the community modules folds    *)
(* with a recursive function over the subsets; SumOver is that fold for a  *)
(* function f.  Nothing here is proved by induction over the set: a subset *)
(* for which a claim fails would have a smallest one among its like, and   *)
(* that is refuted by one step of the fold.  At the end, queues that share *)
(* their elements with a pool, each of them in one place.                  *)
(***************************************************************************)
EXTENDS Integers, Sequences, FiniteSets, FiniteSetTheorems, SequenceTheorems, NaturalsInduction,
        WellFoundedInduction, TLAPS

\* The element that a fold takes first.
Chosen(s) == CHOOSE x \in s : TRUE

\* The sums of f over the sets of D, in the order of the fold.
Sums(D, f, g) ==
    g = [s \in D |-> IF s = {} THEN 0 ELSE f[Chosen(s)] + g[s \ {Chosen(s)}]]

Partial(S, f) == CHOOSE g : Sums(SUBSET S, f, g)

SumOver(S, f) == Partial(S, f)[S]

\* A set of natural numbers has a smallest element.
LEMMA LeastNat ==
    ASSUME NEW N \in SUBSET Nat, N # {}
    PROVE  \E m \in N : \A x \in N : m <= x
<1>1. PICK m \in N : \A x \in N : ~(<<x, m>> \in OpToRel(<, Nat))
  BY NatLessThanWellFounded, WFMin
<1>2. ASSUME NEW x \in N PROVE m <= x
  <2>1. x \in Nat /\ m \in Nat
    OBVIOUS
  <2>2. <<x, m>> \in OpToRel(<, Nat) <=> x < m
    BY <2>1 DEF OpToRel
  <2>3. ~(x < m)
    BY <1>1, <2>2, Zenon
  <2>4. QED
    BY <2>1, <2>3
<1>3. QED
  BY <1>2

\* A set with fewer elements is left when the chosen one is taken out.
LEMMA ChosenOut ==
    ASSUME NEW S, IsFiniteSet(S), NEW s \in SUBSET S, s # {}
    PROVE  /\ Chosen(s) \in s /\ s \ {Chosen(s)} \in SUBSET S
           /\ Cardinality(s) \in Nat \ {0}
           /\ Cardinality(s \ {Chosen(s)}) = Cardinality(s) - 1
<1>1. Chosen(s) \in s
  BY DEF Chosen
<1>2. IsFiniteSet(s)
  BY FS_Subset
<1>3. Cardinality(s) \in Nat /\ Cardinality(s) # 0
  BY <1>2, FS_CardinalityType, FS_EmptySet
<1>4. Cardinality(s \ {Chosen(s)}) = Cardinality(s) - 1
  BY <1>1, <1>2, FS_RemoveElement
<1>5. QED
  BY <1>1, <1>3, <1>4

Small(S, n) == {s \in SUBSET S : Cardinality(s) <= n}

\* Sums over larger sets come from those over smaller ones.
LEMMA SumsGrow ==
    ASSUME NEW S, IsFiniteSet(S), NEW f, NEW n \in Nat, NEW h, Sums(Small(S, n), f, h)
    PROVE  \E g : Sums(Small(S, n + 1), f, g)
<1> DEFINE g == [s \in Small(S, n + 1) |->
                    IF s = {} THEN 0 ELSE f[Chosen(s)] + h[s \ {Chosen(s)}]]
<1>1. ASSUME NEW s \in Small(S, n) PROVE s \in Small(S, n + 1) /\ g[s] = h[s]
  <2>1. s \in SUBSET S /\ Cardinality(s) <= n
    BY <1>1 DEF Small
  <2>2. Cardinality(s) \in Nat
    BY <2>1, FS_Subset, FS_CardinalityType
  <2>3. s \in Small(S, n + 1)
    BY <2>1, <2>2 DEF Small
  <2>4. h[s] = IF s = {} THEN 0 ELSE f[Chosen(s)] + h[s \ {Chosen(s)}]
    BY <1>1 DEF Sums
  <2>5. QED
    BY <2>3, <2>4
<1>2. ASSUME NEW s \in Small(S, n + 1), s # {} PROVE s \ {Chosen(s)} \in Small(S, n)
  <2>1. s \in SUBSET S /\ Cardinality(s) <= n + 1
    BY <1>2 DEF Small
  <2>2. QED
    BY <1>2, <2>1, ChosenOut DEF Small
<1>3. g = [s \in Small(S, n + 1) |-> IF s = {} THEN 0 ELSE f[Chosen(s)] + g[s \ {Chosen(s)}]]
  BY <1>1, <1>2
<1>4. QED
  BY <1>3 DEF Sums

\* There are such sums, so that Partial(S, f) has them.
LEMMA PartialSums ==
    ASSUME NEW S, IsFiniteSet(S), NEW f
    PROVE  Sums(SUBSET S, f, Partial(S, f))
<1> DEFINE Bad == {n \in Nat : \A g : ~Sums(Small(S, n), f, g)}
<1>1. Bad = {}
  <2>1. SUFFICES ASSUME Bad # {} PROVE FALSE
    OBVIOUS
  <2>2. PICK m \in Bad : \A x \in Bad : m <= x
    BY <2>1, LeastNat
  <2>3. m # 0
    <3>1. SUFFICES ASSUME m = 0 PROVE \E g : Sums(Small(S, 0), f, g)
      BY <2>2
    <3>2. ASSUME NEW s \in Small(S, 0) PROVE s = {}
      BY <3>2, FS_Subset, FS_CardinalityType, FS_EmptySet DEF Small
    <3>3. PICK g : g = [s \in Small(S, 0) |-> 0]
      OBVIOUS
    <3>4. g = [s \in Small(S, 0) |-> IF s = {} THEN 0 ELSE f[Chosen(s)] + g[s \ {Chosen(s)}]]
      BY <3>2, <3>3
    <3>5. QED
      BY <3>4 DEF Sums
  <2>4. m \in Nat /\ m - 1 \in Nat /\ m - 1 \notin Bad /\ (m - 1) + 1 = m
    BY <2>2, <2>3
  <2>5. PICK h : Sums(Small(S, m - 1), f, h)
    BY <2>4
  <2>6. \E g : Sums(Small(S, m), f, g)
    BY <2>4, <2>5, SumsGrow
  <2>7. QED
    BY <2>2, <2>6
<1>2. Cardinality(S) \in Nat
  BY FS_CardinalityType
<1>3. \E g : Sums(Small(S, Cardinality(S)), f, g)
  BY <1>1, <1>2
<1>4. Small(S, Cardinality(S)) = SUBSET S
  BY FS_Subset DEF Small
<1>5. QED
  BY <1>3, <1>4 DEF Partial

\* One step of the sum.
LEMMA PartialStep ==
    ASSUME NEW S, IsFiniteSet(S), NEW f, NEW s \in SUBSET S
    PROVE  Partial(S, f)[s] = IF s = {} THEN 0 ELSE f[Chosen(s)] + Partial(S, f)[s \ {Chosen(s)}]
<1>1. PICK g : g = Partial(S, f)
  OBVIOUS
<1>2. Sums(SUBSET S, f, g)
  BY <1>1, PartialSums
<1>3. g[s] = IF s = {} THEN 0 ELSE f[Chosen(s)] + g[s \ {Chosen(s)}]
  BY <1>2 DEF Sums
<1>4. QED
  BY <1>1, <1>3

\* A set of subsets has one with the fewest elements.
LEMMA Fewest ==
    ASSUME NEW S, IsFiniteSet(S), NEW B \in SUBSET SUBSET S, B # {}
    PROVE  \E s \in B : s # {} => s \ {Chosen(s)} \notin B
<1> DEFINE N == {Cardinality(s) : s \in B}
<1>1. N \in SUBSET Nat /\ N # {}
  BY FS_Subset, FS_CardinalityType
<1>2. PICK s \in B : \A t \in B : Cardinality(s) <= Cardinality(t)
  <2>1. PICK n \in N : \A k \in N : n <= k
    <3> HIDE DEF N
    <3>1. QED
      BY <1>1, LeastNat
  <2>2. PICK s \in B : n = Cardinality(s)
    BY <2>1
  <2>3. QED
    BY <2>1, <2>2
<1>3. ASSUME s # {}, s \ {Chosen(s)} \in B PROVE FALSE
  <2>1. Cardinality(s) <= Cardinality(s \ {Chosen(s)})
    BY <1>2, <1>3
  <2>2. Cardinality(s) \in Nat /\ Cardinality(s \ {Chosen(s)}) = Cardinality(s) - 1
    BY <1>3, ChosenOut
  <2>3. QED
    BY <2>1, <2>2
<1>4. QED
  BY <1>3

\* Sums of integers are integers, and sums of nothing but zeros are zero.
LEMMA PartialType ==
    ASSUME NEW S, IsFiniteSet(S), NEW f, \A x \in S : f[x] \in Int, NEW t \in SUBSET S
    PROVE  Partial(S, f)[t] \in Int /\ ((\A c \in S : f[c] = 0) => Partial(S, f)[t] = 0)
<1> DEFINE OK(s) == Partial(S, f)[s] \in Int /\ ((\A c \in S : f[c] = 0) => Partial(S, f)[s] = 0)
           B == {s \in SUBSET S : ~OK(s)}
<1>1. SUFFICES ASSUME B # {} PROVE FALSE
  OBVIOUS
<1>2. PICK s \in B : s # {} => s \ {Chosen(s)} \notin B
  <2>1. B \in SUBSET SUBSET S
    OBVIOUS
  <2> HIDE DEF B
  <2>2. QED
    BY <1>1, <2>1, Fewest
<1>3. CASE s = {}
  <2>1. Partial(S, f)[{}] = 0
    BY PartialStep
  <2>2. QED
    BY <1>2, <1>3, <2>1
<1>4. CASE s # {}
  <2>1. Chosen(s) \in S /\ s \ {Chosen(s)} \in SUBSET S
    BY <1>2, <1>4, ChosenOut
  <2>2. OK(s \ {Chosen(s)})
    BY <1>2, <1>4, <2>1
  <2>3. Partial(S, f)[s] = f[Chosen(s)] + Partial(S, f)[s \ {Chosen(s)}] /\ f[Chosen(s)] \in Int
    <3>1. s \in SUBSET S
      BY <1>2
    <3>2. f[Chosen(s)] \in Int
      BY <2>1
    <3>3. QED
      BY <1>4, <3>1, <3>2, PartialStep
  <2>4. OK(s)
    BY <2>1, <2>2, <2>3
  <2>5. QED
    BY <1>2, <2>4
<1>5. QED
  BY <1>3, <1>4

\* When one term changes, the sums over the sets that contain it change with it.
LEMMA PartialChange ==
    ASSUME NEW S, IsFiniteSet(S), NEW f, \A x \in S : f[x] \in Int,
           NEW e, \A x \in S : e[x] \in Int, NEW c \in S, NEW t \in SUBSET S,
           \A x \in S \ {c} : e[x] = f[x]
    PROVE  /\ c \in t => Partial(S, e)[t] = Partial(S, f)[t] + (e[c] - f[c])
           /\ c \notin t => Partial(S, e)[t] = Partial(S, f)[t]
<1>1. e[c] \in Int /\ f[c] \in Int
  OBVIOUS
<1> DEFINE OK(s) == /\ c \in s => Partial(S, e)[s] = Partial(S, f)[s] + (e[c] - f[c])
                    /\ c \notin s => Partial(S, e)[s] = Partial(S, f)[s]
           B == {s \in SUBSET S : ~OK(s)}
<1>2. SUFFICES ASSUME B # {} PROVE FALSE
  OBVIOUS
<1>3. PICK s \in B : s # {} => s \ {Chosen(s)} \notin B
  <2>1. B \in SUBSET SUBSET S
    OBVIOUS
  <2> HIDE DEF B
  <2>2. QED
    BY <1>2, <2>1, Fewest
<1>4. CASE s = {}
  <2>1. Partial(S, f)[{}] = 0 /\ Partial(S, e)[{}] = 0
    BY PartialStep
  <2>2. QED
    BY <1>3, <1>4, <2>1
<1>5. CASE s # {}
  <2> DEFINE x == Chosen(s)
             r == s \ {Chosen(s)}
  <2>1. x \in S /\ r \in SUBSET S /\ x \in s /\ (c \in s <=> x = c \/ c \in r) /\ ~(x \in r)
    <3>1. s \in SUBSET S
      BY <1>3
    <3>2. Chosen(s) \in s
      BY <1>5, <3>1, ChosenOut
    <3>3. QED
      BY <3>1, <3>2
  <2>2. OK(r)
    BY <1>3, <1>5, <2>1
  <2>3. Partial(S, f)[s] = f[x] + Partial(S, f)[r] /\ Partial(S, e)[s] = e[x] + Partial(S, e)[r]
    BY <1>3, <1>5, PartialStep
  <2>4. /\ Partial(S, f)[r] \in Int /\ Partial(S, e)[r] \in Int
        /\ f[x] \in Int /\ f[c] \in Int
    BY <1>1, <2>1, PartialType
  <2> HIDE DEF x, r
  <2>5. OK(s)
    <3>1. CASE x = c
      BY <1>1, <2>1, <2>2, <2>3, <2>4, <3>1
    <3>2. CASE x # c
      BY <1>1, <2>1, <2>2, <2>3, <2>4, <3>2
    <3>3. QED
      BY <3>1, <3>2
  <2>6. QED
    BY <1>3, <2>5
<1>6. QED
  BY <1>4, <1>5

\* A set of sets with no smaller one among them.
LEMMA Smallest ==
    ASSUME NEW S, IsFiniteSet(S), NEW B \in SUBSET SUBSET S, B # {}
    PROVE  \E s \in B : \A x \in s : s \ {x} \notin B
<1> DEFINE N == {Cardinality(s) : s \in B}
<1>1. N \in SUBSET Nat /\ N # {}
  BY FS_Subset, FS_CardinalityType
<1>2. PICK s \in B : \A t \in B : Cardinality(s) <= Cardinality(t)
  <2>1. PICK n \in N : \A k \in N : n <= k
    <3> HIDE DEF N
    <3>1. QED
      BY <1>1, LeastNat
  <2>2. PICK s \in B : n = Cardinality(s)
    BY <2>1
  <2>3. QED
    BY <2>1, <2>2
<1>3. ASSUME NEW x \in s, s \ {x} \in B PROVE FALSE
  <2>1. Cardinality(s) <= Cardinality(s \ {x})
    BY <1>2, <1>3
  <2>2. IsFiniteSet(s)
    BY FS_Subset
  <2>3. Cardinality(s) \in Nat /\ Cardinality(s \ {x}) = Cardinality(s) - 1
    BY <2>2, FS_CardinalityType, FS_RemoveElement
  <2>4. QED
    BY <2>1, <2>3
<1>4. QED
  BY <1>3

\* Any element may be taken first.
LEMMA PartialAny ==
    ASSUME NEW S, IsFiniteSet(S), NEW f, \A x \in S : f[x] \in Int, NEW t \in SUBSET S, NEW y \in t
    PROVE  Partial(S, f)[t] = f[y] + Partial(S, f)[t \ {y}]
<1>1. PICK g : g = Partial(S, f)
  OBVIOUS
<1>2. /\ \A s \in SUBSET S : g[s] \in Int
      /\ \A s \in SUBSET S : s # {} => g[s] = f[Chosen(s)] + g[s \ {Chosen(s)}] /\ Chosen(s) \in s
  <2>1. ASSUME NEW s \in SUBSET S PROVE g[s] \in Int
    BY <1>1, PartialType
  <2>2. ASSUME NEW s \in SUBSET S, s # {} PROVE g[s] = f[Chosen(s)] + g[s \ {Chosen(s)}]
    <3>1. Sums(SUBSET S, f, g)
      BY <1>1, PartialSums
    <3>2. QED
      BY <2>2, <3>1 DEF Sums
  <2>3. ASSUME NEW s \in SUBSET S, s # {} PROVE Chosen(s) \in s
    BY <2>3, ChosenOut
  <2>4. QED
    BY <2>1, <2>2, <2>3
<1> DEFINE OK(s) == \A z \in s : g[s] = f[z] + g[s \ {z}]
           B == {s \in SUBSET S : ~OK(s)}
<1>3. SUFFICES ASSUME B # {} PROVE FALSE
  BY <1>1
<1>4. PICK s \in B : \A x \in s : s \ {x} \notin B
  <2>1. B \in SUBSET SUBSET S
    OBVIOUS
  <2> HIDE DEF B
  <2>2. QED
    BY <1>3, <2>1, Smallest
<1>5. PICK z \in s : g[s] # f[z] + g[s \ {z}]
  BY <1>4
<1>6. PICK x \in s : x = Chosen(s) /\ g[s] = f[x] + g[s \ {x}]
  BY <1>2, <1>4, <1>5
<1>7. x # z
  BY <1>5, <1>6
<1>8. OK(s \ {x}) /\ OK(s \ {z})
  BY <1>4
<1>9. PICK r \in SUBSET S : r = (s \ {x}) \ {z} /\ r = (s \ {z}) \ {x}
  BY <1>4
<1>10. g[s \ {x}] = f[z] + g[r]
  <2>1. z \in s \ {x}
    BY <1>7
  <2>2. g[s \ {x}] = f[z] + g[(s \ {x}) \ {z}]
    BY <1>8, <2>1
  <2>3. QED
    BY <1>9, <2>2
<1>11. g[s \ {z}] = f[x] + g[r]
  <2>1. x \in s \ {z}
    BY <1>7
  <2>2. g[s \ {z}] = f[x] + g[(s \ {z}) \ {x}]
    BY <1>8, <2>1
  <2>3. QED
    BY <1>9, <2>2
<1>12. f[x] \in Int /\ f[z] \in Int /\ g[r] \in Int
  BY <1>2, <1>4
<1>13. QED
  BY <1>5, <1>6, <1>10, <1>11, <1>12

\* Sums over the subsets of a set do not depend on what is around it.
LEMMA PartialWithin ==
    ASSUME NEW T, IsFiniteSet(T), NEW S \in SUBSET T, NEW f, NEW t \in SUBSET S
    PROVE  Partial(T, f)[t] = Partial(S, f)[t]
<1>0. IsFiniteSet(S)
  BY FS_Subset
<1> DEFINE B == {s \in SUBSET S : Partial(T, f)[s] # Partial(S, f)[s]}
<1>1. SUFFICES ASSUME B # {} PROVE FALSE
  OBVIOUS
<1>2. PICK s \in B : s # {} => s \ {Chosen(s)} \notin B
  <2>1. B \in SUBSET SUBSET S
    OBVIOUS
  <2> HIDE DEF B
  <2>2. QED
    BY <1>0, <1>1, <2>1, Fewest
<1>3. s \in SUBSET S /\ s \in SUBSET T
  BY <1>2
<1>4. PICK g, h : g = Partial(T, f) /\ h = Partial(S, f)
  OBVIOUS
<1>5. Sums(SUBSET T, f, g) /\ Sums(SUBSET S, f, h)
  BY <1>0, <1>4, PartialSums
<1>6. /\ g[s] = IF s = {} THEN 0 ELSE f[Chosen(s)] + g[s \ {Chosen(s)}]
      /\ h[s] = IF s = {} THEN 0 ELSE f[Chosen(s)] + h[s \ {Chosen(s)}]
  BY <1>3, <1>5 DEF Sums
<1>7. s # {} => g[s \ {Chosen(s)}] = h[s \ {Chosen(s)}]
  BY <1>2, <1>3, <1>4
<1>8. g[s] # h[s]
  BY <1>2, <1>4
<1>9. QED
  BY <1>6, <1>7, <1>8

\* The sum of ones is the number of elements.
LEMMA PartialOnes ==
    ASSUME NEW S, IsFiniteSet(S), NEW f, NEW t \in SUBSET S
    PROVE  (\A x \in S : f[x] = 1) => Partial(S, f)[t] = Cardinality(t)
<1> DEFINE OK(s) == (\A x \in S : f[x] = 1) => Partial(S, f)[s] = Cardinality(s)
           B == {s \in SUBSET S : ~OK(s)}
<1>1. SUFFICES ASSUME B # {} PROVE FALSE
  OBVIOUS
<1>2. PICK s \in B : s # {} => s \ {Chosen(s)} \notin B
  <2>1. B \in SUBSET SUBSET S
    OBVIOUS
  <2> HIDE DEF B
  <2>2. QED
    BY <1>1, <2>1, Fewest
<1>3. CASE s = {}
  <2>1. Partial(S, f)[{}] = 0 /\ Cardinality({}) = 0
    BY PartialStep, FS_EmptySet
  <2>2. QED
    BY <1>2, <1>3, <2>1
<1>4. CASE s # {}
  <2>1. /\ Chosen(s) \in S /\ s \ {Chosen(s)} \in SUBSET S
        /\ Cardinality(s) \in Nat /\ Cardinality(s \ {Chosen(s)}) = Cardinality(s) - 1
    BY <1>2, <1>4, ChosenOut
  <2>2. OK(s \ {Chosen(s)})
    BY <1>2, <1>4, <2>1
  <2>3. Partial(S, f)[s] = f[Chosen(s)] + Partial(S, f)[s \ {Chosen(s)}]
    <3>1. s \in SUBSET S
      BY <1>2
    <3>2. QED
      BY <1>4, <3>1, PartialStep
  <2>4. OK(s)
    BY <2>1, <2>2, <2>3
  <2>5. QED
    BY <1>2, <2>4
<1>5. QED
  BY <1>3, <1>4

\* A sum of integers is an integer.
LEMMA SumType ==
    ASSUME NEW S, IsFiniteSet(S), NEW f, \A x \in S : f[x] \in Int
    PROVE  SumOver(S, f) \in Int
<1>1. S \in SUBSET S
  OBVIOUS
<1>2. QED
  BY <1>1, PartialType DEF SumOver

\* What a change of one term does to the sum.
LEMMA SumChange ==
    ASSUME NEW S, IsFiniteSet(S), NEW f, \A x \in S : f[x] \in Int,
           NEW e, \A x \in S : e[x] \in Int, NEW c \in S,
           \A x \in S \ {c} : e[x] = f[x]
    PROVE  SumOver(S, e) = SumOver(S, f) + (e[c] - f[c])
<1>1. S \in SUBSET S
  OBVIOUS
<1>2. Partial(S, e)[S] = Partial(S, f)[S] + (e[c] - f[c])
  BY <1>1, PartialChange
<1>3. QED
  BY <1>2 DEF SumOver

\* The same for a function that is replaced at one place.
LEMMA SumReplaced ==
    ASSUME NEW S, IsFiniteSet(S), NEW f \in [S -> Int], NEW c \in S, NEW k \in Int
    PROVE  /\ SumOver(S, f) \in Int
           /\ SumOver(S, [f EXCEPT ![c] = k]) = SumOver(S, f) + (k - f[c])
<1> DEFINE e == [f EXCEPT ![c] = k]
<1>1. /\ \A x \in S : f[x] \in Int
      /\ \A x \in S : e[x] \in Int
      /\ \A x \in S \ {c} : e[x] = f[x]
      /\ e[c] = k
  OBVIOUS
<1> HIDE DEF e
<1>2. SumOver(S, f) \in Int
  BY <1>1, SumType
<1>3. SumOver(S, e) = SumOver(S, f) + (e[c] - f[c])
  BY <1>1, SumChange
<1>4. QED
  BY <1>1, <1>2, <1>3 DEF e

\* Two functions with the same terms have the same sum.
LEMMA SumSame ==
    ASSUME NEW S, IsFiniteSet(S), NEW f, \A x \in S : f[x] \in Int,
           NEW e, \A x \in S : e[x] = f[x]
    PROVE  SumOver(S, e) = SumOver(S, f)
<1>1. CASE S = {}
  <2>1. SumOver(S, e) = 0 /\ SumOver(S, f) = 0
    BY <1>1, PartialStep DEF SumOver
  <2>2. QED
    BY <2>1
<1>2. CASE S # {}
  <2>1. PICK c \in S : TRUE
    BY <1>2
  <2>2. SumOver(S, e) = SumOver(S, f) + (e[c] - f[c])
    BY SumChange
  <2>3. SumOver(S, f) \in Int /\ e[c] = f[c] /\ f[c] \in Int
    BY SumType
  <2>4. QED
    BY <2>2, <2>3
<1>3. QED
  BY <1>1, <1>2

\* One element more adds what it has.
LEMMA SumAdded ==
    ASSUME NEW S, IsFiniteSet(S), NEW c, c \notin S, NEW f, \A x \in S \cup {c} : f[x] \in Int
    PROVE  SumOver(S \cup {c}, f) = SumOver(S, f) + f[c]
<1>1. PICK T : T = S \cup {c}
  OBVIOUS
<1>2. IsFiniteSet(T) /\ T \in SUBSET T /\ S \in SUBSET T /\ S \in SUBSET S /\ T \ {c} = S /\ c \in T
  BY <1>1, FS_AddElement
<1>3. Partial(T, f)[T] = f[c] + Partial(T, f)[T \ {c}]
  BY <1>1, <1>2, PartialAny
<1>4. Partial(T, f)[S] = Partial(S, f)[S]
  BY <1>2, PartialWithin
<1>5. SumOver(S, f) \in Int /\ f[c] \in Int
  BY SumType
<1>6. SumOver(T, f) = Partial(T, f)[T] /\ SumOver(S, f) = Partial(S, f)[S]
  BY DEF SumOver
<1>7. SumOver(T, f) = f[c] + SumOver(S, f)
  BY <1>2, <1>3, <1>4, <1>6
<1>8. SumOver(T, f) = SumOver(S, f) + f[c]
  BY <1>5, <1>7
<1>9. QED
  BY <1>1, <1>8

\* Nothing but zeros sum up to zero.
LEMMA SumZero ==
    ASSUME NEW S, IsFiniteSet(S), NEW f, \A x \in S : f[x] = 0
    PROVE  SumOver(S, f) = 0
<1>1. S \in SUBSET S /\ \A x \in S : f[x] \in Int
  OBVIOUS
<1>2. QED
  BY <1>1, PartialType DEF SumOver

\* Nothing but ones sum up to the number of elements.
LEMMA SumOnes ==
    ASSUME NEW S, IsFiniteSet(S), NEW f, \A x \in S : f[x] = 1
    PROVE  SumOver(S, f) = Cardinality(S)
<1>1. S \in SUBSET S
  OBVIOUS
<1>2. QED
  BY <1>1, PartialOnes DEF SumOver

-----------------------------------------------------------------------------
\* A set of natural numbers that is not empty and bounded has a largest element.
LEMMA Largest ==
    ASSUME NEW b \in Nat, NEW B \in SUBSET (0 .. b), B # {}
    PROVE  \E m \in B : \A x \in B : x <= m
<1> DEFINE C == {b - x : x \in B}
<1>1. C \in SUBSET Nat /\ C # {}
  <2>1. \A x \in B : b - x \in Nat
    OBVIOUS
  <2>2. QED
    BY <2>1
<1>2. PICK m \in C : \A x \in C : ~(<<x, m>> \in OpToRel(<, Nat))
  <2> HIDE DEF C
  <2>1. QED
    BY <1>1, NatLessThanWellFounded, WFMin
<1>3. PICK k \in B : m = b - k
  OBVIOUS
<1>4. ASSUME NEW x \in B PROVE x <= k
  <2>1. b - x \in C /\ b - x \in Nat /\ m \in Nat /\ x \in Nat /\ k \in Nat
    BY <1>1
  <2>2. <<b - x, m>> \in OpToRel(<, Nat) <=> b - x < m
    BY <2>1 DEF OpToRel
  <2>3. ~(b - x < m)
    BY <1>2, <2>1, <2>2, Zenon
  <2>4. QED
    BY <1>3, <2>1, <2>3
<1>5. QED
  BY <1>4

\* Every buffer is in one place, and there once.
OnceIn(B, N, p, q, x) ==
    /\ \A b \in B : p[b] <= 1
    /\ \A i \in 1 .. Len(q) : p[q[i]] = 0
    /\ \A i, j \in 1 .. Len(q) : q[i] = q[j] => i = j
    /\ \A n \in N : \A i \in 1 .. Len(x[n]) : p[x[n][i]] = 0
    /\ \A n \in N : \A i \in 1 .. Len(x[n]) : \A k \in 1 .. Len(q) : q[k] # x[n][i]
    /\ \A m, n \in N : \A i \in 1 .. Len(x[n]) : \A j \in 1 .. Len(x[m]) :
          x[n][i] = x[m][j] => n = m /\ i = j

\* A buffer that is taken is in no queue, and goes to one, or nowhere.
LEMMA OnceTaken ==
    ASSUME NEW B, NEW N, NEW p \in [B -> Nat], NEW q \in Seq(B), NEW x \in [N -> Seq(B)],
           OnceIn(B, N, p, q, x), NEW b \in B, p[b] > 0, NEW r, r = [p EXCEPT ![b] = @ - 1]
    PROVE  /\ OnceIn(B, N, r, q, x)
           /\ OnceIn(B, N, r, Append(q, b), x)
           /\ \A d \in N : OnceIn(B, N, r, q, [x EXCEPT ![d] = Append(@, b)])
<1>a. \A i, j \in 1 .. Len(q) : q[i] = q[j] => i = j
  BY DEF OnceIn
<1>b. \A n \in N : \A i \in 1 .. Len(x[n]) : p[x[n][i]] = 0
  BY DEF OnceIn
<1>c. \A n \in N : \A i \in 1 .. Len(x[n]) : \A k \in 1 .. Len(q) : q[k] # x[n][i]
  BY DEF OnceIn
<1>d. \A m, n \in N : \A i \in 1 .. Len(x[n]) : \A j \in 1 .. Len(x[m]) :
          x[n][i] = x[m][j] => n = m /\ i = j
  BY DEF OnceIn
<1>e. (\A a \in B : p[a] <= 1) /\ \A i \in 1 .. Len(q) : p[q[i]] = 0
  BY DEF OnceIn
<1>1. p[b] = 1 /\ r \in [B -> Nat] /\ r[b] = 0 /\ \A a \in B \ {b} : r[a] = p[a]
  BY DEF OnceIn
<1>2. \A i \in 1 .. Len(q) : q[i] \in B /\ q[i] # b
  BY <1>1 DEF OnceIn
<1>3. \A n \in N : \A i \in 1 .. Len(x[n]) : x[n][i] \in B /\ x[n][i] # b
  BY <1>1 DEF OnceIn
<1>4. /\ \A a \in B : r[a] <= 1
      /\ \A i \in 1 .. Len(q) : r[q[i]] = 0
      /\ \A n \in N : \A i \in 1 .. Len(x[n]) : r[x[n][i]] = 0
  BY <1>1, <1>2, <1>3 DEF OnceIn
<1>5. OnceIn(B, N, r, q, x)
  BY <1>4 DEF OnceIn
<1>6. OnceIn(B, N, r, Append(q, b), x)
  <2>1. PICK s \in Seq(B) : s = Append(q, b)
    BY AppendProperties
  <2>2. /\ Len(s) = Len(q) + 1 /\ s[Len(q) + 1] = b
        /\ \A i \in 1 .. Len(q) : s[i] = q[i]
        /\ Len(q) \in Nat
    BY <2>1, AppendProperties
  <2>a. \A i \in 1 .. Len(s) :
            (i \in 1 .. Len(q) /\ s[i] = q[i]) \/ (i = Len(q) + 1 /\ s[i] = b)
    <3>1. ASSUME NEW i \in 1 .. Len(s), i # Len(q) + 1 PROVE i \in 1 .. Len(q)
      BY <2>2, <3>1
    <3>2. QED
      BY <2>2, <3>1
  <2>3. \A i \in 1 .. Len(s) : r[s[i]] = 0
    BY ONLY <1>1, <1>4, <2>a
  <2>4. \A i, j \in 1 .. Len(s) : s[i] = s[j] => i = j
    BY <1>2, <1>a, <2>a
  <2>5. \A n \in N : \A i \in 1 .. Len(x[n]) : \A k \in 1 .. Len(s) : s[k] # x[n][i]
    BY <1>3, <1>c, <2>a
  <2>6. QED
    BY <1>4, <2>1, <2>3, <2>4, <2>5 DEF OnceIn
<1>7. ASSUME NEW d \in N PROVE OnceIn(B, N, r, q, [x EXCEPT ![d] = Append(@, b)])
  <2>1. PICK s \in Seq(B) : s = Append(x[d], b)
    BY AppendProperties
  <2>2. /\ Len(s) = Len(x[d]) + 1 /\ s[Len(x[d]) + 1] = b
        /\ \A i \in 1 .. Len(x[d]) : s[i] = x[d][i]
        /\ Len(x[d]) \in Nat
    BY <2>1, AppendProperties
  <2>3. PICK y : y = [x EXCEPT ![d] = s]
    OBVIOUS
  <2>4. y[d] = s /\ \A n \in N \ {d} : y[n] = x[n]
    BY <2>3
  <2>5. \A n \in N : \A i \in 1 .. Len(y[n]) :
            \/ i \in 1 .. Len(x[n]) /\ y[n][i] = x[n][i]
            \/ n = d /\ i = Len(x[d]) + 1 /\ y[n][i] = b
    <3>1. ASSUME NEW i \in 1 .. Len(s)
          PROVE  (i \in 1 .. Len(x[d]) /\ s[i] = x[d][i]) \/ (i = Len(x[d]) + 1 /\ s[i] = b)
      <4>1. i # Len(x[d]) + 1 => i \in 1 .. Len(x[d])
        BY <2>2
      <4>2. QED
        BY <2>2, <4>1
    <3>2. ASSUME NEW n \in N, NEW i \in 1 .. Len(y[n])
          PROVE  \/ i \in 1 .. Len(x[n]) /\ y[n][i] = x[n][i]
                 \/ n = d /\ i = Len(x[d]) + 1 /\ y[n][i] = b
      <4>1. CASE n = d
        BY <2>4, <3>1, <4>1
      <4>2. CASE n # d
        BY <2>4, <4>2
      <4>3. QED
        BY <4>1, <4>2
    <3>3. QED
      BY <3>2
  <2>6. \A n \in N : \A i \in 1 .. Len(y[n]) : r[y[n][i]] = 0
    <3>1. ASSUME NEW n \in N, NEW i \in 1 .. Len(y[n]) PROVE r[y[n][i]] = 0
      <4>1. CASE i \in 1 .. Len(x[n]) /\ y[n][i] = x[n][i]
        BY <1>4, <4>1
      <4>2. CASE y[n][i] = b
        BY <1>1, <4>2
      <4>3. QED
        BY <2>5, <4>1, <4>2
    <3>2. QED
      BY <3>1
  <2>7. \A n \in N : \A i \in 1 .. Len(y[n]) : \A k \in 1 .. Len(q) : q[k] # y[n][i]
    BY ONLY <1>2, <1>c, <2>5
  <2>8. \A m, n \in N : \A i \in 1 .. Len(y[n]) : \A j \in 1 .. Len(y[m]) :
            y[n][i] = y[m][j] => n = m /\ i = j
    <3>1. ASSUME NEW m \in N, NEW n \in N, NEW i \in 1 .. Len(y[n]), NEW j \in 1 .. Len(y[m]),
                 y[n][i] = y[m][j]
          PROVE  n = m /\ i = j
      <4>1. CASE i \in 1 .. Len(x[n]) /\ y[n][i] = x[n][i]
        <5>1. y[m][j] # b
          BY <1>3, <3>1, <4>1
        <5>2. j \in 1 .. Len(x[m]) /\ y[m][j] = x[m][j]
          BY <2>5, <5>1
        <5>3. x[n][i] = x[m][j]
          BY <3>1, <4>1, <5>2
        <5>4. QED
          BY ONLY <1>d, <4>1, <5>2, <5>3, m \in N, n \in N
      <4>2. CASE n = d /\ i = Len(x[d]) + 1 /\ y[n][i] = b
        <5>1. y[m][j] = b
          BY <3>1, <4>2
        <5>2. m = d /\ j = Len(x[d]) + 1
          BY <1>3, <2>5, <5>1
        <5>3. QED
          BY <4>2, <5>2
      <4>3. QED
        BY <2>5, <4>1, <4>2
    <3>2. QED
      BY <3>1
  <2>9. OnceIn(B, N, r, q, y)
    BY <1>4, <2>6, <2>7, <2>8 DEF OnceIn
  <2>10. QED
    BY <2>1, <2>3, <2>9
<1>8. QED
  BY <1>5, <1>6, <1>7

\* What is left of a queue, place by place.
LEMMA TailPlaces ==
    ASSUME NEW B, NEW q \in Seq(B), q # <<>>
    PROVE  \E s \in Seq(B) :
              /\ s = Tail(q) /\ Head(q) = q[1] /\ Head(q) \in B /\ 1 \in 1 .. Len(q)
              /\ \A i \in 1 .. Len(s) :
                    i \in Int /\ i + 1 \in 1 .. Len(q) /\ i + 1 # 1 /\ s[i] = q[i + 1]
<1>1. PICK s \in Seq(B) : s = Tail(q)
  BY HeadTailProperties
<1>2. Len(s) = Len(q) - 1 /\ Len(q) \in Nat /\ Len(s) \in Nat /\ \A i \in 1 .. Len(s) : s[i] = q[i + 1]
  BY <1>1, HeadTailProperties
<1>3. Head(q) = q[1] /\ Head(q) \in B /\ 1 \in 1 .. Len(q)
  OBVIOUS
<1>4. \A i \in 1 .. Len(s) : i \in Int /\ i + 1 \in 1 .. Len(q) /\ i + 1 # 1
  BY ONLY <1>2
<1>5. QED
  BY <1>1, <1>2, <1>3, <1>4

\* A buffer that is put back has left the queue it was in.
LEMMA OncePut ==
    ASSUME NEW B, NEW N, NEW p \in [B -> Nat], NEW q \in Seq(B), NEW x \in [N -> Seq(B)],
           OnceIn(B, N, p, q, x), NEW r
    PROVE  /\ q # <<>> /\ r = [p EXCEPT ![Head(q)] = @ + 1] => OnceIn(B, N, r, Tail(q), x)
           /\ \A d \in N : x[d] # <<>> /\ r = [p EXCEPT ![Head(x[d])] = @ + 1] =>
                 OnceIn(B, N, r, q, [x EXCEPT ![d] = Tail(@)])
<1>a. \A i, j \in 1 .. Len(q) : q[i] = q[j] => i = j
  BY DEF OnceIn
<1>b. \A n \in N : \A i \in 1 .. Len(x[n]) : p[x[n][i]] = 0
  BY DEF OnceIn
<1>c. \A n \in N : \A i \in 1 .. Len(x[n]) : \A k \in 1 .. Len(q) : q[k] # x[n][i]
  BY DEF OnceIn
<1>d. \A m, n \in N : \A i \in 1 .. Len(x[n]) : \A j \in 1 .. Len(x[m]) :
          x[n][i] = x[m][j] => n = m /\ i = j
  BY DEF OnceIn
<1>e. (\A a \in B : p[a] <= 1) /\ \A i \in 1 .. Len(q) : p[q[i]] = 0
  BY DEF OnceIn
<1>1. ASSUME q # <<>>, r = [p EXCEPT ![Head(q)] = @ + 1] PROVE OnceIn(B, N, r, Tail(q), x)
  <2>2. PICK s \in Seq(B) :
           /\ s = Tail(q) /\ Head(q) = q[1] /\ Head(q) \in B /\ 1 \in 1 .. Len(q)
           /\ \A i \in 1 .. Len(s) :
                 i \in Int /\ i + 1 \in 1 .. Len(q) /\ i + 1 # 1 /\ s[i] = q[i + 1]
    BY <1>1, TailPlaces
  <2>1. PICK b \in B : b = Head(q) /\ b = q[1] /\ 1 \in 1 .. Len(q)
    BY <2>2
  <2>3. \A i \in 1 .. Len(s) :
           i \in Int /\ i + 1 \in 1 .. Len(q) /\ i + 1 # 1 /\ s[i] = q[i + 1]
    BY <2>2
  <2>4. p[b] = 0 /\ r[b] = 1 /\ \A a \in B \ {b} : r[a] = p[a]
    BY <1>1, <2>1 DEF OnceIn
  <2>5. \A i \in 1 .. Len(s) : s[i] # b /\ s[i] \in B
    <3>1. ASSUME NEW i \in 1 .. Len(s) PROVE s[i] # b /\ s[i] \in B
      <4>1. i + 1 \in 1 .. Len(q) /\ i + 1 # 1 /\ s[i] = q[i + 1]
        BY ONLY <2>3, i \in 1 .. Len(s)
      <4>2. QED
        BY <1>a, <2>1, <4>1
    <3>2. QED
      BY <3>1
  <2>6. \A n \in N : \A i \in 1 .. Len(x[n]) : x[n][i] # b /\ x[n][i] \in B
    <3>1. \A n \in N : \A i \in 1 .. Len(x[n]) : x[n][i] \in B
      OBVIOUS
    <3>2. QED
      BY ONLY <1>c, <2>1, <3>1
  <2>7. /\ \A a \in B : r[a] <= 1
        /\ \A n \in N : \A i \in 1 .. Len(x[n]) : r[x[n][i]] = 0
    <3>1. \A a \in B : r[a] <= 1
      <4>1. ASSUME NEW a \in B PROVE r[a] <= 1
        <5>1. CASE a = b
          BY ONLY <2>4, <5>1
        <5>2. CASE a # b
          BY ONLY <1>e, <2>4, <5>2, a \in B
        <5>3. QED
          BY <5>1, <5>2
      <4>2. QED
        BY <4>1
    <3>2. ASSUME NEW n \in N, NEW i \in 1 .. Len(x[n]) PROVE r[x[n][i]] = 0
      <4>1. x[n][i] \in B \ {b} /\ p[x[n][i]] = 0
        BY ONLY <1>b, <2>6, n \in N, i \in 1 .. Len(x[n])
      <4>2. QED
        BY ONLY <2>4, <4>1
    <3>3. QED
      BY <3>1, <3>2
  <2>8. \A i \in 1 .. Len(s) : r[s[i]] = 0
    <3>1. ASSUME NEW i \in 1 .. Len(s) PROVE p[s[i]] = 0
      <4>1. i + 1 \in 1 .. Len(q) /\ s[i] = q[i + 1]
        BY ONLY <2>3, i \in 1 .. Len(s)
      <4>2. QED
        BY ONLY <1>e, <4>1
    <3>2. QED
      BY <2>4, <2>5, <3>1
  <2>9. \A i, j \in 1 .. Len(s) : s[i] = s[j] => i = j
    <3>1. ASSUME NEW i \in 1 .. Len(s), NEW j \in 1 .. Len(s), s[i] = s[j] PROVE i = j
      <4>1. /\ i \in Int /\ j \in Int /\ i + 1 \in 1 .. Len(q) /\ j + 1 \in 1 .. Len(q)
            /\ q[i + 1] = q[j + 1]
        BY ONLY <2>3, <3>1, i \in 1 .. Len(s), j \in 1 .. Len(s)
      <4>2. i + 1 = j + 1
        BY ONLY <1>a, <4>1
      <4>3. QED
        BY ONLY <4>1, <4>2
    <3>2. QED
      BY <3>1
  <2>10. \A n \in N : \A i \in 1 .. Len(x[n]) : \A k \in 1 .. Len(s) : s[k] # x[n][i]
    BY ONLY <1>c, <2>3
  <2>11. OnceIn(B, N, r, s, x)
    BY <2>7, <2>8, <2>9, <2>10 DEF OnceIn
  <2>12. QED
    BY <2>2, <2>11
<1>2. ASSUME NEW d \in N, x[d] # <<>>, r = [p EXCEPT ![Head(x[d])] = @ + 1]
      PROVE  OnceIn(B, N, r, q, [x EXCEPT ![d] = Tail(@)])
  <2>2. PICK s \in Seq(B) :
           /\ s = Tail(x[d]) /\ Head(x[d]) = x[d][1] /\ Head(x[d]) \in B /\ 1 \in 1 .. Len(x[d])
           /\ \A i \in 1 .. Len(s) :
                 i \in Int /\ i + 1 \in 1 .. Len(x[d]) /\ i + 1 # 1 /\ s[i] = x[d][i + 1]
    <3>1. x[d] \in Seq(B)
      OBVIOUS
    <3>2. QED
      BY <1>2, <3>1, TailPlaces
  <2>1. PICK b \in B : b = Head(x[d]) /\ b = x[d][1] /\ 1 \in 1 .. Len(x[d])
    BY <2>2
  <2>3. \A i \in 1 .. Len(s) :
           i \in Int /\ i + 1 \in 1 .. Len(x[d]) /\ i + 1 # 1 /\ s[i] = x[d][i + 1]
    BY <2>2
  <2>4. p[b] = 0 /\ r[b] = 1 /\ \A a \in B \ {b} : r[a] = p[a]
    BY <1>2, <2>1 DEF OnceIn
  <2>5. PICK y : y = [x EXCEPT ![d] = s]
    OBVIOUS
  <2>6. y[d] = s /\ \A n \in N \ {d} : y[n] = x[n]
    BY <2>5
  <2>7. \A n \in N : \A i \in 1 .. Len(y[n]) :
            \/ n # d /\ i \in 1 .. Len(x[n]) /\ y[n][i] = x[n][i]
            \/ /\ n = d /\ i \in Int /\ i + 1 \in 1 .. Len(x[n]) /\ i + 1 # 1
               /\ y[n][i] = x[n][i + 1]
    <3>1. ASSUME NEW n \in N, NEW i \in 1 .. Len(y[n])
          PROVE  \/ n # d /\ i \in 1 .. Len(x[n]) /\ y[n][i] = x[n][i]
                 \/ /\ n = d /\ i \in Int /\ i + 1 \in 1 .. Len(x[n]) /\ i + 1 # 1
                    /\ y[n][i] = x[n][i + 1]
      <4>1. CASE n = d
        BY ONLY <2>3, <2>6, <4>1, i \in 1 .. Len(y[n])
      <4>2. CASE n # d
        BY ONLY <2>6, <4>2, n \in N, i \in 1 .. Len(y[n])
      <4>3. QED
        BY <4>1, <4>2
    <3>2. QED
      BY <3>1
  <2>8. \A n \in N : \A i \in 1 .. Len(y[n]) : y[n][i] # b /\ y[n][i] \in B /\ p[y[n][i]] = 0
    <3>1. ASSUME NEW n \in N, NEW i \in 1 .. Len(y[n])
          PROVE  y[n][i] # b /\ y[n][i] \in B /\ p[y[n][i]] = 0
      <4>1. PICK k \in 1 .. Len(x[n]) : y[n][i] = x[n][k] /\ (n = d => k # 1)
        BY <2>7
      <4>2. y[n][i] \in B /\ p[y[n][i]] = 0
        BY <1>b, <4>1
      <4>3. y[n][i] # b
        BY <1>d, <2>1, <4>1
      <4>4. QED
        BY <4>2, <4>3
    <3>2. QED
      BY <3>1
  <2>9. \A n \in N : \A i \in 1 .. Len(y[n]) : r[y[n][i]] = 0
    BY <2>4, <2>8
  <2>10. \A i \in 1 .. Len(q) : q[i] # b /\ q[i] \in B
    BY <2>1 DEF OnceIn
  <2>11. (\A a \in B : r[a] <= 1) /\ \A i \in 1 .. Len(q) : r[q[i]] = 0
    <3>1. \A a \in B : r[a] <= 1
      <4>1. ASSUME NEW a \in B PROVE r[a] <= 1
        <5>1. CASE a = b
          BY ONLY <2>4, <5>1
        <5>2. CASE a # b
          BY ONLY <1>e, <2>4, <5>2, a \in B
        <5>3. QED
          BY <5>1, <5>2
      <4>2. QED
        BY <4>1
    <3>2. \A i \in 1 .. Len(q) : r[q[i]] = 0
      BY <1>e, <2>4, <2>10
    <3>3. QED
      BY <3>1, <3>2
  <2>12. \A n \in N : \A i \in 1 .. Len(y[n]) : \A k \in 1 .. Len(q) : q[k] # y[n][i]
    <3>1. ASSUME NEW n \in N, NEW i \in 1 .. Len(y[n]), NEW k \in 1 .. Len(q) PROVE q[k] # y[n][i]
      <4>1. PICK l \in 1 .. Len(x[n]) : y[n][i] = x[n][l]
        BY <2>7
      <4>2. QED
        BY <1>c, <4>1
    <3>2. QED
      BY <3>1
  <2>13. \A m, n \in N : \A i \in 1 .. Len(y[n]) : \A j \in 1 .. Len(y[m]) :
            y[n][i] = y[m][j] => n = m /\ i = j
    <3>1. ASSUME NEW m \in N, NEW n \in N, NEW i \in 1 .. Len(y[n]), NEW j \in 1 .. Len(y[m]),
                 y[n][i] = y[m][j]
          PROVE  n = m /\ i = j
      <4>1. PICK k \in 1 .. Len(x[n]) : y[n][i] = x[n][k] /\ k = (IF n = d THEN i + 1 ELSE i)
        BY <2>7
      <4>2. PICK l \in 1 .. Len(x[m]) : y[m][j] = x[m][l] /\ l = (IF m = d THEN j + 1 ELSE j)
        BY <2>7
      <4>3. n = m /\ k = l
        <5>1. x[n][k] = x[m][l]
          BY <3>1, <4>1, <4>2
        <5>2. QED
          BY <1>d, <5>1
      <4>4. QED
        BY <4>1, <4>2, <4>3
    <3>2. QED
      BY <3>1
  <2>14. OnceIn(B, N, r, q, y)
    BY <2>9, <2>11, <2>12, <2>13 DEF OnceIn
  <2>15. QED
    BY <2>2, <2>5, <2>14
<1>3. QED
  BY <1>1, <1>2
=============================================================================

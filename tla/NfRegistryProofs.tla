-------------------------- MODULE NfRegistryProofs --------------------------
(***************************************************************************)
(* The manager's books of NFs are exact, for every number of processes,    *)
(* ids, services, slots and cores, whatever the processes ask for and in   *)
(* whatever order their messages meet.                                     *)
(***************************************************************************)
EXTENDS NfRegistry, SumProofs, SequenceTheorems, FiniteSetTheorems, TLAPS

\* What the proofs need to know of the constants.
LEMMA Constants ==
    /\ MaxNfs \in Nat \ {0} /\ MaxServices \in Nat \ {0} /\ MaxPerService \in Nat \ {0}
    /\ NumCores \in Nat \ {0} /\ PoolSize \in Nat \ {0}
    /\ U16 \in Nat /\ MaxNfs + 1 < U16
    /\ Enabled \subseteq Core /\ Core \subseteq Nat /\ Options \subseteq Option /\ Options # {}
    /\ Signals \in BOOLEAN /\ Reassign \in BOOLEAN
BY RegistryAssumption DEF NoId, U16, Core

-----------------------------------------------------------------------------
(* Smallest elements *)

\* A set of natural numbers has a smallest element, and Min finds it.
LEMMA MinExists ==
    ASSUME NEW S \in SUBSET Nat, S # {}
    PROVE  Min(S) \in S /\ \A x \in S : Min(S) <= x
<1>1. PICK m \in S : \A x \in S : ~(<<x, m>> \in OpToRel(<, Nat))
  BY NatLessThanWellFounded, WFMin
<1>2. ASSUME NEW x \in S PROVE m <= x
  <2>1. x \in Nat /\ m \in Nat
    OBVIOUS
  <2>2. <<x, m>> \in OpToRel(<, Nat) <=> x < m
    BY <2>1 DEF OpToRel
  <2>3. ~(x < m)
    BY <1>1, <2>2, Zenon
  <2>4. QED
    BY <2>1, <2>3
<1>3. QED
  BY <1>2 DEF Min

\* Whoever is smallest is what Min finds.
LEMMA MinIs ==
    ASSUME NEW S \in SUBSET Nat, NEW m \in S, \A x \in S : m <= x
    PROVE  Min(S) = m
<1>1. Min(S) \in S /\ \A x \in S : Min(S) <= x
  BY MinExists
<1>2. Min(S) <= m /\ m <= Min(S) /\ Min(S) \in Nat /\ m \in Nat
  BY <1>1
<1>3. QED
  BY <1>2

\* Sets of ids are finite, and smaller than MAX_NFS.
LEMMA IdSets ==
    ASSUME NEW S \in SUBSET Id
    PROVE  /\ IsFiniteSet(S) /\ Cardinality(S) \in 0 .. (MaxNfs - 1)
           /\ \A x \in Id : /\ x \notin S => Cardinality(S \cup {x}) = Cardinality(S) + 1
                            /\ x \in S => Cardinality(S \ {x}) = Cardinality(S) - 1
           /\ Cardinality(S) = 0 => S = {}
<1>1. IsFiniteSet(Id) /\ Cardinality(Id) = MaxNfs - 1
  <2> DEFINE n == MaxNfs - 1
  <2>1. n \in Nat
    BY Constants
  <2> HIDE DEF n
  <2>2. IsFiniteSet(1 .. n) /\ Cardinality(1 .. n) = IF 1 > n THEN 0 ELSE n - 1 + 1
    BY <2>1, FS_Interval
  <2>3. Cardinality(1 .. n) = n
    BY <2>1, <2>2
  <2>4. QED
    BY <2>2, <2>3 DEF Id, n
<1>2. IsFiniteSet(S) /\ Cardinality(S) <= MaxNfs - 1
  BY <1>1, FS_Subset
<1>3. Cardinality(S) \in Nat
  BY <1>2, FS_CardinalityType
<1>4. Cardinality(S) = 0 => S = {}
  BY <1>2, FS_EmptySet
<1>5. ASSUME NEW x \in Id
      PROVE  /\ x \notin S => Cardinality(S \cup {x}) = Cardinality(S) + 1
             /\ x \in S => Cardinality(S \ {x}) = Cardinality(S) - 1
  BY <1>2, FS_AddElement, FS_RemoveElement
<1>6. QED
  BY <1>2, <1>3, <1>4, <1>5, Constants

-----------------------------------------------------------------------------
(* The message queue *)

Message == [type : {"starting", "ready", "stopping"}, proc : Proc]

In(s, x) == \E k \in 1 .. Len(s) : s[k] = x
Once(s)  == \A j, k \in 1 .. Len(s) : s[j] = s[k] => j = k

\* A message is put into the queue.
LEMMA Enqueued ==
    ASSUME NEW M, NEW s \in Seq(M), NEW m \in M
    PROVE  /\ Append(s, m) \in Seq(M)
           /\ \A x : In(Append(s, m), x) <=> In(s, x) \/ x = m
           /\ Once(s) /\ ~In(s, m) => Once(Append(s, m))
<1>1. /\ Len(s) \in Nat /\ Append(s, m) \in Seq(M) /\ Len(Append(s, m)) = Len(s) + 1
      /\ \A k \in 1 .. Len(s) : Append(s, m)[k] = s[k]
      /\ Append(s, m)[Len(s) + 1] = m
  BY AppendProperties, LenProperties
<1>2. ASSUME NEW x PROVE In(Append(s, m), x) <=> In(s, x) \/ x = m
  <2>1. ASSUME In(Append(s, m), x) PROVE In(s, x) \/ x = m
    <3>1. PICK k \in 1 .. (Len(s) + 1) : Append(s, m)[k] = x
      BY <1>1, <2>1 DEF In
    <3>2. k \in 1 .. Len(s) \/ k = Len(s) + 1
      BY <1>1, <3>1
    <3>3. QED
      BY <1>1, <3>1, <3>2 DEF In
  <2>2. ASSUME In(s, x) \/ x = m PROVE In(Append(s, m), x)
    <3>1. \A k \in 1 .. Len(s) : k \in 1 .. (Len(s) + 1)
      BY <1>1
    <3>2. Len(s) + 1 \in 1 .. (Len(s) + 1)
      BY <1>1
    <3>3. QED
      BY <1>1, <2>2, <3>1, <3>2 DEF In
  <2>3. QED
    BY <2>1, <2>2
<1>3. ASSUME Once(s), ~In(s, m) PROVE Once(Append(s, m))
  <2>1. ASSUME NEW j \in 1 .. (Len(s) + 1), NEW k \in 1 .. (Len(s) + 1),
               Append(s, m)[j] = Append(s, m)[k]
        PROVE  j = k
    <3>1. (j \in 1 .. Len(s) \/ j = Len(s) + 1) /\ (k \in 1 .. Len(s) \/ k = Len(s) + 1)
      BY <1>1
    <3>2. QED
      BY <1>1, <1>3, <2>1, <3>1 DEF Once, In
  <2>2. QED
    BY <1>1, <2>1 DEF Once
<1>4. QED
  BY <1>1, <1>2, <1>3

\* The first message is taken from the queue.
LEMMA Dequeued ==
    ASSUME NEW M, NEW s \in Seq(M), s # <<>>
    PROVE  /\ Tail(s) \in Seq(M) /\ Head(s) \in M /\ In(s, Head(s))
           /\ Once(s) => Once(Tail(s))
           /\ \A x : In(Tail(s), x) => In(s, x)
           /\ Once(s) => \A x : In(Tail(s), x) <=> In(s, x) /\ x # Head(s)
<1> DEFINE n == Len(s)
<1>1. /\ n \in Nat \ {0} /\ Tail(s) \in Seq(M) /\ Head(s) \in M /\ Len(Tail(s)) = n - 1
      /\ \A k \in 1 .. (n - 1) : Tail(s)[k] = s[k + 1]
      /\ Head(s) = s[1]
  BY HeadTailProperties, EmptySeq
<1> HIDE DEF n
<1>2. In(s, Head(s))
  BY <1>1 DEF In, n
<1>3. ASSUME NEW x, In(Tail(s), x) PROVE In(s, x)
  <2>1. PICK k \in 1 .. (n - 1) : Tail(s)[k] = x
    BY <1>1, <1>3 DEF In
  <2>2. k + 1 \in 1 .. n /\ s[k + 1] = x
    BY <1>1, <2>1
  <2>3. QED
    BY <2>2 DEF In, n
<1>4. ASSUME Once(s) PROVE Once(Tail(s))
  <2>1. ASSUME NEW j \in 1 .. (n - 1), NEW k \in 1 .. (n - 1), Tail(s)[j] = Tail(s)[k]
        PROVE  j = k
    <3>1. j + 1 \in 1 .. n /\ k + 1 \in 1 .. n /\ s[j + 1] = s[k + 1]
      BY <1>1, <2>1
    <3>2. j + 1 = k + 1
      BY <1>4, <3>1 DEF Once, n
    <3>3. QED
      BY <3>2
  <2>2. QED
    BY <1>1, <2>1 DEF Once
<1>5. ASSUME Once(s), NEW x PROVE In(Tail(s), x) <=> In(s, x) /\ x # Head(s)
  <2>1. ASSUME In(Tail(s), x) PROVE x # Head(s)
    <3>1. PICK k \in 1 .. (n - 1) : Tail(s)[k] = x
      BY <1>1, <2>1 DEF In
    <3>2. k + 1 \in 1 .. n /\ s[k + 1] = x /\ 1 \in 1 .. n /\ k + 1 # 1
      BY <1>1, <3>1
    <3>3. QED
      BY <1>1, <1>5, <3>2 DEF Once, n
  <2>2. ASSUME In(s, x), x # Head(s) PROVE In(Tail(s), x)
    <3>1. PICK k \in 1 .. n : s[k] = x
      BY <2>2 DEF In, n
    <3>2. k - 1 \in 1 .. (n - 1) /\ (k - 1) + 1 = k
      BY <1>1, <2>2, <3>1
    <3>3. Tail(s)[k - 1] = x
      BY <1>1, <3>1, <3>2
    <3>4. QED
      BY <1>1, <3>2, <3>3 DEF In
  <2>3. QED
    BY <1>3, <2>1, <2>2
<1>6. QED
  BY <1>1, <1>2, <1>3, <1>4, <1>5

-----------------------------------------------------------------------------
(* The service map *)

\* The first n slots of a row list exactly the ids of S, each once.
Exact(row, n, S) ==
    /\ n \in 0 .. MaxPerService
    /\ \A k \in Slot : k < n => row[k] \in S
    /\ \A i \in S : \E k \in Slot : k < n /\ row[k] = i
    /\ \A j, k \in Slot : j < n /\ k < n /\ row[j] = row[k] => j = k
    /\ \A k \in Slot : ~(k < n) => row[k] = 0

Row == [Slot -> Id \cup {0}]

\* The NFs that a service should list.
Listed(s) == {i \in Running : nf[i].service = s}

PerServiceType == perService \in [Service -> 0 .. MaxPerService]

RowsExact == \A s \in Service : Exact(services[s], perService[s], Listed(s))

\* The map is exact when each of its rows is.
LEMMA RowWise ==
    PerServiceType => (ServiceMapExact <=> RowsExact)
<1> SUFFICES ASSUME PerServiceType PROVE ServiceMapExact <=> RowsExact
  OBVIOUS
<1>1. ASSUME NEW s \in Service
      PROVE  Exact(services[s], perService[s], Listed(s)) <=>
             LET listed == {k \in Slot : k < perService[s]}
             IN  /\ {services[s][k] : k \in listed} = {i \in Running : nf[i].service = s}
                 /\ \A j, k \in listed : services[s][j] = services[s][k] => j = k
                 /\ \A k \in Slot \ listed : services[s][k] = 0
  <2> DEFINE row == services[s]
             n == perService[s]
             T == Listed(s)
  <2>1. n \in 0 .. MaxPerService
    BY DEF PerServiceType
  <2>2. {i \in Running : nf[i].service = s} = T
    BY DEF Listed
  <2> HIDE DEF row, n, T
  <2>3. ({row[k] : k \in {k \in Slot : k < n}} = T) <=>
            /\ \A k \in Slot : k < n => row[k] \in T
            /\ \A i \in T : \E k \in Slot : k < n /\ row[k] = i
    OBVIOUS
  <2>4. (\A k \in Slot \ {k \in Slot : k < n} : row[k] = 0) <=> (\A k \in Slot : ~(k < n) => row[k] = 0)
    OBVIOUS
  <2>5. (\A j, k \in {k \in Slot : k < n} : row[j] = row[k] => j = k) <=>
        (\A j, k \in Slot : j < n /\ k < n /\ row[j] = row[k] => j = k)
    OBVIOUS
  <2>6. Exact(row, n, T) <=>
            /\ {row[k] : k \in {k \in Slot : k < n}} = T
            /\ \A j, k \in {k \in Slot : k < n} : row[j] = row[k] => j = k
            /\ \A k \in Slot \ {k \in Slot : k < n} : row[k] = 0
    BY <2>1, <2>3, <2>4, <2>5 DEF Exact
  <2>7. QED
    BY <2>2, <2>6, Zenon DEF row, n, T
<1>2. QED
  BY <1>1, Zenon DEF ServiceMapExact, RowsExact

\* onvm_nf_ready puts an NF behind the others.
LEMMA RowAdded ==
    ASSUME NEW row \in Row, NEW n, NEW S \in SUBSET Id, Exact(row, n, S),
           n < MaxPerService, NEW id \in Id, id \notin S
    PROVE  /\ n \in Slot /\ [row EXCEPT ![n] = id] \in Row
           /\ Exact([row EXCEPT ![n] = id], n + 1, S \cup {id})
<1> DEFINE new == [row EXCEPT ![n] = id]
<1>1. n \in Slot /\ n \in Nat /\ n + 1 \in 0 .. MaxPerService /\ Slot \subseteq Nat
  BY Constants DEF Exact, Slot
<1>2. new \in Row /\ new[n] = id /\ \A k \in Slot : k # n => new[k] = row[k]
  BY <1>1 DEF Row
<1> HIDE DEF new
<1>3. \A k \in Slot : (k < n + 1 <=> k < n \/ k = n) /\ ~(n < n)
  BY <1>1
<1>4. \A k \in Slot : k < n + 1 => new[k] \in S \cup {id}
  BY <1>2, <1>3 DEF Exact
<1>5. ASSUME NEW i \in S \cup {id} PROVE \E k \in Slot : k < n + 1 /\ new[k] = i
  <2>1. CASE i = id
    BY <1>1, <1>2, <1>3, <2>1
  <2>2. CASE i \in S
    <3>1. PICK k \in Slot : k < n /\ row[k] = i
      BY <2>2 DEF Exact
    <3>2. k # n /\ k < n + 1
      BY <1>3, <3>1
    <3>3. QED
      BY <1>2, <3>1, <3>2
  <2>3. QED
    BY <2>1, <2>2
<1>6. ASSUME NEW j \in Slot, NEW k \in Slot, j < n + 1, k < n + 1, new[j] = new[k]
      PROVE  j = k
  BY <1>2, <1>3, <1>6 DEF Exact
<1>7. ASSUME NEW k \in Slot, ~(k < n + 1) PROVE new[k] = 0
  BY <1>2, <1>3, <1>7 DEF Exact
<1>8. Exact(new, n + 1, S \cup {id})
  BY <1>1, <1>4, <1>5, <1>6, <1>7 DEF Exact
<1>9. QED
  BY <1>1, <1>2, <1>8 DEF new

\* The loop of onvm_nf_stop takes an NF out and closes the gap.
LEMMA RowRemoved ==
    ASSUME NEW row \in Row, NEW n, NEW S \in SUBSET Id, Exact(row, n, S), NEW id \in S
    PROVE  /\ n > 0 /\ Unlisted(row, id) \in Row
           /\ Exact(Unlisted(row, id), n - 1, S \ {id})
<1> DEFINE here == {k \in Slot : row[k] = id}
           at   == Min(here)
           ends == {k \in Slot : k >= at /\ (k = MaxPerService - 1 \/ row[k + 1] = 0)}
           to   == Min(ends)
           new  == [k \in Slot |-> CASE k \in at .. (to - 1) -> row[k + 1]
                                     [] k = to -> 0
                                     [] OTHER -> row[k]]
<1>1. Slot \subseteq Nat /\ n \in Nat /\ n <= MaxPerService /\ MaxPerService \in Nat
  BY Constants DEF Exact, Slot
<1>2. 0 \notin S /\ id # 0
  BY DEF Id
<1>3. PICK a \in Slot : a < n /\ row[a] = id
  BY DEF Exact
<1>4. here = {a}
  BY <1>1, <1>2, <1>3 DEF Exact
<1>5. at = a
  BY <1>1, <1>4, MinIs
<1>6. n > 0 /\ n - 1 \in Slot /\ n - 1 \in Nat /\ a <= n - 1
  BY <1>1, <1>3 DEF Slot
<1>7. n - 1 \in ends
  <2>1. n - 1 = MaxPerService - 1 \/ n \in Slot
    BY <1>1, <1>6 DEF Slot
  <2>2. n \in Slot => row[(n - 1) + 1] = 0
    BY <1>1 DEF Exact
  <2>3. QED
    BY <1>1, <1>3, <1>5, <1>6, <2>1, <2>2
<1>8. ASSUME NEW k \in ends PROVE n - 1 <= k
  <2>1. SUFFICES ASSUME k < n - 1 PROVE FALSE
    BY <1>1, <1>6
  <2>2. k \in Nat /\ k + 1 \in Slot /\ k + 1 < n /\ k # MaxPerService - 1
    BY <1>1, <1>6, <2>1 DEF Slot
  <2>3. row[k + 1] \in S
    BY <2>2 DEF Exact
  <2>4. QED
    BY <1>2, <2>2, <2>3
<1>9. to = n - 1
  <2>1. ends \subseteq Nat
    BY <1>1
  <2> HIDE DEF ends
  <2>2. QED
    BY <1>7, <1>8, <2>1, MinIs
<1>10. Unlisted(row, id) = new
  BY <1>3 DEF Unlisted
<1> HIDE DEF here, at, ends, to
<1>11. \A k \in Slot : /\ k < a => new[k] = row[k]
                       /\ a <= k /\ k < n - 1 => k + 1 \in Slot /\ new[k] = row[k + 1]
                       /\ ~(k < n - 1) => new[k] = 0
  <2> SUFFICES ASSUME NEW k \in Slot
               PROVE  /\ k < a => new[k] = row[k]
                      /\ a <= k /\ k < n - 1 => k + 1 \in Slot /\ new[k] = row[k + 1]
                      /\ ~(k < n - 1) => new[k] = 0
    OBVIOUS
  <2>1. CASE k < a
    BY <1>1, <1>3, <1>5, <1>6, <1>9, <2>1
  <2>2. CASE a <= k /\ k < n - 1
    <3>1. k + 1 \in Slot /\ k \in a .. (n - 1 - 1) /\ ~(k < a)
      BY <1>1, <1>3, <1>6, <2>2 DEF Slot
    <3>2. QED
      BY <1>5, <1>9, <2>2, <3>1
  <2>3. CASE k = n - 1
    BY <1>1, <1>3, <1>5, <1>6, <1>9, <2>3
  <2>4. CASE k > n - 1
    <3>1. row[k] = 0 /\ ~(k < a) /\ ~(k \in a .. (n - 1 - 1)) /\ k # n - 1
      BY <1>1, <1>3, <1>6, <2>4 DEF Exact
    <3>2. QED
      BY <1>1, <1>5, <1>6, <1>9, <2>4, <3>1
  <2>5. QED
    BY <1>1, <1>3, <1>6, <2>1, <2>2, <2>3, <2>4
<1>12. DOMAIN new = Slot /\ new = [k \in Slot |-> new[k]]
  OBVIOUS
<1> HIDE DEF new
<1> DEFINE from(k) == IF k < a THEN k ELSE k + 1
<1>13. ASSUME NEW k \in Slot, k < n - 1
       PROVE  from(k) \in Slot /\ from(k) < n /\ from(k) # a /\ new[k] = row[from(k)]
  <2>1. k \in Nat /\ a \in Nat /\ n \in Nat
    BY <1>1, <1>3
  <2>2. CASE k < a
    <3>1. from(k) = k /\ k < n /\ k # a /\ new[k] = row[k]
      BY <1>3, <1>11, <2>1, <2>2
    <3>2. QED
      BY <3>1
  <2>3. CASE ~(k < a)
    <3>1. from(k) = k + 1 /\ k + 1 < n /\ k + 1 # a /\ a <= k
      BY <1>13, <2>1, <2>3
    <3>2. k + 1 \in Slot /\ new[k] = row[k + 1]
      BY <1>11, <1>13, <3>1
    <3>3. QED
      BY <3>1, <3>2
  <2>4. QED
    BY <2>2, <2>3
<1>14. ASSUME NEW k \in Slot, k < n - 1 PROVE new[k] \in S \ {id}
  BY <1>3, <1>13, <1>14 DEF Exact
<1>15. ASSUME NEW i \in S \ {id} PROVE \E k \in Slot : k < n - 1 /\ new[k] = i
  <2>1. PICK k \in Slot : k < n /\ row[k] = i
    BY DEF Exact
  <2>2. CASE k < a
    <3>1. k < n - 1
      BY <1>1, <1>3, <1>6, <2>2
    <3>2. new[k] = row[k]
      BY <1>11, <2>2
    <3>3. QED
      BY <2>1, <3>1, <3>2
  <2>3. CASE k > a
    <3>1. k - 1 \in Slot /\ a <= k - 1 /\ k - 1 < n - 1 /\ (k - 1) + 1 = k
      BY <1>1, <1>3, <1>6, <2>1, <2>3 DEF Slot
    <3>2. new[k - 1] = row[(k - 1) + 1]
      BY <1>11, <3>1
    <3>3. QED
      BY <2>1, <3>1, <3>2
  <2>4. k # a
    BY <1>3, <2>1
  <2>5. QED
    BY <1>1, <2>2, <2>3, <2>4
<1>16. ASSUME NEW j \in Slot, NEW k \in Slot, j < n - 1, k < n - 1, new[j] = new[k]
       PROVE  j = k
  <2>1. /\ from(j) \in Slot /\ from(j) < n /\ new[j] = row[from(j)]
        /\ from(k) \in Slot /\ from(k) < n /\ new[k] = row[from(k)]
    BY <1>13, <1>16
  <2>2. from(j) = from(k)
    <3> HIDE DEF from
    <3>1. QED
      BY <1>16, <2>1 DEF Exact
  <2>3. j \in Nat /\ k \in Nat /\ a \in Nat
    BY <1>1, <1>3
  <2>4. QED
    BY <2>2, <2>3
<1>17. Exact(new, n - 1, S \ {id})
  <2>1. n - 1 \in 0 .. MaxPerService
    BY <1>1, <1>6
  <2>2. QED
    BY <1>11, <1>14, <1>15, <1>16, <2>1 DEF Exact
<1>18. new \in Row
  <2>1. ASSUME NEW k \in Slot PROVE new[k] \in Id \cup {0}
    BY <1>11, <1>14
  <2>2. QED
    BY <1>12, <2>1 DEF Row
<1>19. QED
  BY <1>6, <1>10, <1>17, <1>18

-----------------------------------------------------------------------------
(* The inductive invariant *)

Status    == {"unused", "starting", "running", "stopped"}
Verdict   == {"waiting", "starting", "no_ids", "service_max", "service_count_max",
              "id_conflict", "out_of_range", "busy", "no_cores", "no_dedicated"}
NfRecord  == [status : Status, service : Service, core : Core]
CfgRecord == [status : Verdict, opt : Option]

\* The types, with those of the shared structs and the queues in full.
MgrTypes ==
    /\ nf \in [Id -> NfRecord] /\ ringed \subseteq Id
    /\ services \in [Service -> Row] /\ perService \in [Service -> 0 .. MaxPerService]
    /\ nextId \in 1 .. MaxNfs
    /\ coreCnt \in [Core -> 0 .. (U16 - 1)] /\ dedicated \in [Core -> BOOLEAN]
    /\ moves \in [Id -> Seq(Core)]

ProcTypes ==
    /\ health \in {"up", "aliased", "ring_clash", "overrun", "no_candidate"}
    /\ pool \in Seq({Cfg} \cup Id) /\ queue \in Seq(Message)
    /\ pc \in [Proc -> {"new", "waiting", "started", "readying", "running", "gone"}]
    /\ cfg \in [Proc -> CfgRecord]
    /\ myId \in [Proc -> Id \cup {0}]

Sent(type, p) == In(queue, [type |-> type, proc |-> p])

IdOf(p) == cfg[p].opt.inst

\* The id is the process's: it was given it and the manager has not yet heard
\* that it stops.
Holds(p) ==
    /\ cfg[p].status = "starting"
    /\ pc[p] = "waiting" \/ Live(p) \/ Sent("stopping", p)

\* Where a process is in its handshake, and what it has in the queue.
HandshakeAt(p) ==
    /\ Sent("starting", p) => pc[p] \in {"waiting", "gone"} /\ cfg[p].status = "waiting"
    /\ Sent("ready", p) => pc[p] = "readying"
    /\ Sent("stopping", p) => pc[p] = "gone"
    /\ Live(p) \/ Sent("stopping", p) => cfg[p].status = "starting" /\ myId[p] = IdOf(p)
    /\ (pc[p] = "waiting" /\ cfg[p].status = "starting") \/ pc[p] = "started" \/ Sent("ready", p)
           => nf[IdOf(p)].status = "starting"

Handshake == Once(queue) /\ \A p \in Proc : HandshakeAt(p)

\* An id that a process holds is registered, has its rings and no other holder.
Owned ==
    /\ \A p \in Proc : Holds(p) => IdOf(p) \in Registered
    /\ \A p, q \in Proc : Holds(p) /\ Holds(q) /\ IdOf(p) = IdOf(q) => p = q
    /\ Registered \subseteq ringed

RegistryInv ==
    MgrTypes /\ ProcTypes /\ Handshake /\ Owned /\ ServiceMapExact /\ NumNfsExact

\* The invariant implies what is checked.
LEMMA RegistryExactFollows ==
    ASSUME RegistryInv
    PROVE  RegistryExact
<1>1. TypeOK
  <2>1. \A k \in 1 .. Len(pool) : pool[k] \in {Cfg} \cup Id
    BY ElementOfSeq DEF RegistryInv, ProcTypes
  <2>2. \A k \in 1 .. Len(queue) : queue[k] \in Message
    BY ElementOfSeq DEF RegistryInv, ProcTypes
  <2>3. numNfs \in 0 .. MaxNfs
    <3>1. Running \in SUBSET Id
      BY DEF Running
    <3>2. Cardinality(Running) \in 0 .. (MaxNfs - 1)
      BY <3>1, IdSets
    <3>3. QED
      BY <3>2, Constants DEF RegistryInv, NumNfsExact
  <2>4. QED
    BY <2>1, <2>2, <2>3
       DEF RegistryInv, MgrTypes, ProcTypes, TypeOK, NfRecord, Status, Row, Message
<1>2. IdsUnique
  <2>1. \A p \in Proc : Live(p) => Holds(p) /\ myId[p] = IdOf(p)
    BY DEF RegistryInv, Handshake, HandshakeAt, Holds
  <2>2. QED
    BY <2>1 DEF RegistryInv, Owned, IdsUnique
<1>3. QED
  BY <1>1, <1>2 DEF RegistryInv, RegistryExact

\* At first nothing is registered and nothing is sent.
LEMMA RegistryInit ==
    ASSUME Init
    PROVE  RegistryInv
<1>1. Registered = {} /\ Running = {}
  BY DEF Init, Registered, Running, Valid
<1>2. \A t, p : ~Sent(t, p)
  BY DEF Init, Sent, In
<1>3. MgrTypes
  <2>1. 0 \in Service /\ 0 \in Core /\ 0 \in Slot /\ MaxNfs \in Nat \ {0}
    BY Constants DEF Service, Core, Slot
  <2>2. <<>> \in Seq(Core)
    BY EmptySeq
  <2>3. nf \in [Id -> NfRecord] /\ ringed \subseteq Id
    BY <2>1 DEF Init, NfRecord, Status
  <2>4. services \in [Service -> Row] /\ perService \in [Service -> 0 .. MaxPerService]
    BY <2>1, Constants DEF Init, Row
  <2>5. nextId \in 1 .. MaxNfs /\ coreCnt \in [Core -> 0 .. (U16 - 1)]
    BY <2>1, Constants DEF Init
  <2>6. dedicated \in [Core -> BOOLEAN] /\ moves \in [Id -> Seq(Core)]
    BY <2>2 DEF Init
  <2>7. QED
    BY <2>3, <2>4, <2>5, <2>6 DEF MgrTypes
<1>4. ProcTypes
  <2>1. (CHOOSE o \in Options : TRUE) \in Option
    BY Constants
  <2>2. pool \in Seq({Cfg} \cup Id)
    BY Constants, IsASeq DEF Init
  <2>3. queue \in Seq(Message)
    BY EmptySeq DEF Init
  <2>4. cfg \in [Proc -> CfgRecord]
    BY <2>1 DEF Init, CfgRecord, Verdict
  <2>5. QED
    BY <2>2, <2>3, <2>4 DEF Init, ProcTypes
<1>5. Handshake
  <2>1. Once(queue)
    BY DEF Init, Once
  <2>2. \A p \in Proc : HandshakeAt(p)
    BY <1>2 DEF Init, HandshakeAt, Live
  <2>3. QED
    BY <2>1, <2>2 DEF Handshake
<1>6. Owned
  BY <1>1 DEF Init, Owned, Holds
<1>7. ServiceMapExact
  <2>1. ASSUME NEW s \in Service PROVE Exact(services[s], perService[s], Listed(s))
    <3>1. Listed(s) = {} /\ perService[s] = 0
      BY <1>1, <2>1 DEF Listed, Init
    <3>2. \A k \in Slot : k \in Nat /\ services[s][k] = 0
      BY <2>1 DEF Init, Slot
    <3>3. QED
      BY <3>1, <3>2, Constants DEF Exact
  <2>2. QED
    BY <1>3, <2>1, RowWise DEF MgrTypes, RowsExact, PerServiceType
<1>8. NumNfsExact
  BY <1>1, FS_EmptySet DEF Init, NumNfsExact
<1>9. QED
  BY <1>3, <1>4, <1>5, <1>6, <1>7, <1>8 DEF RegistryInv

-----------------------------------------------------------------------------
(* Sending and receiving *)

\* A process sends a message.
LEMMA SendStep ==
    ASSUME queue \in Seq(Message), Once(queue),
           NEW type \in {"starting", "ready", "stopping"}, NEW p \in Proc,
           Send(type, p), ~Sent(type, p)
    PROVE  /\ queue' \in Seq(Message) /\ Once(queue')
           /\ \A t, q : Sent(t, q)' <=> Sent(t, q) \/ (t = type /\ q = p)
<1> DEFINE m == [type |-> type, proc |-> p]
<1>1. m \in Message
  BY DEF Message
<1>2. queue' = Append(queue, m) /\ ~In(queue, m)
  BY DEF Send, Sent
<1>3. \A t, q : [type |-> t, proc |-> q] = m <=> t = type /\ q = p
  OBVIOUS
<1> HIDE DEF m
<1>4. queue' \in Seq(Message) /\ Once(queue') /\ \A x : In(queue', x) <=> In(queue, x) \/ x = m
  BY <1>1, <1>2, Enqueued
<1>5. QED
  BY <1>3, <1>4 DEF Sent

\* The manager takes a message.
LEMMA ReceiveStep ==
    ASSUME queue \in Seq(Message), Once(queue),
           NEW type, NEW p, Receive(type, p)
    PROVE  /\ queue' \in Seq(Message) /\ Once(queue') /\ Sent(type, p)
           /\ \A t, q : Sent(t, q)' <=> Sent(t, q) /\ ~(t = type /\ q = p)
<1> DEFINE m == [type |-> type, proc |-> p]
<1>1. queue # <<>> /\ Head(queue) = m /\ queue' = Tail(queue)
  BY DEF Receive
<1>2. \A t, q : [type |-> t, proc |-> q] = m <=> t = type /\ q = p
  OBVIOUS
<1>3. Sent(type, p) <=> In(queue, m)
  BY DEF Sent
<1> HIDE DEF m
<1>4. /\ queue' \in Seq(Message) /\ Once(queue') /\ In(queue, m)
      /\ \A x : In(queue', x) <=> In(queue, x) /\ x # m
  BY <1>1, Dequeued
<1>5. QED
  BY <1>2, <1>3, <1>4 DEF Sent

\* What does not touch the queue leaves what was sent.
LEMMA QueueKept ==
    ASSUME UNCHANGED queue
    PROVE  \A t, q : Sent(t, q)' <=> Sent(t, q)
BY DEF Sent

-----------------------------------------------------------------------------
(* Steps of the processes *)

\* A step leaves a process alone.
Untouched(q) ==
    /\ pc'[q] = pc[q] /\ cfg'[q] = cfg[q] /\ myId'[q] = myId[q]
    /\ \A t : Sent(t, q)' <=> Sent(t, q)

\* Its handshake is then where it was, and it holds what it held.
LEMMA UntouchedStep ==
    ASSUME NEW q \in Proc, HandshakeAt(q), Untouched(q)
    PROVE  /\ (Holds(q)' <=> Holds(q)) /\ IdOf(q)' = IdOf(q)
           /\ (Holds(q) => nf'[IdOf(q)].status = nf[IdOf(q)].status) => HandshakeAt(q)'
<1>1. IdOf(q)' = IdOf(q) /\ (Live(q)' <=> Live(q))
  BY DEF Untouched, IdOf, Live
<1>2. Holds(q)' <=> Holds(q)
  BY <1>1 DEF Untouched, Holds
<1>3. (pc[q] = "waiting" /\ cfg[q].status = "starting") \/ pc[q] = "started" \/ Sent("ready", q)
          => Holds(q)
  BY DEF HandshakeAt, Holds, Live
<1>4. ASSUME Holds(q) => nf'[IdOf(q)].status = nf[IdOf(q)].status PROVE HandshakeAt(q)'
  BY <1>1, <1>3, <1>4 DEF Untouched, HandshakeAt
<1>5. QED
  BY <1>1, <1>2, <1>4

\* What a step of process p shows of the handshakes.
ProcessKeeps(p) ==
    /\ ProcTypes' /\ Once(queue')
    /\ \A q \in Proc \ {p} : Untouched(q)
    /\ HandshakeAt(p)'
    /\ Holds(p)' <=> Holds(p)
    /\ Holds(p) => cfg'[p].opt = cfg[p].opt

\* Such a step, when it leaves the manager's state, keeps the invariant.
LEMMA ProcessPreserves ==
    ASSUME RegistryInv, NEW p \in Proc, ProcessKeeps(p), UNCHANGED <<mgrState, moves>>
    PROVE  RegistryInv'
<1>1. /\ nf' = nf /\ ringed' = ringed /\ services' = services /\ perService' = perService
      /\ numNfs' = numNfs /\ nextId' = nextId /\ coreCnt' = coreCnt
      /\ dedicated' = dedicated /\ moves' = moves
  BY DEF mgrState
<1>2. Registered' = Registered /\ Running' = Running
  BY <1>1 DEF Registered, Running, Valid
<1>3. MgrTypes'
  BY <1>1 DEF RegistryInv, MgrTypes
<1>4. ASSUME NEW q \in Proc
      PROVE  HandshakeAt(q)' /\ (Holds(q)' => Holds(q) /\ IdOf(q)' = IdOf(q))
  <2>1. CASE q = p
    BY <2>1 DEF ProcessKeeps, IdOf
  <2>2. CASE q # p
    <3>1. HandshakeAt(q) /\ Untouched(q)
      BY <2>2 DEF RegistryInv, Handshake, ProcessKeeps
    <3>2. QED
      BY <1>1, <3>1, UntouchedStep
  <2>3. QED
    BY <2>1, <2>2
<1>5. Handshake'
  BY <1>4 DEF Handshake, ProcessKeeps
<1>6. Owned'
  BY <1>1, <1>2, <1>4 DEF RegistryInv, Owned
<1>7. ServiceMapExact'
  BY <1>1, <1>2 DEF RegistryInv, ServiceMapExact
<1>8. NumNfsExact'
  BY <1>1, <1>2 DEF RegistryInv, NumNfsExact
<1>9. QED
  BY <1>3, <1>5, <1>6, <1>7, <1>8 DEF RegistryInv, ProcessKeeps

\* The parts of the invariant that the steps of process p use.
LEMMA AtProcess ==
    ASSUME RegistryInv, NEW p \in Proc
    PROVE  /\ queue \in Seq(Message) /\ Once(queue) /\ HandshakeAt(p)
           /\ cfg[p] \in CfgRecord /\ cfg[p].opt \in Option /\ IdOf(p) \in Id \cup {NoId}
           /\ Holds(p) => IdOf(p) \in Registered /\ IdOf(p) \in Id
<1>1. queue \in Seq(Message) /\ Once(queue) /\ HandshakeAt(p)
  BY DEF RegistryInv, ProcTypes, Handshake
<1>2. cfg[p] \in CfgRecord /\ cfg[p].opt \in Option
  BY DEF RegistryInv, ProcTypes, CfgRecord
<1>3. IdOf(p) \in Id \cup {NoId}
  BY <1>2 DEF Option, IdOf
<1>4. Holds(p) => IdOf(p) \in Registered /\ IdOf(p) \in Id
  BY DEF RegistryInv, Owned, Registered
<1>5. QED
  BY <1>1, <1>2, <1>3, <1>4

\* A process takes an nf_init_cfg and asks for an id, or leaves at once.
LEMMA LaunchKeeps ==
    ASSUME RegistryInv, NEW p \in Proc, NEW o \in Options, Launch(p, o)
    PROVE  ProcessKeeps(p) /\ UNCHANGED <<mgrState, moves>>
<1>1. /\ queue \in Seq(Message) /\ Once(queue) /\ HandshakeAt(p)
  BY AtProcess
<1>2. pool # <<>> /\ Tail(pool) \in Seq({Cfg} \cup Id)
  BY EmptySeq, HeadTailProperties DEF RegistryInv, ProcTypes, Launch
<1>3. UNCHANGED <<mgrState, moves>>
  BY DEF Launch
<1>4. CASE Head(pool) # Cfg
  <2>1. health' = "aliased" /\ queue' = queue /\ pc' = pc /\ cfg' = cfg /\ myId' = myId
        /\ pool' = Tail(pool)
    BY <1>4 DEF Launch, procs
  <2>2. \A q \in Proc : Untouched(q)
    BY <2>1, QueueKept DEF Untouched
  <2>3. ProcTypes'
    BY <1>2, <2>1 DEF RegistryInv, ProcTypes
  <2>4. nf'[IdOf(p)].status = nf[IdOf(p)].status
    BY <1>3 DEF mgrState
  <2>5. HandshakeAt(p)' /\ (Holds(p)' <=> Holds(p))
    BY <1>1, <2>2, <2>4, UntouchedStep
  <2>6. QED
    BY <1>1, <1>3, <2>1, <2>2, <2>3, <2>5 DEF ProcessKeeps
<1>5. CASE Head(pool) = Cfg
  <2>1. /\ cfg' = [cfg EXCEPT ![p] = [status |-> "waiting", opt |-> o]]
        /\ health' = health /\ myId' = myId /\ pool' = Tail(pool) /\ pc[p] = "new"
        /\ \/ Goto(p, "waiting") /\ Send("starting", p)
           \/ Goto(p, "gone") /\ UNCHANGED queue
    BY <1>5 DEF Launch
  <2>2. ~Sent("starting", p) /\ ~Sent("ready", p) /\ ~Sent("stopping", p)
    BY <1>1, <2>1 DEF HandshakeAt
  <2>3. /\ queue' \in Seq(Message) /\ Once(queue')
        /\ \A t, q : Sent(t, q)' => Sent(t, q) \/ (t = "starting" /\ q = p /\ pc'[p] = "waiting")
        /\ \A t, q : q # p => (Sent(t, q)' <=> Sent(t, q))
    <3>1. pc'[p] = "waiting" \/ UNCHANGED queue
      BY <2>1 DEF RegistryInv, ProcTypes, Goto
    <3>2. CASE Send("starting", p) /\ pc'[p] = "waiting"
      BY <1>1, <2>2, <3>2, SendStep
    <3>3. CASE UNCHANGED queue
      BY <1>1, <3>3, QueueKept
    <3>4. QED
      BY <2>1, <3>1, <3>2, <3>3
  <2>4. /\ cfg'[p] = [status |-> "waiting", opt |-> o] /\ pc'[p] \in {"waiting", "gone"}
        /\ \A q \in Proc \ {p} : cfg'[q] = cfg[q] /\ pc'[q] = pc[q]
    BY <2>1 DEF RegistryInv, ProcTypes, Goto
  <2>5. \A q \in Proc \ {p} : Untouched(q)
    BY <2>1, <2>3, <2>4 DEF Untouched
  <2>6. ProcTypes'
    <3>1. cfg' \in [Proc -> CfgRecord]
      <4>1. [status |-> "waiting", opt |-> o] \in CfgRecord
        BY Constants DEF CfgRecord, Verdict
      <4>2. QED
        BY <2>1, <4>1 DEF RegistryInv, ProcTypes
    <3>2. pc' \in [Proc -> {"new", "waiting", "started", "readying", "running", "gone"}]
      BY <2>1 DEF RegistryInv, ProcTypes, Goto
    <3>3. QED
      BY <1>2, <2>1, <2>3, <3>1, <3>2 DEF RegistryInv, ProcTypes
  <2>7. HandshakeAt(p)' /\ ~Holds(p)' /\ ~Holds(p)
    <3>1. ~Live(p)' /\ ~Live(p) /\ cfg'[p].status = "waiting"
      BY <2>1, <2>4 DEF Live
    <3>2. ~Sent("ready", p)' /\ ~Sent("stopping", p)'
      BY <2>2, <2>3
    <3>3. QED
      BY <2>1, <2>2, <2>4, <3>1, <3>2 DEF HandshakeAt, Holds
  <2>8. QED
    BY <1>3, <2>3, <2>5, <2>6, <2>7 DEF ProcessKeeps
<1>6. QED
  BY <1>4, <1>5

\* A process finds the manager's answer.
LEMMA AnsweredKeeps ==
    ASSUME RegistryInv, NEW p \in Proc, Answered(p)
    PROVE  ProcessKeeps(p) /\ UNCHANGED <<mgrState, moves>>
<1>1. HandshakeAt(p) /\ Once(queue)
  BY AtProcess
<1>2. UNCHANGED <<mgrState, moves>> /\ queue' = queue /\ cfg' = cfg /\ health' = health
      /\ pool' = Append(pool, Cfg) /\ nf' = nf
  BY DEF Answered, mgrState
<1>3. pc[p] = "waiting" /\ cfg[p].status # "waiting"
  BY DEF Answered
<1>4. \/ cfg[p].status = "starting" /\ Goto(p, "started") /\ myId' = [myId EXCEPT ![p] = IdOf(p)]
      \/ cfg[p].status # "starting" /\ Goto(p, "gone") /\ myId' = myId
  BY DEF Answered, IdOf
<1>5. /\ \/ cfg[p].status = "starting" /\ pc'[p] = "started" /\ myId'[p] = IdOf(p)
         \/ cfg[p].status # "starting" /\ pc'[p] = "gone" /\ myId' = myId
      /\ \A q \in Proc \ {p} : pc'[q] = pc[q] /\ myId'[q] = myId[q]
  BY <1>4 DEF RegistryInv, ProcTypes, Goto
<1>6. \A t, q : Sent(t, q)' <=> Sent(t, q)
  BY <1>2, QueueKept
<1>7. \A q \in Proc \ {p} : Untouched(q)
  BY <1>2, <1>5, <1>6 DEF Untouched
<1>8. cfg[p].status = "starting" => Holds(p) /\ IdOf(p) \in Id /\ IdOf(p) \in Registered
  BY <1>3, AtProcess DEF Holds
<1>9. ProcTypes'
  <2>1. pool' \in Seq({Cfg} \cup Id)
    BY <1>2, AppendProperties DEF RegistryInv, ProcTypes
  <2>2. myId' \in [Proc -> Id \cup {0}]
    BY <1>4, <1>8 DEF RegistryInv, ProcTypes
  <2>3. pc' \in [Proc -> {"new", "waiting", "started", "readying", "running", "gone"}]
    BY <1>4 DEF RegistryInv, ProcTypes, Goto
  <2>4. QED
    BY <1>2, <2>1, <2>2, <2>3 DEF RegistryInv, ProcTypes
<1>10. ~Sent("starting", p) /\ ~Sent("ready", p) /\ ~Sent("stopping", p)
  BY <1>1, <1>3 DEF HandshakeAt
<1>11. IdOf(p)' = IdOf(p)
  BY <1>2 DEF IdOf
<1>12. cfg[p].status = "starting" => nf[IdOf(p)].status = "starting"
  BY <1>1, <1>3 DEF HandshakeAt
<1>13. HandshakeAt(p)'
  BY <1>2, <1>5, <1>6, <1>10, <1>11, <1>12 DEF HandshakeAt, Live
<1>14. Holds(p)' <=> Holds(p)
  BY <1>2, <1>3, <1>5, <1>6, <1>10 DEF Holds, Live
<1>15. QED
  BY <1>1, <1>2, <1>7, <1>9, <1>13, <1>14 DEF ProcessKeeps

\* A process is signalled while it waits.
LEMMA SignalledKeeps ==
    ASSUME RegistryInv, NEW p \in Proc, SignalledWaiting(p)
    PROVE  ProcessKeeps(p) /\ UNCHANGED <<mgrState, moves>>
<1>1. HandshakeAt(p) /\ Once(queue) /\ queue \in Seq(Message)
  BY AtProcess
<1>2. UNCHANGED <<mgrState, moves>> /\ cfg' = cfg /\ health' = health /\ pool' = pool /\ nf' = nf
  BY DEF SignalledWaiting, mgrState
<1>3. pc[p] = "waiting" /\ pc' = [pc EXCEPT ![p] = "gone"]
  BY DEF SignalledWaiting, Goto
<1>4. /\ pc'[p] = "gone" /\ \A q \in Proc \ {p} : pc'[q] = pc[q]
      /\ pc' \in [Proc -> {"new", "waiting", "started", "readying", "running", "gone"}]
  BY <1>3 DEF RegistryInv, ProcTypes
<1>5. ~Sent("ready", p) /\ ~Sent("stopping", p)
  BY <1>1, <1>3 DEF HandshakeAt
<1>6. IdOf(p)' = IdOf(p) /\ ~Live(p)'
  BY <1>2, <1>4 DEF IdOf, Live
<1>7. CASE cfg[p].status = "starting"
  <2>1. myId' = [myId EXCEPT ![p] = IdOf(p)] /\ Send("stopping", p)
    BY <1>7 DEF SignalledWaiting, IdOf
  <2>2. Holds(p) /\ IdOf(p) \in Id
    BY <1>3, <1>7, AtProcess DEF Holds
  <2>3. /\ myId'[p] = IdOf(p) /\ myId' \in [Proc -> Id \cup {0}]
        /\ \A q \in Proc \ {p} : myId'[q] = myId[q]
    BY <2>1, <2>2 DEF RegistryInv, ProcTypes
  <2>4. /\ queue' \in Seq(Message) /\ Once(queue')
        /\ \A t, q : Sent(t, q)' <=> Sent(t, q) \/ (t = "stopping" /\ q = p)
    BY <1>1, <1>5, <2>1, SendStep
  <2>5. \A q \in Proc \ {p} : Untouched(q)
    BY <1>2, <1>4, <2>3, <2>4 DEF Untouched
  <2>6. ProcTypes'
    BY <1>2, <1>4, <2>3, <2>4 DEF RegistryInv, ProcTypes
  <2>7. HandshakeAt(p)'
    <3>1. ~Sent("ready", p)' /\ ~Sent("starting", p)'
      BY <1>1, <1>5, <1>7, <2>4 DEF HandshakeAt
    <3>2. QED
      BY <1>2, <1>4, <1>6, <1>7, <2>3, <3>1 DEF HandshakeAt
  <2>8. Holds(p)'
    BY <1>2, <1>7, <2>4 DEF Holds
  <2>9. QED
    BY <1>2, <2>2, <2>4, <2>5, <2>6, <2>7, <2>8 DEF ProcessKeeps
<1>8. CASE cfg[p].status # "starting"
  <2>1. myId' = myId /\ queue' = queue
    BY <1>8 DEF SignalledWaiting
  <2>2. \A t, q : Sent(t, q)' <=> Sent(t, q)
    BY <2>1, QueueKept
  <2>3. \A q \in Proc \ {p} : Untouched(q)
    BY <1>2, <1>4, <2>1, <2>2 DEF Untouched
  <2>4. ProcTypes'
    BY <1>2, <1>4, <2>1 DEF RegistryInv, ProcTypes
  <2>5. HandshakeAt(p)' /\ ~Holds(p)' /\ ~Holds(p)
    BY <1>1, <1>2, <1>4, <1>5, <1>6, <1>8, <2>2 DEF HandshakeAt, Holds
  <2>6. QED
    BY <1>1, <1>2, <2>1, <2>3, <2>4, <2>5 DEF ProcessKeeps
<1>9. QED
  BY <1>7, <1>8

\* Steps of a live process other than ChangeCore.
LEMMA LiveKeeps ==
    ASSUME RegistryInv, NEW p \in Proc, SendReady(p) \/ BecomeReady(p) \/ Stop(p)
    PROVE  ProcessKeeps(p) /\ UNCHANGED <<mgrState, moves>>
<1>1. HandshakeAt(p) /\ Once(queue) /\ queue \in Seq(Message)
  BY AtProcess
<1>2. UNCHANGED <<mgrState, moves>> /\ cfg' = cfg /\ myId' = myId /\ health' = health
      /\ pool' = pool /\ nf' = nf
  BY DEF SendReady, BecomeReady, Stop, mgrState
<1>3. Live(p)
  BY DEF SendReady, BecomeReady, Stop, Live
<1>4. /\ cfg[p].status = "starting" /\ myId[p] = IdOf(p) /\ IdOf(p)' = IdOf(p)
      /\ ~Sent("starting", p) /\ ~Sent("stopping", p)
  BY <1>1, <1>2, <1>3 DEF HandshakeAt, IdOf, Live
<1>5. Holds(p)
  BY <1>3, <1>4 DEF Holds
<1>6. ASSUME NEW loc \in {"readying", "running", "gone"}, Goto(p, loc)
      PROVE  /\ pc'[p] = loc /\ \A q \in Proc \ {p} : pc'[q] = pc[q]
             /\ pc' \in [Proc -> {"new", "waiting", "started", "readying", "running", "gone"}]
  BY <1>6 DEF RegistryInv, ProcTypes, Goto
<1>7. CASE SendReady(p)
  <2>1. pc[p] = "started" /\ Goto(p, "readying") /\ Send("ready", p)
    BY <1>7 DEF SendReady
  <2>2. ~Sent("ready", p) /\ nf[IdOf(p)].status = "starting"
    BY <1>1, <2>1 DEF HandshakeAt
  <2>3. /\ queue' \in Seq(Message) /\ Once(queue')
        /\ \A t, q : Sent(t, q)' <=> Sent(t, q) \/ (t = "ready" /\ q = p)
    BY <1>1, <2>1, <2>2, SendStep
  <2>4. /\ pc'[p] = "readying" /\ \A q \in Proc \ {p} : pc'[q] = pc[q]
        /\ pc' \in [Proc -> {"new", "waiting", "started", "readying", "running", "gone"}]
    BY <1>6, <2>1
  <2>5. \A q \in Proc \ {p} : Untouched(q)
    BY <1>2, <2>3, <2>4 DEF Untouched
  <2>6. ProcTypes'
    BY <1>2, <2>3, <2>4 DEF RegistryInv, ProcTypes
  <2>7. Holds(p)'
    BY <1>2, <1>4, <2>3, <2>4 DEF Holds, Live
  <2>8. HandshakeAt(p)'
    BY <1>2, <1>4, <2>2, <2>3, <2>4 DEF HandshakeAt, Live
  <2>9. QED
    BY <1>2, <1>5, <2>3, <2>5, <2>6, <2>7, <2>8 DEF ProcessKeeps
<1>8. CASE BecomeReady(p)
  <2>1. pc[p] = "readying" /\ Goto(p, "running") /\ queue' = queue /\ nf[IdOf(p)].status = "running"
    BY <1>4, <1>8 DEF BecomeReady, Valid
  <2>2. ~Sent("ready", p)
    BY <1>1, <2>1 DEF HandshakeAt
  <2>3. \A t, q : Sent(t, q)' <=> Sent(t, q)
    BY <2>1, QueueKept
  <2>4. /\ pc'[p] = "running" /\ \A q \in Proc \ {p} : pc'[q] = pc[q]
        /\ pc' \in [Proc -> {"new", "waiting", "started", "readying", "running", "gone"}]
    BY <1>6, <2>1
  <2>5. \A q \in Proc \ {p} : Untouched(q)
    BY <1>2, <2>3, <2>4 DEF Untouched
  <2>6. ProcTypes'
    BY <1>2, <2>1, <2>4 DEF RegistryInv, ProcTypes
  <2>7. Holds(p)'
    BY <1>2, <1>4, <2>3, <2>4 DEF Holds, Live
  <2>8. HandshakeAt(p)'
    BY <1>2, <1>4, <2>2, <2>3, <2>4 DEF HandshakeAt, Live
  <2>9. QED
    BY <1>1, <1>2, <1>5, <2>1, <2>5, <2>6, <2>7, <2>8 DEF ProcessKeeps
<1>9. CASE Stop(p)
  <2>1. pc[p] \in {"started", "running"} /\ Goto(p, "gone") /\ Send("stopping", p)
    BY <1>9 DEF Stop
  <2>2. ~Sent("ready", p)
    BY <1>1, <2>1 DEF HandshakeAt
  <2>3. /\ queue' \in Seq(Message) /\ Once(queue')
        /\ \A t, q : Sent(t, q)' <=> Sent(t, q) \/ (t = "stopping" /\ q = p)
    BY <1>1, <1>4, <2>1, SendStep
  <2>4. /\ pc'[p] = "gone" /\ \A q \in Proc \ {p} : pc'[q] = pc[q]
        /\ pc' \in [Proc -> {"new", "waiting", "started", "readying", "running", "gone"}]
    BY <1>6, <2>1
  <2>5. \A q \in Proc \ {p} : Untouched(q)
    BY <1>2, <2>3, <2>4 DEF Untouched
  <2>6. ProcTypes'
    BY <1>2, <2>3, <2>4 DEF RegistryInv, ProcTypes
  <2>7. Holds(p)'
    BY <1>2, <1>4, <2>3, <2>4 DEF Holds, Live
  <2>8. HandshakeAt(p)'
    BY <1>2, <1>4, <2>2, <2>3, <2>4 DEF HandshakeAt, Live
  <2>9. QED
    BY <1>2, <1>5, <2>3, <2>5, <2>6, <2>7, <2>8 DEF ProcessKeeps
<1>10. QED
  BY <1>7, <1>8, <1>9

\* Every step of a process but ChangeCore.
LEMMA ProcessStep ==
    ASSUME RegistryInv, NEW p \in Proc, Process(p), ~ChangeCore(p)
    PROVE  ProcessKeeps(p) /\ UNCHANGED <<mgrState, moves>>
BY LaunchKeeps, AnsweredKeeps, SignalledKeeps, LiveKeeps DEF Process

-----------------------------------------------------------------------------
(* Steps of the manager *)

\* What a step about process p and the NF id shows, when no other process
\* holds that id.
ManagerKeeps(p, id) ==
    /\ MgrTypes' /\ ProcTypes' /\ Once(queue')
    /\ \A q \in Proc \ {p} : Untouched(q) /\ (Holds(q) => IdOf(q) # id)
    /\ \A i \in Id \ {id} : nf'[i].status = nf[i].status
    /\ HandshakeAt(p)'
    /\ Holds(p)' => IdOf(p)' = id /\ id \in Registered'
    /\ Registered' \subseteq ringed'

\* Such a step keeps the handshakes and the ownership of ids.
LEMMA ManagerPreserves ==
    ASSUME RegistryInv, NEW p \in Proc, NEW id, ManagerKeeps(p, id)
    PROVE  Handshake' /\ Owned'
<1>1. ASSUME NEW q \in Proc, q # p
      PROVE  /\ HandshakeAt(q)' /\ (Holds(q)' <=> Holds(q)) /\ IdOf(q)' = IdOf(q)
             /\ Holds(q)' => IdOf(q)' # id /\ IdOf(q)' \in Registered'
  <2>1. HandshakeAt(q) /\ Untouched(q) /\ (Holds(q) => IdOf(q) # id)
    BY <1>1 DEF RegistryInv, Handshake, ManagerKeeps
  <2>2. Holds(q) => IdOf(q) \in Registered /\ IdOf(q) \in Id
    BY AtProcess
  <2>3. Holds(q) => nf'[IdOf(q)].status = nf[IdOf(q)].status
    BY <2>1, <2>2 DEF ManagerKeeps
  <2>4. HandshakeAt(q)' /\ (Holds(q)' <=> Holds(q)) /\ IdOf(q)' = IdOf(q)
    BY <2>1, <2>3, UntouchedStep
  <2>5. QED
    BY <2>1, <2>2, <2>3, <2>4 DEF Registered
<1>2. Handshake'
  BY <1>1 DEF Handshake, ManagerKeeps
<1>3. \A q \in Proc : Holds(q)' => IdOf(q)' \in Registered'
  BY <1>1 DEF ManagerKeeps
<1>4. ASSUME NEW q \in Proc, NEW r \in Proc, Holds(q)', Holds(r)', IdOf(q)' = IdOf(r)'
      PROVE  q = r
  <2>1. CASE q = p \/ r = p
    BY <1>1, <1>4, <2>1 DEF ManagerKeeps
  <2>2. CASE q # p /\ r # p
    BY <1>1, <1>4, <2>2 DEF RegistryInv, Owned
  <2>3. QED
    BY <2>1, <2>2
<1>5. Owned'
  BY <1>3, <1>4 DEF Owned, ManagerKeeps
<1>6. QED
  BY <1>2, <1>5

\* onvm_nf_next_instance_id returns an id, or MAX_NFS when there is none.
LEMMA NextInstanceIdRange ==
    ASSUME MgrTypes
    PROVE  NextInstanceId \in Id \cup {MaxNfs}
<1> DEFINE idle  == Id \ Running
           later == {i \in idle : i >= nextId}
<1>1. idle \in SUBSET Id /\ later \in SUBSET Id
  OBVIOUS
<1> HIDE DEF idle, later
<1>2. ASSUME NEW S \in SUBSET Id, S # {} PROVE Min(S) \in Id
  <2>1. S \in SUBSET Nat
    BY DEF Id
  <2>2. Min(S) \in S
    BY <1>2, <2>1, MinExists
  <2>3. QED
    BY <2>2
<1>3. NextInstanceId = IF numNfs >= MaxNfs \/ idle = {} THEN MaxNfs
                       ELSE IF later # {} THEN Min(later) ELSE Min(idle)
  BY DEF NextInstanceId, idle, later
<1>4. CASE numNfs >= MaxNfs \/ idle = {}
  BY <1>3, <1>4
<1>5. CASE ~(numNfs >= MaxNfs \/ idle = {}) /\ later # {}
  BY <1>1, <1>2, <1>3, <1>5
<1>6. CASE ~(numNfs >= MaxNfs \/ idle = {}) /\ later = {}
  BY <1>1, <1>2, <1>3, <1>6
<1>7. QED
  BY <1>4, <1>5, <1>6

\* The search for the least used core ends with a core, when there is one.
LEMMA BestCoreFree ==
    ASSUME coreCnt \in [Core -> 0 .. (U16 - 1)], FreeCores # {}
    PROVE  BestCore \in FreeCores
<1>1. FreeCores \subseteq Core /\ Core \subseteq Nat
  BY Constants DEF FreeCores
<1> DEFINE counts == {coreCnt[c] : c \in FreeCores}
           least  == {c \in FreeCores : coreCnt[c] = Min(counts)}
<1>2. \A c \in FreeCores : coreCnt[c] \in Nat /\ c \in Nat
  BY <1>1, Constants
<1>3. counts \in SUBSET Nat /\ counts # {}
  BY <1>2
<1>4. Min(counts) \in counts /\ \A x \in counts : Min(counts) <= x
  BY <1>3, MinExists
<1>5. least \in SUBSET Nat /\ least # {}
  BY <1>2, <1>4
<1>6. Min(least) \in least /\ \A c \in least : Min(least) <= c
  <2> HIDE DEF least
  <2>1. QED
    BY <1>5, MinExists
<1>7. ASSUME NEW d \in FreeCores
      PROVE  \/ coreCnt[Min(least)] < coreCnt[d]
             \/ coreCnt[Min(least)] = coreCnt[d] /\ Min(least) <= d
  <2>1. /\ Min(least) \in FreeCores /\ coreCnt[Min(least)] = Min(counts)
        /\ Min(counts) <= coreCnt[d]
        /\ coreCnt[d] = Min(counts) => Min(least) <= d
    BY <1>4, <1>6
  <2> HIDE DEF least, counts
  <2>2. coreCnt[Min(least)] \in Nat /\ coreCnt[d] \in Nat
    BY <1>2, <2>1
  <2>3. QED
    BY <2>1, <2>2
<1>8. Min(least) \in FreeCores
  BY <1>6
<1> HIDE DEF least, counts
<1>9. QED
  BY <1>7, <1>8 DEF BestCore

\* A request that onvm_nf_start accepts names an id, a service and a core that
\* can be given out; a dedicated core is given out when nobody is on it.
LEMMA Accepted ==
    ASSUME MgrTypes, NEW o \in Option, NEW id \in Id \cup {MaxNfs},
           StartVerdict(o, id) = "ok"
    PROVE  /\ id \in Id /\ ~Valid(id) /\ o.service \in Service
           /\ CoreFor(o) \in Core /\ ~dedicated[CoreFor(o)]
           /\ ~o.share => coreCnt[CoreFor(o)] = 0
<1>1. /\ o.service \in Nat /\ o.manual \in BOOLEAN /\ o.core \in Core /\ MaxNfs \in Nat
      /\ MaxServices \in Nat
  BY Constants DEF Option
<1>2. ~(id >= MaxNfs) /\ ~(o.service >= MaxServices) /\ ~Valid(id) /\ CoreVerdict(o) = "ok"
  BY DEF StartVerdict
<1>3. id \in Id /\ o.service \in Service
  BY <1>1, <1>2 DEF Id, Service
<1>4. /\ ~(o.manual /\ o.core \notin Enabled) /\ ~(o.manual /\ dedicated[o.core])
      /\ ~(~o.manual /\ (\A c \in FreeCores : coreCnt[c] = U16 - 1))
      /\ ~(~o.share /\ coreCnt[CoreFor(o)] # 0)
  BY <1>2 DEF CoreVerdict
<1>5. CoreFor(o) \in Core /\ ~dedicated[CoreFor(o)]
  <2>1. CASE o.manual
    BY <1>1, <1>4, <2>1 DEF CoreFor
  <2>2. CASE ~o.manual
    <3>1. FreeCores # {}
      BY <1>4, <2>2
    <3>2. BestCore \in FreeCores
      BY <3>1, BestCoreFree DEF MgrTypes
    <3>3. QED
      BY <2>2, <3>2, Constants DEF CoreFor, FreeCores
  <2>3. QED
    BY <2>1, <2>2
<1>6. QED
  BY <1>2, <1>3, <1>4, <1>5

\* Every verdict of onvm_nf_start but "ok" is a status of the answer.
LEMMA Verdicts ==
    ASSUME NEW o, NEW id, StartVerdict(o, id) # "ok"
    PROVE  StartVerdict(o, id) \in Verdict \ {"waiting", "starting"}
BY DEF StartVerdict, CoreVerdict, Verdict

\* The service map stays exact when services and the NFs that run stay.
LEMMA MapKept ==
    ASSUME RegistryInv, services' = services, perService' = perService,
           \A i \in Id : (nf'[i].status = "running" <=> nf[i].status = "running"),
           \A i \in Id : nf[i].status = "running" => nf'[i].service = nf[i].service
    PROVE  ServiceMapExact' /\ Running' = Running
<1>1. Running' = Running
  BY DEF Running, Valid
<1>2. \A s \in Service : {i \in Running : nf[i].service = s}'  = {i \in Running : nf[i].service = s}
  BY <1>1 DEF Running, Valid
<1>3. QED
  BY <1>1, <1>2 DEF RegistryInv, ServiceMapExact

\* A relocated NF moves to the core that the manager chose.
LEMMA ChangeCoreKeeps ==
    ASSUME RegistryInv, NEW p \in Proc, ChangeCore(p)
    PROVE  RegistryInv'
<1> DEFINE id == myId[p]
<1>1. /\ nf' = [nf EXCEPT ![id].core = Head(moves[id])]
      /\ moves' = [moves EXCEPT ![id] = Tail(moves[id])]
      /\ pc[p] = "running" /\ moves[id] # <<>>
      /\ health' = health /\ ringed' = ringed /\ services' = services /\ perService' = perService
      /\ numNfs' = numNfs /\ nextId' = nextId /\ coreCnt' = coreCnt /\ dedicated' = dedicated
      /\ pool' = pool /\ queue' = queue /\ pc' = pc /\ cfg' = cfg /\ myId' = myId
  BY DEF ChangeCore, procs
<1>2. HandshakeAt(p) /\ Live(p)
  BY <1>1, AtProcess DEF Live
<1>3. Holds(p) /\ id = IdOf(p)
  BY <1>2 DEF HandshakeAt, Holds
<1>4. id \in Id
  BY <1>3, AtProcess
<1>5. Head(moves[id]) \in Core /\ Tail(moves[id]) \in Seq(Core)
  BY <1>1, <1>4, HeadTailProperties DEF RegistryInv, MgrTypes
<1>6. MgrTypes'
  <2>1. nf' \in [Id -> NfRecord]
    <3>1. nf \in [Id -> NfRecord]
      BY DEF RegistryInv, MgrTypes
    <3>2. [nf[id] EXCEPT !.core = Head(moves[id])] \in NfRecord
      BY <1>4, <1>5, <3>1 DEF NfRecord
    <3>3. QED
      BY <1>1, <1>4, <3>1, <3>2
  <2>2. moves' \in [Id -> Seq(Core)]
    BY <1>1, <1>4, <1>5 DEF RegistryInv, MgrTypes
  <2>3. QED
    BY <1>1, <2>1, <2>2 DEF RegistryInv, MgrTypes
<1>7. ProcTypes'
  BY <1>1 DEF RegistryInv, ProcTypes
<1>8. \A i \in Id : nf'[i].status = nf[i].status /\ nf'[i].service = nf[i].service
  BY <1>1, <1>4, <1>5 DEF RegistryInv, MgrTypes, NfRecord
<1>9. Registered' = Registered
  BY <1>8 DEF Registered
<1>10. \A q \in Proc : Untouched(q)
  BY <1>1, QueueKept DEF Untouched
<1>11. HandshakeAt(p)' /\ IdOf(p)' = IdOf(p)
  BY <1>2, <1>3, <1>4, <1>8, <1>10, UntouchedStep
<1>12. \A q \in Proc \ {p} : Holds(q) => IdOf(q) # id
  BY <1>3 DEF RegistryInv, Owned
<1>13. id \in Registered'
  BY <1>3, <1>9, AtProcess
<1>14. ManagerKeeps(p, id)
  BY <1>1, <1>3, <1>6, <1>7, <1>8, <1>9, <1>10, <1>11, <1>12, <1>13
     DEF ManagerKeeps, RegistryInv, Owned, Handshake
<1>15. Handshake' /\ Owned'
  BY <1>14, ManagerPreserves
<1>16. ServiceMapExact' /\ Running' = Running
  BY <1>1, <1>8, MapKept
<1>17. QED
  BY <1>1, <1>6, <1>7, <1>15, <1>16 DEF RegistryInv, NumNfsExact

\* onvm_nf_start, whether it accepts the request or not.
LEMMA HandleStartingKeeps ==
    ASSUME RegistryInv, NEW p \in Proc, HandleStarting(p)
    PROVE  RegistryInv'
<1> DEFINE o       == cfg[p].opt
           id      == IF o.inst = NoId THEN NextInstanceId ELSE o.inst
           verdict == StartVerdict(o, id)
           core    == CoreFor(o)
<1>1. /\ Receive("starting", p)
      /\ nextId' = IF o.inst # NoId \/ numNfs >= MaxNfs THEN nextId
                   ELSE IF id = MaxNfs THEN MaxNfs ELSE id + 1
      /\ services' = services /\ perService' = perService /\ numNfs' = numNfs
      /\ pool' = pool /\ moves' = moves /\ pc' = pc /\ myId' = myId
  BY DEF HandleStarting
<1>2. HandshakeAt(p) /\ Once(queue) /\ queue \in Seq(Message) /\ o \in Option
  BY AtProcess
<1>3. MgrTypes /\ ProcTypes
  BY DEF RegistryInv
<1>4. /\ queue' \in Seq(Message) /\ Once(queue') /\ Sent("starting", p)
      /\ \A t, q : Sent(t, q)' <=> Sent(t, q) /\ ~(t = "starting" /\ q = p)
  BY <1>1, <1>2, ReceiveStep
<1>5. /\ pc[p] \in {"waiting", "gone"} /\ cfg[p].status = "waiting"
      /\ ~Sent("starting", p)' /\ ~Sent("ready", p)' /\ ~Sent("stopping", p)' /\ ~Live(p)'
  BY <1>1, <1>2, <1>4 DEF HandshakeAt, Live
<1>6. id \in Id \cup {MaxNfs}
  BY <1>2, <1>3, NextInstanceIdRange DEF Option
<1>7. nextId' \in 1 .. MaxNfs
  <2>1. id \in Nat /\ 1 <= id /\ id <= MaxNfs /\ MaxNfs \in Nat
    BY <1>6, Constants DEF Id
  <2>2. nextId \in 1 .. MaxNfs
    BY <1>3 DEF MgrTypes
  <2> HIDE DEF id, o
  <2>3. QED
    BY <1>1, <2>1, <2>2
<1>8. CASE verdict # "ok" \/ RingExists(id)
  <2>1. /\ nf' = nf /\ ringed' = ringed /\ coreCnt' = coreCnt /\ dedicated' = dedicated
        /\ \/ cfg' = [cfg EXCEPT ![p].status = verdict] /\ verdict # "ok" /\ health' = health
           \/ cfg' = cfg /\ health' = "ring_clash"
    BY <1>8 DEF HandleStarting
  <2>2. verdict # "ok" => verdict \in Verdict \ {"waiting", "starting"}
    BY Verdicts
  <2> HIDE DEF verdict, id
  <2>3. /\ cfg' \in [Proc -> CfgRecord] /\ cfg'[p].status # "starting"
        /\ \A q \in Proc \ {p} : cfg'[q] = cfg[q]
    BY <1>3, <1>5, <2>1, <2>2 DEF ProcTypes, CfgRecord
  <2>4. ProcTypes'
    BY <1>1, <1>3, <1>4, <2>1, <2>3 DEF ProcTypes
  <2>5. MgrTypes'
    BY <1>1, <1>3, <1>7, <2>1 DEF MgrTypes
  <2>6. \A q \in Proc \ {p} : Untouched(q)
    BY <1>1, <1>4, <2>3 DEF Untouched
  <2>7. HandshakeAt(p)' /\ ~Holds(p)'
    BY <1>1, <1>5, <2>3 DEF HandshakeAt, Holds, Live
  <2>8. Registered' = Registered
    BY <2>1 DEF Registered
  <2>9. ManagerKeeps(p, 0)
    <3>1. \A q \in Proc \ {p} : Holds(q) => IdOf(q) # 0
      BY AtProcess DEF Id
    <3>2. QED
      BY <1>4, <2>1, <2>4, <2>5, <2>6, <2>7, <2>8, <3>1 DEF ManagerKeeps, RegistryInv, Owned
  <2>10. Handshake' /\ Owned'
    BY <2>9, ManagerPreserves
  <2>11. ServiceMapExact' /\ Running' = Running
    BY <1>1, <2>1, MapKept
  <2>12. QED
    BY <1>1, <2>4, <2>5, <2>10, <2>11 DEF RegistryInv, NumNfsExact
<1>9. CASE verdict = "ok" /\ ~RingExists(id)
  <2>1. /\ nf' = [nf EXCEPT ![id] = [status |-> "starting", service |-> o.service, core |-> core]]
        /\ ringed' = ringed \cup {id}
        /\ coreCnt' = [coreCnt EXCEPT ![core] = (@ + 1) % U16]
        /\ dedicated' = [dedicated EXCEPT ![core] = @ \/ ~o.share]
        /\ cfg' = [cfg EXCEPT ![p] = [status |-> "starting", opt |-> [o EXCEPT !.inst = id]]]
        /\ health' = health
    BY <1>9 DEF HandleStarting
  <2>2. id \in Id /\ ~Valid(id) /\ o.service \in Service /\ core \in Core
    BY <1>2, <1>3, <1>6, <1>9, Accepted
  <2>3. [o EXCEPT !.inst = id] \in Option /\ [o EXCEPT !.inst = id].inst = id
    BY <1>2, <2>2 DEF Option
  <2>4. id \notin ringed /\ id \notin Registered
    BY <1>9 DEF RingExists, RegistryInv, Owned
  <2> DEFINE opt == [o EXCEPT !.inst = id]
  <2> HIDE DEF verdict, id, core, opt
  <2>5. MgrTypes'
    <3>1. nf' \in [Id -> NfRecord] /\ ringed' \subseteq Id
      BY <1>3, <2>1, <2>2 DEF MgrTypes, NfRecord, Status
    <3>2. coreCnt' \in [Core -> 0 .. (U16 - 1)]
      <4>1. coreCnt[core] \in Nat /\ U16 \in Nat \ {0}
        BY <1>3, <2>2, Constants DEF MgrTypes
      <4>2. (coreCnt[core] + 1) % U16 \in 0 .. (U16 - 1)
        BY <4>1
      <4>3. QED
        BY <1>3, <2>1, <4>2 DEF MgrTypes
    <3>3. dedicated' \in [Core -> BOOLEAN]
      <4>1. (dedicated[core] \/ ~o.share) \in BOOLEAN
        OBVIOUS
      <4>2. QED
        BY <1>3, <2>1, <2>2, <4>1 DEF MgrTypes
    <3>4. QED
      BY <1>1, <1>3, <1>7, <3>1, <3>2, <3>3 DEF MgrTypes
  <2>6. /\ cfg' = [cfg EXCEPT ![p] = [status |-> "starting", opt |-> opt]]
        /\ opt \in Option /\ opt.inst = id
    BY <2>1, <2>3 DEF opt
  <2>7. /\ cfg' \in [Proc -> CfgRecord] /\ cfg'[p].status = "starting" /\ cfg'[p].opt.inst = id
        /\ \A q \in Proc \ {p} : cfg'[q] = cfg[q]
    BY <1>3, <2>6 DEF ProcTypes, CfgRecord, Verdict
  <2>8. ProcTypes'
    BY <1>1, <1>3, <1>4, <2>1, <2>7 DEF ProcTypes
  <2>9. \A q \in Proc \ {p} : Untouched(q)
    BY <1>1, <1>4, <2>7 DEF Untouched
  <2>10. \A q \in Proc : Holds(q) => IdOf(q) # id
    BY <2>4 DEF RegistryInv, Owned
  <2>11. IdOf(p)' = id
    BY <2>7 DEF IdOf
  <2>12. /\ nf'[id].status = "starting"
         /\ \A i \in Id \ {id} : nf'[i] = nf[i]
    BY <1>3, <2>1, <2>2 DEF MgrTypes
  <2>13. HandshakeAt(p)'
    <3>1. nf'[IdOf(p)'].status = "starting"
      BY <2>11, <2>12
    <3>2. QED
      BY <1>1, <1>5, <3>1 DEF HandshakeAt
  <2>14. Registered' = Registered \cup {id}
    BY <2>2, <2>12 DEF Registered
  <2>15. ManagerKeeps(p, id)
    <3>1. Registered' \subseteq ringed'
      BY <2>1, <2>14 DEF RegistryInv, Owned
    <3>2. QED
      BY <1>4, <2>5, <2>8, <2>9, <2>10, <2>11, <2>12, <2>13, <2>14, <3>1 DEF ManagerKeeps
  <2>16. Handshake' /\ Owned'
    BY <2>15, ManagerPreserves
  <2>17. ServiceMapExact' /\ Running' = Running
    <3>1. \A i \in Id : nf'[i].status = "running" <=> nf[i].status = "running"
      BY <2>2, <2>12 DEF Valid
    <3>2. \A i \in Id : nf[i].status = "running" => nf'[i].service = nf[i].service
      BY <2>2, <2>12 DEF Valid
    <3>3. QED
      BY <1>1, <3>1, <3>2, MapKept
  <2>18. QED
    BY <1>1, <2>5, <2>8, <2>16, <2>17 DEF RegistryInv, NumNfsExact
<1>10. QED
  BY <1>8, <1>9

\* The NF of a message that it is ready or that it stops is the sender's own.
LEMMA SenderHolds ==
    ASSUME RegistryInv, NEW p \in Proc, Sent("ready", p) \/ Sent("stopping", p)
    PROVE  /\ Holds(p) /\ myId[p] = IdOf(p) /\ myId[p] \in Id /\ myId[p] \in Registered
           /\ \A q \in Proc \ {p} : Holds(q) => IdOf(q) # myId[p]
           /\ Sent("ready", p) => nf[myId[p]].status = "starting"
<1>1. HandshakeAt(p)
  BY AtProcess
<1>2. Holds(p) /\ myId[p] = IdOf(p)
  BY <1>1 DEF HandshakeAt, Holds, Live
<1>3. myId[p] \in Id /\ myId[p] \in Registered
  BY <1>2, AtProcess
<1>4. \A q \in Proc \ {p} : Holds(q) => IdOf(q) # myId[p]
  BY <1>2 DEF RegistryInv, Owned
<1>5. QED
  BY <1>1, <1>2, <1>3, <1>4 DEF HandshakeAt

\* onvm_nf_ready enters the NF behind the others of its service.
LEMMA HandleReadyKeeps ==
    ASSUME RegistryInv, NEW p \in Proc, HandleReady(p)
    PROVE  RegistryInv'
<1> DEFINE id == myId[p]
           s  == nf[id].service
<1>1. /\ Receive("ready", p) /\ ringed' = ringed /\ nextId' = nextId /\ coreCnt' = coreCnt
      /\ dedicated' = dedicated /\ pool' = pool /\ moves' = moves
      /\ pc' = pc /\ cfg' = cfg /\ myId' = myId
  BY DEF HandleReady, procs
<1>2. HandshakeAt(p) /\ Once(queue) /\ queue \in Seq(Message) /\ MgrTypes /\ ProcTypes
  BY AtProcess DEF RegistryInv
<1>3. /\ queue' \in Seq(Message) /\ Once(queue') /\ Sent("ready", p)
      /\ \A t, q : Sent(t, q)' <=> Sent(t, q) /\ ~(t = "ready" /\ q = p)
  BY <1>1, <1>2, ReceiveStep
<1>4. /\ Holds(p) /\ id = IdOf(p) /\ id \in Id /\ id \in Registered
      /\ \A q \in Proc \ {p} : Holds(q) => IdOf(q) # id
      /\ nf[id].status = "starting"
  BY <1>3, SenderHolds
<1>5. pc[p] = "readying" /\ ~Sent("ready", p)' /\ ~Sent("starting", p)' /\ ~Sent("stopping", p)'
      /\ cfg[p].status = "starting"
  BY <1>2, <1>3 DEF HandshakeAt, Live
<1>6. HandshakeAt(p)' /\ IdOf(p)' = id
  <2>1. IdOf(p)' = id /\ myId'[p] = id
    BY <1>1, <1>4 DEF IdOf
  <2> HIDE DEF id
  <2>2. QED
    BY <1>1, <1>5, <2>1 DEF HandshakeAt, Live
<1>7. \A q \in Proc \ {p} : Untouched(q)
  BY <1>1, <1>3 DEF Untouched
<1>8. CASE perService[s] >= MaxPerService
  <2>1. /\ nf' = nf /\ services' = services /\ perService' = perService /\ numNfs' = numNfs
        /\ health' = "overrun"
    BY <1>4, <1>8 DEF HandleReady
  <2>2. MgrTypes' /\ ProcTypes'
    BY <1>1, <1>2, <1>3, <2>1 DEF MgrTypes, ProcTypes
  <2>3. Registered' = Registered
    BY <2>1 DEF Registered
  <2>4. ManagerKeeps(p, id)
    BY <1>1, <1>3, <1>4, <1>6, <1>7, <2>1, <2>2, <2>3 DEF ManagerKeeps, RegistryInv, Owned
  <2>5. Handshake' /\ Owned'
    BY <2>4, ManagerPreserves
  <2>6. ServiceMapExact' /\ Running' = Running
    BY <2>1, MapKept
  <2>7. QED
    BY <2>1, <2>2, <2>5, <2>6 DEF RegistryInv, NumNfsExact
<1>9. CASE ~(perService[s] >= MaxPerService)
  <2> DEFINE n == perService[s]
  <2>1. /\ services' = [services EXCEPT ![s][n] = id]
        /\ perService' = [perService EXCEPT ![s] = n + 1]
        /\ numNfs' = numNfs + 1
        /\ nf' = [nf EXCEPT ![id].status = "running"]
        /\ health' = health
    BY <1>4, <1>9 DEF HandleReady
  <2>2. s \in Service
    BY <1>2, <1>4 DEF MgrTypes, NfRecord
  <2>3. n \in 0 .. MaxPerService /\ n < MaxPerService /\ services[s] \in Row
    BY <1>2, <1>9, <2>2, Constants DEF MgrTypes
  <2>4. /\ \A i \in Id \ {id} : nf'[i] = nf[i]
        /\ nf'[id].status = "running" /\ nf'[id].service = s /\ nf'[id].core = nf[id].core
        /\ nf' \in [Id -> NfRecord]
    <3>1. nf \in [Id -> NfRecord]
      BY <1>2 DEF MgrTypes
    <3>2. /\ [nf[id] EXCEPT !.status = "running"] \in NfRecord
          /\ [nf[id] EXCEPT !.status = "running"].status = "running"
          /\ [nf[id] EXCEPT !.status = "running"].service = s
          /\ [nf[id] EXCEPT !.status = "running"].core = nf[id].core
      BY <1>4, <3>1 DEF NfRecord, Status
    <3>3. QED
      BY <1>4, <2>1, <3>1, <3>2
  <2>5. Running' = Running \cup {id} /\ id \notin Running /\ Running \in SUBSET Id
        /\ Registered' = Registered
    BY <1>4, <2>4 DEF Running, Valid, Registered
  <2>6. Listed(s) \in SUBSET Id /\ id \notin Listed(s) /\ Exact(services[s], n, Listed(s))
    BY <1>2, <2>2, <2>5, RowWise DEF RegistryInv, MgrTypes, Listed, RowsExact, PerServiceType
  <2>7. \A t \in Service : Listed(t)' = IF t = s THEN Listed(t) \cup {id} ELSE Listed(t)
    <3>1. \A i \in Running' : nf'[i].service = nf[i].service
      BY <1>4, <2>4 DEF Running
    <3>2. nf[id].service = s /\ id \in Running'
      BY <2>5
    <3> HIDE DEF id, s
    <3>3. QED
      BY <2>5, <3>1, <3>2 DEF Listed
  <2> DEFINE row == [services[s] EXCEPT ![n] = id]
  <2>8. services' = [services EXCEPT ![s] = row]
    BY <2>1
  <2>9. row \in Row /\ Exact(row, n + 1, Listed(s) \cup {id})
    BY <1>4, <2>3, <2>6, RowAdded
  <2> HIDE DEF id, s, n, row
  <2>10. services' \in [Service -> Row] /\ perService' \in [Service -> 0 .. MaxPerService]
    <3>1. services \in [Service -> Row] /\ perService \in [Service -> 0 .. MaxPerService]
      BY <1>2 DEF MgrTypes
    <3>2. n + 1 \in 0 .. MaxPerService
      BY <2>9 DEF Exact
    <3>3. QED
      BY <2>1, <2>2, <2>8, <2>9, <3>1, <3>2
  <2>11. ServiceMapExact'
    <3>1. ASSUME NEW t \in Service PROVE Exact(services[t], perService[t], Listed(t))'
      <4>1. CASE t = s
        <5>1. services \in [Service -> Row] /\ perService \in [Service -> 0 .. MaxPerService]
          BY <1>2 DEF MgrTypes
        <5>2. services'[t] = row /\ perService'[t] = n + 1
          BY <2>1, <2>2, <2>8, <4>1, <5>1
        <5>3. Listed(t)' = Listed(s) \cup {id}
          BY <2>7, <4>1
        <5>4. QED
          BY <2>9, <5>2, <5>3 DEF Exact
      <4>2. CASE t # s
        <5>1. services'[t] = services[t] /\ perService'[t] = perService[t] /\ Listed(t)' = Listed(t)
          BY <1>2, <2>1, <2>2, <2>7, <2>8, <4>2 DEF MgrTypes
        <5>2. Exact(services[t], perService[t], Listed(t))
          BY <1>2, RowWise DEF RegistryInv, MgrTypes, RowsExact, PerServiceType
        <5>3. QED
          BY <5>1, <5>2 DEF Exact
      <4>3. QED
        BY <4>1, <4>2
    <3>2. RowsExact' /\ PerServiceType'
      BY <2>10, <3>1 DEF RowsExact, PerServiceType
    <3>3. QED
      BY <3>2, RowWise, PTL
  <2>12. NumNfsExact'
    <3>1. Cardinality(Running \cup {id}) = Cardinality(Running) + 1
      BY <1>4, <2>5, IdSets
    <3>2. QED
      BY <2>1, <2>5, <3>1 DEF RegistryInv, NumNfsExact
  <2>13. MgrTypes' /\ ProcTypes'
    BY <1>1, <1>2, <1>3, <2>1, <2>4, <2>10 DEF MgrTypes, ProcTypes
  <2>14. ManagerKeeps(p, id)
    BY <1>1, <1>3, <1>4, <1>6, <1>7, <2>4, <2>5, <2>13 DEF ManagerKeeps, RegistryInv, Owned
  <2>15. Handshake' /\ Owned'
    BY <2>14, ManagerPreserves
  <2>16. QED
    BY <2>11, <2>12, <2>13, <2>15 DEF RegistryInv
<1>10. QED
  BY <1>8, <1>9

\* What onvm_nf_stop does to the cores and the relocation messages is well
\* typed: releasing a core and relocating an NF to it.
LEMMA CoreTypes ==
    ASSUME MgrTypes, NEW freed \in Core, NEW id \in Id
    PROVE  /\ CoreReleased(freed) \in [Core -> 0 .. (U16 - 1)]
           /\ [moves EXCEPT ![id] = <<>>] \in [Id -> Seq(Core)]
           /\ \A cnt \in [Core -> 0 .. (U16 - 1)], c \in Core :
                  [cnt EXCEPT ![c] = (@ - 1) % U16, ![freed] = (@ + 1) % U16]
                      \in [Core -> 0 .. (U16 - 1)]
           /\ \A i \in Id : [moves EXCEPT ![id] = <<>>, ![i] = Append(@, freed)]
                                \in [Id -> Seq(Core)]
<1>1. U16 \in Nat \ {0}
  BY Constants
<1>2. \A x \in 0 .. (U16 - 1) : (x - 1) % U16 \in 0 .. (U16 - 1) /\ (x + 1) % U16 \in 0 .. (U16 - 1)
  BY <1>1
<1>3. coreCnt \in [Core -> 0 .. (U16 - 1)] /\ moves \in [Id -> Seq(Core)] /\ <<>> \in Seq(Core)
  BY EmptySeq DEF MgrTypes
<1>4. CoreReleased(freed) \in [Core -> 0 .. (U16 - 1)]
  BY <1>2, <1>3 DEF CoreReleased
<1>5. ASSUME NEW cnt \in [Core -> 0 .. (U16 - 1)], NEW c \in Core
      PROVE  [cnt EXCEPT ![c] = (@ - 1) % U16, ![freed] = (@ + 1) % U16] \in [Core -> 0 .. (U16 - 1)]
  BY <1>2
<1>6. \A m \in Seq(Core) : Append(m, freed) \in Seq(Core)
  BY AppendProperties
<1>7. [moves EXCEPT ![id] = <<>>] \in [Id -> Seq(Core)]
  BY <1>3
<1>8. ASSUME NEW i \in Id
      PROVE  [moves EXCEPT ![id] = <<>>, ![i] = Append(@, freed)] \in [Id -> Seq(Core)]
  BY <1>3, <1>6
<1>9. QED
  BY <1>4, <1>5, <1>7, <1>8

\* What onvm_nf_stop does to the core table and to the rest of the books.
LEMMA StoppingParts ==
    ASSUME RegistryInv, NEW p \in Proc, HandleStopping(p), NEW id, id = myId[p]
    PROVE  /\ Receive("stopping", p) /\ nextId' = nextId /\ pc' = pc /\ cfg' = cfg /\ myId' = myId
           /\ id \in Id /\ id \in Registered /\ Sent("stopping", p)
           /\ nf' = [nf EXCEPT ![id].status = "stopped"]
           /\ dedicated' = [dedicated EXCEPT ![nf[id].core] = FALSE]
           /\ pool' = Append(pool, id)
           /\ nf[id].status # "running" =>
                  /\ nf[id].status = "starting"
                  /\ UNCHANGED <<ringed, services, perService, numNfs>>
           /\ nf[id].status = "running" =>
                  /\ numNfs' = numNfs - 1 /\ ringed' = ringed \ {id}
                  /\ perService' = [perService EXCEPT ![nf[id].service] = @ - 1]
                  /\ services' = [services EXCEPT ![nf[id].service] = Unlisted(@, id)]
           /\ health' \in {health, "no_candidate"}
           /\ coreCnt' \in [Core -> 0 .. (U16 - 1)] /\ moves' \in [Id -> Seq(Core)]
           /\ ~Reassign => /\ coreCnt' = CoreReleased(nf[id].core)
                           /\ moves' = [moves EXCEPT ![id] = <<>>]
           /\ health' = health =>
                  \/ coreCnt' = CoreReleased(nf[id].core)
                  \/ \E c \in Core \ {nf[id].core} :
                        coreCnt' = [CoreReleased(nf[id].core) EXCEPT
                                        ![c] = (@ - 1) % U16, ![nf[id].core] = (@ + 1) % U16]
<1>1. Receive("stopping", p) /\ nextId' = nextId /\ pc' = pc /\ cfg' = cfg /\ myId' = myId
  BY DEF HandleStopping, procs
<1>2. Sent("stopping", p)
  BY <1>1, AtProcess, ReceiveStep
<1>3. id \in Id /\ id \in Registered
  BY <1>2, SenderHolds
<1>4. MgrTypes /\ nf[id].core \in Core /\ nf[id].status \in {"starting", "running"}
  BY SMTT(30), <1>3 DEF RegistryInv, MgrTypes, NfRecord, Registered
<1> DEFINE freed  == nf[id].core
           cnt    == CoreReleased(freed)
           movers == Candidates(cnt, Running \ {id})
<1>5. /\ nf' = [nf EXCEPT ![id].status = "stopped"]
      /\ dedicated' = [dedicated EXCEPT ![freed] = FALSE]
      /\ pool' = Append(pool, id)
  BY <1>4, SMTT(30) DEF HandleStopping
<1>6. ASSUME nf[id].status # "running"
      PROVE  nf[id].status = "starting" /\ UNCHANGED <<ringed, services, perService, numNfs>>
  BY <1>4, <1>6, SMTT(30) DEF HandleStopping, Counted
<1>7. ASSUME nf[id].status = "running"
      PROVE  /\ numNfs' = numNfs - 1 /\ ringed' = ringed \ {id}
             /\ perService' = [perService EXCEPT ![nf[id].service] = @ - 1]
             /\ services' = [services EXCEPT ![nf[id].service] = Unlisted(@, id)]
  <2>1. Counted(nf[id].status) /\ nf[id].status \in {"starting", "running"}
    BY <1>7, SMTT(30) DEF Counted
  <2>2. QED
    BY <2>1, SMTT(30) DEF HandleStopping
<1>8. \/ /\ coreCnt' = cnt /\ moves' = [moves EXCEPT ![id] = <<>>] /\ health' = health
      \/ /\ NeedsReassign(cnt, freed) /\ movers = {}
         /\ health' = "no_candidate" /\ coreCnt' = coreCnt /\ moves' = moves
      \/ /\ NeedsReassign(cnt, freed) /\ movers # {} /\ health' = health
         /\ coreCnt' = [cnt EXCEPT ![nf[Min(movers)].core] = (@ - 1) % U16,
                                   ![freed] = (@ + 1) % U16]
         /\ moves' = [moves EXCEPT ![id] = <<>>, ![Min(movers)] = Append(@, freed)]
  BY <1>4 DEF HandleStopping
<1>9. NeedsReassign(cnt, freed) => Reassign
  BY DEF NeedsReassign
<1>10. cnt \in [Core -> 0 .. (U16 - 1)] /\ [moves EXCEPT ![id] = <<>>] \in [Id -> Seq(Core)]
  BY <1>3, <1>4, CoreTypes
<1>11. movers # {} =>
           /\ Min(movers) \in Id /\ nf[Min(movers)].core \in Core
           /\ nf[Min(movers)].core = MostUsed(cnt)
  <2>0. \A i \in movers : nf[i].core = MostUsed(cnt)
    BY DEF Candidates
  <2>1. movers \in SUBSET Nat /\ movers \subseteq Id
    BY DEF Candidates, Running, Id
  <2> HIDE DEF movers
  <2>2. movers # {} => Min(movers) \in Id /\ Min(movers) \in movers
    BY <2>1, MinExists
  <2>3. movers # {} => nf[Min(movers)].core \in Core
    BY <1>4, <2>2 DEF MgrTypes, NfRecord
  <2>4. QED
    BY <2>0, <2>2, <2>3
<1> HIDE DEF freed, cnt, movers
<1>12. coreCnt' \in [Core -> 0 .. (U16 - 1)] /\ moves' \in [Id -> Seq(Core)]
  <2>1. CASE coreCnt' = cnt /\ moves' = [moves EXCEPT ![id] = <<>>]
    BY <1>10, <2>1
  <2>2. CASE coreCnt' = coreCnt /\ moves' = moves
    BY <1>4, <2>2 DEF MgrTypes
  <2>3. CASE /\ movers # {}
             /\ coreCnt' = [cnt EXCEPT ![nf[Min(movers)].core] = (@ - 1) % U16,
                                       ![freed] = (@ + 1) % U16]
             /\ moves' = [moves EXCEPT ![id] = <<>>, ![Min(movers)] = Append(@, freed)]
    <3>1. freed \in Core
      BY <1>4 DEF freed
    <3>2. coreCnt' \in [Core -> 0 .. (U16 - 1)]
      BY <1>3, <1>4, <1>10, <1>11, <2>3, <3>1, CoreTypes
    <3>3. moves' \in [Id -> Seq(Core)]
      BY <1>3, <1>4, <1>11, <2>3, <3>1, CoreTypes
    <3>4. QED
      BY <3>2, <3>3
  <2>4. QED
    BY <1>8, <2>1, <2>2, <2>3
<1>13. ~Reassign => coreCnt' = cnt /\ moves' = [moves EXCEPT ![id] = <<>>]
  BY <1>8, <1>9
<1>14. health' \in {health, "no_candidate"}
  BY <1>8
<1>15. health = "up"
  BY <1>1 DEF Receive, Up
<1>16. health' = health =>
           \/ coreCnt' = cnt
           \/ \E c \in Core \ {freed} :
                  coreCnt' = [cnt EXCEPT ![c] = (@ - 1) % U16, ![freed] = (@ + 1) % U16]
  <2>1. NeedsReassign(cnt, freed) => MostUsed(cnt) # freed
    <3>1. cnt[freed] \in Int
      BY <1>4, <1>10 DEF freed
    <3>2. QED
      BY <3>1 DEF NeedsReassign
  <2>2. QED
    BY <1>8, <1>11, <1>15, <2>1
<1>17. QED
  BY <1>1, <1>2, <1>3, <1>5, <1>6, <1>7, <1>12, <1>13, <1>14, <1>16 DEF freed, cnt

\* onvm_nf_stop takes the NF out of its service.
LEMMA HandleStoppingKeeps ==
    ASSUME RegistryInv, NEW p \in Proc, HandleStopping(p)
    PROVE  RegistryInv'
<1>0. PICK id : id = myId[p]
  OBVIOUS
<1>1. /\ Receive("stopping", p) /\ nextId' = nextId /\ pc' = pc /\ cfg' = cfg /\ myId' = myId
      /\ id \in Id /\ id \in Registered /\ Sent("stopping", p)
      /\ nf' = [nf EXCEPT ![id].status = "stopped"]
      /\ dedicated' = [dedicated EXCEPT ![nf[id].core] = FALSE]
      /\ pool' = Append(pool, id)
      /\ health' \in {health, "no_candidate"}
      /\ coreCnt' \in [Core -> 0 .. (U16 - 1)] /\ moves' \in [Id -> Seq(Core)]
  BY <1>0, StoppingParts
<1>2. HandshakeAt(p) /\ Once(queue) /\ queue \in Seq(Message) /\ MgrTypes /\ ProcTypes
  BY AtProcess DEF RegistryInv
<1>3. /\ queue' \in Seq(Message) /\ Once(queue')
      /\ \A t, q : Sent(t, q)' <=> Sent(t, q) /\ ~(t = "stopping" /\ q = p)
  BY <1>1, <1>2, ReceiveStep
<1>4. \A q \in Proc \ {p} : Holds(q) => IdOf(q) # id
  BY <1>0, <1>1, SenderHolds
<1>5. /\ \A i \in Id \ {id} : nf'[i] = nf[i]
      /\ nf'[id].status = "stopped" /\ nf'[id].service = nf[id].service /\ nf'[id].core = nf[id].core
      /\ nf' \in [Id -> NfRecord]
  <2>1. nf \in [Id -> NfRecord]
    BY <1>2 DEF MgrTypes
  <2>2. /\ [nf[id] EXCEPT !.status = "stopped"] \in NfRecord
        /\ [nf[id] EXCEPT !.status = "stopped"].status = "stopped"
        /\ [nf[id] EXCEPT !.status = "stopped"].service = nf[id].service
        /\ [nf[id] EXCEPT !.status = "stopped"].core = nf[id].core
    BY <1>1, <2>1 DEF NfRecord, Status
  <2>3. QED
    BY <1>1, <2>1, <2>2
<1>6. pc'[p] = "gone" /\ ~Live(p)' /\ ~Holds(p)' /\ HandshakeAt(p)'
  <2>1. pc'[p] = "gone" /\ ~Sent("ready", p)' /\ ~Sent("starting", p)' /\ ~Sent("stopping", p)'
    BY <1>1, <1>2, <1>3 DEF HandshakeAt, Live
  <2>2. QED
    BY <2>1 DEF HandshakeAt, Holds, Live
<1>7. \A q \in Proc \ {p} : Untouched(q)
  BY <1>1, <1>3 DEF Untouched
<1>8. Registered' = Registered \ {id} /\ Running' = Running \ {id} /\ Running \in SUBSET Id
  BY <1>1, <1>5 DEF Registered, Running, Valid
<1>9. ProcTypes'
  <2>1. pool' \in Seq({Cfg} \cup Id)
    BY <1>1, <1>2, AppendProperties DEF ProcTypes
  <2>2. QED
    BY <1>1, <1>2, <1>3, <2>1 DEF ProcTypes
<1>10. dedicated' \in [Core -> BOOLEAN]
  <2>1. nf[id].core \in Core /\ FALSE \in BOOLEAN
    BY <1>1, <1>2 DEF MgrTypes, NfRecord
  <2>2. QED
    BY <1>1, <1>2, <2>1 DEF MgrTypes
<1>11. CASE nf[id].status # "running"
  <2>1. UNCHANGED <<ringed, services, perService, numNfs>>
    BY <1>0, <1>11, StoppingParts
  <2>2. MgrTypes'
    BY <1>1, <1>2, <1>5, <1>10, <2>1 DEF MgrTypes
  <2>3. ManagerKeeps(p, id)
    BY <1>3, <1>4, <1>5, <1>6, <1>7, <1>8, <1>9, <2>1, <2>2 DEF ManagerKeeps, RegistryInv, Owned
  <2>4. Handshake' /\ Owned'
    BY <2>3, ManagerPreserves
  <2>5. ServiceMapExact' /\ Running' = Running
    BY <1>1, <1>5, <1>11, <2>1, MapKept
  <2>6. QED
    BY <1>9, <2>1, <2>2, <2>4, <2>5 DEF RegistryInv, NumNfsExact
<1>12. CASE nf[id].status = "running"
  <2>0. PICK s : s = nf[id].service
    OBVIOUS
  <2>1. /\ numNfs' = numNfs - 1 /\ ringed' = ringed \ {id}
        /\ perService' = [perService EXCEPT ![s] = perService[s] - 1]
        /\ services' = [services EXCEPT ![s] = Unlisted(services[s], id)]
    BY <1>0, <1>12, <2>0, StoppingParts
  <2>2. /\ s \in Service /\ services \in [Service -> Row]
        /\ perService \in [Service -> 0 .. MaxPerService] /\ services[s] \in Row
    BY <1>1, <1>2, <2>0 DEF MgrTypes, NfRecord
  <2>3. \A t \in Service : Exact(services[t], perService[t], Listed(t))
    BY <2>2, RowWise DEF RegistryInv, RowsExact, PerServiceType
  <2>4. Listed(s) \in SUBSET Id /\ id \in Listed(s) /\ id \in Running
    BY <1>1, <1>12, <2>0 DEF Listed, Running, Valid
  <2> DEFINE n   == perService[s]
             row == Unlisted(services[s], id)
  <2>5. n > 0 /\ row \in Row /\ Exact(row, n - 1, Listed(s) \ {id})
    BY <2>2, <2>3, <2>4, RowRemoved
  <2>6. \A t \in Service : Listed(t)' = IF t = s THEN Listed(t) \ {id} ELSE Listed(t)
    <3>1. \A i \in Running' : nf'[i] = nf[i]
      BY <1>5, <1>8
    <3>2. QED
      BY <1>8, <2>0, <3>1 DEF Listed
  <2> HIDE DEF n, row
  <2>7. /\ services' = [services EXCEPT ![s] = row]
        /\ perService' = [perService EXCEPT ![s] = n - 1]
    BY <2>1 DEF n, row
  <2>8. services' \in [Service -> Row] /\ perService' \in [Service -> 0 .. MaxPerService]
    <3>1. n - 1 \in 0 .. MaxPerService
      BY <2>5 DEF Exact
    <3>2. QED
      BY <2>2, <2>5, <2>7, <3>1
  <2>9. ServiceMapExact'
    <3>1. ASSUME NEW t \in Service PROVE Exact(services[t], perService[t], Listed(t))'
      <4>1. CASE t = s
        <5>1. services'[t] = row /\ perService'[t] = n - 1
          BY <2>2, <2>7, <4>1
        <5>2. Listed(t)' = Listed(s) \ {id}
          BY <2>2, <2>6, <4>1
        <5>3. QED
          BY <2>5, <5>1, <5>2 DEF Exact
      <4>2. CASE t # s
        <5>1. services'[t] = services[t] /\ perService'[t] = perService[t] /\ Listed(t)' = Listed(t)
          BY <2>2, <2>6, <2>7, <4>2
        <5>2. QED
          BY <2>3, <5>1 DEF Exact
      <4>3. QED
        BY <4>1, <4>2
    <3>2. RowsExact' /\ PerServiceType'
      BY <2>8, <3>1 DEF RowsExact, PerServiceType
    <3>3. QED
      BY <3>2, RowWise, PTL
  <2>10. NumNfsExact'
    <3>1. Cardinality(Running \ {id}) = Cardinality(Running) - 1
      BY <1>1, <1>8, <2>4, IdSets
    <3>2. QED
      BY <1>8, <2>1, <3>1 DEF RegistryInv, NumNfsExact
  <2>11. ringed' \subseteq Id /\ Registered' \subseteq ringed'
    BY <1>2, <1>8, <2>1 DEF MgrTypes, RegistryInv, Owned
  <2>12. MgrTypes'
    BY <1>1, <1>2, <1>5, <1>10, <2>8, <2>11 DEF MgrTypes
  <2>13. ManagerKeeps(p, id)
    BY <1>3, <1>4, <1>5, <1>6, <1>7, <1>9, <2>11, <2>12 DEF ManagerKeeps
  <2>14. Handshake' /\ Owned'
    BY <2>13, ManagerPreserves
  <2>15. QED
    BY <1>9, <2>9, <2>10, <2>12, <2>14 DEF RegistryInv
<1>13. QED
  BY <1>11, <1>12

\* Every step keeps the invariant.
LEMMA RegistryStep ==
    ASSUME RegistryInv, [Next]_vars
    PROVE  RegistryInv'
<1>1. ASSUME NEW p \in Proc, CheckStatus(p) PROVE RegistryInv'
  BY <1>1, HandleStartingKeeps, HandleReadyKeeps, HandleStoppingKeeps DEF CheckStatus
<1>2. ASSUME NEW p \in Proc, Process(p) PROVE RegistryInv'
  BY <1>2, ProcessStep, ProcessPreserves, ChangeCoreKeeps
<1>3. ASSUME UNCHANGED vars PROVE RegistryInv'
  <2>1. \A t, q : Sent(t, q)' <=> Sent(t, q)
    BY <1>3, QueueKept DEF vars
  <2>2. UNCHANGED <<mgrState, moves>> /\ \A q \in Proc : Untouched(q)
    BY <1>3, <2>1 DEF vars, procs, Untouched
  <2>3. ProcTypes' /\ Once(queue')
    BY <1>3 DEF vars, procs, RegistryInv, ProcTypes, Handshake
  <2>4. nf' = nf /\ ringed' = ringed /\ services' = services /\ perService' = perService
        /\ numNfs' = numNfs /\ nextId' = nextId /\ coreCnt' = coreCnt
        /\ dedicated' = dedicated /\ moves' = moves
    BY <2>2 DEF mgrState
  <2>5. MgrTypes' /\ Registered' = Registered
    BY <2>4 DEF RegistryInv, MgrTypes, Registered
  <2>6. \A q \in Proc : HandshakeAt(q)' /\ (Holds(q)' <=> Holds(q)) /\ IdOf(q)' = IdOf(q)
    BY <2>2, <2>4, UntouchedStep DEF RegistryInv, Handshake
  <2>7. Handshake' /\ Owned'
    BY <2>3, <2>4, <2>5, <2>6 DEF RegistryInv, Handshake, Owned
  <2>8. ServiceMapExact' /\ Running' = Running
    BY <2>4, MapKept
  <2>9. QED
    BY <2>3, <2>4, <2>5, <2>7, <2>8 DEF RegistryInv, NumNfsExact
<1>4. QED
  BY <1>1, <1>2, <1>3 DEF Next, Finished

\* The books of the manager are exact in every reachable state, with and
\* without signals and core reassignment.
THEOREM BooksExact == Spec => []RegistryExact
<1>1. Init => RegistryInv
  BY RegistryInit
<1>2. RegistryInv /\ [Next]_vars => RegistryInv'
  BY RegistryStep
<1>3. RegistryInv => RegistryExact
  BY RegistryExactFollows
<1>4. QED
  BY <1>1, <1>2, <1>3, PTL DEF Spec

-----------------------------------------------------------------------------
(* Cores *)

\* The NFs that have been given core c and have not stopped.
OnCore(c) == {i \in Registered : nf[i].core = c}

\* An NF that does not share has its core marked, and is alone on it.
AloneAt(p) ==
    Holds(p) /\ ~cfg[p].opt.share =>
        /\ dedicated[nf[IdOf(p)].core]
        /\ \A i \in Registered : nf[i].core = nf[IdOf(p)].core => i = IdOf(p)

\* Without reassignment no relocation is ever under way.
CoreInv ==
    /\ \A i \in Id : moves[i] = <<>>
    /\ \A c \in Core : coreCnt[c] = Cardinality(OnCore(c))
    /\ \A p \in Proc : AloneAt(p)

\* The invariant implies what is checked.
LEMMA CoresExactFollows ==
    ASSUME RegistryInv, CoreInv
    PROVE  CoresExact
<1>1. CoreCountExact
  BY DEF CoreInv, CoreCountExact, OnCore
<1>2. \A p \in Proc : Live(p) => Holds(p) /\ myId[p] = IdOf(p) /\ IdOf(p) \in Registered
  BY DEF RegistryInv, Handshake, HandshakeAt, Holds, Owned
<1>3. ASSUME NEW p \in Proc, NEW q \in Proc, p # q, Live(p), Live(q), ~cfg[p].opt.share
      PROVE  nf[myId[p]].core # nf[myId[q]].core
  <2>1. IdOf(p) # IdOf(q)
    BY <1>2, <1>3 DEF RegistryInv, Owned
  <2>2. QED
    BY <1>2, <1>3, <2>1 DEF CoreInv, AloneAt
<1>4. QED
  BY <1>1, <1>3 DEF CoresExact, DedicatedAlone

\* At first no core is used.
LEMMA CoreInit ==
    ASSUME Init
    PROVE  CoreInv
<1>1. \A c \in Core : OnCore(c) = {}
  BY DEF Init, OnCore, Registered
<1>2. \A p \in Proc : ~Holds(p)
  BY DEF Init, Holds
<1>3. QED
  BY <1>1, <1>2, FS_EmptySet DEF Init, CoreInv, AloneAt

\* Steps that register nobody and move nobody leave the cores as they are.
LEMMA CoresKept ==
    ASSUME CoreInv, moves' = moves, coreCnt' = coreCnt, dedicated' = dedicated,
           Registered' = Registered, \A i \in Registered : nf'[i].core = nf[i].core,
           Owned,
           \A q \in Proc : Holds(q)' => Holds(q) /\ cfg'[q].opt = cfg[q].opt
    PROVE  CoreInv'
<1>1. \A c \in Core : OnCore(c)' = OnCore(c)
  BY DEF OnCore
<1>2. ASSUME NEW q \in Proc PROVE AloneAt(q)'
  <2>1. SUFFICES ASSUME Holds(q)', ~cfg'[q].opt.share PROVE AloneAt(q)'
    BY DEF AloneAt
  <2>2. Holds(q) /\ ~cfg[q].opt.share /\ IdOf(q)' = IdOf(q) /\ IdOf(q) \in Registered
    BY <2>1 DEF IdOf, Owned
  <2>3. nf'[IdOf(q)].core = nf[IdOf(q)].core
    BY <2>2
  <2>4. QED
    BY <2>2, <2>3 DEF AloneAt, CoreInv
<1>3. QED
  BY <1>1, <1>2 DEF CoreInv

\* onvm_nf_start gives out a core that is not dedicated, and an unused one to
\* an NF that does not share.
LEMMA CoreStarting ==
    ASSUME RegistryInv, CoreInv, NEW p \in Proc, HandleStarting(p)
    PROVE  CoreInv'
<1>0. PICK o : o = cfg[p].opt
  OBVIOUS
<1> DEFINE given   == IF o.inst = NoId THEN NextInstanceId ELSE o.inst
<1>1. PICK id, core : id = given /\ core = CoreFor(o)
  OBVIOUS
<1>2. /\ Receive("starting", p) /\ moves' = moves /\ pc' = pc
      /\ \/ /\ nf' = nf /\ coreCnt' = coreCnt /\ dedicated' = dedicated
            /\ cfg' = cfg \/ \E v : cfg' = [cfg EXCEPT ![p].status = v] /\ v = StartVerdict(o, id) /\ v # "ok"
         \/ /\ StartVerdict(o, id) = "ok" /\ ~RingExists(id)
            /\ nf' = [nf EXCEPT ![id] = [status |-> "starting", service |-> o.service, core |-> core]]
            /\ coreCnt' = [coreCnt EXCEPT ![core] = (coreCnt[core] + 1) % U16]
            /\ dedicated' = [dedicated EXCEPT ![core] = dedicated[core] \/ ~o.share]
            /\ cfg' = [cfg EXCEPT ![p] = [status |-> "starting", opt |-> [o EXCEPT !.inst = id]]]
  BY <1>0, <1>1 DEF HandleStarting
<1>3. HandshakeAt(p) /\ Once(queue) /\ queue \in Seq(Message) /\ o \in Option
  BY <1>0, AtProcess
<1>4. MgrTypes /\ ProcTypes /\ Owned
  BY DEF RegistryInv
<1>5. Sent("starting", p) /\ \A t, q : Sent(t, q)' => Sent(t, q)
  BY <1>2, <1>3, ReceiveStep
<1>6. \A q \in Proc \ {p} : Holds(q)' => Holds(q) /\ cfg'[q].opt = cfg[q].opt
  <2>1. \A q \in Proc \ {p} : cfg'[q] = cfg[q] /\ (Live(q)' <=> Live(q)) /\ pc'[q] = pc[q]
    BY <1>2, <1>4 DEF ProcTypes, Live
  <2>2. QED
    BY <1>5, <2>1 DEF Holds
<1>7. cfg[p].status = "waiting" /\ ~Sent("stopping", p) /\ ~Live(p)
  BY <1>3, <1>5 DEF HandshakeAt, Live
<1>8. CASE /\ nf' = nf /\ coreCnt' = coreCnt /\ dedicated' = dedicated
           /\ cfg' = cfg \/ \E v : cfg' = [cfg EXCEPT ![p].status = v] /\ v = StartVerdict(o, id) /\ v # "ok"
  <2>1. cfg'[p].status # "starting"
    BY <1>4, <1>7, <1>8, Verdicts DEF ProcTypes, CfgRecord
  <2>2. ~Holds(p)'
    BY <2>1 DEF Holds
  <2>3. Registered' = Registered
    BY <1>8 DEF Registered
  <2>4. QED
    BY <1>2, <1>4, <1>6, <1>8, <2>2, <2>3, CoresKept
<1>9. CASE /\ StartVerdict(o, id) = "ok" /\ ~RingExists(id)
           /\ nf' = [nf EXCEPT ![id] = [status |-> "starting", service |-> o.service, core |-> core]]
           /\ coreCnt' = [coreCnt EXCEPT ![core] = (coreCnt[core] + 1) % U16]
           /\ dedicated' = [dedicated EXCEPT ![core] = dedicated[core] \/ ~o.share]
           /\ cfg' = [cfg EXCEPT ![p] = [status |-> "starting", opt |-> [o EXCEPT !.inst = id]]]
  <2>1. id \in Id \cup {MaxNfs}
    BY <1>1, <1>3, <1>4, NextInstanceIdRange DEF Option
  <2>2. id \in Id /\ core \in Core /\ ~dedicated[core] /\ (~o.share => coreCnt[core] = 0)
    BY <1>1, <1>3, <1>4, <1>9, <2>1, Accepted
  <2>3. id \notin Registered
    BY <1>4, <1>9 DEF RingExists, Owned
  <2>4. nf'[id].status = "starting" /\ nf'[id].core = core /\ \A i \in Id \ {id} : nf'[i] = nf[i]
    BY <1>4, <1>9, <2>2 DEF MgrTypes
  <2>5. Registered' = Registered \cup {id} /\ Registered \subseteq Id
    BY <2>2, <2>4 DEF Registered
  <2>6. \A c \in Core : OnCore(c)' = IF c = core THEN OnCore(c) \cup {id} ELSE OnCore(c)
    BY <2>3, <2>4, <2>5 DEF OnCore
  <2>7. ASSUME NEW c \in Core PROVE coreCnt'[c] = Cardinality(OnCore(c)')
    <3>1. coreCnt[c] = Cardinality(OnCore(c)) /\ OnCore(c) \in SUBSET Id /\ id \notin OnCore(c)
      BY <2>3, <2>5 DEF CoreInv, OnCore
    <3>2. CASE c = core
      <4>1. Cardinality(OnCore(c)') = coreCnt[c] + 1
        BY <2>2, <2>6, <3>1, <3>2, IdSets
      <4>2. Cardinality(OnCore(c)') \in 0 .. (MaxNfs - 1)
        <5>1. OnCore(c)' \in SUBSET Id
          BY <2>2, <2>6, <3>1
        <5>2. QED
          BY <5>1, IdSets
      <4>3. coreCnt'[c] = (coreCnt[c] + 1) % U16
        BY <1>4, <1>9, <3>2 DEF MgrTypes
      <4>4. coreCnt[c] + 1 < U16 /\ coreCnt[c] + 1 \in Nat /\ U16 \in Nat
        BY <4>1, <4>2, Constants
      <4>5. QED
        BY <4>1, <4>3, <4>4
    <3>3. CASE c # core
      BY <1>4, <1>9, <2>6, <3>1, <3>3 DEF MgrTypes
    <3>4. QED
      BY <3>2, <3>3
  <2>8. IdOf(p)' = id /\ (cfg'[p].opt.share <=> o.share)
    BY <1>3, <1>4, <1>9 DEF IdOf, ProcTypes, Option
  <2>9. (dedicated'[core] <=> ~o.share) /\ \A c \in Core \ {core} : dedicated'[c] = dedicated[c]
    BY <1>4, <1>9, <2>2 DEF MgrTypes
  <2>10. ~o.share => \A i \in Registered : nf[i].core # core
    <3>1. ~o.share => OnCore(core) = {}
      BY <2>2, <2>5, IdSets DEF CoreInv, OnCore
    <3>2. QED
      BY <3>1 DEF OnCore
  <2>11. AloneAt(p)'
    <3>1. ~o.share => dedicated'[nf'[IdOf(p)'].core]
      BY <2>4, <2>8, <2>9
    <3>2. ~o.share => \A i \in Registered' : nf'[i].core = nf'[IdOf(p)'].core => i = IdOf(p)'
      BY <2>3, <2>4, <2>5, <2>8, <2>10
    <3>3. QED
      BY <2>8, <3>1, <3>2 DEF AloneAt
  <2>12. ASSUME NEW q \in Proc, q # p PROVE AloneAt(q)'
    <3>1. SUFFICES ASSUME Holds(q)', ~cfg'[q].opt.share PROVE AloneAt(q)'
      BY DEF AloneAt
    <3>2. Holds(q) /\ ~cfg[q].opt.share /\ IdOf(q)' = IdOf(q) /\ IdOf(q) \in Registered
      BY <1>4, <1>6, <2>12, <3>1 DEF IdOf, Owned
    <3>3. /\ dedicated[nf[IdOf(q)].core] /\ nf'[IdOf(q)] = nf[IdOf(q)]
          /\ \A i \in Registered : nf[i].core = nf[IdOf(q)].core => i = IdOf(q)
      BY <2>3, <2>4, <2>5, <3>2 DEF CoreInv, AloneAt
    <3>4. nf[IdOf(q)].core # core /\ nf[IdOf(q)].core \in Core
      BY <1>4, <2>2, <2>5, <3>2, <3>3 DEF MgrTypes, NfRecord
    <3>5. dedicated'[nf[IdOf(q)].core]
      BY <2>9, <3>3, <3>4
    <3>6. \A i \in Registered' : nf'[i].core = nf[IdOf(q)].core => i = IdOf(q)
      BY <2>3, <2>4, <2>5, <3>3, <3>4
    <3>7. QED
      BY <3>2, <3>3, <3>5, <3>6 DEF AloneAt
  <2>13. QED
    BY <1>2, <2>7, <2>11, <2>12 DEF CoreInv
<1>10. QED
  BY <1>2, <1>8, <1>9

\* onvm_nf_stop releases the core of the NF, which nobody has to himself.
LEMMA CoreStopping ==
    ASSUME ~Reassign, RegistryInv, CoreInv, NEW p \in Proc, HandleStopping(p)
    PROVE  CoreInv'
<1>0. PICK id, freed : id = myId[p] /\ freed = nf[myId[p]].core
  OBVIOUS
<1>1. /\ Receive("stopping", p) /\ pc' = pc /\ cfg' = cfg
      /\ id \in Id /\ id \in Registered /\ Sent("stopping", p)
      /\ nf' = [nf EXCEPT ![id].status = "stopped"]
      /\ dedicated' = [dedicated EXCEPT ![freed] = FALSE]
      /\ coreCnt' = CoreReleased(freed) /\ moves' = [moves EXCEPT ![id] = <<>>]
  BY <1>0, StoppingParts
<1>2. HandshakeAt(p) /\ Once(queue) /\ queue \in Seq(Message) /\ MgrTypes /\ Owned
  BY AtProcess DEF RegistryInv
<1>3. \A t, q : Sent(t, q)' <=> Sent(t, q) /\ ~(t = "stopping" /\ q = p)
  BY <1>1, <1>2, ReceiveStep
<1>4. \A q \in Proc : Holds(q)' => Holds(q) /\ q # p
  <2>1. \A q \in Proc : Live(q)' <=> Live(q)
    BY <1>1 DEF Live
  <2>2. pc[p] = "gone" /\ ~Live(p)
    BY <1>1, <1>2 DEF HandshakeAt, Live
  <2>3. QED
    BY <1>1, <1>3, <2>1, <2>2 DEF Holds
<1>5. \A q \in Proc \ {p} : Holds(q) => IdOf(q) # id /\ IdOf(q) \in Registered
  BY <1>0, <1>1, <1>2, SenderHolds DEF Owned
<1>6. freed \in Core /\ nf[id].core = freed
  BY <1>0, <1>1, <1>2 DEF MgrTypes, NfRecord
<1>7. \A i \in Id : (i # id => nf'[i] = nf[i]) /\ nf'[id].status = "stopped"
  BY <1>1, <1>2 DEF MgrTypes, NfRecord
<1>8. Registered' = Registered \ {id} /\ Registered \subseteq Id
  BY <1>1, <1>7 DEF Registered
<1>9. \A c \in Core : OnCore(c)' = IF c = freed THEN OnCore(c) \ {id} ELSE OnCore(c)
  BY <1>1, <1>6, <1>7, <1>8 DEF OnCore
<1>10. ASSUME NEW c \in Core PROVE coreCnt'[c] = Cardinality(OnCore(c)')
  <2>1. coreCnt[c] = Cardinality(OnCore(c)) /\ OnCore(c) \in SUBSET Id
    BY <1>8 DEF CoreInv, OnCore
  <2>2. CASE c = freed
    <3>1. id \in OnCore(c)
      BY <1>1, <1>6, <2>2 DEF OnCore
    <3>2. Cardinality(OnCore(c)') = coreCnt[c] - 1
      BY <1>1, <1>9, <2>1, <2>2, <3>1, IdSets
    <3>3. Cardinality(OnCore(c)') \in 0 .. (MaxNfs - 1)
      <4>1. OnCore(c)' \in SUBSET Id
        BY <1>9, <2>1
      <4>2. QED
        BY <4>1, IdSets
    <3>4. coreCnt'[c] = (coreCnt[c] - 1) % U16
      BY <1>1, <1>2, <2>2 DEF MgrTypes, CoreReleased
    <3>5. coreCnt[c] - 1 < U16 /\ coreCnt[c] - 1 \in Nat /\ U16 \in Nat
      BY <3>2, <3>3, Constants
    <3>6. QED
      BY <3>2, <3>4, <3>5
  <2>3. CASE c # freed
    BY <1>1, <1>2, <1>9, <2>1, <2>3 DEF MgrTypes, CoreReleased
  <2>4. QED
    BY <2>2, <2>3
<1>11. ASSUME NEW q \in Proc PROVE AloneAt(q)'
  <2>1. SUFFICES ASSUME Holds(q)', ~cfg'[q].opt.share PROVE AloneAt(q)'
    BY DEF AloneAt
  <2>2. /\ q # p /\ Holds(q) /\ ~cfg[q].opt.share /\ IdOf(q)' = IdOf(q)
        /\ IdOf(q) # id /\ IdOf(q) \in Registered
    BY <1>1, <1>4, <1>5, <2>1 DEF IdOf
  <2>3. /\ dedicated[nf[IdOf(q)].core] /\ nf'[IdOf(q)] = nf[IdOf(q)]
        /\ \A i \in Registered : nf[i].core = nf[IdOf(q)].core => i = IdOf(q)
    BY <1>7, <1>8, <2>2 DEF CoreInv, AloneAt
  <2>4. nf[IdOf(q)].core # freed /\ nf[IdOf(q)].core \in Core
    BY <1>1, <1>2, <1>6, <1>8, <2>2, <2>3 DEF MgrTypes, NfRecord
  <2>5. dedicated'[nf[IdOf(q)].core]
    BY <1>1, <1>2, <2>3, <2>4 DEF MgrTypes
  <2>6. \A i \in Registered' : nf'[i].core = nf[IdOf(q)].core => i = IdOf(q)
    BY <1>7, <1>8, <2>3
  <2>7. QED
    BY <2>2, <2>3, <2>5, <2>6 DEF AloneAt
<1>12. \A i \in Id : moves'[i] = <<>>
  BY <1>1, <1>2 DEF CoreInv, MgrTypes
<1>13. QED
  BY <1>10, <1>11, <1>12 DEF CoreInv

\* onvm_nf_ready registers nobody and moves nobody.
LEMMA ReadyParts ==
    ASSUME RegistryInv, NEW p \in Proc, HandleReady(p)
    PROVE  /\ moves' = moves /\ coreCnt' = coreCnt /\ dedicated' = dedicated
           /\ Registered' = Registered /\ \A i \in Id : nf'[i].core = nf[i].core
           /\ pc' = pc /\ cfg' = cfg
           /\ \A t, q : t # "ready" => (Sent(t, q)' <=> Sent(t, q))
<1>0. PICK id : id = myId[p]
  OBVIOUS
<1>1. /\ Receive("ready", p) /\ coreCnt' = coreCnt /\ dedicated' = dedicated /\ moves' = moves
      /\ pc' = pc /\ cfg' = cfg
      /\ nf' = nf \/ nf' = [nf EXCEPT ![id].status = "running"]
  BY <1>0 DEF HandleReady, procs
<1>2. Sent("ready", p) /\ \A t, q : Sent(t, q)' <=> Sent(t, q) /\ ~(t = "ready" /\ q = p)
  BY <1>1, AtProcess, ReceiveStep
<1>3. id \in Id /\ id \in Registered
  BY <1>0, <1>2, SenderHolds
<1>4. /\ \A i \in Id : nf'[i].core = nf[i].core
      /\ \A i \in Id : nf'[i].status = nf[i].status \/ (i = id /\ nf'[i].status = "running")
  <2>1. nf \in [Id -> NfRecord]
    BY DEF RegistryInv, MgrTypes
  <2>2. CASE nf' = nf
    BY <2>2
  <2>3. CASE nf' = [nf EXCEPT ![id].status = "running"]
    BY <1>3, <2>1, <2>3 DEF NfRecord
  <2>4. QED
    BY <1>1, <2>2, <2>3
<1>5. Registered' = Registered
  BY <1>3, <1>4 DEF Registered
<1>6. QED
  BY <1>1, <1>2, <1>4, <1>5

\* Without reassignment, every step keeps the core table exact.
LEMMA CoreStep ==
    ASSUME ~Reassign, RegistryInv, CoreInv, [Next]_vars
    PROVE  CoreInv'
<1>1. Owned /\ Registered \subseteq Id
  BY DEF RegistryInv, Registered
<1>2. ASSUME NEW p \in Proc, HandleReady(p) PROVE CoreInv'
  <2>1. /\ moves' = moves /\ coreCnt' = coreCnt /\ dedicated' = dedicated
        /\ Registered' = Registered /\ \A i \in Id : nf'[i].core = nf[i].core
        /\ pc' = pc /\ cfg' = cfg /\ \A q : Sent("stopping", q)' <=> Sent("stopping", q)
    BY <1>2, ReadyParts
  <2>2. \A q \in Proc : Holds(q)' => Holds(q) /\ cfg'[q].opt = cfg[q].opt
    BY <2>1 DEF Holds, Live
  <2>3. QED
    BY <1>1, <2>1, <2>2, CoresKept
<1>3. ASSUME NEW p \in Proc, Process(p) PROVE CoreInv'
  <2>1. CASE ChangeCore(p)
    <3>1. Live(p) /\ HandshakeAt(p)
      BY <2>1, AtProcess DEF ChangeCore, Live
    <3>2. Holds(p) /\ myId[p] = IdOf(p)
      BY <3>1 DEF HandshakeAt, Holds
    <3>3. moves[myId[p]] = <<>>
      BY <3>2, AtProcess DEF CoreInv
    <3>4. QED
      BY <2>1, <3>3 DEF ChangeCore
  <2>2. CASE ~ChangeCore(p)
    <3>1. ProcessKeeps(p) /\ UNCHANGED <<mgrState, moves>>
      BY <1>3, <2>2, ProcessStep
    <3>2. nf' = nf /\ coreCnt' = coreCnt /\ dedicated' = dedicated /\ moves' = moves
      BY <3>1 DEF mgrState
    <3>3. Registered' = Registered
      BY <3>2 DEF Registered
    <3>4. ASSUME NEW q \in Proc, Holds(q)' PROVE Holds(q) /\ cfg'[q].opt = cfg[q].opt
      <4>1. CASE q = p
        BY <3>1, <3>4, <4>1 DEF ProcessKeeps
      <4>2. CASE q # p
        <5>1. HandshakeAt(q) /\ Untouched(q)
          BY <3>1, <4>2 DEF RegistryInv, Handshake, ProcessKeeps
        <5>2. QED
          BY <3>4, <5>1, UntouchedStep DEF Untouched
      <4>3. QED
        BY <4>1, <4>2
    <3>5. QED
      BY <1>1, <3>2, <3>3, <3>4, CoresKept
  <2>3. QED
    BY <2>1, <2>2
<1>4. ASSUME UNCHANGED vars PROVE CoreInv'
  <2>1. nf' = nf /\ coreCnt' = coreCnt /\ dedicated' = dedicated /\ moves' = moves
        /\ queue' = queue /\ pc' = pc /\ cfg' = cfg
    BY <1>4 DEF vars, mgrState, procs
  <2>2. \A q \in Proc : Holds(q)' => Holds(q) /\ cfg'[q].opt = cfg[q].opt
    BY <2>1, QueueKept DEF Holds, Live
  <2>3. Registered' = Registered
    BY <2>1 DEF Registered
  <2>4. QED
    BY <1>1, <2>1, <2>2, <2>3, CoresKept
<1>5. ASSUME NEW p \in Proc, CheckStatus(p) PROVE CoreInv'
  BY <1>2, <1>5, CoreStarting, CoreStopping DEF CheckStatus
<1>6. QED
  BY <1>3, <1>4, <1>5 DEF Next, Finished

\* Without core reassignment (the default build) the core table counts the NFs
\* of each core, and an NF that does not share is alone on its core.
THEOREM CoreTableExact == ~Reassign => (Spec => []CoresExact)
<1> SUFFICES ASSUME ~Reassign PROVE Spec => []CoresExact
  OBVIOUS
<1>1. Init => RegistryInv /\ CoreInv
  BY RegistryInit, CoreInit
<1>2. RegistryInv /\ CoreInv /\ [Next]_vars => (RegistryInv /\ CoreInv)'
  BY RegistryStep, CoreStep
<1>3. RegistryInv /\ CoreInv => CoresExact
  BY CoresExactFollows
<1>4. QED
  BY <1>1, <1>2, <1>3, PTL DEF Spec

-----------------------------------------------------------------------------
(* Sums over the cores *)

Total(f) == MapThenSumSet(LAMBDA c : f[c], Core)

\* The sum is that of SumProofs.
LEMMA TotalIs ==
    ASSUME NEW f
    PROVE  Total(f) = SumOver(Core, f)
BY DEF Total, MapThenSumSet, MapThenFoldSet, SumOver, Partial, Sums, Chosen

\* There are finitely many cores.
LEMMA CoreFinite == IsFiniteSet(Core)
<1>1. NumCores - 1 \in Int /\ 0 \in Int
  BY Constants
<1>2. QED
  BY <1>1, FS_Interval DEF Core

\* What a change of one count does to the sum of all.
LEMMA TotalChange ==
    ASSUME NEW f \in [Core -> Int], NEW e \in [Core -> Int], NEW c \in Core,
           \A x \in Core \ {c} : e[x] = f[x]
    PROVE  Total(f) \in Int /\ Total(e) = Total(f) + e[c] - f[c]
<1>1. Total(f) = SumOver(Core, f) /\ Total(e) = SumOver(Core, e)
  BY TotalIs
<1>2. (\A x \in Core : f[x] \in Int) /\ (\A x \in Core : e[x] \in Int)
  OBVIOUS
<1>3. SumOver(Core, f) \in Int /\ f[c] \in Int /\ e[c] \in Int
  BY <1>2, CoreFinite, SumType
<1>4. SumOver(Core, e) = SumOver(Core, f) + (e[c] - f[c])
  BY <1>2, CoreFinite, SumChange
<1>5. QED
  BY <1>1, <1>3, <1>4

\* Nothing but zeros sum up to zero.
LEMMA TotalZero ==
    ASSUME NEW f \in [Core -> Int], \A c \in Core : f[c] = 0
    PROVE  Total(f) = 0
BY CoreFinite, TotalIs, SumZero

\* The range of a uint16_t.
LEMMA Bits16 == U16 \in Nat \ {0} /\ 0 < U16 /\ 1 < U16
BY DEF U16

\* Sixteen bits: a whole round changes nothing, and a step commutes with the cut.
LEMMA Rounds ==
    ASSUME NEW t \in Int
    PROVE  /\ (t + U16) % U16 = t % U16
           /\ (t - U16) % U16 = t % U16
           /\ ((t % U16) + 1) % U16 = (t + 1) % U16
           /\ ((t % U16) - 1) % U16 = (t - 1) % U16
<1>1. (t + U16) % U16 = t % U16
  BY DEF U16
<1>2. (t - U16) % U16 = t % U16
  BY DEF U16
<1>3. ((t % U16) + 1) % U16 = (t + 1) % U16
  BY DEF U16
<1>4. ((t % U16) - 1) % U16 = (t - 1) % U16
  BY DEF U16
<1>5. QED
  BY <1>1, <1>2, <1>3, <1>4

\* A number that fits is not cut.
LEMMA Fits ==
    ASSUME NEW n \in Int, 0 <= n, n < U16
    PROVE  n % U16 = n
BY DEF U16

\* Replacing a term by the one next to it, in 16 bits.
LEMMA Wraps ==
    ASSUME NEW t \in Int, NEW x \in 0 .. (U16 - 1), NEW up, NEW down,
           up = (x + 1) % U16, down = (x - 1) % U16
    PROVE  /\ (t + up - x) % U16 = (t + 1) % U16
           /\ (t + down - x) % U16 = (t - 1) % U16
<1>1. U16 \in Nat /\ 0 < U16 /\ 1 < U16
  BY Bits16
<1>2. x \in Int /\ 0 <= x /\ x <= U16 - 1
  BY <1>1
<1>3. (t + up - x) % U16 = (t + 1) % U16
  <2>1. CASE x = U16 - 1
    <3>1. up = 0
      BY <2>1 DEF U16
    <3>2. t + up - x = (t + 1) - U16 /\ t + 1 \in Int
      <4>1. PICK k \in Int : k = U16
        BY <1>1
      <4>2. QED
        BY <1>2, <2>1, <3>1, <4>1
    <3>3. QED
      BY <3>2, Rounds, Zenon
  <2>2. CASE x # U16 - 1
    <3>1. x + 1 \in Int /\ 0 <= x + 1 /\ x + 1 < U16
      BY <1>1, <1>2, <2>2
    <3>2. up = x + 1
      BY <3>1, Fits, Zenon
    <3>3. t + up - x = t + 1
      BY <1>2, <3>2
    <3>4. QED
      BY <3>3
  <2>3. QED
    BY <2>1, <2>2
<1>4. (t + down - x) % U16 = (t - 1) % U16
  <2>1. CASE x = 0
    <3>1. x - 1 = (U16 - 1) - U16 /\ U16 - 1 \in Int /\ 0 <= U16 - 1 /\ U16 - 1 < U16
      BY <1>1, <2>1
    <3>2. down = U16 - 1
      BY <3>1, Rounds, Fits, Zenon
    <3>3. t + down - x = (t - 1) + U16 /\ t - 1 \in Int
      BY <1>1, <2>1, <3>2
    <3>4. QED
      BY <3>3, Rounds, Zenon
  <2>2. CASE x # 0
    <3>1. x - 1 \in Int /\ 0 <= x - 1 /\ x - 1 < U16
      BY <1>1, <1>2, <2>2
    <3>2. down = x - 1
      BY <3>1, Fits, Zenon
    <3>3. t + down - x = t - 1
      BY <1>2, <3>2
    <3>4. QED
      BY <3>3
  <2>3. QED
    BY <2>1, <2>2
<1>5. QED
  BY <1>3, <1>4, Zenon

\* A core counts one NF more, or one less.
LEMMA TotalCounts ==
    ASSUME NEW f \in [Core -> 0 .. (U16 - 1)], NEW c \in Core, NEW e
    PROVE  /\ Total(f) \in Int
           /\ e = [f EXCEPT ![c] = (@ + 1) % U16] => Total(e) % U16 = (Total(f) + 1) % U16
           /\ e = [f EXCEPT ![c] = (@ - 1) % U16] => Total(e) % U16 = (Total(f) - 1) % U16
<1>1. U16 \in Nat \ {0}
  BY Bits16
<1>2. f \in [Core -> Int] /\ f[c] \in 0 .. (U16 - 1) /\ f[c] \in Int
  BY <1>1
<1>3. (f[c] + 1) % U16 \in Int /\ (f[c] - 1) % U16 \in Int
  BY <1>1, <1>2
<1>4. PICK x, up, down : x = f[c] /\ up = (f[c] + 1) % U16 /\ down = (f[c] - 1) % U16
  OBVIOUS
<1>5. /\ Total(f) \in Int
      /\ \A g : g = [f EXCEPT ![c] = up] => Total(g) = Total(f) + up - x
      /\ \A g : g = [f EXCEPT ![c] = down] => Total(g) = Total(f) + down - x
  <2>1. up \in Int /\ down \in Int
    BY <1>3, <1>4
  <2>2. QED
    <3>1. Total(f) \in Int
      BY <1>2, TotalChange
    <3>2. ASSUME NEW v \in Int, NEW g, g = [f EXCEPT ![c] = v]
          PROVE  Total(g) = Total(f) + v - x
      <4>1. g \in [Core -> Int] /\ g[c] = v /\ \A y \in Core \ {c} : g[y] = f[y]
        BY <1>2, <3>2
      <4>2. Total(g) = Total(f) + g[c] - f[c]
        BY <1>2, <4>1, TotalChange, Zenon
      <4>3. QED
        BY <1>4, <4>1, <4>2
    <3>3. QED
      BY <2>1, <3>1, <3>2
<1>6. /\ (Total(f) + up - x) % U16 = (Total(f) + 1) % U16
      /\ (Total(f) + down - x) % U16 = (Total(f) - 1) % U16
  <2>1. x \in 0 .. (U16 - 1) /\ up = (x + 1) % U16 /\ down = (x - 1) % U16
    BY <1>2, <1>4
  <2>2. QED
    BY <1>5, <2>1, Wraps, Zenon
<1>7. /\ [f EXCEPT ![c] = (@ + 1) % U16] = [f EXCEPT ![c] = up]
      /\ [f EXCEPT ![c] = (@ - 1) % U16] = [f EXCEPT ![c] = down]
  BY <1>4
<1>8. QED
  BY <1>5, <1>6, <1>7, Zenon

\* Every registered NF is counted on one core.
TotalInv == Up => Total(coreCnt) % U16 = Cardinality(Registered)

\* A step that registers nobody and counts nobody.
LEMMA TotalKept ==
    ASSUME TotalInv, Up, coreCnt' = coreCnt, Registered' = Registered
    PROVE  TotalInv'
BY DEF TotalInv, Up

\* onvm_nf_start counts the NF on the core it gives it.
LEMMA TotalStarting ==
    ASSUME RegistryInv, TotalInv, NEW p \in Proc, HandleStarting(p)
    PROVE  TotalInv'
<1>0. PICK o : o = cfg[p].opt
  OBVIOUS
<1> DEFINE given   == IF o.inst = NoId THEN NextInstanceId ELSE o.inst
<1>1. PICK id, core : id = given /\ core = CoreFor(o)
  OBVIOUS
<1>2. /\ Receive("starting", p)
      /\ \/ nf' = nf /\ coreCnt' = coreCnt
         \/ /\ StartVerdict(o, id) = "ok" /\ ~RingExists(id)
            /\ nf' = [nf EXCEPT ![id] = [status |-> "starting", service |-> o.service, core |-> core]]
            /\ coreCnt' = [coreCnt EXCEPT ![core] = (@ + 1) % U16]
  BY <1>0, <1>1 DEF HandleStarting
<1>3. o \in Option /\ MgrTypes /\ Owned /\ Up
  BY <1>0, <1>2, AtProcess DEF RegistryInv, Receive
<1>4. CASE nf' = nf /\ coreCnt' = coreCnt
  <2>1. Registered' = Registered
    BY <1>4 DEF Registered
  <2>2. QED
    BY <1>3, <1>4, <2>1, TotalKept
<1>5. CASE /\ StartVerdict(o, id) = "ok" /\ ~RingExists(id)
           /\ nf' = [nf EXCEPT ![id] = [status |-> "starting", service |-> o.service, core |-> core]]
           /\ coreCnt' = [coreCnt EXCEPT ![core] = (@ + 1) % U16]
  <2>1. id \in Id \cup {MaxNfs}
    BY <1>1, <1>3, NextInstanceIdRange DEF Option
  <2>2. id \in Id /\ core \in Core
    BY <1>1, <1>3, <1>5, <2>1, Accepted
  <2>3. id \notin Registered
    BY <1>3, <1>5 DEF RingExists, Owned
  <2>4. nf'[id].status = "starting" /\ \A i \in Id \ {id} : nf'[i] = nf[i]
    BY <1>3, <1>5, <2>2 DEF MgrTypes
  <2>5. Registered' = Registered \cup {id} /\ Registered \in SUBSET Id
    BY <2>2, <2>4 DEF Registered
  <2>6. /\ Cardinality(Registered') = Cardinality(Registered) + 1
        /\ Cardinality(Registered') \in 0 .. (MaxNfs - 1) /\ Cardinality(Registered) \in Nat
    <3>1. Registered' \in SUBSET Id
      BY <2>2, <2>5
    <3>2. QED
      BY <2>2, <2>3, <2>5, <3>1, IdSets
  <2>7. coreCnt \in [Core -> 0 .. (U16 - 1)]
    BY <1>3 DEF MgrTypes
  <2>8. Total(coreCnt) \in Int /\ Total(coreCnt') % U16 = (Total(coreCnt) + 1) % U16
    BY <1>5, <2>2, <2>7, TotalCounts
  <2>9. Total(coreCnt) % U16 = Cardinality(Registered)
    BY <1>3 DEF TotalInv
  <2>10. 0 \in 0 .. (U16 - 1) /\ U16 \in Nat /\ MaxNfs + 1 < U16 /\ MaxNfs \in Nat
    BY Constants DEF U16
  <2>11. (Total(coreCnt) + 1) % U16 = (Cardinality(Registered) + 1) % U16
    BY <2>8, <2>9, Rounds, Zenon
  <2>12. (Cardinality(Registered) + 1) % U16 = Cardinality(Registered) + 1
    BY <2>6, <2>10
  <2>13. QED
    BY <2>6, <2>8, <2>11, <2>12 DEF TotalInv
<1>6. QED
  BY <1>2, <1>4, <1>5

\* onvm_nf_stop counts the NF on its core no more; a relocation takes one NF
\* from a core and gives it to another.
LEMMA TotalStopping ==
    ASSUME RegistryInv, TotalInv, NEW p \in Proc, HandleStopping(p)
    PROVE  TotalInv'
<1>0. PICK id : id = myId[p]
  OBVIOUS
<1> DEFINE freed == nf[id].core
<1>1. /\ Receive("stopping", p) /\ id \in Id /\ id \in Registered
      /\ nf' = [nf EXCEPT ![id].status = "stopped"]
      /\ health' \in {health, "no_candidate"}
  BY <1>0, StoppingParts
<1> HIDE DEF freed
<1>1a. health' = health =>
          \/ coreCnt' = CoreReleased(freed)
          \/ \E c \in Core \ {freed} :
                 coreCnt' = [CoreReleased(freed) EXCEPT ![c] = (@ - 1) % U16,
                                                        ![freed] = (@ + 1) % U16]
  BY <1>0, StoppingParts, Zenon DEF freed
<1>2. MgrTypes /\ Up
  BY <1>1 DEF RegistryInv, Receive
<1>3. SUFFICES ASSUME health' = health PROVE Total(coreCnt') % U16 = Cardinality(Registered')
  BY <1>1, <1>2 DEF TotalInv, Up
<1>4. freed \in Core /\ coreCnt \in [Core -> 0 .. (U16 - 1)]
  BY <1>1, <1>2 DEF MgrTypes, NfRecord, freed
<1>5. \A i \in Id : (i # id => nf'[i] = nf[i]) /\ nf'[id].status = "stopped"
  BY <1>1, <1>2 DEF MgrTypes, NfRecord
<1>6. Registered' = Registered \ {id} /\ Registered \in SUBSET Id
  BY <1>1, <1>5 DEF Registered
<1>7. /\ Cardinality(Registered') = Cardinality(Registered) - 1
      /\ Cardinality(Registered') \in 0 .. (MaxNfs - 1) /\ Cardinality(Registered) \in Nat
  <2>1. Registered' \in SUBSET Id
    BY <1>6
  <2>2. QED
    BY <1>1, <1>6, <2>1, IdSets
<1>8. PICK cnt : cnt = CoreReleased(freed)
  OBVIOUS
<1>9. /\ cnt \in [Core -> 0 .. (U16 - 1)]
      /\ Total(coreCnt) \in Int /\ Total(cnt) \in Int
      /\ Total(cnt) % U16 = (Total(coreCnt) - 1) % U16
  <2>1. cnt \in [Core -> 0 .. (U16 - 1)]
    BY <1>1, <1>2, <1>4, <1>8, CoreTypes
  <2>2. QED
    BY <1>4, <1>8, <2>1, TotalCounts DEF CoreReleased
<1>10. Total(coreCnt') % U16 = Total(cnt) % U16
  <2>1. CASE coreCnt' = cnt
    BY <2>1
  <2>2. ASSUME NEW c \in Core \ {freed},
               coreCnt' = [cnt EXCEPT ![c] = (@ - 1) % U16, ![freed] = (@ + 1) % U16]
        PROVE  Total(coreCnt') % U16 = Total(cnt) % U16
    <3>1. PICK one : one = [cnt EXCEPT ![c] = (@ - 1) % U16]
      OBVIOUS
    <3>2. coreCnt' = [one EXCEPT ![freed] = (@ + 1) % U16]
      <4>1. one[freed] = cnt[freed]
        BY <1>4, <1>9, <3>1
      <4>2. QED
        BY <2>2, <3>1, <4>1
    <3>3. one \in [Core -> 0 .. (U16 - 1)]
      <4>1. U16 \in Nat \ {0}
        BY Bits16
      <4>2. (cnt[c] - 1) % U16 \in 0 .. (U16 - 1)
        BY <1>9, <2>2, <4>1
      <4>3. QED
        BY <1>9, <2>2, <3>1, <4>2
    <3>4. Total(one) \in Int /\ Total(one) % U16 = (Total(cnt) - 1) % U16
      <4>1. Total(one) \in Int
        BY <3>3, TotalCounts
      <4>2. QED
        BY <1>9, <2>2, <3>1, <4>1, TotalCounts, Zenon
    <3>5. Total(coreCnt') % U16 = (Total(one) + 1) % U16
      BY <1>4, <3>2, <3>3, TotalCounts
    <3>6. Total(cnt) - 1 \in Int /\ (Total(cnt) - 1) + 1 = Total(cnt)
      BY <1>9
    <3>7. /\ ((Total(one) % U16) + 1) % U16 = (Total(one) + 1) % U16
          /\ (((Total(cnt) - 1) % U16) + 1) % U16 = ((Total(cnt) - 1) + 1) % U16
      BY <3>4, <3>6, Rounds, Zenon
    <3>8. QED
      BY <3>4, <3>5, <3>6, <3>7, Zenon
  <2>3. QED
    BY <1>1a, <1>3, <1>8, <2>1, <2>2
<1>11. Total(coreCnt) % U16 = Cardinality(Registered)
  BY <1>2 DEF TotalInv
<1>12. 0 \in 0 .. (U16 - 1) /\ U16 \in Nat /\ MaxNfs + 1 < U16 /\ MaxNfs \in Nat
  BY Constants DEF U16
<1>13. (Total(coreCnt) - 1) % U16 = (Cardinality(Registered) - 1) % U16
  BY <1>9, <1>11, Rounds, Zenon
<1>14. (Cardinality(Registered) - 1) % U16 = Cardinality(Registered) - 1
  BY <1>7, <1>12
<1>15. QED
  BY <1>7, <1>9, <1>10, <1>13, <1>14

\* Every step keeps the sum.
LEMMA TotalStep ==
    ASSUME RegistryInv, TotalInv, [Next]_vars
    PROVE  TotalInv'
<1>1. ASSUME NEW p \in Proc, HandleReady(p) PROVE TotalInv'
  <2>1. Up
    BY <1>1 DEF HandleReady, Receive
  <2>2. QED
    BY <1>1, <2>1, ReadyParts, TotalKept
<1>2. ASSUME NEW p \in Proc, Process(p) PROVE TotalInv'
  <2>1. CASE ChangeCore(p)
    <3>1. Live(p) /\ HandshakeAt(p)
      BY <2>1, AtProcess DEF ChangeCore, Live
    <3>2. myId[p] \in Id
      BY <3>1, AtProcess DEF HandshakeAt, Holds
    <3>3. coreCnt' = coreCnt /\ nf' = [nf EXCEPT ![myId[p]].core = Head(moves[myId[p]])] /\ Up
      BY <2>1 DEF ChangeCore
    <3>4. \A i \in Id : nf'[i].status = nf[i].status
      BY <3>2, <3>3 DEF RegistryInv, MgrTypes, NfRecord
    <3>5. Registered' = Registered
      BY <3>4 DEF Registered
    <3>6. QED
      BY <3>3, <3>5, TotalKept
  <2>2. CASE ~ChangeCore(p)
    <3>1. UNCHANGED <<mgrState, moves>>
      BY <1>2, <2>2, ProcessStep
    <3>2. nf' = nf /\ coreCnt' = coreCnt
      BY <3>1 DEF mgrState
    <3>3. Registered' = Registered
      BY <3>2 DEF Registered
    <3>4. Up
      BY <1>2 DEF Process, Launch, Answered, SignalledWaiting, SendReady, BecomeReady, Stop, ChangeCore
    <3>5. QED
      BY <3>2, <3>3, <3>4, TotalKept
  <2>3. QED
    BY <2>1, <2>2
<1>3. ASSUME UNCHANGED vars PROVE TotalInv'
  <2>1. nf' = nf /\ coreCnt' = coreCnt /\ health' = health
    BY <1>3 DEF vars, mgrState
  <2>2. QED
    BY <2>1 DEF TotalInv, Up, Registered
<1>4. ASSUME NEW p \in Proc, CheckStatus(p) PROVE TotalInv'
  BY <1>1, <1>4, TotalStarting, TotalStopping DEF CheckStatus
<1>5. QED
  BY <1>2, <1>3, <1>4 DEF Next, Finished

\* With relocation too, and with signals, the counts of all cores together are
\* the number of registered NFs, in the 16 bits they have: starts, stops and
\* relocations that overlap neither lose an NF nor invent one
\* (onvm_threading_get_core, onvm_nf_stop, onvm_nf_relocate_nf).
THEOREM CoreSumExact == Spec => []CoreTotalExact
<1>1. Init => RegistryInv /\ TotalInv
  <2>1. SUFFICES ASSUME Init PROVE TotalInv
    BY RegistryInit
  <2>2. Registered = {} /\ coreCnt \in [Core -> Int] /\ \A c \in Core : coreCnt[c] = 0
    BY <2>1 DEF Init, Registered
  <2>3. Total(coreCnt) = 0 /\ Cardinality(Registered) = 0
    BY <2>2, TotalZero, FS_EmptySet
  <2>4. QED
    BY <2>3 DEF TotalInv, U16
<1>2. RegistryInv /\ TotalInv /\ [Next]_vars => (RegistryInv /\ TotalInv)'
  BY RegistryStep, TotalStep
<1>3. TotalInv => CoreTotalExact
  BY DEF TotalInv, CoreTotalExact, Total
<1>4. QED
  BY <1>1, <1>2, <1>3, PTL DEF Spec

-----------------------------------------------------------------------------
(* Orphans *)

\* Without signals a process waits for the answer to its request, and every
\* registered NF has its process.
HeldInv ==
    /\ \A p \in Proc : Sent("starting", p) => pc[p] = "waiting"
    /\ \A i \in Registered : \E p \in Proc : Holds(p) /\ IdOf(p) = i

\* The invariant implies what is checked.
LEMMA NoOrphansFollows ==
    ASSUME RegistryInv, HeldInv
    PROVE  NoOrphans
<1>1. ASSUME NEW i \in Registered
      PROVE  \E p \in Proc :
                 \/ pc[p] = "waiting" /\ cfg[p].status = "starting" /\ cfg[p].opt.inst = i
                 \/ Live(p) /\ myId[p] = i
                 \/ /\ myId[p] = i
                    /\ \E k \in 1 .. Len(queue) : queue[k] = [type |-> "stopping", proc |-> p]
  <2>1. PICK p \in Proc : Holds(p) /\ IdOf(p) = i
    BY DEF HeldInv
  <2>2. Live(p) \/ Sent("stopping", p) => myId[p] = i
    BY <2>1 DEF RegistryInv, Handshake, HandshakeAt
  <2>3. QED
    BY <2>1, <2>2 DEF Holds, IdOf, Sent, In
<1>2. QED
  BY <1>1 DEF NoOrphans

\* Steps that register nobody and whose holders keep holding.
LEMMA HeldKept ==
    ASSUME HeldInv, Registered' \subseteq Registered,
           \A q \in Proc : Holds(q) /\ IdOf(q) \in Registered' => Holds(q)' /\ IdOf(q)' = IdOf(q),
           \A q \in Proc : Sent("starting", q)' => pc'[q] = "waiting"
    PROVE  HeldInv'
<1>1. ASSUME NEW i \in Registered' PROVE \E p \in Proc : Holds(p)' /\ IdOf(p)' = i
  <2>1. PICK p \in Proc : Holds(p) /\ IdOf(p) = i
    BY DEF HeldInv
  <2>2. QED
    BY <2>1
<1>2. QED
  BY <1>1 DEF HeldInv

\* A new NF belongs to the process that asked.
LEMMA HeldStarting ==
    ASSUME RegistryInv, HeldInv, NEW p \in Proc, HandleStarting(p)
    PROVE  HeldInv'
<1>0. PICK o, id : o = cfg[p].opt /\ id = IF o.inst = NoId THEN NextInstanceId ELSE o.inst
  OBVIOUS
<1>1. /\ Receive("starting", p) /\ pc' = pc
      /\ \/ /\ nf' = nf
            /\ cfg' = cfg \/ cfg' = [cfg EXCEPT ![p].status = StartVerdict(o, id)]
         \/ /\ StartVerdict(o, id) = "ok"
            /\ nf' = [nf EXCEPT ![id] = [status |-> "starting", service |-> o.service, core |-> CoreFor(o)]]
            /\ cfg' = [cfg EXCEPT ![p] = [status |-> "starting", opt |-> [o EXCEPT !.inst = id]]]
  BY <1>0 DEF HandleStarting
<1>2. HandshakeAt(p) /\ Once(queue) /\ queue \in Seq(Message) /\ o \in Option /\ MgrTypes /\ ProcTypes
  BY <1>0, AtProcess DEF RegistryInv
<1>3. Sent("starting", p) /\ \A t, q : Sent(t, q)' <=> Sent(t, q) /\ ~(t = "starting" /\ q = p)
  BY <1>1, <1>2, ReceiveStep
<1>4. \A q \in Proc : Sent("starting", q)' => pc'[q] = "waiting"
  BY <1>1, <1>3 DEF HeldInv
<1>5. ~Holds(p) /\ pc[p] = "waiting"
  BY <1>2, <1>3 DEF HandshakeAt, Holds, HeldInv
<1>6. \A q \in Proc \ {p} : Holds(q) => Holds(q)' /\ IdOf(q)' = IdOf(q)
  <2>1. \A q \in Proc \ {p} : cfg'[q] = cfg[q] /\ (Live(q)' <=> Live(q)) /\ pc'[q] = pc[q]
    BY <1>1, <1>2 DEF ProcTypes, Live
  <2>2. QED
    BY <1>3, <2>1 DEF Holds, IdOf
<1>7. CASE nf' = nf
  <2>1. Registered' = Registered
    BY <1>7 DEF Registered
  <2>2. QED
    BY <1>4, <1>5, <1>6, <2>1, HeldKept
<1>8. CASE /\ StartVerdict(o, id) = "ok"
           /\ nf' = [nf EXCEPT ![id] = [status |-> "starting", service |-> o.service, core |-> CoreFor(o)]]
           /\ cfg' = [cfg EXCEPT ![p] = [status |-> "starting", opt |-> [o EXCEPT !.inst = id]]]
  <2>1. cfg'[p].status = "starting" /\ IdOf(p)' = id
    BY <1>2, <1>8 DEF IdOf, ProcTypes, Option
  <2>2. Holds(p)'
    BY <1>1, <1>5, <2>1 DEF Holds
  <2>3. ASSUME NEW i \in Registered' PROVE i = id \/ i \in Registered
    BY <1>2, <1>8 DEF Registered, MgrTypes
  <2>4. ASSUME NEW i \in Registered' PROVE \E q \in Proc : Holds(q)' /\ IdOf(q)' = i
    <3>1. CASE i = id
      BY <2>1, <2>2, <3>1
    <3>2. CASE i \in Registered
      <4>1. PICK q \in Proc : Holds(q) /\ IdOf(q) = i
        BY <3>2 DEF HeldInv
      <4>2. q # p
        BY <1>5, <4>1
      <4>3. QED
        BY <1>6, <4>1, <4>2
    <3>3. QED
      BY <2>3, <3>1, <3>2
  <2>5. QED
    BY <1>4, <2>4 DEF HeldInv
<1>9. QED
  BY <1>1, <1>7, <1>8

\* Without signals, every step leaves each registered NF with its process.
LEMMA HeldStep ==
    ASSUME ~Signals, RegistryInv, HeldInv, [Next]_vars
    PROVE  HeldInv'
<1>1. ASSUME NEW p \in Proc, HandleReady(p) PROVE HeldInv'
  <2>1. /\ Registered' = Registered /\ pc' = pc /\ cfg' = cfg
        /\ \A q : Sent("stopping", q)' <=> Sent("stopping", q)
        /\ \A q : Sent("starting", q)' <=> Sent("starting", q)
    BY <1>1, ReadyParts
  <2>2. \A q \in Proc : Holds(q) => Holds(q)' /\ IdOf(q)' = IdOf(q)
    BY <2>1 DEF Holds, Live, IdOf
  <2>3. \A q \in Proc : Sent("starting", q)' => pc'[q] = "waiting"
    BY <2>1 DEF HeldInv
  <2>4. QED
    BY <2>1, <2>2, <2>3, HeldKept
<1>2. ASSUME NEW p \in Proc, HandleStopping(p) PROVE HeldInv'
  <2>0. PICK id : id = myId[p]
    OBVIOUS
  <2>1. /\ Receive("stopping", p) /\ pc' = pc /\ cfg' = cfg /\ id \in Id /\ id \in Registered
        /\ nf' = [nf EXCEPT ![id].status = "stopped"] /\ Sent("stopping", p)
    BY <1>2, <2>0, StoppingParts
  <2>2. \A t, q : Sent(t, q)' <=> Sent(t, q) /\ ~(t = "stopping" /\ q = p)
    BY <2>1, AtProcess, ReceiveStep
  <2>3. IdOf(p) = id
    BY <2>0, <2>1, SenderHolds
  <2>4. Registered' = Registered \ {id}
    BY <2>1 DEF RegistryInv, MgrTypes, NfRecord, Registered
  <2>5. \A q \in Proc \ {p} : Holds(q) => Holds(q)' /\ IdOf(q)' = IdOf(q)
    BY <2>1, <2>2 DEF Holds, Live, IdOf
  <2>6. \A q \in Proc : Sent("starting", q)' => pc'[q] = "waiting"
    BY <2>1, <2>2 DEF HeldInv
  <2>7. QED
    BY <2>3, <2>4, <2>5, <2>6, HeldKept
<1>3. ASSUME NEW p \in Proc, Process(p), ~ChangeCore(p) PROVE HeldInv'
  <2>1. ProcessKeeps(p) /\ UNCHANGED <<mgrState, moves>>
    BY <1>3, ProcessStep
  <2>2. Registered' = Registered
    BY <2>1 DEF mgrState, Registered
  <2>3. ASSUME NEW q \in Proc, q # p
        PROVE  /\ Holds(q) => Holds(q)' /\ IdOf(q)' = IdOf(q)
               /\ Sent("starting", q)' => pc'[q] = "waiting"
    <3>1. HandshakeAt(q) /\ Untouched(q)
      BY <2>1, <2>3 DEF RegistryInv, Handshake, ProcessKeeps
    <3>2. QED
      BY <3>1, UntouchedStep DEF Untouched, HeldInv
  <2>4. Holds(p) => Holds(p)' /\ IdOf(p)' = IdOf(p)
    BY <2>1 DEF ProcessKeeps, IdOf
  <2>5. Sent("starting", p)' => pc'[p] = "waiting"
    <3>1. HandshakeAt(p)' /\ HandshakeAt(p) /\ pc \in [Proc -> {"new", "waiting", "started", "readying", "running", "gone"}]
      BY <2>1, AtProcess DEF ProcessKeeps, RegistryInv, ProcTypes
    <3>2. CASE \E o \in Options : Launch(p, o)
      <4>1. \/ queue' = queue /\ pc' = pc
            \/ pc' = [pc EXCEPT ![p] = "waiting"]
        BY <3>2 DEF Launch, Goto, procs
      <4>2. QED
        BY <3>1, <4>1, QueueKept DEF HeldInv
    <3>3. CASE Answered(p)
      <4>1. queue' = queue /\ cfg[p].status # "waiting"
        BY <3>3 DEF Answered
      <4>2. QED
        BY <3>1, <4>1, QueueKept DEF HandshakeAt
    <3>4. CASE SendReady(p) \/ BecomeReady(p) \/ Stop(p)
      <4>1. Live(p) /\ cfg' = cfg
        BY <3>4 DEF SendReady, BecomeReady, Stop, Live
      <4>2. cfg'[p].status = "starting"
        BY <3>1, <4>1 DEF HandshakeAt
      <4>3. QED
        BY <3>1, <4>2 DEF HandshakeAt
    <3>5. QED
      BY <1>3, <3>2, <3>3, <3>4 DEF Process, SignalledWaiting
  <2>6. QED
    BY <2>2, <2>3, <2>4, <2>5, HeldKept
<1>4. ASSUME NEW p \in Proc, ChangeCore(p) PROVE HeldInv'
  <2>1. queue' = queue /\ pc' = pc /\ cfg' = cfg
    BY <1>4 DEF ChangeCore, procs
  <2>2. \A q \in Proc : Holds(q) => Holds(q)' /\ IdOf(q)' = IdOf(q)
    BY <2>1, QueueKept DEF Holds, Live, IdOf
  <2>3. Registered' = Registered
    <3>1. \A i \in Id : nf'[i].status = nf[i].status
      BY <1>4 DEF ChangeCore, RegistryInv, MgrTypes, NfRecord
    <3>2. QED
      BY <3>1 DEF Registered
  <2>4. QED
    BY <2>1, <2>2, <2>3, QueueKept, HeldKept DEF HeldInv
<1>5. ASSUME UNCHANGED vars PROVE HeldInv'
  <2>1. queue' = queue /\ pc' = pc /\ cfg' = cfg /\ nf' = nf
    BY <1>5 DEF vars, procs, mgrState
  <2>2. \A q \in Proc : Holds(q) => Holds(q)' /\ IdOf(q)' = IdOf(q)
    BY <2>1, QueueKept DEF Holds, Live, IdOf
  <2>3. Registered' = Registered
    BY <2>1 DEF Registered
  <2>4. QED
    BY <2>1, <2>2, <2>3, QueueKept, HeldKept DEF HeldInv
<1>6. ASSUME NEW p \in Proc, CheckStatus(p) PROVE HeldInv'
  BY <1>1, <1>2, <1>6, HeldStarting DEF CheckStatus
<1>7. QED
  BY <1>3, <1>4, <1>5, <1>6 DEF Next, Finished

\* When no process is signalled while it starts, every registered NF has a
\* process that lives or whose last message is on its way.
THEOREM OrphansNever == ~Signals => (Spec => []NoOrphans)
<1> SUFFICES ASSUME ~Signals PROVE Spec => []NoOrphans
  OBVIOUS
<1>1. Init => RegistryInv /\ HeldInv
  <2>1. SUFFICES ASSUME Init PROVE HeldInv
    BY RegistryInit
  <2>2. Registered = {} /\ \A t, p : ~Sent(t, p)
    BY <2>1 DEF Init, Registered, Sent, In
  <2>3. QED
    BY <2>2 DEF HeldInv
<1>2. RegistryInv /\ HeldInv /\ [Next]_vars => (RegistryInv /\ HeldInv)'
  BY RegistryStep, HeldStep
<1>3. RegistryInv /\ HeldInv => NoOrphans
  BY NoOrphansFollows
<1>4. QED
  BY <1>1, <1>2, <1>3, PTL DEF Spec
=============================================================================

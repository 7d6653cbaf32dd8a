--------------------------- MODULE ScalingProofs ---------------------------
(***************************************************************************)
(* children_cnt counts the children of a scaled NF, and a parent leaves    *)
(* after them, for every number of children, of other NFs and of ids.      *)
(***************************************************************************)
EXTENDS Scaling, SequenceTheorems, FiniteSetTheorems, TLAPS

-----------------------------------------------------------------------------
(* Ids and messages *)

\* A set of natural numbers has a smallest element, and Min finds it.
LEMMA MinExists ==
    ASSUME NEW S \in SUBSET Nat, S # {}
    PROVE  Min(S) \in S /\ \A x \in S : Min(S) <= x
<1>1. PICK m \in S : \A x \in S : ~(<<x, m>> \in OpToRel(<, Nat))
  BY NatLessThanWellFounded, WFMin
<1>2. ASSUME NEW x \in S PROVE m <= x
  <2>1. x \in Nat /\ m \in Nat
    OBVIOUS
  <2>2. <<x, m>> \in OpToRel(<, Nat) <=> x < m
    BY <2>1 DEF OpToRel
  <2>3. ~(x < m)
    BY <1>1, <2>2, Zenon
  <2>4. QED
    BY <2>1, <2>3
<1>3. QED
  BY <1>2 DEF Min

ParentLeft == [type |-> "parent"]
Message    == [type : {"starting", "ready", "stopping"}, thread : Thread] \cup {ParentLeft}

In(s, x) == \E k \in 1 .. Len(s) : s[k] = x
Once(s)  == \A j, k \in 1 .. Len(s) : s[j] = s[k] => j = k

\* A message is put into the queue.
LEMMA Enqueued ==
    ASSUME NEW M, NEW s \in Seq(M), NEW m \in M
    PROVE  /\ Append(s, m) \in Seq(M)
           /\ \A x : In(Append(s, m), x) <=> In(s, x) \/ x = m
           /\ Once(s) /\ ~In(s, m) => Once(Append(s, m))
<1>1. /\ Len(s) \in Nat /\ Append(s, m) \in Seq(M) /\ Len(Append(s, m)) = Len(s) + 1
      /\ \A k \in 1 .. Len(s) : Append(s, m)[k] = s[k]
      /\ Append(s, m)[Len(s) + 1] = m
  BY AppendProperties, LenProperties
<1>2. ASSUME NEW x PROVE In(Append(s, m), x) <=> In(s, x) \/ x = m
  <2>1. ASSUME In(Append(s, m), x) PROVE In(s, x) \/ x = m
    <3>1. PICK k \in 1 .. (Len(s) + 1) : Append(s, m)[k] = x
      BY <1>1, <2>1 DEF In
    <3>2. k \in 1 .. Len(s) \/ k = Len(s) + 1
      BY <1>1, <3>1
    <3>3. QED
      BY <1>1, <3>1, <3>2 DEF In
  <2>2. ASSUME In(s, x) \/ x = m PROVE In(Append(s, m), x)
    <3>1. \A k \in 1 .. Len(s) : k \in 1 .. (Len(s) + 1)
      BY <1>1
    <3>2. Len(s) + 1 \in 1 .. (Len(s) + 1)
      BY <1>1
    <3>3. QED
      BY <1>1, <2>2, <3>1, <3>2 DEF In
  <2>3. QED
    BY <2>1, <2>2
<1>3. ASSUME Once(s), ~In(s, m) PROVE Once(Append(s, m))
  <2>1. ASSUME NEW j \in 1 .. (Len(s) + 1), NEW k \in 1 .. (Len(s) + 1),
               Append(s, m)[j] = Append(s, m)[k]
        PROVE  j = k
    <3>1. (j \in 1 .. Len(s) \/ j = Len(s) + 1) /\ (k \in 1 .. Len(s) \/ k = Len(s) + 1)
      BY <1>1
    <3>2. QED
      BY <1>1, <1>3, <2>1, <3>1 DEF Once, In
  <2>2. QED
    BY <1>1, <2>1 DEF Once
<1>4. QED
  BY <1>1, <1>2, <1>3

\* The first message is taken from the queue.
LEMMA Dequeued ==
    ASSUME NEW M, NEW s \in Seq(M), s # <<>>
    PROVE  /\ Tail(s) \in Seq(M) /\ Head(s) \in M /\ In(s, Head(s))
           /\ Once(s) => Once(Tail(s))
           /\ \A x : In(Tail(s), x) => In(s, x)
           /\ Once(s) => \A x : In(Tail(s), x) <=> In(s, x) /\ x # Head(s)
<1> DEFINE n == Len(s)
<1>1. /\ n \in Nat \ {0} /\ Tail(s) \in Seq(M) /\ Head(s) \in M /\ Len(Tail(s)) = n - 1
      /\ \A k \in 1 .. (n - 1) : Tail(s)[k] = s[k + 1]
      /\ Head(s) = s[1]
  BY HeadTailProperties, EmptySeq
<1> HIDE DEF n
<1>2. In(s, Head(s))
  BY <1>1 DEF In, n
<1>3. ASSUME NEW x, In(Tail(s), x) PROVE In(s, x)
  <2>1. PICK k \in 1 .. (n - 1) : Tail(s)[k] = x
    BY <1>1, <1>3 DEF In
  <2>2. k + 1 \in 1 .. n /\ s[k + 1] = x
    BY <1>1, <2>1
  <2>3. QED
    BY <2>2 DEF In, n
<1>4. ASSUME Once(s) PROVE Once(Tail(s))
  <2>1. ASSUME NEW j \in 1 .. (n - 1), NEW k \in 1 .. (n - 1), Tail(s)[j] = Tail(s)[k]
        PROVE  j = k
    <3>1. j + 1 \in 1 .. n /\ k + 1 \in 1 .. n /\ s[j + 1] = s[k + 1]
      BY <1>1, <2>1
    <3>2. j + 1 = k + 1
      BY <1>4, <3>1 DEF Once, n
    <3>3. QED
      BY <3>2
  <2>2. QED
    BY <1>1, <2>1 DEF Once
<1>5. ASSUME Once(s), NEW x PROVE In(Tail(s), x) <=> In(s, x) /\ x # Head(s)
  <2>1. ASSUME In(Tail(s), x) PROVE x # Head(s)
    <3>1. PICK k \in 1 .. (n - 1) : Tail(s)[k] = x
      BY <1>1, <2>1 DEF In
    <3>2. k + 1 \in 1 .. n /\ s[k + 1] = x /\ 1 \in 1 .. n /\ k + 1 # 1
      BY <1>1, <3>1
    <3>3. QED
      BY <1>1, <1>5, <3>2 DEF Once, n
  <2>2. ASSUME In(s, x), x # Head(s) PROVE In(Tail(s), x)
    <3>1. PICK k \in 1 .. n : s[k] = x
      BY <2>2 DEF In, n
    <3>2. k - 1 \in 1 .. (n - 1) /\ (k - 1) + 1 = k
      BY <1>1, <2>2, <3>1
    <3>3. Tail(s)[k - 1] = x
      BY <1>1, <3>1, <3>2
    <3>4. QED
      BY <1>1, <3>2, <3>3 DEF In
  <2>3. QED
    BY <1>3, <2>1, <2>2
<1>6. QED
  BY <1>1, <1>2, <1>3, <1>4, <1>5

-----------------------------------------------------------------------------
(* The invariant *)

Place == {"new", "asked", "granted", "refused", "readying", "gone"}

Sent(k, t) == In(queue, [type |-> k, thread |-> t])

Types ==
    /\ nfStatus \in [Id -> {"unused", "starting", "running", "stopped"}]
    /\ nfParent \in [Id -> {0, Parent}]
    /\ pc \in [Thread -> Place] /\ myId \in [Thread -> Id \cup {0}]
    /\ queue \in Seq(Message) /\ Once(queue)
    /\ children \in Int /\ uncounted \in [lost : Nat, stale : Nat]

\* A message belongs to one place of its sender, a sender that has been started
\* has an id, and the entry of a child that is ready names the parent.
HandshakeAt(t) ==
    /\ Sent("starting", t) => pc[t] = "asked"
    /\ Sent("ready", t) => pc[t] \in {"readying", "gone"}
    /\ Sent("stopping", t) => pc[t] = "gone"
    /\ pc[t] \in {"granted", "readying"} \/ Sent("ready", t) \/ Sent("stopping", t)
           => myId[t] \in Id
    /\ t \in Child /\ (pc[t] = "readying" \/ Sent("stopping", t))
           => nfParent[myId[t]] = Parent

\* The parent's own stop is sent when it leaves.
LeftLast == main # "left" => ~In(queue, ParentLeft)

ScalingInv ==
    /\ Types /\ LeftLast /\ \A t \in Thread : HandshakeAt(t)
    /\ ChildrenCounted /\ LeavesLast

\* Whose stop is still to come, in terms of messages.
LEMMA Pending ==
    ASSUME queue \in Seq(Message)
    PROVE  /\ Unhandled \subseteq Child
           /\ \A t \in Child : t \in Unhandled <=> Alive(t) \/ Sent("stopping", t)
<1>1. DOMAIN queue = 1 .. Len(queue)
  BY LenProperties
<1>2. QED
  BY <1>1 DEF Unhandled, Sent, In

\* The same after a step.
LEMMA PendingNext ==
    ASSUME queue' \in Seq(Message)
    PROVE  /\ Unhandled' \subseteq Child
           /\ \A t \in Child : t \in Unhandled' <=> Alive(t)' \/ Sent("stopping", t)'
<1>1. DOMAIN queue' = 1 .. Len(queue')
  BY LenProperties
<1>2. QED
  BY <1>1 DEF Unhandled, Sent, In

\* A message of a thread is put into the queue.
LEMMA SendStep ==
    ASSUME Types, NEW k \in {"starting", "ready", "stopping"}, NEW t \in Thread,
           ~Sent(k, t), Send(k, t)
    PROVE  /\ queue' \in Seq(Message) /\ Once(queue')
           /\ \A j, u : Sent(j, u)' <=> Sent(j, u) \/ (j = k /\ u = t)
           /\ In(queue', ParentLeft) <=> In(queue, ParentLeft)
<1> DEFINE m == [type |-> k, thread |-> t]
<1>1. m \in Message
  BY DEF Message
<1>2. queue \in Seq(Message) /\ Once(queue) /\ ~In(queue, m) /\ queue' = Append(queue, m)
  BY DEF Types, Send, Sent
<1>3. m # ParentLeft
  <2>1. m.type = k /\ ParentLeft.type = "parent" /\ k # "parent"
    BY DEF ParentLeft
  <2>2. QED
    BY <2>1
<1>4. ASSUME NEW j, NEW u PROVE [type |-> j, thread |-> u] = m <=> j = k /\ u = t
  OBVIOUS
<1> HIDE DEF m
<1>5. /\ queue' \in Seq(Message) /\ Once(queue')
      /\ \A x : In(queue', x) <=> In(queue, x) \/ x = m
  BY <1>1, <1>2, Enqueued
<1>6. QED
  BY <1>3, <1>4, <1>5 DEF Sent

\* How the count follows the set of children whose stop is to come.
LEMMA Recount ==
    ASSUME Distinguished, ScalingInv, Types', main' = main, iter' = iter,
           uncounted'.stale >= uncounted.stale,
           NEW d \in Int,
           main # "left" => children' = children + d + (uncounted'.lost - uncounted.lost)
                                            - (uncounted'.stale - uncounted.stale),
           \/ d = 0 /\ Unhandled' = Unhandled
           \/ d = 1 /\ main # "left" /\ \E t \in Child \ Unhandled : Unhandled' = Unhandled \cup {t}
           \/ d = -1 /\ \E t \in Unhandled : Unhandled' = Unhandled \ {t}
    PROVE  ChildrenCounted' /\ LeavesLast'
<1>1. /\ uncounted.lost \in Nat /\ uncounted.stale \in Nat
      /\ uncounted'.lost \in Nat /\ uncounted'.stale \in Nat /\ children \in Int
  BY DEF ScalingInv, Types
<1>2. Unhandled \subseteq Child
  BY Pending DEF ScalingInv, Types
<1>3. IsFiniteSet(Unhandled)
  BY <1>2, FS_Subset DEF Distinguished
<1>4. Cardinality(Unhandled) \in Nat
  BY <1>3, FS_CardinalityType
<1>5. Cardinality(Unhandled') = Cardinality(Unhandled) + d
  <2>1. CASE d = 0 /\ Unhandled' = Unhandled
    BY <1>4, <2>1
  <2>2. CASE d = 1 /\ \E t \in Child \ Unhandled : Unhandled' = Unhandled \cup {t}
    BY <1>3, <2>2, FS_AddElement
  <2>3. CASE d = -1 /\ \E t \in Unhandled : Unhandled' = Unhandled \ {t}
    <3>1. PICK t \in Unhandled : Unhandled' = Unhandled \ {t}
      BY <2>3
    <3>2. Cardinality(Unhandled \ {t}) = Cardinality(Unhandled) - 1
      BY <1>3, <3>1, FS_RemoveElement
    <3>3. QED
      BY <1>4, <2>3, <3>1, <3>2
  <2>4. QED
    BY <2>1, <2>2, <2>3
<1>6. ChildrenCounted'
  <2>1. SUFFICES ASSUME main # "left"
                 PROVE  children' = Cardinality(Unhandled') + uncounted'.lost - uncounted'.stale
    BY DEF ChildrenCounted
  <2>2. children = Cardinality(Unhandled) + uncounted.lost - uncounted.stale
    BY <2>1 DEF ScalingInv, ChildrenCounted
  <2>3. QED
    BY <1>1, <1>4, <1>5, <2>1, <2>2
<1>7. LeavesLast'
  <2>1. SUFFICES ASSUME main = "left", iter < StopIters, uncounted'.stale = 0
                 PROVE  Unhandled' = {}
    BY DEF LeavesLast
  <2>2. uncounted.stale = 0
    BY <1>1, <2>1
  <2>3. Unhandled = {}
    BY <2>1, <2>2 DEF ScalingInv, LeavesLast
  <2>4. QED
    BY <2>1, <2>3
<1>8. QED
  BY <1>6, <1>7

-----------------------------------------------------------------------------
(* Threads *)

\* A thread is created or a stranger begins: both ask for an id.
LEMMA AskKeeps ==
    ASSUME Distinguished, ScalingInv, NEW t \in Thread,
           Scale(t) \/ Begin(t)
    PROVE  ScalingInv'
<1>1. /\ Types /\ LeftLast /\ \A u \in Thread : HandshakeAt(u)
  BY DEF ScalingInv
<1>2. pc[t] = "new" /\ ~Sent("starting", t) /\ ~Sent("ready", t) /\ ~Sent("stopping", t)
  BY <1>1 DEF Scale, Begin, HandshakeAt
<1>3. t \in Child <=> Scale(t)
  BY DEF Scale, Begin, Distinguished
<1>4. /\ UNCHANGED <<nfStatus, nfParent, myId, main, iter>>
      /\ children' = IF t \in Child THEN children + 1 ELSE children
      /\ t \in Child => main # "left"
  BY <1>3 DEF Scale, Begin
<1>5. CASE Goto(t, "asked") /\ Send("starting", t) /\ UNCHANGED uncounted
  <2>1. /\ queue' \in Seq(Message) /\ Once(queue')
        /\ \A j, u : Sent(j, u)' <=> Sent(j, u) \/ (j = "starting" /\ u = t)
        /\ In(queue', ParentLeft) <=> In(queue, ParentLeft)
    BY <1>1, <1>2, <1>5, SendStep
  <2>2. /\ pc' \in [Thread -> Place] /\ pc'[t] = "asked"
        /\ \A u \in Thread \ {t} : pc'[u] = pc[u]
    BY <1>1, <1>5 DEF Types, Goto, Place
  <2>3. Types'
    BY <1>1, <1>4, <1>5, <2>1, <2>2 DEF Types
  <2>4. LeftLast' /\ \A u \in Thread : HandshakeAt(u)'
    BY <1>1, <1>2, <1>4, <2>1, <2>2 DEF LeftLast, HandshakeAt
  <2>5. \A u \in Child : u \in Unhandled' <=> u \in Unhandled \/ u = t
    BY <1>1, <2>1, <2>2, Pending, PendingNext DEF Types, Alive, Thread
  <2>6. t \notin Unhandled
    BY <1>1, <1>2, Pending DEF Types, Alive
  <2>7. Unhandled \subseteq Child /\ Unhandled' \subseteq Child
    BY <1>1, <2>1, Pending, PendingNext DEF Types
  <2>8. /\ uncounted'.lost = uncounted.lost /\ uncounted'.stale = uncounted.stale
        /\ uncounted.lost \in Nat /\ uncounted.stale \in Nat /\ children \in Int
    BY <1>1, <1>5 DEF Types
  <2>9. ChildrenCounted' /\ LeavesLast'
    <3>1. CASE t \in Child
      <4>1. t \in Child \ Unhandled /\ Unhandled' = Unhandled \cup {t}
        BY <2>5, <2>6, <2>7, <3>1
      <4>2. children' = children + 1 + (uncounted'.lost - uncounted.lost)
                            - (uncounted'.stale - uncounted.stale)
        BY <1>4, <2>8, <3>1
      <4>3. uncounted'.stale >= uncounted.stale /\ 1 \in Int /\ main' = main /\ iter' = iter
        BY <1>4, <2>8
      <4>4. QED
        BY <1>4, <2>3, <3>1, <4>1, <4>2, <4>3, Recount
    <3>2. CASE t \notin Child
      <4>1. Unhandled' = Unhandled
        BY <2>5, <2>7, <3>2
      <4>2. children' = children + 0 + (uncounted'.lost - uncounted.lost)
                            - (uncounted'.stale - uncounted.stale)
        BY <1>4, <2>8, <3>2
      <4>3. uncounted'.stale >= uncounted.stale /\ 0 \in Int /\ main' = main /\ iter' = iter
        BY <1>4, <2>8
      <4>4. QED
        BY <2>3, <4>1, <4>2, <4>3, Recount
    <3>3. QED
      BY <3>1, <3>2
  <2>10. QED
    BY <2>3, <2>4, <2>9 DEF ScalingInv
<1>6. CASE /\ t \in Child /\ Goto(t, "gone") /\ UNCHANGED queue
           /\ uncounted' = [uncounted EXCEPT !.lost = @ + 1]
  <2>1. /\ pc' \in [Thread -> Place] /\ pc'[t] = "gone"
        /\ \A u \in Thread \ {t} : pc'[u] = pc[u]
    BY <1>1, <1>6 DEF Types, Goto, Place
  <2>2. /\ uncounted'.lost = uncounted.lost + 1 /\ uncounted'.stale = uncounted.stale
        /\ uncounted.lost \in Nat /\ uncounted.stale \in Nat /\ children \in Int
        /\ uncounted' \in [lost : Nat, stale : Nat]
    BY <1>1, <1>6 DEF Types
  <2>3. Types'
    BY <1>1, <1>4, <1>6, <2>1, <2>2 DEF Types
  <2>4. \A j, u : Sent(j, u)' <=> Sent(j, u)
    BY <1>6 DEF Sent
  <2>5. LeftLast' /\ \A u \in Thread : HandshakeAt(u)'
    BY <1>1, <1>2, <1>4, <1>6, <2>1, <2>4 DEF LeftLast, HandshakeAt
  <2>6. \A u \in Child : u \in Unhandled' <=> u \in Unhandled
    BY <1>1, <1>2, <1>6, <2>1, <2>4, Pending, PendingNext DEF Types, Alive, Thread
  <2>7. Unhandled' = Unhandled
    BY <1>1, <1>6, <2>6, Pending, PendingNext DEF Types
  <2>8. children' = children + 0 + (uncounted'.lost - uncounted.lost)
                        - (uncounted'.stale - uncounted.stale)
    BY <1>4, <1>6, <2>2
  <2>9. uncounted'.stale >= uncounted.stale /\ 0 \in Int /\ main' = main /\ iter' = iter
    BY <1>4, <2>2
  <2>10. ChildrenCounted' /\ LeavesLast'
    BY <2>3, <2>7, <2>8, <2>9, Recount
  <2>11. QED
    BY <2>3, <2>5, <2>10 DEF ScalingInv
<1>7. QED
  BY <1>5, <1>6 DEF Scale, Begin

\* A step that neither takes a child's stop nor counts anything.
LEMMA SameCount ==
    ASSUME Distinguished, ScalingInv, Types',
           UNCHANGED <<children, uncounted, main, iter>>, Unhandled' = Unhandled
    PROVE  ChildrenCounted' /\ LeavesLast'
BY DEF ScalingInv, ChildrenCounted, LeavesLast

\* A thread that was refused an id ends; a child stays counted for ever.
LEMMA RefusedKeeps ==
    ASSUME Distinguished, ScalingInv, NEW t \in Thread, Refused(t)
    PROVE  ScalingInv'
<1>1. /\ Types /\ LeftLast /\ \A u \in Thread : HandshakeAt(u)
  BY DEF ScalingInv
<1>2. /\ pc[t] = "refused" /\ Goto(t, "gone")
      /\ ~Sent("starting", t) /\ ~Sent("ready", t) /\ ~Sent("stopping", t)
      /\ UNCHANGED <<nfStatus, nfParent, children, myId, queue, main, iter>>
      /\ uncounted' = IF t \in Child THEN [uncounted EXCEPT !.lost = @ + 1] ELSE uncounted
  BY <1>1 DEF Refused, HandshakeAt
<1>3. /\ pc' \in [Thread -> Place] /\ pc'[t] = "gone"
      /\ \A u \in Thread \ {t} : pc'[u] = pc[u]
  BY <1>1, <1>2 DEF Types, Goto, Place
<1>4. /\ uncounted'.lost = uncounted.lost + (IF t \in Child THEN 1 ELSE 0)
      /\ uncounted'.stale = uncounted.stale
      /\ uncounted.lost \in Nat /\ uncounted.stale \in Nat /\ children \in Int
      /\ uncounted' \in [lost : Nat, stale : Nat]
  BY <1>1, <1>2 DEF Types
<1>5. Types'
  BY <1>1, <1>2, <1>3, <1>4 DEF Types
<1>6. \A j, u : Sent(j, u)' <=> Sent(j, u)
  BY <1>2 DEF Sent
<1>7. LeftLast' /\ \A u \in Thread : HandshakeAt(u)'
  BY <1>1, <1>2, <1>3, <1>6 DEF LeftLast, HandshakeAt
<1>8. /\ \A u \in Child : u \in Unhandled' <=> u \in Unhandled /\ u # t
      /\ t \in Child => t \in Unhandled
      /\ Unhandled \subseteq Child /\ Unhandled' \subseteq Child
  BY <1>1, <1>2, <1>3, <1>5, <1>6, Pending, PendingNext DEF Types, Alive, Thread
<1>9. ChildrenCounted' /\ LeavesLast'
  <2>1. CASE t \in Child
    <3>1. t \in Unhandled /\ Unhandled' = Unhandled \ {t}
      BY <1>8, <2>1
    <3>2. children' = children + (-1) + (uncounted'.lost - uncounted.lost)
                          - (uncounted'.stale - uncounted.stale)
      BY <1>2, <1>4, <2>1
    <3>3. uncounted'.stale >= uncounted.stale /\ -1 \in Int /\ main' = main /\ iter' = iter
      BY <1>2, <1>4
    <3>4. QED
      BY <1>5, <3>1, <3>2, <3>3, Recount
  <2>2. CASE t \notin Child
    <3>1. Unhandled' = Unhandled
      BY <1>8, <2>2
    <3>2. UNCHANGED <<children, uncounted, main, iter>>
      BY <1>2, <2>2
    <3>3. QED
      BY <1>5, <3>1, <3>2, SameCount
  <2>3. QED
    BY <2>1, <2>2
<1>10. QED
  BY <1>5, <1>7, <1>9 DEF ScalingInv

\* A child notes its parent in the entry it was given.
LEMMA AdoptKeeps ==
    ASSUME Distinguished, ScalingInv, NEW t \in Thread, Adopt(t)
    PROVE  ScalingInv'
<1>1. /\ Types /\ LeftLast /\ \A u \in Thread : HandshakeAt(u)
  BY DEF ScalingInv
<1>2. /\ pc[t] = "granted" /\ Goto(t, "readying") /\ Send("ready", t)
      /\ ~Sent("starting", t) /\ ~Sent("ready", t) /\ ~Sent("stopping", t)
      /\ myId[t] \in Id
      /\ UNCHANGED <<nfStatus, children, myId, main, iter, uncounted>>
      /\ nfParent' = IF t \in Child THEN [nfParent EXCEPT ![myId[t]] = Parent] ELSE nfParent
  BY <1>1 DEF Adopt, HandshakeAt
<1>3. /\ queue' \in Seq(Message) /\ Once(queue')
      /\ \A j, u : Sent(j, u)' <=> Sent(j, u) \/ (j = "ready" /\ u = t)
      /\ In(queue', ParentLeft) <=> In(queue, ParentLeft)
  BY <1>1, <1>2, SendStep
<1>4. /\ pc' \in [Thread -> Place] /\ pc'[t] = "readying"
      /\ \A u \in Thread \ {t} : pc'[u] = pc[u]
  BY <1>1, <1>2 DEF Types, Goto, Place
<1>5. /\ nfParent' \in [Id -> {0, Parent}]
      /\ t \in Child => nfParent'[myId[t]] = Parent
      /\ \A i \in Id : nfParent[i] = Parent => nfParent'[i] = Parent
  BY <1>1, <1>2 DEF Types
<1>6. Types'
  BY <1>1, <1>2, <1>3, <1>4, <1>5 DEF Types
<1>7. \A u \in Thread : HandshakeAt(u)'
  <2>1. SUFFICES ASSUME NEW u \in Thread PROVE HandshakeAt(u)'
    OBVIOUS
  <2>2. CASE u = t
    BY <1>2, <1>3, <1>4, <1>5, <2>2 DEF HandshakeAt
  <2>3. CASE u # t
    <3>1. pc'[u] = pc[u] /\ myId'[u] = myId[u] /\ \A j : Sent(j, u)' <=> Sent(j, u)
      BY <1>2, <1>3, <1>4, <2>3
    <3>2. HandshakeAt(u)
      BY <1>1
    <3>3. QED
      BY <1>5, <3>1, <3>2 DEF HandshakeAt
  <2>4. QED
    BY <2>2, <2>3
<1>8. LeftLast'
  BY <1>1, <1>2, <1>3 DEF LeftLast
<1>9. \A u \in Child : u \in Unhandled' <=> u \in Unhandled
  BY <1>1, <1>2, <1>3, <1>4, Pending, PendingNext DEF Types, Alive, Thread
<1>10. Unhandled' = Unhandled
  BY <1>1, <1>3, <1>9, Pending, PendingNext DEF Types
<1>11. ChildrenCounted' /\ LeavesLast'
  BY <1>2, <1>6, <1>10, SameCount
<1>12. QED
  BY <1>6, <1>7, <1>8, <1>11 DEF ScalingInv

\* A thread ends its loop and says so.
LEMMA FinishKeeps ==
    ASSUME Distinguished, ScalingInv, NEW t \in Thread, Finish(t)
    PROVE  ScalingInv'
<1>1. /\ Types /\ LeftLast /\ \A u \in Thread : HandshakeAt(u)
  BY DEF ScalingInv
<1>2. /\ pc[t] = "readying" /\ Goto(t, "gone") /\ Send("stopping", t)
      /\ ~Sent("starting", t) /\ ~Sent("stopping", t) /\ myId[t] \in Id
      /\ t \in Child => nfParent[myId[t]] = Parent
      /\ UNCHANGED <<nfStatus, nfParent, children, myId, main, iter, uncounted>>
  BY <1>1 DEF Finish, HandshakeAt
<1>3. /\ queue' \in Seq(Message) /\ Once(queue')
      /\ \A j, u : Sent(j, u)' <=> Sent(j, u) \/ (j = "stopping" /\ u = t)
      /\ In(queue', ParentLeft) <=> In(queue, ParentLeft)
  BY <1>1, <1>2, SendStep
<1>4. /\ pc' \in [Thread -> Place] /\ pc'[t] = "gone"
      /\ \A u \in Thread \ {t} : pc'[u] = pc[u]
  BY <1>1, <1>2 DEF Types, Goto, Place
<1>5. Types'
  BY <1>1, <1>2, <1>3, <1>4 DEF Types
<1>6. LeftLast' /\ \A u \in Thread : HandshakeAt(u)'
  BY <1>1, <1>2, <1>3, <1>4 DEF LeftLast, HandshakeAt
<1>7. \A u \in Child : u \in Unhandled' <=> u \in Unhandled
  BY <1>1, <1>2, <1>3, <1>4, Pending, PendingNext DEF Types, Alive, Thread
<1>8. Unhandled' = Unhandled
  BY <1>1, <1>3, <1>7, Pending, PendingNext DEF Types
<1>9. ChildrenCounted' /\ LeavesLast'
  BY <1>2, <1>5, <1>8, SameCount
<1>10. QED
  BY <1>5, <1>6, <1>9 DEF ScalingInv

-----------------------------------------------------------------------------
(* The parent's own thread *)

\* The parent waits for its children and leaves.
LEMMA ParentKeeps ==
    ASSUME Distinguished, ScalingInv, StopMain \/ WaitForChildren \/ Leave
    PROVE  ScalingInv'
<1>1. /\ Types /\ LeftLast /\ \A u \in Thread : HandshakeAt(u)
  BY DEF ScalingInv
<1>2. /\ ChildrenCounted /\ LeavesLast
      /\ UNCHANGED <<nfStatus, nfParent, children, pc, myId, uncounted>>
  BY DEF ScalingInv, StopMain, WaitForChildren, Leave
<1>3. CASE StopMain \/ WaitForChildren
  <2>1. UNCHANGED queue /\ main # "left" /\ main' # "left"
    BY <1>3 DEF StopMain, WaitForChildren
  <2>2. Types' /\ LeftLast' /\ \A u \in Thread : HandshakeAt(u)'
    BY <1>1, <1>2, <2>1 DEF Types, LeftLast, HandshakeAt, Sent
  <2>3. Unhandled' = Unhandled
    BY <1>2, <2>1 DEF Unhandled, Alive
  <2>4. QED
    BY <1>2, <2>1, <2>2, <2>3 DEF ScalingInv, ChildrenCounted, LeavesLast
<1>4. CASE Leave
  <2>1. /\ main = "term" /\ main' = "left" /\ iter' = iter /\ queue' = Append(queue, ParentLeft)
        /\ ~(children > 0 /\ iter < StopIters)
    BY <1>4 DEF Leave, ParentLeft
  <2>2. ~In(queue, ParentLeft) /\ ParentLeft \in Message
    BY <1>1, <2>1 DEF LeftLast, Message
  <2>3. /\ queue' \in Seq(Message) /\ Once(queue')
        /\ \A x : In(queue', x) <=> In(queue, x) \/ x = ParentLeft
    BY <1>1, <2>1, <2>2, Enqueued DEF Types
  <2>4. \A j \in {"starting", "ready", "stopping"} : \A u :
            [type |-> j, thread |-> u] # ParentLeft
    <3>1. ASSUME NEW j \in {"starting", "ready", "stopping"}, NEW u,
                 [type |-> j, thread |-> u] = ParentLeft
          PROVE  FALSE
      <4>1. [type |-> j, thread |-> u].type = j /\ ParentLeft.type = "parent"
        BY DEF ParentLeft
      <4>2. QED
        BY <3>1, <4>1
    <3>2. QED
      BY <3>1
  <2>5. \A j \in {"starting", "ready", "stopping"} : \A u : Sent(j, u)' <=> Sent(j, u)
    BY <2>3, <2>4 DEF Sent
  <2>6. Types' /\ LeftLast'
    BY <1>1, <1>2, <2>1, <2>3 DEF Types, LeftLast
  <2>7. \A u \in Thread : HandshakeAt(u)'
    BY <1>1, <1>2, <2>5 DEF HandshakeAt
  <2>8. \A u \in Child : u \in Unhandled' <=> u \in Unhandled
    BY <1>1, <1>2, <2>3, <2>5, Pending, PendingNext DEF Types, Alive
  <2>9. Unhandled' = Unhandled /\ Unhandled \subseteq Child
    BY <1>1, <2>3, <2>8, Pending, PendingNext DEF Types
  <2>10. LeavesLast'
    <3>1. SUFFICES ASSUME iter < StopIters, uncounted.stale = 0 PROVE Unhandled = {}
      BY <1>2, <2>1, <2>9 DEF LeavesLast
    <3>2. IsFiniteSet(Unhandled)
      BY <2>9, FS_Subset DEF Distinguished
    <3>3. Cardinality(Unhandled) \in Nat
      BY <3>2, FS_CardinalityType
    <3>4. children = Cardinality(Unhandled) + uncounted.lost - uncounted.stale
      BY <1>2, <2>1 DEF ChildrenCounted
    <3>5. uncounted.lost \in Nat /\ children \in Int /\ ~(children > 0)
      BY <1>1, <2>1, <3>1 DEF Types
    <3>6. Cardinality(Unhandled) = 0
      BY <3>1, <3>3, <3>4, <3>5
    <3>7. QED
      BY <3>2, <3>6, FS_EmptySet
  <2>11. ChildrenCounted'
    BY <2>1 DEF ChildrenCounted
  <2>12. QED
    BY <2>6, <2>7, <2>10, <2>11 DEF ScalingInv
<1>5. QED
  BY <1>3, <1>4

-----------------------------------------------------------------------------
(* The manager *)

\* The manager takes the first message; the others stay.
LEMMA TakeStep ==
    ASSUME Types, queue # <<>>, queue' = Tail(queue)
    PROVE  /\ queue' \in Seq(Message) /\ Once(queue') /\ Head(queue) \in Message
           /\ In(queue, Head(queue))
           /\ \A x : In(queue', x) <=> In(queue, x) /\ x # Head(queue)
BY Dequeued DEF Types

\* A message that is not the parent's names its sender.
LEMMA Sender ==
    ASSUME NEW m \in Message, m.type # "parent"
    PROVE  /\ m.thread \in Thread /\ m.type \in {"starting", "ready", "stopping"}
           /\ \A j, u : [type |-> j, thread |-> u] = m <=> j = m.type /\ u = m.thread
<1>1. m \in [type : {"starting", "ready", "stopping"}, thread : Thread]
  BY DEF Message, ParentLeft
<1>2. m = [type |-> m.type, thread |-> m.thread]
  BY <1>1
<1>3. QED
  BY <1>1, <1>2

\* onvm_nf_start gives an id or refuses.
LEMMA StartKeeps ==
    ASSUME Distinguished, ScalingInv, Handle, Head(queue).type = "starting"
    PROVE  ScalingInv'
<1> DEFINE t == Head(queue).thread
<1>1. /\ Types /\ LeftLast /\ \A u \in Thread : HandshakeAt(u)
  BY DEF ScalingInv
<1>2. /\ Start(t) /\ queue # <<>> /\ queue' = Tail(queue)
      /\ UNCHANGED <<nfParent, main, iter, children, uncounted>>
  BY DEF Handle
<1>3. /\ queue' \in Seq(Message) /\ Once(queue') /\ Head(queue) \in Message
      /\ In(queue, Head(queue))
      /\ \A x : In(queue', x) <=> In(queue, x) /\ x # Head(queue)
  BY <1>1, <1>2, TakeStep
<1>4. /\ t \in Thread
      /\ \A j, u : [type |-> j, thread |-> u] = Head(queue) <=> j = "starting" /\ u = t
  BY <1>3, Sender
<1> HIDE DEF t
<1>5. /\ \A j, u : Sent(j, u)' <=> Sent(j, u) /\ ~(j = "starting" /\ u = t)
      /\ Sent("starting", t)
      /\ In(queue', ParentLeft) => In(queue, ParentLeft)
  BY <1>3, <1>4 DEF Sent
<1>6. /\ pc[t] = "asked" /\ ~Sent("ready", t) /\ ~Sent("stopping", t)
  BY <1>1, <1>4, <1>5 DEF HandshakeAt
<1>7. PICK l \in {"granted", "refused"} :
          /\ Goto(t, l)
          /\ l = "granted" => \E i \in Id : /\ myId' = [myId EXCEPT ![t] = i]
                                            /\ nfStatus' = [nfStatus EXCEPT ![i] = "starting"]
          /\ l = "refused" => UNCHANGED <<myId, nfStatus>>
  <2>1. CASE /\ Idle # {} /\ Goto(t, "granted")
             /\ myId' = [myId EXCEPT ![t] = Min(Idle)]
             /\ nfStatus' = [nfStatus EXCEPT ![Min(Idle)] = "starting"]
    <3>1. Idle \in SUBSET Nat
      BY DEF Idle, Id, Distinguished
    <3>2. Min(Idle) \in Idle
      BY <2>1, <3>1, MinExists
    <3>3. Min(Idle) \in Id
      BY <3>2 DEF Idle
    <3>4. QED
      BY <2>1, <3>3
  <2>2. CASE Goto(t, "refused") /\ UNCHANGED <<myId, nfStatus>>
    BY <2>2
  <2>3. QED
    BY <1>2, <2>1, <2>2 DEF Start
<1>8. /\ pc' \in [Thread -> Place] /\ pc'[t] = l
      /\ \A u \in Thread \ {t} : pc'[u] = pc[u]
  BY <1>1, <1>4, <1>7 DEF Types, Goto, Place
<1>9. /\ myId' \in [Thread -> Id \cup {0}]
      /\ nfStatus' \in [Id -> {"unused", "starting", "running", "stopped"}]
      /\ l = "granted" => myId'[t] \in Id
      /\ \A u \in Thread \ {t} : myId'[u] = myId[u]
  BY <1>1, <1>4, <1>7 DEF Types
<1>10. Types'
  BY <1>1, <1>2, <1>3, <1>8, <1>9 DEF Types
<1>11. \A u \in Thread : HandshakeAt(u)'
  <2>1. SUFFICES ASSUME NEW u \in Thread PROVE HandshakeAt(u)'
    OBVIOUS
  <2>2. CASE u = t
    BY <1>5, <1>6, <1>7, <1>8, <1>9, <2>2 DEF HandshakeAt
  <2>3. CASE u # t
    <3>1. /\ pc'[u] = pc[u] /\ myId'[u] = myId[u] /\ nfParent' = nfParent
          /\ \A j : Sent(j, u)' <=> Sent(j, u)
      BY <1>2, <1>5, <1>8, <1>9, <2>3
    <3>2. HandshakeAt(u)
      BY <1>1
    <3>3. QED
      BY <3>1, <3>2 DEF HandshakeAt
  <2>4. QED
    BY <2>2, <2>3
<1>12. LeftLast'
  BY <1>1, <1>2, <1>5 DEF LeftLast
<1>13. \A u \in Child : u \in Unhandled' <=> u \in Unhandled
  BY <1>1, <1>3, <1>5, <1>6, <1>7, <1>8, Pending, PendingNext DEF Types, Alive, Thread
<1>14. Unhandled' = Unhandled
  BY <1>1, <1>3, <1>13, Pending, PendingNext DEF Types
<1>15. ChildrenCounted' /\ LeavesLast'
  BY <1>2, <1>10, <1>14, SameCount
<1>16. QED
  BY <1>10, <1>11, <1>12, <1>15 DEF ScalingInv

\* onvm_nf_ready marks the NF as running.
LEMMA ReadyKeeps ==
    ASSUME Distinguished, ScalingInv, Handle, Head(queue).type = "ready"
    PROVE  ScalingInv'
<1> DEFINE t == Head(queue).thread
<1>1. /\ Types /\ LeftLast /\ \A u \in Thread : HandshakeAt(u)
  BY DEF ScalingInv
<1>2. /\ nfStatus' = [nfStatus EXCEPT ![myId[t]] = "running"]
      /\ queue # <<>> /\ queue' = Tail(queue)
      /\ UNCHANGED <<nfParent, main, iter, children, uncounted, pc, myId>>
  BY DEF Handle
<1>3. /\ queue' \in Seq(Message) /\ Once(queue') /\ Head(queue) \in Message
      /\ \A x : In(queue', x) <=> In(queue, x) /\ x # Head(queue)
  BY <1>1, <1>2, TakeStep
<1>4. \A j, u : [type |-> j, thread |-> u] = Head(queue) <=> j = "ready" /\ u = t
  BY <1>3, Sender
<1> HIDE DEF t
<1>5. /\ \A j, u : Sent(j, u)' <=> Sent(j, u) /\ ~(j = "ready" /\ u = t)
      /\ In(queue', ParentLeft) => In(queue, ParentLeft)
  BY <1>3, <1>4 DEF Sent
<1>6. Types'
  BY <1>1, <1>2, <1>3 DEF Types
<1>7. LeftLast' /\ \A u \in Thread : HandshakeAt(u)'
  BY <1>1, <1>2, <1>5 DEF LeftLast, HandshakeAt
<1>8. \A u \in Child : u \in Unhandled' <=> u \in Unhandled
  BY <1>1, <1>2, <1>3, <1>5, Pending, PendingNext DEF Types, Alive
<1>9. Unhandled' = Unhandled
  BY <1>1, <1>3, <1>8, Pending, PendingNext DEF Types
<1>10. ChildrenCounted' /\ LeavesLast'
  BY <1>2, <1>6, <1>9, SameCount
<1>11. QED
  BY <1>6, <1>7, <1>10 DEF ScalingInv

\* onvm_nf_stop lowers the count of the parent that the entry names: of the
\* parent of a child, and of a former owner's parent for a stranger.
LEMMA StoppingKeeps ==
    ASSUME Distinguished, ScalingInv, Handle, Head(queue).type = "stopping"
    PROVE  ScalingInv'
<1> DEFINE t == Head(queue).thread
           counted == nfParent[myId[t]] = Parent
<1>1. /\ Types /\ LeftLast /\ \A u \in Thread : HandshakeAt(u)
  BY DEF ScalingInv
<1>2. /\ nfStatus' = [nfStatus EXCEPT ![myId[t]] = "stopped"]
      /\ children' = IF counted THEN children - 1 ELSE children
      /\ uncounted' = [uncounted EXCEPT !.stale = IF t \in Stranger /\ counted THEN @ + 1 ELSE @]
      /\ queue # <<>> /\ queue' = Tail(queue)
      /\ UNCHANGED <<nfParent, main, iter, pc, myId>>
  BY DEF Handle, StopNf
<1>3. /\ queue' \in Seq(Message) /\ Once(queue') /\ Head(queue) \in Message
      /\ In(queue, Head(queue))
      /\ \A x : In(queue', x) <=> In(queue, x) /\ x # Head(queue)
  BY <1>1, <1>2, TakeStep
<1>4. /\ t \in Thread
      /\ \A j, u : [type |-> j, thread |-> u] = Head(queue) <=> j = "stopping" /\ u = t
  BY <1>3, Sender
<1> HIDE DEF t
<1>5. /\ \A j, u : Sent(j, u)' <=> Sent(j, u) /\ ~(j = "stopping" /\ u = t)
      /\ Sent("stopping", t)
      /\ In(queue', ParentLeft) => In(queue, ParentLeft)
  BY <1>3, <1>4 DEF Sent
<1>6. pc[t] = "gone" /\ (t \in Child => counted)
  BY <1>1, <1>4, <1>5 DEF HandshakeAt
<1> HIDE DEF counted
<1>7. t \in Child <=> t \notin Stranger
  BY <1>4 DEF Thread, Distinguished
<1>8. /\ uncounted'.lost = uncounted.lost
      /\ uncounted'.stale = uncounted.stale + (IF t \in Stranger /\ counted THEN 1 ELSE 0)
      /\ uncounted.lost \in Nat /\ uncounted.stale \in Nat /\ children \in Int
      /\ uncounted' \in [lost : Nat, stale : Nat] /\ children' \in Int
  BY <1>1, <1>2 DEF Types
<1>9. Types'
  BY <1>1, <1>2, <1>3, <1>8 DEF Types
<1>10. LeftLast' /\ \A u \in Thread : HandshakeAt(u)'
  BY <1>1, <1>2, <1>5 DEF LeftLast, HandshakeAt
<1>11. /\ \A u \in Child : u \in Unhandled' <=> u \in Unhandled /\ u # t
       /\ t \in Child => t \in Unhandled
       /\ Unhandled \subseteq Child /\ Unhandled' \subseteq Child
  BY <1>1, <1>2, <1>3, <1>5, <1>6, Pending, PendingNext DEF Types, Alive
<1>12. ChildrenCounted' /\ LeavesLast'
  <2>1. CASE t \in Child
    <3>1. t \in Unhandled /\ Unhandled' = Unhandled \ {t}
      BY <1>11, <2>1
    <3>2. children' = children + (-1) + (uncounted'.lost - uncounted.lost)
                          - (uncounted'.stale - uncounted.stale)
      BY <1>2, <1>6, <1>7, <1>8, <2>1
    <3>3. uncounted'.stale >= uncounted.stale /\ -1 \in Int /\ main' = main /\ iter' = iter
      BY <1>2, <1>8
    <3>4. QED
      BY <1>9, <3>1, <3>2, <3>3, Recount
  <2>2. CASE t \notin Child
    <3>1. Unhandled' = Unhandled
      BY <1>11, <2>2
    <3>2. children' = children + 0 + (uncounted'.lost - uncounted.lost)
                          - (uncounted'.stale - uncounted.stale)
      BY <1>2, <1>7, <1>8, <2>2
    <3>3. uncounted'.stale >= uncounted.stale /\ 0 \in Int /\ main' = main /\ iter' = iter
      BY <1>2, <1>8
    <3>4. QED
      BY <1>9, <3>1, <3>2, <3>3, Recount
  <2>3. QED
    BY <2>1, <2>2
<1>13. QED
  BY <1>9, <1>10, <1>12 DEF ScalingInv

\* The stop of the parent itself is handled after it has left.
LEMMA ParentStopKeeps ==
    ASSUME Distinguished, ScalingInv, Handle, Head(queue).type = "parent"
    PROVE  ScalingInv'
<1>1. /\ Types /\ LeftLast /\ \A u \in Thread : HandshakeAt(u)
  BY DEF ScalingInv
<1>2. /\ nfStatus' = [nfStatus EXCEPT ![Parent] = "stopped"]
      /\ children' = IF nfParent[Parent] = Parent THEN children - 1 ELSE children
      /\ queue # <<>> /\ queue' = Tail(queue)
      /\ UNCHANGED <<nfParent, main, iter, pc, myId, uncounted>>
  BY DEF Handle, StopNf
<1>3. /\ queue' \in Seq(Message) /\ Once(queue') /\ Head(queue) \in Message
      /\ In(queue, Head(queue))
      /\ \A x : In(queue', x) <=> In(queue, x) /\ x # Head(queue)
  BY <1>1, <1>2, TakeStep
<1>4. Head(queue) = ParentLeft
  BY <1>3 DEF Message
<1>5. main = "left"
  BY <1>1, <1>3, <1>4 DEF LeftLast
<1>6. ASSUME NEW j \in {"starting", "ready", "stopping"}, NEW u
      PROVE  Sent(j, u)' <=> Sent(j, u)
  <2>1. [type |-> j, thread |-> u].type = j /\ ParentLeft.type = "parent"
    BY DEF ParentLeft
  <2>2. [type |-> j, thread |-> u] # ParentLeft
    BY <2>1
  <2>3. QED
    BY <1>3, <1>4, <2>2 DEF Sent
<1>7. children' \in Int
  BY <1>1, <1>2 DEF Types
<1>8. Types' /\ LeftLast'
  BY <1>1, <1>2, <1>3, <1>5, <1>7 DEF Types, LeftLast
<1>9. \A u \in Thread : HandshakeAt(u)'
  BY <1>1, <1>2, <1>6 DEF HandshakeAt
<1>10. \A u \in Child : u \in Unhandled' <=> u \in Unhandled
  BY <1>1, <1>2, <1>3, <1>6, Pending, PendingNext DEF Types, Alive
<1>11. Unhandled' = Unhandled
  BY <1>1, <1>3, <1>10, Pending, PendingNext DEF Types
<1>12. ChildrenCounted' /\ LeavesLast'
  BY <1>2, <1>5, <1>11 DEF ScalingInv, ChildrenCounted, LeavesLast
<1>13. QED
  BY <1>8, <1>9, <1>12 DEF ScalingInv

-----------------------------------------------------------------------------
(* The theorem *)

\* At first there is no child.
LEMMA ScalingInit ==
    ASSUME Distinguished, Init
    PROVE  ScalingInv
<1>1. queue = <<>> /\ Len(queue) = 0 /\ queue \in Seq(Message)
  BY DEF Init
<1>2. \A x : ~In(queue, x)
  BY <1>1 DEF In
<1>3. Once(queue)
  BY <1>1 DEF Once
<1>4. /\ children = 0 /\ main = "run" /\ uncounted.lost = 0 /\ uncounted.stale = 0
      /\ \A t \in Thread : pc[t] = "new"
  BY DEF Init
<1>5. Types
  BY <1>1, <1>3 DEF Init, Types, Place
<1>6. LeftLast /\ \A t \in Thread : HandshakeAt(t)
  BY <1>2, <1>4 DEF LeftLast, HandshakeAt, Sent
<1>7. Unhandled = {}
  BY <1>1, <1>2, <1>4, Pending DEF Alive, Sent, Thread
<1>8. Cardinality(Unhandled) = 0
  BY <1>7, FS_EmptySet
<1>9. ChildrenCounted /\ LeavesLast
  BY <1>4, <1>8 DEF ChildrenCounted, LeavesLast
<1>10. QED
  BY <1>5, <1>6, <1>9 DEF ScalingInv

\* Every step keeps the invariant.
LEMMA ScalingStep ==
    ASSUME Distinguished, ScalingInv, [Next]_vars
    PROVE  ScalingInv'
<1>1. CASE \E t \in Thread : Scale(t) \/ Begin(t)
  BY <1>1, AskKeeps
<1>2. CASE \E t \in Thread : Refused(t)
  BY <1>2, RefusedKeeps
<1>3. CASE \E t \in Thread : Adopt(t)
  BY <1>3, AdoptKeeps
<1>4. CASE \E t \in Thread : Finish(t)
  BY <1>4, FinishKeeps
<1>5. CASE StopMain \/ WaitForChildren \/ Leave
  BY <1>5, ParentKeeps
<1>6. CASE Handle
  <2>1. Head(queue).type \in {"starting", "ready", "stopping", "parent"}
    BY <1>6 DEF Handle
  <2>2. QED
    BY <1>6, <2>1, StartKeeps, ReadyKeeps, StoppingKeeps, ParentStopKeeps
<1>7. CASE UNCHANGED vars
  <2>1. Unhandled' = Unhandled
    BY <1>7 DEF vars, Unhandled, Alive
  <2>2. QED
    BY <1>7, <2>1 DEF vars, ScalingInv, Types, LeftLast, HandshakeAt, Sent, In,
                      ChildrenCounted, LeavesLast
<1>8. QED
  BY <1>1, <1>2, <1>3, <1>4, <1>5, <1>6, <1>7 DEF Next, Thread

\* children_cnt of a parent that is there is the number of children whose stop
\* the manager has not handled, plus those that failed to start, less the stops
\* of strangers that were counted for them; and a parent that leaves before it has
\* used up its rounds leaves no child behind (onvm_nflib_scale,
\* onvm_nflib_start_child, onvm_nflib_terminate_children, onvm_nf_stop).
THEOREM ChildrenKnown ==
    Distinguished => (Spec => [](ChildrenCounted /\ LeavesLast))
<1> SUFFICES ASSUME Distinguished PROVE Spec => [](ChildrenCounted /\ LeavesLast)
  OBVIOUS
<1>1. Init => ScalingInv
  BY ScalingInit
<1>2. ScalingInv /\ [Next]_vars => ScalingInv'
  BY ScalingStep
<1>3. ScalingInv => ChildrenCounted /\ LeavesLast
  BY DEF ScalingInv
<1>4. QED
  BY <1>1, <1>2, <1>3, PTL DEF Spec
=============================================================================

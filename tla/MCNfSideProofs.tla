--------------------------- MODULE MCNfSideProofs ---------------------------
(***************************************************************************)
(* The properties of MCNfSide that hold whatever the constants are, from   *)
(* the invariants of the components (NfSideProofs, ScalingProofs).         *)
(***************************************************************************)
EXTENDS MCNfSide, NfSideProofs

-----------------------------------------------------------------------------
(* Scaling *)

ScaleP == INSTANCE ScalingProofs WITH nfStatus <- v1, nfParent <- v2, children <- v3,
    pc <- v4, myId <- v5, queue <- v6, main <- v7, iter <- v8, uncounted <- v9

\* The module with the proofs has the definitions of the module it extends.
LEMMA SameScaleInit ==
    /\ Scale!Distinguished <=> ScaleP!Distinguished
    /\ Scale!Init <=> ScaleP!Init
BY DEF Scale!Distinguished, ScaleP!Distinguished, Scale!IsFiniteSet, ScaleP!IsFiniteSet,
       Scale!Init, ScaleP!Init, Scale!Id, ScaleP!Id, Scale!Parent, ScaleP!Parent,
       Scale!Thread, ScaleP!Thread

LEMMA SameScaleStep == Scale!Next <=> ScaleP!Next
<1> USE DEF Scale!Goto, ScaleP!Goto, Scale!Send, ScaleP!Send, Scale!Runs, ScaleP!Runs,
            Scale!Parent, ScaleP!Parent
<1>1. ASSUME NEW t
      PROVE  /\ Scale!Scale(t) <=> ScaleP!Scale(t)
             /\ Scale!Begin(t) <=> ScaleP!Begin(t)
             /\ Scale!Refused(t) <=> ScaleP!Refused(t)
             /\ Scale!Adopt(t) <=> ScaleP!Adopt(t)
             /\ Scale!Finish(t) <=> ScaleP!Finish(t)
  BY DEF Scale!Scale, ScaleP!Scale, Scale!Begin, ScaleP!Begin, Scale!Refused, ScaleP!Refused,
         Scale!Adopt, ScaleP!Adopt, Scale!Finish, ScaleP!Finish
<1>2. /\ Scale!StopMain <=> ScaleP!StopMain
      /\ Scale!WaitForChildren <=> ScaleP!WaitForChildren
      /\ Scale!Leave <=> ScaleP!Leave
  BY DEF Scale!StopMain, ScaleP!StopMain, Scale!WaitForChildren, ScaleP!WaitForChildren,
         Scale!Leave, ScaleP!Leave
<1>3. Scale!Idle = ScaleP!Idle
  BY DEF Scale!Idle, ScaleP!Idle, Scale!Id, ScaleP!Id
<1>4. Scale!Min(Scale!Idle) = ScaleP!Min(ScaleP!Idle)
  BY <1>3 DEF Scale!Min, ScaleP!Min
<1>5. ASSUME NEW t
      PROVE  (Scale!Start(t) <=> ScaleP!Start(t)) /\ (Scale!StopNf(t) <=> ScaleP!StopNf(t))
  BY <1>3, <1>4 DEF Scale!Start, ScaleP!Start, Scale!StopNf, ScaleP!StopNf
<1>6. Scale!Handle <=> ScaleP!Handle
  BY <1>5 DEF Scale!Handle, ScaleP!Handle
<1>7. QED
  BY <1>1, <1>2, <1>6 DEF Scale!Next, ScaleP!Next, Scale!Thread, ScaleP!Thread

LEMMA SameCounts ==
    ASSUME ScaleP!ChildrenCounted, ScaleP!LeavesLast
    PROVE  Scale!ChildrenCounted /\ Scale!LeavesLast
<1>1. Scale!Unhandled = ScaleP!Unhandled
  BY DEF Scale!Unhandled, ScaleP!Unhandled, Scale!Alive, ScaleP!Alive
<1>2. Scale!Cardinality(Scale!Unhandled) = ScaleP!Cardinality(ScaleP!Unhandled)
  BY <1>1 DEF Scale!Cardinality, ScaleP!Cardinality
<1>3. QED
  BY <1>1, <1>2 DEF Scale!ChildrenCounted, Scale!LeavesLast, ScaleP!ChildrenCounted,
                    ScaleP!LeavesLast

LEMMA ScaleStepHere ==
    ASSUME ScaleP!ScalingInv, [ScaleP!Next]_(ScaleP!vars)
    PROVE  ScaleP!ScalingInv'
BY ScaleP!ScalingStep, SameScaleInit, ScaleAssumption

\* children_cnt counts the children still to stop, and a parent leaves after them,
\* whatever children start, fail, stop and are signalled, and whatever other NFs
\* take and leave instance ids.
THEOREM ChildrenKnown == SafeAll => []ChildrenCounted
<1> DEFINE Inv == which = "scale" => ScaleP!ScalingInv
<1>1. InitAll => Inv
  BY SameScaleInit, ScaleAssumption, ScaleP!ScalingInit DEF InitAll
<1>2. Inv /\ [NextAll]_all => Inv'
  <2>1. SUFFICES ASSUME Inv, [NextAll]_all, which' = "scale" PROVE ScaleP!ScalingInv'
    OBVIOUS
  <2>2. which = "scale" /\ (Scale!Next \/ UNCHANGED Scale!vars)
    BY <2>1 DEF NextAll, Others, all, parts, Scale!vars
  <2>3. ScaleP!Next \/ UNCHANGED ScaleP!vars
    BY <2>2, SameScaleStep DEF Scale!vars, ScaleP!vars
  <2>4. [ScaleP!Next]_(ScaleP!vars)
    BY <2>3
  <2>5. QED
    BY <2>1, <2>2, <2>4, ScaleStepHere
<1>3. Inv => ChildrenCounted
  BY SameCounts DEF ChildrenCounted, ScaleP!ScalingInv
<1>4. QED
  BY <1>1, <1>2, <1>3, PTL DEF SafeAll

-----------------------------------------------------------------------------
\* A flow keeps its server, and its line in the flow tracker, until it has been silent
\* for the expiry time, whatever the tables, the times and the traffic are.
THEOREM EntriesKept == SafeAll => EntriesStay
<1> DEFINE Inv == (which = "balance" => LbInv) /\ (which = "tracker" => FtInv)
<1>1. InitAll => Inv
  BY LbInit, FtInit DEF InitAll
<1>2. Inv /\ [NextAll]_all
        => Inv' /\ [/\ which = "balance" => Lb!StickyStep
                    /\ which = "tracker" => Ft!SilentStep]_all
  <2>1. SUFFICES ASSUME Inv, [NextAll]_all
                 PROVE  /\ Inv'
                        /\ which = "balance" => Lb!StickyStep
                        /\ which = "tracker" => Ft!SilentStep
    OBVIOUS
  <2>2. which' = which
    BY <2>1 DEF NextAll, Others, all
  <2>3. CASE which = "balance"
    <3>1. [Lb!Next]_(Lb!vars)
      BY <2>1, <2>3 DEF NextAll, Others, all, parts, Lb!vars
    <3>2. QED
      BY <2>1, <2>2, <2>3, <3>1, LbStep
  <2>4. CASE which = "tracker"
    <3>1. [Ft!Next]_(Ft!vars)
      BY <2>1, <2>4 DEF NextAll, Others, all, parts, Ft!vars
    <3>2. QED
      BY <2>1, <2>2, <2>4, <3>1, FtStep
  <2>5. QED
    BY <2>2, <2>3, <2>4
<1>3. QED
  BY <1>1, <1>2, PTL DEF SafeAll, EntriesStay

-----------------------------------------------------------------------------
\* num_stored is the number of the load balancer's entries, the flow tracker's counts are
\* those of the packets, and the firewall decides by the longest rule in force, for
\* tables and rule files of any size.
THEOREM TablesKept == SafeAll => []TablesExact
<1> DEFINE Inv == /\ which = "balance" => LbInv
                  /\ which = "tracker" => FtInv
                  /\ which = "firewall" => FwInv
<1>1. InitAll => Inv
  BY LbInit, FtInit, FwInit DEF InitAll
<1>2. Inv /\ [NextAll]_all => Inv'
  <2>1. SUFFICES ASSUME Inv, [NextAll]_all PROVE Inv'
    OBVIOUS
  <2>2. which' = which
    BY <2>1 DEF NextAll, Others, all
  <2>3. CASE which = "balance"
    <3>1. [Lb!Next]_(Lb!vars)
      BY <2>1, <2>3 DEF NextAll, Others, all, parts, Lb!vars
    <3>2. QED
      BY <2>1, <2>2, <2>3, <3>1, LbStep
  <2>4. CASE which = "tracker"
    <3>1. [Ft!Next]_(Ft!vars)
      BY <2>1, <2>4 DEF NextAll, Others, all, parts, Ft!vars
    <3>2. QED
      BY <2>1, <2>2, <2>4, <3>1, FtStep
  <2>5. CASE which = "firewall"
    <3>1. [Fw!Next]_(Fw!vars)
      BY <2>1, <2>5 DEF NextAll, Others, all, parts, Fw!vars
    <3>2. QED
      BY <2>1, <2>2, <2>5, <3>1, FwStep
  <2>6. QED
    BY <2>2, <2>3, <2>4, <2>5
<1>3. Inv => TablesExact
  BY SameSize DEF TablesExact, LbInv, FtInv, FwInv, Lb!StoredExact
<1>4. QED
  BY <1>1, <1>2, <1>3, PTL DEF SafeAll

-----------------------------------------------------------------------------
\* For any number of NFs, buffers and requests: the pool and the rings hold the buffers
\* the pool was created with, but for those put twice, put in error or lost; and while
\* none was put twice or in error, an NF that waits has its request in the queue of the
\* manager, unless its answer came before the waiting status was written.
THEOREM RequestsKept == SafeAll => []RequestsAnswered
<1> DEFINE Inv == which = "request" => ReqInv
<1>1. InitAll => Inv
  BY ReqInit DEF InitAll
<1>2. Inv /\ [NextAll]_all => Inv'
  <2>1. SUFFICES ASSUME Inv, [NextAll]_all PROVE Inv'
    OBVIOUS
  <2>2. which' = which
    BY <2>1 DEF NextAll, Others, all
  <2>3. CASE which = "request"
    <3>1. [Req!Next]_(Req!vars)
      BY <2>1, <2>3 DEF NextAll, Others, all, parts, Req!vars
    <3>2. QED
      BY <2>1, <2>2, <2>3, <3>1, ReqStep
  <2>4. QED
    BY <2>2, <2>3
<1>3. Inv => RequestsAnswered
  BY ReqChecked DEF RequestsAnswered
<1>4. QED
  BY <1>1, <1>2, <1>3, PTL DEF SafeAll

\* Entries of the flow director have a live chain of their own, a flow whose hashes agree is
\* found in one entry, and chains below the limit are walked as they were built, for
\* every number of flows, positions and chains, every limit and every list of
\* destinations (onvm_flow_dir.c, onvm_ft_lookup_pkt, onvm_sc_append_entry).
THEOREM DirectorKept == SafeAll => []FlowsFound
<1> DEFINE Inv == which = "flow" => FdInv
<1>1. InitAll => Inv
  BY FdInit, ChainAssumption DEF InitAll
<1>2. Inv /\ [NextAll]_all => Inv'
  <2>1. SUFFICES ASSUME Inv, [NextAll]_all, which' = "flow" PROVE FdInv'
    OBVIOUS
  <2>2. which = "flow" /\ (Director!Next \/ UNCHANGED Director!vars)
    BY <2>1 DEF NextAll, Others, all, parts, Director!vars
  <2>3. [Director!Next]_(Director!vars)
    BY <2>2
  <2>4. QED
    BY <2>1, <2>2, <2>3, FdStep, ChainAssumption
<1>3. Inv => FlowsFound
  BY FdChecked, ChainAssumption DEF FlowsFound
<1>4. QED
  BY <1>1, <1>2, <1>3, PTL DEF SafeAll

-----------------------------------------------------------------------------
\* Whatever is lost, cleared or sent by others, every message buffer is in the pool or in
\* the ring; the NF that tests messages counts as passed the tests that it marked, as
\* long as no time limit passed, and all three when nobody else sent to it: for any
\* pool, ring and number of messages (examples/test_messaging).
THEOREM ReportsKept == SafeAll => []TestReports
<1> DEFINE Inv == which = "messaging" => MsgInv
<1>1. InitAll => Inv
  BY MsgInit DEF InitAll
<1>2. Inv /\ [NextAll]_all => Inv'
  <2>1. SUFFICES ASSUME Inv, [NextAll]_all, which' = "messaging" PROVE MsgInv'
    OBVIOUS
  <2>2. which = "messaging" /\ (Msg!Next \/ UNCHANGED Msg!vars)
    BY <2>1 DEF NextAll, Others, all, parts, Msg!vars
  <2>3. [Msg!Next]_(Msg!vars)
    BY <2>2
  <2>4. QED
    BY <2>1, <2>2, <2>3, MsgStep
<1>3. Inv => TestReports
  BY MsgChecked DEF TestReports
<1>4. QED
  BY <1>1, <1>2, <1>3, PTL DEF SafeAll

-----------------------------------------------------------------------------
\* What comes back goes to where the traffic came from, for any addresses, ports, tables and
\* port masks: a client of the load balancer, the host whose packet had NAPT's port first,
\* the asker behind the firewalls and DNSAM, the partner port of l2fwd and the bridge, the
\* port of an ARP request; and the headers are those of the port a packet leaves by.
THEOREM RepliesKept == SafeAll => []RepliesReturn
<1> DEFINE Inv == /\ which = "balance" => LbInv
                  /\ which = "nfd" => NfdInv
                  /\ which = "ports" => FwdInv
<1>1. InitAll => Inv
  BY LbInit, NfdInit, FwdInit DEF InitAll
<1>2. Inv /\ [NextAll]_all => Inv'
  <2>1. SUFFICES ASSUME Inv, [NextAll]_all PROVE Inv'
    OBVIOUS
  <2>2. which' = which
    BY <2>1 DEF NextAll, Others, all
  <2>3. CASE which = "balance"
    <3>1. [Lb!Next]_(Lb!vars)
      BY <2>1, <2>3 DEF NextAll, Others, all, parts, Lb!vars
    <3>2. QED
      BY <2>1, <2>2, <2>3, <3>1, LbStep
  <2>4. CASE which = "nfd"
    <3>1. Nfd!Next \/ UNCHANGED Nfd!vars
      BY <2>1, <2>4 DEF NextAll, Others, all, parts, Nfd!vars
    <3>2. [Nfd!Next]_(Nfd!vars)
      BY <3>1
    <3>3. QED
      BY <2>1, <2>2, <2>4, <3>2, NfdStep
  <2>5. CASE which = "ports"
    <3>1. Fwd!Next \/ UNCHANGED Fwd!vars
      BY <2>1, <2>5 DEF NextAll, Others, all, parts, Fwd!vars
    <3>2. [Fwd!Next]_(Fwd!vars)
      BY <3>1
    <3>3. QED
      BY <2>1, <2>2, <2>5, <3>2, FwdStep
  <2>6. QED
    BY <2>2, <2>3, <2>4, <2>5
<1>3. Inv => RepliesReturn
  BY NfdChecked, FwdChecked DEF RepliesReturn, LbInv
<1>4. QED
  BY <1>1, <1>2, <1>3, PTL DEF SafeAll

-----------------------------------------------------------------------------
\* For any rate, bucket and timer, and wherever the product of the times wraps around, the token
\* bucket forwards no more than the rate made and at most two buckets at one time; and the
\* NFs of NFD let no source exceed their limits, for any threshold and addresses.
THEOREM LimitsStay == SafeAll => []LimitsKept
<1> DEFINE Inv == /\ which = "bucket" => TbInv
                  /\ which = "nfd" => NfdInv
<1>1. InitAll => Inv
  BY TbInit, NfdInit DEF InitAll
<1>2. Inv /\ [NextAll]_all => Inv'
  <2>1. SUFFICES ASSUME Inv, [NextAll]_all PROVE Inv'
    OBVIOUS
  <2>2. which' = which
    BY <2>1 DEF NextAll, Others, all
  <2>3. CASE which = "bucket"
    <3>1. Tb!Next \/ UNCHANGED Tb!vars
      BY <2>1, <2>3 DEF NextAll, Others, all, parts, Tb!vars
    <3>2. [Tb!Next]_(Tb!vars)
      BY <3>1
    <3>3. QED
      BY <2>1, <2>2, <2>3, <3>2, TbStep
  <2>4. CASE which = "nfd"
    <3>1. Nfd!Next \/ UNCHANGED Nfd!vars
      BY <2>1, <2>4 DEF NextAll, Others, all, parts, Nfd!vars
    <3>2. [Nfd!Next]_(Nfd!vars)
      BY <3>1
    <3>3. QED
      BY <2>1, <2>2, <2>4, <3>2, NfdStep
  <2>5. QED
    BY <2>2, <2>3, <2>4
<1>3. Inv => LimitsKept
  BY TbChecked, NfdChecked DEF LimitsKept
<1>4. QED
  BY <1>1, <1>2, <1>3, PTL DEF SafeAll

-----------------------------------------------------------------------------
(* Fair queue *)

FqIds == 0 .. NumQueues - 1
FqPlaces == 0 .. FqSize - 1
FqRecord == [head : FqPlaces, tail : FqPlaces, pkts : [FqPlaces -> Nat]]

\* The place i after h in the array, and what is there in a queue.
FqPlace(h, i) == IF h + i < FqSize THEN h + i ELSE h + i - FqSize
FqAt(m, i) == m.pkts[FqPlace(m.head, i)]

\* The number of a queue behind x, and how far it is from x to q.
FqNext(x) == IF x + 1 = NumQueues THEN 0 ELSE x + 1
FqFar(x, q) == IF q >= x THEN q - x ELSE q + NumQueues - x

\* Queue q has c packets, all of flow q and none later than d, in their order.
Holds(m, q, c, d) ==
    /\ m.tail = FqPlace(m.head, c)
    /\ \A i \in FqPlaces : IF i < c THEN FqAt(m, i) \in 1 .. d /\ QueueOf[FqAt(m, i)] = q
                           ELSE FqAt(m, i) = 0
    /\ \A i, j \in FqPlaces : i < j /\ j < c => FqAt(m, i) < FqAt(m, j)

LEMMA FqSizes ==
    /\ NumQueues \in Nat /\ NumQueues >= 1 /\ FqSize \in Nat /\ FqSize >= 1
    /\ Len(QueueOf) \in Nat /\ \A p \in 1 .. Len(QueueOf) : QueueOf[p] \in FqIds \cup {-1}
<1>1. QueueOf \in Seq((0 .. NumQueues - 1) \cup {-1})
  BY QueueAssumption
<1>2. Len(QueueOf) \in Nat /\ \A p \in 1 .. Len(QueueOf) : QueueOf[p] \in (0 .. NumQueues - 1) \cup {-1}
  BY <1>1
<1>3. QED
  BY <1>2, QueueAssumption DEF FqIds

LEMMA Wrapped ==
    ASSUME NEW n \in Nat, n >= 1, NEW x \in 0 .. (2 * n - 1)
    PROVE  x % n = IF x < n THEN x ELSE x - n
<1>1. CASE x < n
  BY <1>1
<1>2. CASE x >= n
  <2>1. PICK y \in 0 .. (n - 1) : x = y + n
    <3>1. x - n \in 0 .. (n - 1) /\ x = (x - n) + n
      BY <1>2
    <3>2. QED
      BY <3>1
  <2>2. (y + n) % n = y
    BY <2>1
  <2>3. QED
    BY <1>2, <2>1, <2>2
<1>3. QED
  BY <1>1, <1>2

\* The remainders of the code.
LEMMA FqWrap ==
    /\ \A h \in FqPlaces, i \in 0 .. FqSize :
          FqPlace(h, i) \in FqPlaces /\ (h + i) % FqSize = FqPlace(h, i)
    /\ \A x \in FqIds : FqNext(x) \in FqIds /\ (x + 1) % NumQueues = FqNext(x)
<1>1. FqSize \in Nat /\ FqSize >= 1 /\ NumQueues \in Nat /\ NumQueues >= 1
  BY FqSizes
<1>2. ASSUME NEW h \in FqPlaces, NEW i \in 0 .. FqSize
      PROVE  FqPlace(h, i) \in FqPlaces /\ (h + i) % FqSize = FqPlace(h, i)
  <2>1. PICK y \in 0 .. (2 * FqSize - 1) : y = h + i
    BY <1>1, <1>2 DEF FqPlaces
  <2>2. y % FqSize = IF y < FqSize THEN y ELSE y - FqSize
    BY <1>1, <2>1, Wrapped
  <2>3. QED
    BY <1>1, <2>1, <2>2 DEF FqPlace, FqPlaces
<1>3. ASSUME NEW x \in FqIds
      PROVE  FqNext(x) \in FqIds /\ (x + 1) % NumQueues = FqNext(x)
  <2>1. PICK y \in 0 .. (2 * NumQueues - 1) : y = x + 1
    BY <1>1, <1>3 DEF FqIds
  <2>2. y % NumQueues = IF y < NumQueues THEN y ELSE y - NumQueues
    BY <1>1, <2>1, Wrapped
  <2>3. QED
    BY <1>1, <1>3, <2>1, <2>2 DEF FqNext, FqIds
<1>4. QED
  BY <1>2, <1>3

\* Different distances are different places.
LEMMA FqApart ==
    ASSUME NEW h \in FqPlaces, NEW i \in FqPlaces, NEW j \in FqPlaces, i # j
    PROVE  FqPlace(h, i) # FqPlace(h, j)
BY FqSizes DEF FqPlace, FqPlaces

FqPutIn(m, p) == [m EXCEPT !.pkts[m.tail] = p, !.tail = (@ + 1) % FqSize]
FqTakeOut(m) == [m EXCEPT !.pkts[m.head] = 0, !.head = (@ + 1) % FqSize]

\* A packet is put behind the others.
LEMMA PutHolds ==
    ASSUME NEW m \in FqRecord, NEW q \in FqIds, NEW c \in FqPlaces, NEW d \in Nat,
           Holds(m, q, c, d), QueueOf[d + 1] = q,
           NEW e, e = FqPutIn(m, d + 1)
    PROVE  /\ e \in FqRecord /\ Holds(e, q, c + 1, d + 1)
           /\ \A j \in FqPlaces : FqAt(e, j) = IF j = c THEN d + 1 ELSE FqAt(m, j)
<1>1. PICK h \in FqPlaces, t \in FqPlaces : h = m.head /\ t = m.tail
  BY DEF FqRecord
<1>2. m.pkts \in [FqPlaces -> Nat] /\ FqSize \in Nat /\ FqSize >= 1
  BY FqSizes DEF FqRecord
<1>3. (t + 1) % FqSize = FqPlace(h, c + 1) /\ FqPlace(h, c + 1) \in FqPlaces
  <2>1. t = FqPlace(h, c)
    BY <1>1 DEF Holds
  <2>2. 1 \in 0 .. FqSize /\ c + 1 \in 0 .. FqSize /\ c \in Nat /\ c < FqSize /\ h \in Nat /\ h < FqSize
    BY <1>2 DEF FqPlaces
  <2>3. (t + 1) % FqSize = FqPlace(t, 1)
    BY <1>1, <2>2, FqWrap
  <2>4. FqPlace(t, 1) = FqPlace(h, c + 1)
    BY <1>2, <2>1, <2>2 DEF FqPlace
  <2>5. QED
    BY <1>1, <2>2, <2>3, <2>4, FqWrap
<1>4. /\ e.head = h /\ e.tail = FqPlace(h, c + 1)
      /\ e.pkts = [m.pkts EXCEPT ![t] = d + 1]
  BY <1>1, <1>3 DEF FqRecord, FqPutIn
<1>5. e \in FqRecord
  <2>1. d + 1 \in Nat /\ (t + 1) % FqSize \in FqPlaces
    BY <1>3
  <2>2. QED
    BY <1>1, <1>2, <2>1 DEF FqRecord, FqPutIn
<1>6. ASSUME NEW j \in FqPlaces PROVE FqAt(e, j) = IF j = c THEN d + 1 ELSE FqAt(m, j)
  <2>1. t = FqPlace(h, c) /\ FqPlace(h, j) \in FqPlaces
    <3>1. j \in 0 .. FqSize
      BY <1>2, <1>6 DEF FqPlaces
    <3>2. QED
      BY <1>1, <3>1, FqWrap DEF Holds
  <2>2. j # c => FqPlace(h, j) # t
    BY <1>1, <2>1, FqApart
  <2>3. e.pkts[FqPlace(h, j)] = IF FqPlace(h, j) = t THEN d + 1 ELSE m.pkts[FqPlace(h, j)]
    BY <1>2, <1>4, <2>1
  <2>4. QED
    BY <1>1, <1>4, <2>1, <2>2, <2>3 DEF FqAt
<1>7. Holds(e, q, c + 1, d + 1)
  <2>1. e.tail = FqPlace(e.head, c + 1)
    BY <1>4
  <2>2. ASSUME NEW i \in FqPlaces
        PROVE  IF i < c + 1 THEN FqAt(e, i) \in 1 .. d + 1 /\ QueueOf[FqAt(e, i)] = q
               ELSE FqAt(e, i) = 0
    <3>1. i \in Int /\ c \in Int
      BY DEF FqPlaces
    <3>2. CASE i = c
      BY <1>6, <3>1, <3>2
    <3>3. CASE i < c
      <4>1. FqAt(m, i) \in 1 .. d /\ QueueOf[FqAt(m, i)] = q
        BY <3>3 DEF Holds
      <4>2. FqAt(e, i) = FqAt(m, i)
        BY <1>6, <3>1, <3>3
      <4>3. QED
        BY <3>1, <3>3, <4>1, <4>2
    <3>4. CASE i > c
      <4>1. FqAt(m, i) = 0
        BY <3>1, <3>4 DEF Holds
      <4>2. FqAt(e, i) = FqAt(m, i)
        BY <1>6, <3>1, <3>4
      <4>3. QED
        BY <3>1, <3>4, <4>1, <4>2
    <3>5. QED
      BY <3>1, <3>2, <3>3, <3>4
  <2>3. ASSUME NEW i \in FqPlaces, NEW j \in FqPlaces, i < j, j < c + 1
        PROVE  FqAt(e, i) < FqAt(e, j)
    <3>1. i \in Int /\ j \in Int /\ c \in Int
      BY DEF FqPlaces
    <3>2. i < c /\ FqAt(e, i) = FqAt(m, i) /\ FqAt(m, i) \in 1 .. d
      BY <1>6, <2>3, <3>1 DEF Holds
    <3>3. CASE j = c
      BY <1>6, <3>2, <3>3
    <3>4. CASE j < c
      BY <1>6, <2>3, <3>1, <3>2, <3>4 DEF Holds
    <3>5. QED
      BY <2>3, <3>1, <3>3, <3>4
  <2>4. QED
    BY <2>1, <2>2, <2>3 DEF Holds
<1>8. QED
  BY <1>5, <1>6, <1>7

\* The first packet is taken out.
LEMMA TakeHolds ==
    ASSUME NEW m \in FqRecord, NEW q \in FqIds, NEW c \in 1 .. FqSize, NEW d \in Nat,
           Holds(m, q, c, d),
           NEW e, e = FqTakeOut(m)
    PROVE  /\ e \in FqRecord /\ Holds(e, q, c - 1, d)
           /\ \A j \in FqPlaces : FqAt(e, j) = IF j = FqSize - 1 THEN 0 ELSE FqAt(m, j + 1)
<1>1. PICK h \in FqPlaces, t \in FqPlaces : h = m.head /\ t = m.tail
  BY DEF FqRecord
<1>2. m.pkts \in [FqPlaces -> Nat] /\ FqSize \in Nat /\ FqSize >= 1 /\ h \in Nat /\ h < FqSize
  BY <1>1, FqSizes DEF FqRecord, FqPlaces
<1>3. PICK g \in FqPlaces : g = FqPlace(h, 1) /\ (h + 1) % FqSize = g
  <2>1. 1 \in 0 .. FqSize
    BY <1>2
  <2>2. QED
    BY <1>1, <2>1, FqWrap
<1>4. e.head = g /\ e.tail = t /\ e.pkts = [m.pkts EXCEPT ![h] = 0]
  BY <1>1, <1>3 DEF FqRecord, FqTakeOut
<1>5. e \in FqRecord
  <2>1. 0 \in Nat /\ (h + 1) % FqSize \in FqPlaces
    BY <1>3
  <2>2. QED
    BY <1>1, <1>2, <2>1 DEF FqRecord, FqTakeOut
<1>6. ASSUME NEW j \in FqPlaces PROVE FqAt(e, j) = IF j = FqSize - 1 THEN 0 ELSE FqAt(m, j + 1)
  <2>1. j \in Nat /\ j < FqSize
    BY <1>2, <1>6 DEF FqPlaces
  <2>2. CASE j = FqSize - 1
    <3>1. FqPlace(g, j) = h
      BY <1>2, <1>3, <2>1, <2>2 DEF FqPlace
    <3>2. QED
      BY <1>1, <1>2, <1>4, <2>2, <3>1 DEF FqAt
  <2>3. CASE j # FqSize - 1
    <3>1. FqPlace(g, j) = FqPlace(h, j + 1) /\ FqPlace(h, j + 1) # h
      <4>1. g = IF h + 1 < FqSize THEN h + 1 ELSE h + 1 - FqSize
        BY <1>3 DEF FqPlace
      <4>2. FqSize \in Nat /\ h \in Nat /\ h < FqSize /\ j \in Nat /\ j + 1 < FqSize
        BY <1>2, <2>1, <2>3
      <4>3. CASE h + 1 < FqSize
        <5>1. g = h + 1
          BY <4>1, <4>3
        <5>2. QED
          BY <4>2, <5>1 DEF FqPlace
      <4>4. CASE h + 1 = FqSize
        BY <4>1, <4>2, <4>4 DEF FqPlace
      <4>5. QED
        BY <4>2, <4>3, <4>4
    <3>2. FqPlace(h, j + 1) \in FqPlaces
      <4>1. j + 1 \in 0 .. FqSize
        BY <1>2, <2>1
      <4>2. QED
        BY <1>1, <4>1, FqWrap
    <3>3. QED
      BY <1>1, <1>2, <1>4, <2>3, <3>1, <3>2 DEF FqAt
  <2>4. QED
    BY <2>2, <2>3
<1>7. c \in Nat /\ c >= 1 /\ c <= FqSize
  BY <1>2
<1>8. Holds(e, q, c - 1, d)
  <2>1. e.tail = FqPlace(e.head, c - 1)
    <3>1. t = FqPlace(h, c)
      BY <1>1 DEF Holds
    <3>2. FqPlace(g, c - 1) = FqPlace(h, c)
      BY <1>2, <1>3, <1>7 DEF FqPlace
    <3>3. QED
      BY <1>4, <3>1, <3>2
  <2>2. ASSUME NEW i \in FqPlaces
        PROVE  IF i < c - 1 THEN FqAt(e, i) \in 1 .. d /\ QueueOf[FqAt(e, i)] = q
               ELSE FqAt(e, i) = 0
    <3>1. i \in Nat /\ i < FqSize
      BY <1>2 DEF FqPlaces
    <3>2. CASE i = FqSize - 1
      BY <1>2, <1>6, <1>7, <3>1, <3>2
    <3>3. CASE i # FqSize - 1
      <4>1. i + 1 \in FqPlaces /\ FqAt(e, i) = FqAt(m, i + 1)
        <5>1. i + 1 \in FqPlaces
          BY <1>2, <3>1, <3>3 DEF FqPlaces
        <5>2. QED
          BY <1>6, <3>3, <5>1
      <4>2. IF i + 1 < c THEN FqAt(m, i + 1) \in 1 .. d /\ QueueOf[FqAt(m, i + 1)] = q
            ELSE FqAt(m, i + 1) = 0
        BY <4>1 DEF Holds
      <4>3. i < c - 1 <=> i + 1 < c
        BY <1>7, <3>1
      <4>4. QED
        BY <4>1, <4>2, <4>3
    <3>4. QED
      BY <3>2, <3>3
  <2>3. ASSUME NEW i \in FqPlaces, NEW j \in FqPlaces, i < j, j < c - 1
        PROVE  FqAt(e, i) < FqAt(e, j)
    <3>0. i \in Nat /\ j \in Nat /\ j < FqSize
      BY <1>2 DEF FqPlaces
    <3>1. i \in Nat /\ j \in Nat /\ j < FqSize /\ i + 1 \in FqPlaces /\ j + 1 \in FqPlaces
      BY <1>2, <1>7, <2>3, <3>0 DEF FqPlaces
    <3>2. i # FqSize - 1 /\ j # FqSize - 1 /\ i + 1 < j + 1 /\ j + 1 < c
      BY <1>2, <1>7, <2>3, <3>1
    <3>3. FqAt(e, i) = FqAt(m, i + 1) /\ FqAt(e, j) = FqAt(m, j + 1)
      BY <1>6, <3>2
    <3>4. FqAt(m, i + 1) < FqAt(m, j + 1)
      BY <3>1, <3>2 DEF Holds
    <3>5. QED
      BY <3>3, <3>4
  <2>4. QED
    BY <2>1, <2>2, <2>3 DEF Holds
<1>9. QED
  BY <1>5, <1>6, <1>8

\* The packets of its burst are the last ones that arrived; Done are those before.
Done == v6 - Len(v1.burst)

FqRxRecord == [burst : Seq(Nat), drop : Seq(Nat), runs : BOOLEAN]
FqTxRecord == [at : {"top", "scan", "dequeue", "gone"}, qid : FqIds, start : FqIds, batch : Seq(Nat)]

FqTypes ==
    /\ v6 \in 0 .. Len(QueueOf)
    /\ v1 \in FqRxRecord
    /\ Len(v1.burst) <= v6 /\ \A i \in 1 .. Len(v1.burst) : v1.burst[i] = Done + i
    /\ v2 \in FqTxRecord
    /\ v3 \in [FqIds -> FqRecord] /\ v4 \in [FqIds -> {"none", "rx"}]
    /\ v8 \in [FqIds -> Nat] /\ v9 \in Seq(Nat) /\ v10 \in [FqIds -> Nat]

\* Queues and history hold packets that were sorted, in order, the queues after the history.
FqQueues(fq, d) == \A q \in FqIds : \E c \in 0 .. FqSize : Holds(fq[q], q, c, d)
FqGone(out, d) ==
    /\ \A i \in DOMAIN out : out[i] \in 1 .. d
    /\ \A i, j \in DOMAIN out : i < j /\ QueueOf[out[i]] = QueueOf[out[j]] => out[i] < out[j]
FqAfter(fq, out) ==
    \A q \in FqIds, j \in FqPlaces, i \in DOMAIN out :
        FqAt(fq[q], j) # 0 /\ QueueOf[out[i]] = q => out[i] < FqAt(fq[q], j)

FqOrder == FqQueues(v3, Done) /\ FqGone(v9, Done) /\ FqAfter(v3, v9)

\* The child comes to a packet that is still there, and its round goes on behind that queue.
FqChild == v2.at = "dequeue" => FqAt(v3[v2.start], 0) # 0 /\ v2.qid = FqNext(v2.start)

\* A queue that waits has waited for no more queues than the round has passed since.
FqRound ==
    \A q \in FqIds :
        /\ v10[q] = 0 \/ FqAt(v3[q], 0) # 0
        /\ v10[q] <= NumQueues - 1
        /\ v2.at # "dequeue" => v10[q] + FqFar(v2.qid, q) <= NumQueues - 1
        /\ v2.at = "dequeue" /\ q # v2.start => v10[q] + FqFar(v2.qid, q) <= NumQueues - 2

\* A lock that stays is that of a full queue.
FqLocks ==
    \A q \in FqIds : v4[q] # "none" => v8[q] > 0 /\ \A i \in FqPlaces : v3[q].pkts[i] # 0

FqInv == FqTypes /\ FqOrder /\ FqChild /\ FqRound /\ FqLocks

\* The two sets of the module.
LEMMA FqSame == Fq!Qid = FqIds /\ Fq!Places = FqPlaces
BY DEF Fq!Qid, Fq!Places, FqIds, FqPlaces

LEMMA FqPlaceZero ==
    ASSUME NEW m \in FqRecord
    PROVE  FqAt(m, 0) = m.pkts[m.head] /\ 0 \in FqPlaces
BY FqSizes DEF FqAt, FqPlace, FqRecord, FqPlaces

\* What HasPacket and IsFull say of the number of packets.
LEMMA FqCount ==
    ASSUME NEW m \in FqRecord, NEW q, NEW c \in 0 .. FqSize, NEW d, Holds(m, q, c, d)
    PROVE  /\ m.pkts[m.head] # 0 <=> c # 0
           /\ m.head = m.tail /\ m.pkts[m.head] # 0 <=> c = FqSize
<1>1. PICK h \in FqPlaces, t \in FqPlaces : h = m.head /\ t = m.tail
  BY DEF FqRecord
<1>2. FqSize \in Nat /\ FqSize >= 1 /\ c \in Nat /\ c <= FqSize /\ h \in Nat /\ h < FqSize
  BY <1>1, FqSizes DEF FqPlaces
<1>3. 0 \in FqPlaces /\ FqAt(m, 0) = m.pkts[m.head]
  BY FqPlaceZero
<1>4. IF 0 < c THEN FqAt(m, 0) \in 1 .. d ELSE FqAt(m, 0) = 0
  BY <1>3 DEF Holds
<1>5. m.pkts[m.head] # 0 <=> c # 0
  BY <1>2, <1>3, <1>4
<1>6. t = FqPlace(h, c)
  BY <1>1 DEF Holds
<1>7. h = t <=> c = 0 \/ c = FqSize
  BY <1>2, <1>6 DEF FqPlace
<1>8. QED
  BY <1>1, <1>2, <1>5, <1>7

\* Later packets do not matter to a queue.
LEMMA FqLater ==
    ASSUME NEW m, NEW q, NEW c, NEW d \in Nat, NEW k \in Nat, d <= k, Holds(m, q, c, d)
    PROVE  Holds(m, q, c, k)
<1>1. \A i \in FqPlaces : IF i < c THEN FqAt(m, i) \in 1 .. k /\ QueueOf[FqAt(m, i)] = q
                          ELSE FqAt(m, i) = 0
  <2>1. ASSUME NEW i \in FqPlaces
        PROVE  IF i < c THEN FqAt(m, i) \in 1 .. k /\ QueueOf[FqAt(m, i)] = q
               ELSE FqAt(m, i) = 0
    BY DEF Holds
  <2>2. QED
    BY <2>1
<1>2. QED
  BY <1>1 DEF Holds

LEMMA FqInit == Fq!Init => FqInv
<1>1. SUFFICES ASSUME Fq!Init PROVE FqInv
  OBVIOUS
<1>2. /\ v1 = [burst |-> <<>>, drop |-> <<>>, runs |-> TRUE]
      /\ v2 = [at |-> "top", qid |-> 0, start |-> 0, batch |-> <<>>]
      /\ v3 = [q \in FqIds |-> [head |-> 0, tail |-> 0, pkts |-> [i \in FqPlaces |-> 0]]]
      /\ v4 = [q \in FqIds |-> "none"] /\ v6 = 0
      /\ v8 = [q \in FqIds |-> 0] /\ v9 = <<>> /\ v10 = [q \in FqIds |-> 0]
  BY <1>1, FqSame DEF Fq!Init, Fq!Null
<1>3. /\ NumQueues \in Nat /\ NumQueues >= 1 /\ FqSize \in Nat /\ FqSize >= 1 /\ Len(QueueOf) \in Nat
      /\ 0 \in FqIds /\ 0 \in FqPlaces
  BY FqSizes DEF FqIds, FqPlaces
<1>4. Done = 0 /\ Len(v1.burst) = 0
  <2>1. v1.burst = <<>>
    BY <1>2
  <2>2. Len(v1.burst) = 0
    BY <2>1
  <2>3. v6 = 0
    BY <1>2
  <2>4. QED
    BY <2>2, <2>3 DEF Done
<1>5. FqTypes
  <2>0. <<>> \in Seq(Nat)
    OBVIOUS
  <2>1. v1 \in FqRxRecord
    BY <1>2, <2>0 DEF FqRxRecord
  <2>2. v2 \in FqTxRecord
    BY <1>2, <1>3, <2>0 DEF FqTxRecord
  <2>3. v3 \in [FqIds -> FqRecord]
    BY <1>2, <1>3 DEF FqRecord
  <2>4. /\ v4 \in [FqIds -> {"none", "rx"}] /\ v8 \in [FqIds -> Nat] /\ v9 \in Seq(Nat)
        /\ v10 \in [FqIds -> Nat]
    BY <1>2
  <2>5. /\ v6 \in 0 .. Len(QueueOf) /\ Len(v1.burst) <= v6
        /\ \A i \in 1 .. Len(v1.burst) : v1.burst[i] = Done + i
    BY <1>2, <1>3, <1>4
  <2>6. QED
    BY <2>1, <2>2, <2>3, <2>4, <2>5 DEF FqTypes
<1>6. ASSUME NEW q \in FqIds
      PROVE  Holds(v3[q], q, 0, 0) /\ \A j \in FqPlaces : FqAt(v3[q], j) = 0
  <2>1. \A j \in FqPlaces : FqPlace(0, j) = j
    BY <1>3 DEF FqPlace, FqPlaces
  <2>2. v3[q] = [head |-> 0, tail |-> 0, pkts |-> [i \in FqPlaces |-> 0]]
    BY <1>2
  <2>3. v3[q].head = 0 /\ v3[q].tail = 0 /\ v3[q].pkts = [i \in FqPlaces |-> 0]
    BY <2>2
  <2>4. \A j \in FqPlaces : FqAt(v3[q], j) = 0
    BY <2>1, <2>3 DEF FqAt
  <2>5. \A j \in FqPlaces : j \in Nat
    BY <1>3 DEF FqPlaces
  <2>6. v3[q].tail = FqPlace(v3[q].head, 0)
    BY <1>3, <2>1, <2>3
  <2>7. QED
    BY <2>4, <2>5, <2>6 DEF Holds
<1>7. FqOrder
  <2>1. 0 \in 0 .. FqSize /\ DOMAIN v9 = {}
    BY <1>2, <1>3
  <2>2. QED
    BY <1>4, <1>6, <2>1 DEF FqOrder, FqQueues, FqGone, FqAfter
<1>8. FqChild
  BY <1>2 DEF FqChild
<1>9. FqRound
  BY <1>2, <1>3 DEF FqRound, FqFar, FqIds
<1>10. FqLocks
  BY <1>2 DEF FqLocks
<1>11. QED
  BY <1>5, <1>7, <1>8, <1>9, <1>10 DEF FqInv

\* What the types say of the numbers.
LEMMA FqNumbers ==
    ASSUME FqTypes
    PROVE  /\ v6 \in Nat /\ v6 <= Len(QueueOf) /\ Len(v1.burst) \in Nat /\ Done \in Nat /\ Done <= v6
           /\ v1.burst \in Seq(Nat) /\ v1.drop \in Seq(Nat)
           /\ v2.qid \in FqIds /\ v2.start \in FqIds /\ v2.batch \in Seq(Nat)
<1>1. v6 \in Nat /\ v6 <= Len(QueueOf) /\ Len(v1.burst) <= v6
  BY FqSizes DEF FqTypes
<1>2. v1.burst \in Seq(Nat) /\ v1.drop \in Seq(Nat)
  BY DEF FqTypes, FqRxRecord
<1>3. v2.qid \in FqIds /\ v2.start \in FqIds /\ v2.batch \in Seq(Nat)
  BY DEF FqTypes, FqTxRecord
<1>4. Len(v1.burst) \in Nat
  BY <1>2
<1>5. QED
  BY <1>1, <1>2, <1>3, <1>4 DEF Done

\* The first packet of the burst is done with.
LEMMA FqBurst ==
    ASSUME FqTypes, v1.burst # <<>>, v1'.burst = Tail(v1.burst), v1' \in FqRxRecord, v6' = v6
    PROVE  /\ Head(v1.burst) = Done + 1 /\ Done + 1 \in 1 .. Len(QueueOf) /\ Done' = Done + 1
           /\ Len(v1'.burst) <= v6' /\ \A i \in 1 .. Len(v1'.burst) : v1'.burst[i] = Done' + i
<1>1. PICK s \in Seq(Nat) : s = v1.burst /\ s # <<>>
  BY FqNumbers
<1>2. PICK n \in Nat : n = Len(s) /\ n >= 1
  BY <1>1
<1>3. /\ v6 \in Nat /\ v6 <= Len(QueueOf) /\ n <= v6 /\ Done = v6 - n
      /\ \A i \in 1 .. n : s[i] = Done + i
  BY <1>1, <1>2, FqNumbers DEF FqTypes, Done
<1>4. Head(s) = s[1] /\ Len(Tail(s)) = n - 1 /\ \A i \in 1 .. n - 1 : Tail(s)[i] = s[i + 1]
  BY <1>1, <1>2
<1>5. Head(s) = Done + 1 /\ Done + 1 \in 1 .. Len(QueueOf)
  BY <1>2, <1>3, <1>4, FqSizes
<1>6. Len(v1'.burst) = n - 1
  BY <1>1, <1>4
<1>7. Done' = v6' - Len(v1'.burst)
  BY DEF Done
<1>8. Done' = Done + 1
  BY <1>2, <1>3, <1>6, <1>7
<1>9. ASSUME NEW i \in 1 .. n - 1 PROVE v1'.burst[i] = Done' + i
  <2>1. v1'.burst[i] = s[i + 1] /\ i + 1 \in 1 .. n
    BY <1>1, <1>2, <1>4
  <2>2. s[i + 1] = Done + (i + 1)
    BY <1>3, <2>1
  <2>3. Done \in Int /\ i \in Int
    BY <1>2, <1>3
  <2>4. Done + (i + 1) = (Done + 1) + i
    BY <2>3
  <2>5. QED
    BY <1>8, <2>1, <2>2, <2>4
<1>10. QED
  BY <1>1, <1>2, <1>3, <1>5, <1>6, <1>8, <1>9

\* A packet that is not queued changes nothing but the burst.
LEMMA FqDropped ==
    ASSUME FqInv, v1.burst # <<>>, v1'.burst = Tail(v1.burst), v1' \in FqRxRecord,
           UNCHANGED <<v2, v3, v6, v9, v10>>, FqLocks',
           v4' \in [FqIds -> {"none", "rx"}], v8' \in [FqIds -> Nat]
    PROVE  FqInv'
<1>1. /\ Done \in Nat /\ Done' = Done + 1 /\ Len(v1'.burst) <= v6'
      /\ \A i \in 1 .. Len(v1'.burst) : v1'.burst[i] = Done' + i
  BY FqBurst, FqNumbers DEF FqInv
<1>2. FqTypes'
  <2>1. /\ v6' \in 0 .. Len(QueueOf) /\ v2' \in FqTxRecord /\ v3' \in [FqIds -> FqRecord]
        /\ v9' \in Seq(Nat) /\ v10' \in [FqIds -> Nat]
    BY DEF FqInv, FqTypes
  <2>2. QED
    BY <1>1, <2>1 DEF FqTypes
<1>3. FqOrder'
  <2>1. FqQueues(v3, Done')
    <3>1. ASSUME NEW q \in FqIds PROVE \E c \in 0 .. FqSize : Holds(v3[q], q, c, Done')
      <4>1. PICK c \in 0 .. FqSize : Holds(v3[q], q, c, Done)
        BY DEF FqInv, FqOrder, FqQueues
      <4>2. Done' \in Nat /\ Done <= Done'
        BY <1>1
      <4>3. Holds(v3[q], q, c, Done')
        BY <1>1, <4>1, <4>2, FqLater
      <4>4. QED
        BY <4>3
    <3>2. QED
      BY <3>1 DEF FqQueues
  <2>2. FqGone(v9, Done')
    <3>1. \A i \in DOMAIN v9 : v9[i] \in 1 .. Done
      BY DEF FqInv, FqOrder, FqGone
    <3>2. \A i \in DOMAIN v9 : v9[i] \in 1 .. Done'
      BY <1>1, <3>1
    <3>3. QED
      BY <3>2 DEF FqInv, FqOrder, FqGone
  <2>3. FqAfter(v3, v9)
    BY DEF FqInv, FqOrder
  <2>4. v3' = v3 /\ v9' = v9
    OBVIOUS
  <2>5. QED
    BY <2>1, <2>2, <2>3, <2>4 DEF FqOrder
<1>4. FqChild' /\ FqRound'
  BY DEF FqInv, FqChild, FqRound
<1>5. QED
  BY <1>2, <1>3, <1>4 DEF FqInv

\* A queue e that has got the next packet in its place c, everything else as before.
LEMMA FqAdded ==
    ASSUME FqInv, NEW q \in FqIds, NEW e \in FqRecord, NEW c \in FqPlaces,
           Holds(v3[q], q, c, Done), Holds(e, q, c + 1, Done'),
           \A j \in FqPlaces : FqAt(e, j) = IF j = c THEN Done + 1 ELSE FqAt(v3[q], j),
           v3'[q] = e, \A r \in FqIds : r # q => v3'[r] = v3[r], v4[q] = "none",
           Done \in Nat, Done' = Done + 1, FqTypes', UNCHANGED <<v2, v4, v8, v9, v10>>
    PROVE  FqInv'
<1>1. \A r \in FqIds : FqAt(v3[r], 0) # 0 => FqAt(v3'[r], 0) = FqAt(v3[r], 0)
  <2>1. 0 \in FqPlaces
    BY FqPlaceZero
  <2>2. FqAt(v3[q], 0) # 0 => c # 0
    BY <2>1 DEF Holds, FqPlaces
  <2>3. QED
    BY <2>1, <2>2
<1>2. FqOrder'
  <2>1. FqQueues(v3', Done')
    <3>1. ASSUME NEW r \in FqIds PROVE \E k \in 0 .. FqSize : Holds(v3'[r], r, k, Done')
      <4>1. CASE r = q
        <5>1. c + 1 \in 0 .. FqSize
          BY FqSizes DEF FqPlaces
        <5>2. QED
          BY <4>1, <5>1
      <4>2. CASE r # q
        <5>1. PICK k \in 0 .. FqSize : Holds(v3[r], r, k, Done)
          BY DEF FqInv, FqOrder, FqQueues
        <5>2. Done' \in Nat /\ Done <= Done'
          OBVIOUS
        <5>3. Holds(v3[r], r, k, Done')
          BY <5>1, <5>2, FqLater
        <5>4. QED
          BY <4>2, <5>3
      <4>3. QED
        BY <4>1, <4>2
    <3>2. QED
      BY <3>1 DEF FqQueues
  <2>2. \A i \in DOMAIN v9 : v9[i] \in 1 .. Done
    BY DEF FqInv, FqOrder, FqGone
  <2>3. FqGone(v9, Done')
    <3>1. \A i \in DOMAIN v9 : v9[i] \in 1 .. Done'
      BY <2>2
    <3>2. QED
      BY <3>1 DEF FqInv, FqOrder, FqGone
  <2>4. FqAfter(v3', v9)
    <3>1. ASSUME NEW r \in FqIds, NEW j \in FqPlaces, NEW i \in DOMAIN v9,
                 FqAt(v3'[r], j) # 0, QueueOf[v9[i]] = r
          PROVE  v9[i] < FqAt(v3'[r], j)
      <4>1. CASE r = q /\ j = c
        <5>1. FqAt(v3'[r], j) = Done + 1
          BY <4>1
        <5>2. QED
          BY <2>2, <5>1
      <4>2. CASE ~(r = q /\ j = c)
        <5>1. FqAt(v3'[r], j) = FqAt(v3[r], j)
          BY <4>2
        <5>2. QED
          BY <3>1, <5>1 DEF FqInv, FqOrder, FqAfter
      <4>3. QED
        BY <4>1, <4>2
    <3>2. QED
      BY <3>1 DEF FqAfter
  <2>5. v9' = v9
    OBVIOUS
  <2>6. QED
    BY <2>1, <2>3, <2>4, <2>5 DEF FqOrder
<1>3. FqChild'
  <2>1. SUFFICES ASSUME v2.at = "dequeue"
                 PROVE  FqAt(v3'[v2.start], 0) # 0 /\ v2.qid = FqNext(v2.start)
    BY DEF FqChild
  <2>2. v2.start \in FqIds
    BY FqNumbers DEF FqInv
  <2>3. QED
    BY <1>1, <2>1, <2>2 DEF FqInv, FqChild
<1>4. FqRound'
  <2>1. v2' = v2 /\ v10' = v10
    OBVIOUS
  <2>2. \A r \in FqIds : v10[r] = 0 \/ FqAt(v3'[r], 0) # 0
    BY <1>1 DEF FqInv, FqRound
  <2>3. QED
    BY <2>1, <2>2 DEF FqInv, FqRound
<1>5. FqLocks'
  <2>1. v4' = v4 /\ v8' = v8
    OBVIOUS
  <2>2. QED
    BY <2>1 DEF FqInv, FqLocks
<1>6. QED
  BY <1>2, <1>3, <1>4, <1>5 DEF FqInv

\* The packet at the head of the burst is put into its queue.
LEMMA FqPut ==
    ASSUME FqInv, NEW q \in FqIds, v1.burst # <<>>, q = QueueOf[Head(v1.burst)], v4[q] = "none",
           ~(v3[q].head = v3[q].tail /\ v3[q].pkts[v3[q].head] # 0),
           v3' = [v3 EXCEPT ![q] = FqPutIn(v3[q], Head(v1.burst))],
           v1'.burst = Tail(v1.burst), v1' \in FqRxRecord,
           UNCHANGED <<v2, v4, v6, v8, v9, v10>>
    PROVE  FqInv'
<1>1. /\ Done \in Nat /\ Done' = Done + 1 /\ Len(v1'.burst) <= v6' /\ Head(v1.burst) = Done + 1
      /\ \A i \in 1 .. Len(v1'.burst) : v1'.burst[i] = Done' + i
      /\ Done + 1 \in 1 .. Len(QueueOf)
  BY FqBurst, FqNumbers DEF FqInv
<1>2. PICK m \in FqRecord : m = v3[q]
  BY DEF FqInv, FqTypes
<1>3. PICK c \in 0 .. FqSize : Holds(m, q, c, Done)
  BY <1>2 DEF FqInv, FqOrder, FqQueues
<1>4. c \in FqPlaces
  <2>1. c # FqSize
    BY <1>2, <1>3, FqCount
  <2>2. QED
    BY <2>1, FqSizes DEF FqPlaces
<1>5. PICK e : e = FqPutIn(m, Done + 1)
  OBVIOUS
<1>6. /\ e \in FqRecord /\ Holds(e, q, c + 1, Done')
      /\ \A j \in FqPlaces : FqAt(e, j) = IF j = c THEN Done + 1 ELSE FqAt(m, j)
  <2>1. PICK d \in Nat : d = Done
    BY <1>1
  <2>2. QueueOf[d + 1] = q /\ Holds(m, q, c, d)
    BY <1>1, <1>3, <2>1
  <2>3. e = FqPutIn(m, d + 1)
    BY <1>5, <2>1
  <2>4. /\ e \in FqRecord /\ Holds(e, q, c + 1, d + 1)
        /\ \A j \in FqPlaces : FqAt(e, j) = IF j = c THEN d + 1 ELSE FqAt(m, j)
    BY <1>4, <2>1, <2>2, <2>3, PutHolds
  <2>5. QED
    BY <1>1, <2>1, <2>4
<1>7. v3' = [v3 EXCEPT ![q] = e] /\ v3 \in [FqIds -> FqRecord]
  BY <1>1, <1>2, <1>5 DEF FqInv, FqTypes
<1>8. v3' \in [FqIds -> FqRecord] /\ v3'[q] = e /\ \A r \in FqIds : r # q => v3'[r] = v3[r]
  BY <1>6, <1>7
<1>9. FqTypes'
  <2>1. /\ v6' \in 0 .. Len(QueueOf) /\ v2' \in FqTxRecord /\ v4' \in [FqIds -> {"none", "rx"}]
        /\ v8' \in [FqIds -> Nat] /\ v9' \in Seq(Nat) /\ v10' \in [FqIds -> Nat]
    BY DEF FqInv, FqTypes
  <2>2. QED
    BY <1>1, <1>8, <2>1 DEF FqTypes
<1>10. Holds(v3[q], q, c, Done) /\ \A j \in FqPlaces : FqAt(e, j) = IF j = c THEN Done + 1 ELSE FqAt(v3[q], j)
  BY <1>2, <1>3, <1>6
<1>11. UNCHANGED <<v2, v4, v8, v9, v10>>
  OBVIOUS
<1>12. QED
  BY <1>1, <1>4, <1>6, <1>8, <1>9, <1>10, <1>11, FqAdded

\* The round goes on from x to the queue behind it.
LEMMA FqCloser ==
    ASSUME NEW x \in FqIds, NEW q \in FqIds
    PROVE  /\ FqFar(x, q) \in 0 .. NumQueues - 1 /\ FqFar(FqNext(x), q) \in 0 .. NumQueues - 1
           /\ q # x => FqFar(FqNext(x), q) = FqFar(x, q) - 1
           /\ FqFar(x, x) = 0
<1>1. NumQueues \in Nat /\ NumQueues >= 1 /\ x \in Nat /\ x < NumQueues /\ q \in Nat /\ q < NumQueues
  BY FqSizes DEF FqIds
<1>2. CASE x + 1 = NumQueues
  BY <1>1, <1>2 DEF FqFar, FqNext
<1>3. CASE x + 1 # NumQueues
  BY <1>1, <1>3 DEF FqFar, FqNext
<1>4. QED
  BY <1>2, <1>3

\* get_dequeue_qid looks at the next queue.
LEMMA FqScan ==
    ASSUME FqInv, Fq!Scan
    PROVE  FqInv'
<1>1. PICK x \in FqIds : x = v2.qid
  BY FqNumbers DEF FqInv
<1>2. PICK n \in FqIds : n = FqNext(x) /\ (x + 1) % NumQueues = n
  BY FqWrap
<1>3. v3[x] \in FqRecord /\ v2 \in FqTxRecord /\ v10 \in [FqIds -> Nat] /\ NumQueues \in Nat
  BY FqSizes DEF FqInv, FqTypes
<1>4. v2.at = "scan" /\ UNCHANGED <<v1, v3, v4, v6, v8, v9, v10>>
  BY DEF Fq!Scan
<1>5. Fq!HasPacket(x) <=> FqAt(v3[x], 0) # 0
  BY <1>3, FqPlaceZero DEF Fq!HasPacket, Fq!Null
<1>6. v2' = IF FqAt(v3[x], 0) # 0 THEN [v2 EXCEPT !.at = "dequeue", !.qid = n, !.start = x]
            ELSE [v2 EXCEPT !.at = IF n = v2.start THEN "top" ELSE "scan", !.qid = n]
  BY <1>1, <1>2, <1>5 DEF Fq!Scan
<1>7. v2' \in FqTxRecord
  BY <1>3, <1>6 DEF FqTxRecord
<1>8. FqTypes'
  BY <1>4, <1>7 DEF FqInv, FqTypes, Done
<1>9. FqOrder'
  <2>1. Done' = Done
    BY <1>4 DEF Done
  <2>2. QED
    BY <1>4, <2>1 DEF FqInv, FqOrder
<1>10. FqLocks'
  BY <1>4 DEF FqInv, FqLocks
<1>11. v2'.qid = n /\ v2.start \in FqIds
  BY <1>3, <1>6 DEF FqTxRecord
<1>12. ASSUME NEW q \in FqIds
       PROVE  /\ v10[q] = 0 \/ FqAt(v3[q], 0) # 0
              /\ v10[q] \in Nat /\ v10[q] <= NumQueues - 1
              /\ q # x => v10[q] + FqFar(n, q) <= NumQueues - 2
              /\ FqFar(n, q) \in 0 .. NumQueues - 1
  <2>1. /\ v10[q] = 0 \/ FqAt(v3[q], 0) # 0
        /\ v10[q] \in Nat /\ v10[q] <= NumQueues - 1
        /\ v10[q] + FqFar(x, q) <= NumQueues - 1
    BY <1>1, <1>3, <1>4 DEF FqInv, FqRound
  <2>2. /\ FqFar(x, q) \in 0 .. NumQueues - 1 /\ FqFar(n, q) \in 0 .. NumQueues - 1
        /\ q # x => FqFar(n, q) = FqFar(x, q) - 1
    BY <1>2, FqCloser
  <2>3. QED
    BY <1>3, <2>1, <2>2
<1>13. CASE FqAt(v3[x], 0) # 0
  <2>1. v2'.at = "dequeue" /\ v2'.start = x /\ v2'.qid = n
    BY <1>3, <1>6, <1>13 DEF FqTxRecord
  <2>2. FqChild'
    BY <1>2, <1>4, <1>13, <2>1 DEF FqChild
  <2>3. FqRound'
    BY <1>4, <1>12, <2>1 DEF FqRound
  <2>4. QED
    BY <1>8, <1>9, <1>10, <2>2, <2>3 DEF FqInv
<1>14. CASE FqAt(v3[x], 0) = 0
  <2>1. v2'.at # "dequeue" /\ v2'.qid = n
    BY <1>3, <1>6, <1>14 DEF FqTxRecord
  <2>2. FqChild'
    BY <2>1 DEF FqChild
  <2>3. ASSUME NEW q \in FqIds PROVE v10[q] + FqFar(n, q) <= NumQueues - 1
    <3>1. CASE q = x
      <4>1. v10[q] = 0
        BY <1>12, <1>14, <3>1
      <4>2. QED
        BY <1>3, <1>12, <4>1
    <3>2. CASE q # x
      BY <1>3, <1>12, <3>2
    <3>3. QED
      BY <3>1, <3>2
  <2>4. FqRound'
    BY <1>4, <1>12, <2>1, <2>3 DEF FqRound
  <2>5. QED
    BY <1>8, <1>9, <1>10, <2>2, <2>4 DEF FqInv
<1>15. QED
  BY <1>13, <1>14

\* fairqueue_dequeue.
LEMMA FqDequeue ==
    ASSUME FqInv, Fq!Dequeue
    PROVE  FqInv'
<1>1. PICK x \in FqIds : x = v2.start
  BY FqNumbers DEF FqInv
<1>2. PICK m \in FqRecord : m = v3[x]
  BY DEF FqInv, FqTypes
<1>3. PICK p \in Nat : p = m.pkts[m.head]
  BY DEF FqRecord
<1>4. PICK e : e = FqTakeOut(m)
  OBVIOUS
<1>5. /\ v2.at = "dequeue" /\ v4[x] = "none" /\ UNCHANGED <<v1, v4, v6, v8>>
      /\ v9' = Append(v9, p) /\ v3' = [v3 EXCEPT ![x] = e]
  <2>1. /\ v2.at = "dequeue" /\ v4[x] = "none" /\ UNCHANGED <<v1, v4, v6, v8>>
        /\ v9' = Append(v9, p)
    BY <1>1, <1>2, <1>3 DEF Fq!Dequeue
  <2>2. v3' = [v3 EXCEPT ![x] = Fq!Take(x)]
    BY <1>1 DEF Fq!Dequeue
  <2>3. e = Fq!Take(x)
    BY <1>2, <1>4 DEF FqTakeOut, Fq!Take, Fq!Null
  <2>4. QED
    BY <2>1, <2>2, <2>3
<1>6. v10' = [r \in FqIds |-> IF r = x \/ ~Fq!HasPacket(r) THEN 0 ELSE v10[r] + 1]
  BY <1>1, FqSame DEF Fq!Dequeue
<1>7. \/ v2' = [v2 EXCEPT !.at = "top", !.batch = <<>>]
      \/ v2' = [v2 EXCEPT !.at = "top", !.batch = Append(v2.batch, p)]
  BY <1>1, <1>2, <1>3 DEF Fq!Dequeue
<1>8. /\ v2 \in FqTxRecord /\ v2.batch \in Seq(Nat) /\ v3 \in [FqIds -> FqRecord] /\ v9 \in Seq(Nat)
      /\ v10 \in [FqIds -> Nat] /\ Done \in Nat
  BY FqNumbers DEF FqInv, FqTypes
<1>9. v2' \in FqTxRecord /\ v2'.at = "top" /\ v2'.qid = v2.qid
  <2>1. <<>> \in Seq(Nat) /\ Append(v2.batch, p) \in Seq(Nat)
    BY <1>8
  <2>2. QED
    BY <1>7, <1>8, <2>1 DEF FqTxRecord
<1>10. Done' = Done
  BY <1>5 DEF Done
<1>11. PICK c \in 0 .. FqSize : Holds(m, x, c, Done)
  BY <1>2 DEF FqInv, FqOrder, FqQueues
<1>12. FqAt(m, 0) = p /\ p # 0 /\ 0 \in FqPlaces
  BY <1>1, <1>2, <1>3, <1>5, FqPlaceZero DEF FqInv, FqChild
<1>13. c \in 1 .. FqSize
  <2>1. c # 0
    BY <1>3, <1>11, <1>12, FqCount
  <2>2. QED
    BY <2>1
<1>14. /\ e \in FqRecord /\ Holds(e, x, c - 1, Done)
       /\ \A j \in FqPlaces : FqAt(e, j) = IF j = FqSize - 1 THEN 0 ELSE FqAt(m, j + 1)
  BY <1>4, <1>8, <1>11, <1>13, TakeHolds
<1>15. v3' \in [FqIds -> FqRecord] /\ v3'[x] = e /\ \A r \in FqIds : r # x => v3'[r] = v3[r]
  BY <1>5, <1>8, <1>14
<1>16. p \in 1 .. Done /\ QueueOf[p] = x
  BY <1>11, <1>12, <1>13 DEF Holds
<1>17. FqTypes'
  <2>1. \A r \in FqIds : Fq!HasPacket(r) \in BOOLEAN
    BY DEF Fq!HasPacket
  <2>2. v10' \in [FqIds -> Nat]
    BY <1>6, <1>8
  <2>3. v9' \in Seq(Nat)
    BY <1>5, <1>8
  <2>4. /\ v6' \in 0 .. Len(QueueOf) /\ v1' \in FqRxRecord /\ Len(v1'.burst) <= v6'
        /\ \A i \in 1 .. Len(v1'.burst) : v1'.burst[i] = Done' + i
        /\ v4' \in [FqIds -> {"none", "rx"}] /\ v8' \in [FqIds -> Nat]
    BY <1>5, <1>10 DEF FqInv, FqTypes
  <2>5. QED
    BY <1>9, <1>15, <2>2, <2>3, <2>4 DEF FqTypes
<1>18. FqOrder'
  <2>1. FqQueues(v3', Done)
    <3>1. ASSUME NEW r \in FqIds PROVE \E k \in 0 .. FqSize : Holds(v3'[r], r, k, Done)
      <4>1. CASE r = x
        <5>1. c - 1 \in 0 .. FqSize
          BY <1>13, FqSizes
        <5>2. QED
          BY <1>14, <1>15, <4>1, <5>1
      <4>2. CASE r # x
        <5>1. PICK k \in 0 .. FqSize : Holds(v3[r], r, k, Done)
          BY DEF FqInv, FqOrder, FqQueues
        <5>2. QED
          BY <1>15, <4>2, <5>1
      <4>3. QED
        BY <4>1, <4>2
    <3>2. QED
      BY <3>1 DEF FqQueues
  <2>2. /\ Len(v9) \in Nat /\ DOMAIN v9 = 1 .. Len(v9) /\ DOMAIN v9' = 1 .. Len(v9) + 1
        /\ v9'[Len(v9) + 1] = p /\ \A i \in 1 .. Len(v9) : v9'[i] = v9[i]
    BY <1>5, <1>8
  <2>3. \A i \in 1 .. Len(v9) : v9[i] \in 1 .. Done /\ (QueueOf[v9[i]] = x => v9[i] < p)
    BY <1>2, <1>12, <2>2 DEF FqInv, FqOrder, FqGone, FqAfter
  <2>4. FqGone(v9', Done)
    <3>1. ASSUME NEW i \in DOMAIN v9' PROVE v9'[i] \in 1 .. Done
      BY <1>16, <2>2, <2>3
    <3>2. ASSUME NEW i \in DOMAIN v9', NEW j \in DOMAIN v9', i < j, QueueOf[v9'[i]] = QueueOf[v9'[j]]
          PROVE  v9'[i] < v9'[j]
      <4>1. i \in 1 .. Len(v9)
        BY <2>2, <3>2
      <4>2. CASE j = Len(v9) + 1
        BY <1>16, <2>2, <2>3, <3>2, <4>1, <4>2
      <4>3. CASE j # Len(v9) + 1
        <5>1. j \in 1 .. Len(v9)
          BY <2>2, <4>3
        <5>2. QED
          BY <2>2, <3>2, <4>1, <5>1 DEF FqInv, FqOrder, FqGone
      <4>4. QED
        BY <4>2, <4>3
    <3>3. QED
      BY <3>1, <3>2 DEF FqGone
  <2>5. FqAfter(v3', v9')
    <3>1. ASSUME NEW r \in FqIds, NEW j \in FqPlaces, NEW i \in DOMAIN v9',
                 FqAt(v3'[r], j) # 0, QueueOf[v9'[i]] = r
          PROVE  v9'[i] < FqAt(v3'[r], j)
      <4>1. CASE r = x
        <5>1. FqAt(v3'[r], j) = FqAt(m, j + 1) /\ j # FqSize - 1
          BY <1>14, <1>15, <3>1, <4>1
        <5>2. j + 1 \in FqPlaces /\ 0 < j + 1 /\ j + 1 \in Nat
          BY <5>1, FqSizes DEF FqPlaces
        <5>3. j + 1 < c
          BY <1>11, <1>13, <3>1, <5>1, <5>2 DEF Holds
        <5>4. p < FqAt(m, j + 1)
          BY <1>11, <1>12, <5>2, <5>3 DEF Holds
        <5>5. CASE i = Len(v9) + 1
          BY <2>2, <5>1, <5>4, <5>5
        <5>6. CASE i # Len(v9) + 1
          <6>1. i \in DOMAIN v9 /\ v9'[i] = v9[i]
            BY <2>2, <5>6
          <6>2. QED
            BY <1>2, <3>1, <4>1, <5>1, <5>2, <6>1 DEF FqInv, FqOrder, FqAfter
        <5>7. QED
          BY <5>5, <5>6
      <4>2. CASE r # x
        <5>1. i # Len(v9) + 1
          BY <1>16, <2>2, <3>1, <4>2
        <5>2. i \in DOMAIN v9 /\ v9'[i] = v9[i]
          BY <2>2, <5>1
        <5>3. QED
          BY <1>15, <3>1, <4>2, <5>2 DEF FqInv, FqOrder, FqAfter
      <4>3. QED
        BY <4>1, <4>2
    <3>2. QED
      BY <3>1 DEF FqAfter
  <2>6. QED
    BY <1>10, <2>1, <2>4, <2>5 DEF FqOrder
<1>19. FqChild'
  BY <1>9 DEF FqChild
<1>20. FqRound'
  <2>1. v2.qid \in FqIds /\ NumQueues \in Nat /\ NumQueues >= 1
    BY FqNumbers, FqSizes DEF FqInv
  <2>2. ASSUME NEW q \in FqIds
        PROVE  /\ v10'[q] = 0 \/ FqAt(v3'[q], 0) # 0
               /\ v10'[q] <= NumQueues - 1
               /\ v10'[q] + FqFar(v2.qid, q) <= NumQueues - 1
    <3>1. FqFar(v2.qid, q) \in 0 .. NumQueues - 1
      BY <2>1, FqCloser
    <3>2. CASE v10'[q] = 0
      BY <2>1, <3>1, <3>2
    <3>3. CASE v10'[q] # 0
      <4>1. q # x /\ Fq!HasPacket(q) /\ v10'[q] = v10[q] + 1
        BY <1>6, <3>3
      <4>2. v3[q] \in FqRecord /\ v10[q] \in Nat
        BY <1>8
      <4>3. FqAt(v3'[q], 0) # 0
        BY <1>15, <4>1, <4>2, FqPlaceZero DEF Fq!HasPacket, Fq!Null
      <4>4. v10[q] + FqFar(v2.qid, q) <= NumQueues - 2
        BY <1>1, <1>5, <4>1 DEF FqInv, FqRound
      <4>5. QED
        BY <2>1, <3>1, <4>1, <4>2, <4>3, <4>4
    <3>4. QED
      BY <3>2, <3>3
  <2>3. QED
    BY <1>9, <2>2 DEF FqRound
<1>21. FqLocks'
  BY <1>5, <1>15 DEF FqInv, FqLocks
<1>22. QED
  BY <1>17, <1>18, <1>19, <1>20, <1>21 DEF FqInv

LEMMA FqEnqueue ==
    ASSUME FqInv, Fq!Enqueue
    PROVE  FqInv'
<1>1. PICK p : p = Head(v1.burst)
  OBVIOUS
<1>2. /\ v1.burst # <<>> /\ UNCHANGED <<v2, v6, v9, v10>>
      /\ v1 \in FqRxRecord /\ v1.burst \in Seq(Nat) /\ v1.drop \in Seq(Nat)
      /\ v4 \in [FqIds -> {"none", "rx"}] /\ v8 \in [FqIds -> Nat]
  BY FqNumbers DEF Fq!Enqueue, FqInv, FqTypes
<1>3. p \in Nat /\ Tail(v1.burst) \in Seq(Nat)
  BY <1>1, <1>2
<1>4. QueueOf[p] \in FqIds \cup {-1}
  <2>1. PICK r : r = [v1 EXCEPT !.burst = Tail(@)]
    OBVIOUS
  <2>2. Done \in Nat /\ Done + 1 \in 1 .. Len(QueueOf) /\ p = Done + 1
    <3>1. PICK s \in Seq(Nat) : s = v1.burst /\ s # <<>>
      BY <1>2
    <3>2. Len(s) \in Nat /\ Len(s) >= 1 /\ Head(s) = s[1]
      BY <3>1
    <3>3. /\ v6 \in Nat /\ v6 <= Len(QueueOf) /\ Len(s) <= v6 /\ Done = v6 - Len(s)
          /\ \A i \in 1 .. Len(s) : s[i] = Done + i
      BY <3>1, FqNumbers DEF FqInv, FqTypes, Done
    <3>4. PICK n \in Nat, l \in Nat : n = Len(s) /\ l = Len(QueueOf)
      BY <3>2, FqSizes
    <3>5. n >= 1 /\ n <= v6 /\ v6 <= l /\ Done = v6 - n /\ v6 \in Nat
      BY <3>2, <3>3, <3>4
    <3>6. Done \in Nat /\ Done + 1 \in 1 .. l
      BY <3>5
    <3>7. s[1] = Done + 1
      <4>1. 1 \in 1 .. Len(s)
        BY <3>4, <3>5
      <4>2. QED
        BY <3>3, <4>1
    <3>8. p = s[1]
      BY <1>1, <3>1, <3>2
    <3>9. QED
      BY <3>4, <3>6, <3>7, <3>8
  <2>3. QED
    BY <2>2, FqSizes
<1>5. ASSUME Fq!RxDrop(p) PROVE v1'.burst = Tail(v1.burst) /\ v1' \in FqRxRecord
  <2>1. \/ v1' = [v1 EXCEPT !.burst = Tail(@), !.drop = <<>>]
        \/ v1' = [v1 EXCEPT !.burst = Tail(@), !.drop = Append(v1.drop, p)]
    BY <1>5 DEF Fq!RxDrop
  <2>2. <<>> \in Seq(Nat) /\ Append(v1.drop, p) \in Seq(Nat)
    BY <1>2, <1>3
  <2>3. QED
    BY <1>2, <1>3, <2>1, <2>2 DEF FqRxRecord
<1>6. CASE QueueOf[p] = -1
  <2>1. Fq!RxDrop(p) /\ UNCHANGED <<v3, v4, v8>>
    BY <1>1, <1>6 DEF Fq!Enqueue
  <2>2. FqLocks'
    BY <2>1 DEF FqInv, FqLocks
  <2>3. QED
    BY <1>2, <1>5, <2>1, <2>2, FqDropped
<1>7. ASSUME NEW q \in FqIds, q = QueueOf[p] PROVE FqInv'
  <2>1. q # -1
    BY <1>7, FqSizes DEF FqIds
  <2>2. Fq!IsFull(q) <=> v3[q].head = v3[q].tail /\ v3[q].pkts[v3[q].head] # 0
    BY DEF Fq!IsFull, Fq!HasPacket, Fq!Null
  <2>3. CASE Fq!IsFull(q)
    <3>1. /\ v4[q] = "none" /\ v4' = [v4 EXCEPT ![q] = "rx"] /\ v8' = [v8 EXCEPT ![q] = @ + 1]
          /\ Fq!RxDrop(p) /\ v3' = v3
      BY <1>1, <1>7, <2>1, <2>3 DEF Fq!Enqueue
    <3>2. \A i \in FqPlaces : v3[q].pkts[i] # 0
      <4>1. PICK m \in FqRecord : m = v3[q]
        BY DEF FqInv, FqTypes
      <4>2. PICK c \in 0 .. FqSize : Holds(m, q, c, Done)
        BY <4>1 DEF FqInv, FqOrder, FqQueues
      <4>3. c = FqSize
        BY <2>2, <2>3, <4>1, <4>2, FqCount
      <4>4. ASSUME NEW i \in FqPlaces PROVE m.pkts[i] # 0
        <5>1. PICK h \in FqPlaces : h = m.head
          BY DEF FqRecord
        <5>2. FqSize \in Nat /\ h \in Nat /\ h < FqSize /\ i \in Nat /\ i < FqSize
          BY FqSizes DEF FqPlaces
        <5>3. PICK j \in FqPlaces : j = IF i >= h THEN i - h ELSE i + FqSize - h
          <6>1. CASE i >= h
            BY <5>2, <6>1 DEF FqPlaces
          <6>2. CASE i < h
            <7>1. i + FqSize - h \in FqPlaces /\ ~(i >= h)
              BY <5>2, <6>2 DEF FqPlaces
            <7>2. QED
              BY <7>1
          <6>3. QED
            BY <5>2, <6>1, <6>2
        <5>4. FqPlace(h, j) = i /\ j < c
          BY <4>3, <5>2, <5>3 DEF FqPlace
        <5>5. FqAt(m, j) \in 1 .. Done
          BY <4>2, <5>4 DEF Holds
        <5>6. QED
          BY <5>1, <5>4, <5>5 DEF FqAt
      <4>5. QED
        BY <4>1, <4>4
    <3>3. FqLocks'
      <4>1. ASSUME NEW r \in FqIds, v4'[r] # "none"
            PROVE  v8'[r] > 0 /\ \A i \in FqPlaces : v3'[r].pkts[i] # 0
        <5>1. CASE r = q
          BY <1>2, <3>1, <3>2, <5>1
        <5>2. CASE r # q
          <6>1. v4[r] # "none" /\ v8'[r] = v8[r]
            BY <1>2, <3>1, <4>1, <5>2
          <6>2. QED
            BY <3>1, <6>1 DEF FqInv, FqLocks
        <5>3. QED
          BY <5>1, <5>2
      <4>2. QED
        BY <4>1 DEF FqLocks
    <3>4. v4' \in [FqIds -> {"none", "rx"}] /\ v8' \in [FqIds -> Nat]
      BY <1>2, <3>1
    <3>5. /\ v1.burst # <<>> /\ v1'.burst = Tail(v1.burst) /\ v1' \in FqRxRecord
          /\ UNCHANGED <<v2, v3, v6, v9, v10>>
      BY <1>2, <1>5, <3>1
    <3>6. QED
      BY <3>3, <3>4, <3>5, FqDropped
  <2>4. CASE ~Fq!IsFull(q)
    <3>1. /\ v4[q] = "none" /\ v3' = [v3 EXCEPT ![q] = Fq!Put(q, p)]
          /\ v1' = [v1 EXCEPT !.burst = Tail(@)] /\ UNCHANGED <<v4, v8>>
      BY <1>1, <1>7, <2>1, <2>4 DEF Fq!Enqueue
    <3>2. v1'.burst = Tail(v1.burst) /\ v1' \in FqRxRecord
      BY <1>2, <1>3, <3>1 DEF FqRxRecord
    <3>3. v3' = [v3 EXCEPT ![q] = FqPutIn(v3[q], Head(v1.burst))]
      BY <1>1, <3>1 DEF Fq!Put, FqPutIn
    <3>4. ~(v3[q].head = v3[q].tail /\ v3[q].pkts[v3[q].head] # 0)
      BY <2>2, <2>4
    <3>5. QED
      BY <1>1, <1>2, <1>7, <3>1, <3>2, <3>3, <3>4, FqPut
  <2>5. QED
    BY <2>3, <2>4
<1>8. QED
  BY <1>4, <1>6, <1>7

LEMMA FqStep == FqInv /\ [Fq!Next]_(Fq!vars) => FqInv'
<1>1. SUFFICES ASSUME FqInv, [Fq!Next]_(Fq!vars) PROVE FqInv'
  OBVIOUS
<1>2. CASE UNCHANGED <<v1, v2, v3, v4, v6, v8, v9, v10>>
  <2>1. Done' = Done
    BY <1>2 DEF Done
  <2>2. FqTypes' /\ FqOrder'
    BY <1>1, <1>2, <2>1 DEF FqInv, FqTypes, FqOrder
  <2>3. FqChild' /\ FqRound' /\ FqLocks'
    BY <1>1, <1>2 DEF FqInv, FqChild, FqRound, FqLocks
  <2>4. QED
    BY <2>2, <2>3 DEF FqInv
<1>3. ASSUME NEW n \in 1 .. Batch, Fq!RxBurst(n) PROVE FqInv'
  <2>1. /\ v1.burst = <<>> /\ v6 + n <= Len(QueueOf) /\ v6' = v6 + n
        /\ v1' = [v1 EXCEPT !.burst = [i \in 1 .. n |-> v6 + i]]
        /\ UNCHANGED <<v2, v3, v4, v8, v9, v10>>
    BY <1>3 DEF Fq!RxBurst
  <2>2. n \in Nat /\ n >= 1 /\ v6 \in Nat /\ v1 \in FqRxRecord
    BY <1>1, <1>3, FqNumbers DEF FqInv, FqTypes
  <2>3. PICK s \in Seq(Nat) : s = [i \in 1 .. n |-> v6 + i] /\ Len(s) = n
    <3>1. PICK s : s = [i \in 1 .. n |-> v6 + i]
      OBVIOUS
    <3>2. \A i \in 1 .. n : v6 + i \in Nat
      BY <2>2
    <3>3. s \in Seq(Nat) /\ Len(s) = n
      BY <2>2, <3>1, <3>2
    <3>4. QED
      BY <3>1, <3>3
  <2>4. v1'.burst = s /\ v1' \in FqRxRecord
    BY <2>1, <2>2, <2>3 DEF FqRxRecord
  <2>5. Done = v6 /\ Done' = v6
    <3>1. Len(v1.burst) = 0
      BY <2>1
    <3>2. Done' = v6' - Len(v1'.burst)
      BY DEF Done
    <3>3. Len(v1'.burst) = n
      BY <2>3, <2>4
    <3>4. QED
      BY <2>1, <2>2, <3>1, <3>2, <3>3 DEF Done
  <2>6. FqTypes'
    <3>1. v6' \in 0 .. Len(QueueOf) /\ Len(v1'.burst) <= v6'
      BY <2>1, <2>2, <2>3, <2>4, FqSizes
    <3>2. \A i \in 1 .. Len(v1'.burst) : v1'.burst[i] = Done' + i
      BY <2>3, <2>4, <2>5
    <3>3. QED
      BY <1>1, <2>1, <2>4, <3>1, <3>2 DEF FqInv, FqTypes
  <2>7. FqOrder'
    BY <1>1, <2>1, <2>5 DEF FqInv, FqOrder
  <2>8. FqChild' /\ FqRound' /\ FqLocks'
    BY <1>1, <2>1 DEF FqInv, FqChild, FqRound, FqLocks
  <2>9. QED
    BY <2>6, <2>7, <2>8 DEF FqInv
<1>4. CASE Fq!RxLeave
  <2>1. v1' = [v1 EXCEPT !.runs = FALSE] /\ UNCHANGED <<v2, v3, v4, v6, v8, v9, v10>>
    BY <1>4 DEF Fq!RxLeave
  <2>2. v1 \in FqRxRecord
    BY <1>1 DEF FqInv, FqTypes
  <2>3. v1' \in FqRxRecord /\ v1'.burst = v1.burst
    BY <2>1, <2>2 DEF FqRxRecord
  <2>4. Done' = Done
    BY <2>1, <2>3 DEF Done
  <2>5. FqTypes' /\ FqOrder'
    BY <1>1, <2>1, <2>3, <2>4 DEF FqInv, FqTypes, FqOrder
  <2>6. FqChild' /\ FqRound' /\ FqLocks'
    BY <1>1, <2>1 DEF FqInv, FqChild, FqRound, FqLocks
  <2>7. QED
    BY <2>5, <2>6 DEF FqInv
<1>5. CASE Fq!TxTop
  <2>1. /\ v2.at = "top" /\ UNCHANGED <<v1, v3, v4, v6, v8, v9, v10>>
        /\ \/ v2' = [v2 EXCEPT !.at = "gone"]
           \/ v2' = [v2 EXCEPT !.at = "scan", !.start = v2.qid]
    BY <1>5 DEF Fq!TxTop
  <2>2. v2 \in FqTxRecord
    BY <1>1 DEF FqInv, FqTypes
  <2>3. v2' \in FqTxRecord /\ v2'.at # "dequeue" /\ v2'.qid = v2.qid
    BY <2>1, <2>2 DEF FqTxRecord
  <2>4. Done' = Done
    BY <2>1 DEF Done
  <2>5. FqTypes' /\ FqOrder'
    BY <1>1, <2>1, <2>3, <2>4 DEF FqInv, FqTypes, FqOrder
  <2>6. FqChild' /\ FqRound' /\ FqLocks'
    BY <1>1, <2>1, <2>3 DEF FqInv, FqChild, FqRound, FqLocks
  <2>7. QED
    BY <2>5, <2>6 DEF FqInv
<1>6. CASE Fq!Drain \/ Fq!StopNf \/ UNCHANGED Fq!vars
  BY <1>2, <1>6 DEF Fq!Drain, Fq!StopNf, Fq!vars
<1>7. QED
  BY <1>1, <1>3, <1>4, <1>5, <1>6, FqEnqueue, FqScan, FqDequeue DEF Fq!Next

\* What the invariant says about the properties.
LEMMA FqChecked == FqInv => Fq!FlowOrderKept /\ Fq!RoundRobin /\ Fq!StuckOnlyWhenFull
<1>1. SUFFICES ASSUME FqInv PROVE Fq!FlowOrderKept /\ Fq!RoundRobin /\ Fq!StuckOnlyWhenFull
  OBVIOUS
<1>2. ASSUME NEW q \in FqIds, NEW j \in FqPlaces PROVE Fq!Walk(q, j) = FqAt(v3[q], j)
  <2>1. v3[q].head \in FqPlaces /\ j \in 0 .. FqSize
    BY <1>1, FqSizes DEF FqInv, FqTypes, FqRecord, FqPlaces
  <2>2. (v3[q].head + j) % FqSize = FqPlace(v3[q].head, j)
    BY <2>1, FqWrap
  <2>3. QED
    BY <2>2 DEF Fq!Walk, FqAt
<1>3. Fq!FlowOrderKept
  <2>1. \A i \in DOMAIN v9 : v9[i] # 0
    BY <1>1 DEF FqInv, FqOrder, FqGone
  <2>2. \A i, j \in DOMAIN v9 : i < j /\ QueueOf[v9[i]] = QueueOf[v9[j]] => v9[i] < v9[j]
    BY <1>1 DEF FqInv, FqOrder, FqGone
  <2>3. ASSUME NEW q \in FqIds, NEW j \in FqPlaces, FqAt(v3[q], j) # 0
        PROVE  /\ \A i \in FqPlaces : i < j /\ FqAt(v3[q], i) # 0 => FqAt(v3[q], i) < FqAt(v3[q], j)
               /\ \A i \in DOMAIN v9 : QueueOf[v9[i]] = q => v9[i] < FqAt(v3[q], j)
    <3>1. PICK c \in 0 .. FqSize : Holds(v3[q], q, c, Done)
      BY <1>1 DEF FqInv, FqOrder, FqQueues
    <3>2. j < c
      BY <2>3, <3>1 DEF Holds
    <3>3. QED
      BY <1>1, <2>3, <3>1, <3>2 DEF Holds, FqInv, FqOrder, FqAfter
  <2>4. QED
    BY <1>2, <2>1, <2>2, <2>3, FqSame DEF Fq!FlowOrderKept, Fq!Null
<1>4. Fq!RoundRobin
  BY <1>1, FqSame DEF FqInv, FqRound, Fq!RoundRobin
<1>5. Fq!StuckOnlyWhenFull
  BY <1>1, FqSame DEF FqInv, FqLocks, Fq!StuckOnlyWhenFull, Fq!Null
<1>6. QED
  BY <1>3, <1>4, <1>5

\* For any number of queues, any queue size and any packets, with both threads at the queues: the
\* packets of a flow leave once and in order, a queue that waits is passed over at most
\* once for every other one, and a lock is left behind only by an overflow, at a queue that
\* is full (fairqueue_enqueue, fairqueue_dequeue, get_dequeue_qid).
THEOREM QueuedFairly == SafeAll => []FairlyQueued
<1> DEFINE Inv == which = "fair" => FqInv
<1>1. InitAll => Inv
  BY FqInit DEF InitAll
<1>2. Inv /\ [NextAll]_all => Inv'
  <2>1. SUFFICES ASSUME Inv, [NextAll]_all, which' = "fair" PROVE FqInv'
    OBVIOUS
  <2>2. which = "fair" /\ (Fq!Next \/ UNCHANGED Fq!vars)
    BY <2>1 DEF NextAll, Others, all, parts, Fq!vars
  <2>3. [Fq!Next]_(Fq!vars)
    BY <2>2
  <2>4. QED
    BY <2>1, <2>2, <2>3, FqStep
<1>3. Inv => FairlyQueued
  BY FqChecked DEF FairlyQueued
<1>4. QED
  BY <1>1, <1>2, <1>3, PTL DEF SafeAll

-----------------------------------------------------------------------------
(* Packet helpers *)

\* Numbers are read off the size of a word only where it matters.
Top  == Helper!WordMax
Word == 0 .. Top

LEMMA TopIs == Top \in Nat /\ Top >= 102
BY SMT DEF Top, Helper!WordMax

\* One addition of the one's complement sum.
LEMMA OneCarry ==
    ASSUME NEW n \in Nat, n > Top, n <= 2 * Top
    PROVE  (n \div (Top + 1)) + (n % (Top + 1)) = n - Top
<1>1. PICK t \in Nat \ {0} : t = Top + 1
  BY TopIs
<1>2. n = t * 1 + (n - t) /\ n - t \in 0 .. t - 1
  BY <1>1, TopIs
<1>3. n \div t = 1 /\ n % t = n - t
  BY <1>2
<1>4. (n \div t) + (n % t) = n - Top
  BY <1>1, <1>3, TopIs
<1>5. QED
  BY <1>1, <1>4

LEMMA FoldIs ==
    ASSUME NEW a \in Word, NEW b \in Word
    PROVE  Helper!Fold(a + b) = IF a + b > Top THEN a + b - Top ELSE a + b
<1>1. a + b \in Nat /\ a + b <= 2 * Top
  BY TopIs DEF Word
<1>2. Helper!Fold(a + b) = IF a + b > Top THEN ((a + b) \div (Top + 1)) + ((a + b) % (Top + 1)) ELSE a + b
  BY DEF Helper!Fold, Top
<1>3. a + b > Top => ((a + b) \div (Top + 1)) + ((a + b) % (Top + 1)) = a + b - Top
  <2>1. SUFFICES ASSUME a + b > Top
                 PROVE  ((a + b) \div (Top + 1)) + ((a + b) % (Top + 1)) = a + b - Top
    OBVIOUS
  <2>2. PICK n \in Nat : n = a + b /\ n > Top /\ n <= 2 * Top
    BY <1>1, <2>1
  <2>3. (n \div (Top + 1)) + (n % (Top + 1)) = n - Top
    BY <2>2, OneCarry
  <2>4. QED
    BY <2>2, <2>3, TopIs DEF Word
<1>4. QED
  BY <1>2, <1>3, Zenon

\* The sums g of the first words of w.
Runs(w, n, g) == g = [i \in 0 .. n |-> IF i = 0 THEN 0 ELSE Helper!Fold(g[i - 1] + w[i])]

LEMMA RunsExist ==
    ASSUME NEW w, NEW n \in Nat
    PROVE  \E g : Runs(w, n, g)
<1> DEFINE B == {k \in Nat : \A g : ~Runs(w, k, g)}
<1>1. SUFFICES ASSUME B # {} PROVE FALSE
  OBVIOUS
<1>2. PICK k \in B : \A x \in B : k <= x
  <2>1. B \in SUBSET Nat
    OBVIOUS
  <2> HIDE DEF B
  <2>2. QED
    BY <1>1, <2>1, LeastNat
<1>3. k # 0
  <2>1. SUFFICES ASSUME k = 0 PROVE FALSE
    OBVIOUS
  <2>2. PICK g : g = [i \in 0 .. 0 |-> 0]
    OBVIOUS
  <2>3. g = [i \in 0 .. 0 |-> IF i = 0 THEN 0 ELSE Helper!Fold(g[i - 1] + w[i])]
    BY <2>2
  <2>4. Runs(w, 0, g)
    BY <2>3 DEF Runs
  <2>5. QED
    BY <1>2, <2>1, <2>4
<1>4. PICK m \in Nat : k = m + 1
  BY <1>2, <1>3
<1>5. m \notin B
  BY <1>2, <1>4
<1>6. PICK h : Runs(w, m, h)
  BY <1>5
<1>7. PICK g : g = [i \in 0 .. m + 1 |-> IF i = 0 THEN 0 ELSE Helper!Fold(h[i - 1] + w[i])]
  OBVIOUS
<1>8. \A i \in 0 .. m : g[i] = h[i]
  <2>1. \A i \in 0 .. m : h[i] = IF i = 0 THEN 0 ELSE Helper!Fold(h[i - 1] + w[i])
    BY <1>6 DEF Runs
  <2>2. QED
    BY <1>7, <2>1
<1>9. g = [i \in 0 .. m + 1 |-> IF i = 0 THEN 0 ELSE Helper!Fold(g[i - 1] + w[i])]
  <2>1. \A i \in 0 .. m + 1 : i # 0 => i - 1 \in 0 .. m
    OBVIOUS
  <2>2. \A i \in 0 .. m + 1 : i # 0 => Helper!Fold(g[i - 1] + w[i]) = Helper!Fold(h[i - 1] + w[i])
    BY <1>8, <2>1
  <2>3. QED
    BY <1>7, <2>2
<1>10. Runs(w, m + 1, g)
  BY <1>9 DEF Runs
<1>11. QED
  BY <1>2, <1>4, <1>10

LEMMA RawRuns ==
    ASSUME NEW w, Len(w) \in Nat
    PROVE  \E g : Runs(w, Len(w), g) /\ Helper!RawCksum(w) = g[Len(w)]
<1>1. PICK g : g = CHOOSE f : Runs(w, Len(w), f)
  OBVIOUS
<1>2. Runs(w, Len(w), g)
  BY <1>1, RunsExist
<1>3. Helper!RawCksum(w) = (CHOOSE f : Runs(w, Len(w), f))[Len(w)]
  BY DEF Helper!RawCksum, Runs
<1>4. QED
  BY <1>1, <1>2, <1>3

\* A header that is added up with the complement of its sum in place of the zero.
LEMMA Complement ==
    ASSUME NEW n \in Nat, n >= 4, NEW a, NEW b, NEW k \in Word,
           \A i \in 1 .. n : a[i] \in Word /\ b[i] \in Word,
           a[4] = 0, b[4] = k, a[1] > 0, \A i \in 1 .. n : i # 4 => b[i] = a[i],
           NEW g, Runs(a, n, g), NEW h, Runs(b, n, h),
           k = IF g[n] = Top THEN Top ELSE Top - g[n]
    PROVE  h[n] = Top
<1> DEFINE OK(i) == /\ g[i] \in Word /\ h[i] \in Word
                    /\ i >= 1 => g[i] > 0 /\ h[i] > 0
                    /\ i < 4 => h[i] = g[i]
                    /\ i >= 4 => h[i] - g[i] - k \in {Top, 0, -Top, -Top - Top}
           B == {i \in 0 .. n : ~OK(i)}
<1>1. B = {}
  <2>1. SUFFICES ASSUME B # {} PROVE FALSE
    OBVIOUS
  <2>2. PICK m \in B : \A x \in B : m <= x
    <3>1. B \in SUBSET Nat
      OBVIOUS
    <3> HIDE DEF B
    <3>2. QED
      BY <2>1, <3>1, LeastNat
  <2>3. m \in 0 .. n /\ ~OK(m)
    BY <2>2
  <2>4. m # 0
    <3>1. g[0] = 0 /\ h[0] = 0
      BY DEF Runs
    <3>2. OK(0)
      BY <3>1, TopIs DEF Word
    <3>3. QED
      BY <2>3, <3>2
  <2>5. PICK j \in 0 .. n - 1 : m = j + 1
    BY <2>3, <2>4
  <2>6. OK(j)
    BY <2>2, <2>5
  <2>7. m \in 1 .. n /\ m - 1 = j
    BY <2>5
  <2>8. g[m] = Helper!Fold(g[j] + a[m]) /\ h[m] = Helper!Fold(h[j] + b[m])
    BY <2>3, <2>4, <2>7 DEF Runs
  <2>9. PICK c \in Word, d \in Word, x \in Word, y \in Word : c = g[j] /\ d = h[j] /\ x = a[m] /\ y = b[m]
    BY <2>6, <2>7
  <2>10. /\ g[m] = IF c + x > Top THEN c + x - Top ELSE c + x
         /\ h[m] = IF d + y > Top THEN d + y - Top ELSE d + y
    BY <2>8, <2>9, FoldIs
  <2>11. g[m] \in Word /\ h[m] \in Word
    BY <2>9, <2>10, TopIs DEF Word
  <2>12. g[m] > 0 /\ h[m] > 0
    <3>1. CASE m = 1
      <4>1. x > 0 /\ y > 0
        BY <2>9, <3>1
      <4>2. QED
        BY <2>9, <2>10, <4>1, TopIs DEF Word
    <3>2. CASE m # 1
      <4>1. c > 0 /\ d > 0
        BY <2>5, <2>6, <2>9, <3>2
      <4>2. QED
        BY <2>9, <2>10, <4>1, TopIs DEF Word
    <3>3. QED
      BY <3>1, <3>2
  <2>13. CASE m < 4
    <3>1. c = d /\ x = y
      BY <2>5, <2>6, <2>7, <2>9, <2>13
    <3>2. h[m] = g[m]
      BY <2>10, <3>1
    <3>3. OK(m)
      BY <2>11, <2>12, <2>13, <3>2
    <3>4. QED
      BY <2>3, <3>3
  <2>14. CASE m = 4
    <3>1. c = d /\ x = 0 /\ y = k
      BY <2>5, <2>6, <2>9, <2>14
    <3>2. h[m] - g[m] - k \in {Top, 0, -Top, -Top - Top}
      BY <2>9, <2>10, <3>1, TopIs DEF Word
    <3>3. OK(m)
      BY <2>11, <2>12, <2>14, <3>2
    <3>4. QED
      BY <2>3, <3>3
  <2>15. CASE m > 4
    <3>1. x = y /\ d - c - k \in {Top, 0, -Top, -Top - Top}
      BY <2>5, <2>6, <2>7, <2>9, <2>15
    <3>2. PICK r \in Int : r = h[m] - g[m] - k
      BY <2>11, TopIs DEF Word
    <3>3. r \in -Top - Top .. Top
      BY <2>11, <3>2, TopIs DEF Word
    <3>4. r \in {d - c - k, d - c - k + Top, d - c - k - Top}
      <4>1. PICK u \in Int, v \in Int : u = g[m] /\ v = h[m] /\ r = v - u - k
        BY <2>11, <3>2 DEF Word
      <4>2. (u = c + x \/ u = c + x - Top) /\ (v = d + x \/ v = d + x - Top)
        BY <2>10, <3>1, <4>1
      <4>3. c \in Int /\ d \in Int /\ x \in Int /\ k \in Int /\ Top \in Int
        BY TopIs DEF Word
      <4>4. QED
        BY <4>1, <4>2, <4>3
    <3>5. r \in {Top, 0, -Top, -Top - Top}
      BY <2>9, <3>1, <3>3, <3>4, TopIs DEF Word
    <3>6. OK(m)
      BY <2>11, <2>12, <2>15, <3>2, <3>5
    <3>7. QED
      BY <2>3, <3>6
  <2>16. QED
    BY <2>7, <2>13, <2>14, <2>15
<1>2. OK(n)
  BY <1>1
<1>3. QED
  BY <1>2, TopIs DEF Word

\* The sums of words are words.
LEMMA RunsWords ==
    ASSUME NEW n \in Nat, NEW a, \A i \in 1 .. n : a[i] \in Word, NEW g, Runs(a, n, g)
    PROVE  g[n] \in Word
<1> DEFINE B == {i \in 0 .. n : g[i] \notin Word}
<1>1. B = {}
  <2>1. SUFFICES ASSUME B # {} PROVE FALSE
    OBVIOUS
  <2>2. PICK m \in B : \A x \in B : m <= x
    <3>1. B \in SUBSET Nat
      OBVIOUS
    <3> HIDE DEF B
    <3>2. QED
      BY <2>1, <3>1, LeastNat
  <2>3. m # 0
    <3>1. g[0] = 0
      BY DEF Runs
    <3>2. QED
      BY <2>2, <3>1, TopIs DEF Word
  <2>4. PICK j \in 0 .. n - 1 : m = j + 1
    BY <2>2, <2>3
  <2>5. g[j] \in Word /\ a[m] \in Word /\ m - 1 = j
    BY <2>2, <2>4
  <2>6. g[m] = Helper!Fold(g[j] + a[m])
    BY <2>2, <2>3, <2>5 DEF Runs
  <2>7. PICK c \in Word, x \in Word : c = g[j] /\ x = a[m]
    BY <2>5
  <2>8. g[m] = IF c + x > Top THEN c + x - Top ELSE c + x
    BY <2>6, <2>7, FoldIs
  <2>9. g[m] \in Word
    BY <2>7, <2>8, TopIs DEF Word
  <2>10. QED
    BY <2>2, <2>9
<1>2. QED
  BY <1>1

\* A packet as far as the helpers look at it.
HpMac == {"nic", "nic2", "peer", "bcast"}
HpRecord ==
    [version : {4, 6}, ihl : {5, 6}, proto : {1, 6, 17}, src : Word, dst : Word,
     total_length : Word, options : Seq(Word), hdr_checksum : Word,
     sum : {"none", "wire", "phdr", "summed", "overrun"}, ol_flags : SUBSET {"ip", "udp", "tcp"},
     s_addr : HpMac, d_addr : HpMac, sport : {"a", "b"}, dport : {"a", "b"}, len : Nat \ {0}]
HpOptions(p) == p.ihl = 6 => Len(p.options) >= 2

LEMMA HeaderWords ==
    ASSUME NEW p \in HpRecord, HpOptions(p), NEW k \in Word
    PROVE  \E n \in Nat : /\ n >= 4 /\ n = Len(Helper!IpWords(p, k)) /\ n = Len(Helper!IpWords(p, 0))
                          /\ \A i \in 1 .. n : /\ Helper!IpWords(p, k)[i] \in Word
                                               /\ Helper!IpWords(p, 0)[i] \in Word
                                               /\ i # 4 => Helper!IpWords(p, k)[i] = Helper!IpWords(p, 0)[i]
                          /\ Helper!IpWords(p, k)[4] = k /\ Helper!IpWords(p, 0)[4] = 0
                          /\ Helper!IpWords(p, 0)[1] > 0
<1> DEFINE F(c) == <<p.version * 16 + p.ihl, p.total_length, p.proto, c, p.src, p.dst>>
<1>1. /\ p.version \in {4, 6} /\ p.ihl \in {5, 6} /\ p.proto \in {1, 6, 17} /\ p.src \in Word /\ p.dst \in Word
      /\ p.total_length \in Word /\ p.options \in Seq(Word)
  BY DEF HpRecord
<1>2. p.version * 16 + p.ihl \in Word /\ p.version * 16 + p.ihl > 0 /\ p.proto \in Word /\ 0 \in Word
  <2>1. p.version * 16 + p.ihl \in {69, 70, 101, 102}
    BY <1>1
  <2>2. QED
    BY <1>1, <2>1, TopIs DEF Word
<1>3. PICK o \in Seq(Word) : o = SubSeq(p.options, 1, 2 * (p.ihl - 5))
  <2>1. CASE p.ihl = 5
    <3>1. 2 * (p.ihl - 5) = 0
      BY <2>1
    <3>2. SubSeq(p.options, 1, 0) = <<>> /\ <<>> \in Seq(Word)
      BY <1>1
    <3>3. QED
      BY <3>1, <3>2
  <2>2. CASE p.ihl = 6
    <3>1. 2 * (p.ihl - 5) = 2 /\ Len(p.options) >= 2 /\ Len(p.options) \in Nat
      BY <1>1, <2>2 DEF HpOptions
    <3>2. SubSeq(p.options, 1, 2) \in Seq(Word)
      BY <1>1, <3>1, SubSeqProperties
    <3>3. QED
      BY <3>1, <3>2
  <2>3. QED
    BY <1>1, <2>1, <2>2
<1>4. ASSUME NEW c \in Word
      PROVE  /\ Helper!IpWords(p, c) = F(c) \o o /\ F(c) \in Seq(Word) /\ Len(F(c)) = 6
             /\ Len(F(c) \o o) = 6 + Len(o)
             /\ \A i \in 1 .. 6 + Len(o) : (F(c) \o o)[i] = IF i <= 6 THEN F(c)[i] ELSE o[i - 6]
  <2>1. Helper!IpWords(p, c) = F(c) \o o
    BY <1>3 DEF Helper!IpWords
  <2>2. F(c) \in Seq(Word) /\ Len(F(c)) = 6
    BY <1>1, <1>2
  <2>3. PICK f \in Seq(Word) : f = F(c) /\ Len(f) = 6
    BY <2>2
  <2>4. Len(f \o o) = 6 + Len(o) /\ \A i \in 1 .. 6 + Len(o) : (f \o o)[i] = IF i <= 6 THEN f[i] ELSE o[i - 6]
    BY <2>3, ConcatProperties
  <2>5. QED
    BY <2>1, <2>2, <2>3, <2>4
<1>5. Len(o) \in Nat /\ \A i \in 1 .. Len(o) : o[i] \in Word
  BY ElementOfSeq, LenProperties
<1>6. ASSUME NEW i \in 1 .. 6 + Len(o), i > 6 PROVE o[i - 6] \in Word
  <2>1. i - 6 \in 1 .. Len(o)
    BY <1>5, <1>6
  <2>2. QED
    BY <1>5, <2>1
<1>7. ASSUME NEW c \in Word, NEW i \in 1 .. 6
      PROVE  F(c)[i] \in Word /\ (i # 4 => F(c)[i] = F(0)[i])
  BY <1>1, <1>2
<1>8. F(k)[4] = k /\ F(0)[4] = 0 /\ F(0)[1] > 0
  BY <1>2
<1> HIDE DEF F
<1>9. ASSUME NEW c \in Word, NEW i \in 1 .. 6 + Len(o)
      PROVE  (F(c) \o o)[i] \in Word /\ (i # 4 => (F(c) \o o)[i] = (F(0) \o o)[i])
  <2>1. /\ (F(c) \o o)[i] = IF i <= 6 THEN F(c)[i] ELSE o[i - 6]
        /\ (F(0) \o o)[i] = IF i <= 6 THEN F(0)[i] ELSE o[i - 6]
    BY <1>2, <1>4, Zenon
  <2>2. (i \in 1 .. 6 /\ i <= 6) \/ (i > 6 /\ ~(i <= 6))
    BY <1>5
  <2>3. CASE i \in 1 .. 6 /\ i <= 6
    BY <1>7, <2>1, <2>3, Zenon
  <2>4. CASE i > 6 /\ ~(i <= 6)
    <3>1. o[i - 6] \in Word
      BY <1>6, <2>4
    <3>2. QED
      BY <2>1, <2>4, <3>1, Zenon
  <2>5. QED
    BY <2>2, <2>3, <2>4
<1>10. PICK n \in Nat : n = 6 + Len(o)
  BY <1>5
<1>11. /\ n = Len(Helper!IpWords(p, k)) /\ n = Len(Helper!IpWords(p, 0)) /\ n >= 4
       /\ Helper!IpWords(p, k) = F(k) \o o /\ Helper!IpWords(p, 0) = F(0) \o o
  <2>1. n >= 4
    BY <1>5, <1>10
  <2>2. QED
    BY <1>2, <1>4, <1>10, <2>1, Zenon
<1>12. /\ (F(k) \o o)[4] = k /\ (F(0) \o o)[4] = 0 /\ (F(0) \o o)[1] > 0
  <2>1. 4 \in 1 .. 6 + Len(o) /\ 1 \in 1 .. 6 + Len(o)
    BY <1>5
  <2>2. QED
    BY <1>2, <1>4, <1>8, <2>1
<1>13. QED
  BY <1>2, <1>9, <1>10, <1>11, <1>12

\* The checksum is a word, and a header that has it adds up to all ones.
LEMMA ChecksumIs ==
    ASSUME NEW p \in HpRecord, HpOptions(p)
    PROVE  /\ Helper!calculate_ip_cksum(p) \in Word
           /\ Helper!RawCksum(Helper!IpWords(p, Helper!calculate_ip_cksum(p))) = Top
<1>1. 0 \in Word
  BY TopIs DEF Word
<1>2. PICK a : a = Helper!IpWords(p, 0)
  OBVIOUS
<1>3. Len(a) \in Nat /\ \A i \in 1 .. Len(a) : a[i] \in Word
  BY <1>1, <1>2, HeaderWords
<1>4. PICK g : Runs(a, Len(a), g) /\ Helper!RawCksum(a) = g[Len(a)]
  BY <1>3, RawRuns
<1>5. g[Len(a)] \in Word
  BY <1>3, <1>4, RunsWords
<1>6. PICK k : k = Helper!calculate_ip_cksum(p)
  OBVIOUS
<1>7. k = IF g[Len(a)] = Top THEN Top ELSE Top - g[Len(a)]
  BY <1>2, <1>4, <1>6 DEF Helper!calculate_ip_cksum, Top
<1>8. k \in Word
  BY <1>5, <1>7, TopIs DEF Word
<1>9. PICK b : b = Helper!IpWords(p, k)
  OBVIOUS
<1>10. PICK n \in Nat : /\ n >= 4 /\ n = Len(b) /\ n = Len(a)
                        /\ \A i \in 1 .. n : b[i] \in Word /\ a[i] \in Word /\ (i # 4 => b[i] = a[i])
                        /\ b[4] = k /\ a[4] = 0 /\ a[1] > 0
  BY <1>2, <1>8, <1>9, HeaderWords
<1>11. PICK h : Runs(b, n, h) /\ Helper!RawCksum(b) = h[n]
  BY <1>10, RawRuns
<1>12. Runs(a, n, g) /\ k = IF g[n] = Top THEN Top ELSE Top - g[n]
  BY <1>4, <1>7, <1>10
<1>13. h[n] = Top
  BY <1>8, <1>10, <1>11, <1>12, Complement
<1>14. QED
  BY <1>6, <1>8, <1>9, <1>11, <1>13

\* Where the software has set the checksum it is that of the header, and the rest is as
\* OffloadConsistent wants it.
HpSummed(p) ==
    p.version = 4 /\ p.sum # "wire" /\ "ip" \notin Capa => p.hdr_checksum = Helper!calculate_ip_cksum(p)
HpName(p) == IF p.proto = 6 THEN "tcp" ELSE "udp"
HpOffload(p) ==
    p.sum \in {"phdr", "summed", "overrun"} =>
        /\ (p.sum = "phdr") = (HpName(p) \in Capa)
        /\ p.sum = "phdr" => HpName(p) \in p.ol_flags
HpGood(p) == p \in HpRecord /\ HpOptions(p) /\ HpSummed(p) /\ HpOffload(p)

HpInv ==
    /\ v1 \in Nat /\ v3 \in Nat /\ v1 + v3 + (IF v2 = Helper!NoPkt THEN 0 ELSE 1) = 2
    /\ v2 # Helper!NoPkt => HpGood(v2)

\* The checksum does not depend on other fields.
LEMMA SameSum ==
    ASSUME NEW p, NEW r, r.version = p.version, r.ihl = p.ihl, r.total_length = p.total_length,
           r.proto = p.proto, r.src = p.src, r.dst = p.dst, r.options = p.options
    PROVE  Helper!calculate_ip_cksum(r) = Helper!calculate_ip_cksum(p)
<1>1. Helper!IpWords(r, 0) = Helper!IpWords(p, 0)
  BY DEF Helper!IpWords
<1>2. QED
  BY <1>1 DEF Helper!calculate_ip_cksum

LEMMA HpNotNone == \A p \in HpRecord : p # Helper!NoPkt
<1>1. ASSUME NEW p \in HpRecord PROVE p # Helper!NoPkt
  <2>1. p.len # 0
    BY DEF HpRecord
  <2>2. Helper!NoPkt.len = 0
    BY DEF Helper!NoPkt
  <2>3. QED
    BY <2>1, <2>2
<1>2. QED
  BY <1>1

\* onvm_pkt_set_checksums
LEMMA HpSet ==
    ASSUME NEW p \in HpRecord, HpOptions(p), HpOffload(p)
    PROVE  HpGood(Helper!onvm_pkt_set_checksums(p))
<1> DEFINE r == Helper!onvm_pkt_set_checksums(p)
<1>1. CASE p.version # 4
  <2>1. r = p
    BY <1>1 DEF Helper!onvm_pkt_set_checksums, Helper!onvm_pkt_ipv4_hdr
  <2>2. HpSummed(p)
    BY <1>1 DEF HpSummed
  <2>3. QED
    BY <2>1, <2>2 DEF HpGood
<1>2. CASE p.version = 4
  <2>1. PICK l4 : l4 = IF p.proto = 6 THEN {"tcp"} ELSE IF p.proto = 17 THEN {"udp"} ELSE {}
    OBVIOUS
  <2>2. PICK s : s = IF l4 = {} THEN p.sum ELSE Helper!TransportSum(p, CHOOSE n \in l4 : TRUE)
    OBVIOUS
  <2>3. PICK k : k = IF "ip" \in Capa THEN 0 ELSE Helper!calculate_ip_cksum(p)
    OBVIOUS
  <2>4. PICK o : o = p.ol_flags \cup ((l4 \cup {"ip"}) \cap Capa)
    OBVIOUS
  <2>5. r = [p EXCEPT !.sum = s, !.hdr_checksum = k, !.ol_flags = o]
    BY <1>2, <2>1, <2>2, <2>3, <2>4
    DEF Helper!onvm_pkt_set_checksums, Helper!onvm_pkt_ipv4_hdr, Helper!onvm_pkt_tcp_hdr,
        Helper!onvm_pkt_udp_hdr, Helper!IP_PROTOCOL_TCP, Helper!IP_PROTOCOL_UDP
  <2>6. k \in Word
    BY <2>3, ChecksumIs, TopIs DEF Word
  <2>7. p.proto \in {6, 17} => s = Helper!TransportSum(p, HpName(p)) /\ l4 = {HpName(p)}
    <3>1. \A x : (CHOOSE n \in {x} : TRUE) = x
      OBVIOUS
    <3>2. QED
      BY <2>1, <2>2, <3>1 DEF HpName
  <2>8. p.proto = 1 => s = p.sum
    BY <2>1, <2>2
  <2>9. /\ p.proto \in {1, 6, 17} /\ p.ol_flags \in SUBSET {"ip", "udp", "tcp"}
        /\ p.sum \in {"none", "wire", "phdr", "summed", "overrun"}
    BY DEF HpRecord
  <2>10. p.proto \in {6, 17} => /\ s \in {"phdr", "summed", "overrun"}
                                /\ (s = "phdr") = (HpName(p) \in Capa)
    BY <2>7 DEF Helper!TransportSum
  <2>11. s \in {"none", "wire", "phdr", "summed", "overrun"} /\ o \in SUBSET {"ip", "udp", "tcp"}
    <3>1. s \in {"none", "wire", "phdr", "summed", "overrun"}
      BY <2>8, <2>9, <2>10
    <3>2. l4 \in SUBSET {"ip", "udp", "tcp"}
      BY <2>1
    <3>3. QED
      BY <2>4, <2>9, <3>1, <3>2
  <2>12. /\ r \in HpRecord /\ r.sum = s /\ r.hdr_checksum = k /\ r.ol_flags = o /\ r.proto = p.proto
         /\ r.version = p.version /\ r.ihl = p.ihl /\ r.total_length = p.total_length
         /\ r.src = p.src /\ r.dst = p.dst /\ r.options = p.options
    BY <2>5, <2>6, <2>11 DEF HpRecord
  <2> HIDE DEF r
  <2>13. HpOptions(r)
    BY <2>12 DEF HpOptions
  <2>14. HpSummed(r)
    <3>1. Helper!calculate_ip_cksum(r) = Helper!calculate_ip_cksum(p)
      BY <2>12, SameSum
    <3>2. QED
      BY <2>3, <2>12, <3>1 DEF HpSummed
  <2>15. HpOffload(r)
    <3>1. HpName(r) = HpName(p)
      BY <2>12 DEF HpName
    <3>2. CASE p.proto \in {6, 17}
      <4>1. s = "phdr" => HpName(p) \in o
        BY <2>4, <2>7, <2>10, <3>2
      <4>2. QED
        BY <2>10, <2>12, <3>1, <3>2, <4>1 DEF HpOffload
    <3>3. CASE p.proto = 1
      <4>1. s = p.sum /\ p.ol_flags \subseteq o
        BY <2>4, <2>8, <3>3
      <4>2. QED
        BY <2>12, <3>1, <4>1 DEF HpOffload
    <3>4. QED
      BY <2>9, <3>2, <3>3
  <2>16. HpGood(r)
    BY <2>12, <2>13, <2>14, <2>15 DEF HpGood
  <2>17. QED
    BY <2>16 DEF r
<1>3. QED
  BY <1>1, <1>2

\* What the packets that are made and received are.
LEMMA HpNumbers ==
    /\ \A n \in Payloads : n \in Nat /\ n + 24 <= Top
    /\ \A l \in Leftover : l \in Word
    /\ 40000 \in Word /\ 30000 \in Word /\ 1 \in Word /\ 2 \in Word /\ 0 \in Word
<1>1. Top = 65535
  BY SMT DEF Top, Helper!WordMax
<1>2. \A n \in Payloads : n \in Nat /\ n + 24 <= Top
  BY <1>1, HeaderAssumption, SMT
<1>3. \A l \in Leftover : l \in Word
  <2>1. \A l \in Leftover : l \in Nat /\ l <= Top
    BY <1>1, HeaderAssumption, SMT
  <2>2. QED
    BY <2>1, TopIs DEF Word
<1>4. 40000 \in Word /\ 30000 \in Word
  BY <1>1, SMT DEF Word
<1>5. 1 \in Word /\ 2 \in Word /\ 0 \in Word
  BY TopIs DEF Word
<1>6. QED
  BY <1>2, <1>3, <1>4, <1>5, SMT

LEMMA SwapWord ==
    ASSUME NEW n \in Word
    PROVE  Helper!Swap16(n) \in Word
<1>1. n \in Nat /\ n <= Top /\ Top = 65535
  BY SMT DEF Word, Top, Helper!WordMax
<1>2. PICK a \in 0 .. 255, b \in Nat : a = n % 256 /\ b = n \div 256 /\ n = 256 * b + a
  BY <1>1, SMT
<1>3. b <= 255
  BY <1>1, <1>2, SMT
<1>4. Helper!Swap16(n) = a * 256 + b
  BY <1>2, SMT DEF Helper!Swap16
<1>5. a * 256 + b \in Nat /\ a * 256 + b <= Top
  BY <1>1, <1>2, <1>3, SMT
<1>6. QED
  BY <1>4, <1>5, TopIs DEF Word

LEMMA HpMade ==
    ASSUME NEW kind \in {"udp", "tcp"}, NEW n \in Payloads, NEW l \in Leftover
    PROVE  HpGood(Helper!onvm_pkt_set_checksums(Helper!Made(kind, n, l)))
<1>1. PICK p : p = Helper!Made(kind, n, l)
  OBVIOUS
<1>2. n \in Nat /\ l \in Word /\ <<>> \in Seq(Word) /\ 0 \in Word /\ 1 \in Word /\ 2 \in Word
  BY HpNumbers
<1>3. Helper!Bytes(kind, n) \in Nat \ {0}
  BY <1>2 DEF Helper!Bytes, Helper!UdpLen, Helper!TcpLen, Helper!Ipv4Len, Helper!EtherLen
<1>4. p = [version |-> 4, ihl |-> 5, proto |-> IF kind = "udp" THEN 17 ELSE 6, src |-> 1, dst |-> 2,
           total_length |-> l, options |-> <<>>, hdr_checksum |-> 0, sum |-> "none",
           ol_flags |-> {"ip", kind}, s_addr |-> "nic", d_addr |-> "bcast", sport |-> "a",
           dport |-> "b", len |-> Helper!Bytes(kind, n)]
  BY <1>1 DEF Helper!Made, Helper!onvm_pkt_fill_ipv4, Helper!onvm_pkt_fill_ether,
              Helper!onvm_pkt_fill_udp, Helper!IP_PROTOCOL_TCP, Helper!IP_PROTOCOL_UDP
<1>5. p \in HpRecord
  BY <1>2, <1>3, <1>4 DEF HpRecord, HpMac
<1>6. p.version = 4 /\ HpOptions(p) /\ HpOffload(p)
  BY <1>4 DEF HpOptions, HpOffload
<1>7. QED
  BY <1>1, <1>5, <1>6, HpSet

LEMMA HpReceived ==
    ASSUME NEW proto \in {1, 6, 17}, NEW v \in {4, 6}, NEW h \in {5, 6}, NEW n \in Payloads,
           Helper!Receive(proto, v, h, n)
    PROVE  HpGood(v2')
<1>1. n \in Nat /\ n + 24 <= Top /\ 0 \in Word /\ 40000 \in Word /\ 30000 \in Word
  BY HpNumbers, SMT
<1>2. n + 4 * h \in Word /\ n + 4 * h + 14 \in Nat \ {0}
  BY <1>1, TopIs DEF Word
<1>3. Helper!Swap16(n + 4 * h) \in Word
  BY <1>2, SwapWord
<1>4. <<7, 8>> \in Seq(Word) /\ Len(<<7, 8>>) = 2
  <2>1. 7 \in Word /\ 8 \in Word
    BY TopIs DEF Word
  <2>2. QED
    BY <2>1
<1>5. PICK x \in Word, y \in Word : x = 40000 /\ y = 30000
  BY <1>1, SMT
<1>6. v2' = [version |-> v, ihl |-> h, proto |-> proto, src |-> x, dst |-> y,
             total_length |-> Helper!Swap16(n + 4 * h),
             options |-> <<7, 8>>, hdr_checksum |-> 0, sum |-> "wire", ol_flags |-> {},
             s_addr |-> "peer", d_addr |-> "nic", sport |-> "a", dport |-> "b",
             len |-> n + 4 * h + 14]
  BY <1>5, SMT DEF Helper!Receive, Helper!EtherLen
<1>7. v2' \in HpRecord
  BY <1>1, <1>2, <1>3, <1>4, <1>6 DEF HpRecord, HpMac
<1>8. v2'.sum = "wire" /\ v2'.options = <<7, 8>>
  BY <1>6
<1>9. HpOptions(v2') /\ HpSummed(v2') /\ HpOffload(v2')
  BY <1>4, <1>8 DEF HpOptions, HpSummed, HpOffload
<1>10. QED
  BY <1>7, <1>9 DEF HpGood

\* The fields that turning addresses round leaves alone.
HpKept(p, r) ==
    /\ r.version = p.version /\ r.ihl = p.ihl /\ r.total_length = p.total_length
    /\ r.proto = p.proto /\ r.options = p.options /\ r.sum = p.sum /\ r.ol_flags = p.ol_flags

LEMMA HpAnswered ==
    ASSUME NEW p, HpGood(p)
    PROVE  HpGood(Helper!onvm_pkt_set_checksums(Helper!onvm_pkt_swap_tcp_hdr(
                    Helper!onvm_pkt_swap_ip_hdr(Helper!onvm_pkt_swap_ether_hdr(p)))))
<1>1. PICK a : a = Helper!onvm_pkt_swap_ether_hdr(p)
  OBVIOUS
<1>2. PICK b : b = Helper!onvm_pkt_swap_ip_hdr(a)
  OBVIOUS
<1>3. PICK c : c = Helper!onvm_pkt_swap_tcp_hdr(b)
  OBVIOUS
<1>4. p \in HpRecord
  BY DEF HpGood
<1>5. a \in HpRecord /\ HpKept(p, a)
  BY <1>1, <1>4 DEF HpRecord, HpKept, Helper!onvm_pkt_swap_ether_hdr
<1>6. b \in HpRecord /\ HpKept(a, b)
  BY <1>2, <1>5 DEF HpRecord, HpKept, Helper!onvm_pkt_swap_ip_hdr
<1>7. c \in HpRecord /\ HpKept(b, c)
  BY <1>3, <1>6 DEF HpRecord, HpKept, Helper!onvm_pkt_swap_tcp_hdr
<1>8. HpKept(p, c)
  BY <1>5, <1>6, <1>7 DEF HpKept
<1>9. HpOptions(c) /\ HpOffload(c)
  BY <1>8 DEF HpKept, HpGood, HpOptions, HpOffload, HpName
<1>10. HpGood(Helper!onvm_pkt_set_checksums(c))
  BY <1>7, <1>9, HpSet
<1>11. QED
  BY <1>1, <1>2, <1>3, <1>10

LEMMA HpForwarded ==
    ASSUME HpGood(v2), Helper!Forward
    PROVE  HpGood(v2')
<1>1. v2 \in HpRecord
  BY DEF HpGood
<1>2. PICK s \in HpMac, d \in HpMac : v2' = [v2 EXCEPT !.s_addr = s, !.d_addr = d]
  <2>1. "nic" \in HpMac /\ "nic2" \in HpMac /\ v2.s_addr \in HpMac /\ v2.d_addr \in HpMac
    BY <1>1 DEF HpRecord, HpMac
  <2>2. \/ v2' = [v2 EXCEPT !.s_addr = "nic", !.d_addr = "nic2"]
        \/ v2' = [v2 EXCEPT !.d_addr = v2.s_addr, !.s_addr = "nic2"]
        \/ v2' = [v2 EXCEPT !.s_addr = v2.d_addr, !.d_addr = "nic2"]
    BY DEF Helper!Forward, Helper!onvm_pkt_set_mac_addr, Helper!onvm_pkt_swap_src_mac_addr,
           Helper!onvm_pkt_swap_dst_mac_addr
  <2>3. [v2 EXCEPT !.d_addr = v2.s_addr, !.s_addr = "nic2"]
           = [v2 EXCEPT !.s_addr = "nic2", !.d_addr = v2.s_addr]
    OBVIOUS
  <2>4. QED
    BY <2>1, <2>2, <2>3
<1>3. v2' \in HpRecord /\ HpKept(v2, v2') /\ v2'.src = v2.src /\ v2'.dst = v2.dst
      /\ v2'.hdr_checksum = v2.hdr_checksum
  BY <1>1, <1>2 DEF HpRecord, HpKept
<1>4. Helper!calculate_ip_cksum(v2') = Helper!calculate_ip_cksum(v2)
  BY <1>3, SameSum DEF HpKept
<1>5. HpOptions(v2') /\ HpSummed(v2') /\ HpOffload(v2')
  BY <1>3, <1>4 DEF HpKept, HpGood, HpOptions, HpSummed, HpOffload, HpName
<1>6. QED
  BY <1>3, <1>5 DEF HpGood

LEMMA HpInit == Helper!Init => HpInv
BY DEF Helper!Init, HpInv

LEMMA HpStep == HpInv /\ [Helper!Next]_(Helper!vars) => HpInv'
<1>1. SUFFICES ASSUME HpInv, [Helper!Next]_(Helper!vars) PROVE HpInv'
  OBVIOUS
<1>2. /\ v1 \in Nat /\ v3 \in Nat /\ v1 + v3 + (IF v2 = Helper!NoPkt THEN 0 ELSE 1) = 2
      /\ v2 # Helper!NoPkt => HpGood(v2)
  BY <1>1 DEF HpInv
<1>k. ASSUME v2 # Helper!NoPkt, HpGood(v2'), UNCHANGED <<v1, v3>> PROVE HpInv'
  <2>1. v2' # Helper!NoPkt
    BY <1>k, HpNotNone DEF HpGood
  <2>2. QED
    BY <1>2, <1>k, <2>1 DEF HpInv
<1>n. ASSUME v2 = Helper!NoPkt, v1 > 0, v1' = v1 - 1, HpGood(v2'), v3' = v3 PROVE HpInv'
  <2>1. v2' # Helper!NoPkt
    BY <1>n, HpNotNone DEF HpGood
  <2>2. v1' \in Nat /\ v1' + v3' + 1 = 2
    BY <1>2, <1>n
  <2>3. QED
    BY <1>2, <1>n, <2>1, <2>2 DEF HpInv
<1>3. ASSUME NEW kind \in {"udp", "tcp"}, NEW n \in Payloads, NEW l \in Leftover,
             Helper!Generate(kind, n, l)
      PROVE  HpInv'
  <2>1. v2 = Helper!NoPkt /\ v1 > 0 /\ v1' = v1 - 1
    BY <1>3 DEF Helper!Generate
  <2>2. CASE Len(Helper!Parts(kind, n)) > Room
    <3>1. v3' = v3 + 1 /\ v2' = v2
      BY <1>3, <2>2 DEF Helper!Generate
    <3>2. v1' \in Nat /\ v3' \in Nat /\ v1' + v3' = 2
      BY <1>2, <2>1, <3>1
    <3>3. QED
      BY <2>1, <3>1, <3>2 DEF HpInv
  <2>3. CASE ~(Len(Helper!Parts(kind, n)) > Room)
    <3>1. v3' = v3 /\ v2' = Helper!onvm_pkt_set_checksums(Helper!Made(kind, n, l))
      BY <1>3, <2>3 DEF Helper!Generate
    <3>2. QED
      BY <1>n, <2>1, <3>1, HpMade
  <2>4. QED
    BY <2>2, <2>3
<1>4. ASSUME NEW proto \in {1, 6, 17}, NEW v \in {4, 6}, NEW h \in {5, 6}, NEW n \in Payloads,
             Helper!Receive(proto, v, h, n)
      PROVE  HpInv'
  <2>1. v2 = Helper!NoPkt /\ v1 > 0 /\ v1' = v1 - 1 /\ v3' = v3
    BY <1>4, SMT DEF Helper!Receive
  <2>2. QED
    BY <1>n, <1>4, <2>1, HpReceived
<1>5. CASE Helper!Answer
  BY <1>2, <1>5, <1>k, HpAnswered DEF Helper!Answer
<1>6. CASE Helper!Forward
  <2>1. v2 # Helper!NoPkt /\ UNCHANGED <<v1, v3>>
    BY <1>6 DEF Helper!Forward
  <2>2. QED
    BY <1>2, <1>6, <1>k, <2>1, HpForwarded
<1>7. CASE Helper!Send
  BY <1>2, <1>7 DEF Helper!Send, HpInv
<1>8. CASE UNCHANGED <<v1, v2, v3>>
  BY <1>2, <1>8 DEF HpInv
<1>9. QED
  BY <1>1, <1>3, <1>4, <1>5, <1>6, <1>7, <1>8
  DEF Helper!Next, Helper!vars, Helper!IP_PROTOCOL_TCP, Helper!IP_PROTOCOL_UDP

LEMMA HpChecked ==
    HpInv => Helper!HeaderVerifies /\ Helper!OffloadConsistent /\ Helper!MbufsAccounted
<1>1. SUFFICES ASSUME HpInv PROVE Helper!HeaderVerifies /\ Helper!OffloadConsistent /\ Helper!MbufsAccounted
  OBVIOUS
<1>2. Helper!HeaderVerifies
  <2>1. SUFFICES ASSUME v2 # Helper!NoPkt, v2.version = 4, v2.sum # "wire", "ip" \notin Capa
                 PROVE  Helper!RawCksum(Helper!IpWords(v2, v2.hdr_checksum)) = Top
    BY DEF Helper!HeaderVerifies, Top
  <2>2. v2 \in HpRecord /\ HpOptions(v2) /\ v2.hdr_checksum = Helper!calculate_ip_cksum(v2)
    BY <1>1, <2>1 DEF HpInv, HpGood, HpSummed
  <2>3. QED
    BY <2>2, ChecksumIs
<1>3. Helper!OffloadConsistent
  BY <1>1 DEF HpInv, HpGood, HpOffload, HpName, Helper!OffloadConsistent, Helper!IP_PROTOCOL_TCP
<1>4. Helper!MbufsAccounted
  BY <1>1 DEF HpInv, Helper!MbufsAccounted
<1>5. QED
  BY <1>2, <1>3, <1>4

\* The header checksum of every packet the software has summed verifies, with any payload length, any
\* leftover in the caller's header and any set of offloads; a checksum is the hardware's or the
\* software's; and no mbuf is lost but with a packet whose parts do not fit
\* (calculate_ip_cksum, onvm_pkt_set_checksums, onvm_pkt_generate_udp and _tcp).
THEOREM HelpersStay == SafeAll => []HelpersSound
<1> DEFINE Inv == which = "helper" => HpInv
<1>1. InitAll => Inv
  BY HpInit DEF InitAll
<1>2. Inv /\ [NextAll]_all => Inv'
  <2>1. SUFFICES ASSUME Inv, [NextAll]_all, which' = "helper" PROVE HpInv'
    OBVIOUS
  <2>2. which = "helper" /\ (Helper!Next \/ UNCHANGED Helper!vars)
    BY <2>1 DEF NextAll, Others, all, parts, Helper!vars
  <2>3. [Helper!Next]_(Helper!vars)
    BY <2>2
  <2>4. QED
    BY <2>1, <2>2, <2>3, HpStep
<1>3. Inv => HelpersSound
  BY HpChecked DEF HelpersSound
<1>4. QED
  BY <1>1, <1>2, <1>3, PTL DEF SafeAll
=============================================================================

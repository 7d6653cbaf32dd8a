---------------------------- MODULE NfSideProofs ----------------------------
(***************************************************************************)
(* What holds of the components of NfSide in every behaviour, whatever     *)
(* their constants are: shared core mode, and for each of the others an    *)
(* invariant, kept by its steps, that implies what is checked of it.       *)
(* MCNfSideProofs puts these together.  As in NfSide the variables of a    *)
(* component are called v1, v2 ...                                         *)
(***************************************************************************)
EXTENDS NfSide, SumProofs, SequenceTheorems, FiniteSetTheorems, TLAPS

-----------------------------------------------------------------------------
(* Shared core mode *)

\* What the proofs need to know of the constants.
LEMMA Constants ==
    /\ RxSize \in Nat \ {0} /\ MsgSize \in Nat \ {0} /\ ReadSize \in Nat \ {0}
    /\ DataSize \in Nat /\ DataSize <= MsgSize
BY SharedCoreAssumption

Message == {"data", "stop"}

\* What the two ends of the message ring do to its contents.
LEMMA RingSteps ==
    ASSUME NEW s \in Seq(Message)
    PROVE  /\ Len(s) \in Nat
           /\ \A m \in Message : Append(s, m) \in Seq(Message) /\ Len(Append(s, m)) = Len(s) + 1
           /\ s # <<>> => Tail(s) \in Seq(Message) /\ Len(Tail(s)) = Len(s) - 1
<1>1. Len(s) \in Nat
  BY LenProperties
<1>2. ASSUME NEW m \in Message
      PROVE  Append(s, m) \in Seq(Message) /\ Len(Append(s, m)) = Len(s) + 1
  BY AppendProperties
<1>3. ASSUME s # <<>> PROVE Tail(s) \in Seq(Message) /\ Len(Tail(s)) = Len(s) - 1
  BY <1>3, HeadTailProperties
<1>4. QED
  BY <1>1, <1>2, <1>3

\* The ranges that the step-by-step proofs compute with.
LEMMA Ranges ==
    ASSUME TypeOK
    PROVE  /\ rx \in Nat /\ rx <= RxSize /\ msgs \in Seq(Message) /\ Len(msgs) <= MsgSize
           /\ asleep \in {0, 1} /\ sem \in Nat
           /\ keep \in BOOLEAN /\ verdict \in BOOLEAN /\ expired \in BOOLEAN /\ workers \in BOOLEAN
BY Constants DEF TypeOK, Message

-----------------------------------------------------------------------------
(* Types *)

\* Steps of the NF keep the types.
LEMMA NfThreadTypes ==
    ASSUME TypeOK, NfThread
    PROVE  TypeOK'
<1> USE DEF LeaveOthers, LeaveSleep, queues
<1>1. /\ rx \in Nat /\ rx <= RxSize /\ msgs \in Seq(Message) /\ Len(msgs) <= MsgSize
      /\ sem \in Nat /\ keep \in BOOLEAN /\ verdict \in BOOLEAN
  BY Ranges
<1>2. CASE NfCheck \/ NfTestRx \/ NfTestMsg \/ NfMark
  BY <1>2 DEF NfCheck, NfTestRx, NfTestMsg, NfMark, TypeOK
<1>3. CASE NfWait
  <2>1. sem' \in Nat
    BY <1>1, <1>3 DEF NfWait
  <2>2. QED
    BY <1>3, <2>1 DEF NfWait, TypeOK
<1>4. CASE NfPackets
  <2>1. rx' \in 0 .. RxSize
    BY <1>1, <1>4, Constants DEF NfPackets
  <2>2. QED
    BY <1>4, <2>1 DEF NfPackets, TypeOK
<1>5. CASE NfMessages
  <2>1. msgs' \in Seq(Message) /\ Len(msgs') <= MsgSize
    BY <1>1, <1>5, RingSteps, Constants DEF NfMessages
  <2>2. keep' \in BOOLEAN /\ nfPc' \in {"actions", "limits"}
    BY <1>5 DEF NfMessages
  <2>3. QED
    BY <1>5, <2>1, <2>2 DEF NfMessages, TypeOK, Message
<1>6. CASE NfActions
  <2>1. verdict' \in BOOLEAN
    BY <1>1, <1>6 DEF NfActions
  <2>2. QED
    BY <1>6, <2>1 DEF NfActions, TypeOK
<1>7. CASE NfStore
  BY <1>7 DEF NfStore, TypeOK
<1>8. CASE NfLimits
  <2>1. keep' \in BOOLEAN
    BY <1>8 DEF NfLimits
  <2>2. QED
    BY <1>8, <2>1 DEF NfLimits, TypeOK
<1>9. QED
  BY <1>2, <1>3, <1>4, <1>5, <1>6, <1>7, <1>8 DEF NfThread

\* So do the steps of everyone else.
LEMMA OtherTypes ==
    ASSUME TypeOK, Next, ~NfThread
    PROVE  TypeOK'
<1> USE DEF LeaveNf, LeaveMgr, queues, actors
<1>1. /\ rx \in Nat /\ rx <= RxSize /\ msgs \in Seq(Message) /\ Len(msgs) <= MsgSize
      /\ sem \in Nat /\ sem + 1 \in Nat
  BY Ranges
<1>2. CASE WakeupThread
  BY <1>1, <1>2 DEF WakeupThread, WakeLook, WakeFlag, WakeClear, WakePost, TypeOK
<1>3. CASE MgrStopWorkers
  <2>1. workers' \in BOOLEAN
    BY <1>3 DEF MgrStopWorkers
  <2>2. QED
    BY <1>3, <2>1 DEF MgrStopWorkers, TypeOK
<1>4. CASE MgrSendStop
  <2>1. msgs' \in Seq(Message) /\ Len(msgs') <= MsgSize
    BY <1>1, <1>4, RingSteps, Constants DEF MgrSendStop, Message
  <2>2. QED
    BY <1>4, <2>1 DEF MgrSendStop, TypeOK, Message
<1>5. CASE MgrFlag \/ MgrClear \/ MgrPost
  BY <1>1, <1>5 DEF MgrFlag, MgrClear, MgrPost, TypeOK
<1>6. CASE SigArrive \/ SignalHandler
  <2>1. CASE SigArrive
    <3>1. keep' \in BOOLEAN
      BY <2>1 DEF SigArrive
    <3>2. QED
      BY <2>1, <3>1 DEF SigArrive, TypeOK
  <2>2. CASE SigFlag
    BY <2>2 DEF SigFlag, TypeOK
  <2>3. CASE SigClear
    BY <2>3 DEF SigClear, TypeOK
  <2>4. CASE SigPost
    BY <1>1, <2>4 DEF SigPost, TypeOK
  <2>5. QED
    BY <1>6, <2>1, <2>2, <2>3, <2>4 DEF SignalHandler
<1>7. CASE PacketArrives
  <2>1. rx' \in 0 .. RxSize
    BY <1>1, <1>7, Constants DEF PacketArrives
  <2>2. QED
    BY <1>7, <2>1 DEF PacketArrives, TypeOK
<1>8. CASE MessageArrives
  <2>1. msgs' \in Seq(Message) /\ Len(msgs') <= MsgSize
    BY <1>1, <1>8, RingSteps, Constants DEF MessageArrives, Message
  <2>2. QED
    BY <1>8, <2>1 DEF MessageArrives, TypeOK, Message
<1>9. CASE TimePasses
  BY <1>9 DEF TimePasses, TypeOK
<1>10. QED
  BY <1>2, <1>3, <1>4, <1>5, <1>6, <1>7, <1>8, <1>9 DEF Next, MasterThread

\* Rings and semaphore stay in their ranges.
LEMMA TypeCorrect == Spec => []TypeOK
<1>1. Init => TypeOK
  <2> SUFFICES ASSUME Init PROVE TypeOK
    OBVIOUS
  <2>1. <<>> \in Seq({"data", "stop"}) /\ Len(<<>>) <= MsgSize /\ 0 \in 0 .. RxSize
    BY Constants, EmptySeq
  <2>2. QED
    BY <2>1 DEF Init, TypeOK
<1>2. TypeOK /\ [Next]_vars => TypeOK'
  <2> SUFFICES ASSUME TypeOK, [Next]_vars PROVE TypeOK'
    OBVIOUS
  <2>1. CASE NfThread
    BY <2>1, NfThreadTypes
  <2>2. CASE Next /\ ~NfThread
    BY <2>2, OtherTypes
  <2>3. CASE UNCHANGED vars
    BY <2>3 DEF vars, queues, actors, TypeOK
  <2>4. QED
    BY <2>1, <2>2, <2>3
<1>3. QED
  BY <1>1, <1>2, PTL DEF Spec

-----------------------------------------------------------------------------
(* The sleeper *)

\* Whoever lowers the flag is then bound to post, and whoever consumes a post
\* is the sleeper itself.
LEMMA ReachableStep ==
    ASSUME TypeOK, SleeperReachable, [Next]_vars
    PROVE  SleeperReachable'
<1>1. sem \in Nat
  BY Ranges
<1>2. CASE NfThread
  BY <1>2 DEF NfThread, NfCheck, NfTestRx, NfTestMsg, NfMark, NfWait, NfPackets, NfMessages,
              NfActions, NfStore, NfLimits, SleeperReachable
<1>3. CASE WakeLook \/ WakeFlag
  BY <1>3 DEF WakeLook, WakeFlag, LeaveNf, SleeperReachable, Waking
<1>4. CASE WakeClear
  BY <1>4 DEF WakeClear, SleeperReachable, Waking
<1>5. CASE WakePost
  BY <1>1, <1>5 DEF WakePost, SleeperReachable
<1>6. CASE MgrStopWorkers \/ MgrSendStop \/ MgrFlag
  BY <1>6 DEF MgrStopWorkers, MgrSendStop, MgrFlag, LeaveNf, SleeperReachable, Waking
<1>7. CASE MgrClear
  BY <1>7 DEF MgrClear, SleeperReachable, Waking
<1>8. CASE MgrPost
  BY <1>1, <1>8 DEF MgrPost, SleeperReachable
<1>9. CASE SigArrive \/ SigFlag
  BY <1>9 DEF SigArrive, SigFlag, LeaveMgr, SleeperReachable, Waking
<1>10. CASE SigClear
  BY <1>10 DEF SigClear, SleeperReachable, Waking
<1>11. CASE SigPost
  BY <1>1, <1>11 DEF SigPost, SleeperReachable
<1>12. CASE PacketArrives \/ MessageArrives \/ TimePasses \/ UNCHANGED vars
  BY <1>12 DEF PacketArrives, MessageArrives, TimePasses, vars, actors, SleeperReachable, Waking
<1>13. QED
  BY <1>2, <1>3, <1>4, <1>5, <1>6, <1>7, <1>8, <1>9, <1>10, <1>11, <1>12
     DEF Next, WakeupThread, MasterThread, SignalHandler

\* An NF that waits on its semaphore is never forgotten, however the wakeup
\* thread, the manager's shutdown and the signal handler interleave with it.
THEOREM SleeperNeverLost == Spec => []SleeperSafe
<1>1. Init => SleeperReachable
  BY DEF Init, SleeperReachable
<1>2. TypeOK /\ SleeperReachable /\ [Next]_vars => SleeperReachable'
  BY ReachableStep
<1>3. QED
  BY <1>1, <1>2, TypeCorrect, PTL DEF Spec, SleeperSafe

-----------------------------------------------------------------------------
(* The notification *)

\* As long as nobody but the wakeup thread wakes the NF: the flag is up only
\* while the NF waits, and the flag, the post to come and the post made exclude
\* each other.
OneToken ==
    sigPc = "idle" /\ mgrPc = "idle" =>
        /\ asleep = 1 => nfPc = "wait" /\ sem = 0 /\ wakePc # "post"
        /\ wakePc = "clear" => asleep = 1
        /\ wakePc = "post" => nfPc = "wait" /\ sem = 0
        /\ sem > 0 => nfPc = "wait" /\ sem = 1

\* Every step keeps it.
LEMMA TokenStep ==
    ASSUME TypeOK, OneToken, [Next]_vars
    PROVE  OneToken'
<1>1. sem \in Nat /\ asleep \in {0, 1}
  BY Ranges
<1>2. CASE NfCheck \/ NfTestRx \/ NfTestMsg \/ NfPackets \/ NfMessages \/ NfActions
           \/ NfStore \/ NfLimits
  BY <1>1, <1>2 DEF NfCheck, NfTestRx, NfTestMsg, NfPackets, NfMessages, NfActions, NfStore,
              NfLimits, LeaveOthers, LeaveSleep, OneToken
<1>3. CASE NfMark
  BY <1>1, <1>3 DEF NfMark, LeaveOthers, OneToken
<1>4. CASE NfWait
  BY <1>1, <1>4 DEF NfWait, LeaveOthers, OneToken
<1>5. CASE WakeLook \/ WakeFlag
  BY <1>1, <1>5 DEF WakeLook, WakeFlag, LeaveNf, OneToken
<1>6. CASE WakeClear
  BY <1>1, <1>6 DEF WakeClear, LeaveNf, OneToken
<1>7. CASE WakePost
  BY <1>1, <1>7 DEF WakePost, LeaveNf, OneToken
<1>8. CASE MgrStopWorkers \/ MasterThread
  BY <1>8 DEF MgrStopWorkers, MasterThread, MgrSendStop, MgrFlag, MgrClear, MgrPost, OneToken
<1>9. CASE SigArrive \/ SignalHandler
  BY <1>9 DEF SigArrive, SignalHandler, SigFlag, SigClear, SigPost, OneToken
<1>10. CASE PacketArrives \/ MessageArrives \/ TimePasses \/ UNCHANGED vars
  BY <1>10 DEF PacketArrives, MessageArrives, TimePasses, vars, actors, OneToken
<1>11. QED
  BY <1>2, <1>3, <1>4, <1>5, <1>6, <1>7, <1>8, <1>9, <1>10 DEF Next, NfThread, WakeupThread

\* The wakeup thread of the manager notifies a sleeping NF once and one that is
\* awake not at all, whatever it reads of rings that change meanwhile.
THEOREM NotifiedOnce == Spec => []OneNotification
<1>1. Init => OneToken
  BY DEF Init, OneToken
<1>2. TypeOK /\ OneToken /\ [Next]_vars => OneToken'
  BY TokenStep
<1>3. TypeOK /\ OneToken => OneNotification
  BY Ranges DEF OneToken, OneNotification
<1>4. QED
  BY <1>1, <1>2, <1>3, TypeCorrect, PTL DEF Spec

-----------------------------------------------------------------------------
(* The load balancer: v1 is server_count, v2 the flow table ft, v3 num_stored, *)
(* v4 elapsed, v5 the clock and v6 the packet handled last.                  *)

LbEntry ==
    [used : {TRUE}, dest : Int, last : Nat, active : {TRUE}, mac : Flow \cup {"server"},
     born : {"client", "server"}]
LbTable == [Flow -> LbEntry \cup {Lb!None}]

\* Every entry has learned an address, and the client's own if a client made it.
LbLearned(t) ==
    \A f \in Flow : t[f].used /\ t[f].born = "client" => t[f].mac = f

LbInv ==
    /\ v1 \in Nat /\ v4 \in Nat /\ v5 \in Nat /\ v4 <= v5
    /\ v2 \in LbTable /\ LbLearned(v2)
    /\ v3 = Cardinality(Lb!Used) /\ v3 <= TableSize
    /\ v6.to = "client" => v6.flow \in Flow
    /\ Lb!RepliesToClient

\* Cardinality is that of every module.
LEMMA SameSize ==
    \A S : /\ Lb!Cardinality(S) = Cardinality(S) /\ Ft!Cardinality(S) = Cardinality(S)
           /\ Director!Cardinality(S) = Cardinality(S)
BY DEF Lb!Cardinality, Ft!Cardinality, Director!Cardinality, Cardinality

\* Sets of flows are finite, and what is taken away from one is counted.
LEMMA FlowSets ==
    ASSUME NEW A \in SUBSET Flow, NEW B \in SUBSET A
    PROVE  /\ Cardinality(A) \in Nat /\ Cardinality(B) \in Nat
           /\ Cardinality(B) = Cardinality(A) - Cardinality(A \ B)
           /\ \A f \in Flow \ B : Cardinality(B \cup {f}) = Cardinality(B) + 1
<1>1. IsFiniteSet(A) /\ IsFiniteSet(B) /\ IsFiniteSet(A \ B)
  BY FlowAssumption, FS_Subset
<1>2. Cardinality(A) \in Nat /\ Cardinality(B) \in Nat /\ Cardinality(A \ B) \in Nat
  BY <1>1, FS_CardinalityType
<1>3. Cardinality(A \ B) = Cardinality(A) - Cardinality(A \cap B) /\ A \cap B = B
  BY <1>1, FS_Difference
<1>4. \A f \in Flow \ B : Cardinality(B \cup {f}) = Cardinality(B) + 1
  BY <1>1, FS_AddElement
<1>5. QED
  BY <1>2, <1>3, <1>4

\* A table of which expired entries were taken away.
Thinned(t) ==
    \A g \in Flow : t[g] = v2[g] \/ (t[g] = Lb!None /\ v2[g].used /\ Lb!Expired(v2[g]))

\* clear_entries takes away what has expired, and nothing else.
LEMMA LbClear ==
    ASSUME v2 \in LbTable
    PROVE  Lb!ClearEntries(v2) \in LbTable /\ Thinned(Lb!ClearEntries(v2))
<1>1. ASSUME NEW g \in Flow
      PROVE  /\ Lb!ClearEntries(v2)[g] \in LbEntry \cup {Lb!None}
             /\ \/ Lb!ClearEntries(v2)[g] = v2[g]
                \/ Lb!ClearEntries(v2)[g] = Lb!None /\ v2[g].used /\ Lb!Expired(v2[g])
  <2>1. v2[g] \in LbEntry \/ v2[g] = Lb!None
    BY DEF LbTable
  <2>2. CASE v2[g] = Lb!None
    BY <2>2 DEF Lb!ClearEntries, Lb!None
  <2>3. CASE v2[g] \in LbEntry
    <3>1. [v2[g] EXCEPT !.active = TRUE] = v2[g] /\ v2[g].used
      BY <2>3 DEF LbEntry
    <3>2. QED
      BY <2>3, <3>1 DEF Lb!ClearEntries
  <2>4. QED
    BY <2>1, <2>2, <2>3
<1>2. Lb!ClearEntries(v2) = [g \in Flow |-> Lb!ClearEntries(v2)[g]]
  BY DEF Lb!ClearEntries
<1>3. QED
  BY <1>1, <1>2 DEF LbTable, Thinned

\* What packet_handler does to the table: an entry is touched, or some are cleared
\* and one may be made.
LbChange(f, n) ==
    \/ /\ v2[f].used /\ v2' = [v2 EXCEPT ![f].last = v4] /\ n = v3
    \/ /\ ~v2[f].used
       /\ \E t \in LbTable :
             /\ Thinned(t)
             /\ \/ v2' = t /\ n = Cardinality({g \in Flow : t[g].used})
                \/ /\ Cardinality({g \in Flow : t[g].used}) < TableSize
                   /\ \E e \in LbEntry : v2' = [t EXCEPT ![f] = e] /\ (e.born = "client" => e.mac = f)
                   /\ n = Cardinality({g \in Flow : t[g].used}) + 1

\* The first packet of an entry has its address learned, the others do not.
LEMMA LearnsFirst ==
    /\ \A e \in LbEntry : \A m : Lb!Learn(e, m) = e
    /\ \A d, l, m, p :
           Lb!Learn([used |-> TRUE, dest |-> d, last |-> l, active |-> FALSE, mac |-> "none", born |-> p], m)
             = [used |-> TRUE, dest |-> d, last |-> l, active |-> TRUE, mac |-> m, born |-> p]
<1>1. ASSUME NEW e \in LbEntry, NEW m PROVE Lb!Learn(e, m) = e
  BY DEF Lb!Learn, LbEntry
<1>2. ASSUME NEW d, NEW l, NEW m, NEW p
      PROVE  Lb!Learn([used |-> TRUE, dest |-> d, last |-> l, active |-> FALSE, mac |-> "none",
                       born |-> p], m)
               = [used |-> TRUE, dest |-> d, last |-> l, active |-> TRUE, mac |-> m, born |-> p]
  <2> DEFINE x == [used |-> TRUE, dest |-> d, last |-> l, active |-> FALSE, mac |-> "none", born |-> p]
  <2>1. x.active = FALSE
    OBVIOUS
  <2>2. Lb!Learn(x, m) = [x EXCEPT !.active = TRUE, !.mac = m]
    BY <2>1 DEF Lb!Learn
  <2>3. QED
    BY <2>2
<1>3. QED
  BY <1>1, <1>2

LEMMA LbHandled ==
    ASSUME LbInv, NEW f \in Flow, NEW port \in {"client", "server"}, Lb!Handle(f, port)
    PROVE  /\ LbChange(f, v3') /\ v1' = v1 /\ v4' = v4 /\ v5' = v5
           /\ v6'.to = "client" => v6'.flow = f /\ v6'.mac = v2'[f].mac
<1> DEFINE r == Lb!LookupEntry(f, port)
           e == Lb!Learn(r.t[f], IF port = "client" THEN f ELSE "server")
<1>1. /\ IF ~r.ok THEN v2' = r.t /\ v3' = r.n /\ v6' = [to |-> "drop"]
         ELSE /\ v2' = [r.t EXCEPT ![f] = e] /\ v3' = r.n
              /\ v6' = IF port = "server" THEN [to |-> "client", flow |-> f, mac |-> e.mac]
                       ELSE [to |-> "server", flow |-> f, dest |-> e.dest]
      /\ v1 > 0 /\ v1' = v1 /\ v4' = v4 /\ v5' = v5
  BY DEF Lb!Handle
<1>t. v1 \in Nat /\ v4 \in Nat /\ v2 \in LbTable /\ v3 = Cardinality(Lb!Used)
  BY DEF LbInv
<1>2. CASE v2[f].used
  <2>1. /\ r = [t |-> [v2 EXCEPT ![f].last = v4], n |-> v3, ok |-> TRUE]
        /\ r.ok /\ r.n = v3 /\ r.t = [v2 EXCEPT ![f].last = v4]
    BY <1>2 DEF Lb!LookupEntry
  <2>2. v2[f] \in LbEntry
    BY <1>t, <1>2 DEF LbTable, Lb!None
  <2>3. r.t[f] \in LbEntry
    <3>1. r.t[f] = [v2[f] EXCEPT !.last = v4]
      <4> HIDE DEF r
      <4>1. QED
        BY <2>1, <1>t DEF LbTable
    <3>2. [v2[f] EXCEPT !.last = v4] \in LbEntry
      BY <2>2, <1>t DEF LbEntry
    <3>3. QED
      BY <3>1, <3>2
  <2>4. e = r.t[f]
    BY <2>3, LearnsFirst
  <2>5. r.ok /\ v2' = r.t /\ v3' = v3
    <3>1. [r.t EXCEPT ![f] = r.t[f]] = r.t
      BY <1>t, <2>1 DEF LbTable
    <3> HIDE DEF r, e
    <3>2. QED
      BY <1>1, <2>1, <2>4, <3>1
  <2>6. v2'[f].mac = e.mac
    BY <2>4, <2>5
  <2> HIDE DEF e, r
  <2>7. v6'.to = "client" => v6'.flow = f /\ v6'.mac = v2'[f].mac
    BY <1>1, <2>5, <2>6
  <2>8. LbChange(f, v3')
    BY <1>2, <2>1, <2>5 DEF LbChange
  <2>9. QED
    BY <1>1, <2>7, <2>8
<1>3. CASE ~v2[f].used
  <2> DEFINE t == IF TableSize - 1 - v3 = 0 THEN Lb!ClearEntries(v2) ELSE v2
             U == {g \in Flow : t[g].used}
  <2>1. t \in LbTable /\ Thinned(t)
    BY <1>t, LbClear DEF Thinned
  <2>2. Lb!Stored(t) = Cardinality(U)
    <3>1. U \in SUBSET Lb!Used /\ Lb!Used \in SUBSET Flow
      BY <2>1 DEF Thinned, Lb!Used, Lb!None
    <3>2. {g \in Flow : v2[g].used /\ ~t[g].used} = Lb!Used \ U
      BY DEF Lb!Used
    <3>3. Lb!Stored(t) = v3 - Cardinality(Lb!Used \ U)
      BY <3>2, SameSize DEF Lb!Stored
    <3> HIDE DEF U, t
    <3>4. QED
      BY <1>t, <3>1, <3>3, FlowSets
  <2>3. r = IF ~(Cardinality(U) < TableSize) THEN [t |-> t, n |-> Lb!Stored(t), ok |-> FALSE]
            ELSE [t |-> [t EXCEPT ![f] = [used |-> TRUE, dest |-> (Lb!Stored(t) + 1) % v1,
                                          last |-> v4, active |-> FALSE, mac |-> "none",
                                          born |-> port]],
                  n |-> Lb!Stored(t) + 1, ok |-> TRUE]
    BY <1>3, SameSize DEF Lb!LookupEntry
  <2>4. Cardinality(U) \in Nat
    BY FlowSets
  <2> HIDE DEF t
  <2>5. CASE ~(Cardinality(U) < TableSize)
    <3>1. ~r.ok /\ v2' = t /\ v3' = Cardinality(U) /\ v6'.to = "drop"
      BY <1>1, <2>2, <2>3, <2>5
    <3>2. QED
      BY <1>1, <1>3, <2>1, <3>1 DEF LbChange
  <2>6. CASE Cardinality(U) < TableSize
    <3> DEFINE new == [used |-> TRUE, dest |-> (Cardinality(U) + 1) % v1, last |-> v4,
                       active |-> TRUE, mac |-> IF port = "client" THEN f ELSE "server",
                       born |-> port]
    <3>1. r.ok /\ r.n = Cardinality(U) + 1
      BY <2>2, <2>3, <2>6
    <3>2. r.t = [t EXCEPT ![f] = [used |-> TRUE, dest |-> (Cardinality(U) + 1) % v1,
                                  last |-> v4, active |-> FALSE, mac |-> "none", born |-> port]]
      BY <2>2, <2>3, <2>6
    <3>3. e = new
      <4>1. r.t[f] = [used |-> TRUE, dest |-> (Cardinality(U) + 1) % v1,
                      last |-> v4, active |-> FALSE, mac |-> "none", born |-> port]
        <5> HIDE DEF r, U
        <5>1. QED
          BY <2>1, <3>2 DEF LbTable
      <4> HIDE DEF r, U
      <4>2. QED
        BY <4>1, LearnsFirst
    <3>4. v2' = [t EXCEPT ![f] = new] /\ v3' = Cardinality(U) + 1
      <4>1. v2' = [r.t EXCEPT ![f] = new] /\ v3' = r.n
        <5> HIDE DEF r, e, new
        <5>1. QED
          BY <1>1, <3>1, <3>3
      <4>2. [r.t EXCEPT ![f] = new] = [t EXCEPT ![f] = new]
        <5> HIDE DEF r, e, new
        <5>1. QED
          BY <2>1, <3>2 DEF LbTable
      <4>3. QED
        BY <3>1, <4>1, <4>2
    <3>5. (Cardinality(U) + 1) % v1 \in Int
      BY <1>1, <1>t, <2>4
    <3>6. new \in LbEntry /\ (new.born = "client" => new.mac = f)
      BY <1>t, <3>5 DEF LbEntry
    <3>7. v2'[f] = new
      BY <2>1, <3>4 DEF LbTable
    <3> HIDE DEF r, e, new
    <3>8. v6'.to = "client" => v6'.flow = f /\ v6'.mac = v2'[f].mac
      BY <1>1, <3>1, <3>3, <3>7
    <3>9. LbChange(f, v3')
      BY <1>3, <2>1, <2>6, <3>4, <3>6 DEF LbChange
    <3>10. QED
      BY <1>1, <3>8, <3>9
  <2>7. QED
    BY <2>5, <2>6
<1>4. QED
  BY <1>2, <1>3

\* The invariant after a change of the table.
LEMMA LbChangeKeeps ==
    ASSUME LbInv, NEW f \in Flow, LbChange(f, v3'), v4' = v4
    PROVE  /\ v2' \in LbTable /\ LbLearned(v2)'
           /\ v3' = Cardinality(Lb!Used') /\ v3' <= TableSize
           /\ \A g \in Lb!Used : IF v2'[g].used THEN v2'[g].dest = v2[g].dest
                                 ELSE v5 - v2[g].last >= ExpireTime
<1>t. /\ v2 \in LbTable /\ LbLearned(v2) /\ v4 \in Nat /\ v5 \in Nat /\ v4 <= v5
      /\ v3 = Cardinality(Lb!Used) /\ v3 <= TableSize
  BY DEF LbInv
<1>e. \A g \in Flow : v2[g].used => v2[g] \in LbEntry
  BY <1>t DEF LbTable, Lb!None
<1>1. CASE v2[f].used /\ v2' = [v2 EXCEPT ![f].last = v4] /\ v3' = v3
  <2> DEFINE x == [v2[f] EXCEPT !.last = v4]
  <2>1. v2' = [v2 EXCEPT ![f] = x]
    BY <1>1, <1>t DEF LbTable
  <2>2. x \in LbEntry /\ x.used /\ x.dest = v2[f].dest /\ x.mac = v2[f].mac /\ x.born = v2[f].born
    BY <1>1, <1>e, <1>t DEF LbEntry
  <2> HIDE DEF x
  <2>3. v2' \in LbTable
    BY <1>t, <2>1, <2>2 DEF LbTable
  <2>4. \A g \in Flow : /\ v2'[g].used = v2[g].used
                        /\ v2[g].used => /\ v2'[g].dest = v2[g].dest /\ v2'[g].mac = v2[g].mac
                                         /\ v2'[g].born = v2[g].born
    BY <1>t, <1>1, <2>1, <2>2 DEF LbTable, LbEntry
  <2>5. Lb!Used' = Lb!Used
    BY <2>4 DEF Lb!Used
  <2>6. LbLearned(v2)'
    BY <1>t, <2>4 DEF LbLearned
  <2>7. QED
    BY <1>t, <1>1, <2>3, <2>4, <2>5, <2>6 DEF Lb!Used
<1>2. ASSUME NEW t \in LbTable, Thinned(t)
      PROVE  /\ LbLearned(t)
             /\ {g \in Flow : t[g].used} \in SUBSET Lb!Used
             /\ \A g \in Lb!Used : IF t[g].used THEN t[g] = v2[g]
                                   ELSE v5 - v2[g].last >= ExpireTime
  <2>1. \A g \in Flow : t[g].used => t[g] = v2[g]
    BY <1>2 DEF Thinned, Lb!None
  <2>2. LbLearned(t) /\ {g \in Flow : t[g].used} \in SUBSET Lb!Used
    BY <1>t, <2>1 DEF LbLearned, Lb!Used
  <2>3. ASSUME NEW g \in Lb!Used, ~t[g].used PROVE v5 - v2[g].last >= ExpireTime
    <3>1. g \in Flow /\ v2[g].used
      BY DEF Lb!Used
    <3>2. Lb!Expired(v2[g]) /\ v2[g].last \in Nat
      BY <1>2, <1>e, <2>3, <3>1 DEF Thinned, LbEntry
    <3>3. QED
      BY <1>t, <3>2, FlowAssumption DEF Lb!Expired
  <2>4. QED
    BY <2>1, <2>2, <2>3 DEF Lb!Used
<1>3. ASSUME NEW t \in LbTable, Thinned(t), v2' = t,
             v3' = Cardinality({g \in Flow : t[g].used})
      PROVE  /\ v2' \in LbTable /\ LbLearned(v2)'
             /\ v3' = Cardinality(Lb!Used') /\ v3' <= TableSize
             /\ \A g \in Lb!Used : IF v2'[g].used THEN v2'[g].dest = v2[g].dest
                                   ELSE v5 - v2[g].last >= ExpireTime
  <2> DEFINE U == {g \in Flow : t[g].used}
  <2>1. Lb!Used' = U /\ LbLearned(v2)'
    BY <1>2, <1>3 DEF Lb!Used, LbLearned
  <2>2. U \in SUBSET Lb!Used /\ Lb!Used \in SUBSET Flow
    BY <1>2, <1>3 DEF Lb!Used
  <2> HIDE DEF U
  <2>3. Cardinality(U) <= Cardinality(Lb!Used) /\ Cardinality(U) \in Nat /\ Cardinality(Lb!Used) \in Nat
    <3>1. /\ Cardinality(Lb!Used) \in Nat /\ Cardinality(U) \in Nat
          /\ Cardinality(U) = Cardinality(Lb!Used) - Cardinality(Lb!Used \ U)
      BY <2>2, FlowSets
    <3>2. Cardinality(Lb!Used \ U) \in Nat
      BY <2>2, FlowSets
    <3>3. QED
      BY <3>1, <3>2
  <2>4. QED
    BY <1>t, <1>2, <1>3, <2>1, <2>3, FlowAssumption DEF U
<1>4. ASSUME NEW t \in LbTable, Thinned(t), ~v2[f].used, NEW e \in LbEntry,
             v2' = [t EXCEPT ![f] = e], e.born = "client" => e.mac = f,
             Cardinality({g \in Flow : t[g].used}) < TableSize,
             v3' = Cardinality({g \in Flow : t[g].used}) + 1
      PROVE  /\ v2' \in LbTable /\ LbLearned(v2)'
             /\ v3' = Cardinality(Lb!Used') /\ v3' <= TableSize
             /\ \A g \in Lb!Used : IF v2'[g].used THEN v2'[g].dest = v2[g].dest
                                   ELSE v5 - v2[g].last >= ExpireTime
  <2> DEFINE U == {g \in Flow : t[g].used}
  <2>1. v2' \in LbTable /\ v2'[f] = e /\ e.used /\ \A g \in Flow \ {f} : v2'[g] = t[g]
    BY <1>4 DEF LbTable, LbEntry
  <2>2. LbLearned(v2)'
    BY <1>2, <1>4, <2>1 DEF LbLearned
  <2>3. U \in SUBSET Lb!Used /\ f \notin U
    BY <1>2, <1>4 DEF Lb!Used
  <2>4. Lb!Used' = U \cup {f}
    BY <2>1 DEF Lb!Used
  <2>5. \A g \in Lb!Used : g # f /\ g \in Flow
    BY <1>4 DEF Lb!Used
  <2>6. Cardinality(U \cup {f}) = Cardinality(U) + 1 /\ Cardinality(U) \in Nat
    BY <2>3, FlowSets
  <2> HIDE DEF U
  <2>7. v3' = Cardinality(Lb!Used') /\ v3' <= TableSize
    BY <1>4, <2>4, <2>6, FlowAssumption DEF U
  <2>8. QED
    BY <1>2, <1>4, <2>1, <2>2, <2>5, <2>7
<1>5. QED
  BY <1>1, <1>3, <1>4 DEF LbChange

\* Every step of the load balancer keeps the invariant, and entries until they expire.
LEMMA LbStep ==
    ASSUME LbInv, [Lb!Next]_(Lb!vars)
    PROVE  LbInv' /\ Lb!StickyStep
<1>t. /\ v2 \in LbTable /\ LbLearned(v2) /\ v1 \in Nat /\ v4 \in Nat /\ v5 \in Nat /\ v4 <= v5
      /\ v3 = Cardinality(Lb!Used) /\ v3 <= TableSize
      /\ (v6.to = "client" => v6.flow \in Flow) /\ Lb!RepliesToClient
  BY DEF LbInv
<1>1. CASE v2' = v2 /\ v3' = v3
  <2>1. Lb!StickyStep /\ Lb!Used' = Lb!Used /\ LbLearned(v2)'
    BY <1>1, <1>t DEF Lb!StickyStep, Lb!Used, LbLearned
  <2>2. ASSUME v1' \in Nat, v4' \in Nat, v5' \in Nat, v4' <= v5', v6' = v6 \/ v6'.to = "drop"
        PROVE  LbInv'
    BY <1>1, <1>t, <2>1, <2>2 DEF LbInv, Lb!RepliesToClient
  <2>3. CASE \E n \in Backends : Lb!ParseBackendConfig(n)
    BY <1>t, <2>1, <2>2, <2>3, FlowAssumption DEF Lb!ParseBackendConfig
  <2>4. CASE Lb!Tick \/ Lb!Callback \/ Lb!HandleBad \/ UNCHANGED Lb!vars
    BY <1>t, <2>1, <2>2, <2>4 DEF Lb!Tick, Lb!Callback, Lb!HandleBad, Lb!vars
  <2>5. CASE \E f \in Flow, port \in {"client", "server"} : Lb!Handle(f, port)
    <3>1. PICK f \in Flow, port \in {"client", "server"} : Lb!Handle(f, port)
      BY <2>5
    <3>2. /\ v1' = v1 /\ v4' = v4 /\ v5' = v5
          /\ v6'.to = "client" => v6'.flow = f /\ v6'.mac = v2'[f].mac
      BY <3>1, LbHandled
    <3>3. Lb!RepliesToClient'
      BY <2>1, <3>2 DEF Lb!RepliesToClient, LbLearned
    <3>4. QED
      BY <1>1, <1>t, <2>1, <3>2, <3>3 DEF LbInv
  <2>6. QED
    BY <2>3, <2>4, <2>5 DEF Lb!Next
<1>2. CASE \E f \in Flow, port \in {"client", "server"} : Lb!Handle(f, port)
  <2>1. PICK f \in Flow, port \in {"client", "server"} : Lb!Handle(f, port)
    BY <1>2
  <2>2. /\ LbChange(f, v3') /\ v1' = v1 /\ v4' = v4 /\ v5' = v5
        /\ v6'.to = "client" => v6'.flow = f /\ v6'.mac = v2'[f].mac
    BY <2>1, LbHandled
  <2>3. /\ v2' \in LbTable /\ LbLearned(v2)'
        /\ v3' = Cardinality(Lb!Used') /\ v3' <= TableSize
        /\ Lb!StickyStep
    BY <2>2, LbChangeKeeps DEF Lb!StickyStep
  <2>4. Lb!RepliesToClient'
    BY <2>2, <2>3 DEF Lb!RepliesToClient, LbLearned
  <2>5. QED
    BY <1>t, <2>2, <2>3, <2>4 DEF LbInv
<1>3. QED
  BY <1>1, <1>2 DEF Lb!Next, Lb!ParseBackendConfig, Lb!Tick, Lb!Callback, Lb!HandleBad, Lb!vars

LEMMA LbInit == ASSUME Lb!Init PROVE LbInv
<1>1. v2 \in LbTable /\ Lb!Used = {} /\ LbLearned(v2)
  BY DEF Lb!Init, LbTable, Lb!Used, Lb!None, LbLearned
<1>2. Cardinality({}) = 0
  BY FS_EmptySet
<1>3. QED
  BY <1>1, <1>2, FlowAssumption DEF Lb!Init, LbInv, Lb!Nothing, Lb!RepliesToClient

-----------------------------------------------------------------------------
(* The flow tracker: v1 is the table ft, v3 elapsed, v5 the clock and v6 the *)
(* number of packets of each flow since its entry was made.                  *)

FtEntry == [used : {TRUE}, count : Int, last : Nat, active : BOOLEAN]
FtTable == [Flow -> FtEntry \cup {Ft!None}]

FtInv ==
    /\ v1 \in FtTable /\ v3 \in Nat /\ v5 \in Nat /\ v3 <= v5
    /\ v6 \in [Flow -> Int]
    /\ Ft!CountsPackets

\* An entry after its mark was set.
Marked(x, y) == y \in FtEntry /\ y.count = x.count /\ y.last = x.last

\* update_status touches nothing but the marks.
LEMMA FtStatus ==
    ASSUME v1 \in FtTable, NEW e \in Nat
    PROVE  /\ Ft!Status(v1, e) \in FtTable
           /\ \A g \in Flow : IF v1[g].used
                              THEN /\ Marked(v1[g], Ft!Status(v1, e)[g])
                                   /\ Ft!Status(v1, e)[g].active <=> e - v1[g].last < ExpireTime
                              ELSE Ft!Status(v1, e)[g] = v1[g] /\ v1[g] = Ft!None
<1>1. ASSUME NEW g \in Flow, v1[g].used
      PROVE  /\ Marked(v1[g], Ft!Status(v1, e)[g])
             /\ Ft!Status(v1, e)[g].active <=> e - v1[g].last < ExpireTime
  <2>1. v1[g] \in FtEntry
    BY <1>1 DEF FtTable, Ft!None
  <2>2. Ft!Status(v1, e)[g] = [v1[g] EXCEPT !.active = e - v1[g].last < ExpireTime]
    BY <1>1 DEF Ft!Status
  <2>3. PICK b \in BOOLEAN : b <=> e - v1[g].last < ExpireTime
    OBVIOUS
  <2>4. Ft!Status(v1, e)[g] = [v1[g] EXCEPT !.active = b]
    BY <2>2, <2>3
  <2>5. /\ [v1[g] EXCEPT !.active = b] \in FtEntry
        /\ [v1[g] EXCEPT !.active = b].count = v1[g].count
        /\ [v1[g] EXCEPT !.active = b].last = v1[g].last
        /\ [v1[g] EXCEPT !.active = b].active = b
    BY <2>1 DEF FtEntry
  <2>6. QED
    BY <2>3, <2>4, <2>5 DEF Marked
<1>2. ASSUME NEW g \in Flow, ~v1[g].used
      PROVE  Ft!Status(v1, e)[g] = v1[g] /\ v1[g] = Ft!None
  BY <1>2 DEF Ft!Status, FtTable, FtEntry
<1>3. \A g \in Flow : Ft!Status(v1, e)[g] \in FtEntry \cup {Ft!None}
  BY <1>1, <1>2 DEF Marked
<1>4. Ft!Status(v1, e) = [g \in Flow |-> Ft!Status(v1, e)[g]]
  BY DEF Ft!Status
<1>5. QED
  BY <1>1, <1>2, <1>3, <1>4 DEF FtTable

\* clear_entries takes away what has expired, and nothing else.
LEMMA FtClear ==
    ASSUME v1 \in FtTable, v3 \in Nat
    PROVE  /\ Ft!Cleared \in FtTable
           /\ \A g \in Flow : IF Ft!Cleared[g].used
                              THEN v1[g].used /\ Marked(v1[g], Ft!Cleared[g])
                              ELSE v1[g].used => v3 - v1[g].last >= ExpireTime
<1> DEFINE t == Ft!Status(v1, v3)
<1>1. /\ t \in FtTable
      /\ \A g \in Flow : IF v1[g].used
                         THEN Marked(v1[g], t[g]) /\ (t[g].active <=> v3 - v1[g].last < ExpireTime)
                         ELSE t[g] = v1[g] /\ v1[g] = Ft!None
  BY FtStatus
<1> HIDE DEF t
<1>2. Ft!Cleared = [g \in Flow |-> IF t[g].used /\ t[g].active THEN t[g] ELSE Ft!None]
  BY DEF Ft!Cleared, t
<1>3. Ft!Cleared \in FtTable
  BY <1>1, <1>2 DEF FtTable
<1>4. \A g \in Flow : v1[g].used => v1[g].last \in Nat
  <2>1. \A g \in Flow : v1[g].used => v1[g] \in FtEntry
    BY DEF FtTable, Ft!None
  <2>2. QED
    BY <2>1 DEF FtEntry
<1>5. ASSUME NEW g \in Flow
      PROVE  IF Ft!Cleared[g].used THEN v1[g].used /\ Marked(v1[g], Ft!Cleared[g])
             ELSE v1[g].used => v3 - v1[g].last >= ExpireTime
  <2>1. CASE ~v1[g].used
    <3>1. ~t[g].used /\ Ft!Cleared[g] = Ft!None
      BY <1>1, <1>2, <2>1
    <3>2. QED
      BY <2>1, <3>1 DEF Ft!None
  <2>2. CASE v1[g].used
    <3>1. t[g].used
      BY <1>1, <2>2 DEF Marked, FtEntry
    <3>2. CASE t[g].active
      BY <1>1, <1>2, <2>2, <3>1, <3>2
    <3>3. CASE ~t[g].active
      <4>1. ~Ft!Cleared[g].used
        BY <1>2, <3>3 DEF Ft!None
      <4>2. QED
        BY <1>1, <1>4, <2>2, <3>3, <4>1, FlowAssumption
    <3>4. QED
      BY <3>2, <3>3
  <2>3. QED
    BY <2>1, <2>2
<1>6. QED
  BY <1>3, <1>5

\* An entry that counts a packet.
LEMMA FtTouch ==
    ASSUME NEW y \in FtEntry, NEW n \in Nat
    PROVE  LET x == [y EXCEPT !.count = @ + 1, !.last = n] IN
           x \in FtEntry /\ x.count = y.count + 1 /\ x.used
<1> DEFINE z == [y EXCEPT !.count = y.count + 1]
<1>1. z \in FtEntry /\ z.count = y.count + 1 /\ z.used
  <2>1. PICK k \in Int : k = y.count + 1
    BY DEF FtEntry
  <2>2. [y EXCEPT !.count = k] \in FtEntry /\ [y EXCEPT !.count = k].count = k
    BY DEF FtEntry
  <2>3. [y EXCEPT !.count = k].used
    BY <2>2 DEF FtEntry
  <2>4. QED
    BY <2>1, <2>2, <2>3
<1>2. [y EXCEPT !.count = @ + 1, !.last = n] = [z EXCEPT !.last = n]
  OBVIOUS
<1> HIDE DEF z
<1>3. [z EXCEPT !.last = n] \in FtEntry /\ [z EXCEPT !.last = n].count = z.count
  BY <1>1 DEF FtEntry
<1>4. [z EXCEPT !.last = n].used
  BY <1>3 DEF FtEntry
<1>5. QED
  BY <1>1, <1>2, <1>3, <1>4

\* Every step of the flow tracker keeps the counts, and entries until they expire.
LEMMA FtStep ==
    ASSUME FtInv, [Ft!Next]_(Ft!vars)
    PROVE  FtInv' /\ Ft!SilentStep
<1>t. /\ v1 \in FtTable /\ v3 \in Nat /\ v5 \in Nat /\ v3 <= v5 /\ v6 \in [Flow -> Int]
      /\ \A g \in Flow : v1[g].used => v1[g].count = v6[g] - 1
  BY DEF FtInv, Ft!CountsPackets, Ft!Used
<1>e. \A g \in Flow : v1[g].used => v1[g] \in FtEntry
  BY <1>t DEF FtTable, Ft!None
<1>g. ASSUME v1' \in FtTable, v3' \in Nat, v5' \in Nat, v3' <= v5', v6' \in [Flow -> Int],
             \A g \in Flow : v1'[g].used => v1'[g].count = v6'[g] - 1
      PROVE  FtInv'
  BY <1>g DEF FtInv, Ft!CountsPackets, Ft!Used
<1>1. CASE Ft!Tick \/ UNCHANGED Ft!vars
  BY <1>1, <1>t, <1>g DEF Ft!Tick, Ft!vars, Ft!SilentStep, Ft!Used
<1>2. CASE Ft!Callback
  <2>1. CASE v1' = v1
    BY <1>2, <2>1, <1>t, <1>g DEF Ft!Callback, Ft!SilentStep, Ft!Used
  <2>2. CASE v1' = Ft!Status(v1, v5)
    <3>1. /\ v1' \in FtTable
          /\ \A g \in Flow : IF v1[g].used THEN Marked(v1[g], v1'[g])
                             ELSE v1'[g] = v1[g]
      BY <2>2, <1>t, FtStatus
    <3>2. v3' = v5 /\ v5' = v5 /\ v6' = v6
      BY <1>2 DEF Ft!Callback
    <3>3. \A g \in Flow : /\ v1'[g].used => v1'[g].count = v6'[g] - 1
                          /\ v1[g].used => v1'[g].used
      BY <1>t, <3>1, <3>2 DEF Marked, FtEntry
    <3>4. QED
      BY <1>t, <1>g, <3>1, <3>2, <3>3 DEF Ft!SilentStep, Ft!Used
  <2>3. QED
    BY <1>2, <2>1, <2>2 DEF Ft!Callback
<1>3. CASE \E f \in Flow : Ft!Packet(f)
  <2>1. PICK f \in Flow : Ft!Packet(f)
    BY <1>3
  <2>2. v3' = v3 /\ v5' = v5
    BY <2>1 DEF Ft!Packet
  <2>3. CASE v1[f].used
    <3> DEFINE x == [v1[f] EXCEPT !.count = @ + 1, !.last = v3]
    <3>1. v1' = [v1 EXCEPT ![f] = x] /\ v6' = [v6 EXCEPT ![f] = @ + 1]
      BY <1>t, <2>1, <2>3 DEF Ft!Packet, FtTable
    <3>2. x \in FtEntry /\ x.count = v1[f].count + 1 /\ x.used
      BY <1>t, <1>e, <2>3, FtTouch
    <3> HIDE DEF x
    <3>3. v1' \in FtTable /\ v6' \in [Flow -> Int]
      BY <1>t, <3>1, <3>2 DEF FtTable
    <3>4. \A g \in Flow : /\ v1'[g].used => v1'[g].count = v6'[g] - 1
                          /\ v1[g].used => v1'[g].used
      BY <1>t, <2>3, <3>1, <3>2 DEF FtTable
    <3>5. QED
      BY <1>t, <1>g, <2>2, <3>3, <3>4 DEF Ft!SilentStep, Ft!Used
  <2>4. CASE ~v1[f].used
    <3> DEFINE t == IF Ft!Full THEN Ft!Cleared ELSE v1
               room == Ft!Cardinality(Ft!Used(t)) < TblSize
    <3>1. /\ v1' = IF room THEN [t EXCEPT ![f] = Ft!NewEntry] ELSE t
          /\ v6' = [g \in Flow |-> IF g = f /\ room THEN 1 ELSE IF t[g].used THEN v6[g] ELSE 0]
      BY <2>1, <2>4 DEF Ft!Packet
    <3>2. /\ t \in FtTable
          /\ \A g \in Flow : IF t[g].used THEN v1[g].used /\ Marked(v1[g], t[g])
                             ELSE v1[g].used => v3 - v1[g].last >= ExpireTime
      BY <1>t, <1>e, FtClear DEF Marked
    <3>3. \A g \in Flow : t[g].used => t[g].count = v6[g] - 1
      BY <1>t, <3>2 DEF Marked
    <3>4. Ft!NewEntry \in FtEntry /\ Ft!NewEntry.count = 0 /\ Ft!NewEntry.used
      BY <1>t DEF Ft!NewEntry, FtEntry
    <3> HIDE DEF t, room
    <3>5. v6' \in [Flow -> Int]
      BY <1>t, <3>1
    <3>6. v1' \in FtTable
      BY <3>1, <3>2, <3>4 DEF FtTable
    <3>7. \A g \in Flow : v1'[g].used => v1'[g].count = v6'[g] - 1
      BY <1>t, <3>1, <3>2, <3>3, <3>4 DEF FtTable
    <3>8. \A g \in Flow : v1[g].used /\ ~v1'[g].used => v3 - v1[g].last >= ExpireTime
      BY <2>4, <3>1, <3>2 DEF FtTable
    <3>9. \A g \in Flow : v1[g].used => v1[g].last \in Nat
      BY <1>e DEF FtEntry
    <3>10. Ft!SilentStep
      BY <1>t, <3>8, <3>9, FlowAssumption DEF Ft!SilentStep, Ft!Used
    <3>11. QED
      BY <1>t, <1>g, <2>2, <3>5, <3>6, <3>7, <3>10
  <2>5. QED
    BY <2>3, <2>4
<1>4. QED
  BY <1>1, <1>2, <1>3 DEF Ft!Next

LEMMA FtInit == ASSUME Ft!Init PROVE FtInv
BY DEF Ft!Init, FtInv, FtTable, Ft!None, Ft!CountsPackets, Ft!Used

-----------------------------------------------------------------------------
(* The firewall: v1 is the rules, v2 the LPM table, v3 the pc, v4 the rule   *)
(* that is added next, v6 the packets with what was decided.                 *)

WholeRule(r) == r \in [ip : [1 .. Bits -> {0, 1}], depth : Int, action : Int]
RulePrefix(i) == Fw!Prefix(v1[i].ip, v1[i].depth)
Route(i) == [prefix |-> RulePrefix(i), hop |-> Fw!Action(v1[i].action)]

\* The table has the rules in force, one entry each.
FwTable ==
    /\ v4 \in 1 .. Len(v1) + 1
    /\ \A i \in 1 .. v4 - 1 : WholeRule(v1[i]) /\ v1[i].depth \in 1 .. Bits
    /\ v2 = {Route(i) : i \in Fw!InForce}

FwInv ==
    /\ v1 \in RuleSets /\ Len(v1) \in Nat
    /\ v3 \in {"setup", "running", "exited"}
    /\ v3 # "exited" => \A i \in 1 .. Len(v1) : WholeRule(v1[i])
    /\ FwTable
    /\ v3 # "running" => v6 = {}
    /\ Fw!DecidedByLongest

\* Of a rule with a valid depth the prefix is as long as that.
LEMMA PrefixFacts ==
    ASSUME NEW a \in [1 .. Bits -> {0, 1}]
    PROVE  /\ a \in Seq({0, 1}) /\ Len(a) = Bits
           /\ \A d \in 1 .. Bits : /\ Fw!Prefix(a, d) \in Seq({0, 1}) /\ Len(Fw!Prefix(a, d)) = d
<1>1. a \in Seq({0, 1}) /\ Len(a) = Bits
  <2>1. a \in Seq({0, 1})
    BY RuleAssumption, SeqDef
  <2>2. Len(a) \in Nat /\ 1 .. Len(a) = 1 .. Bits
    BY <2>1, LenProperties
  <2>3. QED
    BY <2>1, <2>2, RuleAssumption
<1>2. ASSUME NEW d \in 1 .. Bits
      PROVE  Fw!Prefix(a, d) \in Seq({0, 1}) /\ Len(Fw!Prefix(a, d)) = d
  <2>1. 1 \in Int /\ d \in Int /\ \A i \in 1 .. d : a[i] \in {0, 1}
    BY RuleAssumption
  <2>2. QED
    BY <2>1, SubSeqProperties, RuleAssumption DEF Fw!Prefix
<1>3. QED
  BY <1>1, <1>2

\* Two prefixes of an address that are equally long are the same.
LEMMA SamePrefix ==
    ASSUME NEW p \in Seq({0, 1}), NEW q \in Seq({0, 1}), NEW a,
           Fw!IsPrefix(p, a), Fw!IsPrefix(q, a), Len(p) = Len(q)
    PROVE  p = q
<1>1. SubSeq(p, 1, Len(p)) = p /\ SubSeq(q, 1, Len(q)) = q
  BY SubSeqFull
<1>2. QED
  BY <1>1 DEF Fw!IsPrefix

\* The longest entry of the table for an address is the longest rule in force for it.
LEMMA FwVerdict ==
    ASSUME Len(v1) \in Nat, FwTable, NEW a
    PROVE  LET best == {i \in Fw!For(a) : \A j \in Fw!For(a) : v1[j].depth <= v1[i].depth}
           IN  Fw!Verdict(a) = "accept" <=> \E i \in best : v1[i].action % ActionWidth = 0
<1> DEFINE best == {i \in Fw!For(a) : \A j \in Fw!For(a) : v1[j].depth <= v1[i].depth}
           R == Fw!For(a)
<1>1. R \in SUBSET (1 .. v4 - 1) /\ v4 \in Nat
  BY DEF Fw!For, Fw!InForce, FwTable
<1>2. \A i \in R : /\ v1[i].depth \in 1 .. Bits /\ RulePrefix(i) \in Seq({0, 1})
                   /\ Len(RulePrefix(i)) = v1[i].depth /\ Fw!IsPrefix(RulePrefix(i), a)
  BY <1>1, PrefixFacts DEF FwTable, WholeRule, RulePrefix, Fw!For
<1>3. \A i, j \in R : RulePrefix(i) = RulePrefix(j) => i = j
  <2>1. SUFFICES ASSUME NEW i \in R, NEW j \in R, RulePrefix(i) = RulePrefix(j), i < j PROVE FALSE
    BY <1>1
  <2>2. j \in i + 1 .. v4 - 1 /\ i \in Fw!InForce
    BY <1>1, <2>1 DEF Fw!For
  <2>3. QED
    BY <2>1, <2>2 DEF Fw!InForce, RulePrefix
<1>4. Fw!Matches(a) = {Route(i) : i \in R}
  BY DEF Fw!Matches, Fw!For, FwTable, Route, RulePrefix
<1>5. \A i, j \in R : v1[i].depth = v1[j].depth => i = j
  BY <1>2, <1>3, SamePrefix
<1>6. \A i \in R : Route(i).prefix = RulePrefix(i) /\ Route(i).hop = v1[i].action % ActionWidth
  BY DEF Route, Fw!Action
<1> HIDE DEF R
<1>7. CASE R = {}
  BY <1>4, <1>7 DEF Fw!Verdict, R
<1>8. CASE R # {}
  <2> DEFINE D == {v1[i].depth : i \in R}
  <2>1. D \in SUBSET (0 .. Bits) /\ D # {}
    BY <1>2, <1>8
  <2>2. PICK m \in D : \A x \in D : x <= m
    <3> HIDE DEF D
    <3>1. QED
      BY <2>1, Largest, RuleAssumption
  <2>3. PICK k \in R : \A j \in R : v1[j].depth <= v1[k].depth
    BY <2>2
  <2>4. \A i \in R : v1[k].depth <= v1[i].depth => i = k
    BY <1>2, <1>5, <2>3
  <2>5. best = {k}
    BY <2>3, <2>4 DEF R
  <2>6. \A e \in Fw!Matches(a) : (\A d \in Fw!Matches(a) : Len(e.prefix) >= Len(d.prefix)) <=> e = Route(k)
    <3>1. ASSUME NEW i \in R
          PROVE  (\A j \in R : Len(Route(i).prefix) >= Len(Route(j).prefix)) <=> i = k
      BY <1>2, <1>6, <2>3, <2>4
    <3>2. QED
      BY <1>4, <2>3, <3>1
  <2>7. Fw!Lookup(a) = Route(k) /\ Fw!Matches(a) # {}
    BY <1>4, <2>6 DEF Fw!Lookup
  <2> HIDE DEF best
  <2>8. QED
    BY <1>6, <2>5, <2>7 DEF Fw!Verdict, best
<1>9. QED
  BY <1>7, <1>8

\* A rule that is added replaces the one in force for its prefix.
LEMMA FwAdds ==
    ASSUME FwInv, v3 = "setup", v4 <= Len(v1), v1[v4].depth \in 1 .. Bits,
           v1' = v1, v2' = Fw!LpmAdd(v1[v4]), v4' = v4 + 1
    PROVE  FwTable'
<1>1. /\ v4 \in 1 .. Len(v1) /\ Len(v1) \in Nat /\ WholeRule(v1[v4])
      /\ \A i \in 1 .. v4 - 1 : WholeRule(v1[i]) /\ v1[i].depth \in 1 .. Bits
      /\ v2 = {Route(i) : i \in Fw!InForce}
  BY DEF FwInv, FwTable
<1>2. /\ \A i : RulePrefix(i)' = RulePrefix(i)
      /\ \A i : Route(i)' = Route(i)
  BY DEF RulePrefix, Route
<1>3. /\ Fw!InForce = {i \in 1 .. v4 - 1 : \A j \in i + 1 .. v4 - 1 : RulePrefix(j) # RulePrefix(i)}
      /\ Fw!InForce' = {i \in 1 .. v4 : \A j \in i + 1 .. v4 : RulePrefix(j) # RulePrefix(i)}
  BY <1>1, <1>2 DEF Fw!InForce, RulePrefix
<1>4. Fw!InForce' = {i \in Fw!InForce : RulePrefix(i) # RulePrefix(v4)} \cup {v4}
  <2>1. \A i \in 1 .. v4 : i + 1 .. v4 = (i + 1 .. v4 - 1) \cup (IF i < v4 THEN {v4} ELSE {})
    BY <1>1
  <2>2. 1 .. v4 = (1 .. v4 - 1) \cup {v4} /\ v4 \notin 1 .. v4 - 1 /\ \A i \in 1 .. v4 - 1 : i < v4
    BY <1>1
  <2>3. v4 + 1 .. v4 - 1 = {}
    BY <1>1
  <2>4. ASSUME NEW i \in 1 .. v4 - 1
        PROVE  i \in Fw!InForce' <=> i \in Fw!InForce /\ RulePrefix(i) # RulePrefix(v4)
    <3>1. i + 1 .. v4 = (i + 1 .. v4 - 1) \cup {v4} /\ i \in 1 .. v4
      BY <2>1, <2>2
    <3>2. /\ i \in Fw!InForce <=> \A j \in i + 1 .. v4 - 1 : RulePrefix(j) # RulePrefix(i)
          /\ i \in Fw!InForce' <=> \A j \in i + 1 .. v4 : RulePrefix(j) # RulePrefix(i)
      BY <1>3, <3>1
    <3>3. QED
      BY <3>1, <3>2, Zenon
  <2>5. v4 \in Fw!InForce'
    BY <1>1, <1>3, <2>1, <2>3
  <2>6. QED
    BY <1>3, <2>2, <2>4, <2>5
<1>5. v2' = {e \in v2 : e.prefix # RulePrefix(v4)} \cup {Route(v4)}
  BY DEF Fw!LpmAdd, Route, RulePrefix
<1>6. \A i : Route(i).prefix = RulePrefix(i)
  BY DEF Route
<1>7. v2' = {Route(i) : i \in Fw!InForce'}
  BY <1>1, <1>4, <1>5, <1>6
<1>8. v2' = {Route(i)' : i \in Fw!InForce'}
  BY <1>2, <1>7
<1>9. v4' \in 1 .. Len(v1') + 1 /\ \A i \in 1 .. v4' - 1 : WholeRule(v1'[i]) /\ v1'[i].depth \in 1 .. Bits
  BY <1>1
<1>10. QED
  BY <1>8, <1>9 DEF FwTable, WholeRule

LEMMA FwStep ==
    ASSUME FwInv, [Fw!Next]_(Fw!vars)
    PROVE  FwInv'
<1>1. ASSUME UNCHANGED <<v1, v2, v4, v6>>, v3' \in {"setup", "running", "exited"},
             v3' # "exited" => v3 # "exited", v3' # "running" => v3 # "running"
      PROVE  FwInv'
  <2>1. Fw!InForce' = Fw!InForce /\ \A a : Fw!For(a)' = Fw!For(a)
    BY <1>1 DEF Fw!InForce, Fw!For
  <2>2. FwTable'
    BY <1>1, <2>1 DEF FwInv, FwTable, Route, RulePrefix, WholeRule
  <2>3. Fw!DecidedByLongest'
    BY <1>1, <2>1 DEF FwInv, Fw!DecidedByLongest
  <2>4. QED
    BY <1>1, <2>2, <2>3 DEF FwInv, WholeRule
<1>2. CASE Fw!AddRule
  <2>1. v3 = "setup" /\ v4 <= Len(v1) /\ v1' = v1 /\ v6' = v6 /\ v6 = {}
    BY <1>2 DEF Fw!AddRule, FwInv
  <2>2. CASE v3' = "running" /\ v2' = v2 /\ v4' = v4
    BY <1>1, <2>1, <2>2
  <2>3. CASE v3' = v3 /\ v2' = Fw!LpmAdd(v1[v4]) /\ v4' = v4 + 1 /\ v1[v4].depth \in 1 .. Bits
    <3>1. FwTable'
      BY <2>1, <2>3, FwAdds
    <3>2. Fw!DecidedByLongest'
      BY <2>1 DEF Fw!DecidedByLongest
    <3>3. QED
      BY <2>1, <2>3, <3>1, <3>2 DEF FwInv, WholeRule
  <2>4. QED
    BY <1>2, <2>2, <2>3 DEF Fw!AddRule
<1>3. CASE Fw!SetupDone \/ Fw!NotIpv4 \/ UNCHANGED Fw!vars
  BY <1>1, <1>3 DEF Fw!SetupDone, Fw!NotIpv4, Fw!vars, FwInv
<1>4. CASE \E a \in Fw!Address : Fw!Packet([i \in 1 .. Bits |-> a[i]])
  <2>1. PICK a : Fw!Packet(a)
    BY <1>4
  <2>2. /\ v3 = "running" /\ UNCHANGED <<v1, v2, v3, v4>>
        /\ v6' = v6 \cup {[ip |-> a, verdict |-> Fw!Verdict(a)]}
    BY <2>1 DEF Fw!Packet
  <2>3. Fw!InForce' = Fw!InForce /\ \A x : Fw!For(x)' = Fw!For(x)
    BY <2>2 DEF Fw!InForce, Fw!For
  <2>4. FwTable'
    BY <2>2, <2>3 DEF FwInv, FwTable, Route, RulePrefix, WholeRule
  <2>5. LET best == {i \in Fw!For(a) : \A j \in Fw!For(a) : v1[j].depth <= v1[i].depth}
        IN  Fw!Verdict(a) = "accept" <=> \E i \in best : v1[i].action % ActionWidth = 0
    BY FwVerdict DEF FwInv
  <2>6. Fw!DecidedByLongest'
    BY <2>2, <2>3, <2>5 DEF FwInv, Fw!DecidedByLongest
  <2>7. QED
    BY <2>2, <2>4, <2>6 DEF FwInv, WholeRule
<1>5. QED
  BY <1>2, <1>3, <1>4 DEF Fw!Next

LEMMA FwInit == ASSUME Fw!Init PROVE FwInv
<1>1. Len(v1) \in Nat /\ DOMAIN v1 = 1 .. Len(v1) /\ v1 \in RuleSets
  BY RuleAssumption DEF Fw!Init
<1>2. v3 # "exited" => \A i \in 1 .. Len(v1) : WholeRule(v1[i])
  BY <1>1, RuleAssumption DEF Fw!Init, WholeRule
<1>3. Fw!InForce = {} /\ v2 = {} /\ v4 = 1 /\ v6 = {}
  BY DEF Fw!Init, Fw!InForce
<1>4. FwTable
  BY <1>1, <1>3 DEF FwTable
<1>5. v3 \in {"setup", "running", "exited"}
  BY DEF Fw!Init
<1>6. QED
  BY <1>1, <1>2, <1>3, <1>4, <1>5 DEF FwInv, Fw!DecidedByLongest

-----------------------------------------------------------------------------
(* Requests and message buffers: v1 is the pool, v2 the contents of the      *)
(* buffers, v3 the manager's queue, v4 the inboxes, v5 the status of the     *)
(* requests, v6 where the NFs are, v7 those answered early, v8 the counts.   *)

PoolSum(f) == Req!MapThenSumSet(LAMBDA b : f[b], Buf)
InboxSum(q) == Req!MapThenSumSet(LAMBDA n : Len(q[n]), Nf)
Lengths(q) == [n \in Nf |-> Len(q[n])]

\* The sum of the pool is that of SumProofs.
LEMMA PoolSumIs ==
    ASSUME NEW f
    PROVE  PoolSum(f) = SumOver(Buf, f)
BY DEF PoolSum, Req!MapThenSumSet, Req!MapThenFoldSet, SumOver, Partial, Sums, Chosen

\* The sum of the inboxes is that of their lengths.
LEMMA InboxSumIs ==
    ASSUME NEW q
    PROVE  InboxSum(q) = SumOver(Nf, Lengths(q))
<1> DEFINE Direct(g) == g = [s \in SUBSET Nf |-> IF s = {} THEN 0
                                ELSE Len(q[Chosen(s)]) + g[s \ {Chosen(s)}]]
<1>1. ASSUME NEW s \in SUBSET Nf, s # {} PROVE Len(q[Chosen(s)]) = Lengths(q)[Chosen(s)]
  BY <1>1 DEF Chosen, Lengths
<1>2. \A g : Direct(g) <=> Sums(SUBSET Nf, Lengths(q), g)
  <2>1. ASSUME NEW g PROVE Direct(g) <=> Sums(SUBSET Nf, Lengths(q), g)
    <3>1. [s \in SUBSET Nf |-> IF s = {} THEN 0 ELSE Len(q[Chosen(s)]) + g[s \ {Chosen(s)}]]
          = [s \in SUBSET Nf |-> IF s = {} THEN 0 ELSE Lengths(q)[Chosen(s)] + g[s \ {Chosen(s)}]]
      BY <1>1
    <3>2. QED
      BY <3>1 DEF Sums
  <2>2. QED
    BY <2>1
<1>3. (CHOOSE g : Direct(g)) = (CHOOSE g : Sums(SUBSET Nf, Lengths(q), g))
  <2> HIDE DEF Direct
  <2>1. QED
    BY <1>2
<1>4. InboxSum(q) = (CHOOSE g : Direct(g))[Nf]
  BY DEF InboxSum, Req!MapThenSumSet, Req!MapThenFoldSet, Chosen
<1>5. QED
  <2> HIDE DEF Direct
  <2>1. QED
    BY <1>3, <1>4 DEF SumOver, Partial

\* What one buffer in or out does to the pool.
LEMMA PoolChange ==
    ASSUME NEW f \in [Buf -> Nat], NEW b \in Buf, NEW k \in Nat
    PROVE  /\ PoolSum(f) \in Int
           /\ PoolSum([f EXCEPT ![b] = k]) = PoolSum(f) + (k - f[b])
<1>1. f \in [Buf -> Int] /\ k \in Int
  OBVIOUS
<1>2. /\ SumOver(Buf, f) \in Int
      /\ SumOver(Buf, [f EXCEPT ![b] = k]) = SumOver(Buf, f) + (k - f[b])
  BY <1>1, PoolAssumption, SumReplaced
<1>3. QED
  BY <1>2, PoolSumIs

\* What one message in or out does to the inboxes.
LEMMA InboxChange ==
    ASSUME NEW q \in [Nf -> Seq(Buf)], NEW n \in Nf, NEW s \in Seq(Buf)
    PROVE  /\ InboxSum(q) \in Int
           /\ InboxSum([q EXCEPT ![n] = s]) = InboxSum(q) + (Len(s) - Len(q[n]))
<1>1. PICK f : f = Lengths(q)
  OBVIOUS
<1>2. PICK k : k = Len(s)
  OBVIOUS
<1>3. f \in [Nf -> Int] /\ k \in Int /\ f[n] = Len(q[n])
  BY <1>1, <1>2 DEF Lengths
<1>4. Lengths([q EXCEPT ![n] = s]) = [f EXCEPT ![n] = k]
  BY <1>1, <1>2, Zenon DEF Lengths
<1>5. SumOver(Nf, f) \in Int /\ SumOver(Nf, [f EXCEPT ![n] = k]) = SumOver(Nf, f) + (k - f[n])
  BY <1>3, PoolAssumption, SumReplaced
<1>6. InboxSum(q) = SumOver(Nf, f)
  BY <1>1, InboxSumIs
<1>7. InboxSum([q EXCEPT ![n] = s]) = SumOver(Nf, [f EXCEPT ![n] = k])
  BY <1>4, InboxSumIs
<1>8. QED
  BY <1>2, <1>3, <1>5, <1>6, <1>7

Counts == [made : [Nf -> Int], returned : Nat, leaked : Nat, wild : Nat]

\* Buffers put back twice or in error, and these less the lost ones.
Surplus(c) == c.returned + c.wild
Extra(c) == c.returned + c.wild - c.leaked

\* What the steps do to the counts.
LEMMA CountSteps ==
    ASSUME NEW c \in Counts, NEW n \in Nf, NEW e
    PROVE  /\ e = [c EXCEPT !.made[n] = @ + 1] =>
                 e \in Counts /\ Extra(e) = Extra(c) /\ Surplus(e) = Surplus(c)
           /\ e = [c EXCEPT !.made[n] = @ + 1, !.wild = @ + 1] =>
                 e \in Counts /\ Extra(e) = Extra(c) + 1 /\ Surplus(e) # 0
           /\ e = [c EXCEPT !.returned = @ + 1] =>
                 e \in Counts /\ Extra(e) = Extra(c) + 1 /\ Surplus(e) # 0
           /\ e = [c EXCEPT !.leaked = @ + 1] =>
                 e \in Counts /\ Extra(e) = Extra(c) - 1 /\ Surplus(e) = Surplus(c)
           /\ Extra(c) \in Int
<1>1. PICK m \in [Nf -> Int] : m = c.made
  BY DEF Counts
<1>2. PICK r \in Nat : r = c.returned
  BY DEF Counts
<1>3. PICK l \in Nat : l = c.leaked
  BY DEF Counts
<1>4. PICK w \in Nat : w = c.wild
  BY DEF Counts
<1>5. c = [made |-> m, returned |-> r, leaked |-> l, wild |-> w]
  BY <1>1, <1>2, <1>3, <1>4 DEF Counts
<1>6. PICK u \in [Nf -> Int] : u = [m EXCEPT ![n] = m[n] + 1]
  <2>1. m[n] + 1 \in Int
    OBVIOUS
  <2>2. [m EXCEPT ![n] = m[n] + 1] \in [Nf -> Int]
    BY <2>1
  <2>3. QED
    BY <2>2
<1>7. [c EXCEPT !.made[n] = @ + 1] = [made |-> u, returned |-> r, leaked |-> l, wild |-> w]
  BY <1>5, <1>6
<1>8. [c EXCEPT !.made[n] = @ + 1, !.wild = @ + 1]
      = [made |-> u, returned |-> r, leaked |-> l, wild |-> w + 1]
  <2>1. [c EXCEPT !.made[n] = @ + 1, !.wild = @ + 1]
        = [[c EXCEPT !.made[n] = @ + 1] EXCEPT !.wild = @ + 1]
    OBVIOUS
  <2>2. PICK a : a = [made |-> u, returned |-> r, leaked |-> l, wild |-> w]
    OBVIOUS
  <2>3. [a EXCEPT !.wild = @ + 1] = [made |-> u, returned |-> r, leaked |-> l, wild |-> w + 1]
    BY <2>2
  <2>4. QED
    BY <1>7, <2>1, <2>2, <2>3, Zenon
<1>9. [c EXCEPT !.returned = @ + 1] = [made |-> m, returned |-> r + 1, leaked |-> l, wild |-> w]
  BY <1>5
<1>10. [c EXCEPT !.leaked = @ + 1] = [made |-> m, returned |-> r, leaked |-> l + 1, wild |-> w]
  BY <1>5
<1>11. QED
  BY <1>2, <1>3, <1>4, <1>7, <1>8, <1>9, <1>10 DEF Counts, Extra, Surplus

\* A wild pointer makes one more.
LEMMA CountWild ==
    ASSUME NEW c \in Counts, NEW n \in Nf
    PROVE  /\ Extra([c EXCEPT !.made[n] = @ + 1, !.wild = @ + 1]) = Extra(c) + 1
           /\ Surplus([c EXCEPT !.made[n] = @ + 1, !.wild = @ + 1]) # 0
<1>1. PICK e : e = [c EXCEPT !.made[n] = @ + 1, !.wild = @ + 1]
  OBVIOUS
<1>2. e.returned = c.returned /\ e.leaked = c.leaked /\ e.wild = c.wild + 1
  BY <1>1 DEF Counts
<1>3. c.returned \in Nat /\ c.leaked \in Nat /\ c.wild \in Nat
  BY DEF Counts
<1>4. Extra(e) = Extra(c) + 1 /\ Surplus(e) # 0
  BY <1>2, <1>3 DEF Extra, Surplus
<1>5. QED
  BY <1>1, <1>4

\* What the steps do to the pool and to the inboxes.
LEMMA PoolSteps ==
    ASSUME NEW f \in [Buf -> Nat], NEW b \in Buf, NEW e
    PROVE  /\ PoolSum(f) \in Int /\ f[b] \in Nat
           /\ e = [f EXCEPT ![b] = @ + 1] =>
                 e \in [Buf -> Nat] /\ PoolSum(e) = PoolSum(f) + 1
           /\ e = [f EXCEPT ![b] = @ - 1] /\ f[b] > 0 =>
                 e \in [Buf -> Nat] /\ PoolSum(e) = PoolSum(f) - 1
<1>1. PICK x \in Nat : x = f[b]
  OBVIOUS
<1>2. PoolSum(f) \in Int
  BY <1>1, PoolChange
<1>3. ASSUME e = [f EXCEPT ![b] = @ + 1]
      PROVE  e \in [Buf -> Nat] /\ PoolSum(e) = PoolSum(f) + 1
  <2>1. PICK k \in Nat : k = x + 1
    OBVIOUS
  <2>2. e = [f EXCEPT ![b] = k]
    BY <1>1, <1>3, <2>1
  <2>3. PoolSum(e) = PoolSum(f) + (k - f[b])
    BY <2>2, PoolChange
  <2>4. e \in [Buf -> Nat]
    BY <2>2
  <2>5. QED
    BY <1>1, <1>2, <2>1, <2>3, <2>4
<1>4. ASSUME e = [f EXCEPT ![b] = @ - 1], f[b] > 0
      PROVE  e \in [Buf -> Nat] /\ PoolSum(e) = PoolSum(f) - 1
  <2>1. PICK k \in Nat : k = x - 1
    BY <1>1, <1>4
  <2>2. e = [f EXCEPT ![b] = k]
    BY <1>1, <1>4, <2>1
  <2>3. PoolSum(e) = PoolSum(f) + (k - f[b])
    BY <2>2, PoolChange
  <2>4. e \in [Buf -> Nat]
    BY <2>2
  <2>5. QED
    BY <1>1, <1>2, <2>1, <2>3, <2>4
<1>5. QED
  BY <1>1, <1>2, <1>3, <1>4

LEMMA InboxSteps ==
    ASSUME NEW q \in [Nf -> Seq(Buf)], NEW n \in Nf, NEW b \in Buf, NEW e
    PROVE  /\ InboxSum(q) \in Int
           /\ e = [q EXCEPT ![n] = Append(@, b)] =>
                 e \in [Nf -> Seq(Buf)] /\ InboxSum(e) = InboxSum(q) + 1
           /\ e = [q EXCEPT ![n] = Tail(@)] /\ q[n] # <<>> =>
                 e \in [Nf -> Seq(Buf)] /\ InboxSum(e) = InboxSum(q) - 1
<1>1. PICK x \in Seq(Buf) : x = q[n]
  OBVIOUS
<1>2. InboxSum(q) \in Int /\ Len(x) \in Nat
  BY <1>1, InboxChange
<1>3. ASSUME e = [q EXCEPT ![n] = Append(@, b)]
      PROVE  e \in [Nf -> Seq(Buf)] /\ InboxSum(e) = InboxSum(q) + 1
  <2>1. PICK s \in Seq(Buf) : s = Append(x, b)
    BY AppendProperties
  <2>2. e = [q EXCEPT ![n] = s] /\ Len(s) = Len(x) + 1
    BY <1>1, <1>3, <2>1
  <2>3. InboxSum(e) = InboxSum(q) + (Len(s) - Len(q[n]))
    BY <2>2, InboxChange
  <2>4. e \in [Nf -> Seq(Buf)]
    BY <2>2
  <2>5. QED
    BY <1>1, <1>2, <2>2, <2>3, <2>4
<1>4. ASSUME e = [q EXCEPT ![n] = Tail(@)], q[n] # <<>>
      PROVE  e \in [Nf -> Seq(Buf)] /\ InboxSum(e) = InboxSum(q) - 1
  <2>1. PICK s \in Seq(Buf) : s = Tail(x)
    BY <1>1, <1>4, HeadTailProperties
  <2>2. e = [q EXCEPT ![n] = s] /\ Len(s) = Len(x) - 1
    BY <1>1, <1>4, <2>1
  <2>3. InboxSum(e) = InboxSum(q) + (Len(s) - Len(q[n]))
    BY <2>2, InboxChange
  <2>4. e \in [Nf -> Seq(Buf)]
    BY <2>2
  <2>5. QED
    BY <1>1, <1>2, <2>2, <2>3, <2>4
<1>5. QED
  BY <1>2, <1>3, <1>4

ReqTypes ==
    /\ v1 \in [Buf -> Nat]
    /\ v2 \in [Buf -> [type : {"none", "request", "data", "order"}, nf : Nf]]
    /\ v3 \in Seq(Buf)
    /\ v4 \in [Nf -> Seq(Buf)]
    /\ v5 \in [Nf -> {"unset", "waiting", "ok", "fail"}]
    /\ v6 \in [Nf -> [at : {"idle", "sent", "waiting"}, buf : Buf]]
    /\ v7 \in SUBSET Nf
    /\ v8 \in Counts

Accounted ==
    PoolSum(v1) + Len(v3) + InboxSum(v4) = Cardinality(Buf) + Extra(v8)

Once == OnceIn(Buf, Nf, v1, v3, v4)

Asks(n) == \E i \in 1 .. Len(v3) : v2[v3[i]] = [type |-> "request", nf |-> n]

\* Who has sent a request and has no answer is in the queue.
Pending ==
    \A n \in Nf :
        \/ v6[n].at = "sent" /\ v5[n] = "unset"
        \/ v6[n].at = "waiting" /\ v5[n] = "waiting" /\ n \notin v7
        => Asks(n)

ReqTidy == Surplus(v8) = 0 => Once /\ Pending

ReqInv == ReqTypes /\ Accounted /\ ReqTidy

\* The buffers and NFs of the initial state are some of those there are.
LEMMA ReqChosen == (CHOOSE n \in Nf : TRUE) \in Nf /\ (CHOOSE b \in Buf : TRUE) \in Buf
BY PoolAssumption

LEMMA ReqInit == ASSUME Req!Init PROVE ReqInv
<1> USE DEF Req!Init
<1>1. ReqTypes
  BY ReqChosen DEF ReqTypes, Req!Nothing, Counts
<1>2. Accounted
  <2>1. PoolSum(v1) = Cardinality(Buf)
    <3>1. \A x \in Buf : v1[x] = 1
      OBVIOUS
    <3>2. QED
      BY <3>1, PoolAssumption, PoolSumIs, SumOnes
  <2>2. InboxSum(v4) = 0
    <3>1. \A x \in Nf : Lengths(v4)[x] = 0
      BY DEF Lengths
    <3>2. QED
      BY <3>1, PoolAssumption, InboxSumIs, SumZero
  <2>3. Cardinality(Buf) \in Nat
    BY PoolAssumption, FS_CardinalityType
  <2>4. Len(v3) = 0 /\ Extra(v8) = 0
    BY DEF Extra
  <2>5. QED
    BY <2>1, <2>2, <2>3, <2>4 DEF Accounted
<1>3. Once
  BY DEF Once, OnceIn
<1>4. Pending
  BY DEF Pending
<1>5. QED
  BY <1>1, <1>2, <1>3, <1>4 DEF ReqInv, ReqTidy

\* The invariant is what the run checks.
LEMMA ReqChecked == ASSUME ReqInv PROVE Req!BuffersAccounted /\ Req!AnswerComes
<1>1. Req!BuffersAccounted
  <2>1. Req!InPool = PoolSum(v1)
    BY DEF Req!InPool, PoolSum
  <2>2. Req!InQueues = Len(v3) + InboxSum(v4)
    BY DEF Req!InQueues, InboxSum
  <2>3. Req!Cardinality(Buf) = Cardinality(Buf)
    BY DEF Req!Cardinality, Cardinality
  <2>4. PoolSum(v1) \in Int /\ InboxSum(v4) \in Int /\ Len(v3) \in Nat
    <3>1. v1 \in [Buf -> Nat] /\ v4 \in [Nf -> Seq(Buf)] /\ v3 \in Seq(Buf)
      BY DEF ReqInv, ReqTypes
    <3>2. PICK b \in Buf : TRUE
      BY ReqChosen
    <3>3. PICK n \in Nf : TRUE
      BY ReqChosen
    <3>4. PoolSum(v1) \in Int
      BY <3>1, 0 \in Nat, PoolChange
    <3>5. InboxSum(v4) \in Int
      BY <3>1, InboxChange
    <3>6. QED
      BY <3>1, <3>4, <3>5
  <2>5. Cardinality(Buf) \in Int /\ v8.returned \in Int /\ v8.wild \in Int /\ v8.leaked \in Int
    BY PoolAssumption, FS_CardinalityType DEF ReqInv, ReqTypes, Counts
  <2>6. QED
    BY <2>1, <2>2, <2>3, <2>4, <2>5 DEF ReqInv, Accounted, Extra, Req!BuffersAccounted
<1>2. Req!AnswerComes
  <2>1. v3 \in Seq(Buf) /\ DOMAIN v3 = 1 .. Len(v3)
    BY DEF ReqInv, ReqTypes
  <2>2. v8.returned + v8.wild = 0 => Pending
    BY DEF ReqInv, ReqTidy, Surplus
  <2>3. QED
    BY <2>1, <2>2 DEF Pending, Asks, Req!AnswerComes
<1>3. QED
  BY <1>1, <1>2

\* Each step of the NFs and of the manager keeps the types.
LEMMA ReqTypesStep ==
    ASSUME ReqTypes, Req!Next
    PROVE  ReqTypes'
<1> DEFINE Body == [type : {"none", "request", "data", "order"}, nf : Nf]
<1>0. /\ v1 \in [Buf -> Nat] /\ v2 \in [Buf -> Body] /\ v3 \in Seq(Buf) /\ v4 \in [Nf -> Seq(Buf)]
      /\ v5 \in [Nf -> {"unset", "waiting", "ok", "fail"}]
      /\ v6 \in [Nf -> [at : {"idle", "sent", "waiting"}, buf : Buf]]
      /\ v7 \in SUBSET Nf /\ v8 \in Counts
  BY DEF ReqTypes
<1>1. ASSUME NEW n \in Nf, Req!Wait(n) PROVE ReqTypes'
  BY <1>0, <1>1 DEF Req!Wait, ReqTypes
<1>2. ASSUME NEW n \in Nf, Req!Return(n) PROVE ReqTypes'
  <2> USE <1>2 DEF Req!Return, Req!Put
  <2>1. v6[n].buf \in Buf /\ v6' \in [Nf -> [at : {"idle", "sent", "waiting"}, buf : Buf]]
    BY <1>0
  <2>2. v1' \in [Buf -> Nat]
    BY <1>0, <2>1, PoolSteps
  <2>3. v8' \in Counts
    BY <1>0, CountSteps
  <2>4. QED
    BY <1>0, <2>1, <2>2, <2>3 DEF ReqTypes
<1>3. ASSUME NEW n \in Nf, Req!DequeueMessages(n) PROVE ReqTypes'
  <2> USE <1>3 DEF Req!DequeueMessages, Req!Put
  <2>1. Head(v4[n]) \in Buf
    BY <1>0
  <2>2. v1' \in [Buf -> Nat]
    BY <1>0, <2>1, PoolSteps
  <2>3. v4' \in [Nf -> Seq(Buf)]
    BY <1>0, <2>1, InboxSteps
  <2>4. QED
    BY <1>0, <2>2, <2>3 DEF ReqTypes
<1>4. ASSUME NEW n \in Nf, NEW b \in Buf, Req!Request(n, b) PROVE ReqTypes'
  <2> USE <1>4 DEF Req!Request, Req!Get
  <2>1. v2' \in [Buf -> Body] /\ v4' = v4 /\ v7' \in SUBSET Nf
    BY <1>0
  <2>2. v8' \in Counts
    BY <1>0, CountSteps
  <2>3. CASE Len(v3) < QueueSize
    <3>1. v1' = [v1 EXCEPT ![b] = @ - 1] /\ v1[b] > 0 /\ v3' = Append(v3, b)
      BY <2>3
    <3>2. v1' \in [Buf -> Nat] /\ v3' \in Seq(Buf)
      BY ONLY <1>0, <3>1, b \in Buf, PoolSteps, AppendProperties
    <3>3. v6' = [v6 EXCEPT ![n] = [at |-> "sent", buf |-> b]] /\ v5' = [v5 EXCEPT ![n] = "unset"]
      BY <2>3
    <3>4. QED
      BY <1>0, <2>1, <2>2, <3>2, <3>3 DEF ReqTypes
  <2>4. CASE ~(Len(v3) < QueueSize)
    BY <1>0, <2>1, <2>2, <2>4 DEF ReqTypes
  <2>5. QED
    BY <2>3, <2>4
<1>5. ASSUME NEW n \in Nf, NEW b \in Buf, Req!RequestFtEmpty(n, b) PROVE ReqTypes'
  <2> USE <1>5 DEF Req!RequestFtEmpty, Req!Put
  <2>1. v8' \in Counts
    BY <1>0, CountSteps
  <2>2. v1' \in [Buf -> Nat]
    BY <1>0, PoolSteps
  <2>3. QED
    BY <1>0, <2>1, <2>2 DEF ReqTypes
<1>6. ASSUME NEW n \in Nf, NEW b \in Buf, Req!SendMsg(n, b) PROVE ReqTypes'
  <2> USE <1>6 DEF Req!SendMsg, Req!Get
  <2>1. v2' \in [Buf -> Body]
    BY <1>0
  <2>2. v1' \in [Buf -> Nat]
    BY <1>0, PoolSteps
  <2>3. v4' \in [Nf -> Seq(Buf)]
    BY <1>0, InboxSteps
  <2>4. v8' \in Counts
    BY <1>0, CountSteps
  <2>5. QED
    BY <1>0, <2>1, <2>2, <2>3, <2>4 DEF ReqTypes
<1>7. ASSUME NEW n \in Nf, NEW d \in Nf, NEW b \in Buf, Req!SendToNf(n, d, b) PROVE ReqTypes'
  <2> USE <1>7 DEF Req!SendToNf, Req!Get
  <2>1. v2' \in [Buf -> Body]
    BY <1>0
  <2>2. v1' \in [Buf -> Nat]
    BY <1>0, PoolSteps
  <2>3. v4' \in [Nf -> Seq(Buf)]
    <3>1. v4' = [v4 EXCEPT ![d] = Append(@, b)] \/ v4' = v4
      OBVIOUS
    <3>2. QED
      BY ONLY <1>0, <3>1, b \in Buf, d \in Nf, InboxSteps
  <2>4. QED
    BY <1>0, <2>1, <2>2, <2>3 DEF ReqTypes
<1>8. ASSUME NEW a \in Req!Answers, Req!Handle(a) PROVE ReqTypes'
  <2> USE <1>8 DEF Req!Handle, Req!Put
  <2>1. Head(v3) \in Buf /\ v3' \in Seq(Buf)
    BY <1>0
  <2>2. v1' \in [Buf -> Nat]
    BY <1>0, <2>1, PoolSteps
  <2>3. v5' \in [Nf -> {"unset", "waiting", "ok", "fail"}]
    <3>1. v2[Head(v3)].nf \in Nf /\ a \in {"ok", "fail"}
      BY <1>0, <2>1 DEF Req!Answers
    <3>2. QED
      BY <1>0, <3>1
  <2>4. QED
    BY <1>0, <2>1, <2>2, <2>3 DEF ReqTypes
<1>9. QED
  BY <1>1, <1>2, <1>3, <1>4, <1>5, <1>6, <1>7, <1>8 DEF Req!Next

\* What enters one place has left another, or is counted.
LEMMA ReqAccountedStep ==
    ASSUME ReqTypes, Accounted, Req!Next
    PROVE  Accounted'
<1>0. /\ v1 \in [Buf -> Nat] /\ v3 \in Seq(Buf) /\ v4 \in [Nf -> Seq(Buf)] /\ v8 \in Counts
      /\ v6 \in [Nf -> [at : {"idle", "sent", "waiting"}, buf : Buf]]
  BY DEF ReqTypes
<1>a. /\ PoolSum(v1) \in Int /\ InboxSum(v4) \in Int /\ Len(v3) \in Int /\ Cardinality(Buf) \in Int
      /\ Extra(v8) \in Int
  <2>1. PICK b \in Buf : TRUE
    BY ReqChosen
  <2>2. PICK n \in Nf : TRUE
    BY ReqChosen
  <2>3. PoolSum(v1) \in Int
    BY <1>0, <2>1, PoolSteps
  <2>4. InboxSum(v4) \in Int
    BY <1>0, <2>1, <2>2, InboxSteps
  <2>5. Cardinality(Buf) \in Int
    BY PoolAssumption, FS_CardinalityType
  <2>6. Extra(v8) \in Int
    BY <1>0, <2>2, CountSteps
  <2>7. QED
    BY <1>0, <2>3, <2>4, <2>5, <2>6
<1>1. ASSUME NEW n \in Nf, Req!Wait(n) PROVE Accounted'
  BY <1>1 DEF Req!Wait, Accounted
<1>2. ASSUME NEW n \in Nf, Req!Return(n) PROVE Accounted'
  <2> USE <1>2 DEF Req!Return, Req!Put
  <2>1. v6[n].buf \in Buf
    BY <1>0
  <2>2. PoolSum(v1') = PoolSum(v1) + 1
    BY <1>0, <2>1, PoolSteps
  <2>3. Extra(v8') = Extra(v8) + 1
    BY <1>0, CountSteps
  <2>4. v3' = v3 /\ v4' = v4
    OBVIOUS
  <2>5. QED
    BY <1>a, <2>2, <2>3, <2>4 DEF Accounted
<1>3. ASSUME NEW n \in Nf, Req!DequeueMessages(n) PROVE Accounted'
  <2> USE <1>3 DEF Req!DequeueMessages, Req!Put
  <2>1. Head(v4[n]) \in Buf
    BY <1>0
  <2>2. PoolSum(v1') = PoolSum(v1) + 1
    BY <1>0, <2>1, PoolSteps
  <2>3. InboxSum(v4') = InboxSum(v4) - 1
    <3>1. v4[n] # <<>> /\ v4' = [v4 EXCEPT ![n] = Tail(@)]
      OBVIOUS
    <3>2. PICK b \in Buf : b = Head(v4[n])
      BY <2>1
    <3>3. QED
      BY ONLY <1>0, <3>1, n \in Nf, b \in Buf, InboxSteps
  <2>4. v3' = v3 /\ v8' = v8
    OBVIOUS
  <2>5. QED
    BY <1>a, <2>2, <2>3, <2>4 DEF Accounted
<1>4. ASSUME NEW n \in Nf, NEW b \in Buf, Req!Request(n, b) PROVE Accounted'
  <2> USE <1>4 DEF Req!Request, Req!Get
  <2>1. Extra(v8') = Extra(v8)
    <3>1. v8' = [v8 EXCEPT !.made[n] = @ + 1]
      OBVIOUS
    <3>2. QED
      BY ONLY <1>0, <3>1, n \in Nf, CountSteps
  <2>2. \/ PoolSum(v1') = PoolSum(v1) - 1 /\ Len(v3') = Len(v3) + 1
        \/ v1' = v1 /\ v3' = v3
    <3>1. CASE Len(v3) < QueueSize
      <4>1. v1' = [v1 EXCEPT ![b] = @ - 1] /\ v1[b] > 0 /\ v3' = Append(v3, b)
        BY <3>1
      <4>2. QED
        BY ONLY <1>0, <4>1, b \in Buf, PoolSteps, AppendProperties
    <3>2. CASE ~(Len(v3) < QueueSize)
      BY <3>2
    <3>3. QED
      BY <3>1, <3>2
  <2>3. v4' = v4
    OBVIOUS
  <2>4. QED
    BY <1>a, <2>1, <2>2, <2>3 DEF Accounted
<1>5. ASSUME NEW n \in Nf, NEW b \in Buf, Req!RequestFtEmpty(n, b) PROVE Accounted'
  <2> USE <1>5 DEF Req!RequestFtEmpty, Req!Put
  <2>1. Extra(v8') = Extra(v8) + 1
    <3>1. v8' = [v8 EXCEPT !.made[n] = @ + 1, !.wild = @ + 1]
      OBVIOUS
    <3>2. QED
      BY ONLY <1>0, <3>1, n \in Nf, CountWild
  <2>2. PoolSum(v1') = PoolSum(v1) + 1
    BY <1>0, PoolSteps
  <2>3. v3' = v3 /\ v4' = v4
    OBVIOUS
  <2>4. QED
    BY <1>a, <2>1, <2>2, <2>3 DEF Accounted
<1>6. ASSUME NEW n \in Nf, NEW b \in Buf, Req!SendMsg(n, b) PROVE Accounted'
  <2> USE <1>6 DEF Req!SendMsg, Req!Get
  <2>1. PoolSum(v1') = PoolSum(v1) - 1
    BY <1>0, PoolSteps
  <2>2. \/ InboxSum(v4') = InboxSum(v4) + 1 /\ v8' = v8
        \/ v4' = v4 /\ Extra(v8') = Extra(v8) - 1
    <3>1. CASE Len(v4[n]) < QueueSize
      <4>1. v4' = [v4 EXCEPT ![n] = Append(@, b)] /\ v8' = v8
        BY <3>1
      <4>2. QED
        <5>1. PICK s \in Seq(Buf) : s = Append(v4[n], b)
          BY ONLY <1>0, b \in Buf, n \in Nf, AppendProperties
        <5>2. v4' = [v4 EXCEPT ![n] = s] /\ Len(s) = Len(v4[n]) + 1 /\ Len(v4[n]) \in Nat
          BY ONLY <1>0, <4>1, <5>1, b \in Buf, n \in Nf
        <5>3. InboxSum(v4') = InboxSum(v4) + (Len(s) - Len(v4[n]))
          BY ONLY <1>0, <5>2, n \in Nf, s \in Seq(Buf), InboxChange
        <5>4. QED
          BY ONLY <1>a, <4>1, <5>2, <5>3
    <3>2. CASE ~(Len(v4[n]) < QueueSize)
      BY <1>0, <3>2, CountSteps
    <3>3. QED
      BY <3>1, <3>2
  <2>3. v3' = v3
    OBVIOUS
  <2>4. QED
    BY <1>a, <2>1, <2>2, <2>3 DEF Accounted
<1>7. ASSUME NEW n \in Nf, NEW d \in Nf, NEW b \in Buf, Req!SendToNf(n, d, b) PROVE Accounted'
  <2> USE <1>7 DEF Req!SendToNf, Req!Get
  <2>1. \/ PoolSum(v1') = PoolSum(v1) - 1 /\ InboxSum(v4') = InboxSum(v4) + 1
        \/ v1' = v1 /\ v4' = v4
    <3>1. CASE Len(v4[d]) < QueueSize
      <4>1. PoolSum(v1') = PoolSum(v1) - 1
        BY <1>0, <3>1, PoolSteps
      <4>2. InboxSum(v4') = InboxSum(v4) + 1
        <5>1. v4' = [v4 EXCEPT ![d] = Append(@, b)]
          BY <3>1
        <5>2. QED
          <6>1. PICK s \in Seq(Buf) : s = Append(v4[d], b)
            BY ONLY <1>0, b \in Buf, d \in Nf, AppendProperties
          <6>2. v4' = [v4 EXCEPT ![d] = s] /\ Len(s) = Len(v4[d]) + 1 /\ Len(v4[d]) \in Nat
            BY ONLY <1>0, <5>1, <6>1, b \in Buf, d \in Nf
          <6>3. InboxSum(v4') = InboxSum(v4) + (Len(s) - Len(v4[d]))
            BY ONLY <1>0, <6>2, d \in Nf, s \in Seq(Buf), InboxChange
          <6>4. QED
            BY ONLY <1>a, <6>2, <6>3
      <4>3. QED
        BY <4>1, <4>2
    <3>2. CASE ~(Len(v4[d]) < QueueSize)
      BY <3>2
    <3>3. QED
      BY <3>1, <3>2
  <2>2. v3' = v3 /\ v8' = v8
    OBVIOUS
  <2>3. QED
    BY <1>a, <2>1, <2>2 DEF Accounted
<1>8. ASSUME NEW a \in Req!Answers, Req!Handle(a) PROVE Accounted'
  <2> USE <1>8 DEF Req!Handle, Req!Put
  <2>1. Head(v3) \in Buf /\ Len(v3') = Len(v3) - 1
    BY <1>0
  <2>2. PoolSum(v1') = PoolSum(v1) + 1
    BY <1>0, <2>1, PoolSteps
  <2>3. v4' = v4 /\ v8' = v8
    OBVIOUS
  <2>4. QED
    BY <1>a, <2>1, <2>2, <2>3 DEF Accounted
<1>9. QED
  BY <1>1, <1>2, <1>3, <1>4, <1>5, <1>6, <1>7, <1>8 DEF Req!Next

\* Who asks is still asking after a buffer of the pool was written, and queued or not.
LEMMA AsksStill ==
    ASSUME ReqTypes, Once, NEW b \in Buf, v1[b] > 0, NEW y, v2' = [v2 EXCEPT ![b] = y],
           v3' = v3 \/ v3' = Append(v3, b),
           NEW m \in Nf, Asks(m)
    PROVE  Asks(m)'
<1>1. v1 \in [Buf -> Nat] /\ v3 \in Seq(Buf) /\ v2 = [a \in Buf |-> v2[a]]
  BY DEF ReqTypes
<1>2. PICK i \in 1 .. Len(v3) : v2[v3[i]] = [type |-> "request", nf |-> m]
  BY DEF Asks
<1>3. v3[i] \in Buf /\ v3[i] # b
  BY <1>1 DEF Once, OnceIn
<1>4. v2'[v3[i]] = v2[v3[i]]
  BY <1>1, <1>3
<1>5. i \in 1 .. Len(v3') /\ v3'[i] = v3[i]
  BY <1>1
<1>6. QED
  BY <1>2, <1>4, <1>5 DEF Asks

\* An NF that waits keeps its request in the queue when only the buffers and the queue
\* change and every request there stays.
LEMMA PendingStill ==
    ASSUME Pending, v5' = v5, v6' = v6, v7' = v7, \A m \in Nf : Asks(m) => Asks(m)'
    PROVE  Pending'
BY DEF Pending

\* While no buffer was put back twice or in error, each is in one place and who waits
\* for an answer is in the queue.
LEMMA ReqTidyStep ==
    ASSUME ReqTypes, ReqTidy, Req!Next
    PROVE  ReqTidy'
<1> SUFFICES ASSUME Surplus(v8') = 0 PROVE Once' /\ Pending'
  BY DEF ReqTidy
<1>0. /\ v1 \in [Buf -> Nat] /\ v3 \in Seq(Buf) /\ v4 \in [Nf -> Seq(Buf)]
      /\ v5 \in [Nf -> {"unset", "waiting", "ok", "fail"}]
      /\ v6 \in [Nf -> [at : {"idle", "sent", "waiting"}, buf : Buf]]
      /\ v7 \in SUBSET Nf /\ v8 \in Counts
  BY DEF ReqTypes
<1>a. Surplus(v8) = 0 => OnceIn(Buf, Nf, v1, v3, v4) /\ Once /\ Pending
  BY DEF ReqTidy, Once
<1>1. ASSUME NEW n \in Nf, Req!Wait(n) PROVE Once' /\ Pending'
  <2> USE <1>1 DEF Req!Wait
  <2>1. v1' = v1 /\ v2' = v2 /\ v3' = v3 /\ v4' = v4 /\ v8' = v8
    OBVIOUS
  <2>2. Once /\ Pending
    BY <1>a, <2>1
  <2>3. Once'
    BY <2>1, <2>2 DEF Once
  <2>4. \A m \in Nf : Asks(m)' <=> Asks(m)
    BY <2>1 DEF Asks
  <2>5. /\ v6'[n].at = "waiting"
        /\ v5[n] # "unset" => n \in v7'
        /\ v6[n].at = "sent"
    BY <1>0
  <2>6. \A m \in Nf \ {n} : v6'[m] = v6[m] /\ v5'[m] = v5[m] /\ (m \in v7 => m \in v7')
    BY <1>0
  <2>7. ASSUME NEW m \in Nf,
               \/ v6'[m].at = "sent" /\ v5'[m] = "unset"
               \/ v6'[m].at = "waiting" /\ v5'[m] = "waiting" /\ m \notin v7'
        PROVE  Asks(m)
    <3>1. CASE m = n
      BY <2>2, <2>5, <2>7, <3>1 DEF Pending
    <3>2. CASE m # n
      BY <2>2, <2>6, <2>7, <3>2 DEF Pending
    <3>3. QED
      BY <3>1, <3>2
  <2>8. Pending'
    BY <2>4, <2>7 DEF Pending
  <2>9. QED
    BY <2>3, <2>8
<1>2. ASSUME NEW n \in Nf, Req!Return(n) PROVE FALSE
  <2>1. v8' = [v8 EXCEPT !.returned = @ + 1]
    BY <1>2 DEF Req!Return
  <2>2. QED
    BY ONLY <1>0, <2>1, n \in Nf, Surplus(v8') = 0, CountSteps
<1>3. ASSUME NEW n \in Nf, Req!DequeueMessages(n) PROVE Once' /\ Pending'
  <2>1. /\ v4[n] # <<>> /\ v1' = [v1 EXCEPT ![Head(v4[n])] = @ + 1]
        /\ v4' = [v4 EXCEPT ![n] = Tail(@)]
        /\ v2' = v2 /\ v3' = v3 /\ v5' = v5 /\ v6' = v6 /\ v7' = v7 /\ v8' = v8
    BY <1>3 DEF Req!DequeueMessages, Req!Put
  <2>2. OnceIn(Buf, Nf, v1, v3, v4) /\ Pending
    BY <1>a, <2>1
  <2>3. Once'
    BY ONLY <1>0, <2>1, <2>2, n \in Nf, OncePut DEF Once
  <2>4. \A m \in Nf : Asks(m) => Asks(m)'
    BY <2>1 DEF Asks
  <2>5. QED
    BY <2>1, <2>2, <2>3, <2>4, PendingStill
<1>4. ASSUME NEW n \in Nf, NEW b \in Buf, Req!Request(n, b) PROVE Once' /\ Pending'
  <2>1. /\ v1[b] > 0 /\ v6[n].at = "idle" /\ v4' = v4 /\ v7' = v7 \ {n}
        /\ v2' = [v2 EXCEPT ![b] = [type |-> "request", nf |-> n]]
        /\ v8' = [v8 EXCEPT !.made[n] = @ + 1]
    BY <1>4 DEF Req!Request
  <2>2. Surplus(v8') = Surplus(v8)
    BY ONLY <1>0, <2>1, n \in Nf, CountSteps
  <2>3. OnceIn(Buf, Nf, v1, v3, v4) /\ Once /\ Pending
    BY <1>a, <2>2
  <2>4. CASE Len(v3) < QueueSize
    <3>1. /\ v1' = [v1 EXCEPT ![b] = @ - 1] /\ v3' = Append(v3, b)
          /\ v6' = [v6 EXCEPT ![n] = [at |-> "sent", buf |-> b]]
          /\ v5' = [v5 EXCEPT ![n] = "unset"]
      BY <1>4, <2>4 DEF Req!Request, Req!Get
    <3>2. Once'
      BY ONLY <1>0, <2>1, <2>3, <3>1, b \in Buf, OnceTaken DEF Once
    <3>3. \A m \in Nf : Asks(m) => Asks(m)'
      BY <2>1, <2>3, <3>1, AsksStill
    <3>4. Asks(n)'
      <4>1. Len(v3) + 1 \in 1 .. Len(v3') /\ v3'[Len(v3) + 1] = b
        BY <1>0, <3>1
      <4>2. v2'[b] = [type |-> "request", nf |-> n]
        BY <2>1 DEF ReqTypes
      <4>3. QED
        BY <4>1, <4>2 DEF Asks
    <3>5. \A m \in Nf \ {n} : v6'[m] = v6[m] /\ v5'[m] = v5[m] /\ (m \in v7 => m \in v7')
      BY <1>0, <2>1, <3>1
    <3>6. Pending'
      BY <2>3, <3>3, <3>4, <3>5 DEF Pending
    <3>7. QED
      BY <3>2, <3>6
  <2>5. CASE ~(Len(v3) < QueueSize)
    <3>1. v1' = v1 /\ v3' = v3 /\ v6' = v6 /\ v5' = v5
      BY <1>4, <2>5 DEF Req!Request
    <3>2. Once'
      BY <2>1, <2>3, <3>1 DEF Once
    <3>3. \A m \in Nf : Asks(m) => Asks(m)'
      BY <2>1, <2>3, <3>1, AsksStill
    <3>4. \A m \in Nf \ {n} : m \in v7 => m \in v7'
      BY <2>1
    <3>5. Pending'
      BY <2>1, <2>3, <3>1, <3>3, <3>4 DEF Pending
    <3>6. QED
      BY <3>2, <3>5
  <2>6. QED
    BY <2>4, <2>5
<1>5. ASSUME NEW n \in Nf, NEW b \in Buf, Req!RequestFtEmpty(n, b) PROVE FALSE
  <2>1. v8' = [v8 EXCEPT !.made[n] = @ + 1, !.wild = @ + 1]
    BY <1>5 DEF Req!RequestFtEmpty
  <2>2. QED
    BY ONLY <1>0, <2>1, n \in Nf, Surplus(v8') = 0, CountWild
<1>6. ASSUME NEW n \in Nf, NEW b \in Buf, Req!SendMsg(n, b) PROVE Once' /\ Pending'
  <2>1. /\ v1[b] > 0 /\ v1' = [v1 EXCEPT ![b] = @ - 1]
        /\ v2' = [v2 EXCEPT ![b] = [type |-> "order", nf |-> n]]
        /\ v3' = v3 /\ v5' = v5 /\ v6' = v6 /\ v7' = v7
        /\ \/ v4' = [v4 EXCEPT ![n] = Append(@, b)] /\ v8' = v8
           \/ v4' = v4 /\ v8' = [v8 EXCEPT !.leaked = @ + 1]
    BY <1>6 DEF Req!SendMsg, Req!Get
  <2>2. Surplus(v8') = Surplus(v8)
    BY ONLY <1>0, <2>1, n \in Nf, CountSteps
  <2>3. OnceIn(Buf, Nf, v1, v3, v4) /\ Once /\ Pending
    BY <1>a, <2>2
  <2>4. Once'
    <3>1. /\ OnceIn(Buf, Nf, v1', v3, v4)
          /\ \A d \in Nf : OnceIn(Buf, Nf, v1', v3, [v4 EXCEPT ![d] = Append(@, b)])
      BY ONLY <1>0, <2>1, <2>3, b \in Buf, OnceTaken
    <3>2. OnceIn(Buf, Nf, v1', v3, v4')
      BY <2>1, <3>1
    <3>3. QED
      BY <2>1, <3>2 DEF Once
  <2>5. \A m \in Nf : Asks(m) => Asks(m)'
    BY <2>1, <2>3, AsksStill
  <2>6. QED
    BY <2>1, <2>3, <2>4, <2>5, PendingStill
<1>7. ASSUME NEW n \in Nf, NEW d \in Nf, NEW b \in Buf, Req!SendToNf(n, d, b)
      PROVE  Once' /\ Pending'
  <2>1. /\ v1[b] > 0 /\ v2' = [v2 EXCEPT ![b] = [type |-> "data", nf |-> n]]
        /\ v3' = v3 /\ v5' = v5 /\ v6' = v6 /\ v7' = v7 /\ v8' = v8
        /\ \/ v4' = [v4 EXCEPT ![d] = Append(@, b)] /\ v1' = [v1 EXCEPT ![b] = @ - 1]
           \/ v4' = v4 /\ v1' = v1
    BY <1>7 DEF Req!SendToNf, Req!Get
  <2>2. OnceIn(Buf, Nf, v1, v3, v4) /\ Once /\ Pending
    BY <1>a, <2>1
  <2>3. Once'
    <3>1. CASE v4' = [v4 EXCEPT ![d] = Append(@, b)] /\ v1' = [v1 EXCEPT ![b] = @ - 1]
      <4>a. v1[b] > 0 /\ v1' = [v1 EXCEPT ![b] = @ - 1]
        BY <2>1, <3>1
      <4>1. \A e \in Nf : OnceIn(Buf, Nf, v1', v3, [v4 EXCEPT ![e] = Append(@, b)])
        BY ONLY <1>0, <2>2, <4>a, b \in Buf, OnceTaken
      <4>2. OnceIn(Buf, Nf, v1', v3, v4')
        BY <3>1, <4>1
      <4>3. QED
        BY <2>1, <4>2 DEF Once
    <3>2. CASE v4' = v4 /\ v1' = v1
      BY <2>1, <2>2, <3>2 DEF Once
    <3>3. QED
      BY <2>1, <3>1, <3>2
  <2>4. \A m \in Nf : Asks(m) => Asks(m)'
    BY <2>1, <2>2, AsksStill
  <2>5. QED
    BY <2>1, <2>2, <2>3, <2>4, PendingStill
<1>8. ASSUME NEW a \in Req!Answers, Req!Handle(a) PROVE Once' /\ Pending'
  <2>1. /\ v3 # <<>> /\ v3' = Tail(v3) /\ v1' = [v1 EXCEPT ![Head(v3)] = @ + 1]
        /\ v2' = v2 /\ v4' = v4 /\ v6' = v6 /\ v7' = v7 /\ v8' = v8
        /\ v5' = IF v2[Head(v3)].type = "request"
                 THEN [v5 EXCEPT ![v2[Head(v3)].nf] = a] ELSE v5
    BY <1>8 DEF Req!Handle, Req!Put
  <2>2. OnceIn(Buf, Nf, v1, v3, v4) /\ Once /\ Pending
    BY <1>a, <2>1
  <2>3. Once'
    BY ONLY <1>0, <2>1, <2>2, OncePut DEF Once
  <2>4. a # "unset" /\ a # "waiting"
    BY DEF Req!Answers
  <2>5. Head(v3) = v3[1] /\ Head(v3) \in Buf /\ \A m \in Nf : v5'[m] = v5[m] \/ v5'[m] = a
    BY <1>0, <2>1
  <2>6. ASSUME NEW m \in Nf,
               \/ v6[m].at = "sent" /\ v5'[m] = "unset"
               \/ v6[m].at = "waiting" /\ v5'[m] = "waiting" /\ m \notin v7
        PROVE  Asks(m)'
    <3>1. v5[m] = v5'[m] /\ v5'[m] # a
      BY <2>4, <2>5, <2>6
    <3>2. PICK i \in 1 .. Len(v3) : v2[v3[i]] = [type |-> "request", nf |-> m]
      BY <2>2, <2>6, <3>1 DEF Pending, Asks
    <3>3. i # 1
      <4>1. SUFFICES ASSUME i = 1 PROVE FALSE
        OBVIOUS
      <4>2. v2[Head(v3)].type = "request" /\ v2[Head(v3)].nf = m
        BY <2>5, <3>2, <4>1
      <4>3. QED
        BY <1>0, <2>1, <3>1, <4>2
    <3>4. i - 1 \in 1 .. Len(v3') /\ v3'[i - 1] = v3[i]
      BY <1>0, <2>1, <3>3
    <3>5. v2'[v3'[i - 1]] = [type |-> "request", nf |-> m]
      BY <2>1, <3>2, <3>4
    <3>6. QED
      BY <3>4, <3>5 DEF Asks
  <2>7. Pending'
    BY <2>1, <2>6 DEF Pending
  <2>8. QED
    BY <2>3, <2>7
<1>9. QED
  BY <1>1, <1>2, <1>3, <1>4, <1>5, <1>6, <1>7, <1>8 DEF Req!Next

LEMMA ReqStep == ASSUME ReqInv, [Req!Next]_(Req!vars) PROVE ReqInv'
<1>1. CASE Req!Next
  BY <1>1, ReqTypesStep, ReqAccountedStep, ReqTidyStep DEF ReqInv
<1>2. CASE UNCHANGED Req!vars
  BY <1>2 DEF Req!vars, ReqInv, ReqTypes, Accounted, ReqTidy, Once, Pending, Asks
<1>3. QED
  BY <1>1, <1>2

-----------------------------------------------------------------------------
(* The flow director: v1 is the hash table, v2 its data, v3 the chains, v4 what *)
(* the NF is doing, v5 whether the process is broken.                        *)

\* Chains over the places s of the list ds, as BuildChain makes them.
Greatest(s) == CHOOSE x \in s : \A y \in s : x >= y
Chains(D, ds, g) ==
    g = [s \in D |-> IF s = {} THEN Director!NewChain
                     ELSE Director!Append1(g[s \ {Greatest(s)}], ds[Greatest(s)])]
ChainsOf(ds) == CHOOSE g : Chains(SUBSET DOMAIN ds, ds, g)

\* BuildChain takes the chain over all places.
LEMMA BuildIsChain ==
    ASSUME NEW ds
    PROVE  Director!BuildChain(ds) = ChainsOf(ds)[DOMAIN ds]
BY DEF Director!BuildChain, Director!FoldLeft, Director!MapThenFoldSet, Director!Max,
       Greatest, Chains, ChainsOf

\* The greatest place is one of them, and without it there are fewer.
LEMMA GreatestOut ==
    ASSUME NEW n \in Nat, NEW s \in SUBSET (1 .. n), s # {}
    PROVE  /\ Greatest(s) \in s /\ s \ {Greatest(s)} \in SUBSET (1 .. n)
           /\ Cardinality(s) \in Nat \ {0}
           /\ Cardinality(s \ {Greatest(s)}) = Cardinality(s) - 1
<1>1. s \in SUBSET (0 .. n)
  OBVIOUS
<1>2. PICK m \in s : \A x \in s : x <= m
  BY <1>1, Largest
<1>3. \A x \in s : m >= x
  BY <1>2
<1>4. Greatest(s) \in s
  BY <1>3 DEF Greatest
<1>5. IsFiniteSet(1 .. n)
  BY FS_Interval
<1>6. IsFiniteSet(s)
  BY <1>5, FS_Subset
<1>7. Cardinality(s) \in Nat /\ Cardinality(s) # 0
  BY <1>6, FS_CardinalityType, FS_EmptySet
<1>8. Cardinality(s \ {Greatest(s)}) = Cardinality(s) - 1
  BY <1>4, <1>6, FS_RemoveElement
<1>9. QED
  BY <1>4, <1>7, <1>8

\* Chains over more places come from those over fewer.
LEMMA ChainsGrow ==
    ASSUME NEW n \in Nat, NEW ds, NEW k \in Nat, NEW h, Chains(Small(1 .. n, k), ds, h)
    PROVE  \E g : Chains(Small(1 .. n, k + 1), ds, g)
<1> DEFINE g == [s \in Small(1 .. n, k + 1) |->
                    IF s = {} THEN Director!NewChain
                    ELSE Director!Append1(h[s \ {Greatest(s)}], ds[Greatest(s)])]
<1>1. ASSUME NEW s \in Small(1 .. n, k) PROVE s \in Small(1 .. n, k + 1) /\ g[s] = h[s]
  <2>1. s \in SUBSET (1 .. n) /\ Cardinality(s) <= k
    BY <1>1 DEF Small
  <2>2. Cardinality(s) \in Nat
    <3>1. IsFiniteSet(1 .. n)
      BY FS_Interval
    <3>2. QED
      BY <2>1, <3>1, FS_Subset, FS_CardinalityType
  <2>3. s \in Small(1 .. n, k + 1)
    BY <2>1, <2>2 DEF Small
  <2>4. h[s] = IF s = {} THEN Director!NewChain
               ELSE Director!Append1(h[s \ {Greatest(s)}], ds[Greatest(s)])
    BY <1>1 DEF Chains
  <2>5. QED
    BY <2>3, <2>4
<1>2. ASSUME NEW s \in Small(1 .. n, k + 1), s # {} PROVE s \ {Greatest(s)} \in Small(1 .. n, k)
  <2>1. s \in SUBSET (1 .. n) /\ Cardinality(s) <= k + 1
    BY <1>2 DEF Small
  <2>2. QED
    BY <1>2, <2>1, GreatestOut DEF Small
<1>3. \A s \in Small(1 .. n, k + 1) : s # {} => g[s \ {Greatest(s)}] = h[s \ {Greatest(s)}]
  <2> HIDE DEF g
  <2>1. QED
    BY <1>1, <1>2
<1>4. g = [s \in Small(1 .. n, k + 1) |->
              IF s = {} THEN Director!NewChain
              ELSE Director!Append1(g[s \ {Greatest(s)}], ds[Greatest(s)])]
  BY <1>3
<1>5. QED
  BY <1>4 DEF Chains

\* There are such chains, so that ChainsOf(ds) has them.
LEMMA ChainsExist ==
    ASSUME NEW n \in Nat, NEW ds, DOMAIN ds = 1 .. n
    PROVE  Chains(SUBSET DOMAIN ds, ds, ChainsOf(ds))
<1> DEFINE Bad == {k \in Nat : \A g : ~Chains(Small(1 .. n, k), ds, g)}
<1>1. Bad = {}
  <2>1. SUFFICES ASSUME Bad # {} PROVE FALSE
    OBVIOUS
  <2>2. PICK m \in Bad : \A x \in Bad : m <= x
    BY <2>1, LeastNat
  <2>3. m # 0
    <3>1. SUFFICES ASSUME m = 0 PROVE \E g : Chains(Small(1 .. n, 0), ds, g)
      BY <2>2
    <3>2. ASSUME NEW s \in Small(1 .. n, 0) PROVE s = {}
      <4>1. s \in SUBSET (1 .. n) /\ Cardinality(s) <= 0
        BY <3>2 DEF Small
      <4>2. IsFiniteSet(1 .. n)
        BY FS_Interval
      <4>3. IsFiniteSet(s) /\ Cardinality(s) \in Nat
        BY <4>1, <4>2, FS_Subset, FS_CardinalityType
      <4>4. Cardinality(s) = 0
        BY <4>1, <4>3
      <4>5. QED
        BY <4>3, <4>4, FS_EmptySet
    <3>3. PICK g : g = [s \in Small(1 .. n, 0) |-> Director!NewChain]
      OBVIOUS
    <3>4. g = [s \in Small(1 .. n, 0) |-> IF s = {} THEN Director!NewChain
                  ELSE Director!Append1(g[s \ {Greatest(s)}], ds[Greatest(s)])]
      BY <3>2, <3>3
    <3>5. QED
      BY <3>4 DEF Chains
  <2>4. m \in Nat /\ m - 1 \in Nat /\ m - 1 \notin Bad /\ (m - 1) + 1 = m
    BY <2>2, <2>3
  <2>5. PICK h : Chains(Small(1 .. n, m - 1), ds, h)
    BY <2>4
  <2>6. \E g : Chains(Small(1 .. n, m), ds, g)
    BY <2>4, <2>5, ChainsGrow
  <2>7. QED
    BY <2>2, <2>6
<1>2. Cardinality(1 .. n) \in Nat /\ IsFiniteSet(1 .. n)
  BY FS_Interval, FS_CardinalityType
<1>3. \E g : Chains(Small(1 .. n, Cardinality(1 .. n)), ds, g)
  BY <1>1, <1>2
<1>4. Small(1 .. n, Cardinality(1 .. n)) = SUBSET (1 .. n)
  BY <1>2, FS_Subset DEF Small
<1>5. QED
  BY <1>3, <1>4 DEF ChainsOf

-----------------------------------------------------------------------------
(* Chains, entries and what the NF is doing *)

FdChain == [sc : [1 .. MaxChain - 1 -> Nat], len : Nat, ref : Nat, built : Seq(Nat)]

\* A chain below the limit has the entries that were appended.
AsBuilt(c) ==
    Len(c.built) < MaxChain =>
        c.len = Len(c.built) /\ \A i \in 1 .. Len(c.built) : c.sc[i] = c.built[i]

\* onvm_sc_create, and what onvm_sc_append_entry keeps.
LEMMA ChainCreated == Director!NewChain \in FdChain /\ AsBuilt(Director!NewChain)
<1>1. <<>> \in Seq(Nat) /\ Len(<<>>) = 0
  OBVIOUS
<1>2. QED
  BY <1>1 DEF Director!NewChain, FdChain, AsBuilt

LEMMA ChainAppended ==
    ASSUME Director!Sized, NEW c \in FdChain, AsBuilt(c), NEW d \in Nat
    PROVE  Director!Append1(c, d) \in FdChain /\ AsBuilt(Director!Append1(c, d))
<1>1. /\ c.sc \in [1 .. MaxChain - 1 -> Nat] /\ c.len \in Nat /\ c.ref \in Nat
      /\ c.built \in Seq(Nat) /\ MaxChain \in Nat \ {0}
  BY DEF FdChain, Director!Sized
<1>2. PICK q : /\ q = Append(c.built, d) /\ q \in Seq(Nat) /\ Len(q) = Len(c.built) + 1
               /\ Len(c.built) \in Nat /\ q[Len(c.built) + 1] = d
               /\ \A i \in 1 .. Len(c.built) : q[i] = c.built[i]
  <2>1. PICK e \in Seq(Nat) : e = c.built
    BY <1>1
  <2>2. PICK q : q = Append(e, d)
    OBVIOUS
  <2>3. /\ q \in Seq(Nat) /\ Len(q) = Len(e) + 1 /\ Len(e) \in Nat /\ q[Len(e) + 1] = d
        /\ \A i \in 1 .. Len(e) : q[i] = e[i]
    BY <2>2, AppendProperties
  <2>4. QED
    BY <2>1, <2>2, <2>3
<1>3. CASE c.len > MaxChain
  BY <1>3 DEF Director!Append1
<1>4. CASE ~(c.len > MaxChain) /\ c.len + 1 < MaxChain
  <2>1. PICK b : b = [sc |-> [c.sc EXCEPT ![c.len + 1] = d], len |-> c.len + 1, ref |-> c.ref, built |-> q]
    OBVIOUS
  <2>2. Director!Append1(c, d) = b
    <3>1. PICK e : e = [c EXCEPT !.built = Append(@, d)]
      OBVIOUS
    <3>2. e = [sc |-> c.sc, len |-> c.len, ref |-> c.ref, built |-> q]
      BY <1>2, <3>1 DEF FdChain
    <3>3. [e EXCEPT !.len = c.len + 1, !.sc[c.len + 1] = d] = b
      <4>1. PICK n : n = c.len + 1
        OBVIOUS
      <4>2. [e EXCEPT !.len = n, !.sc[n] = d]
            = [e EXCEPT !.len = n, !.sc = [e.sc EXCEPT ![n] = d]]
        BY <3>2
      <4>3. [e EXCEPT !.len = n, !.sc = [e.sc EXCEPT ![n] = d]] = b
        <5>1. PICK t : t = [c.sc EXCEPT ![n] = d]
          OBVIOUS
        <5>2. e.sc = c.sc
          BY <3>2
        <5>3. [e EXCEPT !.len = n, !.sc = t] = [sc |-> t, len |-> n, ref |-> c.ref, built |-> q]
          <6>1. PICK x : x = [e EXCEPT !.len = n]
            OBVIOUS
          <6>2. x = [sc |-> c.sc, len |-> n, ref |-> c.ref, built |-> q]
            BY <3>2, <6>1
          <6>3. [x EXCEPT !.sc = t] = [sc |-> t, len |-> n, ref |-> c.ref, built |-> q]
            BY <6>2
          <6>4. QED
            BY <3>2, <6>1, <6>3
        <5>4. QED
          BY <2>1, <4>1, <5>1, <5>2, <5>3
      <4>4. QED
        BY <4>1, <4>2, <4>3
    <3>4. QED
      BY <1>4, <3>1, <3>3 DEF Director!Append1
  <2>3. c.len + 1 \in 1 .. MaxChain - 1
    BY <1>1, <1>4
  <2>4. b \in FdChain
    BY <1>1, <1>2, <2>1, <2>3 DEF FdChain
  <2>5. AsBuilt(b)
    <3>1. SUFFICES ASSUME Len(q) < MaxChain
                   PROVE  c.len + 1 = Len(q) /\ \A i \in 1 .. Len(q) : b.sc[i] = q[i]
      BY <2>1 DEF AsBuilt
    <3>2. Len(c.built) < MaxChain /\ c.len = Len(c.built)
      BY <1>1, <1>2, <3>1 DEF AsBuilt
    <3>3. b.sc[c.len + 1] = d /\ \A i \in 1 .. MaxChain - 1 : i # c.len + 1 => b.sc[i] = c.sc[i]
      BY <1>1, <2>1, <2>3
    <3>4. ASSUME NEW i \in 1 .. Len(q) PROVE b.sc[i] = q[i]
      <4>1. CASE i = Len(c.built) + 1
        BY <1>2, <3>2, <3>3, <4>1
      <4>2. CASE i # Len(c.built) + 1
        <5>1. i \in 1 .. Len(c.built) /\ i \in 1 .. MaxChain - 1 /\ i # c.len + 1
          BY ONLY <1>1, <1>2, <3>1, <3>2, <4>2, i \in 1 .. Len(q)
        <5>2. b.sc[i] = c.sc[i] /\ c.sc[i] = c.built[i]
          BY <3>2, <3>3, <5>1 DEF AsBuilt
        <5>3. QED
          BY <1>2, <5>1, <5>2
      <4>3. QED
        BY <4>1, <4>2
    <3>5. QED
      BY <1>2, <3>2, <3>4
  <2>6. QED
    BY <2>2, <2>4, <2>5
<1>5. CASE ~(c.len > MaxChain) /\ ~(c.len + 1 < MaxChain)
  <2>1. Len(q) >= MaxChain
    <3>1. CASE Len(c.built) < MaxChain
      BY <1>1, <1>2, <1>5, <3>1 DEF AsBuilt
    <3>2. CASE ~(Len(c.built) < MaxChain)
      BY <1>1, <1>2, <3>2
    <3>3. QED
      BY <3>1, <3>2
  <2>2. PICK l \in Nat, r \in Nat :
           Director!Append1(c, d) = [sc |-> c.sc, len |-> l, ref |-> r, built |-> q]
    <3>1. CASE c.len + 1 = MaxChain
      <4>1. Director!Append1(c, d) = [sc |-> c.sc, len |-> d, ref |-> c.ref, built |-> q]
        BY <1>1, <1>2, <1>5, <3>1 DEF Director!Append1, FdChain
      <4>2. QED
        BY <1>1, <4>1
    <3>2. CASE c.len + 1 # MaxChain
      <4>1. Director!Append1(c, d) = [sc |-> c.sc, len |-> c.len + 1, ref |-> d, built |-> q]
        BY <1>1, <1>2, <1>5, <3>2 DEF Director!Append1, FdChain
      <4>2. c.len + 1 \in Nat
        BY <1>1
      <4>3. QED
        BY <4>1, <4>2
    <3>3. QED
      BY <3>1, <3>2
  <2>3. QED
    BY <1>1, <1>2, <2>1, <2>2 DEF FdChain, AsBuilt
<1>6. QED
  BY <1>3, <1>4, <1>5

\* So the chain of a flow modification is as its list says.
LEMMA ChainBuilt ==
    ASSUME Director!Sized, NEW ds \in Builds
    PROVE  Director!BuildChain(ds) \in FdChain /\ AsBuilt(Director!BuildChain(ds))
<1>1. PICK n \in Nat : ds \in [1 .. n -> Nat] /\ DOMAIN ds = 1 .. n
  BY DEF Director!Sized
<1>2. PICK g : g = ChainsOf(ds)
  OBVIOUS
<1>3. g = [s \in SUBSET (1 .. n) |-> IF s = {} THEN Director!NewChain
              ELSE Director!Append1(g[s \ {Greatest(s)}], ds[Greatest(s)])]
  BY <1>1, <1>2, ChainsExist DEF Chains
<1> DEFINE OK(s) == g[s] \in FdChain /\ AsBuilt(g[s])
           Sizes == {Cardinality(s) : s \in {t \in SUBSET (1 .. n) : ~OK(t)}}
<1>4. ASSUME NEW s \in SUBSET (1 .. n) PROVE OK(s)
  <2>1. SUFFICES ASSUME ~OK(s) PROVE FALSE
    OBVIOUS
  <2>2. \A t \in SUBSET (1 .. n) : Cardinality(t) \in Nat
    <3>1. IsFiniteSet(1 .. n)
      BY FS_Interval
    <3>2. QED
      BY <3>1, FS_Subset, FS_CardinalityType
  <2>3. Sizes \in SUBSET Nat /\ Sizes # {}
    BY <2>1, <2>2
  <2>4. PICK k \in Sizes : \A x \in Sizes : k <= x
    <3> HIDE DEF Sizes
    <3>1. QED
      BY <2>3, LeastNat
  <2>5. PICK t \in SUBSET (1 .. n) : ~OK(t) /\ k = Cardinality(t)
    BY <2>4
  <2>6. CASE t = {}
    <3>1. g[t] = Director!NewChain
      BY <1>3, <2>6
    <3>2. QED
      BY <2>5, <3>1, ChainCreated
  <2>7. CASE t # {}
    <3>1. PICK x \in 1 .. n : x = Greatest(t)
      BY <2>7, GreatestOut
    <3>2. PICK r \in SUBSET (1 .. n) :
             r = t \ {x} /\ Cardinality(r) = Cardinality(t) - 1 /\ Cardinality(t) \in Nat
      BY <2>7, <3>1, GreatestOut
    <3>3. g[t] = Director!Append1(g[r], ds[x])
      BY <1>3, <2>7, <3>1, <3>2
    <3>4. OK(r)
      <4>1. SUFFICES ASSUME ~OK(r) PROVE FALSE
        OBVIOUS
      <4>2. Cardinality(r) \in Sizes
        BY <4>1
      <4>3. k <= Cardinality(r)
        BY <2>4, <4>2
      <4>4. QED
        BY <2>5, <3>2, <4>3
    <3>5. ds[x] \in Nat
      BY <1>1
    <3>6. QED
      BY <2>5, <3>3, <3>4, <3>5, ChainAppended
  <2>8. QED
    BY <2>6, <2>7
<1>5. Director!BuildChain(ds) = g[1 .. n]
  BY <1>1, <1>2, BuildIsChain
<1>6. QED
  BY <1>4, <1>5

FdEntry == {Director!Keyed(k, HwRss[k]) : k \in Key} \cup {Director!Keyed(k, SoftRss[k]) : k \in Key}

FdDoing ==
    \/ v4 = [at |-> "idle"]
    \/ \E x \in {"added", "cleared", "created", "freed"}, s \in Slot : v4 = [at |-> x, slot |-> s]
    \/ \E s \in Slot, a \in Addr : v4 = [at |-> "mod", slot |-> s, new |-> a]

FdTypes ==
    /\ v1 \in [Slot -> FdEntry \cup {Director!Empty}]
    /\ v2 \in [Slot -> Addr \cup {0}]
    /\ v3 \in [Addr -> FdChain \cup {Director!Empty}]
    /\ FdDoing

FdBuilt == \A a \in Addr : v3[a] # Director!Empty => AsBuilt(v3[a])

\* A key is stored once with a hash.
FdOnce == \A s, t \in Slot : v1[s] = v1[t] /\ v1[s] # Director!Empty => s = t

\* A chain that is allocated and that no settled entry points to.
FdOwn(a) == a \in Addr /\ v3[a] # Director!Empty /\ \A t \in Director!Settled : v2[t] # a

\* The chain that a new entry has got, and the one that is about to be installed,
\* belong to nobody else.
FdLive ==
    /\ \A s \in Director!Settled :
          /\ v2[s] \in Addr /\ v3[v2[s]] # Director!Empty
          /\ \A t \in Director!Settled \ {s} : v2[t] # v2[s]
    /\ v4.at = "created" => FdOwn(v2[v4.slot])
    /\ v4.at = "mod" => FdOwn(v4.new)

FdInv == FdTypes /\ FdBuilt /\ FdOnce /\ FdLive

\* Free memory is no chain, and a free position no entry.
LEMMA FdKinds ==
    /\ \A c \in FdChain : c # Director!Empty
    /\ \A k, r : Director!Keyed(k, r) # Director!Empty
    /\ \A k, r, j, q : Director!Keyed(k, r) = Director!Keyed(j, q) => k = j /\ r = q
    /\ \A k, r : Director!Keyed(k, r).key = k
<1>1. ASSUME NEW c \in FdChain PROVE c # Director!Empty
  <2>1. c.len \in Nat
    BY DEF FdChain
  <2>2. Director!Empty.len = -1
    BY DEF Director!Empty
  <2>3. QED
    BY <2>1, <2>2
<1>2. ASSUME NEW k, NEW r PROVE Director!Keyed(k, r) # Director!Empty
  <2>1. "key" \in DOMAIN Director!Keyed(k, r)
    BY DEF Director!Keyed
  <2>2. "key" \notin DOMAIN Director!Empty
    BY DEF Director!Empty
  <2>3. QED
    BY <2>1, <2>2
<1>3. ASSUME NEW k, NEW r, NEW j, NEW q, Director!Keyed(k, r) = Director!Keyed(j, q)
      PROVE  k = j /\ r = q
  <2>1. Director!Keyed(k, r).key = k /\ Director!Keyed(k, r).sig = r
    BY DEF Director!Keyed
  <2>2. Director!Keyed(j, q).key = j /\ Director!Keyed(j, q).sig = q
    BY DEF Director!Keyed
  <2>3. QED
    BY <1>3, <2>1, <2>2
<1>4. \A k, r : Director!Keyed(k, r).key = k
  BY DEF Director!Keyed
<1>5. QED
  BY <1>1, <1>2, <1>3, <1>4

\* When the NF is at a step, what it holds.
LEMMA FdAt ==
    ASSUME FdDoing
    PROVE  /\ v4.at = "idle" => v4 = [at |-> "idle"]
           /\ v4.at \in {"added", "cleared", "created", "freed"} =>
                 v4.slot \in Slot /\ v4 = [at |-> v4.at, slot |-> v4.slot]
           /\ v4.at = "mod" => v4.slot \in Slot /\ v4.new \in Addr
           /\ v4.at \in {"idle", "added", "cleared", "created", "freed", "mod"}
<1>1. CASE v4 = [at |-> "idle"]
  BY <1>1
<1>2. ASSUME NEW x \in {"added", "cleared", "created", "freed"}, NEW s \in Slot,
             v4 = [at |-> x, slot |-> s]
      PROVE  v4.at = x /\ v4.slot = s
  BY <1>2
<1>3. ASSUME NEW s \in Slot, NEW a \in Addr, v4 = [at |-> "mod", slot |-> s, new |-> a]
      PROVE  v4.at = "mod" /\ v4.slot = s /\ v4.new = a
  BY <1>3
<1>4. QED
  BY <1>1, <1>2, <1>3 DEF FdDoing

\* The settled entries, when the NF is idle and when it is at work on a position.
LEMMA FdSettled ==
    /\ v4.at = "idle" => Director!Settled = {s \in Slot : v1[s] # Director!Empty}
    /\ v4.at # "idle" => Director!Settled = {s \in Slot : v1[s] # Director!Empty /\ s # v4.slot}
    /\ (v4.at = "idle" => Director!Settled = {s \in Slot : v1[s] # Director!Empty})'
    /\ (v4.at # "idle" => Director!Settled = {s \in Slot : v1[s] # Director!Empty /\ s # v4.slot})'
BY DEF Director!Settled, Director!InUse

\* Chains that change are freed or as they were built.
LEMMA FdChainsKept ==
    ASSUME FdTypes, FdBuilt, v3' = [a \in Addr |-> v3'[a]],
           \A a \in Addr : \/ v3'[a] = v3[a] \/ v3'[a] = Director!Empty
                           \/ v3'[a] \in FdChain /\ AsBuilt(v3'[a])
    PROVE  v3' \in [Addr -> FdChain \cup {Director!Empty}] /\ FdBuilt'
<1>1. ASSUME NEW a \in Addr
      PROVE  /\ v3'[a] \in FdChain \cup {Director!Empty}
             /\ v3'[a] # Director!Empty => AsBuilt(v3'[a])
  BY DEF FdTypes, FdBuilt
<1>2. QED
  BY <1>1 DEF FdBuilt

\* Settled entries stay live when their chains do and none is added.
LEMMA FdLiveKept ==
    ASSUME FdLive,
           \A s \in Director!Settled' :
              s \in Director!Settled /\ v2'[s] = v2[s] /\ v3'[v2[s]] # Director!Empty,
           v4'.at = "created" => FdOwn(v2[v4.slot])', v4'.at = "mod" => FdOwn(v4.new)'
    PROVE  FdLive'
BY DEF FdLive

\* A new entry of a flow that the table does not have.
LEMMA FdAdded ==
    ASSUME FdInv, NEW k \in Key, NEW r \in {HwRss[k], SoftRss[k]}, Director!Lookup(k, r) = {},
           NEW s \in Slot, v1[s] = Director!Empty, v1' = [v1 EXCEPT ![s] = Director!Keyed(k, r)]
    PROVE  /\ v1' \in [Slot -> FdEntry \cup {Director!Empty}] /\ FdOnce'
           /\ \A t \in Slot : t # s => v1'[t] = v1[t]
<1>1. \A t \in Slot : v1[t] # Director!Keyed(k, r)
  BY DEF Director!Lookup
<1>2. v1 \in [Slot -> FdEntry \cup {Director!Empty}] /\ FdOnce /\ Director!Keyed(k, r) \in FdEntry
  BY DEF FdInv, FdTypes, FdEntry
<1>3. v1'[s] = Director!Keyed(k, r) /\ \A t \in Slot : t # s => v1'[t] = v1[t]
  BY <1>2
<1>4. FdOnce'
  BY <1>1, <1>2, <1>3 DEF FdOnce
<1>5. QED
  BY <1>2, <1>3, <1>4

\* What the test NF does for a packet of an unknown flow.
LEMMA FdPktStep ==
    ASSUME Director!Sized, FdInv,
           \/ \E k \in Key : Director!AddPkt(k)
           \/ Director!Clear \/ Director!CreateChain \/ Director!AppendEntry
    PROVE  FdInv'
<1>t. /\ v1 \in [Slot -> FdEntry \cup {Director!Empty}] /\ v2 \in [Slot -> Addr \cup {0}]
      /\ v3 \in [Addr -> FdChain \cup {Director!Empty}] /\ FdDoing
  BY DEF FdInv, FdTypes
<1>1. ASSUME NEW k \in Key, Director!AddPkt(k) PROVE FdInv'
  <2>1. PICK s \in Slot : /\ v1[s] = Director!Empty
                          /\ v1' = [v1 EXCEPT ![s] = Director!Keyed(k, HwRss[k])]
                          /\ v4' = [at |-> "added", slot |-> s]
    BY <1>1 DEF Director!AddPkt
  <2>2. /\ v4.at = "idle" /\ Director!Lookup(k, HwRss[k]) = {} /\ UNCHANGED <<v2, v3>>
        /\ v4'.at = "added" /\ v4'.slot = s
    BY <1>1, <2>1 DEF Director!AddPkt
  <2>3. /\ v1' \in [Slot -> FdEntry \cup {Director!Empty}] /\ FdOnce'
        /\ \A t \in Slot : t # s => v1'[t] = v1[t]
    BY <2>1, <2>2, FdAdded
  <2>4. FdTypes'
    BY <1>t, <2>1, <2>2, <2>3 DEF FdTypes, FdDoing
  <2>5. FdBuilt'
    BY <2>2 DEF FdInv, FdBuilt
  <2>6. \A x \in Director!Settled' : x \in Director!Settled
    BY <2>2, <2>3, FdSettled
  <2>7. FdLive'
    BY <2>2, <2>6, FdLiveKept DEF FdInv, FdLive
  <2>8. QED
    BY <2>3, <2>4, <2>5, <2>7 DEF FdInv
<1>2. CASE Director!Clear
  <2>1. v4.at = "added" /\ v4.slot \in Slot /\ v4 = [at |-> "added", slot |-> v4.slot]
    BY <1>t, <1>2, FdAt DEF Director!Clear
  <2>2. /\ v2' = [v2 EXCEPT ![v4.slot] = 0] /\ UNCHANGED <<v1, v3>>
        /\ v4' = [v4 EXCEPT !.at = "cleared"]
    BY <1>2 DEF Director!Clear, Director!Null
  <2>3. v4' = [at |-> "cleared", slot |-> v4.slot] /\ v4'.at = "cleared" /\ v4'.slot = v4.slot
    BY <2>1, <2>2
  <2>4. FdTypes'
    BY <1>t, <2>1, <2>2, <2>3 DEF FdTypes, FdDoing
  <2>5. FdBuilt' /\ FdOnce'
    BY <2>2 DEF FdInv, FdBuilt, FdOnce
  <2>6. \A x \in Director!Settled' : x \in Director!Settled /\ v2'[x] = v2[x]
    BY <1>t, <2>1, <2>2, <2>3, FdSettled
  <2>7. FdLive'
    BY <2>2, <2>3, <2>6, FdLiveKept DEF FdInv, FdLive
  <2>8. QED
    BY <2>4, <2>5, <2>7 DEF FdInv
<1>3. CASE Director!CreateChain
  <2>1. v4.at = "cleared" /\ v4.slot \in Slot /\ v4 = [at |-> "cleared", slot |-> v4.slot]
    BY <1>t, <1>3, FdAt DEF Director!CreateChain
  <2>2. PICK a \in Addr : /\ v3[a] = Director!Empty
                          /\ v3' = [v3 EXCEPT ![a] = Director!NewChain]
                          /\ v2' = [v2 EXCEPT ![v4.slot] = a]
    BY <1>3 DEF Director!CreateChain, Director!Free
  <2>3. UNCHANGED v1 /\ v4' = [v4 EXCEPT !.at = "created"]
    BY <1>3 DEF Director!CreateChain
  <2>4. v4' = [at |-> "created", slot |-> v4.slot] /\ v4'.at = "created" /\ v4'.slot = v4.slot
    BY <2>1, <2>3
  <2>5. v3'[a] = Director!NewChain /\ \A x \in Addr \ {a} : v3'[x] = v3[x]
    BY <1>t, <2>2
  <2>6. v3' \in [Addr -> FdChain \cup {Director!Empty}] /\ FdBuilt'
    BY <1>t, <2>2, <2>5, ChainCreated, FdChainsKept DEF FdInv
  <2>7. FdTypes' /\ FdOnce'
    BY <1>t, <2>1, <2>2, <2>3, <2>4, <2>6 DEF FdInv, FdTypes, FdDoing, FdOnce
  <2>8. v2'[v4.slot] = a /\ \A x \in Slot : x # v4.slot => v2'[x] = v2[x]
    BY <1>t, <2>1, <2>2
  <2>9. \A x \in Director!Settled' : x \in Director!Settled /\ x # v4.slot /\ x \in Slot
    BY <2>1, <2>3, <2>4, FdSettled
  <2>10. \A x \in Director!Settled' : v2'[x] = v2[x] /\ v2[x] # a /\ v3'[v2[x]] # Director!Empty
    BY <2>2, <2>5, <2>8, <2>9 DEF FdInv, FdLive
  <2>11. FdOwn(v2[v4.slot])'
    BY <2>4, <2>5, <2>8, <2>10, ChainCreated, FdKinds DEF FdOwn
  <2>12. FdLive'
    BY <2>4, <2>9, <2>10, <2>11, FdLiveKept DEF FdInv
  <2>13. QED
    BY <2>6, <2>7, <2>12 DEF FdInv
<1>4. CASE Director!AppendEntry
  <2>1. v4.at = "created" /\ v4.slot \in Slot
    BY <1>t, <1>4, FdAt DEF Director!AppendEntry
  <2>2. PICK a : a = v2[v4.slot]
    OBVIOUS
  <2>3. a \in Addr /\ v3[a] # Director!Empty /\ \A t \in Director!Settled : v2[t] # a
    BY <2>1, <2>2 DEF FdInv, FdLive, FdOwn
  <2>4. v3[a] \in FdChain /\ AsBuilt(v3[a])
    BY <1>t, <2>3 DEF FdInv, FdBuilt
  <2>5. /\ v3' = [v3 EXCEPT ![a] = Director!Append1(v3[a], Destination)]
        /\ v4' = [at |-> "idle"] /\ v4'.at = "idle" /\ UNCHANGED <<v1, v2>>
    BY <1>4, <2>2 DEF Director!AppendEntry
  <2>6. v3'[a] \in FdChain /\ AsBuilt(v3'[a]) /\ \A x \in Addr \ {a} : v3'[x] = v3[x]
    <3>1. v3'[a] = Director!Append1(v3[a], Destination) /\ \A x \in Addr \ {a} : v3'[x] = v3[x]
      BY <1>t, <2>3, <2>5
    <3>2. QED
      BY <2>4, <3>1, ChainAppended DEF Director!Sized
  <2>7. v3' \in [Addr -> FdChain \cup {Director!Empty}] /\ FdBuilt'
    BY <1>t, <2>5, <2>6, FdChainsKept DEF FdInv
  <2>8. FdTypes' /\ FdOnce'
    BY <1>t, <2>5, <2>7 DEF FdInv, FdTypes, FdDoing, FdOnce
  <2>9. \A x \in Director!Settled' : x \in Director!Settled \/ x = v4.slot
    BY <2>1, <2>5, FdSettled
  <2>10. v3'[a] # Director!Empty
    BY <2>6, FdKinds
  <2>11. \A x \in Director!Settled' : v2[x] \in Addr /\ v3'[v2[x]] # Director!Empty
    BY <2>2, <2>3, <2>6, <2>9, <2>10 DEF FdInv, FdLive
  <2>12. \A x, y \in Director!Settled' : x # y => v2[y] # v2[x]
    BY <2>2, <2>3, <2>9 DEF FdInv, FdLive
  <2>13. FdLive'
    BY <2>5, <2>11, <2>12 DEF FdLive
  <2>14. QED
    BY <2>7, <2>8, <2>13 DEF FdInv
<1>5. QED
  BY <1>1, <1>2, <1>3, <1>4

\* A flow modification, in its three cases, and the chain it installs.
LEMMA FdModStep ==
    ASSUME Director!Sized, FdInv, (\E k \in Key, ds \in Builds : Director!FlowMod(k, ds)) \/ Director!InstallChain
    PROVE  FdInv'
<1>t. /\ v1 \in [Slot -> FdEntry \cup {Director!Empty}] /\ v2 \in [Slot -> Addr \cup {0}]
      /\ v3 \in [Addr -> FdChain \cup {Director!Empty}] /\ FdDoing
  BY DEF FdInv, FdTypes
<1>1. ASSUME NEW k \in Key, NEW ds \in Builds, Director!FlowMod(k, ds) PROVE FdInv'
  <2>1. v4.at = "idle" /\ v2' = v2
    BY <1>1 DEF Director!FlowMod
  <2>2. PICK a \in Addr :
           /\ v3[a] = Director!Empty
           /\ \/ \E s \in Director!Lookup(k, SoftRss[k]) :
                    /\ v3' = [x \in Addr |-> IF x = a THEN Director!BuildChain(ds)
                                ELSE IF x = v2[s] THEN Director!Empty ELSE v3[x]]
                    /\ v4' = [at |-> "mod", slot |-> s, new |-> a]
                    /\ UNCHANGED <<v1, v5>>
              \/ \E s \in Slot :
                    /\ Director!Lookup(k, SoftRss[k]) = {} /\ v1[s] = Director!Empty
                    /\ v1' = [v1 EXCEPT ![s] = Director!Keyed(k, SoftRss[k])]
                    /\ v3' = [v3 EXCEPT ![a] = Director!BuildChain(ds)]
                    /\ v4' = [at |-> "mod", slot |-> s, new |-> a]
                    /\ UNCHANGED v5
              \/ UNCHANGED <<v1, v3, v4>>
    BY <1>1 DEF Director!FlowMod, Director!Free
  <2>3. Director!BuildChain(ds) \in FdChain /\ AsBuilt(Director!BuildChain(ds))
    BY ChainBuilt
  <2>4. ASSUME NEW s \in Director!Lookup(k, SoftRss[k]),
               v3' = [x \in Addr |-> IF x = a THEN Director!BuildChain(ds)
                        ELSE IF x = v2[s] THEN Director!Empty ELSE v3[x]],
               v4' = [at |-> "mod", slot |-> s, new |-> a], UNCHANGED <<v1, v5>>
        PROVE  FdInv'
    <3>1. s \in Slot /\ v1[s] # Director!Empty
      BY FdKinds DEF Director!Lookup
    <3>2. v4'.at = "mod" /\ v4'.slot = s /\ v4'.new = a
      BY <2>4
    <3>3. /\ v3'[a] = Director!BuildChain(ds)
          /\ \A x \in Addr : x # a => v3'[x] = v3[x] \/ (x = v2[s] /\ v3'[x] = Director!Empty)
      BY <2>4
    <3>4. v3' \in [Addr -> FdChain \cup {Director!Empty}] /\ FdBuilt'
      BY <2>3, <2>4, <3>3, FdChainsKept DEF FdInv
    <3>5. FdTypes' /\ FdOnce'
      BY <1>t, <2>1, <2>4, <3>1, <3>4 DEF FdInv, FdTypes, FdDoing, FdOnce
    <3>6. s \in Director!Settled /\
          \A x \in Director!Settled' : x \in Director!Settled /\ x # s
      BY <2>1, <2>4, <3>1, <3>2, FdSettled
    <3>7. \A x \in Director!Settled' : v2[x] # a /\ v2[x] # v2[s] /\ v3'[v2[x]] # Director!Empty
      BY <2>2, <3>3, <3>6 DEF FdInv, FdLive
    <3>8. FdOwn(v4.new)'
      BY <2>1, <2>3, <3>2, <3>3, <3>7, FdKinds DEF FdOwn
    <3>9. FdLive'
      BY <2>1, <3>2, <3>6, <3>7, <3>8, FdLiveKept DEF FdInv
    <3>10. QED
      BY <3>4, <3>5, <3>9 DEF FdInv
  <2>5. ASSUME NEW s \in Slot, Director!Lookup(k, SoftRss[k]) = {}, v1[s] = Director!Empty,
               v1' = [v1 EXCEPT ![s] = Director!Keyed(k, SoftRss[k])],
               v3' = [v3 EXCEPT ![a] = Director!BuildChain(ds)],
               v4' = [at |-> "mod", slot |-> s, new |-> a], UNCHANGED v5
        PROVE  FdInv'
    <3>1. v4'.at = "mod" /\ v4'.slot = s /\ v4'.new = a
      BY <2>5
    <3>2. /\ v1' \in [Slot -> FdEntry \cup {Director!Empty}] /\ FdOnce'
          /\ \A t \in Slot : t # s => v1'[t] = v1[t]
      BY <2>5, FdAdded
    <3>3. v3'[a] = Director!BuildChain(ds) /\ \A x \in Addr : x # a => v3'[x] = v3[x]
      BY <1>t, <2>5
    <3>4. v3' \in [Addr -> FdChain \cup {Director!Empty}] /\ FdBuilt'
      BY <1>t, <2>3, <2>5, <3>3, FdChainsKept DEF FdInv
    <3>5. FdTypes'
      BY <1>t, <2>1, <2>5, <3>2, <3>4 DEF FdTypes, FdDoing
    <3>6. \A x \in Director!Settled' : x \in Director!Settled
      BY <2>1, <3>1, <3>2, FdSettled
    <3>7. \A x \in Director!Settled' : v2[x] # a /\ v3'[v2[x]] # Director!Empty
      BY <2>2, <3>3, <3>6 DEF FdInv, FdLive
    <3>8. FdOwn(v4.new)'
      BY <2>1, <2>3, <3>1, <3>3, <3>7, FdKinds DEF FdOwn
    <3>9. FdLive'
      BY <2>1, <3>1, <3>6, <3>7, <3>8, FdLiveKept DEF FdInv
    <3>10. QED
      BY <3>2, <3>4, <3>5, <3>9 DEF FdInv
  <2>6. CASE UNCHANGED <<v1, v3, v4>>
    BY <2>1, <2>6 DEF FdInv, FdTypes, FdDoing, FdBuilt, FdOnce, FdLive, FdOwn,
                      Director!Settled, Director!InUse
  <2>7. QED
    BY <2>2, <2>4, <2>5, <2>6
<1>2. CASE Director!InstallChain
  <2>1. v4.at = "mod" /\ v4.slot \in Slot /\ v4.new \in Addr
    BY <1>t, <1>2, FdAt DEF Director!InstallChain
  <2>2. /\ v2' = [v2 EXCEPT ![v4.slot] = v4.new] /\ v4' = [at |-> "idle"] /\ v4'.at = "idle"
        /\ UNCHANGED <<v1, v3>>
    BY <1>2 DEF Director!InstallChain
  <2>3. v3[v4.new] # Director!Empty /\ \A t \in Director!Settled : v2[t] # v4.new
    BY <2>1 DEF FdInv, FdLive, FdOwn
  <2>4. v2'[v4.slot] = v4.new /\ \A x \in Slot : x # v4.slot => v2'[x] = v2[x]
    BY <1>t, <2>1, <2>2
  <2>5. FdTypes' /\ FdBuilt' /\ FdOnce'
    BY <1>t, <2>1, <2>2 DEF FdInv, FdTypes, FdDoing, FdBuilt, FdOnce
  <2>6. \A x \in Director!Settled' : x = v4.slot \/ (x \in Director!Settled /\ x # v4.slot /\ x \in Slot)
    BY <2>1, <2>2, FdSettled
  <2>7. \A x \in Director!Settled' : v2'[x] \in Addr /\ v3[v2'[x]] # Director!Empty
    BY <2>1, <2>3, <2>4, <2>6 DEF FdInv, FdLive
  <2>8. \A x, y \in Director!Settled' : x # y => v2'[y] # v2'[x]
    BY <2>3, <2>4, <2>6 DEF FdInv, FdLive
  <2>9. FdLive'
    BY <2>2, <2>7, <2>8 DEF FdLive
  <2>10. QED
    BY <2>5, <2>9 DEF FdInv
<1>3. QED
  BY <1>1, <1>2

\* The deletions, and the removal that ends them.
LEMMA FdDelStep ==
    ASSUME FdInv, \/ \E k \in Key, r \in Director!Rss : Director!DelAndFree(k, r) \/ Director!Del(k, r)
                  \/ Director!RemoveEntry
    PROVE  FdInv'
<1>t. /\ v1 \in [Slot -> FdEntry \cup {Director!Empty}] /\ v2 \in [Slot -> Addr \cup {0}]
      /\ v3 \in [Addr -> FdChain \cup {Director!Empty}] /\ FdDoing
  BY DEF FdInv, FdTypes
<1>1. ASSUME NEW s \in Slot, v1[s] # Director!Empty, v4.at = "idle", UNCHANGED <<v1, v2>>,
             v3' = [x \in Addr |-> IF x = v2[s] THEN Director!Empty ELSE v3[x]],
             v4' = [at |-> "freed", slot |-> s]
      PROVE  FdInv'
  <2>1. v4'.at = "freed" /\ v4'.slot = s
    BY <1>1
  <2>2. \A x \in Addr : v3'[x] = v3[x] \/ (x = v2[s] /\ v3'[x] = Director!Empty)
    BY <1>1
  <2>3. v3' \in [Addr -> FdChain \cup {Director!Empty}] /\ FdBuilt'
    BY <1>1, <2>2, FdChainsKept DEF FdInv
  <2>4. FdTypes' /\ FdOnce'
    BY <1>t, <1>1, <2>3 DEF FdInv, FdTypes, FdDoing, FdOnce
  <2>5. s \in Director!Settled /\ \A x \in Director!Settled' : x \in Director!Settled /\ x # s
    BY <1>1, <2>1, FdSettled
  <2>6. \A x \in Director!Settled' : v2[x] # v2[s] /\ v3'[v2[x]] # Director!Empty
    BY <2>2, <2>5 DEF FdInv, FdLive
  <2>7. FdLive'
    BY <1>1, <2>1, <2>5, <2>6, FdLiveKept DEF FdInv
  <2>8. QED
    BY <2>3, <2>4, <2>7 DEF FdInv
<1>2. ASSUME NEW k \in Key, NEW r, Director!DelAndFree(k, r) PROVE FdInv'
  <2>1. PICK s \in Director!Lookup(k, r) :
           /\ v3' = [x \in Addr |-> IF x = v2[s] THEN Director!Empty ELSE v3[x]]
           /\ v4' = [at |-> "freed", slot |-> s]
    BY <1>2 DEF Director!DelAndFree
  <2>2. s \in Slot /\ v1[s] # Director!Empty
    BY FdKinds DEF Director!Lookup
  <2>3. v4.at = "idle" /\ UNCHANGED <<v1, v2>>
    BY <1>2 DEF Director!DelAndFree
  <2>4. QED
    BY <1>1, <2>1, <2>2, <2>3
<1>3. ASSUME NEW k \in Key, NEW r, Director!Del(k, r) PROVE FdInv'
  <2>1. PICK s \in Director!Lookup(k, r) :
           /\ v3[v2[s]] # Director!Empty
           /\ IF v3[v2[s]].ref <= 0
              THEN v3' = [v3 EXCEPT ![v2[s]] = Director!Empty] /\ v4' = [at |-> "freed", slot |-> s]
              ELSE v3' = [v3 EXCEPT ![v2[s]].ref = @ - 1] /\ UNCHANGED v4
    BY <1>3 DEF Director!Del
  <2>2. s \in Slot /\ v1[s] # Director!Empty
    BY FdKinds DEF Director!Lookup
  <2>3. v4.at = "idle" /\ UNCHANGED <<v1, v2>>
    BY <1>3 DEF Director!Del
  <2>4. PICK a \in Addr : a = v2[s]
    BY <2>2, <2>3, FdSettled DEF FdInv, FdLive
  <2>5. CASE v3[a].ref <= 0
    <3>1. v3' = [x \in Addr |-> IF x = a THEN Director!Empty ELSE v3[x]]
      BY <1>t, <2>1, <2>4, <2>5
    <3>2. v4' = [at |-> "freed", slot |-> s]
      BY <2>1, <2>4, <2>5
    <3>3. QED
      BY <1>1, <2>2, <2>3, <2>4, <3>1, <3>2
  <2>6. CASE ~(v3[a].ref <= 0)
    <3>1. v3[a] \in FdChain /\ AsBuilt(v3[a])
      BY <1>t, <2>1, <2>4 DEF FdInv, FdBuilt
    <3>2. PICK c : c = [v3[a] EXCEPT !.ref = @ - 1]
      OBVIOUS
    <3>3. c \in FdChain /\ c.built = v3[a].built /\ c.len = v3[a].len /\ c.sc = v3[a].sc
      BY <2>6, <3>1, <3>2 DEF FdChain
    <3>4. AsBuilt(c)
      BY <3>1, <3>3 DEF AsBuilt
    <3>5. v3' = [v3 EXCEPT ![a] = c] /\ UNCHANGED v4
      BY <2>1, <2>4, <2>6, <3>2
    <3>6. v3'[a] = c /\ \A x \in Addr : x # a => v3'[x] = v3[x]
      BY <1>t, <3>5
    <3>7. v3' \in [Addr -> FdChain \cup {Director!Empty}] /\ FdBuilt'
      BY <1>t, <3>3, <3>4, <3>5, <3>6, FdChainsKept DEF FdInv
    <3>8. FdTypes' /\ FdOnce'
      BY <1>t, <2>3, <3>5, <3>7 DEF FdInv, FdTypes, FdDoing, FdOnce
    <3>9. \A x \in Addr : v3[x] # Director!Empty => v3'[x] # Director!Empty
      BY <3>3, <3>6, FdKinds
    <3>10. Director!Settled' = Director!Settled
      BY <2>3, <3>5 DEF Director!Settled, Director!InUse
    <3>11. FdLive'
      BY <2>3, <3>5, <3>9, <3>10 DEF FdInv, FdLive
    <3>12. QED
      BY <3>7, <3>8, <3>11 DEF FdInv
  <2>7. QED
    BY <2>5, <2>6
<1>4. CASE Director!RemoveEntry
  <2>1. v4.at = "freed" /\ v4.slot \in Slot
    BY <1>t, <1>4, FdAt DEF Director!RemoveEntry
  <2>2. /\ v1' = [v1 EXCEPT ![v4.slot] = Director!Empty] /\ v4' = [at |-> "idle"] /\ v4'.at = "idle"
        /\ UNCHANGED <<v2, v3>>
    BY <1>4 DEF Director!RemoveEntry
  <2>3. v1'[v4.slot] = Director!Empty /\ \A x \in Slot : x # v4.slot => v1'[x] = v1[x]
    BY <1>t, <2>1, <2>2
  <2>4. FdTypes' /\ FdBuilt'
    BY <1>t, <2>1, <2>2 DEF FdInv, FdTypes, FdDoing, FdBuilt
  <2>5. FdOnce'
    BY <2>3 DEF FdInv, FdOnce
  <2>6. \A x \in Director!Settled' : x \in Director!Settled
    BY <2>1, <2>2, <2>3, FdSettled
  <2>7. FdLive'
    BY <2>2, <2>6, FdLiveKept DEF FdInv, FdLive
  <2>8. QED
    BY <2>4, <2>5, <2>7 DEF FdInv
<1>5. QED
  BY <1>2, <1>3, <1>4

LEMMA FdInit == ASSUME Director!Init PROVE FdInv
<1>1. /\ v1 = [s \in Slot |-> Director!Empty] /\ v2 = [s \in Slot |-> 0]
      /\ v3 = [a \in Addr |-> Director!Empty] /\ v4 = [at |-> "idle"] /\ v4.at = "idle"
  BY DEF Director!Init, Director!Null
<1>2. FdTypes
  BY <1>1 DEF FdTypes, FdDoing
<1>3. FdBuilt /\ FdOnce
  BY <1>1 DEF FdBuilt, FdOnce
<1>4. Director!Settled = {}
  BY <1>1, FdSettled
<1>5. QED
  BY <1>1, <1>2, <1>3, <1>4 DEF FdInv, FdLive

\* What the run checks follows from the invariant.
LEMMA FdChecked ==
    ASSUME Director!Sized, FdInv
    PROVE  Director!EntriesLive /\ Director!FlowFoundOnce /\ Director!ChainWalked
<1>t. /\ v1 \in [Slot -> FdEntry \cup {Director!Empty}]
      /\ v3 \in [Addr -> FdChain \cup {Director!Empty}]
  BY DEF FdInv, FdTypes
<1>1. Director!EntriesLive
  BY DEF FdInv, FdLive, Director!EntriesLive, Director!Null, Director!Sized
<1>2. ASSUME NEW k \in Key, HwRss[k] = SoftRss[k]
      PROVE  /\ {s \in Director!InUse : v1[s].key = k} = Director!Lookup(k, HwRss[k])
             /\ Cardinality(Director!Lookup(k, HwRss[k])) <= 1
  <2>1. ASSUME NEW s \in Slot, v1[s] # Director!Empty, v1[s].key = k
        PROVE  v1[s] = Director!Keyed(k, HwRss[k])
    <3>1. PICK j \in Key : v1[s] = Director!Keyed(j, HwRss[j]) \/ v1[s] = Director!Keyed(j, SoftRss[j])
      BY <1>t, <2>1 DEF FdEntry
    <3>2. j = k
      BY <2>1, <3>1, FdKinds
    <3>3. QED
      BY <1>2, <3>1, <3>2
  <2>2. ASSUME NEW s \in Slot, v1[s] = Director!Keyed(k, HwRss[k])
        PROVE  v1[s] # Director!Empty /\ v1[s].key = k
    BY <2>2, FdKinds
  <2>3. {s \in Director!InUse : v1[s].key = k} = Director!Lookup(k, HwRss[k])
    BY <2>1, <2>2 DEF Director!InUse, Director!Lookup
  <2>4. \A s, t \in Director!Lookup(k, HwRss[k]) : s = t
    BY <2>2 DEF FdInv, FdOnce, Director!Lookup
  <2>5. CASE Director!Lookup(k, HwRss[k]) = {}
    BY <2>3, <2>5, FS_EmptySet
  <2>6. CASE Director!Lookup(k, HwRss[k]) # {}
    <3>1. PICK s : Director!Lookup(k, HwRss[k]) = {s}
      BY <2>4, <2>6
    <3>2. Cardinality({s}) = 1
      BY FS_Singleton
    <3>3. QED
      BY <2>3, <3>1, <3>2
  <2>7. QED
    BY <2>5, <2>6
<1>3. Director!FlowFoundOnce
  BY <1>2, SameSize DEF Director!FlowFoundOnce
<1>4. ASSUME NEW a \in Addr, v3[a] # Director!Empty, Len(v3[a].built) < MaxChain
      PROVE  /\ \A i \in DOMAIN v3[a].built : Director!NextDestination(v3[a], i - 1) = v3[a].built[i]
             /\ Director!NextDestination(v3[a], Len(v3[a].built)) = 0
  <2>1. PICK q \in Seq(Nat) : q = v3[a].built
    BY <1>t, <1>4 DEF FdChain
  <2>2. v3[a].len = Len(q) /\ \A i \in 1 .. Len(q) : v3[a].sc[i] = q[i]
    BY <1>4, <2>1 DEF FdInv, FdBuilt, AsBuilt
  <2>3. Len(q) \in Nat /\ DOMAIN q = 1 .. Len(q)
    BY LenProperties
  <2>4. ASSUME NEW i \in 1 .. Len(q) PROVE Director!NextDestination(v3[a], i - 1) = q[i]
    <3>1. ~(i - 1 >= v3[a].len) /\ (i - 1) + 1 = i
      BY <2>2, <2>3
    <3>2. QED
      BY <2>2, <3>1 DEF Director!NextDestination
  <2>5. Director!NextDestination(v3[a], Len(q)) = 0
    BY <2>2, <2>3 DEF Director!NextDestination
  <2>6. QED
    BY <2>1, <2>3, <2>4, <2>5
<1>5. Director!ChainWalked
  BY <1>4 DEF Director!ChainWalked
<1>6. QED
  BY <1>1, <1>3, <1>5

LEMMA FdStep ==
    ASSUME Director!Sized, FdInv, [Director!Next]_(Director!vars)
    PROVE  FdInv'
<1>1. CASE Director!Next
  BY <1>1, FdPktStep, FdModStep, FdDelStep DEF Director!Next
<1>2. CASE UNCHANGED Director!vars
  BY <1>2 DEF Director!vars, FdInv, FdTypes, FdDoing, FdBuilt, FdOnce, FdLive, FdOwn, Director!Settled, Director!InUse
<1>3. QED
  BY <1>1, <1>2

-----------------------------------------------------------------------------
(* The test of messages: v1 is test_state, v2 the ring and the pool, v3 says  *)
(* that the limit has passed, v4 is the pc, v5 counts the messages of others *)
(* and v6 the tests that were given up.                                      *)

MsgMark  == {"incomplete", "passed", "failed"}
MsgState == [phase : Nat, passed : Nat, count : Nat, base : Nat, status : [1 .. 3 -> MsgMark]]
MsgQueue == [ring : Seq(Nat), pool : Nat]

MsgTypes ==
    /\ v1 \in MsgState /\ v2 \in MsgQueue /\ Len(v2.ring) <= MsgRing - 1
    /\ v4 \in {"loop", "act", "done", "crashed"} /\ v5 \in Nat /\ v6 \in Nat

MsgTests(t) == {i \in 1 .. 3 : t.status[i] = "passed"}

\* Without a limit that has passed, a test ends before the next begins, so that
\* each is marked and counted once.
MsgMarked ==
    v6 = 0 => /\ v1.phase <= 4 /\ (v4 = "done" => v1.phase = 4)
              /\ \A j \in 1 .. 3 : j > v1.phase \/ (v4 = "loop" /\ j = v1.phase) =>
                    v1.status[j] = "incomplete"
              /\ v1.passed = Cardinality(MsgTests(v1))

\* The messages of tests 2 and 3 that make the test pass.
MsgGoal(k) == IF k = 2 THEN Burst ELSE MsgRing - 1

\* What the ring has when nobody but the NF itself has sent, in test k: nothing when the
\* test has passed, otherwise the one message or the numbers from count on.
MsgOwn(t, o) ==
    LET k == t.phase IN
    /\ k = 0 => o.ring = <<>> /\ t.count = 0
    /\ k \in 1 .. 3 /\ t.status[k] = "passed" => o.ring = <<>> /\ t.count = 0
    /\ k = 1 /\ t.status[k] # "passed" => t.count = 0 /\ o.ring \in {<<>>, <<Msg!Magic>>}
    /\ k \in 2 .. 3 /\ t.status[k] # "passed" =>
          /\ t.count + Len(o.ring) <= MsgGoal(k)
          /\ \A i \in 1 .. Len(o.ring) : o.ring[i] = t.count + i - 1

MsgAlone ==
    v5 = 0 /\ v6 = 0 =>
        /\ \A j \in 1 .. 3 : v1.status[j] # "failed"
        /\ \A j \in 1 .. 3 : j < v1.phase => v1.status[j] = "passed"
        /\ v1.phase > 0 => v1.base = PoolSize
        /\ MsgOwn(v1, v2)

MsgInv == MsgTypes /\ Msg!MessagesAccounted /\ MsgMarked /\ MsgAlone

\* What marking a test does to the state.
LEMMA MsgMarking ==
    ASSUME NEW t \in MsgState, NEW i \in 1 .. 3
    PROVE  /\ Msg!Passed(t, i) = [phase |-> t.phase, passed |-> t.passed + 1, count |-> 0,
                                  base |-> t.base, status |-> [t.status EXCEPT ![i] = "passed"]]
           /\ Msg!Passed(t, i) \in MsgState
           /\ Msg!Failed(t, i) = [phase |-> t.phase, passed |-> t.passed, count |-> t.count,
                                  base |-> t.base, status |-> [t.status EXCEPT ![i] = "failed"]]
           /\ Msg!Failed(t, i) \in MsgState
<1>1. [t.status EXCEPT ![i] = "passed"] \in [1 .. 3 -> MsgMark]
  BY DEF MsgState, MsgMark
<1>2. [t.status EXCEPT ![i] = "failed"] \in [1 .. 3 -> MsgMark]
  BY DEF MsgState, MsgMark
<1>3. t.passed + 1 \in Nat
  BY DEF MsgState
<1>4. Msg!Passed(t, i) = [phase |-> t.phase, passed |-> t.passed + 1, count |-> 0,
                          base |-> t.base, status |-> [t.status EXCEPT ![i] = "passed"]]
  <2> DEFINE u == [t EXCEPT !.passed = @ + 1]
             w == [u EXCEPT !.status[i] = "passed"]
  <2>1. u = [phase |-> t.phase, passed |-> t.passed + 1, count |-> t.count,
             base |-> t.base, status |-> t.status]
    BY DEF MsgState
  <2> HIDE DEF u
  <2>2. w = [phase |-> t.phase, passed |-> t.passed + 1, count |-> t.count,
             base |-> t.base, status |-> [t.status EXCEPT ![i] = "passed"]]
    BY <2>1
  <2>3. Msg!Passed(t, i) = [w EXCEPT !.count = 0]
    BY DEF Msg!Passed, u
  <2> HIDE DEF w
  <2>4. QED
    BY <2>2, <2>3
<1>5. Msg!Failed(t, i) = [phase |-> t.phase, passed |-> t.passed, count |-> t.count,
                          base |-> t.base, status |-> [t.status EXCEPT ![i] = "failed"]]
  BY DEF MsgState, Msg!Failed
<1>6. QED
  BY <1>1, <1>2, <1>3, <1>4, <1>5 DEF MsgState

\* The marks after one of them is set.
MsgAt(s, i, m) == [s EXCEPT ![i] = m]

LEMMA MsgAtIs ==
    ASSUME NEW s \in [1 .. 3 -> MsgMark], NEW i \in 1 .. 3, NEW m \in MsgMark
    PROVE  /\ MsgAt(s, i, m) \in [1 .. 3 -> MsgMark]
           /\ \A j \in 1 .. 3 : MsgAt(s, i, m)[j] = IF j = i THEN m ELSE s[j]
           /\ \A n : MsgAt(MsgAt(s, i, m), i, n) = MsgAt(s, i, n)
BY DEF MsgAt

LEMMA MsgMarks ==
    ASSUME NEW t \in MsgState, NEW i \in 1 .. 3
    PROVE  /\ Msg!Passed(t, i) \in MsgState /\ Msg!Passed(t, i).phase = t.phase
           /\ Msg!Passed(t, i).passed = t.passed + 1 /\ Msg!Passed(t, i).count = 0
           /\ Msg!Passed(t, i).base = t.base
           /\ Msg!Passed(t, i).status = MsgAt(t.status, i, "passed")
           /\ Msg!Failed(t, i) \in MsgState /\ Msg!Failed(t, i).phase = t.phase
           /\ Msg!Failed(t, i).passed = t.passed /\ Msg!Failed(t, i).count = t.count
           /\ Msg!Failed(t, i).base = t.base
           /\ Msg!Failed(t, i).status = MsgAt(t.status, i, "failed")
<1>1. PICK p, f : p = Msg!Passed(t, i) /\ f = Msg!Failed(t, i)
  OBVIOUS
<1>2. p \in MsgState /\ f \in MsgState
  BY <1>1, MsgMarking
<1>3. p = [phase |-> t.phase, passed |-> t.passed + 1, count |-> 0,
           base |-> t.base, status |-> MsgAt(t.status, i, "passed")]
  BY <1>1, MsgMarking DEF MsgAt
<1>4. f = [phase |-> t.phase, passed |-> t.passed, count |-> t.count,
           base |-> t.base, status |-> MsgAt(t.status, i, "failed")]
  BY <1>1, MsgMarking DEF MsgAt
<1>5. /\ p.phase = t.phase /\ p.passed = t.passed + 1 /\ p.count = 0 /\ p.base = t.base
      /\ p.status = MsgAt(t.status, i, "passed")
  BY ONLY <1>3
<1>6. /\ f.phase = t.phase /\ f.passed = t.passed /\ f.count = t.count /\ f.base = t.base
      /\ f.status = MsgAt(t.status, i, "failed")
  BY ONLY <1>4
<1>7. QED
  BY <1>1, <1>2, <1>5, <1>6

\* Messages that find a buffer and room are appended, a first part of those sent.
LEMMA MsgSent ==
    ASSUME NEW o \in MsgQueue, Len(o.ring) <= MsgRing - 1, NEW s \in Seq(Nat)
    PROVE  \E n \in 0 .. Len(s) :
              /\ n <= o.pool /\ n <= MsgRing - 1 - Len(o.ring)
              /\ Msg!Send(o, s) = [ring |-> o.ring \o SubSeq(s, 1, n), pool |-> o.pool - n]
              /\ SubSeq(s, 1, n) \in Seq(Nat) /\ Len(SubSeq(s, 1, n)) = n
              /\ \A i \in 1 .. n : SubSeq(s, 1, n)[i] = s[i]
              /\ Msg!Send(o, s) \in MsgQueue
              /\ Len(Msg!Send(o, s).ring) = Len(o.ring) + n
<1> DEFINE room == MsgRing - 1 - Len(o.ring)
           n == Msg!Min({Len(s), room, o.pool})
<1>1. Len(s) \in Nat /\ Len(o.ring) \in Nat /\ o.ring \in Seq(Nat) /\ o.pool \in Nat
  BY LenProperties DEF MsgQueue
<1>2. room \in Nat
  BY <1>1, MessageAssumption
<1> HIDE DEF room
<1>3. n \in {Len(s), room, o.pool} /\ \A x \in {Len(s), room, o.pool} : n <= x
  <2>1. \E x \in {Len(s), room, o.pool} : \A y \in {Len(s), room, o.pool} : x <= y
    BY <1>1, <1>2
  <2>2. QED
    BY <2>1 DEF Msg!Min
<1>4. n \in Nat /\ n <= Len(s) /\ n <= room /\ n <= o.pool
  BY <1>1, <1>2, <1>3
<1> HIDE DEF n
<1>5. /\ SubSeq(s, 1, n) \in Seq(Nat) /\ Len(SubSeq(s, 1, n)) = n
      /\ \A i \in 1 .. n : SubSeq(s, 1, n)[i] = s[i]
  BY <1>1, <1>4
<1>6. Msg!Send(o, s) = [ring |-> o.ring \o SubSeq(s, 1, n), pool |-> o.pool - n]
  BY DEF Msg!Send, n, room
<1>7. /\ o.ring \o SubSeq(s, 1, n) \in Seq(Nat)
      /\ Len(o.ring \o SubSeq(s, 1, n)) = Len(o.ring) + n
  <2>1. \A u \in Seq(Nat) : o.ring \o u \in Seq(Nat) /\ Len(o.ring \o u) = Len(o.ring) + Len(u)
    BY <1>1, ConcatProperties
  <2>2. QED
    BY <1>5, <2>1
<1>8. o.pool - n \in Nat
  BY <1>1, <1>4
<1>9. Msg!Send(o, s) \in MsgQueue /\ Len(Msg!Send(o, s).ring) = Len(o.ring) + n
  BY <1>6, <1>7, <1>8 DEF MsgQueue
<1>10. n \in 0 .. Len(s)
  BY <1>1, <1>4
<1>11. QED
  BY <1>4, <1>5, <1>6, <1>9, <1>10 DEF room

\* nf_msg_handler.
MsgTaken(t, m, left, avail) ==
    CASE t.phase = 1        -> Msg!OneMessage(t, m, left)
      [] t.phase \in 2 .. 3 -> Msg!ManyMessages(t, m, left, avail)
      [] OTHER              -> t

MsgCounted(t) == [t EXCEPT !.count = @ + 1]

LEMMA MsgCounting ==
    ASSUME NEW t \in MsgState
    PROVE  /\ MsgCounted(t) \in MsgState /\ MsgCounted(t).count = t.count + 1
           /\ MsgCounted(t).phase = t.phase /\ MsgCounted(t).base = t.base
           /\ MsgCounted(t).passed = t.passed /\ MsgCounted(t).status = t.status
<1>1. t.count + 1 \in Nat
  BY DEF MsgState
<1>2. QED
  BY <1>1 DEF MsgState, MsgCounted

\* A message marks no test but the present one, and counts what it marks as passed.
LEMMA MsgHandled ==
    ASSUME NEW t \in MsgState, NEW m, NEW left, NEW avail, NEW x, x = MsgTaken(t, m, left, avail)
    PROVE  /\ x \in MsgState /\ x.phase = t.phase /\ x.base = t.base
           /\ \/ x.passed = t.passed /\ x.status = t.status
              \/ /\ t.phase \in 1 .. 3 /\ x.passed = t.passed
                 /\ x.status = MsgAt(t.status, t.phase, "failed")
              \/ /\ t.phase \in 1 .. 3 /\ x.passed = t.passed + 1
                 /\ x.status = MsgAt(t.status, t.phase, "passed")
<1>1. CASE t.phase = 1
  <2>1. x = Msg!OneMessage(t, m, left)
    BY <1>1 DEF MsgTaken
  <2>2. x \in {MsgCounted(t), Msg!Passed(MsgCounted(t), 1), Msg!Failed(MsgCounted(t), 1)}
    BY <2>1 DEF Msg!OneMessage, MsgCounted
  <2>3. CASE x = MsgCounted(t)
    BY <2>3, MsgCounting
  <2>a. PICK c \in MsgState : /\ c = MsgCounted(t) /\ c.phase = t.phase /\ c.base = t.base
                               /\ c.passed = t.passed /\ c.status = t.status
    BY MsgCounting
  <2>4. CASE x = Msg!Passed(c, 1)
    BY <1>1, <2>4, <2>a, MsgMarks
  <2>5. CASE x = Msg!Failed(c, 1)
    BY <1>1, <2>5, <2>a, MsgMarks
  <2>6. QED
    BY <2>2, <2>3, <2>4, <2>5, <2>a
<1>2. CASE t.phase \in 2 .. 3
  <2> DEFINE k == t.phase
             c == IF m = t.count THEN MsgCounted(t) ELSE Msg!Failed(t, k)
  <2>0. k \in 1 .. 3
    BY <1>2
  <2>1. x = Msg!ManyMessages(t, m, left, avail)
    BY <1>2 DEF MsgTaken
  <2>2. x \in {c, Msg!Passed(c, k), Msg!Failed(c, k)}
    BY <2>1 DEF Msg!ManyMessages, MsgCounted
  <2>3. /\ c \in MsgState /\ c.phase = t.phase /\ c.base = t.base /\ c.passed = t.passed
        /\ c.status = t.status \/ c.status = MsgAt(t.status, k, "failed")
    <3>1. CASE m = t.count
      BY <3>1, MsgCounting
    <3>2. CASE m # t.count
      BY <2>0, <3>2, MsgMarks
    <3>3. QED
      BY <3>1, <3>2
  <2> HIDE DEF c
  <2>4. t.status \in [1 .. 3 -> MsgMark]
    BY DEF MsgState
  <2>5. \A v \in {"passed", "failed"} : MsgAt(c.status, k, v) = MsgAt(t.status, k, v)
    BY <2>0, <2>3, <2>4, MsgAtIs DEF MsgMark
  <2>6. CASE x = c
    BY <2>0, <2>3, <2>6
  <2>7. CASE x = Msg!Passed(c, k)
    BY <2>0, <2>3, <2>5, <2>7, MsgMarks
  <2>8. CASE x = Msg!Failed(c, k)
    BY <2>0, <2>3, <2>5, <2>8, MsgMarks
  <2>9. QED
    BY <2>2, <2>6, <2>7, <2>8
<1>3. CASE ~(t.phase = 1) /\ ~(t.phase \in 2 .. 3)
  BY <1>3 DEF MsgTaken
<1>4. QED
  BY <1>1, <1>2, <1>3

\* As long as the NF alone has sent, each message is the one that the test expects.
LEMMA MsgExpected ==
    ASSUME NEW t \in MsgState, NEW o \in MsgQueue, o.ring # <<>>, MsgOwn(t, o),
           \A j \in 1 .. 3 : t.status[j] # "failed",
           t.phase > 0 => t.base = PoolSize, o.pool + Len(o.ring) = PoolSize,
           NEW x, x = MsgTaken(t, Head(o.ring), Len(o.ring) - 1, o.pool),
           NEW r, r = [ring |-> Tail(o.ring), pool |-> o.pool + 1]
    PROVE  MsgOwn(x, r) /\ \A j \in 1 .. 3 : x.status[j] # "failed"
<1>0. /\ o.ring \in Seq(Nat) /\ Len(o.ring) \in Nat \ {0} /\ o.pool \in Nat
      /\ t.count \in Nat /\ t.phase \in Nat /\ t.status \in [1 .. 3 -> MsgMark]
  BY EmptySeq, LenProperties DEF MsgQueue, MsgState
<1>a. /\ Head(o.ring) = o.ring[1] /\ Len(Tail(o.ring)) = Len(o.ring) - 1
      /\ \A i \in 1 .. Len(Tail(o.ring)) : Tail(o.ring)[i] = o.ring[i + 1]
      /\ Len(o.ring) = 1 => Tail(o.ring) = <<>>
  <2>1. /\ Head(o.ring) = o.ring[1] /\ Tail(o.ring) \in Seq(Nat) /\ Len(Tail(o.ring)) = Len(o.ring) - 1
        /\ \A i \in 1 .. Len(Tail(o.ring)) : Tail(o.ring)[i] = o.ring[i + 1]
    BY <1>0
  <2>2. \A q \in Seq(Nat) : Len(q) = 0 => q = <<>>
    BY EmptySeq
  <2>3. Len(o.ring) = 1 => Len(Tail(o.ring)) = 0
    BY <2>1
  <2>4. QED
    BY <2>1, <2>2, <2>3
<1>b. r.ring = Tail(o.ring)
  OBVIOUS
<1>c. \A k \in 1 .. 3 : /\ MsgAt(t.status, k, "passed")[k] = "passed"
                        /\ \A j \in 1 .. 3 : MsgAt(t.status, k, "passed")[j] # "failed"
  <2>1. TAKE k \in 1 .. 3
  <2>2. \A j \in 1 .. 3 : MsgAt(t.status, k, "passed")[j]
                            = IF j = k THEN "passed" ELSE t.status[j]
    <3>1. "passed" \in MsgMark
      BY DEF MsgMark
    <3>2. QED
      BY <1>0, <3>1, MsgAtIs
  <2>3. QED
    BY <2>2
<1>1. CASE t.phase = 1
  <2>1. t.status[1] # "passed" /\ t.count = 0 /\ o.ring = <<Msg!Magic>>
    BY <1>0, <1>1 DEF MsgOwn
  <2>2. Len(o.ring) = 1 /\ o.ring[1] = Msg!Magic
    BY <2>1
  <2>3. x = Msg!Passed(MsgCounted(t), 1)
    BY <1>1, <1>a, <2>1, <2>2, MsgCounting DEF MsgTaken, Msg!OneMessage, MsgCounted
  <2>4. x.phase = 1 /\ x.count = 0 /\ x.status = MsgAt(t.status, 1, "passed")
    <3>1. PICK c \in MsgState : c = MsgCounted(t) /\ c.phase = t.phase /\ c.status = t.status
      BY MsgCounting
    <3>2. QED
      BY <1>1, <2>3, <3>1, MsgMarks
  <2>5. x.status[1] = "passed" /\ r.ring = <<>>
    BY <1>a, <1>b, <1>c, <2>2, <2>4
  <2>6. QED
    BY <1>c, <2>4, <2>5 DEF MsgOwn
<1>2. CASE t.phase \in 2 .. 3
  <2> DEFINE k == t.phase
  <2>0. k \in 1 .. 3 /\ k # 0 /\ k # 1 /\ k > 0
    BY <1>2
  <2>1. /\ t.status[k] # "passed" /\ t.count + Len(o.ring) <= MsgGoal(k)
        /\ \A i \in 1 .. Len(o.ring) : o.ring[i] = t.count + i - 1
    BY <1>0, <1>2 DEF MsgOwn
  <2>2. Head(o.ring) = t.count
    <3>1. 1 \in 1 .. Len(o.ring)
      BY <1>0
    <3>2. o.ring[1] = t.count + 1 - 1
      BY <2>1, <3>1
    <3>3. QED
      BY <1>0, <1>a, <3>2
  <2>3. MsgGoal(k) \in Int
    BY MessageAssumption DEF MsgGoal
  <2>4. CASE t.count + 1 = MsgGoal(k)
    <3>1. Len(o.ring) = 1 /\ o.pool = t.base - 1
      <4>0. t.count + Len(o.ring) <= t.count + 1
        BY <2>1, <2>4
      <4>a. \A n \in Nat \ {0}, c \in Nat : c + n <= c + 1 => n = 1
        OBVIOUS
      <4>1. Len(o.ring) = 1
        BY <1>0, <4>0, <4>a
      <4>2. t.base = PoolSize
        BY <2>0
      <4>3. QED
        BY <1>0, <4>1, <4>2, MessageAssumption
    <3>2. x = Msg!Passed(MsgCounted(t), k)
      BY <1>2, <2>2, <2>4, <3>1, MsgCounting DEF MsgTaken, Msg!ManyMessages, MsgCounted, MsgGoal
    <3>3. x.phase = k /\ x.count = 0 /\ x.status = MsgAt(t.status, k, "passed")
      <4>1. PICK c \in MsgState : c = MsgCounted(t) /\ c.phase = t.phase /\ c.status = t.status
        BY MsgCounting
      <4>2. QED
        BY <2>0, <3>2, <4>1, MsgMarks
    <3>4. x.status[k] = "passed" /\ r.ring = <<>>
      BY <1>a, <1>b, <1>c, <2>0, <3>1, <3>3
    <3>5. QED
      BY <1>c, <2>0, <3>3, <3>4 DEF MsgOwn
  <2>5. CASE t.count + 1 # MsgGoal(k)
    <3>1. x = MsgCounted(t)
      BY <1>2, <2>2, <2>5, MsgCounting DEF MsgTaken, Msg!ManyMessages, MsgCounted, MsgGoal
    <3>2. x.phase = k /\ x.count = t.count + 1 /\ x.status = t.status
      BY <3>1, MsgCounting
    <3>3. x.count + Len(r.ring) <= MsgGoal(k)
      BY <1>0, <1>a, <1>b, <2>1, <2>3, <3>2
    <3>4. \A i \in 1 .. Len(r.ring) : r.ring[i] = x.count + i - 1
      <4>1. ASSUME NEW i \in 1 .. Len(r.ring) PROVE r.ring[i] = x.count + i - 1
        <5>1. i + 1 \in 1 .. Len(o.ring) /\ i \in Nat
          <6>1. Len(r.ring) = Len(o.ring) - 1
            BY <1>a, <1>b
          <6>2. \A n \in Nat \ {0} : \A j \in 1 .. n - 1 : j + 1 \in 1 .. n /\ j \in Nat
            OBVIOUS
          <6>3. QED
            BY <1>0, <6>1, <6>2
        <5>2. r.ring[i] = t.count + (i + 1) - 1
          BY <1>a, <1>b, <2>1, <5>1
        <5>3. QED
          BY <1>0, <3>2, <5>1, <5>2
      <4>2. QED
        BY <4>1
    <3>5. QED
      BY <2>0, <2>1, <3>2, <3>3, <3>4 DEF MsgOwn
  <2>6. QED
    BY <2>4, <2>5
<1>3. CASE t.phase \notin 0 .. 3
  BY <1>0, <1>3 DEF MsgTaken, MsgOwn
<1>4. t.phase # 0
  BY DEF MsgOwn
<1>5. QED
  BY <1>0, <1>1, <1>2, <1>3, <1>4

\* What a test sends.
LEMMA MsgScript ==
    ASSUME NEW k \in Nat
    PROVE  /\ Msg!Messages(k) \in Seq(Nat)
           /\ k = 1 => Msg!Messages(k) = <<Msg!Magic>>
           /\ k \in 2 .. 3 => \A i \in 1 .. Len(Msg!Messages(k)) : Msg!Messages(k)[i] = i - 1
           /\ k = 2 => Len(Msg!Messages(k)) = Burst
<1>1. ASSUME NEW n \in Nat
      PROVE  /\ Msg!Count(n) \in Seq(Nat) /\ Len(Msg!Count(n)) = n
             /\ \A i \in 1 .. n : Msg!Count(n)[i] = i - 1
  <2>1. \A i \in 1 .. n : i - 1 \in Nat
    OBVIOUS
  <2>2. QED
    BY <2>1 DEF Msg!Count
<1>2. MsgRing + 2 \in Nat /\ Burst \in Nat
  BY MessageAssumption
<1>3. CASE k = 1
  BY <1>3 DEF Msg!Messages, Msg!Magic
<1>4. CASE k = 2
  <2>1. Msg!Messages(k) = Msg!Count(Burst)
    BY <1>4 DEF Msg!Messages
  <2>2. QED
    BY <1>1, <1>2, <1>4, <2>1
<1>5. CASE k = 3
  <2>1. Msg!Messages(k) = Msg!Count(MsgRing + 2)
    BY <1>5 DEF Msg!Messages
  <2>2. PICK n \in Nat : n = MsgRing + 2
    BY <1>2
  <2>3. Msg!Messages(k) = Msg!Count(n)
    BY <2>1, <2>2
  <2>4. QED
    BY <1>1, <1>5, <2>3
<1>6. CASE k \notin 1 .. 3
  <2>1. Msg!Messages(k) = <<>>
    BY <1>6 DEF Msg!Messages
  <2>2. QED
    BY <1>6, <2>1
<1>7. QED
  BY <1>3, <1>4, <1>5, <1>6

\* clear_msg_queue gives every buffer back.
LEMMA MsgCleared ==
    ASSUME NEW o \in MsgQueue, o.pool + Len(o.ring) = PoolSize
    PROVE  /\ Msg!Clear(o) = [ring |-> <<>>, pool |-> PoolSize]
           /\ Msg!Clear(o) \in MsgQueue
BY MessageAssumption DEF Msg!Clear, MsgQueue

\* A test starts with an empty ring and a full pool, and the ring gets a first part of
\* its messages.
LEMMA MsgStarted ==
    ASSUME NEW o \in MsgQueue, o.pool + Len(o.ring) = PoolSize, NEW k \in Nat,
           NEW r, r = Msg!Send(Msg!Clear(o), Msg!Messages(k))
    PROVE  /\ r \in MsgQueue /\ Len(r.ring) <= MsgRing - 1 /\ r.pool + Len(r.ring) = PoolSize
           /\ Len(r.ring) <= Len(Msg!Messages(k))
           /\ \A i \in 1 .. Len(r.ring) : r.ring[i] = Msg!Messages(k)[i]
<1>1. PICK c \in MsgQueue : c = Msg!Clear(o) /\ c = [ring |-> <<>>, pool |-> PoolSize]
  BY MsgCleared
<1>2. c.ring = <<>> /\ c.pool = PoolSize /\ Len(c.ring) = 0
  BY <1>1
<1>3. PICK s \in Seq(Nat) : s = Msg!Messages(k)
  BY MsgScript
<1>4. Len(c.ring) <= MsgRing - 1
  BY <1>2, MessageAssumption
<1>5. PICK n \in 0 .. Len(s) :
         /\ n <= c.pool /\ n <= MsgRing - 1 - Len(c.ring)
         /\ Msg!Send(c, s) = [ring |-> c.ring \o SubSeq(s, 1, n), pool |-> c.pool - n]
         /\ SubSeq(s, 1, n) \in Seq(Nat) /\ Len(SubSeq(s, 1, n)) = n
         /\ \A i \in 1 .. n : SubSeq(s, 1, n)[i] = s[i]
         /\ Msg!Send(c, s) \in MsgQueue
         /\ Len(Msg!Send(c, s).ring) = Len(c.ring) + n
  BY <1>4, MsgSent
<1>6. PICK u \in Seq(Nat) : u = SubSeq(s, 1, n)
  BY <1>5
<1>7. r = [ring |-> <<>> \o u, pool |-> PoolSize - n] /\ r \in MsgQueue
  BY <1>1, <1>2, <1>3, <1>5, <1>6
<1>8. <<>> \o u = u
  OBVIOUS
<1>9. r.ring = u /\ r.pool = PoolSize - n /\ Len(u) = n /\ \A i \in 1 .. n : u[i] = s[i]
  BY <1>5, <1>6, <1>7, <1>8
<1>10. n \in Nat /\ n <= Len(s) /\ n <= MsgRing - 1
  BY <1>2, <1>5, LenProperties, MessageAssumption
<1>11. r.pool + Len(r.ring) = PoolSize
  BY <1>9, <1>10, MessageAssumption
<1>12. QED
  BY <1>3, <1>7, <1>9, <1>10, <1>11

\* The tests that a change of one mark leaves and adds.
LEMMA MsgTally ==
    ASSUME NEW t \in MsgState, NEW x \in MsgState, NEW k \in 1 .. 3, t.status[k] = "incomplete"
    PROVE  /\ x.status = MsgAt(t.status, k, "failed") =>
                 Cardinality(MsgTests(x)) = Cardinality(MsgTests(t))
           /\ x.status = MsgAt(t.status, k, "passed") =>
                 Cardinality(MsgTests(x)) = Cardinality(MsgTests(t)) + 1
<1>1. t.status \in [1 .. 3 -> MsgMark] /\ "failed" \in MsgMark /\ "passed" \in MsgMark
  BY DEF MsgState, MsgMark
<1>2. ASSUME NEW m \in MsgMark
      PROVE  \A j \in 1 .. 3 : MsgAt(t.status, k, m)[j] = IF j = k THEN m ELSE t.status[j]
  BY <1>1, MsgAtIs
<1>3. ASSUME x.status = MsgAt(t.status, k, "failed") PROVE MsgTests(x) = MsgTests(t)
  BY <1>1, <1>2, <1>3 DEF MsgTests
<1>4. ASSUME x.status = MsgAt(t.status, k, "passed")
      PROVE  MsgTests(x) = MsgTests(t) \cup {k} /\ k \notin MsgTests(t)
  BY <1>1, <1>2, <1>4 DEF MsgTests
<1>5. IsFiniteSet(MsgTests(t))
  <2>1. IsFiniteSet(1 .. 3)
    BY 1 \in Int, 3 \in Int, FS_Interval
  <2>2. QED
    BY <2>1, FS_Subset DEF MsgTests
<1>6. QED
  BY <1>3, <1>4, <1>5, FS_AddElement

LEMMA MsgInit ==
    ASSUME Msg!Init PROVE MsgInv
<1>1. /\ v1 = [phase |-> 0, passed |-> 0, count |-> 0, base |-> 0,
               status |-> [i \in 1 .. 3 |-> "incomplete"]]
      /\ v2 = [ring |-> <<>>, pool |-> PoolSize] /\ v4 = "loop" /\ v5 = 0 /\ v6 = 0
  BY DEF Msg!Init
<1>2. v1 \in MsgState /\ v2 \in MsgQueue /\ Len(v2.ring) = 0
  BY <1>1, MessageAssumption DEF MsgState, MsgMark, MsgQueue
<1>3. MsgTypes /\ Msg!MessagesAccounted
  BY <1>1, <1>2, MessageAssumption DEF MsgTypes, Msg!MessagesAccounted
<1>4. v1.phase = 0 /\ v1.count = 0 /\ v1.passed = 0 /\ \A j \in 1 .. 3 : v1.status[j] = "incomplete"
  BY <1>1
<1>5. Cardinality(MsgTests(v1)) = 0
  <2>1. MsgTests(v1) = {}
    BY <1>4 DEF MsgTests
  <2>2. QED
    BY <2>1, FS_EmptySet
<1>6. MsgMarked
  BY <1>1, <1>4, <1>5 DEF MsgMarked
<1>7. MsgAlone
  BY <1>1, <1>4 DEF MsgAlone, MsgOwn
<1>8. QED
  BY <1>3, <1>6, <1>7 DEF MsgInv

\* test_handler goes on with the next test or changes nothing.
LEMMA MsgMoves ==
    ASSUME NEW t \in MsgState, NEW o \in MsgQueue, Len(o.ring) <= MsgRing - 1,
           o.pool + Len(o.ring) = PoolSize, Msg!NextPhase(t, o)
    PROVE  /\ v1' \in MsgState /\ v2' \in MsgQueue /\ Len(v2'.ring) <= MsgRing - 1
           /\ v2'.pool + Len(v2'.ring) = PoolSize /\ v5' = v5
           /\ v4' = (IF t.phase = 4 THEN "done" ELSE "loop")
           /\ v1'.passed = t.passed /\ v1'.status = t.status /\ v1'.count = t.count
           /\ \/ /\ t.phase = 0 \/ Msg!Over(t)
                 /\ v1'.phase = t.phase + 1
                 /\ v1'.base = (IF t.phase = 0 THEN PoolSize ELSE t.base)
                 /\ Len(v2'.ring) <= Len(Msg!Messages(t.phase + 1))
                 /\ \A i \in 1 .. Len(v2'.ring) : v2'.ring[i] = Msg!Messages(t.phase + 1)[i]
              \/ t.phase # 0 /\ ~Msg!Over(t) /\ v1' = t /\ v2' = o
<1>1. v4' = (IF t.phase = 4 THEN "done" ELSE "loop") /\ v5' = v5
  BY DEF Msg!NextPhase
<1>2. CASE t.phase = 0 \/ Msg!Over(t)
  <2>1. PICK k \in Nat : k = t.phase + 1
    BY DEF MsgState
  <2>2. v2' = Msg!Send(Msg!Clear(o), Msg!Messages(k))
    BY <1>2, <2>1 DEF Msg!NextPhase
  <2>3. PICK b \in Nat : b = IF t.phase = 0 THEN PoolSize ELSE t.base
    BY MessageAssumption DEF MsgState
  <2>4. v1' = [t EXCEPT !.phase = k, !.base = b]
    <3>1. Msg!Clear(o).pool = PoolSize
      BY MsgCleared
    <3>2. QED
      BY <1>2, <2>1, <2>3, <3>1 DEF Msg!NextPhase
  <2>5. /\ v1' \in MsgState /\ v1'.phase = k /\ v1'.base = b
        /\ v1'.passed = t.passed /\ v1'.status = t.status /\ v1'.count = t.count
    BY <2>4 DEF MsgState
  <2>6. /\ v2' \in MsgQueue /\ Len(v2'.ring) <= MsgRing - 1 /\ v2'.pool + Len(v2'.ring) = PoolSize
        /\ Len(v2'.ring) <= Len(Msg!Messages(k))
        /\ \A i \in 1 .. Len(v2'.ring) : v2'.ring[i] = Msg!Messages(k)[i]
    BY <2>2, MsgStarted
  <2>7. QED
    BY <1>1, <1>2, <2>1, <2>3, <2>5, <2>6
<1>3. CASE ~(t.phase = 0 \/ Msg!Over(t))
  <2>1. v1' = t /\ v2' = o
    BY <1>3 DEF Msg!NextPhase
  <2>2. QED
    BY <1>1, <1>3, <2>1
<1>4. QED
  BY <1>2, <1>3

LEMMA MsgDequeue ==
    ASSUME MsgInv, Msg!Dequeue PROVE MsgInv'
<1>0. v1 \in MsgState /\ v2 \in MsgQueue /\ v5 \in Nat /\ v6 \in Nat /\ v4 = "loop" /\ v4' = "act"
      /\ v5' = v5 /\ v6' = v6 /\ Len(v2.ring) <= MsgRing - 1 /\ v2.pool + Len(v2.ring) = PoolSize
  BY DEF MsgInv, MsgTypes, Msg!MessagesAccounted, Msg!Dequeue
<1>1. CASE v2.ring = <<>>
  <2>1. v1' = v1 /\ v2' = v2
    BY <1>1 DEF Msg!Dequeue
  <2>2. MsgTypes' /\ Msg!MessagesAccounted' /\ MsgAlone'
    BY <1>0, <2>1 DEF MsgInv, MsgTypes, Msg!MessagesAccounted, MsgAlone, MsgOwn
  <2>3. MsgMarked'
    BY <1>0, <2>1 DEF MsgInv, MsgMarked, MsgTests
  <2>4. QED
    BY <2>2, <2>3 DEF MsgInv
<1>2. CASE v2.ring # <<>>
  <2>1. v1' = MsgTaken(v1, Head(v2.ring), Len(v2.ring) - 1, v2.pool)
    BY <1>2 DEF Msg!Dequeue, MsgTaken
  <2>2. v2' = [ring |-> Tail(v2.ring), pool |-> v2.pool + 1]
    BY <1>2 DEF Msg!Dequeue
  <2>3. /\ v1' \in MsgState /\ v1'.phase = v1.phase /\ v1'.base = v1.base
        /\ \/ v1'.passed = v1.passed /\ v1'.status = v1.status
           \/ /\ v1.phase \in 1 .. 3 /\ v1'.passed = v1.passed
              /\ v1'.status = MsgAt(v1.status, v1.phase, "failed")
           \/ /\ v1.phase \in 1 .. 3 /\ v1'.passed = v1.passed + 1
              /\ v1'.status = MsgAt(v1.status, v1.phase, "passed")
    BY <1>0, <2>1, MsgHandled
  <2>4. /\ v2' \in MsgQueue /\ Len(v2'.ring) = Len(v2.ring) - 1 /\ v2'.pool = v2.pool + 1
        /\ Len(v2.ring) \in Nat \ {0} /\ v2.pool \in Nat
    <3>1. v2.ring \in Seq(Nat) /\ v2.pool \in Nat
      BY <1>0 DEF MsgQueue
    <3>2. Tail(v2.ring) \in Seq(Nat) /\ Len(Tail(v2.ring)) = Len(v2.ring) - 1 /\ Len(v2.ring) \in Nat \ {0}
      BY <1>2, <3>1
    <3>3. v2.pool + 1 \in Nat
      BY <3>1
    <3>4. QED
      BY <2>2, <3>1, <3>2, <3>3 DEF MsgQueue
  <2>5. MsgTypes' /\ Msg!MessagesAccounted'
    BY <1>0, <2>3, <2>4, MessageAssumption DEF MsgTypes, Msg!MessagesAccounted
  <2>s. v1.status \in [1 .. 3 -> MsgMark] /\ v1.phase \in Nat
    BY <1>0 DEF MsgState
  <2>6. \A j \in 1 .. 3 : j # v1.phase => v1'.status[j] = v1.status[j]
    <3>1. \A k \in 1 .. 3, m \in {"passed", "failed"}, j \in 1 .. 3 :
             j # k => MsgAt(v1.status, k, m)[j] = v1.status[j]
      <4>1. {"passed", "failed"} \subseteq MsgMark
        BY DEF MsgMark
      <4>2. QED
        BY <2>s, <4>1, MsgAtIs
    <3>2. QED
      BY <2>3, <3>1
  <2>7. MsgMarked'
    <3>1. SUFFICES ASSUME v6 = 0 PROVE MsgMarked'
      BY <1>0 DEF MsgMarked
    <3>2. /\ v1.phase <= 4 /\ v1.passed = Cardinality(MsgTests(v1))
          /\ \A j \in 1 .. 3 : j >= v1.phase => v1.status[j] = "incomplete"
      BY <1>0, <2>s, <3>1 DEF MsgInv, MsgMarked
    <3>3. v1'.passed = Cardinality(MsgTests(v1'))
      <4>1. CASE v1'.passed = v1.passed /\ v1'.status = v1.status
        BY <3>2, <4>1 DEF MsgTests
      <4>2. CASE /\ v1.phase \in 1 .. 3
                 /\ \/ /\ v1'.passed = v1.passed
                       /\ v1'.status = MsgAt(v1.status, v1.phase, "failed")
                    \/ /\ v1'.passed = v1.passed + 1
                       /\ v1'.status = MsgAt(v1.status, v1.phase, "passed")
        <5>1. PICK x \in MsgState : x = v1'
          BY <2>3
        <5>2. v1.status[v1.phase] = "incomplete"
          BY <2>s, <3>2, <4>2
        <5>3. QED
          BY <1>0, <2>3, <3>2, <4>2, <5>1, <5>2, MsgTally
      <4>3. QED
        BY <2>3, <4>1, <4>2
    <3>4. \A j \in 1 .. 3 : j > v1'.phase => v1'.status[j] = "incomplete"
      BY <2>3, <2>6, <2>s, <3>2
    <3>5. QED
      BY <1>0, <2>3, <3>2, <3>3, <3>4 DEF MsgMarked, MsgTests
  <2>8. MsgAlone'
    <3>1. SUFFICES ASSUME v5 = 0, v6 = 0 PROVE MsgAlone'
      BY <1>0 DEF MsgAlone
    <3>2. /\ \A j \in 1 .. 3 : v1.status[j] # "failed"
          /\ \A j \in 1 .. 3 : j < v1.phase => v1.status[j] = "passed"
          /\ v1.phase > 0 => v1.base = PoolSize
          /\ MsgOwn(v1, v2)
      BY <3>1 DEF MsgInv, MsgAlone
    <3>3. PICK x, r : x = v1' /\ r = v2'
      OBVIOUS
    <3>4. MsgOwn(x, r) /\ \A j \in 1 .. 3 : x.status[j] # "failed"
      BY <1>0, <1>2, <2>1, <2>2, <3>2, <3>3, MsgExpected
    <3>5. \A j \in 1 .. 3 : j < v1'.phase => v1'.status[j] = "passed"
      BY <2>3, <2>6, <2>s, <3>2
    <3>6. MsgOwn(x, r) = MsgOwn(v1, v2)'
      BY <3>3 DEF MsgOwn
    <3>7. QED
      BY <2>3, <3>2, <3>3, <3>4, <3>5, <3>6 DEF MsgAlone
  <2>9. QED
    BY <2>5, <2>7, <2>8 DEF MsgInv
<1>3. QED
  BY <1>1, <1>2

LEMMA MsgHandler ==
    ASSUME MsgInv, Msg!TestHandler PROVE MsgInv'
<1>0. /\ v1 \in MsgState /\ v2 \in MsgQueue /\ v5 \in Nat /\ v6 \in Nat /\ v4 = "act" /\ v6' = v6
      /\ Len(v2.ring) <= MsgRing - 1 /\ v2.pool + Len(v2.ring) = PoolSize
  BY DEF MsgInv, MsgTypes, Msg!MessagesAccounted, Msg!TestHandler
<1>1. Msg!NextPhase(v1, v2)
  BY DEF Msg!TestHandler
<1>2. /\ v1' \in MsgState /\ v2' \in MsgQueue /\ Len(v2'.ring) <= MsgRing - 1
      /\ v2'.pool + Len(v2'.ring) = PoolSize /\ v5' = v5
      /\ v4' = (IF v1.phase = 4 THEN "done" ELSE "loop")
      /\ v1'.passed = v1.passed /\ v1'.status = v1.status /\ v1'.count = v1.count
      /\ \/ /\ v1.phase = 0 \/ Msg!Over(v1)
            /\ v1'.phase = v1.phase + 1
            /\ v1'.base = (IF v1.phase = 0 THEN PoolSize ELSE v1.base)
            /\ Len(v2'.ring) <= Len(Msg!Messages(v1.phase + 1))
            /\ \A i \in 1 .. Len(v2'.ring) : v2'.ring[i] = Msg!Messages(v1.phase + 1)[i]
         \/ v1.phase # 0 /\ ~Msg!Over(v1) /\ v1' = v1 /\ v2' = v2
  BY <1>0, <1>1, MsgMoves
<1>3. MsgTypes' /\ Msg!MessagesAccounted'
  BY <1>0, <1>2 DEF MsgTypes, Msg!MessagesAccounted
<1>s. v1.phase \in Nat /\ v1.count \in Nat
  BY <1>0 DEF MsgState
<1>o. Msg!Over(v1) <=> v1.phase \in 1 .. 3 /\ v1.status[v1.phase] # "incomplete"
  BY DEF Msg!Over
<1>4. MsgMarked'
  <2>1. SUFFICES ASSUME v6 = 0 PROVE MsgMarked'
    BY <1>0 DEF MsgMarked
  <2>2. /\ v1.phase <= 4 /\ v1.passed = Cardinality(MsgTests(v1))
        /\ \A j \in 1 .. 3 : j > v1.phase => v1.status[j] = "incomplete"
    BY <2>1 DEF MsgInv, MsgMarked
  <2>3. v1'.passed = Cardinality(MsgTests(v1'))
    BY <1>2, <2>2 DEF MsgTests
  <2>4. v1'.phase <= 4 /\ (v4' = "done" => v1'.phase = 4)
    BY <1>2, <1>s, <1>o, <2>2
  <2>5. \A j \in 1 .. 3 : j >= v1'.phase => v1'.status[j] = "incomplete"
    BY <1>2, <1>s, <1>o, <2>2
  <2>6. QED
    BY <1>0, <1>2, <1>s, <2>3, <2>4, <2>5 DEF MsgMarked, MsgTests
<1>5. MsgAlone'
  <2>1. SUFFICES ASSUME v5 = 0, v6 = 0 PROVE MsgAlone'
    BY <1>0, <1>2 DEF MsgAlone
  <2>2. /\ \A j \in 1 .. 3 : v1.status[j] # "failed"
        /\ \A j \in 1 .. 3 : j < v1.phase => v1.status[j] = "passed"
        /\ v1.phase > 0 => v1.base = PoolSize
        /\ MsgOwn(v1, v2)
    BY <2>1 DEF MsgInv, MsgAlone
  <2>3. CASE v1' = v1 /\ v2' = v2
    BY <2>2, <2>3 DEF MsgAlone, MsgOwn
  <2>4. CASE ~(v1' = v1 /\ v2' = v2)
    <3>1. PICK k \in Nat : k = v1.phase + 1
      BY <1>s
    <3>2. /\ v1.phase = 0 \/ Msg!Over(v1)
          /\ v1'.phase = k /\ v1'.base = PoolSize
          /\ Len(v2'.ring) <= Len(Msg!Messages(k))
          /\ \A i \in 1 .. Len(v2'.ring) : v2'.ring[i] = Msg!Messages(k)[i]
      BY <1>2, <1>s, <2>2, <2>4, <3>1
    <3>3. v1.count = 0 /\ \A j \in 1 .. 3 : j < k => v1.status[j] = "passed"
      <4>1. CASE v1.phase = 0
        BY <2>2, <3>1, <4>1 DEF MsgOwn
      <4>2. CASE v1.phase # 0
        <5>1. v1.phase \in 1 .. 3 /\ v1.status[v1.phase] # "incomplete"
          BY <1>o, <3>2, <4>2
        <5>2. v1.status[v1.phase] = "passed"
          BY <1>0, <2>2, <5>1 DEF MsgState, MsgMark
        <5>3. v1.count = 0
          BY <2>2, <5>1, <5>2 DEF MsgOwn
        <5>4. QED
          BY <1>s, <2>2, <3>1, <5>2, <5>3
      <4>3. QED
        BY <4>1, <4>2
    <3>4. k \in 1 .. 3 => v1.status[k] = "incomplete"
      BY <1>s, <2>1, <3>1 DEF MsgInv, MsgMarked
    <3>5. k = 1 => v2'.ring \in {<<>>, <<Msg!Magic>>}
      <4>1. SUFFICES ASSUME k = 1 PROVE v2'.ring \in {<<>>, <<Msg!Magic>>}
        OBVIOUS
      <4>2. Msg!Messages(k) = <<Msg!Magic>>
        BY <4>1, MsgScript
      <4>3. PICK u \in Seq(Nat) : u = v2'.ring
        BY <1>2 DEF MsgQueue
      <4>4. Len(u) <= 1 /\ \A i \in 1 .. Len(u) : u[i] = <<Msg!Magic>>[i]
        BY <3>2, <4>2, <4>3
      <4>5. CASE Len(u) = 0
        BY <4>3, <4>5, EmptySeq
      <4>6. CASE Len(u) = 1
        <5>1. u[1] = Msg!Magic
          BY <4>4, <4>6
        <5>2. u = <<Msg!Magic>>
          BY <4>6, <5>1
        <5>3. QED
          BY <4>3, <5>2
      <4>7. QED
        BY <4>4, <4>5, <4>6, LenProperties
    <3>6. ASSUME k \in 2 .. 3
          PROVE  /\ Len(v2'.ring) <= MsgGoal(k)
                 /\ \A i \in 1 .. Len(v2'.ring) : v2'.ring[i] = i - 1
      <4>1. Len(v2'.ring) \in Nat
        BY <1>2, LenProperties DEF MsgQueue
      <4>2. PICK s \in Seq(Nat) : s = Msg!Messages(k)
        BY MsgScript
      <4>3. (\A i \in 1 .. Len(s) : s[i] = i - 1) /\ (k = 2 => Len(s) = Burst)
        BY <3>6, <4>2, MsgScript
      <4>4. Len(v2'.ring) <= MsgGoal(k)
        BY <1>2, <3>2, <3>6, <4>2, <4>3 DEF MsgGoal
      <4>5. \A i \in 1 .. Len(v2'.ring) : i \in 1 .. Len(s)
        BY <3>2, <4>1, <4>2, LenProperties
      <4>6. QED
        BY <3>2, <4>2, <4>3, <4>4, <4>5
    <3>7. PICK x \in MsgState, r \in MsgQueue : x = v1' /\ r = v2'
      BY <1>2
    <3>8. /\ x.phase = k /\ x.count = 0 /\ x.status = v1.status
          /\ k = 1 => r.ring \in {<<>>, <<Msg!Magic>>}
          /\ k \in 2 .. 3 => /\ Len(r.ring) <= MsgGoal(k)
                             /\ \A i \in 1 .. Len(r.ring) : r.ring[i] = i - 1
      BY <1>2, <3>2, <3>3, <3>5, <3>6, <3>7
    <3>9. MsgOwn(x, r)
      <4>1. k # 0
        BY <1>s, <3>1
      <4>2. Len(r.ring) \in Nat
        BY LenProperties DEF MsgQueue
      <4>3. k \in 2 .. 3 => /\ 0 + Len(r.ring) <= MsgGoal(k)
                            /\ \A i \in 1 .. Len(r.ring) : r.ring[i] = 0 + i - 1
        BY <3>8, <4>2
      <4>4. QED
        BY <3>4, <3>8, <4>1, <4>3 DEF MsgOwn
    <3>10. MsgOwn(x, r) = MsgOwn(v1, v2)'
      BY <3>7 DEF MsgOwn
    <3>11. QED
      BY <1>2, <2>2, <3>2, <3>3, <3>9, <3>10 DEF MsgAlone
  <2>5. QED
    BY <2>3, <2>4
<1>6. QED
  BY <1>3, <1>4, <1>5 DEF MsgInv

\* A test that is given up, and a message from another NF.
LEMMA MsgDisturbed ==
    ASSUME MsgInv, Msg!TestHandlerLate \/ Msg!StrangerSends PROVE MsgInv'
<1>0. /\ v1 \in MsgState /\ v2 \in MsgQueue /\ v5 \in Nat /\ v6 \in Nat
      /\ Len(v2.ring) <= MsgRing - 1 /\ v2.pool + Len(v2.ring) = PoolSize
  BY DEF MsgInv, MsgTypes, Msg!MessagesAccounted
<1>1. CASE Msg!TestHandlerLate
  <2>1. Msg!NextPhase(Msg!GiveUp(v1), Msg!Clear(v2)) /\ v6' = v6 + 1
    BY <1>1 DEF Msg!TestHandlerLate
  <2>2. PICK o \in MsgQueue : /\ o = Msg!Clear(v2) /\ Len(o.ring) <= MsgRing - 1
                              /\ o.pool + Len(o.ring) = PoolSize
    <3>1. Msg!Clear(v2) = [ring |-> <<>>, pool |-> PoolSize] /\ Msg!Clear(v2) \in MsgQueue
      BY <1>0, MsgCleared
    <3>2. QED
      BY <3>1, MessageAssumption
  <2>3. PICK t \in MsgState : t = Msg!GiveUp(v1)
    <3>1. \A u \in MsgState : [u EXCEPT !.phase = @ + 1] \in MsgState
      BY DEF MsgState
    <3>2. v1.phase \in 1 .. 3 => Msg!Failed(v1, v1.phase) \in MsgState
      BY <1>0, MsgMarks
    <3>3. QED
      BY <1>0, <3>1, <3>2 DEF Msg!GiveUp
  <2>4. /\ v1' \in MsgState /\ v2' \in MsgQueue /\ Len(v2'.ring) <= MsgRing - 1
        /\ v2'.pool + Len(v2'.ring) = PoolSize /\ v5' = v5
        /\ v4' = (IF t.phase = 4 THEN "done" ELSE "loop")
    BY <2>1, <2>2, <2>3, MsgMoves
  <2>5. v6' \in Nat /\ v6' # 0
    BY <1>0, <2>1
  <2>6. MsgTypes' /\ Msg!MessagesAccounted'
    BY <1>0, <2>4, <2>5 DEF MsgTypes, Msg!MessagesAccounted
  <2>7. MsgMarked' /\ MsgAlone'
    BY <2>5 DEF MsgMarked, MsgAlone
  <2>8. QED
    BY <2>6, <2>7 DEF MsgInv
<1>2. CASE Msg!StrangerSends
  <2>1. v2' = Msg!Send(v2, <<0>>) /\ v5' = v5 + 1 /\ v1' = v1 /\ v4' = v4 /\ v6' = v6
    BY <1>2 DEF Msg!StrangerSends
  <2>2. PICK s \in Seq(Nat) : s = <<0>>
    <3>1. <<0>> \in Seq(Nat)
      OBVIOUS
    <3>2. QED
      BY <3>1, Zenon
  <2>3. PICK n \in 0 .. Len(s) :
           /\ n <= v2.pool /\ n <= MsgRing - 1 - Len(v2.ring)
           /\ Msg!Send(v2, s) = [ring |-> v2.ring \o SubSeq(s, 1, n), pool |-> v2.pool - n]
           /\ Msg!Send(v2, s) \in MsgQueue
           /\ Len(Msg!Send(v2, s).ring) = Len(v2.ring) + n
    BY <1>0, MsgSent
  <2>4. v2' \in MsgQueue /\ Len(v2'.ring) = Len(v2.ring) + n /\ v2'.pool = v2.pool - n
    BY <2>1, <2>2, <2>3
  <2>5. n \in Nat /\ Len(v2.ring) \in Nat /\ v2.pool \in Nat
    BY <1>0, <2>3, LenProperties DEF MsgQueue
  <2>6. Len(v2'.ring) <= MsgRing - 1 /\ v2'.pool + Len(v2'.ring) = PoolSize
    BY <1>0, <2>3, <2>4, <2>5, MessageAssumption
  <2>7. v5' \in Nat /\ v5' # 0
    BY <1>0, <2>1
  <2>8. MsgTypes' /\ Msg!MessagesAccounted'
    BY <2>1, <2>4, <2>6, <2>7 DEF MsgInv, MsgTypes, Msg!MessagesAccounted
  <2>9. MsgMarked' /\ MsgAlone'
    BY <2>1, <2>7 DEF MsgInv, MsgMarked, MsgAlone, MsgTests
  <2>10. QED
    BY <2>8, <2>9 DEF MsgInv
<1>3. QED
  BY <1>1, <1>2

LEMMA MsgStep ==
    ASSUME MsgInv, [Msg!Next]_(Msg!vars) PROVE MsgInv'
<1>1. CASE Msg!CrashLate \/ Msg!TimePasses \/ UNCHANGED Msg!vars
  <2>1. v1' = v1 /\ v2' = v2 /\ v5' = v5 /\ v6' = v6 /\ v4' \in {v4, "crashed"}
    BY <1>1 DEF Msg!CrashLate, Msg!TimePasses, Msg!vars
  <2>2. QED
    BY <2>1 DEF MsgInv, MsgTypes, Msg!MessagesAccounted, MsgMarked, MsgTests, MsgAlone, MsgOwn
<1>2. QED
  BY <1>1, MsgDequeue, MsgHandler, MsgDisturbed DEF Msg!Next

LEMMA MsgChecked ==
    ASSUME MsgInv PROVE Msg!MessagesAccounted /\ Msg!ReportSound
<1>1. \A S : Msg!Cardinality(S) = Cardinality(S)
  BY DEF Msg!Cardinality, Cardinality
<1>2. v6 = 0 => v1.passed = Cardinality(MsgTests(v1))
  BY DEF MsgInv, MsgMarked
<1>3. ASSUME v4 = "done", v5 = 0, v6 = 0 PROVE v1.passed = 3
  <2>1. v1.phase = 4 /\ \A j \in 1 .. 3 : j < v1.phase => v1.status[j] = "passed"
    BY <1>3 DEF MsgInv, MsgMarked, MsgAlone
  <2>2. MsgTests(v1) = 1 .. 3
    BY <2>1 DEF MsgTests
  <2>3. Cardinality(1 .. 3) = 3
    <3>1. Cardinality(1 .. 3) = IF 1 > 3 THEN 0 ELSE 3 - 1 + 1
      BY 1 \in Int, 3 \in Int, FS_Interval, Zenon
    <3>2. QED
      BY <3>1
  <2>4. QED
    BY <1>2, <1>3, <2>2, <2>3
<1>4. QED
  BY <1>1, <1>2, <1>3 DEF MsgInv, Msg!ReportSound, MsgTests

-----------------------------------------------------------------------------
(* The NFs of NFD: v1 is the program, v2 its state, v3 the pc, v4 the last     *)
(* packet and v5 what the sources have sent.                                 *)

NfdSource == [passed : Nat, down : Nat, marks : Nat]

\* A source that is not marked has as many packets through as its counter says.
NfdMarking(mark, counter, over) ==
    /\ mark \in [Nfd!Host -> {0, 1}] /\ counter \in [Nfd!Host -> Nat]
    /\ \A s \in Nfd!Host :
          IF mark[s] = 1 THEN v5.of[s].passed <= Threshold + over
          ELSE v5.of[s].passed = counter[s] /\ counter[s] <= Threshold

NfdHhd   == v1 = "HHD" => v2 = [hh |-> v2.hh, counter |-> v2.counter] /\ NfdMarking(v2.hh, v2.counter, 1)
NfdUdpfm == v1 = "UDPFM" => /\ v2 = [flood |-> v2.flood, counter |-> v2.counter]
                            /\ NfdMarking(v2.flood, v2.counter, 0)

\* The SYNs that were dropped count, too.
NfdSynfd ==
    v1 = "SYNFD" =>
        /\ v2 = [blist |-> v2.blist] /\ v2.blist \in [Nfd!Host -> Int]
        /\ \A s \in Nfd!Host : /\ v5.of[s].passed - v5.of[s].down <= v2.blist[s]
                               /\ v5.of[s].passed - v5.of[s].down < Threshold

NfdSsd ==
    v1 = "SSD" =>
        /\ v2 = [list |-> v2.list, tlist |-> v2.tlist]
        /\ v2.list \in [Nfd!Host -> Int] /\ v2.tlist \in [Nfd!Host -> {0, 1}]
        /\ Nfd!SpreaderCount

\* Packet i of the inside has the port FirstPort + i - 1, as far as it fits.
NfdNapt ==
    v1 = "NAPT" =>
        /\ v2 = [port |-> v2.port, list |-> v2.list]
        /\ v2.list \in Seq(Nfd!Host \X SrcPorts)
        /\ v5.lent \in Seq(Int \X Nfd!Host \X SrcPorts)
        /\ Len(v5.lent) = Len(v2.list) /\ v2.port = FirstPort + Len(v2.list)
        /\ \A i \in 1 .. Len(v2.list) :
              v5.lent[i] = <<(FirstPort + i - 1) % PortWidth, v2.list[i][1], v2.list[i][2]>>

NfdSfw   == v1 = "SFW" => /\ v2 = [seen |-> v2.seen]
                          /\ \A d \in v2.seen : \E x \in v5.sent : x[1] \in Inside /\ x[2] = d
NfdDnsam == v1 = "DNSAM" => v2 = [bq |-> v2.bq, ones |-> v2.ones] /\ v2.bq \subseteq v5.sent

NfdInv ==
    /\ v5.of \in [Nfd!Host -> NfdSource]
    /\ NfdHhd /\ NfdUdpfm /\ NfdSynfd /\ NfdSsd /\ NfdNapt /\ NfdSfw /\ NfdDnsam
    /\ Nfd!RepliesToFirst /\ Nfd!AnswersOnly

\* What the history has of a packet.
LEMMA NfdHandled ==
    ASSUME v5.of \in [Nfd!Host -> NfdSource], NEW p, NEW r, p.sip \in Nfd!Host, Nfd!Handler(p, r)
    PROVE  /\ v1' = v1 /\ v2' = r.mem
           /\ v5'.of \in [Nfd!Host -> NfdSource]
           /\ \A s \in Nfd!Host : s # p.sip => v5'.of[s] = v5.of[s]
           /\ v5'.of[p.sip].passed = v5.of[p.sip].passed
                 + (IF r.ok /\ (p.syn = 1 \/ p.udp = 1) THEN 1 ELSE 0)
           /\ v5'.of[p.sip].down = v5.of[p.sip].down
                 + (IF p.syn = 0 /\ (IF v1 = "SSD" THEN p.fin ELSE p.ack) = 1 THEN 1 ELSE 0)
           /\ v5'.of[p.sip].marks = v5.of[p.sip].marks
                 + (IF v1 = "SSD" /\ r.mem.tlist[p.sip] > v2.tlist[p.sip] THEN 1 ELSE 0)
           /\ v5'.sent = IF v1 = "SFW" \/ (v1 = "DNSAM" /\ p.dport = 53)
                         THEN v5.sent \cup {<<p.sip, p.dip>>} ELSE v5.sent
           /\ v5'.lent = IF v1 = "NAPT" /\ p.sip \in Inside
                         THEN Append(v5.lent, <<r.pkt.sport, p.sip, p.sport>>) ELSE v5.lent
           /\ v4' = IF v1 \in {"DNSAM", "NAPT", "SFW", "SLFW"}
                    THEN [p |-> p, ok |-> r.ok, to |-> r.pkt] ELSE <<>>
<1>1. PICK h \in NfdSource : h = v5.of[p.sip]
  OBVIOUS
<1>2. h.passed \in Nat /\ h.down \in Nat /\ h.marks \in Nat
  BY DEF NfdSource
<1> DEFINE x == [passed |-> IF r.ok /\ (p.syn = 1 \/ p.udp = 1) THEN h.passed + 1 ELSE h.passed,
                 down   |-> IF p.syn = 0 /\ (IF v1 = "SSD" THEN p.fin ELSE p.ack) = 1 THEN h.down + 1 ELSE h.down,
                 marks  |-> IF v1 = "SSD" /\ r.mem.tlist[p.sip] > v2.tlist[p.sip]
                            THEN h.marks + 1 ELSE h.marks]
<1>3. v5'.of = [v5.of EXCEPT ![p.sip] = x]
  BY <1>1 DEF Nfd!Handler, Nfd!Remember
<1>4. x \in NfdSource
  BY <1>2 DEF NfdSource
<1>5. v5'.of[p.sip] = x
  BY <1>3
<1>6. /\ x.passed = h.passed + (IF r.ok /\ (p.syn = 1 \/ p.udp = 1) THEN 1 ELSE 0)
      /\ x.down = h.down + (IF p.syn = 0 /\ (IF v1 = "SSD" THEN p.fin ELSE p.ack) = 1 THEN 1 ELSE 0)
      /\ x.marks = h.marks + (IF v1 = "SSD" /\ r.mem.tlist[p.sip] > v2.tlist[p.sip] THEN 1 ELSE 0)
  BY <1>2
<1> HIDE DEF x
<1>7. v5'.of \in [Nfd!Host -> NfdSource] /\ \A s \in Nfd!Host : s # p.sip => v5'.of[s] = v5.of[s]
  BY <1>3, <1>4
<1>8. /\ v1' = v1 /\ v2' = r.mem
      /\ v5'.sent = IF v1 = "SFW" \/ (v1 = "DNSAM" /\ p.dport = 53)
                    THEN v5.sent \cup {<<p.sip, p.dip>>} ELSE v5.sent
      /\ v5'.lent = IF v1 = "NAPT" /\ p.sip \in Inside
                    THEN Append(v5.lent, <<r.pkt.sport, p.sip, p.sport>>) ELSE v5.lent
      /\ v4' = IF v1 \in {"DNSAM", "NAPT", "SFW", "SLFW"}
               THEN [p |-> p, ok |-> r.ok, to |-> r.pkt] ELSE <<>>
  BY DEF Nfd!Handler, Nfd!Remember
<1>9. QED
  BY <1>1, <1>5, <1>6, <1>7, <1>8

LEMMA NfdTcp ==
    ASSUME NEW s, NEW fl
    PROVE  LET p == Nfd!Tcp(s, fl) IN
           /\ p.sip = s /\ p.udp = 0 /\ p.syn = (IF "syn" \in fl THEN 1 ELSE 0)
           /\ p.fin = (IF "fin" \in fl THEN 1 ELSE 0) /\ p.ack = (IF "ack" \in fl THEN 1 ELSE 0)
           /\ \A u : LET q == [p EXCEPT !.udp = u] IN q.sip = s /\ q.udp = u /\ q.syn = p.syn
BY DEF Nfd!Tcp

\* The programs that count leave nothing else to look at.
LEMMA NfdCounters ==
    ASSUME v1 \in {"HHD", "UDPFM", "SYNFD", "SSD"}, v1' = v1, v4' = <<>>,
           v5'.of \in [Nfd!Host -> NfdSource], NfdHhd', NfdUdpfm', NfdSynfd', NfdSsd'
    PROVE  NfdInv'
<1>1. Nfd!RepliesToFirst' /\ Nfd!AnswersOnly'
  BY DEF Nfd!RepliesToFirst, Nfd!AnswersOnly
<1>2. NfdNapt' /\ NfdSfw' /\ NfdDnsam'
  BY DEF NfdNapt, NfdSfw, NfdDnsam
<1>3. QED
  BY <1>1, <1>2 DEF NfdInv

\* A counter below the threshold goes up, a source at it is marked.
NfdMoved(s, mark, counter, n, c, over) ==
    \/ n = mark /\ c = counter /\ v5'.of[s].passed = v5.of[s].passed
    \/ /\ mark[s] # 1 /\ counter[s] # Threshold /\ n = mark
       /\ c = [counter EXCEPT ![s] = @ + 1] /\ v5'.of[s].passed = v5.of[s].passed + 1
    \/ /\ mark[s] # 1 /\ counter[s] = Threshold /\ c = counter
       /\ n = [mark EXCEPT ![s] = 1] /\ v5'.of[s].passed = v5.of[s].passed + over

NfdMarkingNext(n, c, over) ==
    /\ n \in [Nfd!Host -> {0, 1}] /\ c \in [Nfd!Host -> Nat]
    /\ \A x \in Nfd!Host :
          IF n[x] = 1 THEN v5'.of[x].passed <= Threshold + over
          ELSE v5'.of[x].passed = c[x] /\ c[x] <= Threshold

LEMMA NfdMarks ==
    ASSUME NEW mark, NEW counter, NEW over \in {0, 1}, NfdMarking(mark, counter, over),
           NEW s \in Nfd!Host, v5.of \in [Nfd!Host -> NfdSource], v5'.of \in [Nfd!Host -> NfdSource],
           \A x \in Nfd!Host : x # s => v5'.of[x] = v5.of[x], NEW n, NEW c,
           NfdMoved(s, mark, counter, n, c, over)
    PROVE  NfdMarkingNext(n, c, over)
<1>0. /\ mark \in [Nfd!Host -> {0, 1}] /\ counter \in [Nfd!Host -> Nat]
      /\ \A x \in Nfd!Host : IF mark[x] = 1 THEN v5.of[x].passed <= Threshold + over
                             ELSE v5.of[x].passed = counter[x] /\ counter[x] <= Threshold
  BY DEF NfdMarking
<1>1. \A x \in Nfd!Host : v5.of[x].passed \in Nat /\ v5'.of[x].passed \in Nat
  BY DEF NfdSource
<1>2. CASE n = mark /\ c = counter /\ v5'.of[s].passed = v5.of[s].passed
  BY <1>0, <1>2 DEF NfdMarkingNext
<1>3. CASE /\ mark[s] # 1 /\ counter[s] # Threshold /\ n = mark
           /\ c = [counter EXCEPT ![s] = @ + 1] /\ v5'.of[s].passed = v5.of[s].passed + 1
  <2>1. c \in [Nfd!Host -> Nat] /\ c[s] = counter[s] + 1 /\ \A x \in Nfd!Host : x # s => c[x] = counter[x]
    BY <1>0, <1>3
  <2>2. v5'.of[s].passed = c[s] /\ c[s] <= Threshold
    BY <1>0, <1>1, <1>3, <2>1, NfdAssumption
  <2>3. QED
    BY <1>0, <1>3, <2>1, <2>2 DEF NfdMarkingNext
<1>4. CASE /\ mark[s] # 1 /\ counter[s] = Threshold /\ c = counter
           /\ n = [mark EXCEPT ![s] = 1] /\ v5'.of[s].passed = v5.of[s].passed + over
  <2>1. n \in [Nfd!Host -> {0, 1}] /\ n[s] = 1 /\ \A x \in Nfd!Host : x # s => n[x] = mark[x]
    BY <1>0, <1>4
  <2>2. v5'.of[s].passed <= Threshold + over
    BY <1>0, <1>1, <1>4, NfdAssumption
  <2>3. QED
    BY <1>0, <1>4, <2>1, <2>2 DEF NfdMarkingNext
<1>5. QED
  BY <1>2, <1>3, <1>4 DEF NfdMoved

LEMMA NfdHhdStep ==
    ASSUME NfdInv, NEW s \in Nfd!Host, NEW fl, Nfd!HhdHandler(s, fl)
    PROVE  NfdInv'
<1>1. PICK p, r : p = Nfd!Tcp(s, fl) /\ r = Nfd!HHD(v2, p)
  OBVIOUS
<1>2. p.sip = s /\ p.udp = 0 /\ p.syn = (IF "syn" \in fl THEN 1 ELSE 0)
  BY <1>1, NfdTcp
<1>3. v1 = "HHD" /\ Nfd!Handler(p, r) /\ v5.of \in [Nfd!Host -> NfdSource]
  BY <1>1 DEF Nfd!HhdHandler, NfdInv
<1>4. /\ v1' = v1 /\ v2' = r.mem /\ v5'.of \in [Nfd!Host -> NfdSource] /\ v4' = <<>>
      /\ \A x \in Nfd!Host : x # s => v5'.of[x] = v5.of[x]
      /\ v5'.of[s].passed = v5.of[s].passed + (IF r.ok /\ p.syn = 1 THEN 1 ELSE 0)
  BY <1>2, <1>3, NfdHandled
<1>5. PICK h, c : v2 = [hh |-> h, counter |-> c] /\ NfdMarking(h, c, 1)
  BY <1>3 DEF NfdInv, NfdHhd
<1>6. PICK n, d : /\ v2' = [hh |-> n, counter |-> d]
                  /\ \/ n = h /\ d = c /\ (~r.ok \/ p.syn # 1)
                     \/ /\ r.ok /\ p.syn = 1 /\ h[s] # 1 /\ c[s] # Threshold /\ n = h
                        /\ d = [c EXCEPT ![s] = @ + 1]
                     \/ /\ r.ok /\ p.syn = 1 /\ h[s] # 1 /\ c[s] = Threshold /\ d = c
                        /\ n = [h EXCEPT ![s] = 1]
  <2>1. v2.hh = h /\ v2.counter = c
    BY <1>5
  <2>2. CASE p.syn # 1
    BY <1>1, <1>4, <1>5, <2>2 DEF Nfd!HHD, Nfd!Pass
  <2>3. CASE p.syn = 1 /\ h[s] = 1
    BY <1>1, <1>2, <1>4, <1>5, <2>1, <2>3 DEF Nfd!HHD, Nfd!Drop
  <2>4. CASE p.syn = 1 /\ h[s] # 1 /\ c[s] # Threshold
    BY <1>1, <1>2, <1>4, <1>5, <2>1, <2>4 DEF Nfd!HHD, Nfd!Pass
  <2>5. CASE p.syn = 1 /\ h[s] # 1 /\ c[s] = Threshold
    BY <1>1, <1>2, <1>4, <1>5, <2>1, <2>5 DEF Nfd!HHD, Nfd!Pass
  <2>6. QED
    BY <2>2, <2>3, <2>4, <2>5
<1>7. v5'.of[s].passed \in Nat /\ v5.of[s].passed \in Nat
  BY <1>3, <1>4 DEF NfdSource
<1>8. NfdMarkingNext(n, d, 1)
  <2>1. NfdMoved(s, h, c, n, d, 1)
    BY <1>4, <1>6, <1>7 DEF NfdMoved
  <2>2. 1 \in {0, 1}
    OBVIOUS
  <2>3. QED
    BY <1>3, <1>4, <1>5, <2>1, <2>2, NfdMarks
<1>9. v2'.hh = n /\ v2'.counter = d
  BY <1>6
<1>10. NfdHhd'
  BY <1>6, <1>8, <1>9 DEF NfdHhd, NfdMarking, NfdMarkingNext, Nfd!Host
<1>11. NfdUdpfm' /\ NfdSynfd' /\ NfdSsd'
  BY <1>3, <1>4 DEF NfdUdpfm, NfdSynfd, NfdSsd
<1>12. QED
  BY <1>3, <1>4, <1>10, <1>11, NfdCounters

LEMMA NfdUdpfmStep ==
    ASSUME NfdInv, NEW s \in Nfd!Host, NEW u, Nfd!UdpfmHandler([Nfd!Tcp(s, {}) EXCEPT !.udp = u])
    PROVE  NfdInv'
<1>1. PICK p, r : p = [Nfd!Tcp(s, {}) EXCEPT !.udp = u] /\ r = Nfd!UDPFM(v2, p)
  OBVIOUS
<1>2. p.sip = s /\ p.udp = u /\ p.syn = 0
  BY <1>1, NfdTcp
<1>3. v1 = "UDPFM" /\ Nfd!Handler(p, r) /\ v5.of \in [Nfd!Host -> NfdSource]
  BY <1>1 DEF Nfd!UdpfmHandler, NfdInv
<1>4. /\ v1' = v1 /\ v2' = r.mem /\ v5'.of \in [Nfd!Host -> NfdSource] /\ v4' = <<>>
      /\ \A x \in Nfd!Host : x # s => v5'.of[x] = v5.of[x]
      /\ v5'.of[s].passed = v5.of[s].passed + (IF r.ok /\ p.udp = 1 THEN 1 ELSE 0)
  BY <1>2, <1>3, NfdHandled
<1>5. PICK h, c : v2 = [flood |-> h, counter |-> c] /\ NfdMarking(h, c, 0)
  BY <1>3 DEF NfdInv, NfdUdpfm
<1>6. PICK n, d : /\ v2' = [flood |-> n, counter |-> d]
                  /\ \/ n = h /\ d = c /\ (~r.ok \/ p.udp # 1)
                     \/ /\ r.ok /\ p.udp = 1 /\ h[s] # 1 /\ c[s] # Threshold /\ n = h
                        /\ d = [c EXCEPT ![s] = @ + 1]
                     \/ /\ ~r.ok /\ p.udp = 1 /\ h[s] # 1 /\ c[s] = Threshold /\ d = c
                        /\ n = [h EXCEPT ![s] = 1]
  <2>1. v2.flood = h /\ v2.counter = c
    BY <1>5
  <2>2. CASE p.udp # 1
    BY <1>1, <1>4, <1>5, <2>2 DEF Nfd!UDPFM, Nfd!Pass
  <2>3. CASE p.udp = 1 /\ h[s] = 1
    BY <1>1, <1>2, <1>4, <1>5, <2>1, <2>3 DEF Nfd!UDPFM, Nfd!Drop
  <2>4. CASE p.udp = 1 /\ h[s] # 1 /\ c[s] # Threshold
    BY <1>1, <1>2, <1>4, <1>5, <2>1, <2>4 DEF Nfd!UDPFM, Nfd!Pass
  <2>5. CASE p.udp = 1 /\ h[s] # 1 /\ c[s] = Threshold
    BY <1>1, <1>2, <1>4, <1>5, <2>1, <2>5 DEF Nfd!UDPFM, Nfd!Drop
  <2>6. QED
    BY <2>2, <2>3, <2>4, <2>5
<1>7. v5'.of[s].passed \in Nat /\ v5.of[s].passed \in Nat
  BY <1>3, <1>4 DEF NfdSource
<1>8. NfdMarkingNext(n, d, 0)
  <2>1. NfdMoved(s, h, c, n, d, 0)
    BY <1>4, <1>6, <1>7 DEF NfdMoved
  <2>2. 0 \in {0, 1}
    OBVIOUS
  <2>3. QED
    BY <1>3, <1>4, <1>5, <2>1, <2>2, NfdMarks
<1>9. v2'.flood = n /\ v2'.counter = d
  BY <1>6
<1>10. NfdUdpfm'
  BY <1>6, <1>8, <1>9 DEF NfdUdpfm, NfdMarking, NfdMarkingNext, Nfd!Host
<1>11. NfdHhd' /\ NfdSynfd' /\ NfdSsd'
  BY <1>3, <1>4 DEF NfdHhd, NfdSynfd, NfdSsd
<1>12. QED
  BY <1>3, <1>4, <1>10, <1>11, NfdCounters

LEMMA NfdSynfdStep ==
    ASSUME NfdInv, NEW s \in Nfd!Host, NEW fl, Nfd!SynfdHandler(s, fl)
    PROVE  NfdInv'
<1>1. PICK p, r : p = Nfd!Tcp(s, fl) /\ r = Nfd!SYNFD(v2, p)
  OBVIOUS
<1>2. /\ p.sip = s /\ p.udp = 0 /\ p.syn = (IF "syn" \in fl THEN 1 ELSE 0)
      /\ p.ack = (IF "ack" \in fl THEN 1 ELSE 0)
  BY <1>1, NfdTcp
<1>3. v1 = "SYNFD" /\ Nfd!Handler(p, r) /\ v5.of \in [Nfd!Host -> NfdSource]
  BY <1>1 DEF Nfd!SynfdHandler, NfdInv
<1>4. /\ v1' = v1 /\ v2' = r.mem /\ v5'.of \in [Nfd!Host -> NfdSource] /\ v4' = <<>>
      /\ \A x \in Nfd!Host : x # s => v5'.of[x] = v5.of[x]
      /\ v5'.of[s].passed = v5.of[s].passed + (IF r.ok /\ p.syn = 1 THEN 1 ELSE 0)
      /\ v5'.of[s].down = v5.of[s].down + (IF p.syn = 0 /\ p.ack = 1 THEN 1 ELSE 0)
  BY <1>2, <1>3, NfdHandled
<1>5. PICK b \in [Nfd!Host -> Int] :
         /\ v2 = [blist |-> b]
         /\ \A x \in Nfd!Host : /\ v5.of[x].passed - v5.of[x].down <= b[x]
                                /\ v5.of[x].passed - v5.of[x].down < Threshold
  BY <1>3 DEF NfdInv, NfdSynfd
<1>6. PICK n \in [Nfd!Host -> Int] :
         /\ v2' = [blist |-> n] /\ \A x \in Nfd!Host : x # s => n[x] = b[x]
         /\ \/ p.syn = 1 /\ n[s] = b[s] + 1 /\ (r.ok <=> n[s] < Threshold)
            \/ p.syn = 0 /\ n[s] = b[s] - (IF p.ack = 1 THEN 1 ELSE 0)
  <2>1. CASE p.syn = 1
    <3>1. [b EXCEPT ![s] = @ + 1] \in [Nfd!Host -> Int] /\ [v2 EXCEPT !.blist[s] = @ + 1] = [blist |-> [b EXCEPT ![s] = @ + 1]]
      BY <1>5
    <3>2. PICK n \in [Nfd!Host -> Int] : n = [b EXCEPT ![s] = @ + 1]
      BY <3>1
    <3>3. n[s] = b[s] + 1 /\ \A x \in Nfd!Host : x # s => n[x] = b[x]
      BY <3>2
    <3>4. r = IF n[s] >= Threshold THEN Nfd!Drop([blist |-> n], p) ELSE Nfd!Pass([blist |-> n], p)
      BY <1>1, <1>2, <2>1, <3>1, <3>2 DEF Nfd!SYNFD
    <3>5. r.mem = [blist |-> n] /\ (r.ok <=> n[s] < Threshold)
      BY <3>3, <3>4, NfdAssumption DEF Nfd!Drop, Nfd!Pass
    <3>6. QED
      BY <1>4, <2>1, <3>3, <3>5
  <2>2. CASE p.syn = 0 /\ p.ack = 1
    <3>1. [b EXCEPT ![s] = @ - 1] \in [Nfd!Host -> Int] /\ [v2 EXCEPT !.blist[s] = @ - 1] = [blist |-> [b EXCEPT ![s] = @ - 1]]
      BY <1>5
    <3>2. PICK n \in [Nfd!Host -> Int] : n = [b EXCEPT ![s] = @ - 1]
      BY <3>1
    <3>3. n[s] = b[s] - 1 /\ \A x \in Nfd!Host : x # s => n[x] = b[x]
      BY <3>2
    <3>4. r.mem = [blist |-> n]
      BY <1>1, <1>2, <2>2, <3>1, <3>2 DEF Nfd!SYNFD, Nfd!Pass
    <3>5. QED
      BY <1>4, <2>2, <3>3, <3>4
  <2>3. CASE p.syn = 0 /\ p.ack # 1
    <3>1. r.mem = v2
      BY <1>1, <2>3 DEF Nfd!SYNFD, Nfd!Pass
    <3>2. b[s] = b[s] - (IF p.ack = 1 THEN 1 ELSE 0)
      BY <2>3
    <3>3. QED
      BY <1>4, <1>5, <2>3, <3>1, <3>2
  <2>4. QED
    BY <1>2, <2>1, <2>2, <2>3
<1>7. \A x \in Nfd!Host : /\ v5'.of[x].passed \in Nat /\ v5.of[x].passed \in Nat
                          /\ v5'.of[x].down \in Nat /\ v5.of[x].down \in Nat
  BY <1>3, <1>4 DEF NfdSource
<1>8. /\ v5'.of[s].passed - v5'.of[s].down <= n[s]
      /\ v5'.of[s].passed - v5'.of[s].down < Threshold
  BY <1>2, <1>4, <1>5, <1>6, <1>7, NfdAssumption
<1>9. v2'.blist = n
  BY <1>6
<1>10. NfdSynfd'
  BY <1>4, <1>5, <1>6, <1>8, <1>9 DEF NfdSynfd, Nfd!Host
<1>11. NfdHhd' /\ NfdUdpfm' /\ NfdSsd'
  BY <1>3, <1>4 DEF NfdHhd, NfdUdpfm, NfdSsd
<1>12. QED
  BY <1>3, <1>4, <1>10, <1>11, NfdCounters

LEMMA NfdSsdStep ==
    ASSUME NfdInv, NEW s \in Nfd!Host, NEW fl, Nfd!SsdHandler(s, fl)
    PROVE  NfdInv'
<1>1. PICK p, r : p = Nfd!Tcp(s, fl) /\ r = Nfd!SSD(v2, p)
  OBVIOUS
<1>2. /\ p.sip = s /\ p.udp = 0 /\ p.syn = (IF "syn" \in fl THEN 1 ELSE 0)
      /\ p.fin = (IF "fin" \in fl THEN 1 ELSE 0)
  BY <1>1, NfdTcp
<1>3. v1 = "SSD" /\ Nfd!Handler(p, r) /\ v5.of \in [Nfd!Host -> NfdSource]
  BY <1>1 DEF Nfd!SsdHandler, NfdInv
<1>4. /\ v1' = v1 /\ v2' = r.mem /\ v5'.of \in [Nfd!Host -> NfdSource] /\ v4' = <<>>
      /\ \A x \in Nfd!Host : x # s => v5'.of[x] = v5.of[x]
      /\ v5'.of[s].passed = v5.of[s].passed + (IF r.ok /\ p.syn = 1 THEN 1 ELSE 0)
      /\ v5'.of[s].down = v5.of[s].down + (IF p.syn = 0 /\ p.fin = 1 THEN 1 ELSE 0)
      /\ v5'.of[s].marks = v5.of[s].marks + (IF r.mem.tlist[s] > v2.tlist[s] THEN 1 ELSE 0)
  BY <1>2, <1>3, NfdHandled
<1>5. PICK b \in [Nfd!Host -> Int], t \in [Nfd!Host -> {0, 1}] :
         /\ v2 = [list |-> b, tlist |-> t]
         /\ \A x \in Nfd!Host :
               /\ b[x] = v5.of[x].passed - v5.of[x].marks - v5.of[x].down
               /\ b[x] <= Threshold /\ (t[x] = 1 => b[x] = Threshold)
  <2>1. PICK b \in [Nfd!Host -> Int], t \in [Nfd!Host -> {0, 1}] :
           v2 = [list |-> b, tlist |-> t] /\ Nfd!SpreaderCount
    BY <1>3 DEF NfdInv, NfdSsd
  <2>2. v2.list = b /\ v2.tlist = t
    BY <2>1
  <2>3. QED
    BY <1>3, <2>1, <2>2 DEF Nfd!SpreaderCount
<1>a. v2.list = b /\ v2.tlist = t /\ b[s] \in Int /\ t[s] \in {0, 1}
  BY <1>5
<1>6. PICK n \in [Nfd!Host -> Int], m \in [Nfd!Host -> {0, 1}] :
         /\ v2' = [list |-> n, tlist |-> m]
         /\ \A x \in Nfd!Host : x # s => n[x] = b[x] /\ m[x] = t[x]
         /\ \/ n[s] = b[s] /\ m[s] = t[s] /\ ~(r.ok /\ p.syn = 1) /\ ~(p.syn = 0 /\ p.fin = 1)
            \/ r.ok /\ p.syn = 1 /\ b[s] # Threshold /\ n[s] = b[s] + 1 /\ m[s] = t[s] /\ t[s] = 0
            \/ r.ok /\ p.syn = 1 /\ b[s] = Threshold /\ n[s] = b[s] /\ t[s] = 0 /\ m[s] = 1
            \/ p.syn = 0 /\ p.fin = 1 /\ n[s] = b[s] - 1 /\ m[s] = 0
  <2>1. CASE p.syn = 1 /\ t[s] = 1
    <3>1. r = Nfd!Drop(v2, p)
      BY <1>1, <1>2, <1>a, <2>1 DEF Nfd!SSD
    <3>2. r.mem = v2 /\ ~r.ok
      BY <3>1 DEF Nfd!Drop
    <3>3. v2' = [list |-> b, tlist |-> t] /\ p.syn # 0
      BY <1>4, <1>5, <2>1, <3>2
    <3>4. QED
      BY <3>2, <3>3, Zenon
  <2>2. CASE p.syn = 1 /\ t[s] = 0 /\ b[s] # Threshold
    <3>0. [b EXCEPT ![s] = @ + 1] \in [Nfd!Host -> Int]
      BY <1>a
    <3>1. PICK n \in [Nfd!Host -> Int] : n = [b EXCEPT ![s] = @ + 1]
      BY <3>0, Zenon
    <3>2. [v2 EXCEPT !.list[s] = @ + 1] = [list |-> n, tlist |-> t]
      BY <1>5, <3>1
    <3>3. r = Nfd!Pass([list |-> n, tlist |-> t], p)
      BY <1>1, <1>2, <1>a, <2>2, <3>2 DEF Nfd!SSD
    <3>4. r.mem = [list |-> n, tlist |-> t] /\ r.ok
      BY <3>3 DEF Nfd!Pass
    <3>5. n[s] = b[s] + 1 /\ \A x \in Nfd!Host : x # s => n[x] = b[x]
      BY <3>1
    <3>6. QED
      BY <1>4, <2>2, <3>4, <3>5
  <2>3. CASE p.syn = 1 /\ t[s] = 0 /\ b[s] = Threshold
    <3>1. PICK m \in [Nfd!Host -> {0, 1}] : m = [t EXCEPT ![s] = 1]
      OBVIOUS
    <3>2. [v2 EXCEPT !.tlist[s] = 1] = [list |-> b, tlist |-> m]
      BY <1>5, <3>1
    <3>3. r = Nfd!Pass([list |-> b, tlist |-> m], p)
      BY <1>1, <1>2, <1>a, <2>3, <3>2 DEF Nfd!SSD
    <3>4. r.mem = [list |-> b, tlist |-> m] /\ r.ok
      BY <3>3 DEF Nfd!Pass
    <3>5. m[s] = 1 /\ \A x \in Nfd!Host : x # s => m[x] = t[x]
      BY <3>1
    <3>6. QED
      BY <1>4, <2>3, <3>4, <3>5
  <2>4. CASE p.syn = 0 /\ p.fin = 1
    <3>0. [b EXCEPT ![s] = @ - 1] \in [Nfd!Host -> Int]
      BY <1>a
    <3>1. PICK n \in [Nfd!Host -> Int] : n = [b EXCEPT ![s] = @ - 1]
      BY <3>0, Zenon
    <3>2. PICK m \in [Nfd!Host -> {0, 1}] : m = [t EXCEPT ![s] = IF @ = 1 THEN 0 ELSE @]
      BY <1>a
    <3>3. [v2 EXCEPT !.list[s] = @ - 1, !.tlist[s] = IF @ = 1 THEN 0 ELSE @] = [list |-> n, tlist |-> m]
      <4> DEFINE w == [v2 EXCEPT !.list[s] = @ - 1]
      <4>1. w = [list |-> n, tlist |-> t]
        BY <1>5, <3>1
      <4> HIDE DEF w
      <4>2. [w EXCEPT !.tlist[s] = IF @ = 1 THEN 0 ELSE @] = [list |-> n, tlist |-> m]
        BY <3>2, <4>1
      <4>3. QED
        BY <4>2 DEF w
    <3>4. r = Nfd!Pass([list |-> n, tlist |-> m], p)
      BY <1>1, <1>2, <2>4, <3>3 DEF Nfd!SSD
    <3>5. r.mem = [list |-> n, tlist |-> m]
      BY <3>4 DEF Nfd!Pass
    <3>6. n[s] = b[s] - 1 /\ m[s] = 0 /\ \A x \in Nfd!Host : x # s => n[x] = b[x] /\ m[x] = t[x]
      BY <1>a, <3>1, <3>2
    <3>7. QED
      BY <1>4, <2>4, <3>5, <3>6
  <2>5. CASE p.syn = 0 /\ p.fin # 1
    <3>1. r.mem = v2
      BY <1>1, <2>5 DEF Nfd!SSD, Nfd!Pass
    <3>2. QED
      BY <1>4, <1>5, <2>5, <3>1
  <2>6. QED
    BY <1>2, <1>a, <2>1, <2>2, <2>3, <2>4, <2>5
<1>b. v2'.list = n /\ v2'.tlist = m /\ n[s] \in Int /\ m[s] \in {0, 1} /\ r.mem.tlist = m
  BY <1>4, <1>6
<1>7. \A x \in Nfd!Host : /\ v5'.of[x].passed \in Nat /\ v5.of[x].passed \in Nat
                          /\ v5'.of[x].down \in Nat /\ v5.of[x].down \in Nat
                          /\ v5'.of[x].marks \in Nat /\ v5.of[x].marks \in Nat
  BY <1>3, <1>4 DEF NfdSource
<1>8. /\ n[s] = v5'.of[s].passed - v5'.of[s].marks - v5'.of[s].down
      /\ n[s] <= Threshold /\ (m[s] = 1 => n[s] = Threshold)
  <2>1. /\ v5'.of[s].marks = v5.of[s].marks + (IF m[s] > t[s] THEN 1 ELSE 0)
        /\ b[s] = v5.of[s].passed - v5.of[s].marks - v5.of[s].down
        /\ b[s] <= Threshold /\ (t[s] = 1 => b[s] = Threshold)
    BY <1>4, <1>5, <1>a, <1>b
  <2>2. CASE n[s] = b[s] /\ m[s] = t[s] /\ ~(r.ok /\ p.syn = 1) /\ ~(p.syn = 0 /\ p.fin = 1)
    BY <1>4, <1>7, <1>a, <2>1, <2>2
  <2>a. PICK a \in Int, e \in Int, g \in Int :
           a = v5.of[s].passed /\ e = v5.of[s].down /\ g = v5.of[s].marks
    BY <1>7
  <2>b. b[s] = a - g - e
    BY <2>1, <2>a
  <2>3. CASE r.ok /\ p.syn = 1 /\ b[s] # Threshold /\ n[s] = b[s] + 1 /\ m[s] = t[s] /\ t[s] = 0
    <3>1. v5'.of[s].passed = a + 1 /\ v5'.of[s].marks = g /\ v5'.of[s].down = e
      BY <1>4, <2>1, <2>3, <2>a
    <3>2. QED
      BY <1>a, <2>1, <2>3, <2>b, <3>1, NfdAssumption
  <2>4. CASE r.ok /\ p.syn = 1 /\ b[s] = Threshold /\ n[s] = b[s] /\ t[s] = 0 /\ m[s] = 1
    <3>1. v5'.of[s].passed = a + 1 /\ v5'.of[s].marks = g + 1 /\ v5'.of[s].down = e
      BY <1>4, <2>1, <2>4, <2>a
    <3>2. QED
      BY <1>a, <2>1, <2>4, <2>b, <3>1, NfdAssumption
  <2>5. CASE p.syn = 0 /\ p.fin = 1 /\ n[s] = b[s] - 1 /\ m[s] = 0
    <3>1. v5'.of[s].passed = a /\ v5'.of[s].marks = g /\ v5'.of[s].down = e + 1
      BY <1>4, <2>1, <2>5, <2>a
    <3>2. QED
      BY <1>a, <2>1, <2>5, <2>b, <3>1, NfdAssumption
  <2>6. QED
    BY <1>6, <2>2, <2>3, <2>4, <2>5
<1>9. \A x \in Nfd!Host : /\ n[x] = v5'.of[x].passed - v5'.of[x].marks - v5'.of[x].down
                          /\ n[x] <= Threshold /\ (m[x] = 1 => n[x] = Threshold)
  BY <1>4, <1>5, <1>6, <1>8
<1>10. NfdSsd'
  <2>1. Nfd!SpreaderCount'
    BY <1>9, <1>b DEF Nfd!SpreaderCount, Nfd!Host
  <2>2. QED
    BY <1>6, <1>b, <2>1 DEF NfdSsd, Nfd!Host
<1>11. NfdHhd' /\ NfdUdpfm' /\ NfdSynfd'
  BY <1>3, <1>4 DEF NfdHhd, NfdUdpfm, NfdSynfd
<1>12. QED
  BY <1>3, <1>4, <1>10, <1>11, NfdCounters

\* The programs that look at addresses count nothing.
LEMMA NfdAddresses ==
    ASSUME v1 \in {"NAPT", "SFW", "SLFW", "DNSAM"}, v1' = v1, v5'.of \in [Nfd!Host -> NfdSource],
           NfdNapt', NfdSfw', NfdDnsam', Nfd!RepliesToFirst', Nfd!AnswersOnly'
    PROVE  NfdInv'
<1>1. NfdHhd' /\ NfdUdpfm' /\ NfdSynfd' /\ NfdSsd'
  BY DEF NfdHhd, NfdUdpfm, NfdSynfd, NfdSsd
<1>2. QED
  BY <1>1 DEF NfdInv

LEMMA NfdUdp ==
    ASSUME NEW s, NEW d, NEW sp, NEW dp
    PROVE  LET p == Nfd!Udp(s, d, sp, dp) IN p.sip = s /\ p.dip = d /\ p.sport = sp /\ p.dport = dp
BY DEF Nfd!Udp, Nfd!Tcp

LEMMA NfdFirewalls ==
    ASSUME NfdInv, NEW s \in Nfd!Host, NEW d,
           Nfd!SfwHandler(Nfd!Udp(s, d, 1, 1)) \/ Nfd!SlfwHandler(Nfd!Udp(s, d, 1, 1))
    PROVE  NfdInv'
<1>0. PICK p : p = Nfd!Udp(s, d, 1, 1) /\ p.sip = s /\ p.dip = d
  BY NfdUdp
<1>1. CASE Nfd!SlfwHandler(p)
  <2>1. PICK r : r = Nfd!StatelessFirewall(v2, p) /\ Nfd!Handler(p, r) /\ v1 = "SLFW"
    BY <1>1 DEF Nfd!SlfwHandler
  <2>2. v1' = v1 /\ v5'.of \in [Nfd!Host -> NfdSource] /\ v4' = [p |-> p, ok |-> r.ok, to |-> r.pkt]
    BY <1>0, <2>1, NfdHandled DEF NfdInv
  <2>3. r.ok => p.sip \in Inside
    BY <2>1 DEF Nfd!StatelessFirewall, Nfd!Drop
  <2>4. NfdNapt' /\ NfdSfw' /\ NfdDnsam' /\ Nfd!RepliesToFirst'
    BY <2>1, <2>2 DEF NfdNapt, NfdSfw, NfdDnsam, Nfd!RepliesToFirst
  <2>5. Nfd!AnswersOnly'
    BY <2>1, <2>2, <2>3 DEF Nfd!AnswersOnly
  <2>6. QED
    BY <2>1, <2>2, <2>4, <2>5, NfdAddresses
<1>2. CASE Nfd!SfwHandler(p)
  <2>1. PICK r : r = Nfd!StatefulFirewall(v2, p) /\ Nfd!Handler(p, r) /\ v1 = "SFW"
    BY <1>2 DEF Nfd!SfwHandler
  <2>2. /\ v1' = v1 /\ v2' = r.mem /\ v5'.of \in [Nfd!Host -> NfdSource]
        /\ v4' = [p |-> p, ok |-> r.ok, to |-> r.pkt] /\ v5'.sent = v5.sent \cup {<<s, d>>}
    BY <1>0, <2>1, NfdHandled DEF NfdInv
  <2>3. PICK S : v2 = [seen |-> S] /\ \A y \in S : \E x \in v5.sent : x[1] \in Inside /\ x[2] = y
    BY <2>1 DEF NfdInv, NfdSfw
  <2>4. PICK T : /\ v2' = [seen |-> T] /\ (r.ok /\ s \notin Inside => s \in S)
                 /\ T = S \/ (s \in Inside /\ T = S \cup {d})
    <3>1. v2.seen = S
      BY <2>3
    <3>2. CASE s \in Inside
      BY <1>0, <2>1, <2>2, <2>3, <3>1, <3>2 DEF Nfd!StatefulFirewall, Nfd!Pass
    <3>3. CASE s \notin Inside
      BY <1>0, <2>1, <2>2, <2>3, <3>1, <3>3 DEF Nfd!StatefulFirewall, Nfd!Pass, Nfd!Drop
    <3>4. QED
      BY <3>2, <3>3
  <2>5. \A y \in T : \E x \in v5'.sent : x[1] \in Inside /\ x[2] = y
    <3>1. TAKE y \in T
    <3>2. CASE y \in S
      BY <2>2, <2>3, <3>2
    <3>3. CASE y = d /\ s \in Inside
      <4>1. <<s, d>> \in v5'.sent /\ <<s, d>>[1] = s /\ <<s, d>>[2] = d
        BY <2>2
      <4>2. QED
        BY <3>3, <4>1
    <3>4. QED
      BY <2>4, <3>2, <3>3
  <2>6. NfdSfw'
    <3>1. v2'.seen = T
      BY <2>4
    <3>2. QED
      BY <2>4, <2>5, <3>1 DEF NfdSfw
  <2>7. NfdNapt' /\ NfdDnsam' /\ Nfd!RepliesToFirst'
    BY <2>1, <2>2 DEF NfdNapt, NfdDnsam, Nfd!RepliesToFirst
  <2>8. ASSUME r.ok, s \in Outside PROVE \E x \in v5'.sent : x[1] \in Inside /\ x[2] = s
    BY <2>2, <2>3, <2>4, <2>8, NfdAssumption
  <2>9. Nfd!AnswersOnly'
    BY <1>0, <2>1, <2>2, <2>8 DEF Nfd!AnswersOnly
  <2>10. QED
    BY <2>1, <2>2, <2>6, <2>7, <2>9, NfdAddresses
<1>3. QED
  BY <1>0, <1>1, <1>2

LEMMA NfdDnsamStep ==
    ASSUME NfdInv, NEW s \in Nfd!Host, NEW d, NEW sp, NEW dp, Nfd!DnsamHandler(Nfd!Udp(s, d, sp, dp))
    PROVE  NfdInv'
<1>1. PICK p : p = Nfd!Udp(s, d, sp, dp) /\ p.sip = s /\ p.dip = d /\ p.sport = sp /\ p.dport = dp
  BY NfdUdp
<1>2. PICK r : r = Nfd!DNSAM(v2, p) /\ Nfd!Handler(p, r) /\ v1 = "DNSAM"
  BY <1>1 DEF Nfd!DnsamHandler
<1>3. /\ v1' = v1 /\ v2' = r.mem /\ v5'.of \in [Nfd!Host -> NfdSource]
      /\ v4' = [p |-> p, ok |-> r.ok, to |-> r.pkt]
      /\ v5'.sent = IF dp = 53 THEN v5.sent \cup {<<s, d>>} ELSE v5.sent
  BY <1>1, <1>2, NfdHandled DEF NfdInv
<1>4. PICK B, o : v2 = [bq |-> B, ones |-> o] /\ B \subseteq v5.sent
  BY <1>2 DEF NfdInv, NfdDnsam
<1> DEFINE A == IF dp = 53 THEN B \cup {<<s, d>>} ELSE B
<1>5. A \subseteq v5'.sent
  BY <1>3, <1>4
<1>6. v2.bq = B /\ v2.ones = o /\ [v2 EXCEPT !.bq = A] = [bq |-> A, ones |-> o]
  BY <1>4
<1>7. r = IF dp # 53 /\ sp = 53 /\ <<d, s>> \notin A THEN Nfd!Drop([bq |-> A, ones |-> o], p)
          ELSE IF d = Nfd!Zero /\ o THEN Nfd!Drop([bq |-> A, ones |-> o], p)
          ELSE Nfd!Pass([bq |-> A, ones |-> o], p)
  BY <1>1, <1>2, <1>6 DEF Nfd!DNSAM
<1> HIDE DEF A
<1>8. r.mem = [bq |-> A, ones |-> o] /\ (r.ok /\ dp # 53 /\ sp = 53 => <<d, s>> \in A)
  BY <1>7 DEF Nfd!Drop, Nfd!Pass
<1>9. NfdDnsam'
  <2>1. v2'.bq = A /\ v2'.ones = o /\ v2' = [bq |-> A, ones |-> o]
    BY <1>3, <1>8
  <2>2. QED
    BY <1>5, <2>1 DEF NfdDnsam
<1>10. Nfd!AnswersOnly'
  BY <1>1, <1>2, <1>3, <1>5, <1>8 DEF Nfd!AnswersOnly
<1>11. NfdNapt' /\ NfdSfw' /\ Nfd!RepliesToFirst'
  BY <1>2, <1>3 DEF NfdNapt, NfdSfw, Nfd!RepliesToFirst
<1>12. QED
  BY <1>2, <1>3, <1>9, <1>10, <1>11, NfdAddresses

\* Below the width a port is the number that it was made from.
LEMMA NfdPorts ==
    ASSUME NEW n \in Nat, n < PortWidth
    PROVE  n % PortWidth = n
BY NfdAssumption

LEMMA NfdNaptStep ==
    ASSUME NfdInv, NEW s \in Nfd!Host, NEW d, NEW sp \in SrcPorts, NEW dp \in 0 .. PortWidth - 1,
           Nfd!NaptHandler(Nfd!Udp(s, d, sp, dp))
    PROVE  NfdInv'
<1>1. PICK p : p = Nfd!Udp(s, d, sp, dp) /\ p.sip = s /\ p.dip = d /\ p.sport = sp /\ p.dport = dp
  BY NfdUdp
<1>2. PICK r : r = Nfd!NAPT(v2, p) /\ Nfd!Handler(p, r) /\ v1 = "NAPT"
  BY <1>1 DEF Nfd!NaptHandler
<1>3. /\ v1' = v1 /\ v2' = r.mem /\ v5'.of \in [Nfd!Host -> NfdSource]
      /\ v4' = [p |-> p, ok |-> r.ok, to |-> r.pkt]
      /\ v5'.lent = IF s \in Inside THEN Append(v5.lent, <<r.pkt.sport, s, sp>>) ELSE v5.lent
  BY <1>1, <1>2, NfdHandled DEF NfdInv
<1>4. PICK l \in Seq(Nfd!Host \X SrcPorts), e \in Seq(Int \X Nfd!Host \X SrcPorts) :
         /\ v2 = [port |-> FirstPort + Len(l), list |-> l] /\ e = v5.lent /\ Len(e) = Len(l)
         /\ \A i \in 1 .. Len(l) : e[i] = <<(FirstPort + i - 1) % PortWidth, l[i][1], l[i][2]>>
  BY <1>2 DEF NfdInv, NfdNapt
<1>5. v2.port = FirstPort + Len(l) /\ v2.list = l /\ Len(l) \in Nat /\ DOMAIN l = 1 .. Len(l)
  BY <1>4, LenProperties
<1>6. Nfd!AnswersOnly' /\ NfdSfw' /\ NfdDnsam'
  BY <1>2, <1>3 DEF NfdSfw, NfdDnsam, Nfd!AnswersOnly
<1>7. CASE s \in Inside
  <2> DEFINE w == (FirstPort + Len(l)) % PortWidth
             f == Append(e, <<w, s, sp>>)
             m == Append(l, <<s, sp>>)
  <2>1. r = Nfd!Pass([port |-> FirstPort + Len(l) + 1, list |-> m], [p EXCEPT !.sip = Nfd!Base, !.sport = w])
    BY <1>1, <1>2, <1>5, <1>7 DEF Nfd!NAPT
  <2>2. /\ v2' = [port |-> FirstPort + Len(l) + 1, list |-> m]
        /\ r.pkt = [p EXCEPT !.sip = Nfd!Base, !.sport = w]
    BY <1>3, <2>1 DEF Nfd!Pass
  <2>3. r.pkt.sport = w
    BY <1>1, <2>2 DEF Nfd!Udp, Nfd!Tcp
  <2>4. v5'.lent = f
    BY <1>3, <1>4, <1>7, <2>3
  <2>5. w \in Int
    BY <1>5, NfdAssumption
  <2> HIDE DEF w
  <2>6. /\ m \in Seq(Nfd!Host \X SrcPorts) /\ Len(m) = Len(l) + 1
        /\ f \in Seq(Int \X Nfd!Host \X SrcPorts) /\ Len(f) = Len(l) + 1
        /\ m[Len(l) + 1] = <<s, sp>> /\ f[Len(l) + 1] = <<w, s, sp>>
        /\ \A i \in 1 .. Len(l) : m[i] = l[i] /\ f[i] = e[i]
    <3>1. <<s, sp>> \in Nfd!Host \X SrcPorts /\ <<w, s, sp>> \in Int \X Nfd!Host \X SrcPorts
      BY <2>5
    <3>2. PICK x \in Nfd!Host \X SrcPorts, y \in Int \X Nfd!Host \X SrcPorts :
             x = <<s, sp>> /\ y = <<w, s, sp>>
      BY <3>1, Zenon
    <3>3. /\ m = Append(l, x) /\ f = Append(e, y)
      BY <3>2
    <3>4. /\ m \in Seq(Nfd!Host \X SrcPorts) /\ Len(m) = Len(l) + 1 /\ m[Len(l) + 1] = x
          /\ \A i \in 1 .. Len(l) : m[i] = l[i]
      BY <3>3, AppendProperties
    <3>5. /\ f \in Seq(Int \X Nfd!Host \X SrcPorts) /\ Len(f) = Len(e) + 1 /\ f[Len(e) + 1] = y
          /\ \A i \in 1 .. Len(e) : f[i] = e[i]
      BY <3>3, AppendProperties
    <3>6. QED
      BY <1>4, <3>2, <3>4, <3>5
  <2> HIDE DEF m, f
  <2>7. \A i \in 1 .. Len(m) : f[i] = <<(FirstPort + i - 1) % PortWidth, m[i][1], m[i][2]>>
    <3>1. TAKE i \in 1 .. Len(m)
    <3>2. CASE i \in 1 .. Len(l)
      BY <1>4, <2>6, <3>2
    <3>3. CASE i = Len(l) + 1
      <4>1. FirstPort + i - 1 = FirstPort + Len(l)
        BY <1>5, <3>3, NfdAssumption
      <4>2. m[i][1] = s /\ m[i][2] = sp /\ f[i] = <<w, s, sp>>
        BY <2>6, <3>3
      <4>3. QED
        BY <4>1, <4>2 DEF w
    <3>4. QED
      BY <1>5, <2>6, <3>2, <3>3
  <2>8. NfdNapt'
    <3>1. v2'.port = FirstPort + Len(m) /\ v2'.list = m /\ v2' = [port |-> v2'.port, list |-> v2'.list]
      BY <1>5, <2>2, <2>6, NfdAssumption
    <3>2. QED
      BY <2>4, <2>6, <2>7, <3>1 DEF NfdNapt, Nfd!Host
  <2>9. Nfd!RepliesToFirst'
    <3>1. s \notin Outside
      BY <1>7, NfdAssumption
    <3>2. v4'.p.sip = s
      BY <1>1, <1>3
    <3>3. QED
      BY <3>1, <3>2 DEF Nfd!RepliesToFirst
  <2>10. QED
    BY <1>2, <1>3, <1>6, <2>8, <2>9, NfdAddresses
<1>8. CASE s \notin Inside
  <2> DEFINE at == dp - FirstPort + 1
  <2>0. at \in Int /\ dp \in Nat /\ dp < PortWidth /\ FirstPort \in Nat
    BY NfdAssumption
  <2>1. r = IF d = Nfd!Base /\ at \in 1 .. Len(l)
            THEN Nfd!Pass(v2, [p EXCEPT !.dip = l[at][1], !.dport = l[at][2]]) ELSE Nfd!Drop(v2, p)
    BY <1>1, <1>2, <1>5, <1>8 DEF Nfd!NAPT
  <2>2. v2' = v2 /\ v5'.lent = e
    BY <1>3, <1>4, <1>8, <2>1 DEF Nfd!Pass, Nfd!Drop
  <2>3. NfdNapt'
    BY <1>2, <1>4, <1>5, <2>2 DEF NfdNapt, Nfd!Host
  <2>4. ASSUME r.ok PROVE \E i \in DOMAIN e : /\ e[i][1] = dp /\ \A j \in 1 .. i - 1 : e[j][1] # dp
                                              /\ r.pkt.dip = e[i][2] /\ r.pkt.dport = e[i][3]
    <3>1. at \in 1 .. Len(l) /\ r.pkt = [p EXCEPT !.dip = l[at][1], !.dport = l[at][2]]
      BY <2>1, <2>4 DEF Nfd!Pass, Nfd!Drop
    <3>2. r.pkt.dip = l[at][1] /\ r.pkt.dport = l[at][2]
      BY <1>1, <3>1 DEF Nfd!Udp, Nfd!Tcp
    <3>3. DOMAIN e = 1 .. Len(l)
      BY <1>4, LenProperties
    <3>4. FirstPort + at - 1 = dp
      BY <2>0
    <3>5. e[at] = <<dp, l[at][1], l[at][2]>>
      <4>1. e[at] = <<(FirstPort + at - 1) % PortWidth, l[at][1], l[at][2]>>
        BY <1>4, <3>1
      <4>2. dp % PortWidth = dp
        BY <2>0, NfdPorts
      <4>3. QED
        BY <3>4, <4>1, <4>2
    <3>6. ASSUME NEW j \in 1 .. at - 1 PROVE e[j][1] # dp
      <4>1. j \in 1 .. Len(l) /\ FirstPort + j - 1 \in Nat /\ FirstPort + j - 1 < dp
        BY <1>5, <2>0, <3>1
      <4>2. e[j] = <<(FirstPort + j - 1) % PortWidth, l[j][1], l[j][2]>>
        BY <1>4, <4>1
      <4>3. (FirstPort + j - 1) % PortWidth = FirstPort + j - 1
        BY <2>0, <4>1, NfdAssumption, NfdPorts
      <4>4. QED
        BY <2>0, <4>1, <4>2, <4>3
    <3> HIDE DEF at
    <3>7. at \in DOMAIN e /\ e[at][1] = dp /\ e[at][2] = l[at][1] /\ e[at][3] = l[at][2]
      BY <3>1, <3>3, <3>5
    <3>8. QED
      BY <3>2, <3>6, <3>7
  <2>5. Nfd!RepliesToFirst'
    <3>1. v4'.p.dport = dp /\ v4'.ok = r.ok /\ v4'.to = r.pkt
      BY <1>1, <1>3
    <3>2. QED
      BY <2>2, <2>4, <3>1 DEF Nfd!RepliesToFirst
  <2>6. QED
    BY <1>2, <1>3, <1>6, <2>3, <2>5, NfdAddresses
<1>9. QED
  BY <1>7, <1>8

LEMMA NfdInit ==
    ASSUME Nfd!Init PROVE NfdInv
<1>1. /\ v4 = <<>> /\ v5.of = [s \in Nfd!Host |-> [passed |-> 0, down |-> 0, marks |-> 0]]
      /\ v5.sent = {} /\ v5.lent = <<>>
  BY DEF Nfd!Init, Nfd!Nobody
<1>2. v5.of \in [Nfd!Host -> NfdSource] /\ \A s \in Nfd!Host : /\ v5.of[s].passed = 0 /\ v5.of[s].down = 0
                                                                /\ v5.of[s].marks = 0
  BY <1>1 DEF NfdSource
<1>3. Nfd!RepliesToFirst /\ Nfd!AnswersOnly
  BY <1>1 DEF Nfd!RepliesToFirst, Nfd!AnswersOnly
<1>n. /\ Nfd!NoMap \in [Nfd!Host -> {0, 1}] /\ Nfd!NoMap \in [Nfd!Host -> Nat]
      /\ Nfd!NoMap \in [Nfd!Host -> Int] /\ \A s \in Nfd!Host : Nfd!NoMap[s] = 0
  BY DEF Nfd!NoMap
<1>4. NfdHhd
  <2>1. v1 = "HHD" => v2 = [hh |-> Nfd!NoMap, counter |-> Nfd!NoMap]
    BY DEF Nfd!Init, Nfd!HhdState
  <2>2. QED
    BY <1>2, <1>n, <2>1, NfdAssumption DEF NfdHhd, NfdMarking
<1>5. NfdUdpfm
  <2>1. v1 = "UDPFM" => v2 = [flood |-> Nfd!NoMap, counter |-> Nfd!NoMap]
    BY DEF Nfd!Init, Nfd!UdpfmState
  <2>2. QED
    BY <1>2, <1>n, <2>1, NfdAssumption DEF NfdUdpfm, NfdMarking
<1>6. NfdSsd
  <2>1. v1 = "SSD" => v2 = [list |-> Nfd!NoMap, tlist |-> Nfd!NoMap]
    BY DEF Nfd!Init, Nfd!SsdState
  <2>2. QED
    BY <1>2, <1>n, <2>1, NfdAssumption DEF NfdSsd, Nfd!SpreaderCount
<1>7. NfdSynfd
  <2>1. v1 = "SYNFD" => v2 = [blist |-> Nfd!NoMap]
    BY DEF Nfd!Init, Nfd!SynfdState
  <2>2. QED
    BY <1>2, <1>n, <2>1, NfdAssumption DEF NfdSynfd
<1>8. NfdNapt
  <2>1. v1 = "NAPT" => v2 = [port |-> FirstPort, list |-> <<>>]
    BY DEF Nfd!Init, Nfd!NaptState
  <2>2. /\ <<>> \in Seq(Nfd!Host \X SrcPorts) /\ <<>> \in Seq(Int \X Nfd!Host \X SrcPorts)
        /\ Len(<<>>) = 0
    OBVIOUS
  <2>3. FirstPort = FirstPort + 0
    BY NfdAssumption
  <2>4. ASSUME v1 = "NAPT"
        PROVE  v2.port = FirstPort /\ v2.list = <<>> /\ v2 = [port |-> v2.port, list |-> v2.list]
    BY <2>1, <2>4
  <2>5. PICK z : z = <<>>
    OBVIOUS
  <2>6. /\ z \in Seq(Nfd!Host \X SrcPorts) /\ z \in Seq(Int \X Nfd!Host \X SrcPorts)
        /\ Len(z) = 0 /\ v5.lent = z
    BY <1>1, <2>2, <2>5
  <2>7. SUFFICES ASSUME v1 = "NAPT" PROVE NfdNapt
    BY DEF NfdNapt
  <2>8. v2.list = z /\ v2.port = FirstPort + 0 /\ v2 = [port |-> v2.port, list |-> v2.list]
    BY <2>3, <2>4, <2>5, <2>7
  <2>9. \A i : i \notin 1 .. Len(z)
    BY <2>6
  <2>10. QED
    BY <2>6, <2>8, <2>9 DEF NfdNapt
<1>9. NfdSfw /\ NfdDnsam
  <2>1. v1 = "SFW" => v2 = [seen |-> {}]
    BY DEF Nfd!Init, Nfd!SfwState
  <2>2. v1 = "DNSAM" => v2 = [bq |-> {}, ones |-> TRUE] \/ v2 = [bq |-> {}, ones |-> FALSE]
    BY DEF Nfd!Init, Nfd!DnsamState
  <2>3. QED
    BY <2>1, <2>2 DEF NfdSfw, NfdDnsam
<1>10. QED
  BY <1>2, <1>3, <1>4, <1>5, <1>6, <1>7, <1>8, <1>9 DEF NfdInv

LEMMA NfdStep ==
    ASSUME NfdInv, [Nfd!Next]_(Nfd!vars) PROVE NfdInv'
<1>1. CASE UNCHANGED Nfd!vars \/ \E d \in BOOLEAN : Nfd!Main(d)
  <2>1. v1' = v1 /\ v2' = v2 /\ v4' = v4 /\ v5' = v5
    BY <1>1 DEF Nfd!vars, Nfd!Main
  <2>2. Nfd!RepliesToFirst' /\ Nfd!AnswersOnly' /\ Nfd!SpreaderCount' = Nfd!SpreaderCount
    BY <2>1 DEF NfdInv, Nfd!RepliesToFirst, Nfd!AnswersOnly, Nfd!SpreaderCount, Nfd!Host
  <2>3. NfdHhd' /\ NfdUdpfm' /\ NfdSynfd' /\ NfdSsd'
    BY <2>1, <2>2 DEF NfdInv, NfdHhd, NfdUdpfm, NfdSynfd, NfdSsd, NfdMarking, Nfd!Host
  <2>4. NfdNapt' /\ NfdSfw' /\ NfdDnsam' /\ v5'.of \in [Nfd!Host -> NfdSource]
    BY <2>1 DEF NfdInv, NfdNapt, NfdSfw, NfdDnsam, Nfd!Host
  <2>5. QED
    BY <2>2, <2>3, <2>4 DEF NfdInv, NfdSource, Nfd!Host
<1>2. CASE \E s \in Nfd!Host, fl \in Nfd!Flags :
              Nfd!HhdHandler(s, fl) \/ Nfd!SsdHandler(s, fl) \/ Nfd!SynfdHandler(s, fl)
  BY <1>2, NfdHhdStep, NfdSsdStep, NfdSynfdStep
<1>3. CASE \E s \in Nfd!Host, u \in {0, 1} : Nfd!UdpfmHandler([Nfd!Tcp(s, {}) EXCEPT !.udp = u])
  BY <1>3, NfdUdpfmStep
<1>4. CASE \E s \in Nfd!Host, d \in Nfd!Host \cup {Nfd!Zero}, sp, dp \in {1, 53} :
              Nfd!DnsamHandler(Nfd!Udp(s, d, sp, dp))
  BY <1>4, NfdDnsamStep
<1>5. CASE \E s \in Nfd!Host, d \in Nfd!Host \cup {Nfd!Base}, sp \in SrcPorts, dp \in 0 .. PortWidth - 1 :
              Nfd!NaptHandler(Nfd!Udp(s, d, sp, dp))
  BY <1>5, NfdNaptStep
<1>6. CASE \E s, d \in Nfd!Host :
              Nfd!SfwHandler(Nfd!Udp(s, d, 1, 1)) \/ Nfd!SlfwHandler(Nfd!Udp(s, d, 1, 1))
  BY <1>6, NfdFirewalls
<1>7. QED
  BY <1>1, <1>2, <1>3, <1>4, <1>5, <1>6 DEF Nfd!Next

LEMMA NfdChecked ==
    ASSUME NfdInv
    PROVE  Nfd!RepliesToFirst /\ Nfd!AnswersOnly /\ Nfd!LimitsHold /\ Nfd!SpreaderCount
<1>1. Nfd!SpreaderCount
  BY DEF NfdInv, NfdSsd, Nfd!SpreaderCount
<1>2. \A s \in Nfd!Host : v5.of[s].passed \in Nat
  BY DEF NfdInv, NfdSource
<1>3. v1 = "HHD" => \A s \in Nfd!Host : v5.of[s].passed <= Threshold + 1
  BY <1>2, NfdAssumption DEF NfdInv, NfdHhd, NfdMarking
<1>4. v1 = "UDPFM" => \A s \in Nfd!Host : v5.of[s].passed <= Threshold
  BY <1>2, NfdAssumption DEF NfdInv, NfdUdpfm, NfdMarking
<1>5. v1 = "SYNFD" => \A s \in Nfd!Host : v5.of[s].passed - v5.of[s].down < Threshold
  BY DEF NfdInv, NfdSynfd
<1>6. QED
  BY <1>1, <1>3, <1>4, <1>5 DEF NfdInv, Nfd!LimitsHold

-----------------------------------------------------------------------------
(* The NFs that choose a port: v1 is the NF, v2 are the ports, v3 is the pc,   *)
(* v4 the tables, v5 the counts of l2fwd and v6 the packets.                 *)

FwdLines(ip) == {i \in DOMAIN v4 : v4[i].ip = ip}
FwdLine(ip)  == CHOOSE i \in FwdLines(ip) : \A j \in FwdLines(ip) : i <= j

FwdSource(port) == IF port < Len(v4) THEN v4[port + 1] ELSE Fwd!Zero

\* What a line of the log says, by the NF that wrote it.
FwdEntry(x) ==
    /\ x.in \in Fwd!Enabled
    /\ v1 = "l2fwd" => x.dest = Fwd!SetDestPorts[x.in]
    /\ v1 = "bridge" => x.dest = IF x.in = 0 THEN 1 ELSE 0
    /\ v1 \in {"l2fwd", "l3fwd"} /\ x.action = "out" =>
          /\ x.dest \in Fwd!Enabled
          /\ x.frame # Fwd!Arrived => /\ x.frame.d = <<"local", x.dest>>
                                      /\ Len(x.frame.s) = 2 /\ x.frame.s[2] = x.dest
    /\ x.action = "reply" =>
          /\ x.sip = x.ip /\ x.dest = x.in /\ x.frame.s = <<"port", x.in>>
          /\ Fwd!Gapless => x.sip = FwdSource(x.in)
    /\ v1 = "router" /\ x.action = "tonf" => x.dest = v4[FwdLine(x.ip)].dest

\* l2fwd counts at a port what it sends by the partner.
FwdCounts ==
    v1 = "l2fwd" =>
        /\ v5 = [rx |-> v5.rx, tx |-> v5.tx]
        /\ v5.rx \in [Fwd!Port -> Nat] /\ v5.tx \in [Fwd!Port -> Nat]
        /\ \A p \in Fwd!Enabled : v5.rx[p] = v5.tx[Fwd!SetDestPorts[p]]

FwdInv ==
    /\ v2 \in IdLists /\ \E S : v6 \in Seq(S)
    /\ v3 # "running" => v6 = <<>>
    /\ v3 = "running" /\ v1 = "l2fwd" =>
          \E mac \in BOOLEAN : v4 = [mac |-> mac, dst |-> Fwd!SetDestPorts]
    /\ \A x \in Fwd!Range(v6) : FwdEntry(x)
    /\ FwdCounts

\* The ports of the list, each at one place.
LEMMA FwdPlaces ==
    ASSUME v2 \in IdLists
    PROVE  /\ v2 \in Seq(Nat) /\ DOMAIN v2 = 1 .. Len(v2) /\ Len(v2) \in Nat
           /\ \A i \in 1 .. Len(v2) : v2[i] \in Fwd!Enabled
           /\ \A p \in Fwd!Enabled : \E i \in 1 .. Len(v2) : v2[i] = p
           /\ \A i, j \in 1 .. Len(v2) : v2[i] = v2[j] => i = j
           /\ Fwd!Enabled \subseteq Fwd!Port
<1>1. v2 \in Seq(Nat) /\ \A i, j \in 1 .. Len(v2) : v2[i] = v2[j] => i = j
  BY PortAssumption
<1>2. DOMAIN v2 = 1 .. Len(v2) /\ Len(v2) \in Nat
  BY <1>1, LenProperties
<1>3. Fwd!Enabled = {v2[i] : i \in DOMAIN v2}
  BY DEF Fwd!Enabled, Fwd!Range
<1>4. Fwd!Enabled \subseteq Fwd!Port
  BY DEF Fwd!Enabled, Fwd!Port
<1>5. QED
  BY <1>1, <1>2, <1>3, <1>4

\* l2fwd_set_dest_ports pairs the ports: what a port sends to sends to it.
LEMMA FwdPairs ==
    ASSUME v2 \in IdLists, NEW p \in Fwd!Enabled
    PROVE  /\ Fwd!SetDestPorts[p] \in Fwd!Enabled
           /\ Fwd!SetDestPorts[Fwd!SetDestPorts[p]] = p
<1> DEFINE at(q) == CHOOSE k \in DOMAIN v2 : v2[k] = q
<1>1. ASSUME NEW i \in 1 .. Len(v2)
      PROVE  Fwd!SetDestPorts[v2[i]]
                = IF i % 2 = 0 THEN v2[i - 1] ELSE IF i < Len(v2) THEN v2[i + 1] ELSE v2[i]
  <2>1. v2[i] \in Fwd!Enabled /\ DOMAIN v2 = 1 .. Len(v2)
    BY FwdPlaces
  <2>2. at(v2[i]) \in 1 .. Len(v2) /\ v2[at(v2[i])] = v2[i]
    BY <2>1
  <2>3. at(v2[i]) = i
    BY <2>2, FwdPlaces
  <2>4. Fwd!SetDestPorts[v2[i]] = LET k == at(v2[i]) IN
            IF k % 2 = 0 THEN v2[k - 1] ELSE IF k < Len(v2) THEN v2[k + 1] ELSE v2[i]
    BY <2>1 DEF Fwd!SetDestPorts
  <2> HIDE DEF at
  <2>5. QED
    BY <2>3, <2>4
<1>2. PICK i \in 1 .. Len(v2) : v2[i] = p
  BY FwdPlaces
<1>3. Len(v2) \in Nat /\ i \in Nat /\ i >= 1 /\ i <= Len(v2)
  BY FwdPlaces
<1>4. CASE i % 2 = 0
  <2>1. i - 1 \in 1 .. Len(v2) /\ (i - 1) % 2 # 0 /\ i - 1 < Len(v2) /\ (i - 1) + 1 = i
    BY <1>3, <1>4
  <2>2. PICK k \in 1 .. Len(v2) : k = i - 1
    BY <2>1
  <2>3. Fwd!SetDestPorts[p] = v2[k] /\ Fwd!SetDestPorts[v2[k]] = v2[k + 1]
    BY <1>1, <1>2, <1>4, <2>1, <2>2
  <2>4. QED
    BY <1>2, <2>1, <2>2, <2>3, FwdPlaces
<1>5. CASE i % 2 # 0 /\ i < Len(v2)
  <2>1. i + 1 \in 1 .. Len(v2) /\ (i + 1) % 2 = 0 /\ (i + 1) - 1 = i
    BY <1>3, <1>5
  <2>2. PICK k \in 1 .. Len(v2) : k = i + 1
    BY <2>1
  <2>3. Fwd!SetDestPorts[p] = v2[k] /\ Fwd!SetDestPorts[v2[k]] = v2[k - 1]
    BY <1>1, <1>2, <1>5, <2>1, <2>2
  <2>4. QED
    BY <1>2, <2>1, <2>2, <2>3, FwdPlaces
<1>6. CASE i % 2 # 0 /\ ~(i < Len(v2))
  BY <1>1, <1>2, <1>6
<1>7. QED
  BY <1>4, <1>5, <1>6

\* What depends on the ports and the tables alone.
LEMMA FwdSame ==
    ASSUME v1' = v1, v2' = v2, v4' = v4
    PROVE  /\ Fwd!Enabled' = Fwd!Enabled /\ Fwd!SetDestPorts' = Fwd!SetDestPorts
           /\ \A x : FwdEntry(x)' = FwdEntry(x)
<1>1. Fwd!Enabled' = Fwd!Enabled
  BY DEF Fwd!Enabled
<1>2. Fwd!SetDestPorts' = Fwd!SetDestPorts
  BY <1>1 DEF Fwd!SetDestPorts
<1>3. Fwd!Gapless' = Fwd!Gapless
  BY DEF Fwd!Gapless
<1>4. ASSUME NEW x PROVE FwdLine(x.ip)' = FwdLine(x.ip) /\ FwdSource(x.in)' = FwdSource(x.in)
  BY DEF FwdLine, FwdLines, FwdSource
<1>5. QED
  BY <1>1, <1>2, <1>3, <1>4 DEF FwdEntry

\* A packet adds a line.
LEMMA FwdLogged ==
    ASSUME FwdInv, v3 = "running", v1' = v1, v2' = v2, v3' = v3, v4' = v4,
           NEW x, FwdEntry(x), v6' = Append(v6, x), FwdCounts'
    PROVE  FwdInv'
<1>1. PICK S : v6 \in Seq(S)
  BY DEF FwdInv
<1>2. PICK T : T = S \cup {x}
  OBVIOUS
<1>3. v6 \in Seq(T) /\ x \in T
  BY <1>1, <1>2
<1>4. /\ v6' \in Seq(T) /\ Len(v6') = Len(v6) + 1 /\ v6'[Len(v6) + 1] = x
      /\ \A i \in 1 .. Len(v6) : v6'[i] = v6[i]
  BY <1>3, AppendProperties
<1>5. Len(v6) \in Nat /\ DOMAIN v6 = 1 .. Len(v6) /\ DOMAIN v6' = 1 .. Len(v6) + 1
  BY <1>3, <1>4, LenProperties
<1>6. ASSUME NEW y \in Fwd!Range(v6') PROVE FwdEntry(y)'
  <2>1. PICK i \in DOMAIN v6' : v6'[i] = y
    BY DEF Fwd!Range
  <2>2. i \in 1 .. Len(v6) \/ i = Len(v6) + 1
    BY <1>5, <2>1
  <2>3. y \in Fwd!Range(v6) \/ y = x
    BY <1>4, <1>5, <2>1, <2>2 DEF Fwd!Range
  <2>4. FwdEntry(y)
    BY <2>3 DEF FwdInv
  <2>5. QED
    BY <2>4, FwdSame
<1>7. v1 = "l2fwd" => \E mac \in BOOLEAN : v4' = [mac |-> mac, dst |-> Fwd!SetDestPorts']
  BY FwdSame DEF FwdInv
<1>8. v2' \in IdLists /\ \E U : v6' \in Seq(U)
  BY <1>4 DEF FwdInv
<1>9. QED
  BY <1>6, <1>7, <1>8 DEF FwdInv

\* What a line of the log is.
LEMMA FwdDone ==
    ASSUME NEW p, NEW action, NEW dest, NEW frame, NEW sip, Fwd!Done(p, action, dest, frame, sip)
    PROVE  \E x : /\ v6' = Append(v6, x) /\ x.in = p.port /\ x.ip = p.ip /\ x.action = action
                  /\ x.dest = dest /\ x.frame = frame /\ x.sip = sip
<1>1. PICK x : x = [in |-> p.port, type |-> p.type, ip |-> p.ip, action |-> action,
                    dest |-> dest, frame |-> frame, sip |-> sip]
  OBVIOUS
<1>2. v6' = Append(v6, x)
  BY <1>1 DEF Fwd!Done
<1>3. QED
  BY <1>1, <1>2

LEMMA FwdCountsStay ==
    ASSUME FwdInv, v1' = v1, v2' = v2, v5' = v5 PROVE FwdCounts'
<1>1. Fwd!Enabled' = Fwd!Enabled
  BY DEF Fwd!Enabled
<1>2. Fwd!SetDestPorts' = Fwd!SetDestPorts
  BY <1>1 DEF Fwd!SetDestPorts
<1>3. QED
  BY <1>1, <1>2 DEF FwdInv, FwdCounts, Fwd!Port

LEMMA FwdL2 ==
    ASSUME FwdInv, NEW p, p.port \in Fwd!Enabled, v3 = "running", Fwd!L2Packet(p),
           v1' = v1, v2' = v2, v3' = v3, v4' = v4
    PROVE  FwdInv'
<1>1. v2 \in IdLists /\ v1 = "l2fwd"
  BY DEF FwdInv, Fwd!L2Packet
<1>2. PICK mac \in BOOLEAN : v4 = [mac |-> mac, dst |-> Fwd!SetDestPorts]
  BY <1>1 DEF FwdInv
<1>3. PICK q : q = Fwd!SetDestPorts[p.port] /\ q \in Fwd!Enabled /\ Fwd!SetDestPorts[q] = p.port
  BY <1>1, FwdPairs
<1>4. v4.dst[p.port] = q /\ v4.mac = mac
  BY <1>2, <1>3
<1>5. PICK x : /\ v6' = Append(v6, x) /\ x.in = p.port /\ x.action = "out" /\ x.dest = q
               /\ x.frame = Fwd!L2Header(Fwd!Arrived, q)
  BY <1>4, FwdDone DEF Fwd!L2Packet, Fwd!Out
<1>6. \/ x.frame = Fwd!Arrived
      \/ x.frame = [d |-> <<"local", q>>, s |-> <<"local", q>>]
  BY <1>3, <1>4, <1>5 DEF Fwd!L2Header, Fwd!CopyS, Fwd!StoreD, Fwd!Local
<1>7. FwdEntry(x)
  <2>1. x.frame # Fwd!Arrived => /\ x.frame.d = <<"local", x.dest>>
                                 /\ Len(x.frame.s) = 2 /\ x.frame.s[2] = x.dest
    BY <1>5, <1>6
  <2>2. x.action # "reply" /\ x.action # "tonf"
    BY <1>5
  <2>3. QED
    BY <1>1, <1>3, <1>5, <2>1, <2>2 DEF FwdEntry
<1>8. FwdCounts'
  <2>1. PICK r \in [Fwd!Port -> Nat], t \in [Fwd!Port -> Nat] :
           /\ v5 = [rx |-> r, tx |-> t]
           /\ \A y \in Fwd!Enabled : r[y] = t[Fwd!SetDestPorts[y]]
    BY <1>1 DEF FwdInv, FwdCounts
  <2>2. p.port \in Fwd!Port /\ q \in Fwd!Port
    BY <1>1, <1>3, FwdPlaces
  <2>3. v5.rx = r /\ v5.tx = t
    BY <2>1
  <2>4. v5' = [rx |-> [r EXCEPT ![p.port] = @ + 1], tx |-> [t EXCEPT ![q] = @ + 1]]
    BY <1>4, <2>3 DEF Fwd!L2Packet
  <2>5. PICK u \in [Fwd!Port -> Nat] : u = [r EXCEPT ![p.port] = @ + 1]
    <3>1. [r EXCEPT ![p.port] = @ + 1] \in [Fwd!Port -> Nat]
      BY <2>2
    <3>2. QED
      BY <3>1, Zenon
  <2>6. PICK w \in [Fwd!Port -> Nat] : w = [t EXCEPT ![q] = @ + 1]
    <3>1. [t EXCEPT ![q] = @ + 1] \in [Fwd!Port -> Nat]
      BY <2>2
    <3>2. QED
      BY <3>1, Zenon
  <2>7. ASSUME NEW y \in Fwd!Enabled PROVE u[y] = w[Fwd!SetDestPorts[y]]
    <3>1. /\ Fwd!SetDestPorts[y] \in Fwd!Enabled /\ Fwd!SetDestPorts[Fwd!SetDestPorts[y]] = y
          /\ Fwd!SetDestPorts[y] \in Fwd!Port /\ y \in Fwd!Port
      BY <1>1, FwdPairs, FwdPlaces
    <3>2. CASE y = p.port
      BY <1>3, <2>1, <2>2, <2>5, <2>6, <3>2
    <3>3. CASE y # p.port
      <4>1. Fwd!SetDestPorts[y] # q
        BY <1>3, <3>1, <3>3
      <4>2. QED
        BY <2>1, <2>5, <2>6, <3>1, <3>3, <4>1
    <3>4. QED
      BY <3>2, <3>3
  <2>8. v5' = [rx |-> u, tx |-> w] /\ v5'.rx = u /\ v5'.tx = w
    BY <2>4, <2>5, <2>6
  <2>9. Fwd!Enabled' = Fwd!Enabled /\ Fwd!SetDestPorts' = Fwd!SetDestPorts
    BY FwdSame
  <2>10. QED
    BY <2>7, <2>8, <2>9 DEF FwdCounts, Fwd!Port
<1>9. QED
  BY <1>5, <1>7, <1>8, FwdLogged

LEMMA FwdL3 ==
    ASSUME FwdInv, NEW p, p.port \in Fwd!Enabled, v3 = "running", Fwd!L3Packet(p),
           v1' = v1, v2' = v2, v3' = v3, v4' = v4
    PROVE  FwdInv'
<1>1. v1 = "l3fwd" /\ v5' = v5
  BY DEF Fwd!L3Packet
<1>2. FwdCounts'
  BY <1>1, FwdCountsStay
<1> DEFINE found == IF v4.lpm THEN Fwd!LpmGet(p) ELSE Fwd!EmGet(p)
           dst   == IF Fwd!GetInitializedPorts(found) THEN found ELSE p.port
<1>3. dst \in Fwd!Enabled
  BY DEF Fwd!GetInitializedPorts
<1>4. IF p.type = "ipv4" THEN Fwd!Out(p, dst, Fwd!L3Header(Fwd!Arrived, dst)) ELSE Fwd!Drop(p)
  BY DEF Fwd!L3Packet
<1> HIDE DEF dst
<1>5. CASE p.type = "ipv4"
  <2>1. PICK x : /\ v6' = Append(v6, x) /\ x.in = p.port /\ x.action = "out" /\ x.dest = dst
                 /\ x.frame = Fwd!L3Header(Fwd!Arrived, dst)
    BY <1>4, <1>5, FwdDone DEF Fwd!Out
  <2>2. x.frame = [d |-> <<"local", dst>>, s |-> <<"port", dst>>]
    BY <1>3, <2>1 DEF Fwd!L3Header, Fwd!CopyS, Fwd!StoreD, Fwd!Local, Fwd!Mac
  <2>3. x.frame.d = <<"local", x.dest>> /\ Len(x.frame.s) = 2 /\ x.frame.s[2] = x.dest
    BY <2>1, <2>2
  <2>4. FwdEntry(x)
    BY <1>1, <1>3, <2>1, <2>3 DEF FwdEntry
  <2>5. QED
    BY <1>2, <2>1, <2>4, FwdLogged
<1>6. CASE p.type # "ipv4"
  <2>1. PICK x : v6' = Append(v6, x) /\ x.in = p.port /\ x.action = "drop"
    BY <1>4, <1>6, FwdDone DEF Fwd!Drop
  <2>2. FwdEntry(x)
    BY <1>1, <2>1 DEF FwdEntry
  <2>3. QED
    BY <1>2, <2>1, <2>2, FwdLogged
<1>7. QED
  BY <1>5, <1>6

LEMMA FwdBridge ==
    ASSUME FwdInv, NEW p, p.port \in Fwd!Enabled, v3 = "running", Fwd!BridgePacket(p),
           v1' = v1, v2' = v2, v3' = v3, v4' = v4
    PROVE  FwdInv'
<1>1. v1 = "bridge" /\ v5' = v5
  BY DEF Fwd!BridgePacket
<1>2. FwdCounts'
  BY <1>1, FwdCountsStay
<1>3. PICK x : /\ v6' = Append(v6, x) /\ x.in = p.port /\ x.action = "out"
               /\ x.dest = IF p.port = 0 THEN 1 ELSE 0
  BY FwdDone DEF Fwd!BridgePacket, Fwd!Out
<1>4. FwdEntry(x)
  BY <1>1, <1>3 DEF FwdEntry
<1>5. QED
  BY <1>2, <1>3, <1>4, FwdLogged

LEMMA FwdArp ==
    ASSUME FwdInv, NEW p, p.port \in Fwd!Enabled, v3 = "running", Fwd!ArpPacket(p),
           v1' = v1, v2' = v2, v3' = v3, v4' = v4
    PROVE  FwdInv'
<1>1. v1 = "arp" /\ v5' = v5 /\ v2 \in IdLists
  BY DEF Fwd!ArpPacket, FwdInv
<1>2. FwdCounts'
  BY <1>1, FwdCountsStay
<1>3. CASE Fwd!Drop(p) \/ Fwd!ToNf(p, 0)
  <2>1. PICK x : v6' = Append(v6, x) /\ x.in = p.port /\ x.action \in {"drop", "tonf"}
    BY <1>3, FwdDone DEF Fwd!Drop, Fwd!ToNf
  <2>2. FwdEntry(x)
    BY <1>1, <2>1 DEF FwdEntry
  <2>3. QED
    BY <1>2, <2>1, <2>2, FwdLogged
<1>4. CASE /\ p.ip = Fwd!SourceIp(p.port)
           /\ Fwd!Done(p, "reply", p.port, [d |-> Fwd!Arrived.s, s |-> Fwd!Mac(p.port)], Fwd!SourceIp(p.port))
  <2>1. PICK x : /\ v6' = Append(v6, x) /\ x.in = p.port /\ x.ip = p.ip /\ x.action = "reply"
                 /\ x.dest = p.port /\ x.frame = [d |-> Fwd!Arrived.s, s |-> Fwd!Mac(p.port)]
                 /\ x.sip = Fwd!SourceIp(p.port)
    BY <1>4, FwdDone
  <2>2. x.frame.s = <<"port", x.in>>
    BY <2>1 DEF Fwd!Mac
  <2>3. ASSUME Fwd!Gapless PROVE Fwd!SourceIp(p.port) = FwdSource(p.port)
    <3>1. PICK i \in 1 .. Len(v2) : v2[i] = p.port
      BY <1>1, FwdPlaces
    <3>2. v2[i] = i - 1 /\ Len(v2) \in Nat
      BY <1>1, <2>3, FwdPlaces DEF Fwd!Gapless
    <3>3. p.port < Len(v2) /\ v2[p.port + 1] = p.port
      BY <3>1, <3>2
    <3>4. QED
      BY <3>3 DEF Fwd!SourceIp, FwdSource
  <2>4. FwdEntry(x)
    BY <1>1, <1>4, <2>1, <2>2, <2>3 DEF FwdEntry
  <2>5. QED
    BY <1>2, <2>1, <2>4, FwdLogged
<1>5. QED
  BY <1>3, <1>4 DEF Fwd!ArpPacket

LEMMA FwdRouter ==
    ASSUME FwdInv, NEW p, p.port \in Fwd!Enabled, v3 = "running", Fwd!RouterPacket(p),
           v1' = v1, v2' = v2, v3' = v3, v4' = v4
    PROVE  FwdInv'
<1>1. v1 = "router" /\ v5' = v5
  BY DEF Fwd!RouterPacket
<1>2. FwdCounts'
  BY <1>1, FwdCountsStay
<1>3. CASE Fwd!Drop(p)
  <2>1. PICK x : v6' = Append(v6, x) /\ x.in = p.port /\ x.action = "drop"
    BY <1>3, FwdDone DEF Fwd!Drop
  <2>2. FwdEntry(x)
    BY <1>1, <2>1 DEF FwdEntry
  <2>3. QED
    BY <1>2, <2>1, <2>2, FwdLogged
<1>4. CASE Fwd!ToNf(p, v4[FwdLine(p.ip)].dest)
  <2>1. PICK x : /\ v6' = Append(v6, x) /\ x.in = p.port /\ x.ip = p.ip /\ x.action = "tonf"
                 /\ x.dest = v4[FwdLine(p.ip)].dest
    BY <1>4, FwdDone DEF Fwd!ToNf
  <2>2. FwdEntry(x)
    BY <1>1, <2>1 DEF FwdEntry
  <2>3. QED
    BY <1>2, <2>1, <2>2, FwdLogged
<1>5. Fwd!Lines(p) = FwdLines(p.ip)
  BY DEF Fwd!Lines, FwdLines
<1>6. Fwd!IpLine(p) = FwdLine(p.ip) /\ Fwd!ArpLine(p) = FwdLine(p.ip)
  BY <1>5 DEF Fwd!IpLine, Fwd!ArpLine, FwdLine
<1>7. QED
  BY <1>3, <1>4, <1>6 DEF Fwd!RouterPacket

LEMMA FwdInit ==
    ASSUME Fwd!Init PROVE FwdInv
<1>1. v2 \in IdLists /\ v3 = "start" /\ v6 = <<>> /\ v5 = Fwd!NoStat
  BY DEF Fwd!Init
<1>2. v6 \in Seq({}) /\ Fwd!Range(v6) = {}
  BY <1>1 DEF Fwd!Range
<1>3. FwdCounts
  <2>1. /\ v5 = [rx |-> v5.rx, tx |-> v5.tx]
        /\ v5.rx = [p \in Fwd!Port |-> 0] /\ v5.tx = [p \in Fwd!Port |-> 0]
    BY <1>1 DEF Fwd!NoStat
  <2>2. ASSUME NEW p \in Fwd!Enabled PROVE v5.rx[p] = v5.tx[Fwd!SetDestPorts[p]]
    <3>1. p \in Fwd!Port /\ Fwd!SetDestPorts[p] \in Fwd!Port
      BY <1>1, FwdPlaces, FwdPairs
    <3>2. QED
      BY <2>1, <3>1
  <2>3. QED
    BY <2>1, <2>2 DEF FwdCounts
<1>4. QED
  BY <1>1, <1>2, <1>3 DEF FwdInv

\* An NF sets its tables up before it has handled a packet, or stops.
LEMMA FwdStarts ==
    ASSUME FwdInv, v3 = "start", v1' = v1, v2' = v2, v5' = v5, v6' = v6,
           v3' = "running" /\ v1 = "l2fwd" =>
              \E mac \in BOOLEAN : v4' = [mac |-> mac, dst |-> Fwd!SetDestPorts]
    PROVE  FwdInv'
<1>1. v6' = <<>> /\ v6' \in Seq({}) /\ Fwd!Range(v6)' = {}
  BY DEF FwdInv, Fwd!Range
<1>2. FwdCounts'
  BY FwdCountsStay
<1>3. Fwd!SetDestPorts' = Fwd!SetDestPorts
  <2>1. Fwd!Enabled' = Fwd!Enabled
    BY DEF Fwd!Enabled
  <2>2. QED
    BY <2>1 DEF Fwd!SetDestPorts
<1>4. QED
  BY <1>1, <1>2, <1>3 DEF FwdInv

LEMMA FwdStep ==
    ASSUME FwdInv, [Fwd!Next]_(Fwd!vars) PROVE FwdInv'
<1>1. CASE UNCHANGED Fwd!vars
  <2>1. v1' = v1 /\ v2' = v2 /\ v3' = v3 /\ v4' = v4 /\ v5' = v5 /\ v6' = v6
    BY <1>1 DEF Fwd!vars
  <2>2. FwdCounts' /\ Fwd!SetDestPorts' = Fwd!SetDestPorts
    BY <2>1, FwdSame, FwdCountsStay
  <2>3. \A x \in Fwd!Range(v6)' : FwdEntry(x)'
    BY <2>1, FwdSame DEF FwdInv, Fwd!Range
  <2>4. QED
    BY <2>1, <2>2, <2>3 DEF FwdInv
<1>2. CASE \/ Fwd!BadOption \/ Fwd!L2Start \/ Fwd!L3Start \/ Fwd!BridgeStart
           \/ Fwd!ArpStart \/ Fwd!RouterStart
  <2>1. /\ v3 = "start" /\ v1' = v1 /\ v2' = v2 /\ v5' = v5 /\ v6' = v6
    BY <1>2 DEF Fwd!BadOption, Fwd!L2Start, Fwd!L3Start, Fwd!BridgeStart, Fwd!ArpStart,
                Fwd!RouterStart, Fwd!Start, Fwd!Leave
  <2>2. v3' = "running" /\ v1 = "l2fwd" =>
           \E mac \in BOOLEAN : v4' = [mac |-> mac, dst |-> Fwd!SetDestPorts]
    BY <1>2 DEF Fwd!BadOption, Fwd!L2Start, Fwd!L3Start, Fwd!BridgeStart, Fwd!ArpStart,
                Fwd!RouterStart, Fwd!Start, Fwd!Leave
  <2>3. QED
    BY <2>1, <2>2, FwdStarts
<1>3. CASE \E port \in Fwd!Enabled, type \in {"ipv4", "request", "reply", "other"},
              ip \in Ips \cup {Fwd!Zero} : Fwd!Packet([port |-> port, type |-> type, ip |-> ip])
  <2>1. PICK p : p.port \in Fwd!Enabled /\ Fwd!Packet(p)
    BY <1>3
  <2>2. v3 = "running" /\ v1' = v1 /\ v2' = v2 /\ v3' = v3 /\ v4' = v4
    BY <2>1 DEF Fwd!Packet
  <2>3. \/ Fwd!L2Packet(p) \/ Fwd!L3Packet(p) \/ Fwd!BridgePacket(p) \/ Fwd!ArpPacket(p)
        \/ Fwd!RouterPacket(p)
    BY <2>1 DEF Fwd!Packet
  <2>4. QED
    BY <2>1, <2>2, <2>3, FwdL2, FwdL3, FwdBridge, FwdArp, FwdRouter
<1>4. QED
  BY <1>1, <1>2, <1>3 DEF Fwd!Next

LEMMA FwdChecked ==
    ASSUME FwdInv
    PROVE  Fwd!PairsBack /\ Fwd!HeaderOfTheWayOut /\ Fwd!RepliesOwn /\ Fwd!ArpFollowsTraffic
<1>1. Fwd!HeaderOfTheWayOut
  BY DEF FwdInv, FwdEntry, Fwd!HeaderOfTheWayOut
<1>2. Fwd!RepliesOwn
  BY DEF FwdInv, FwdEntry, FwdSource, Fwd!RepliesOwn
<1>3. Fwd!ArpFollowsTraffic
  BY DEF FwdInv, FwdEntry, Fwd!ArpFollowsTraffic
<1>4. ASSUME NEW i \in DOMAIN v6 PROVE FwdEntry(v6[i])
  BY DEF FwdInv, Fwd!Range
<1>5. ASSUME v1 = "l2fwd", NEW i \in DOMAIN v6, NEW j \in DOMAIN v6, v6[j].in = v6[i].dest
      PROVE  v6[j].dest = v6[i].in
  <2>1. /\ v6[i].in \in Fwd!Enabled /\ v6[i].dest = Fwd!SetDestPorts[v6[i].in]
        /\ v6[j].dest = Fwd!SetDestPorts[v6[j].in]
    BY <1>4, <1>5 DEF FwdEntry
  <2>2. QED
    BY <1>5, <2>1, FwdPairs DEF FwdInv
<1>6. ASSUME v1 = "bridge", v2 = <<0, 1>>, NEW i \in DOMAIN v6, NEW j \in DOMAIN v6,
             v6[j].in = v6[i].dest
      PROVE  v6[j].dest = v6[i].in
  <2>1. /\ v6[i].in \in Fwd!Enabled /\ v6[i].dest = (IF v6[i].in = 0 THEN 1 ELSE 0)
        /\ v6[j].dest = (IF v6[j].in = 0 THEN 1 ELSE 0)
    BY <1>4, <1>6 DEF FwdEntry
  <2>2. v6[i].in \in {0, 1}
    <3>1. Fwd!Enabled \subseteq {0, 1}
      BY <1>6 DEF Fwd!Enabled, Fwd!Range
    <3>2. QED
      BY <2>1, <3>1
  <2>3. QED
    BY <1>6, <2>1, <2>2
<1>7. v1 = "l2fwd" /\ v3 = "running" => \A p \in Fwd!Enabled : v5.rx[p] = v5.tx[v4.dst[p]]
  BY DEF FwdInv, FwdCounts
<1>8. Fwd!PairsBack
  BY <1>5, <1>6, <1>7 DEF Fwd!PairsBack
<1>9. QED
  BY <1>1, <1>2, <1>3, <1>8

-----------------------------------------------------------------------------
(* Token bucket *)

Sent == [at : Nat, len : Nat]

\* The sum of the lengths at the positions D of a history, that of all of them, and that
\* of the packets forwarded at time t.
LenSum(s, D) == Tb!MapThenSumSet(LAMBDA i : s[i].len, D)
All(s) == LenSum(s, DOMAIN s)
PlacesAt(s, t) == {i \in DOMAIN s : s[i].at = t}
At(s, t) == LenSum(s, PlacesAt(s, t))
Lens(s) == [i \in DOMAIN s |-> s[i].len]

\* The sum of the lengths is that of SumProofs.
LEMMA LenSumIs ==
    ASSUME NEW s, NEW D \in SUBSET DOMAIN s
    PROVE  LenSum(s, D) = SumOver(D, Lens(s))
<1> DEFINE Direct(g) == g = [d \in SUBSET D |-> IF d = {} THEN 0
                                ELSE s[Chosen(d)].len + g[d \ {Chosen(d)}]]
<1>1. ASSUME NEW d \in SUBSET D, d # {} PROVE s[Chosen(d)].len = Lens(s)[Chosen(d)]
  BY <1>1 DEF Chosen, Lens
<1>2. \A g : Direct(g) <=> Sums(SUBSET D, Lens(s), g)
  <2>1. ASSUME NEW g PROVE Direct(g) <=> Sums(SUBSET D, Lens(s), g)
    <3>1. [d \in SUBSET D |-> IF d = {} THEN 0 ELSE s[Chosen(d)].len + g[d \ {Chosen(d)}]]
          = [d \in SUBSET D |-> IF d = {} THEN 0 ELSE Lens(s)[Chosen(d)] + g[d \ {Chosen(d)}]]
      BY <1>1
    <3>2. QED
      BY <3>1 DEF Sums
  <2>2. QED
    BY <2>1
<1>3. (CHOOSE g : Direct(g)) = (CHOOSE g : Sums(SUBSET D, Lens(s), g))
  <2> HIDE DEF Direct
  <2>1. QED
    BY <1>2
<1>4. LenSum(s, D) = (CHOOSE g : Direct(g))[D]
  BY DEF LenSum, Tb!MapThenSumSet, Tb!MapThenFoldSet, Chosen
<1>5. QED
  <2> HIDE DEF Direct
  <2>1. QED
    BY <1>3, <1>4 DEF SumOver, Partial

\* The lengths of a history and their sums.
LEMMA LensType ==
    ASSUME NEW s \in Seq(Sent), NEW D \in SUBSET DOMAIN s
    PROVE  /\ IsFiniteSet(D) /\ LenSum(s, D) \in Int
           /\ \A i \in D : Lens(s)[i] = s[i].len /\ Lens(s)[i] \in Int
<1>1. DOMAIN s = 1 .. Len(s) /\ Len(s) \in Nat /\ \A i \in DOMAIN s : s[i].len \in Nat
  <2>1. DOMAIN s = 1 .. Len(s) /\ Len(s) \in Nat
    OBVIOUS
  <2>2. \A i \in 1 .. Len(s) : s[i] \in Sent
    OBVIOUS
  <2>3. QED
    BY <2>1, <2>2 DEF Sent
<1>2. IsFiniteSet(D)
  <2>1. IsFiniteSet(1 .. Len(s))
    BY <1>1, FS_Interval
  <2>2. QED
    BY <1>1, <2>1, FS_Subset
<1>3. \A i \in D : Lens(s)[i] = s[i].len /\ Lens(s)[i] \in Int
  BY <1>1 DEF Lens
<1>4. SumOver(D, Lens(s)) \in Int
  BY <1>2, <1>3, SumType
<1>5. QED
  BY <1>2, <1>3, <1>4, LenSumIs

\* Sums over the places that are not the last one.
LEMMA LenSumAppend ==
    ASSUME NEW s \in Seq(Sent), NEW r \in Sent, NEW D \in SUBSET DOMAIN s
    PROVE  /\ LenSum(Append(s, r), D) = LenSum(s, D)
           /\ LenSum(Append(s, r), D \cup {Len(s) + 1}) = LenSum(s, D) + r.len
<1>1. PICK e : e = Append(s, r)
  OBVIOUS
<1>2. PICK n \in Nat : n = Len(s) + 1
  OBVIOUS
<1>3. /\ e \in Seq(Sent) /\ e[n] = r /\ DOMAIN s = 1 .. (n - 1) /\ DOMAIN e = 1 .. n
      /\ \A i \in DOMAIN s : e[i] = s[i]
  BY <1>1, <1>2
<1>4. /\ D \in SUBSET DOMAIN e /\ D \cup {n} \in SUBSET DOMAIN e /\ n \notin D
  BY <1>2, <1>3
<1>5. IsFiniteSet(D) /\ \A i \in D : Lens(s)[i] = s[i].len /\ Lens(s)[i] \in Int
  BY LensType
<1>6. \A i \in D \cup {n} : Lens(e)[i] = e[i].len /\ Lens(e)[i] \in Int
  BY <1>3, <1>4, LensType
<1>7. SumOver(D, Lens(e)) = SumOver(D, Lens(s))
  <2>1. \A i \in D : Lens(e)[i] = Lens(s)[i]
    BY <1>3, <1>5, <1>6
  <2>2. QED
    BY <1>5, <2>1, SumSame
<1>8. SumOver(D \cup {n}, Lens(e)) = SumOver(D, Lens(e)) + Lens(e)[n]
  BY <1>4, <1>5, <1>6, SumAdded
<1>9. Lens(e)[n] = r.len
  BY <1>3, <1>6
<1>10. LenSum(s, D) = SumOver(D, Lens(s)) /\ LenSum(e, D) = SumOver(D, Lens(e))
  BY <1>4, LenSumIs
<1>11. LenSum(e, D \cup {n}) = SumOver(D \cup {n}, Lens(e))
  BY <1>4, LenSumIs
<1>12. LenSum(e, D) = LenSum(s, D) /\ LenSum(e, D \cup {n}) = LenSum(s, D) + r.len
  BY <1>7, <1>8, <1>9, <1>10, <1>11
<1>13. QED
  BY <1>1, <1>2, <1>12

\* One more packet.
LEMMA AppendSums ==
    ASSUME NEW s \in Seq(Sent), NEW r \in Sent
    PROVE  /\ All(s) \in Int /\ All(Append(s, r)) = All(s) + r.len
           /\ \A t : /\ At(s, t) \in Int
                     /\ At(Append(s, r), t) = At(s, t) + (IF r.at = t THEN r.len ELSE 0)
<1>1. PICK e : e = Append(s, r)
  OBVIOUS
<1>2. PICK n \in Nat : n = Len(s) + 1
  OBVIOUS
<1>3. /\ e[n] = r /\ DOMAIN s = 1 .. (n - 1) /\ DOMAIN e = DOMAIN s \cup {n} /\ n \notin DOMAIN s
      /\ \A i \in DOMAIN s : e[i] = s[i]
  BY <1>1, <1>2
<1>4. All(s) \in Int /\ All(e) = All(s) + r.len
  <2>1. DOMAIN s \in SUBSET DOMAIN s
    OBVIOUS
  <2>2. LenSum(s, DOMAIN s) \in Int
    BY <2>1, LensType
  <2>3. LenSum(e, DOMAIN s \cup {n}) = LenSum(s, DOMAIN s) + r.len
    BY <1>1, <1>2, <2>1, LenSumAppend
  <2>4. QED
    BY <1>3, <2>2, <2>3 DEF All
<1>5. ASSUME NEW t
      PROVE  At(s, t) \in Int /\ At(e, t) = At(s, t) + (IF r.at = t THEN r.len ELSE 0)
  <2>1. PICK D \in SUBSET DOMAIN s : D = PlacesAt(s, t)
    BY DEF PlacesAt
  <2>2. PlacesAt(e, t) = IF r.at = t THEN D \cup {n} ELSE D
    BY <1>3, <2>1 DEF PlacesAt
  <2>3. LenSum(s, D) \in Int
    BY <2>1, LensType
  <2>4. LenSum(e, D) = LenSum(s, D) /\ LenSum(e, D \cup {n}) = LenSum(s, D) + r.len
    BY <1>1, <1>2, <2>1, LenSumAppend
  <2>5. QED
    BY <2>1, <2>2, <2>3, <2>4 DEF At
<1>6. QED
  BY <1>1, <1>4, <1>5

\* Nothing is forwarded at a time that has not come.
LEMMA NothingAt ==
    ASSUME NEW s \in Seq(Sent), NEW t, \A i \in DOMAIN s : s[i].at # t
    PROVE  At(s, t) = 0
<1>1. PlacesAt(s, t) = {}
  BY DEF PlacesAt
<1>2. SumOver({}, Lens(s)) = 0
  BY FS_EmptySet, SumZero
<1>3. QED
  BY <1>1, <1>2, LenSumIs DEF At

\* The clock of the bucket and the last time tokens were made, what there is of tokens and of
\* packets to forward, and the history.
TbTypes ==
    /\ v1 \in Nat /\ v3 \in 0 .. v1 /\ v2 \in 0 .. Depth /\ v5 \in 0 .. Depth
    /\ v7 \in Seq(Sent) /\ \A i \in DOMAIN v7 : v7[i].at <= v1

\* What was forwarded and what is left was made by the time tokens were last made.
TbRate == (All(v7) + v2) * Hz <= Depth * Hz + Rate * v3

\* No time had more than two buckets; the present one has what is left as well, and is good for
\* one bucket until tokens are made in it.
TbBurst ==
    /\ \A t \in Nat : At(v7, t) <= 2 * Depth
    /\ At(v7, v1) + v2 <= 2 * Depth
    /\ v3 # v1 => At(v7, v1) + v2 <= Depth

TbInv == TbTypes /\ TbRate /\ TbBurst

LEMMA TbInit == Tb!Init => TbInv
<1>1. SUFFICES ASSUME Tb!Init PROVE TbInv
  OBVIOUS
<1>2. Depth \in Nat /\ Hz \in Nat /\ Rate \in Nat
  BY BucketAssumption
<1>3. /\ v1 = 0 /\ v2 = Depth /\ v3 = 0 /\ v5 = 0 /\ v7 = <<>>
  BY <1>1 DEF Tb!Init
<1>4. v7 \in Seq(Sent) /\ DOMAIN v7 = {}
  BY <1>3
<1>5. All(v7) = 0
  <2>1. SumOver({}, Lens(v7)) = 0
    BY FS_EmptySet, SumZero
  <2>2. QED
    BY <1>4, <2>1, LenSumIs DEF All
<1>6. \A t : At(v7, t) = 0
  BY <1>4, NothingAt
<1>7. TbTypes
  BY <1>2, <1>3, <1>4 DEF TbTypes
<1>8. TbRate
  BY <1>2, <1>3, <1>5 DEF TbRate
<1>9. TbBurst
  BY <1>2, <1>3, <1>6 DEF TbBurst
<1>10. QED
  BY <1>7, <1>8, <1>9 DEF TbInv

\* The product of the times is no more than it would be without the wrap, and none at once.
LEMMA ProducedBound ==
    ASSUME TbTypes
    PROVE  /\ Tb!Produced \in Nat
           /\ Tb!Produced * Hz <= (v1 - v3) * Rate
           /\ v3 = v1 => Tb!Produced = 0
<1>1. PICK d \in Nat : d = v1 - v3
  BY DEF TbTypes
<1>2. Rate \in Nat /\ Hz \in Nat \ {0} /\ CycleWidth \in Nat \ {0}
  BY BucketAssumption
<1>3. PICK m \in Nat : m = d * Rate /\ (d = 0 => m = 0)
  BY <1>1, <1>2
<1>4. PICK w \in Nat : w = m % CycleWidth /\ w <= m
  BY <1>2, <1>3
<1>5. PICK p \in Nat : p = w \div Hz /\ p * Hz <= w /\ (w = 0 => p = 0)
  BY <1>2, <1>4
<1>6. Tb!Produced = p
  BY <1>1, <1>3, <1>4, <1>5 DEF Tb!Produced
<1>7. p * Hz \in Int
  BY <1>2, <1>5
<1>8. p * Hz <= m
  BY <1>4, <1>5, <1>7
<1>9. v3 = v1 => p = 0
  <2>1. SUFFICES ASSUME v3 = v1 PROVE p = 0
    OBVIOUS
  <2>2. d = 0
    BY <1>1, <2>1 DEF TbTypes
  <2>3. m = 0
    BY <1>3, <2>2
  <2>4. w = 0
    BY <1>4, <2>3
  <2>5. QED
    BY <1>5, <2>4
<1>10. QED
  BY <1>1, <1>3, <1>6, <1>8, <1>9

\* A packet is forwarded out of the tokens there are, some of them made at this moment.
LEMMA ForwardKeeps ==
    ASSUME TbInv, NEW len \in 0 .. Depth, NEW rest \in 0 .. Depth, len <= rest,
           Tb!Forward(len, rest), v1' = v1, v3' \in {v3, v1},
           v3' = v3 => rest = v2,
           (rest - v2) * Hz <= (v3' - v3) * Rate
    PROVE  TbInv'
<1>1. /\ Depth \in Nat /\ Hz \in Nat /\ Rate \in Nat /\ v1 \in Nat /\ v3 \in Nat /\ v3' \in Nat
      /\ v3 <= v1 /\ v3' <= v1 /\ v2 \in Nat /\ v2 <= Depth /\ len \in Nat /\ rest \in Nat
      /\ rest <= Depth /\ v7 \in Seq(Sent)
  BY BucketAssumption DEF TbInv, TbTypes
<1>2. v2' = rest - len /\ v7' = Append(v7, [at |-> v1, len |-> len]) /\ v5' = 0
  BY DEF Tb!Forward
<1>3. PICK r \in Sent : r = [at |-> v1, len |-> len] /\ r.at = v1 /\ r.len = len
  <2>1. [at |-> v1, len |-> len] \in Sent
    BY <1>1 DEF Sent
  <2>2. QED
    BY <2>1
<1>4. /\ All(v7) \in Int /\ All(v7') = All(v7) + len
      /\ \A t : At(v7, t) \in Int /\ At(v7', t) = At(v7, t) + (IF v1 = t THEN len ELSE 0)
  BY <1>1, <1>2, <1>3, AppendSums
<1>5. v2' \in 0 .. Depth
  BY <1>1, <1>2
<1>6. TbTypes'
  <2>1. v7' \in Seq(Sent)
    BY <1>1, <1>2, <1>3
  <2>2. ASSUME NEW i \in DOMAIN v7' PROVE v7'[i].at <= v1
    <3>1. Len(v7) \in Nat /\ i \in 1 .. (Len(v7) + 1) /\ DOMAIN v7 = 1 .. Len(v7)
      BY <1>1, <1>2, <1>3
    <3>2. CASE i = Len(v7) + 1
      <4>1. v7'[i] = r
        BY <1>1, <1>2, <1>3, <3>2
      <4>2. QED
        BY <1>1, <1>3, <4>1
    <3>3. CASE i # Len(v7) + 1
      <4>1. i \in 1 .. Len(v7)
        BY <3>1, <3>3
      <4>2. Append(v7, r)[i] = v7[i]
        BY <1>1, <4>1, AppendProperties
      <4>3. i \in DOMAIN v7 /\ v7'[i] = v7[i]
        BY <1>2, <1>3, <3>1, <4>1, <4>2
      <4>4. QED
        BY <4>3 DEF TbInv, TbTypes
    <3>4. QED
      BY <3>2, <3>3
  <2>3. QED
    BY <1>1, <1>2, <1>5, <2>1, <2>2 DEF TbTypes
<1>7. TbRate'
  <2>1. PICK a \in Int : a = All(v7)
    BY <1>4
  <2>2. All(v7') + v2' = a + rest
    BY <1>1, <1>2, <1>4, <2>1
  <2>3. (a + v2) * Hz <= Depth * Hz + Rate * v3
    BY <2>1 DEF TbInv, TbRate
  <2>4. (a + rest) * Hz = (a + v2) * Hz + (rest - v2) * Hz
    BY <1>1, <2>1
  <2>5. Rate * v3' = Rate * v3 + (v3' - v3) * Rate
    BY <1>1
  <2>6. /\ (a + v2) * Hz \in Int /\ (rest - v2) * Hz \in Int /\ Depth * Hz \in Int
        /\ Rate * v3 \in Int /\ (v3' - v3) * Rate \in Int
    BY <1>1, <2>1
  <2>7. (a + rest) * Hz <= Depth * Hz + Rate * v3'
    BY <2>3, <2>4, <2>5, <2>6
  <2>8. QED
    BY <2>2, <2>7 DEF TbRate
<1>8. TbBurst'
  <2>1. PICK b \in Int : b = At(v7, v1)
    BY <1>4
  <2>2. /\ b + v2 <= 2 * Depth /\ (v3 # v1 => b + v2 <= Depth)
    BY <2>1 DEF TbInv, TbBurst
  <2>3. At(v7', v1) = b + len
    BY <1>1, <1>4, <2>1
  <2>4. b + rest <= 2 * Depth /\ (v3' # v1 => b + rest <= Depth)
    BY <1>1, <2>1, <2>2
  <2>5. At(v7', v1) + v2' = b + rest
    BY <1>1, <1>2, <2>1, <2>3
  <2>6. At(v7', v1) <= 2 * Depth
    BY <1>1, <2>1, <2>3, <2>4
  <2>7. ASSUME NEW t \in Nat PROVE At(v7', t) <= 2 * Depth
    <3>1. CASE t = v1
      BY <2>6, <3>1
    <3>2. CASE t # v1
      <4>1. At(v7', t) = At(v7, t)
        BY <1>4, <3>2
      <4>2. QED
        BY <4>1 DEF TbInv, TbBurst
    <3>3. QED
      BY <3>1, <3>2
  <2>8. QED
    BY <2>4, <2>5, <2>7 DEF TbBurst
<1>9. QED
  BY <1>6, <1>7, <1>8 DEF TbInv

LEMMA TbStep == TbInv /\ [Tb!Next]_(Tb!vars) => TbInv'
<1>1. SUFFICES ASSUME TbInv, [Tb!Next]_(Tb!vars) PROVE TbInv'
  OBVIOUS
<1>2. /\ Depth \in Nat /\ Hz \in Nat /\ Rate \in Nat /\ v1 \in Nat /\ v3 \in Nat /\ v3 <= v1
      /\ v2 \in Nat /\ v2 <= Depth /\ v5 \in 0 .. Depth /\ v7 \in Seq(Sent)
  BY <1>1, BucketAssumption DEF TbInv, TbTypes
<1>3. CASE UNCHANGED <<v1, v2, v3, v5, v7>>
  BY <1>1, <1>3 DEF TbInv, TbTypes, TbRate, TbBurst
<1>4. CASE Tb!Tick
  <2>1. v1' = v1 + 1 /\ v2' = v2 /\ v3' = v3 /\ v5' = v5 /\ v7' = v7
    BY <1>4 DEF Tb!Tick
  <2>2. \A i \in DOMAIN v7 : v7[i].at # v1 + 1 /\ v7[i].at <= v1 + 1
    <3>1. ASSUME NEW i \in DOMAIN v7 PROVE v7[i].at \in Nat /\ v7[i].at <= v1
      <4>1. v7[i] \in Sent
        BY <1>2
      <4>2. QED
        BY <1>1, <4>1 DEF TbInv, TbTypes, Sent
    <3>2. QED
      BY <1>2, <3>1
  <2>3. At(v7, v1 + 1) = 0
    BY <1>2, <2>2, NothingAt
  <2>4. TbTypes'
    BY <1>1, <1>2, <2>1, <2>2 DEF TbInv, TbTypes
  <2>5. TbRate'
    BY <1>1, <2>1 DEF TbInv, TbRate
  <2>6. TbBurst'
    BY <1>1, <1>2, <2>1, <2>3 DEF TbInv, TbBurst
  <2>7. QED
    BY <2>4, <2>5, <2>6 DEF TbInv
<1>5. ASSUME NEW len \in PacketSizes, Tb!Packet(len) PROVE TbInv'
  <2>1. len \in Nat /\ v1' = v1 /\ v3' = v3
    BY <1>5, BucketAssumption DEF Tb!Packet
  <2>2. CASE len > Depth
    BY <1>3, <1>5, <2>1, <2>2 DEF Tb!Packet
  <2>3. CASE len <= Depth /\ v2 < len
    <3>1. v5' = len /\ v2' = v2 /\ v7' = v7
      BY <1>2, <1>5, <2>1, <2>3 DEF Tb!Packet
    <3>2. QED
      BY <1>1, <1>2, <2>1, <2>3, <3>1 DEF TbInv, TbTypes, TbRate, TbBurst
  <2>4. CASE len <= v2
    <3>1. Tb!Forward(len, v2)
      BY <1>2, <1>5, <2>1, <2>4 DEF Tb!Packet
    <3>2. (v2 - v2) * Hz <= (v3' - v3) * Rate
      <4>1. v2 - v2 = 0 /\ v3' - v3 = 0
        BY <1>2, <2>1
      <4>2. QED
        BY <1>2, <4>1
    <3>3. len \in 0 .. Depth /\ v2 \in 0 .. Depth
      BY <1>2, <2>1, <2>4
    <3>4. QED
      BY <1>1, <2>1, <2>4, <3>1, <3>2, <3>3, ForwardKeeps
  <2>5. QED
    BY <1>2, <2>1, <2>2, <2>3, <2>4
<1>6. CASE Tb!Refill
  <2>1. v1' = v1 /\ v3' = v1 /\ Tb!Forward(v5, Tb!Filled) /\ Tb!Produced + v2 >= v5
    BY <1>6 DEF Tb!Refill, Tb!LastNow
  <2>2. PICK p \in Nat : p = Tb!Produced /\ p * Hz <= (v1 - v3) * Rate /\ (v3 = v1 => p = 0)
    BY <1>1, ProducedBound DEF TbInv
  <2>3. PICK k : k = Tb!Filled
    OBVIOUS
  <2>4. k = IF p + v2 > Depth THEN Depth ELSE v2 + p
    BY <2>2, <2>3 DEF Tb!Filled
  <2>5. k \in 0 .. Depth /\ k - v2 <= p /\ k - v2 \in Int /\ v5 <= k /\ (v3 = v1 => k = v2)
    BY <1>2, <2>1, <2>2, <2>4
  <2>6. (k - v2) * Hz <= p * Hz
    <3>1. PICK x \in Int, y \in Nat : x = k - v2 /\ y = p - x
      BY <2>2, <2>5
    <3>2. p * Hz = x * Hz + y * Hz /\ y * Hz \in Nat /\ x * Hz \in Int
      <4>1. p = x + y
        BY <2>2, <3>1
      <4>2. (x + y) * Hz = x * Hz + y * Hz
        BY <1>2, <3>1
      <4>3. y * Hz \in Nat /\ x * Hz \in Int
        BY <1>2, <3>1
      <4>4. QED
        BY <4>1, <4>2, <4>3
    <3>3. QED
      BY <3>1, <3>2
  <2>7. (k - v2) * Hz <= (v1 - v3) * Rate
    <3>1. (k - v2) * Hz \in Int /\ p * Hz \in Int /\ (v1 - v3) * Rate \in Int
      BY <1>2, <2>2, <2>5
    <3>2. QED
      BY <2>2, <2>6, <3>1
  <2>8. v3' = v3 => k = v2
    BY <2>1, <2>5
  <2>9. QED
    BY <1>1, <1>2, <2>1, <2>3, <2>5, <2>7, <2>8, ForwardKeeps
<1>7. CASE Tb!Signal \/ Tb!Leave \/ UNCHANGED Tb!vars
  BY <1>3, <1>7 DEF Tb!Signal, Tb!Leave, Tb!vars
<1>8. QED
  BY <1>1, <1>4, <1>5, <1>6, <1>7 DEF Tb!Next

\* What the invariant says about the properties.
LEMMA TbChecked == TbInv => Tb!RateKept /\ Tb!BurstTwoBuckets
<1>1. SUFFICES ASSUME TbInv PROVE Tb!RateKept /\ Tb!BurstTwoBuckets
  OBVIOUS
<1>2. Tb!Bytes = All(v7) /\ \A t : Tb!BytesAt(t) = At(v7, t)
  BY DEF Tb!Bytes, Tb!BytesAt, All, At, PlacesAt, LenSum
<1>3. Tb!RateKept
  <2>1. /\ v1 \in Nat /\ v2 \in Nat /\ v3 \in Nat /\ v3 <= v1 /\ Hz \in Nat /\ Rate \in Nat
        /\ Depth \in Nat /\ v7 \in Seq(Sent)
    BY <1>1, BucketAssumption DEF TbInv, TbTypes
  <2>2. PICK a \in Int : a = All(v7)
    BY <2>1, LensType DEF All
  <2>3. (a + v2) * Hz <= Depth * Hz + Rate * v3
    BY <1>1, <2>2 DEF TbInv, TbRate
  <2>4. (a + v2) * Hz = a * Hz + v2 * Hz /\ v2 * Hz \in Nat /\ a * Hz \in Int
    BY <2>1, <2>2
  <2>5. Rate * v1 = Rate * v3 + Rate * (v1 - v3) /\ Rate * (v1 - v3) \in Nat /\ Rate * v3 \in Nat
    BY <2>1
  <2>6. Depth * Hz \in Nat
    BY <2>1
  <2>7. a * Hz <= Depth * Hz + Rate * v1
    BY <2>3, <2>4, <2>5, <2>6
  <2>8. QED
    BY <1>2, <2>2, <2>7 DEF Tb!RateKept
<1>4. Tb!BurstTwoBuckets
  <2>1. \A t \in 0 .. v1 : At(v7, t) <= 2 * Depth
    BY <1>1 DEF TbInv, TbTypes, TbBurst
  <2>2. QED
    BY <1>2, <2>1 DEF Tb!BurstTwoBuckets
<1>5. QED
  BY <1>3, <1>4

=============================================================================

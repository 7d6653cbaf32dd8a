----------------------------- MODULE PacketPath -----------------------------
(***************************************************************************)
(* The way of a packet through the platform: the RX thread                 *)
(* (rx_thread_main), the NFs (onvm_nflib_thread_main_loop) and the TX      *)
(* thread (tx_thread_main) take packets from a NIC or a ring, collect them *)
(* in buffers per destination NF, and flush the buffers into the rings of  *)
(* those NFs, while NFs start and stop and the manager drains and frees    *)
(* their rings.  Every thread runs the code of onvm_pkt_common.c; what is  *)
(* at stake is which mbuf is owned by whom.                                *)
(*                                                                         *)
(* A step of a thread is what it does from one access to the state it      *)
(* shares (the status of an NF, a ring) to the next.                       *)
(***************************************************************************)
EXTENDS Integers, Sequences, FiniteSets, Functions

CONSTANTS
    Packet,      \* the mbufs of the pool
    NumIds,      \* NFs have the instance ids 1 .. NumIds
    ReadSize,    \* PACKET_READ_SIZE
    RingSize,    \* NF_QUEUE_RINGSIZE
    HandleTx,    \* the values of ONVM_NF_HANDLE_TX considered
    Keeping,     \* the values of HandleTx with which handlers keep packets
    Mishaps,     \* which rare ways to treat a packet occur
    MaxStarts    \* bound on the number of times an NF is started

ASSUME PathAssumption ==
    /\ NumIds \in Nat \ {0} /\ ReadSize \in Nat \ {0} /\ RingSize \in Nat \ {0}
    /\ HandleTx \subseteq BOOLEAN /\ Keeping \subseteq BOOLEAN
    /\ Mishaps \subseteq {"invalid", "badport", "chain_out", "chain_other"}
    /\ MaxStarts \in Nat

VARIABLES
    build,    \* ONVM_NF_HANDLE_TX, fixed when nflib is compiled
    health,   \* "up", or what undefined behaviour the program ran into
    nf,       \* nf[n]: how far the life of the NF in slot n is
    starts,   \* number of NFs started so far
    pc,       \* pc[m]: where thread m is
    idx,      \* idx[m]: the loop index of thread m
    to,       \* to[m]: the NF whose buffer thread m flushes (1 when there is none)
    q,        \* q[x]: the packets on ring or in buffer x, oldest first
    free,     \* the packets in the pool (or handed to the NIC, which frees them)
    lost      \* the packets that nothing refers to any more

vars == <<build, health, nf, starts, pc, idx, to, q, free, lost>>

-----------------------------------------------------------------------------
(* Threads and queues *)

Rx == 0
Tx == NumIds + 1
NfId == 1 .. NumIds
Thread == 0 .. NumIds + 1

RxQ(n) == <<"rx_q", n, n>>
TxQ(n) == <<"tx_q", n, n>>
Buf(m, d) == <<"nf_rx_bufs", m, d>>       \* one packet_buf for each NF
Out(n) == <<"to_tx_buf", n, n>>           \* of an NF, for the TX thread
Port == <<"port_tx_bufs", Tx, Tx>>        \* of the TX thread
Pkts(m) == <<"pkts", m, m>>               \* the batch thread m works on
Kept(n) == <<"kept", n, n>>               \* what the handler of NF n kept

Queue ==
    {RxQ(n) : n \in NfId} \union {TxQ(n) : n \in NfId}
    \union {Buf(m, d) : m \in Thread, d \in NfId}
    \union {Out(n) : n \in NfId} \union {Port}
    \union {Pkts(m) : m \in Thread} \union {Kept(n) : n \in NfId}

\* onvm_nf_is_valid: the status of an NF is RUNNING until the manager has
\* got the message that it stopped.
Valid(n) == nf[n] \in {"running", "exited"}

\* The rings of an NF exist until onvm_nf_clear_rings.
HasRings(n) == nf[n] # "off"

\* The packets of some queues, as a set.
On(X) == UNION {Range(q[x]) : x \in X}

-----------------------------------------------------------------------------
(* Steps of a thread *)

Init ==
    /\ build \in HandleTx
    /\ health = "up"
    /\ nf = [n \in NfId |-> "off"]
    /\ starts = 0
    /\ pc = [m \in Thread |-> IF m = Rx THEN "recv" ELSE IF m = Tx THEN "scan" ELSE "none"]
    /\ idx = [m \in Thread |-> 1]
    /\ to = [m \in Thread |-> 1]
    /\ q = [x \in Queue |-> <<>>]
    /\ free = Packet
    /\ lost = {}

Goto(m, label) == pc' = [pc EXCEPT ![m] = label]

\* The program ran into undefined behaviour: what it does next is not described.
Corrupt(how) ==
    /\ health' = how
    /\ UNCHANGED <<build, nf, starts, pc, idx, to, q, free, lost>>

\* Mutant: bulk enqueue without the return of the packets when the ring is full.
BulkUnchecked(r, from, ring) ==
    [queue |-> [r EXCEPT ![ring] = IF Len(@) + Len(r[from]) > RingSize THEN @ ELSE @ \o r[from],
                         ![from] = <<>>],
     freed |-> {}]

\* rte_ring_enqueue_bulk and what follows it wherever it is called: all the
\* packets of the buffer go on the ring, or all are freed; the buffer is
\* empty then.
Bulk(r, from, ring) ==
    LET full == Len(r[ring]) + Len(r[from]) > RingSize
    IN  [queue |-> [r EXCEPT ![ring] = IF full THEN @ ELSE @ \o r[from], ![from] = <<>>],
         freed |-> IF full THEN Range(r[from]) ELSE {}]

\* onvm_pkt_drop of the packet thread m looks at.
DropPacket(m) ==
    /\ q' = [q EXCEPT ![Pkts(m)] = Tail(@)]
    /\ free' = free \union {Head(q[Pkts(m)])}
    /\ UNCHANGED <<build, health, nf, starts, pc, idx, to, lost>>

\* The packet is neither freed nor stored.
ForgetPacket(m) ==
    /\ q' = [q EXCEPT ![Pkts(m)] = Tail(@)]
    /\ lost' = lost \union {Head(q[Pkts(m)])}
    /\ UNCHANGED <<build, health, nf, starts, pc, idx, to, free>>

\* onvm_pkt_enqueue_nf: a packet for an NF that does not run is dropped (as
\* is one for a service without an NF), any other is stored.  A buffer that
\* could not be flushed when it became full has no room for it.
EnqueueNf(m, d) ==
    IF ~Valid(d)
    THEN DropPacket(m)
    ELSE IF Len(q[Buf(m, d)]) >= ReadSize
    THEN Corrupt("overflow")
    ELSE /\ q' = [q EXCEPT ![Pkts(m)] = Tail(@), ![Buf(m, d)] = Append(@, Head(q[Pkts(m)]))]
         /\ IF Len(q[Buf(m, d)]) + 1 = ReadSize
            THEN Goto(m, "check") /\ to' = [to EXCEPT ![m] = d]
            ELSE UNCHANGED <<pc, to>>
         /\ UNCHANGED <<build, health, nf, starts, idx, free, lost>>

\* onvm_pkt_enqueue_port and, when the buffer becomes full,
\* onvm_pkt_flush_port_queue: the NIC takes what it takes, the rest is freed.
EnqueuePort ==
    LET pkts == Append(q[Port], Head(q[Pkts(Tx)]))
        full == Len(pkts) = ReadSize
    IN  /\ q' = [q EXCEPT ![Pkts(Tx)] = Tail(@), ![Port] = IF full THEN <<>> ELSE pkts]
        /\ free' = IF full THEN free \union Range(pkts) ELSE free
        /\ UNCHANGED <<build, health, nf, starts, pc, idx, to, lost>>

\* ONVM_NF_ACTION_OUT in an NF: the packet is collected in to_tx_buf and,
\* when that is full, onvm_pkt_enqueue_tx_thread puts them on the NF's own
\* TX ring.
CollectOut(n) ==
    LET r == [q EXCEPT ![Pkts(n)] = Tail(@), ![Out(n)] = Append(@, Head(q[Pkts(n)]))]
        b == Bulk(r, Out(n), TxQ(n))
        full == Len(r[Out(n)]) = ReadSize
    IN  /\ q' = IF full THEN b.queue ELSE r
        /\ free' = IF full THEN free \union b.freed ELSE free
        /\ UNCHANGED <<build, health, nf, starts, pc, idx, to, lost>>

\* An action that does not exist: the packet is dropped and the rest of the
\* batch is left where it is.
InvalidAction(m) ==
    /\ free' = free \union {Head(q[Pkts(m)])}
    /\ lost' = lost \union Range(Tail(q[Pkts(m)]))
    /\ q' = [q EXCEPT ![Pkts(m)] = <<>>]
    /\ UNCHANGED <<build, health, nf, starts, pc, idx, to>>

\* onvm_pkt_process_next_action, in the cases in which it differs from the
\* action named in the packet: the chain says OUT, which in an NF takes
\* to_tx_buf for a tx_thread_info, or it says something the switch ignores.
ChainAction(m) ==
    \/ "chain_out" \in Mishaps /\ m \in NfId /\ Corrupt("confused")
    \/ "chain_other" \in Mishaps /\ ForgetPacket(m)

\* One turn of the loop of onvm_pkt_process_tx_batch.
ProcessPacket(m) ==
    /\ m # Rx /\ pc[m] = "work" /\ q[Pkts(m)] # <<>>
    /\ \/ DropPacket(m)
       \/ \E d \in NfId : EnqueueNf(m, d)
       \/ m = Tx /\ EnqueuePort
       \/ m = Tx /\ "badport" \in Mishaps /\ ForgetPacket(m)
       \/ m \in NfId /\ CollectOut(m)
       \/ "invalid" \in Mishaps /\ InvalidAction(m)
       \/ ChainAction(m)

\* One turn of the loop of onvm_pkt_process_rx_batch: whatever the action of
\* the default chain is, the packet goes to an NF.
ProcessRxPacket ==
    /\ pc[Rx] = "work" /\ q[Pkts(Rx)] # <<>>
    /\ \E d \in NfId : EnqueueNf(Rx, d)

\* The end of the batch.
BatchDone(m) ==
    /\ pc[m] = "work" /\ q[Pkts(m)] = <<>>
    /\ Goto(m, CASE m = Rx -> "flush" [] m = Tx -> "scan" [] OTHER -> "out")
    /\ idx' = [idx EXCEPT ![m] = IF m = Tx THEN @ ELSE 1]
    /\ UNCHANGED <<build, health, nf, starts, to, q, free, lost>>

\* onvm_pkt_flush_nf_queue called because a buffer became full: is the
\* destination running?
FlushCheck(m) ==
    /\ pc[m] = "check"
    /\ Goto(m, IF Valid(to[m]) THEN "put" ELSE "work")
    /\ to' = [to EXCEPT ![m] = IF Valid(@) THEN @ ELSE 1]
    /\ UNCHANGED <<build, health, nf, starts, idx, q, free, lost>>

\* onvm_pkt_flush_all_nfs up to the next buffer that is not empty, and the
\* test of onvm_pkt_flush_nf_queue for it.
FlushNext(m) ==
    LET D == {d \in NfId : d >= idx[m] /\ q[Buf(m, d)] # <<>>}
        next == CHOOSE d \in D : \A e \in D : d <= e
    IN  /\ pc[m] = "flush"
        /\ IF D = {}
           THEN /\ Goto(m, IF m = Rx THEN "recv" ELSE IF m = Tx THEN "scan" ELSE "loop")
                /\ idx' = [idx EXCEPT ![m] = 1]
                /\ UNCHANGED to
           ELSE /\ Goto(m, IF Valid(next) THEN "put_all" ELSE "flush")
                /\ idx' = [idx EXCEPT ![m] = next + 1]
                /\ to' = [to EXCEPT ![m] = IF Valid(next) THEN next ELSE 1]
        /\ UNCHANGED <<build, health, nf, starts, q, free, lost>>

\* The rest of onvm_pkt_flush_nf_queue.  The destination may have stopped
\* since the test, and its rings may be gone.
FlushPut(m) ==
    LET b == Bulk(q, Buf(m, to[m]), RxQ(to[m]))
    IN  /\ pc[m] \in {"put", "put_all"}
        /\ IF ~HasRings(to[m])
           THEN Corrupt("freed")
           ELSE /\ q' = b.queue
                /\ free' = free \union b.freed
                /\ Goto(m, IF pc[m] = "put" THEN "work" ELSE "flush")
                /\ to' = [to EXCEPT ![m] = 1]
                /\ UNCHANGED <<build, health, nf, starts, idx, lost>>

-----------------------------------------------------------------------------
(* rx_thread_main *)

\* A burst from the NIC.  Without a running NF (num_nfs = 0) the batch is
\* dropped, and nothing has changed.
RxBurst ==
    /\ pc[Rx] = "recv" /\ \E n \in NfId : Valid(n)
    /\ \E k \in 1 .. ReadSize : \E s \in [1 .. k -> free] :
        /\ Cardinality(Range(s)) = k
        /\ q' = [q EXCEPT ![Pkts(Rx)] = s]
        /\ free' = free \ Range(s)
    /\ Goto(Rx, "work")
    /\ UNCHANGED <<build, health, nf, starts, idx, to, lost>>

-----------------------------------------------------------------------------
(* tx_thread_main *)

\* Mutant: the buffers for NFs are not flushed.
TxScanNoFlush ==
    /\ pc[Tx] = "scan"
    /\ IF idx[Tx] > NumIds
       THEN /\ q' = [q EXCEPT ![Port] = <<>>]
            /\ free' = free \union Range(q[Port])
            /\ idx' = [idx EXCEPT ![Tx] = 1]
            /\ UNCHANGED pc
       ELSE /\ Goto(Tx, IF Valid(idx[Tx]) THEN "take" ELSE "scan")
            /\ idx' = [idx EXCEPT ![Tx] = @ + 1]
            /\ UNCHANGED <<q, free>>
    /\ UNCHANGED <<build, health, nf, starts, to, lost>>

\* The loop over the NFs: the test of the next one; after the last one the
\* ports are flushed (onvm_pkt_flush_all_ports), then the buffers.
TxScan ==
    /\ pc[Tx] = "scan"
    /\ IF idx[Tx] > NumIds
       THEN /\ q' = [q EXCEPT ![Port] = <<>>]
            /\ free' = free \union Range(q[Port])
            /\ Goto(Tx, "flush")
            /\ idx' = [idx EXCEPT ![Tx] = 1]
       ELSE /\ Goto(Tx, IF Valid(idx[Tx]) THEN "take" ELSE "scan")
            /\ idx' = [idx EXCEPT ![Tx] = @ + 1]
            /\ UNCHANGED <<q, free>>
    /\ UNCHANGED <<build, health, nf, starts, to, lost>>

\* The first packets of a ring, at most ReadSize, and what is left there.
Burst(ring) == SubSeq(q[ring], 1, IF Len(q[ring]) < ReadSize THEN Len(q[ring]) ELSE ReadSize)
Rest(ring) == SubSeq(q[ring], Len(Burst(ring)) + 1, Len(q[ring]))

\* The dequeue from the TX ring of the NF tested.
TxTake ==
    LET n == idx[Tx] - 1
    IN  /\ pc[Tx] = "take"
        /\ IF ~HasRings(n)
           THEN Corrupt("freed")
           ELSE /\ q' = [q EXCEPT ![Pkts(Tx)] = Burst(TxQ(n)), ![TxQ(n)] = Rest(TxQ(n))]
                /\ Goto(Tx, "work")
                /\ UNCHANGED <<build, health, nf, starts, idx, to, free, lost>>

-----------------------------------------------------------------------------
(* onvm_nflib_thread_main_loop *)

\* The ways to choose from n packets in their order.
Ascending(n) ==
    {f \in UNION {[1 .. k -> 1 .. n] : k \in 0 .. n} : \A i, j \in DOMAIN f : i < j => f[i] < f[j]}

\* onvm_nflib_dequeue_packets: the handler is called for every packet of the
\* burst and keeps some of them.  An NF that transmits itself then processes
\* the whole burst (nb_pkts); any other hands on those not kept.
NfTake(n) ==
    LET pkts == Burst(RxQ(n))
        all  == 1 .. Len(pkts)
    IN  /\ pc[n] = "loop" /\ nf[n] = "running"
        /\ \E kept, passed \in Ascending(Len(pkts)) :
            LET mine == [i \in DOMAIN kept |-> pkts[kept[i]]]
                others == [i \in DOMAIN passed |-> pkts[passed[i]]]
                r == [q EXCEPT ![RxQ(n)] = Rest(RxQ(n)), ![Kept(n)] = @ \o mine,
                               ![Pkts(n)] = IF build THEN pkts ELSE others]
                b == Bulk(r, Pkts(n), TxQ(n))
            IN  /\ Range(kept) = all \ Range(passed)
                /\ kept # <<>> => build \in Keeping
                /\ q' = IF build THEN r ELSE b.queue
                /\ free' = IF build THEN free ELSE free \union b.freed
        /\ Goto(n, "work")
        /\ UNCHANGED <<build, health, nf, starts, idx, to, lost>>

\* onvm_pkt_enqueue_tx_thread with what to_tx_buf holds.
FlushOut(n) ==
    LET b == Bulk(q, Out(n), TxQ(n))
    IN  /\ pc[n] = "out"
        /\ q' = b.queue
        /\ free' = free \union b.freed
        /\ Goto(n, "flush")
        /\ UNCHANGED <<build, health, nf, starts, idx, to, lost>>

\* onvm_nflib_return_pkt_bulk: the NF gives back what it kept.
ReturnKept(n) ==
    LET b == Bulk(q, Kept(n), TxQ(n))
    IN  /\ pc[n] = "loop" /\ nf[n] = "running" /\ q[Kept(n)] # <<>>
        /\ q' = b.queue
        /\ free' = free \union b.freed
        /\ UNCHANGED <<build, health, nf, starts, pc, idx, to, lost>>

\* The end of the main loop, and onvm_nflib_cleanup: the buffers are freed,
\* the packets in them are not.
NfExit(n) ==
    LET mine == {Buf(n, d) : d \in NfId} \union {Out(n), Kept(n)}
    IN  /\ pc[n] = "loop" /\ nf[n] = "running"
        /\ nf' = [nf EXCEPT ![n] = "exited"]
        /\ lost' = lost \union On(mine)
        /\ q' = [x \in Queue |-> IF x \in mine THEN <<>> ELSE q[x]]
        /\ Goto(n, "none")
        /\ UNCHANGED <<build, health, starts, idx, to, free>>

-----------------------------------------------------------------------------
(* The manager, which handles the messages of the NFs *)

\* A new NF: rings, status RUNNING, and an empty nf_tx_mgr.
NfStart(n) ==
    /\ nf[n] = "off" /\ starts < MaxStarts
    /\ nf' = [nf EXCEPT ![n] = "running"]
    /\ starts' = starts + 1
    /\ Goto(n, "loop")
    /\ UNCHANGED <<build, health, idx, to, q, free, lost>>

\* onvm_nf_stop: the status changes ...
MarkStopped(n) ==
    /\ nf[n] = "exited"
    /\ nf' = [nf EXCEPT ![n] = "stopped"]
    /\ UNCHANGED <<build, health, starts, pc, idx, to, q, free, lost>>

\* ... the packets on the rings are freed ...
DrainRings(n) ==
    /\ nf[n] = "stopped"
    /\ nf' = [nf EXCEPT ![n] = "drained"]
    /\ free' = free \union On({RxQ(n), TxQ(n)})
    /\ q' = [q EXCEPT ![RxQ(n)] = <<>>, ![TxQ(n)] = <<>>]
    /\ UNCHANGED <<build, health, starts, pc, idx, to, lost>>

\* ... and onvm_nf_clear_rings frees the rings, with what has been put there
\* since they were drained.
ClearRings(n) ==
    /\ nf[n] = "drained"
    /\ nf' = [nf EXCEPT ![n] = "off"]
    /\ lost' = lost \union On({RxQ(n), TxQ(n)})
    /\ q' = [q EXCEPT ![RxQ(n)] = <<>>, ![TxQ(n)] = <<>>]
    /\ UNCHANGED <<build, health, starts, pc, idx, to, free>>

-----------------------------------------------------------------------------

FlushSteps(m) == FlushCheck(m) \/ FlushNext(m) \/ FlushPut(m) \/ BatchDone(m)

RxThread == health = "up" /\ (RxBurst \/ ProcessRxPacket \/ FlushSteps(Rx))
TxThread == health = "up" /\ (TxScan \/ TxTake \/ ProcessPacket(Tx) \/ FlushSteps(Tx))
NfThread(n) == health = "up" /\ (NfTake(n) \/ ProcessPacket(n) \/ FlushOut(n) \/ FlushSteps(n))
Manager(n) == health = "up" /\ (MarkStopped(n) \/ DrainRings(n) \/ ClearRings(n))
NfLife(n) == health = "up" /\ (NfStart(n) \/ NfExit(n) \/ ReturnKept(n))

\* Nothing is known of what follows undefined behaviour.
Corrupted == health # "up" /\ UNCHANGED vars

Next ==
    \/ RxThread \/ TxThread \/ Corrupted
    \/ \E n \in NfId : NfThread(n) \/ Manager(n) \/ NfLife(n)

Spec == Init /\ [][Next]_vars

\* The threads of the manager have cores of their own and NFs are scheduled;
\* packets need not arrive and NFs need not end.
FairSpec ==
    /\ Spec
    /\ WF_vars(TxThread)
    /\ WF_vars(RxThread /\ pc[Rx] # "recv")
    /\ \A n \in NfId : WF_vars(NfThread(n)) /\ WF_vars(Manager(n))

-----------------------------------------------------------------------------
(* Properties *)

\* Every buffer stays within its packet_buf and every ring within its size,
\* with the threads at places their code has.
TypeOK ==
    /\ build \in HandleTx
    /\ health \in {"up", "overflow", "freed", "confused"}
    /\ nf \in [NfId -> {"off", "running", "exited", "stopped", "drained"}]
    /\ starts \in 0 .. MaxStarts
    /\ pc \in [Thread -> {"none", "recv", "scan", "take", "loop", "work", "check",
                          "put", "out", "flush", "put_all"}]
    /\ idx \in [Thread -> 1 .. NumIds + 1] /\ to \in [Thread -> NfId]
    /\ DOMAIN q = Queue
    /\ \A x \in Queue :
        /\ Range(q[x]) \subseteq Packet
        /\ x[1] \in {"nf_rx_bufs", "port_tx_bufs", "to_tx_buf", "pkts"} => Len(q[x]) <= ReadSize
        /\ x[1] \in {"rx_q", "tx_q"} => Len(q[x]) <= RingSize
    /\ free \subseteq Packet /\ lost \subseteq Packet

\* The number of places that hold packet p.
Owners(p) ==
    Cardinality({x \in Queue : p \in Range(q[x])})
    + (IF p \in free THEN 1 ELSE 0) + (IF p \in lost THEN 1 ELSE 0)

\* Every mbuf has exactly one owner: no thread frees, forwards or stores a
\* packet that another one still has, and none vanishes but in the ways
\* described.
PacketsAccounted ==
    /\ \A p \in Packet : Owners(p) = 1
    /\ \A x \in Queue : Cardinality(Range(q[x])) = Len(q[x])

\* A packet that an NF or the TX thread has buffered for a running NF leaves
\* the buffer (unless that NF stops, or the program is corrupted).
BufferFlushed ==
    \A m \in Thread \ {Rx}, d \in NfId :
        q[Buf(m, d)] # <<>> /\ Valid(d)
            ~> q[Buf(m, d)] = <<>> \/ ~Valid(d) \/ health # "up"

\* Packets on a ring are taken from it: by the NF, by the TX thread or, when
\* the NF stops, by the manager.
QueuesServed ==
    \A n \in NfId :
        /\ q[RxQ(n)] # <<>> ~> q[RxQ(n)] = <<>> \/ health # "up"
        /\ q[TxQ(n)] # <<>> ~> q[TxQ(n)] = <<>> \/ health # "up"

\* Every mbuf has one owner, and no buffer or ring holds more than its size, up to
\* the point of undefined behaviour.
PacketsSafe == TypeOK /\ PacketsAccounted

\* What a thread has buffered is flushed, and what is on a ring is taken.
PacketsMoveOn == BufferFlushed /\ QueuesServed
=============================================================================

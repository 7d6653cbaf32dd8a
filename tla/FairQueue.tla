----------------------------- MODULE FairQueue -----------------------------
(***************************************************************************)
(* The fair queue NF (examples/fair_queue): its RX thread sorts packets    *)
(* into queues by flow, a child thread takes them out again round robin.   *)
(* Each queue is an array with a head and a tail, an empty place is NULL,  *)
(* and has a spin lock.  Packets are numbered as they arrive.              *)
(***************************************************************************)
EXTENDS Integers, Sequences, FiniteSets, SequencesExt

CONSTANTS
    QueueOf,    \* queue of each packet; -1 for one that is not IPv4
    NumQueues,
    QueueSize,  \* QUEUE_SIZE
    Batch,      \* PKT_READ_SIZE
    RingSize    \* of the NF's tx_q

VARIABLES
    rx,         \* the RX thread: packets of its burst, its drop batch, running
    tx,         \* the child: where it is, qid, start_qid, its batch
    fq,         \* the queues: head, tail, pkts
    lock,       \* who holds the lock of each queue
    ring,       \* tx_q
    next,       \* packets that have arrived
    exit,       \* signal_exit_flag
    drops,      \* rx_drop of each queue
    out,        \* history: packets that left, in order
    waits       \* history: packets taken from other queues while this one had some

vars == <<rx, tx, fq, lock, ring, next, exit, drops, out, waits>>

Null   == 0
Qid    == 0 .. NumQueues - 1
Places == 0 .. QueueSize - 1

\* setup_fairqueue and main.
Init ==
    /\ rx = [burst |-> <<>>, drop |-> <<>>, runs |-> TRUE]
    /\ tx = [at |-> "top", qid |-> 0, start |-> 0, batch |-> <<>>]
    /\ fq = [q \in Qid |-> [head |-> 0, tail |-> 0, pkts |-> [i \in Places |-> Null]]]
    /\ lock = [q \in Qid |-> "none"]
    /\ ring = <<>> /\ next = 0 /\ exit = FALSE
    /\ drops = [q \in Qid |-> 0] /\ out = <<>> /\ waits = [q \in Qid |-> 0]

HasPacket(q) == fq[q].pkts[fq[q].head] # Null

-----------------------------------------------------------------------------
(* rx_loop *)

RxBurst(n) ==
    /\ rx.runs /\ rx.burst = <<>> /\ ~exit
    /\ next + n <= Len(QueueOf) /\ next' = next + n
    /\ rx' = [rx EXCEPT !.burst = [i \in 1 .. n |-> next + i]]
    /\ UNCHANGED <<tx, fq, lock, ring, exit, drops, out, waits>>

\* rte_ring_enqueue_bulk: all of the batch or none; nobody looks at the result,
\* and a batch that did not fit is forgotten.
Bulk(batch) == IF Len(ring) + Len(batch) <= RingSize THEN ring \o batch ELSE ring

\* A packet that is not queued goes to the drop batch.
RxDrop(p) ==
    LET drop == Append(rx.drop, p) IN
    IF Len(drop) = Batch
    THEN /\ rx' = [rx EXCEPT !.burst = Tail(@), !.drop = <<>>] /\ ring' = Bulk(drop)
    ELSE /\ rx' = [rx EXCEPT !.burst = Tail(@), !.drop = drop] /\ UNCHANGED ring

\* A queue is full when head and tail meet at a place that is taken.
IsFull(q) == fq[q].head = fq[q].tail /\ HasPacket(q)

\* Mutant: the packet is written after the tail has moved.
PutLate(q, p) == LET t == (fq[q].tail + 1) % QueueSize IN
                 [fq[q] EXCEPT !.pkts[t] = p, !.tail = t]

Put(q, p) == [fq[q] EXCEPT !.pkts[fq[q].tail] = p, !.tail = (@ + 1) % QueueSize]

\* fairqueue_enqueue, once the lock is free.  The return for a full queue does
\* not release the lock.
Enqueue ==
    /\ rx.burst # <<>>
    /\ LET p == Head(rx.burst)
           q == QueueOf[p]
       IN  IF q = -1 THEN RxDrop(p) /\ UNCHANGED <<fq, lock, drops>>
           ELSE /\ lock[q] = "none"
                /\ IF IsFull(q)
                   THEN /\ lock' = [lock EXCEPT ![q] = "rx"]
                        /\ drops' = [drops EXCEPT ![q] = @ + 1]
                        /\ RxDrop(p) /\ UNCHANGED fq
                   ELSE /\ fq' = [fq EXCEPT ![q] = Put(q, p)]
                        /\ rx' = [rx EXCEPT !.burst = Tail(@)]
                        /\ UNCHANGED <<lock, drops, ring>>
    /\ UNCHANGED <<tx, next, exit, out, waits>>

RxLeave ==
    /\ exit /\ rx.runs /\ rx.burst = <<>> /\ rx' = [rx EXCEPT !.runs = FALSE]
    /\ UNCHANGED <<tx, fq, lock, ring, next, exit, drops, out, waits>>

-----------------------------------------------------------------------------
(* tx_loop of the child *)

TxTop ==
    /\ tx.at = "top"
    /\ tx' = IF exit THEN [tx EXCEPT !.at = "gone"]
             ELSE [tx EXCEPT !.at = "scan", !.start = tx.qid]
    /\ UNCHANGED <<rx, fq, lock, ring, next, exit, drops, out, waits>>

\* get_dequeue_qid: one queue of the round, looked at without its lock.
\* The qid that is next, and whether the queue is the one.
Scan ==
    /\ tx.at = "scan"
    /\ LET q == tx.qid
           n == (q + 1) % NumQueues
       IN  tx' = IF HasPacket(q) THEN [tx EXCEPT !.at = "dequeue", !.qid = n, !.start = q]
                 ELSE [tx EXCEPT !.at = IF n = tx.start THEN "top" ELSE "scan", !.qid = n]
    /\ UNCHANGED <<rx, fq, lock, ring, next, exit, drops, out, waits>>

Take(q) == [fq[q] EXCEPT !.pkts[fq[q].head] = Null, !.head = (@ + 1) % QueueSize]

\* fairqueue_dequeue, and the packet's place in the batch.
Dequeue ==
    /\ tx.at = "dequeue"
    /\ LET q == tx.start
           p == fq[q].pkts[fq[q].head]
           batch == Append(tx.batch, p)
       IN  /\ lock[q] = "none"
           /\ fq' = [fq EXCEPT ![q] = Take(q)]
           /\ out' = Append(out, p)
           /\ waits' = [r \in Qid |-> IF r = q \/ ~HasPacket(r) THEN 0 ELSE waits[r] + 1]
           /\ IF Len(batch) = Batch
              THEN ring' = Bulk(batch) /\ tx' = [tx EXCEPT !.at = "top", !.batch = <<>>]
              ELSE UNCHANGED ring /\ tx' = [tx EXCEPT !.at = "top", !.batch = batch]
    /\ UNCHANGED <<rx, lock, next, exit, drops>>

-----------------------------------------------------------------------------
\* The manager empties tx_q, and a signal or MSG_STOP ends the NF.
Drain ==
    /\ ring # <<>> /\ ring' = <<>>
    /\ UNCHANGED <<rx, tx, fq, lock, next, exit, drops, out, waits>>

StopNf ==
    /\ ~exit /\ exit' = TRUE
    /\ UNCHANGED <<rx, tx, fq, lock, ring, next, drops, out, waits>>

Next ==
    \/ (\E n \in 1 .. Batch : RxBurst(n)) \/ Enqueue \/ RxLeave
    \/ TxTop \/ Scan \/ Dequeue
    \/ Drain \/ StopNf

Spec == Init /\ [][Next]_vars

-----------------------------------------------------------------------------
\* The places of a queue, from its head.
Walk(q, i) == fq[q].pkts[(fq[q].head + i) % QueueSize]

\* The packets of a flow leave in the order in which they came, each of them once
\* and none of them NULL, with both threads at the array at the same time.
FlowOrderKept ==
    /\ \A i \in DOMAIN out : out[i] # Null
    /\ \A i, j \in DOMAIN out : i < j /\ QueueOf[out[i]] = QueueOf[out[j]] => out[i] < out[j]
    /\ \A q \in Qid, j \in Places : Walk(q, j) # Null =>
          /\ \A i \in Places : i < j /\ Walk(q, i) # Null => Walk(q, i) < Walk(q, j)
          /\ \A i \in DOMAIN out : QueueOf[out[i]] = q => out[i] < Walk(q, j)

\* While a queue has a packet, at most one packet of every other queue is taken
\* before it, wherever the round was when the packet came.
RoundRobin == \A q \in Qid : waits[q] <= NumQueues - 1

\* The lock of a queue outlives the call that took it only after the queue has
\* overflowed; from then on nothing of the queue moves and both threads come to
\* wait for it.
StuckOnlyWhenFull ==
    \A q \in Qid : lock[q] # "none" => drops[q] > 0 /\ \A i \in Places : fq[q].pkts[i] # Null

\* The lock is held while the queue is accessed ("lock to access the queue"):
\* between two calls of the RX thread it is free.
LockReleased == \A q \in Qid : lock[q] = "none"
=============================================================================

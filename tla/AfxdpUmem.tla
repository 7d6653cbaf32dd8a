----------------------------- MODULE AfxdpUmem -----------------------------
(***************************************************************************)
(* The frame pool of one AF_XDP socket and the RX thread that works on it  *)
(* (onvm_mgr/afxdp/onvm_afxdp.c: afxdp_configure_socket, the umem frame    *)
(* allocator, afxdp_complete_tx, afxdp_handle_receive and the loop of      *)
(* afxdp_rx_and_process), interleaved with the kernel side of the four     *)
(* rings.                                                                  *)
(*                                                                         *)
(* A UMEM frame is always in some place: the free list, one of the four    *)
(* rings, a buffer the kernel holds, or the batch that the RX thread is    *)
(* working on.  `ring' maps each place to the sequence of frames in it.    *)
(* The head of "free" is the top of the stack umem_frame_addr, the head of *)
(* any other place is its oldest entry.  Frame i is the chunk at address   *)
(* i * AFXDP_FRAME_SIZE; the kernel rounds the offset that an RX address   *)
(* carries away when the frame comes back on the fill ring.                *)
(***************************************************************************)
EXTENDS Naturals, Sequences

CONSTANTS
    NumFrames,   \* AFXDP_NUM_FRAMES
    FillSize,    \* AFXDP_FILL_RING_SIZE
    RxSize,      \* AFXDP_RX_RING_SIZE
    TxSize,      \* AFXDP_TX_RING_SIZE
    CompSize,    \* AFXDP_COMP_RING_SIZE
    BatchSize,   \* AFXDP_RX_BATCH_SIZE
    KHold,       \* most fill frames that the kernel or NIC holds at a time
    PollMode,    \* cfg.xsk_poll_mode
    TxNeedsKick  \* copy mode: the kernel transmits only inside sendto()

ASSUME SizeAssumption ==
    /\ {NumFrames, FillSize, RxSize, TxSize, CompSize, BatchSize, KHold}
           \subseteq Nat \ {0}
    /\ FillSize <= NumFrames

ASSUME ModeAssumption == {PollMode, TxNeedsKick} \subseteq BOOLEAN

Frame == 0 .. (NumFrames - 1)

\* AFXDP_INVALID_UMEM_FRAME: an address that no frame has.
Invalid == NumFrames

Place == {"free", "fill", "kheld", "rx", "batch", "tx", "infl", "comp"}

VARIABLES
    ring,         \* place -> sequence of frames
    pc,           \* where the RX thread is
    seen,         \* RX entries that the cached producer index still covers
    rcvd,         \* entries peeked from the RX ring and not yet released
    stock,        \* stock_frames
    toTx,         \* to_tx
    outstanding,  \* outstanding_tx
    kicked        \* a sendto() is being served

vars == <<ring, pc, seen, rcvd, stock, toTx, outstanding, kicked>>

Lesser(a, b) == IF a <= b THEN a ELSE b

\* How many frames are in place p.
Count(r, p) == Len(r[p])

\* The first n entries of place a go to the end of place b.
Move(r, a, b, n) ==
    [r EXCEPT ![a] = SubSeq(@, n + 1, Len(@)),
              ![b] = @ \o SubSeq(r[a], 1, n)]

\* afxdp_free_umem_frame on the first n entries of place a, oldest first.
Free(r, a, n) ==
    [r EXCEPT ![a] = SubSeq(@, n + 1, Len(@)),
              !["free"] = [i \in 1 .. (n + Len(@)) |->
                              IF i <= n THEN r[a][n + 1 - i] ELSE @[i - n]]]

\* afxdp_alloc_umem_frame called n times, each result written to the fill
\* ring: an exhausted free list yields Invalid.
AllocToFill(r, n) ==
    LET got   == Lesser(n, Count(r, "free"))
        moved == Move(r, "free", "fill", got)
    IN  [moved EXCEPT !["fill"] = @ \o [i \in 1 .. (n - got) |-> Invalid]]

\* Mutant: a refill leaves one slot of the ring empty.
FillSlotsShort(r) ==
    IF Count(r, "free") = 0 \/ Count(r, "fill") = FillSize
    THEN 0 ELSE FillSize - Count(r, "fill") - 1

\* xsk_prod_nb_free on the fill ring.  Every refill uses up the slots that
\* the producer's cached index covers, so the cached count is 0 here: it
\* satisfies a request for 0 slots, any other request reads the ring.  The
\* answer is the number of free slots, whatever number was asked for.
FillSlots(r) == IF Count(r, "free") = 0 THEN 0 ELSE FillSize - Count(r, "fill")

-----------------------------------------------------------------------------
(* afxdp_configure_socket *)

\* The free list holds every frame and the fill ring is filled from it.
Init ==
    /\ ring = AllocToFill([p \in Place |->
                               IF p = "free"
                               THEN [i \in 1 .. NumFrames |-> NumFrames - i]
                               ELSE <<>>], FillSize)
    /\ pc = "loop"
    /\ seen = 0 /\ rcvd = 0 /\ stock = 0 /\ toTx = 0 /\ outstanding = 0
    /\ kicked = FALSE

-----------------------------------------------------------------------------
(* The RX thread *)

\* Mutant: a pass never completes transmissions.
EnterPassNoDrain ==
    /\ pc = "loop"
    /\ PollMode => Count(ring, "rx") > 0
    /\ pc' = "peek"
    /\ UNCHANGED <<ring, seen, rcvd, stock, toTx, outstanding, kicked>>

\* One turn of the loop in afxdp_rx_and_process: in poll mode the pass starts
\* only when poll() reports a readable RX ring (a timeout goes round again).
\* Then the head of afxdp_complete_tx: the kernel is kicked only when frames
\* are outstanding.
EnterPass ==
    /\ pc = "loop"
    /\ PollMode => Count(ring, "rx") > 0
    /\ IF outstanding = 0
       THEN pc' = "peek" /\ UNCHANGED kicked
       ELSE pc' = "drain" /\ kicked' = TRUE
    /\ UNCHANGED <<ring, seen, rcvd, stock, toTx, outstanding>>

\* Mutant: outstanding_tx is not brought down.
DrainUncounted ==
    /\ pc = "drain"
    /\ ring' = Free(ring, "comp", Count(ring, "comp"))
    /\ kicked' = FALSE
    /\ pc' = "peek"
    /\ UNCHANGED <<seen, rcvd, stock, toTx, outstanding>>

\* The rest of afxdp_complete_tx: everything on the completion ring is freed.
DrainCompletions ==
    /\ pc = "drain"
    /\ LET completed == Count(ring, "comp") IN
       /\ ring' = Free(ring, "comp", completed)
       /\ outstanding' = outstanding - Lesser(completed, outstanding)
    /\ kicked' = FALSE
    /\ pc' = "peek"
    /\ UNCHANGED <<seen, rcvd, stock, toTx>>

\* Mutant: the cached index moves by the batch that was asked for.
PeekRxAsked ==
    /\ pc = "peek"
    /\ LET avail == IF seen > 0 THEN seen ELSE Count(ring, "rx")
           n     == Lesser(avail, BatchSize)
       IN  /\ ring' = Move(ring, "rx", "batch", n)
           /\ seen' = avail - BatchSize
           /\ rcvd' = n
           /\ pc' = IF n = 0 THEN "loop" ELSE "stock"
    /\ UNCHANGED <<stock, toTx, outstanding, kicked>>

\* xsk_ring_cons__peek on the RX ring: the producer index is read again only
\* when the cached one shows nothing; no packet ends the pass.
PeekRx ==
    /\ pc = "peek"
    /\ LET avail == IF seen > 0 THEN seen ELSE Count(ring, "rx")
           n     == Lesser(avail, BatchSize)
       IN  /\ ring' = Move(ring, "rx", "batch", n)
           /\ seen' = avail - n
           /\ rcvd' = n
           /\ pc' = IF n = 0 THEN "loop" ELSE "stock"
    /\ UNCHANGED <<stock, toTx, outstanding, kicked>>

\* stock_frames is read from the fill ring ...
ReadStock ==
    /\ pc = "stock"
    /\ stock' = FillSlots(ring)
    /\ pc' = "refill"
    /\ UNCHANGED <<ring, seen, rcvd, toTx, outstanding, kicked>>

\* ... and, once that many slots are reserved, that many addresses are
\* written and submitted.
RefillFillRing ==
    /\ pc = "refill"
    /\ stock <= FillSize - Count(ring, "fill")
    /\ ring' = AllocToFill(ring, stock)
    /\ pc' = "reserve"
    /\ UNCHANGED <<seen, rcvd, stock, toTx, outstanding, kicked>>

\* to_tx is what fits on the TX ring.  (The cached consumer index never
\* changes the answer: it is used only when it already covers the batch.)
ReserveTx ==
    /\ pc = "reserve"
    /\ toTx' = Lesser(TxSize - Count(ring, "tx"), rcvd)
    /\ pc' = "bounce"
    /\ UNCHANGED <<ring, seen, rcvd, stock, outstanding, kicked>>

\* Mutant: packets sent stay among those to be freed.
BounceKeeping ==
    /\ pc = "bounce"
    /\ ring' = [ring EXCEPT !["tx"] = @ \o SubSeq(ring["batch"], 1, toTx)]
    /\ outstanding' = outstanding + toTx
    /\ pc' = "release"
    /\ UNCHANGED <<seen, rcvd, stock, toTx, kicked>>

\* The first to_tx packets of the batch are submitted for transmission.
BounceBatch ==
    /\ pc = "bounce"
    /\ ring' = Move(ring, "batch", "tx", toTx)
    /\ outstanding' = outstanding + toTx
    /\ pc' = "release"
    /\ UNCHANGED <<seen, rcvd, stock, toTx, kicked>>

\* Mutant: the packets that did not fit are forgotten.
ReleaseOnly ==
    /\ pc = "release"
    /\ ring' = [ring EXCEPT !["batch"] = <<>>]
    /\ rcvd' = 0
    /\ pc' = "loop"
    /\ UNCHANGED <<seen, stock, toTx, outstanding, kicked>>

\* The packets that did not fit are freed, then the RX entries are released.
FreeRestAndRelease ==
    /\ pc = "release"
    /\ ring' = Free(ring, "batch", rcvd - toTx)
    /\ rcvd' = 0
    /\ pc' = "loop"
    /\ UNCHANGED <<seen, stock, toTx, outstanding, kicked>>

RxThread ==
    \/ EnterPass \/ DrainCompletions \/ PeekRx \/ ReadStock
    \/ RefillFillRing \/ ReserveTx \/ BounceBatch \/ FreeRestAndRelease

-----------------------------------------------------------------------------
(* The kernel side of the rings (external) *)

LeaveThread == UNCHANGED <<pc, seen, rcvd, stock, toTx, outstanding, kicked>>

\* The kernel takes a receive buffer from the fill ring.
KernelTakeFill ==
    /\ Count(ring, "fill") > 0 /\ ring["fill"][1] # Invalid
    /\ Count(ring, "kheld") < KHold
    /\ ring' = Move(ring, "fill", "kheld", 1)
    /\ LeaveThread

\* An address outside the UMEM is skipped.
KernelSkipInvalid ==
    /\ Count(ring, "fill") > 0 /\ ring["fill"][1] = Invalid
    /\ ring' = [ring EXCEPT !["fill"] = Tail(@)]
    /\ LeaveThread

\* A packet arrives and the kernel puts it on the RX ring.  Without a free
\* entry the packet is dropped and the kernel keeps the buffer.
KernelDeliver ==
    /\ Count(ring, "kheld") > 0
    /\ Count(ring, "rx") + rcvd < RxSize
    /\ ring' = Move(ring, "kheld", "rx", 1)
    /\ LeaveThread

\* The kernel takes a packet from the TX ring; it first makes sure of an entry
\* on the completion ring.
KernelTakeTx ==
    /\ Count(ring, "tx") > 0
    /\ TxNeedsKick => kicked
    /\ Count(ring, "infl") + Count(ring, "comp") < CompSize
    /\ ring' = Move(ring, "tx", "infl", 1)
    /\ LeaveThread

\* The transmission ends.
KernelCompleteTx ==
    /\ Count(ring, "infl") > 0
    /\ ring' = Move(ring, "infl", "comp", 1)
    /\ LeaveThread

Kernel ==
    \/ KernelTakeFill \/ KernelSkipInvalid \/ KernelDeliver
    \/ KernelTakeTx \/ KernelCompleteTx

Next == RxThread \/ Kernel

Spec == Init /\ [][Next]_vars

\* The RX thread spins; the kernel serves a kick (inside the system call, so
\* again and again), ends the transmissions it began and takes fill frames.
\* Nothing makes packets arrive.
Fairness ==
    /\ WF_vars(RxThread)
    /\ SF_vars(KernelTakeTx)
    /\ WF_vars(KernelCompleteTx)
    /\ WF_vars(KernelTakeFill)
    /\ WF_vars(KernelSkipInvalid)

FairSpec == Spec /\ Fairness

-----------------------------------------------------------------------------
(* Properties *)

TypeOK ==
    /\ ring \in [Place -> Seq(0 .. NumFrames)]
    /\ pc \in {"loop", "drain", "peek", "stock", "refill", "reserve",
               "bounce", "release"}
    /\ seen \in Nat /\ rcvd \in Nat /\ stock \in Nat /\ toTx \in Nat
    /\ outstanding \in Nat
    /\ kicked \in BOOLEAN

\* A frame is never in two entries at once: the kernel never receives into a
\* frame that is being transmitted and no frame is freed twice.
FrameExclusive ==
    \A p, q \in Place : \A i \in 1 .. Len(ring[p]), j \in 1 .. Len(ring[q]) :
        ring[p][i] = ring[q][j] /\ ring[p][i] # Invalid => p = q /\ i = j

\* No frame is ever lost, whatever mixture of partial transmissions, full
\* rings and early returns the passes go through.
FrameConserved ==
    \A f \in Frame : \E p \in Place : \E i \in 1 .. Len(ring[p]) : ring[p][i] = f

\* outstanding_tx counts exactly the frames that the transmit side still owes:
\* it is 0, and completions go unread, only when there is none.
OutstandingExact ==
    outstanding = Count(ring, "tx") + Count(ring, "infl") + Count(ring, "comp")

\* No ring ever holds more than its size (RX entries count until released).
RingsBounded ==
    /\ Count(ring, "fill") <= FillSize
    /\ Count(ring, "rx") + rcvd <= RxSize
    /\ Count(ring, "tx") <= TxSize
    /\ Count(ring, "infl") + Count(ring, "comp") <= CompSize

\* The pool holds a frame for every ring entry and every buffer the kernel keeps.
PoolCoversRings == NumFrames >= FillSize + RxSize + TxSize + CompSize + KHold

\* "We push as many free frames as we have available": what is pushed on the
\* fill ring is a frame, never the sentinel of an exhausted free list.
NoInvalidFill ==
    \A p \in Place : \A i \in 1 .. Len(ring[p]) : ring[p][i] # Invalid

\* The receive side always has a full fill ring's worth of frames: the kernel
\* can be out of receive buffers only while packets wait for the RX thread.
RxSupplied ==
    Count(ring, "fill") + Count(ring, "kheld") + Count(ring, "rx")
        + (IF pc \in {"stock", "refill"} THEN rcvd ELSE 0) >= FillSize

In(f, p) == \E i \in 1 .. Len(ring[p]) : ring[p][i] = f

\* Every frame put on the TX ring comes back to the free list: "without this,
\* the TX ring fills up and never recovers".
EventuallyReclaimed ==
    \A f \in Frame : In(f, "tx") ~> In(f, "free")

\* A packet that has reached the RX ring is taken by the RX thread and either
\* leaves for the wire or is dropped; it never stays on the way.
EventuallyProcessed ==
    \A f \in Frame : In(f, "rx") ~> (In(f, "infl") \/ In(f, "free"))
=============================================================================

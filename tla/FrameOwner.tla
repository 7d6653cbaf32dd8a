---------------------------- MODULE FrameOwner ----------------------------
(***************************************************************************)
(* What the frame pool of an AF_XDP socket promises, without rings, cached *)
(* indices and counters: a UMEM frame has one owner at a time, and the     *)
(* ownership goes round                                                    *)
(*                                                                         *)
(*      pool -> receive -> thread -> transmit -> pool                      *)
(*                           |                     ^                       *)
(*                           +---------------------+                       *)
(*                                                                         *)
(* A batch is settled to the last frame before the next one is taken.      *)
(***************************************************************************)
EXTENDS Naturals, FiniteSets

CONSTANTS Frame, Batch, TxCapacity

VARIABLE owner

Owned(o) == {f \in Frame : owner[f] = o}

Give(S, o) == owner' = [f \in Frame |-> IF f \in S THEN o ELSE owner[f]]

Init == owner \in [Frame -> {"pool", "receive"}]

\* Free frames are given to the kernel to receive into.
Supply == \E S \in SUBSET Owned("pool") : Give(S, "receive")

\* The RX thread takes a batch of received packets, when it has none.
Take ==
    /\ Owned("thread") = {}
    /\ \E S \in SUBSET Owned("receive") :
           Cardinality(S) <= Batch /\ Give(S, "thread")

\* Some of the batch is sent, as far as the kernel has room.
Send ==
    \E S \in SUBSET Owned("thread") :
        /\ Cardinality(Owned("transmit") \cup S) <= TxCapacity
        /\ Give(S, "transmit")

\* The rest of the batch is dropped, all of it.
Drop == Give(Owned("thread"), "pool")

\* Frames that have been transmitted return to the pool.
Reclaim == \E S \in SUBSET Owned("transmit") : Give(S, "pool")

Next == Supply \/ Take \/ Send \/ Drop \/ Reclaim

Spec == Init /\ [][Next]_owner
=============================================================================

-------------------------- MODULE AfxdpUmemOwner --------------------------
(* The frame pool implements the ownership of frames: the places of the    *)
(* detailed model belong to the four owners of FrameOwner.                 *)
EXTENDS AfxdpUmem

OwnerOf(p) ==
    CASE p = "free"                    -> "pool"
      [] p \in {"fill", "kheld", "rx"} -> "receive"
      [] p = "batch"                   -> "thread"
      [] p \in {"tx", "infl", "comp"}  -> "transmit"

Holds(r, p, f) == \E i \in 1 .. Len(r[p]) : r[p][i] = f

\* A frame that is lost, or that two parties have, has no owner at all.
OwnersIn(r) ==
    [f \in Frame |->
        LET owners == {OwnerOf(p) : p \in {q \in Place : Holds(r, q, f)}} IN
        IF \E o \in owners : owners = {o}
        THEN CHOOSE o \in owners : TRUE
        ELSE "nobody"]

OwnerMap == OwnersIn(ring)

Owners == INSTANCE FrameOwner WITH
              Batch <- BatchSize, TxCapacity <- TxSize + CompSize,
              owner <- OwnerMap

\* afxdp_handle_receive and afxdp_complete_tx, interleaved with the kernel,
\* pass frames on only as the ownership protocol allows: a batch is settled
\* before the next is taken, nothing jumps from the receive side to the
\* transmit side or back, and nothing is given away by a party without it.
OwnershipFollowed == Owners!Spec
=============================================================================

------------------------------- MODULE NfSide -------------------------------
(***************************************************************************)
(* What an NF process does, for any constants: the shared core mode (the   *)
(* module extended), and next to it services of nflib and example NFs.     *)
(* These share nothing.  A behaviour is about one of them, named by which, *)
(* and has its variables in v1, v2 ...                                     *)
(***************************************************************************)
EXTENDS SharedCore, Integers, FiniteSets

CONSTANTS
    Nf, Buf, QueueSize, MaxRequests,        \* of MgrRequest
    Key, HwRss, SoftRss, Slot, Addr,        \* of FlowDir
    Destination, Builds, MaxChain,
    Flow, ExpireTime, MaxTime,              \* of LoadBalancer and FlowTracker
    Backends, TableSize,                    \* of LoadBalancer
    TblSize, PrintDelay, MaxPackets,        \* of FlowTracker (and Firewall)
    Bits, RuleSets, MaxRules, ActionWidth,  \* of Firewall
    Programs, Inside, Outside, Threshold,   \* of NfdNfs
    FirstPort, PortWidth, SrcPorts, NfdPackets,
    IdLists, Ips, IpLists, Routers,         \* of PortNfs
    EntryNumbers, HashEntries, LineWidth, FwdPackets,
    Rate, Depth, Hz, CycleWidth, PacketSizes, \* of TokenBucket
    MaxCycles, MaxSent,
    QueueOf, NumQueues, FqSize, Batch, TxRing, \* of FairQueue
    Capa, Payloads, Leftover, Room,         \* of PktHelper
    PoolSize, MsgRing, Burst,               \* of TestMessaging
    MaxStrangers, MaxLate

ASSUME PoolAssumption ==
    IsFiniteSet(Nf) /\ Nf # {} /\ IsFiniteSet(Buf) /\ Buf # {}

ASSUME FlowAssumption ==
    /\ IsFiniteSet(Flow) /\ ExpireTime \in Nat
    /\ Backends \subseteq Nat /\ TableSize \in Nat /\ TblSize \in Nat

\* A rule with an action has all that the firewall reads of it.
ASSUME RuleAssumption ==
    /\ Bits \in Nat /\ MaxRules \in Nat /\ ActionWidth \in Nat \ {0}
    /\ \A file \in RuleSets :
          /\ Len(file) \in Nat /\ DOMAIN file = 1 .. Len(file)
          /\ \A i \in 1 .. Len(file) : "action" \in DOMAIN file[i] =>
                file[i] \in [ip : [1 .. Bits -> {0, 1}], depth : Int, action : Int]

\* A ring has a slot that stays empty.
ASSUME MessageAssumption ==
    PoolSize \in Nat /\ MsgRing \in Nat \ {0} /\ Burst \in Nat

\* An address is in the network that the rules allow or it is not.
ASSUME NfdAssumption ==
    /\ Inside \cap Outside = {} /\ Threshold \in Nat \ {0}
    /\ FirstPort \in Nat /\ PortWidth \in Nat \ {0}

\* No port is listed twice.
ASSUME PortAssumption ==
    \A l \in IdLists :
        l \in Seq(Nat) /\ \A i, j \in 1 .. Len(l) : l[i] = l[j] => i = j

\* Lengths and the bucket are numbers of bytes, and there is a timer.
ASSUME BucketAssumption ==
    Rate \in Nat /\ Depth \in Nat /\ Hz \in Nat \ {0} /\ CycleWidth \in Nat \ {0} /\ PacketSizes \subseteq Nat

\* A packet goes to one of the queues or to none.
ASSUME QueueAssumption ==
    /\ NumQueues \in Nat \ {0} /\ FqSize \in Nat \ {0}
    /\ QueueOf \in Seq((0 .. NumQueues - 1) \cup {-1})

\* The lengths of packets, and what is left in a header, are 16-bit numbers.
ASSUME HeaderAssumption ==
    /\ \A n \in Payloads : n \in Nat /\ n + 24 <= 65535
    /\ \A l \in Leftover : l \in Nat /\ l <= 65535

VARIABLES
    which,   \* the component that a behaviour is about
    v1, v2, v3, v4, v5, v6, v7, v8, v9, v10   \* its variables

Req == INSTANCE MgrRequest WITH pool <- v1, body <- v2, queue <- v3,
    inbox <- v4, status <- v5, pc <- v6, early <- v7, count <- v8
Director == INSTANCE FlowDir WITH hash <- v1, data <- v2, chain <- v3,
    nf <- v4, broken <- v5
ASSUME ChainAssumption == Director!Sized
Lb == INSTANCE LoadBalancer WITH server_count <- v1, ft <- v2,
    num_stored <- v3, elapsed <- v4, clock <- v5, out <- v6
Ft == INSTANCE FlowTracker WITH ft <- v1, num_stored <- v2, elapsed <- v3,
    last_cycles <- v4, clock <- v5, seen <- v6
Fw == INSTANCE Firewall WITH rules <- v1, lpm <- v2, pc <- v3, next <- v4,
    stats <- v5, done <- v6, Width <- ActionWidth
Nfd == INSTANCE NfdNfs WITH nf <- v1, mem <- v2, pc <- v3, out <- v4,
    hist <- v5, Nfs <- Programs, Width <- PortWidth, MaxPackets <- NfdPackets
Fwd == INSTANCE PortNfs WITH nf <- v1, ids <- v2, pc <- v3, tab <- v4,
    stat <- v5, log <- v6, RouterFiles <- Routers, Width <- LineWidth,
    MaxPackets <- FwdPackets
Tb == INSTANCE TokenBucket WITH clock <- v1, tokens <- v2, last <- v3,
    pc <- v4, pkt <- v5, exit <- v6, sent <- v7, Sizes <- PacketSizes,
    Width <- CycleWidth, MaxTime <- MaxCycles
Fq == INSTANCE FairQueue WITH rx <- v1, tx <- v2, fq <- v3, lock <- v4,
    ring <- v5, next <- v6, exit <- v7, drops <- v8, out <- v9, waits <- v10,
    QueueSize <- FqSize, RingSize <- TxRing
Helper == INSTANCE PktHelper WITH pool <- v1, pkt <- v2, lost <- v3
Msg == INSTANCE TestMessaging WITH ts <- v1, q <- v2, late <- v3, pc <- v4,
    strangers <- v5, timeouts <- v6, RingSize <- MsgRing
=============================================================================

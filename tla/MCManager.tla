----------------------------- MODULE MCManager -----------------------------
(***************************************************************************)
(* Small instances of what the manager process does: the sessions of the   *)
(* AF_XDP manager (the module extended, with constants in the cfg files)   *)
(* and next to them its configuration, the frame pool of one session in    *)
(* busy-wait mode, the start of the DPDK manager and the statistics.       *)
(* These share nothing: which picks one for a behaviour, and the variables *)
(* of the others do not change.                                            *)
(***************************************************************************)
EXTENDS AfxdpManager, Integers, FiniteSets

CONSTANTS   \* of MgrStart
    LcoreCounts, Cpus, TotalPorts, PortMasks, CoreMasks, MAX_NFS, MaxServices,
    WakeupThreads, MaxOptions, MaxShutdownIters, MaxLinkChecks
CONSTANTS   \* of AfxdpSetup (with MaxOptions)
    Queues, MaxEntries, MaxPackets
CONSTANTS   \* of Stats
    Ports, Nfs, ServiceOf, MaxCount

VARIABLES
    which,   \* the component that a behaviour is about
    v1, v2, v3, v4, v5, v6, v7, v8, v9, v10   \* its variables

\* Values of the cfg: numbers given with -Q, and the service of the NF displayed.
QueueNumbers == {-1, 1, 2}
NfServices == <<"s">>

Setup == INSTANCE AfxdpSetup WITH cfg <- v1, options <- v2, pc <- v3,
    nic <- v4, file <- v5, xsks_map <- v6, xdp_stats_map <- v7, packets <- v8
ASSUME SetupAssumption == Queues \subseteq Int /\ MaxEntries \in Nat /\ MaxEntries >= 2
Pool == INSTANCE AfxdpUmem WITH ring <- v1, pc <- v2, seen <- v3, rcvd <- v4,
    stock <- v5, toTx <- v6, outstanding <- v7, kicked <- v8, NumFrames <- 7,
    FillSize <- 1, RxSize <- 2, TxSize <- 2, CompSize <- 1, BatchSize <- 2,
    KHold <- 1, PollMode <- FALSE, TxNeedsKick <- TRUE
Start == INSTANCE MgrStart WITH pc <- v1, lcores <- v2, ports <- v3,
    started <- v4, cores <- v5, num_services <- v6, services <- v7,
    share <- v8, workers <- v9, count <- v10
ASSUME StartAssumption == Start!Configuration
Display == INSTANCE Stats WITH status <- v1, count <- v2, last <- v3,
    disp <- v4, total <- v5, printed <- v6, shown <- v7, missed <- v8,
    stale <- v9
ASSUME StatsAssumption ==
    /\ Ports \subseteq Nat /\ Nfs \subseteq Nat
    /\ IsFiniteSet(Nfs) /\ Ports \cup Nfs # {}

parts == <<v1, v2, v3, v4, v5, v6, v7, v8, v9, v10>>
all   == <<which, vars, parts>>

InitAll ==
    /\ Init
    /\ \/ which = "manager" /\ v1 = 0 /\ v2 = 0 /\ v3 = 0 /\ v4 = 0 /\ v5 = 0
          /\ v6 = 0 /\ v7 = 0 /\ v8 = 0 /\ v9 = 0 /\ v10 = 0
       \/ which = "setup" /\ Setup!Init /\ v9 = 0 /\ v10 = 0
       \/ which = "pool" /\ Pool!Init /\ v9 = 0 /\ v10 = 0
       \/ which = "start" /\ Start!Init
       \/ which = "stats" /\ Display!Init /\ v10 = 0

Others(x) == which = x /\ UNCHANGED <<which, vars>>

NextAll ==
    \/ which = "manager" /\ Next /\ UNCHANGED <<which, parts>>
    \/ Others("setup") /\ Setup!Next /\ UNCHANGED <<v9, v10>>
    \/ Others("pool") /\ Pool!Next /\ UNCHANGED <<v9, v10>>
    \/ Others("start") /\ Start!Next
    \/ Others("stats") /\ Display!Next /\ UNCHANGED v10
    \/ which # "manager" /\ UNCHANGED all   \* only sessions are asked for deadlocks

SafeAll == InitAll /\ [][NextAll]_all

\* The fairness of AfxdpManager and of AfxdpUmem.
FairAll ==
    /\ SafeAll
    /\ WF_all(which = "manager" /\ pc # "idle" /\ MainThread /\ UNCHANGED <<which, parts>>)
    /\ WF_all(which = "manager" /\ RxThread /\ UNCHANGED <<which, parts>>)
    /\ WF_all(which = "manager" /\ MgrThread /\ UNCHANGED <<which, parts>>)
    /\ WF_all(which = "manager" /\ WakeLoop /\ UNCHANGED <<which, parts>>)
    /\ WF_all(Others("pool") /\ Pool!RxThread /\ UNCHANGED <<v9, v10>>)
    /\ SF_all(Others("pool") /\ Pool!KernelTakeTx /\ UNCHANGED <<v9, v10>>)
    /\ WF_all(Others("pool") /\ Pool!KernelCompleteTx /\ UNCHANGED <<v9, v10>>)
    /\ WF_all(Others("pool") /\ Pool!KernelTakeFill /\ UNCHANGED <<v9, v10>>)
    /\ WF_all(Others("pool") /\ Pool!KernelSkipInvalid /\ UNCHANGED <<v9, v10>>)

-----------------------------------------------------------------------------
\* Whatever options were given and whatever the host is like, the AF_XDP mode that
\* runs is coherent, and the XDP program it loads leaves ARP, truncated packets and
\* other queues to the host (afxdp_parse_args, afxdp_preflight_checks, xdp_sock_prog).
SetupSound ==
    which = "setup" => Setup!LoadsCoherent /\ Setup!HostKeepsItsOwn

\* Frame f is in place p of the pool.
At(f, p) == which = "pool" /\ Pool!In(f, p)

\* EventuallyReclaimed and EventuallyProcessed of AfxdpUmem: received packets leave, and the
\* frames of those that were sent return to the free list, although only passes of the RX
\* thread kick the kernel and read its completions (afxdp_handle_receive, afxdp_complete_tx).
FramesComeBack ==
    \A f \in Pool!Frame :
        /\ At(f, "tx") ~> At(f, "free")
        /\ At(f, "rx") ~> (At(f, "infl") \/ At(f, "free"))

\* A running DPDK manager has each instance id polled by one TX thread and, in shared
\* core mode, watched by one wakeup thread; each thread found a free lcore, and each
\* port was started once (main, init).
ThreadsCoverNfs ==
    which = "start" => Start!NfsPartitioned /\ Start!SleepersWatched /\ Start!LcoresSuffice /\ Start!PortsStartedOnce

\* The rates displayed add up to the counters, but for packets that came while a line
\* was printed; none is a negative difference, unless an id was used again; a service's
\* totals are those of its lines (onvm_stats_display_ports, onvm_stats_display_nfs).
RatesHonest ==
    which = "stats" => Display!RatesAddUp /\ Display!NoUnderflow /\ Display!TotalsMatch
=============================================================================

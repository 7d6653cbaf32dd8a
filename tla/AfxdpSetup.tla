----------------------------- MODULE AfxdpSetup -----------------------------
(***************************************************************************)
(* What the AF_XDP manager does before its program is loaded, and what the *)
(* program then does with packets: afxdp_parse_args option by option,      *)
(* afxdp_preflight_checks check by check (onvm_afxdp.c), and xdp_sock_prog *)
(* with its two maps (af_xdp_kern.c).  The state of the machine that the   *)
(* checks look at may change between two of them.                          *)
(***************************************************************************)
EXTENDS Integers, Sequences, FiniteSets

CONSTANTS
    MaxOptions,     \* bound: options on the command line
    Queues,         \* queue indices that -Q may name
    MaxEntries,     \* max_entries of the two maps (64)
    MaxPackets      \* bound: packets that arrive

VARIABLES
    cfg,            \* struct afxdp_config
    options,        \* options read so far
    pc,             \* "args", the check that is next, "load", "running", "failed"
    nic,            \* whether it is there, driver, number of RX queues (0: not readable)
    file,           \* the object file can be read
    xsks_map,       \* queues with a socket
    xdp_stats_map,  \* packets counted per queue
    packets         \* history: the packets and where they went

vars == <<cfg, options, pc, nic, file, xsks_map, xdp_stats_map, packets>>

\* What the checks find out; a driver that cannot be found out is "other".
Nic == [there : {TRUE}, driver : {"native", "other"}, queues : {0, 1, 2},
        kernel : {<<4, 17>>, <<5, 0>>}]
Gone == [there |-> FALSE, driver |-> "other", queues |-> 0, kernel |-> nic.kernel]

\* afxdp_parse_args: the defaults.
Defaults == [ifname |-> "eth0", mode |-> "unspec", bind |-> {}, queue |-> 0,
             obj |-> "", prog |-> "", custom |-> FALSE]

Init ==
    /\ cfg = Defaults /\ options = 0 /\ pc = "args"
    /\ nic \in Nic /\ file \in BOOLEAN
    /\ xsks_map = {} /\ xdp_stats_map = [q \in 0 .. MaxEntries - 1 |-> 0]
    /\ packets = <<>>

\* One option of the loop; the others (-v, -p, -t, -l) set values that nothing
\* here reads.
Option ==
    /\ pc = "args" /\ options < MaxOptions /\ options' = options + 1
    /\ \/ cfg' = [cfg EXCEPT !.mode = "skb", !.bind = @ \cup {"copy"}]
       \/ cfg' = [cfg EXCEPT !.mode = "native"]
       \/ \E b \in {"copy", "zerocopy"} : cfg' = [cfg EXCEPT !.bind = @ \cup {b}]
       \/ \E q \in Queues : cfg' = [cfg EXCEPT !.queue = q]
       \/ cfg' = [cfg EXCEPT !.obj = "own", !.custom = TRUE]
       \/ cfg' = [cfg EXCEPT !.prog = "own"]
       \/ \E n \in {"eth0", "none"} : cfg' = [cfg EXCEPT !.ifname = n]
    /\ UNCHANGED <<pc, nic, file, xsks_map, xdp_stats_map, packets>>

\* The program that is loaded if none is named with -f: -P alone is overwritten.
WithProgram(c) ==
    [(IF c.custom THEN c ELSE [c EXCEPT !.obj = "default", !.prog = "default"])
     EXCEPT !.custom = TRUE]

\* The end of afxdp_parse_args: an interface that does not exist ends the process.
ArgsDone ==
    /\ pc = "args"
    /\ IF cfg.ifname = "none" THEN pc' = "exited" /\ cfg' = cfg
       ELSE pc' = "state" /\ cfg' = WithProgram(cfg)
    /\ UNCHANGED <<options, nic, file, xsks_map, xdp_stats_map, packets>>

-----------------------------------------------------------------------------
(* afxdp_preflight_checks.  An interface that is down (1) and missing       *)
(* hugepages (6) only warn.                                                  *)

Check(from, ok, to) ==
    /\ pc = from /\ pc' = IF ok THEN to ELSE "failed"
    /\ UNCHANGED <<cfg, options, nic, file, xsks_map, xdp_stats_map, packets>>

CheckState == Check("state", nic.there, "driver")
CheckDriver == Check("driver", cfg.mode = "native" => nic.driver = "native", "queue")
CheckQueue == Check("queue", nic.queues > 0 => cfg.queue < nic.queues, "object")
CheckObject == Check("object", file, "kernel")
CheckKernel == Check("kernel", nic.kernel[1] > 4 \/ (nic.kernel[1] = 4 /\ nic.kernel[2] >= 18),
                     "flags")

\* Mutant: copy and zero-copy are not told apart.
CheckNoFlags == Check("flags", TRUE, "zerocopy")

CheckFlags == Check("flags", ~({"copy", "zerocopy"} \subseteq cfg.bind), "zerocopy")
CheckZero == Check("zerocopy", ~("zerocopy" \in cfg.bind /\ cfg.mode = "skb"), "load")

\* afxdp_configure_socket: the kernel refuses a queue that is not there.
Load ==
    /\ pc = "load"
    /\ IF nic.there /\ cfg.queue \in DOMAIN xdp_stats_map /\ (nic.queues > 0 => cfg.queue < nic.queues)
       THEN pc' = "running" /\ xsks_map' = {cfg.queue}
       ELSE pc' = "failed" /\ UNCHANGED xsks_map
    /\ UNCHANGED <<cfg, options, nic, file, xdp_stats_map, packets>>

\* The machine changes while the manager starts: the interface goes away,
\* queues are taken away with ethtool, the object file is rebuilt.
MachineChanges ==
    /\ pc \notin {"running", "failed", "exited"}
    /\ \/ nic' = Gone /\ UNCHANGED file
       \/ nic.queues = 2 /\ nic' = [nic EXCEPT !.queues = 1] /\ UNCHANGED file
       \/ file' = ~file /\ UNCHANGED nic
    /\ UNCHANGED <<cfg, options, pc, xsks_map, xdp_stats_map, packets>>

-----------------------------------------------------------------------------
(* xdp_sock_prog.  A packet is its first bytes: what they are, and how much  *)
(* of them is there.  A later fragment of an IPv4 packet says TCP in its IP  *)
(* header, and has payload where the ports would be.                         *)

Packet ==
    [proto : {"arp", "ip", "ip6"}, l4 : {"tcp", "udp"}, ssh : BOOLEAN,
     cut : {"eth", "ip", "tcp", "whole"}, fragment : BOOLEAN]

\* Ports are read only where the header is; in a later fragment they are not 22.
PortIs22(p) == p.ssh /\ ~p.fragment

\* The packets that the program leaves to the host.
Passed(p) ==
    \/ p.cut = "eth"
    \/ p.proto = "arp"
    \/ /\ p.proto = "ip"
       /\ \/ p.cut = "ip"
          \/ p.l4 = "tcp" /\ (p.cut = "tcp" \/ PortIs22(p))

\* The rest is counted, and redirected if the queue has a socket.
xdp_sock_prog(p, q) ==
    /\ pc = "running" /\ Len(packets) < MaxPackets
    /\ IF Passed(p)
       THEN /\ packets' = Append(packets, [p |-> p, q |-> q, to |-> "host"])
            /\ UNCHANGED xdp_stats_map
       ELSE /\ xdp_stats_map' = IF q \in DOMAIN xdp_stats_map
                                THEN [xdp_stats_map EXCEPT ![q] = @ + 1] ELSE xdp_stats_map
            /\ packets' = Append(packets, [p |-> p, q |-> q,
                             to |-> IF q \in xsks_map THEN "socket" ELSE "host"])
    /\ UNCHANGED <<cfg, options, pc, nic, file, xsks_map>>

Next ==
    \/ Option \/ ArgsDone
    \/ CheckState \/ CheckDriver \/ CheckQueue \/ CheckObject \/ CheckKernel \/ CheckFlags \/ CheckZero
    \/ Load \/ MachineChanges
    \/ \E p \in Packet, q \in {0, 1} : xdp_sock_prog(p, q)

Spec == Init /\ [][Next]_vars

-----------------------------------------------------------------------------
\* Whatever the order of the options, what runs is coherent:
\* zero-copy never together with copy or with generic mode, native mode only on
\* a driver known for it, and a program name only with the file it was given for.
LoadsCoherent ==
    pc = "running" =>
        /\ "zerocopy" \in cfg.bind => cfg.bind = {"zerocopy"} /\ cfg.mode # "skb"
        /\ cfg.mode = "native" => nic.driver = "native"
        /\ cfg.obj = "default" <=> cfg.prog = "default"

\* Truncated packets, ARP and packets of other queues are the host's, and what
\* the socket gets has been counted on its queue.
HostKeepsItsOwn ==
    /\ \A i \in DOMAIN packets :
          LET r == packets[i] IN
          r.to = "socket" => r.q = cfg.queue /\ r.p.proto # "arp" /\ r.p.cut # "eth" /\
                             (r.p.proto = "ip" => r.p.cut # "ip" /\ (r.p.l4 = "tcp" => r.p.cut = "whole"))
    /\ Cardinality({i \in DOMAIN packets : packets[i].to = "socket"}) <= xdp_stats_map[0] + xdp_stats_map[1]
=============================================================================

------------------------------ MODULE PortNfs ------------------------------
(***************************************************************************)
(* The example NFs that choose a port or an NF for each packet: l2fwd,     *)
(* l3fwd (longest prefix or exact match), bridge, arp_response and         *)
(* nf_router.  nf says which one runs; each reads its arguments, sets its  *)
(* tables up from ports->id and handles packets one by one.  An address is *)
(* <<network, host>>; the argument strings are the values they stand for.  *)
(***************************************************************************)
EXTENDS Integers, Sequences, FiniteSets, SequencesExt

CONSTANTS
    IdLists,        \* values of ports->id, up to num_ports
    Ips,            \* addresses in packets
    IpLists,        \* -s of arp_response
    RouterFiles,    \* -f of nf_router: [count, lines], a line is [ip, dest]
    EntryNumbers,   \* -h of l3fwd
    HashEntries,    \* L3FWD_HASH_ENTRIES
    Width,          \* 2^8: nf_count and dest of the router
    MaxPackets      \* bound: packets handled

VARIABLES
    nf,             \* the NF that runs
    ids,            \* ports->id
    pc,             \* "start", "running", "exited" or "crashed"
    tab,            \* the NF's options and tables
    stat,           \* l2fwd: port_statistics
    log             \* history: the packets and what became of them

vars == <<nf, ids, pc, tab, stat, log>>

Nfs     == {"l2fwd", "l3fwd", "bridge", "arp", "router"}
Enabled == Range(ids)
Port    == UNION {Range(l) : l \in IdLists}
Zero    == <<>>                             \* 0.0.0.0
Default == 4                                \* HASH_ENTRY_NUMBER_DEFAULT
NoStat  == [rx |-> [p \in Port |-> 0], tx |-> [p \in Port |-> 0]]

Init ==
    /\ nf \in Nfs /\ ids \in IdLists /\ pc = "start"
    /\ tab = {} /\ stat = NoStat /\ log = <<>>

\* main: the NF that cannot go on calls onvm_nflib_stop and rte_exit.
Start(t) == pc' = "running" /\ tab' = t /\ UNCHANGED <<nf, ids, stat, log>>
Leave(how) == pc' = how /\ UNCHANGED <<nf, ids, tab, stat, log>>

\* An option that getopt does not know, or that lacks its argument.
BadOption == pc = "start" /\ Leave("exited")

-----------------------------------------------------------------------------

\* l2fwd_set_dest_ports: neighbours in the mask forward into each other, the odd
\* port out into itself.
SetDestPorts ==
    [p \in Enabled |->
        LET i == CHOOSE k \in DOMAIN ids : ids[k] = p
        IN  IF i % 2 = 0 THEN ids[i - 1] ELSE IF i < Len(ids) THEN ids[i + 1] ELSE p]

L2Start ==
    /\ pc = "start" /\ nf = "l2fwd"
    /\ IF ids = <<>> THEN Leave("exited")
       ELSE \E mac \in BOOLEAN : Start([mac |-> mac, dst |-> SetDestPorts])

\* get_initialized_ports.
GetInitializedPorts(p) == p \in Enabled

\* setup_lpm: network i goes to port i, routes to unused ports are left out.
SetupLpm == {i \in 0 .. 7 : GetInitializedPorts(i)}

\* populate_ipv4_few and _many: route i of the array as it is (host 0), or its
\* copies with other hosts.
SetupHash(n) ==
    IF n = Default THEN {<<i, 0>> : i \in 0 .. 3} ELSE {<<i % 4, 1 + i \div 4>> : i \in 0 .. n - 1}

\* nf_setup of l3fwd; the request for the table can fail (see MgrRequest), and
\* data of a full hash table is used before the result is tested.
L3Start ==
    /\ pc = "start" /\ nf = "l3fwd"
    /\ IF ids = <<>> THEN Leave("exited")
       ELSE \/ Start([lpm |-> TRUE, routes |-> SetupLpm])
            \/ \E n \in EntryNumbers :
                  IF Cardinality(SetupHash(n)) > HashEntries THEN Leave("crashed")
                  ELSE Start([lpm |-> FALSE, routes |-> SetupHash(n)])
            \/ Leave("exited")

BridgeStart == pc = "start" /\ nf = "bridge" /\ Start({})

\* get_ip_count: a copy of the first 8 characters holds one address at most.
GetIpCount(l) == IF l = <<>> THEN 0 ELSE 1

\* arp_response's parse_app_args: -d and -s have to be there; no memory for no port.
ArpStart ==
    /\ pc = "start" /\ nf = "arp"
    /\ \E l \in IpLists :
          IF ids = <<>> \/ GetIpCount(l) > Len(ids) THEN Leave("exited") ELSE Start(l)

\* parse_router_config: nf_count is a uint8_t, and so is dest.
RouterStart ==
    /\ pc = "start" /\ nf = "router"
    /\ \E f \in RouterFiles :
          LET n == f.count % Width
          IN  IF f.count <= 0 \/ n > Len(f.lines) \/ \E i \in 1 .. n : f.lines[i].dest < 0
              THEN Leave("exited")
              ELSE Start([i \in 1 .. n |-> [f.lines[i] EXCEPT !.dest = @ % Width]])

-----------------------------------------------------------------------------
\* The addresses of the Ethernet header.
Arrived  == [d |-> <<"in">>, s |-> <<"in">>]
Local(p) == IF p \in Enabled THEN <<"local", p>> ELSE <<"unset">>   \* 02:00:00:00:00:p
Mac(p)   == IF p \in Enabled THEN <<"port", p>> ELSE <<"unset">>

\* The destination is stored as 8 bytes, two of them over the source address.
StoreD(h, m) == [d |-> m, s |-> <<"cut">>]
CopyS(h, m)  == [h EXCEPT !.s = m]

\* l2fwd_mac_updating: both addresses become 02:00:00:00:00:p.
L2Header(h, p) == IF tab.mac THEN CopyS(StoreD(h, Local(p)), Local(p)) ELSE h

L3Header(h, p) == CopyS(StoreD(h, Local(p)), Mac(p))

Done(p, action, dest, frame, sip) ==
    log' = Append(log, [in |-> p.port, type |-> p.type, ip |-> p.ip, action |-> action,
                        dest |-> dest, frame |-> frame, sip |-> sip])
Out(p, dest, frame) == Done(p, "out", dest, frame, Zero)
Drop(p)             == Done(p, "drop", 0, Arrived, Zero)
ToNf(p, dest)       == Done(p, "tonf", dest, Arrived, Zero)

\* l2fwd's packet_handler.
L2Packet(p) ==
    LET dst == tab.dst[p.port] IN
    /\ nf = "l2fwd"
    /\ stat' = [rx |-> [stat.rx EXCEPT ![p.port] = @ + 1], tx |-> [stat.tx EXCEPT ![dst] = @ + 1]]
    /\ Out(p, dst, L2Header(Arrived, dst))

\* lpm_get_ipv4_dst_port and em_get_ipv4_dst_port: without a route back, or to 1.
LpmGet(p) == IF p.ip # Zero /\ p.ip[1] \in tab.routes THEN p.ip[1] ELSE p.port
EmGet(p)  == IF p.ip \in tab.routes THEN p.ip[1] ELSE 1

\* l3fwd's packet_handler.
L3Packet(p) ==
    LET found == IF tab.lpm THEN LpmGet(p) ELSE EmGet(p)
        dst   == IF GetInitializedPorts(found) THEN found ELSE p.port
    IN  /\ nf = "l3fwd" /\ stat' = stat
        /\ IF p.type = "ipv4" THEN Out(p, dst, L3Header(Arrived, dst)) ELSE Drop(p)

\* bridge's packet_handler.
BridgePacket(p) ==
    nf = "bridge" /\ stat' = stat /\ Out(p, IF p.port = 0 THEN 1 ELSE 0, Arrived)

\* state_info->source_ips[ports->id[port]]: id is indexed with a port's number, and
\* addresses past num_ports are kept in what the allocator adds to the array.
SourceIp(port) ==
    LET k == IF port < Len(ids) THEN ids[port + 1] ELSE 0
    IN  IF k < Len(tab) THEN tab[k + 1] ELSE Zero

\* arp_response's packet_handler and send_arp_reply; without an mbuf, or without
\* room in the ring, the request is dropped and not answered.
ArpPacket(p) ==
    /\ nf = "arp" /\ stat' = stat
    /\ IF p.type = "request" /\ p.ip = SourceIp(p.port)
       THEN \/ Done(p, "reply", p.port, [d |-> Arrived.s, s |-> Mac(p.port)], SourceIp(p.port))
            \/ Drop(p)
       ELSE ToNf(p, 0)

Lines(p) == {i \in DOMAIN tab : tab[i].ip = p.ip}

\* The first line with the target address of an ARP packet.
ArpLine(p) == CHOOSE i \in Lines(p) : \A j \in Lines(p) : i <= j

\* The first line with the destination address.
IpLine(p) == CHOOSE i \in Lines(p) : \A j \in Lines(p) : i <= j

\* nf_router's packet_handler.
RouterPacket(p) ==
    /\ nf = "router" /\ stat' = stat
    /\ IF Lines(p) = {} \/ p.type = "other" THEN Drop(p)
       ELSE ToNf(p, tab[IF p.type = "ipv4" THEN IpLine(p) ELSE ArpLine(p)].dest)

Packet(p) ==
    /\ pc = "running" /\ Len(log) < MaxPackets
    /\ (L2Packet(p) \/ L3Packet(p) \/ BridgePacket(p) \/ ArpPacket(p) \/ RouterPacket(p))
    /\ UNCHANGED <<nf, ids, pc, tab>>

Next ==
    \/ BadOption \/ L2Start \/ L3Start \/ BridgeStart \/ ArpStart \/ RouterStart
    \/ \E port \in Enabled, type \in {"ipv4", "request", "reply", "other"}, ip \in Ips \cup {Zero} :
          Packet([port |-> port, type |-> type, ip |-> ip])

Spec == Init /\ [][Next]_vars

-----------------------------------------------------------------------------
Gapless == \A i \in DOMAIN ids : ids[i] = i - 1

\* l2fwd, and the bridge on ports 0 and 1: what comes back at the port that a packet
\* left by leaves by the port the packet came in, and l2fwd counts as many packets
\* sent by a port as received at its partner.
PairsBack ==
    /\ nf = "l2fwd" \/ (nf = "bridge" /\ ids = <<0, 1>>) =>
         \A i, j \in DOMAIN log : log[j].in = log[i].dest => log[j].dest = log[i].in
    /\ nf = "l2fwd" /\ pc = "running" => \A p \in Enabled : stat.rx[p] = stat.tx[tab.dst[p]]

\* l2fwd and l3fwd send packets out by ports of the port mask only, with a header
\* that has both addresses whole and of that port, although the destination address
\* is stored as 8 bytes and routes name ports that may be missing.
HeaderOfTheWayOut ==
    \A x \in Range(log) : nf \in {"l2fwd", "l3fwd"} /\ x.action = "out" =>
        /\ x.dest \in Enabled
        /\ x.frame # Arrived => x.frame.d = <<"local", x.dest>> /\ Len(x.frame.s) = 2 /\ x.frame.s[2] = x.dest

\* An ARP reply tells the address that the request was for, which is the one that -s
\* lists for that port when the ports are numbered without a gap, and goes back
\* by the port of the request with the MAC address of that port.
RepliesOwn ==
    \A x \in Range(log) : x.action = "reply" =>
        /\ x.sip = x.ip /\ x.dest = x.in /\ x.frame.s = <<"port", x.in>>
        /\ Gapless => x.sip = IF x.in < Len(tab) THEN tab[x.in + 1] ELSE Zero

\* The router sends ARP packets about an address to the NF that gets the IPv4 packets
\* to that address, although two loops look for them.
ArpFollowsTraffic ==
    nf = "router" =>
        \A x, y \in Range(log) :
            x.action = "tonf" /\ y.action = "tonf" /\ x.ip = y.ip => x.dest = y.dest
=============================================================================

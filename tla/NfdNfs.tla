------------------------------- MODULE NfdNfs -------------------------------
(***************************************************************************)
(* The eight NFs of examples/NFD, each a table of entries that match a     *)
(* packet and the state of the NF: heavy hitters (HHD), super spreaders    *)
(* (SSD), SYN floods (SYNFD), UDP floods (UDPFM), DNS amplification        *)
(* (DNSAM), address translation (NAPT) and the two firewalls.              *)
(*                                                                         *)
(* A packet is the fields that Flow::Flow reads.  Addresses of packets     *)
(* have a full mask, so that "<= rule" is to be in the rule's network.     *)
(* A map gives 0 for a key it does not have (unordered_map::operator[]).   *)
(***************************************************************************)
EXTENDS Integers, Sequences, FiniteSets

CONSTANTS
    Nfs,            \* the NFs considered
    Inside,         \* addresses of the network that the rules allow
    Outside,        \* other addresses
    Threshold,      \* 100
    FirstPort,      \* 8: the first port that NAPT gives
    Width,          \* 2^16: ports in a packet
    SrcPorts,       \* source ports of hosts
    MaxPackets      \* bound: packets handled

VARIABLES
    nf,             \* the program that runs
    mem,            \* its State<> variables
    pc,             \* "start", "run" or "exited"
    out,            \* history: the last packet as it came, what became of it, as it
                    \* left (for the NFs that look at addresses)
    hist            \* history: what each source has sent and got through

vars == <<nf, mem, pc, out, hist>>

Base    == 100                          \* NAPT's public address
Zero    == 0                            \* 0.0.0.0
Host    == Inside \cup Outside
Address == Host \cup {Base, Zero}
NoMap   == [a \in Host |-> 0]

\* The fields that Flow::Flow takes out of a packet.
Tcp(s, fl) == [sip |-> s, dip |-> Base, sport |-> 1, dport |-> 1, udp |-> 0, tcp |-> 1,
               syn |-> IF "syn" \in fl THEN 1 ELSE 0, fin |-> IF "fin" \in fl THEN 1 ELSE 0,
               ack |-> IF "ack" \in fl THEN 1 ELSE 0]
Udp(s, d, sp, dp) == [Tcp(s, {}) EXCEPT !.dip = d, !.sport = sp, !.dport = dp, !.udp = 1, !.tcp = 0]

\* What a program returns: -1 (drop) or 0, its state, and the packet.
Drop(m, p) == [ok |-> FALSE, mem |-> m, pkt |-> p]
Pass(m, p) == [ok |-> TRUE, mem |-> m, pkt |-> p]

-----------------------------------------------------------------------------
(* The programs: the State<> variables and process(). *)

HhdState == [hh |-> NoMap, counter |-> NoMap]

\* The SYN that finds the counter at the threshold marks the source, and passes.
HHD(m, p) ==
    IF p.syn # 1 THEN Pass(m, p)
    ELSE IF m.hh[p.sip] = 1 THEN Drop(m, p)
    ELSE IF m.counter[p.sip] # Threshold THEN Pass([m EXCEPT !.counter[p.sip] = @ + 1], p)
    ELSE Pass([m EXCEPT !.hh[p.sip] = 1], p)

UdpfmState == [flood |-> NoMap, counter |-> NoMap]

\* Here the packet that marks the source is dropped.
UDPFM(m, p) ==
    IF p.udp # 1 THEN Pass(m, p)
    ELSE IF m.flood[p.sip] = 1 THEN Drop(m, p)
    ELSE IF m.counter[p.sip] # Threshold THEN Pass([m EXCEPT !.counter[p.sip] = @ + 1], p)
    ELSE Drop([m EXCEPT !.flood[p.sip] = 1], p)

SsdState == [list |-> NoMap, tlist |-> NoMap]

\* SYNs raise the counter up to the threshold and FINs lower it; the SYN that
\* finds it there marks the source without being counted, a FIN takes the mark away.
SSD(m, p) ==
    LET s == p.sip IN
    IF p.syn = 1
    THEN IF m.tlist[s] = 1 THEN Drop(m, p)
         ELSE IF m.list[s] # Threshold THEN Pass([m EXCEPT !.list[s] = @ + 1], p)
         ELSE Pass([m EXCEPT !.tlist[s] = 1], p)
    ELSE IF p.fin = 1
    THEN Pass([m EXCEPT !.list[s] = @ - 1, !.tlist[s] = IF @ = 1 THEN 0 ELSE @], p)
    ELSE Pass(m, p)

SynfdState == [blist |-> NoMap]

\* The first entry counts a SYN, tags it and starts again (tag is 0 before).
SYNFD(m, p) ==
    IF p.syn = 1
    THEN LET n == [m EXCEPT !.blist[p.sip] = @ + 1]
         IN  IF n.blist[p.sip] >= Threshold THEN Drop(n, p) ELSE Pass(n, p)
    ELSE IF p.ack = 1 THEN Pass([m EXCEPT !.blist[p.sip] = @ - 1], p)
    ELSE Pass(m, p)

\* IP("0.0.0.0/0") shifts by 32: its mask, undefined, is 0 or that of a packet's
\* address.
DnsamState(ones) == [bq |-> {}, ones |-> ones]

\* A request is remembered for good; a response that nobody asked for gets 0.0.0.0/0
\* as its destination, and what has that destination is dropped.
DNSAM(m, p) ==
    LET asked == IF p.dport = 53 THEN m.bq \cup {<<p.sip, p.dip>>} ELSE m.bq
        n == [m EXCEPT !.bq = asked]
    IN  IF p.dport # 53 /\ p.sport = 53 /\ <<p.dip, p.sip>> \notin asked THEN Drop(n, p)
        ELSE IF p.dip = Zero /\ m.ones THEN Drop(n, p)
        ELSE Pass(n, p)

NaptState == [port |-> FirstPort, list |-> <<>>]

\* Every packet from the inside gets the next port; listIP and listPORT, keyed by
\* it, are one list that starts at FirstPort.  Flow::clean writes 16 bits of it.
NAPT(m, p) ==
    IF p.sip \in Inside
    THEN Pass([port |-> m.port + 1, list |-> Append(m.list, <<p.sip, p.sport>>)],
              [p EXCEPT !.sip = Base, !.sport = m.port % Width])
    ELSE LET at == p.dport - FirstPort + 1
         IN  IF p.dip = Base /\ at \in DOMAIN m.list
             THEN Pass(m, [p EXCEPT !.dip = m.list[at][1], !.dport = m.list[at][2]])
             ELSE Drop(m, p)

SfwState == [seen |-> {}]

StatefulFirewall(m, p) ==
    IF p.sip \in Inside THEN Pass([m EXCEPT !.seen = @ \cup {p.dip}], p)
    ELSE IF p.sip \in m.seen THEN Pass(m, p) ELSE Drop(m, p)

StatelessFirewall(m, p) == IF p.sip \notin Inside THEN Drop(m, p) ELSE Pass(m, p)

-----------------------------------------------------------------------------
Nobody == [s \in Host |-> [passed |-> 0, down |-> 0, marks |-> 0]]

Init ==
    /\ nf \in Nfs /\ pc = "start" /\ out = <<>>
    /\ hist = [of |-> Nobody, sent |-> {}, lent |-> <<>>, n |-> 0]
    /\ mem \in CASE nf = "HHD" -> {HhdState} [] nf = "UDPFM" -> {UdpfmState}
                 [] nf = "SSD" -> {SsdState} [] nf = "SYNFD" -> {SynfdState}
                 [] nf = "DNSAM" -> {DnsamState(TRUE), DnsamState(FALSE)}
                 [] nf = "NAPT" -> {NaptState} [] nf = "SFW" -> {SfwState}
                 [] OTHER -> {<<>>}

\* main with parse_app_args: without a destination the NF stops again.
Main(dst_flag) ==
    /\ pc = "start" /\ pc' = IF dst_flag THEN "run" ELSE "exited"
    /\ UNCHANGED <<nf, mem, out, hist>>

\* What the properties remember of a packet p for which the program returned r.
Remember(p, r) ==
    [of |-> IF p.sip \notin Host THEN hist.of
            ELSE [hist.of EXCEPT ![p.sip] =
                [passed |-> IF r.ok /\ (p.syn = 1 \/ p.udp = 1) THEN @.passed + 1 ELSE @.passed,
                 down   |-> IF p.syn = 0 /\ (IF nf = "SSD" THEN p.fin ELSE p.ack) = 1 THEN @.down + 1 ELSE @.down,
                 marks  |-> IF nf = "SSD" /\ r.mem.tlist[p.sip] > mem.tlist[p.sip]
                            THEN @.marks + 1 ELSE @.marks]],
     sent |-> IF nf = "SFW" \/ (nf = "DNSAM" /\ p.dport = 53)
              THEN hist.sent \cup {<<p.sip, p.dip>>} ELSE hist.sent,
     lent |-> IF nf = "NAPT" /\ p.sip \in Inside
              THEN Append(hist.lent, <<r.pkt.sport, p.sip, p.sport>>) ELSE hist.lent,
     n |-> hist.n + 1]

\* packet_handler: -1 drops the packet, anything else sends it on.
Handler(p, r) ==
    /\ pc = "run" /\ hist.n < MaxPackets
    /\ mem' = r.mem /\ hist' = Remember(p, r) /\ UNCHANGED <<nf, pc>>
    /\ out' = IF nf \in {"DNSAM", "NAPT", "SFW", "SLFW"}
              THEN [p |-> p, ok |-> r.ok, to |-> r.pkt] ELSE <<>>

HhdHandler(s, fl) == nf = "HHD" /\ Handler(Tcp(s, fl), HHD(mem, Tcp(s, fl)))
SsdHandler(s, fl) == nf = "SSD" /\ Handler(Tcp(s, fl), SSD(mem, Tcp(s, fl)))
SynfdHandler(s, fl) == nf = "SYNFD" /\ Handler(Tcp(s, fl), SYNFD(mem, Tcp(s, fl)))
UdpfmHandler(p) == nf = "UDPFM" /\ Handler(p, UDPFM(mem, p))
DnsamHandler(p) == nf = "DNSAM" /\ Handler(p, DNSAM(mem, p))
NaptHandler(p) == nf = "NAPT" /\ Handler(p, NAPT(mem, p))
SfwHandler(p) == nf = "SFW" /\ Handler(p, StatefulFirewall(mem, p))
SlfwHandler(p) == nf = "SLFW" /\ Handler(p, StatelessFirewall(mem, p))

Flags == {{"syn"}, {"fin"}, {"ack"}, {"syn", "fin"}}

Next ==
    \/ \E d \in BOOLEAN : Main(d)
    \/ \E s \in Host, fl \in Flags : HhdHandler(s, fl) \/ SsdHandler(s, fl) \/ SynfdHandler(s, fl)
    \/ \E s \in Host, u \in {0, 1} : UdpfmHandler([Tcp(s, {}) EXCEPT !.udp = u])
    \/ \E s \in Host, d \in Host \cup {Zero}, sp, dp \in {1, 53} : DnsamHandler(Udp(s, d, sp, dp))
    \/ \E s \in Host, d \in Host \cup {Base}, sp \in SrcPorts, dp \in 0 .. Width - 1 :
          NaptHandler(Udp(s, d, sp, dp))
    \/ \E s, d \in Host : SfwHandler(Udp(s, d, 1, 1)) \/ SlfwHandler(Udp(s, d, 1, 1))

Spec == Init /\ [][Next]_vars

-----------------------------------------------------------------------------
\* No source gets more through than its limit: one SYN over the threshold for HHD,
\* the threshold of packets for UDPFM, fewer unacknowledged SYNs than the threshold
\* for SYNFD, whatever order SYNs, ACKs and FINs come in.
LimitsHold ==
    \A s \in Host : LET h == hist.of[s] IN
        CASE nf = "HHD"   -> h.passed <= Threshold + 1
          [] nf = "UDPFM" -> h.passed <= Threshold
          [] nf = "SYNFD" -> h.passed - h.down < Threshold
          [] OTHER -> TRUE

\* SSD's counter: SYNs that passed, less the FINs, less one for every time the
\* source was marked; it stays at the threshold while the source is marked, and
\* may be negative.
SpreaderCount ==
    nf = "SSD" => \A s \in Host : LET h == hist.of[s] IN
        /\ mem.list[s] = h.passed - h.marks - h.down
        /\ mem.list[s] <= Threshold /\ (mem.tlist[s] = 1 => mem.list[s] = Threshold)

\* A reply that NAPT lets through goes to the host, and the port, whose packet was
\* the first to leave with that public port: after 2^16 packets the ports come round
\* again, and replies to a later packet go to that first host.
RepliesToFirst ==
    nf = "NAPT" /\ out # <<>> /\ out.p.sip \in Outside /\ out.ok =>
        \E i \in DOMAIN hist.lent :
            /\ hist.lent[i][1] = out.p.dport
            /\ \A j \in 1 .. i - 1 : hist.lent[j][1] # out.p.dport
            /\ out.to.dip = hist.lent[i][2] /\ out.to.dport = hist.lent[i][3]

\* What comes from the outside passes a firewall, and a DNS response DNSAM, only if
\* it answers something that was sent before.
AnswersOnly ==
    out # <<>> /\ out.ok =>
        CASE nf = "SFW" -> out.p.sip \in Outside =>
                              \E x \in hist.sent : x[1] \in Inside /\ x[2] = out.p.sip
          [] nf = "SLFW" -> out.p.sip \in Inside
          [] nf = "DNSAM" -> out.p.sport = 53 /\ out.p.dport # 53 =>
                              <<out.p.dip, out.p.sip>> \in hist.sent
          [] OTHER -> TRUE
=============================================================================

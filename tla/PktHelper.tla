----------------------------- MODULE PktHelper -----------------------------
(***************************************************************************)
(* onvm_pkt_helper.c: the headers of a packet, its checksums and the       *)
(* packets an NF makes itself.                                             *)
(*                                                                         *)
(* A header field is the number its two bytes make on this (little endian) *)
(* machine; a field in network order holds Swap16 of its value.  MAC       *)
(* addresses and ports of a header are names.  The IP header is kept as    *)
(* far as the checksum tells it apart: version and header length, total    *)
(* length, protocol, the two addresses, the options.                       *)
(***************************************************************************)
EXTENDS Naturals, Sequences

CONSTANTS
  Capa,        \* what the port's hardware computes: a subset of {"ip", "tcp", "udp"}
  Payloads,    \* payload lengths of the packets made here
  Leftover,    \* values the caller's header may hold in fields nobody has set
  Room         \* prepends the headroom of an mbuf of the pool has place for

VARIABLES
  pool,        \* mbufs left in the pool
  pkt,         \* the packet in the NF's hands, or NoPkt
  lost         \* mbufs no one has a pointer to

vars == << pool, pkt, lost >>

WordMax == 65535
Swap16(n) == (n % 256) * 256 + n \div 256

IP_PROTOCOL_TCP == 6
IP_PROTOCOL_UDP == 17
EtherLen == 14
Ipv4Len == 20
UdpLen == 8
TcpLen == 20

NoPkt == [len |-> 0]

(***************************************************************************)
(* The header getters: what is not IPv4 has no header, and the transport   *)
(* header is looked for right behind 20 bytes, options or not.             *)
(***************************************************************************)
onvm_pkt_ipv4_hdr(p) == p.version = 4
onvm_pkt_tcp_hdr(p) == onvm_pkt_ipv4_hdr(p) /\ p.proto = IP_PROTOCOL_TCP
onvm_pkt_udp_hdr(p) == onvm_pkt_ipv4_hdr(p) /\ p.proto = IP_PROTOCOL_UDP

\* l3_len, from the header length field, in bytes.
L3Len(p) == p.ihl * 4

(***************************************************************************)
(* Checksums.  rte_raw_cksum is the one's complement sum of the words.     *)
(***************************************************************************)
Fold(n) == IF n > WordMax THEN (n \div (WordMax + 1)) + (n % (WordMax + 1)) ELSE n

RawCksum(words) ==
  LET sum[i \in 0..Len(words)] == IF i = 0 THEN 0 ELSE Fold(sum[i - 1] + words[i])
  IN  sum[Len(words)]

\* The words of the IP header: the options only count when the length says so.
IpWords(p, cksum) ==
  << p.version * 16 + p.ihl, p.total_length, p.proto, cksum, p.src, p.dst >>
    \o SubSeq(p.options, 1, 2 * (p.ihl - 5))

\* Mutant: the sum itself is stored.
PlainIpCksum(p) == RawCksum(IpWords(p, 0))

calculate_ip_cksum(p) ==
  LET cksum == RawCksum(IpWords(p, 0))
  IN  IF cksum = WordMax THEN cksum ELSE WordMax - cksum

\* total_length is taken as it lies in the packet, in network order, so the
\* number of bytes summed is the length of the transport part only when that
\* number reads the same both ways.
L4Len(p) == p.total_length - L3Len(p)

\* onvm_pkt_set_checksums: sum holds what is stored in the transport header,
\* "phdr" for the pseudo header's sum the hardware goes on from.
TransportSum(p, name) ==
  IF name \in Capa THEN "phdr"
  ELSE IF L4Len(p) = p.len - EtherLen - L3Len(p) THEN "summed" ELSE "overrun"

onvm_pkt_set_checksums(p) ==
  IF ~onvm_pkt_ipv4_hdr(p) THEN p
  ELSE LET l4 == IF onvm_pkt_tcp_hdr(p) THEN {"tcp"} ELSE IF onvm_pkt_udp_hdr(p) THEN {"udp"} ELSE {}
           hw == (l4 \cup {"ip"}) \intersect Capa
       IN  [p EXCEPT !.sum = IF l4 = {} THEN @ ELSE TransportSum(p, CHOOSE n \in l4 : TRUE),
                     !.hdr_checksum = IF "ip" \in Capa THEN 0 ELSE calculate_ip_cksum(p),
                     !.ol_flags = @ \cup hw]

(***************************************************************************)
(* Swapping and setting of addresses.                                      *)
(***************************************************************************)
onvm_pkt_swap_ether_hdr(p) == [p EXCEPT !.s_addr = p.d_addr, !.d_addr = p.s_addr]
onvm_pkt_swap_ip_hdr(p) == [p EXCEPT !.src = p.dst, !.dst = p.src]
onvm_pkt_swap_tcp_hdr(p) == [p EXCEPT !.sport = p.dport, !.dport = p.sport]
onvm_pkt_set_mac_addr(p, s, d) == [p EXCEPT !.s_addr = s, !.d_addr = d]
onvm_pkt_swap_src_mac_addr(p, port) == [p EXCEPT !.d_addr = p.s_addr, !.s_addr = port]
onvm_pkt_swap_dst_mac_addr(p, port) == [p EXCEPT !.s_addr = p.d_addr, !.d_addr = port]

(***************************************************************************)
(* Making a packet.                                                        *)
(***************************************************************************)
\* The header of onvm_pkt_fill_ipv4: the length is left to the caller.
onvm_pkt_fill_ipv4(proto, leftover) ==
  [version |-> 4, ihl |-> 5, proto |-> proto, src |-> 1, dst |-> 2, total_length |-> leftover,
   options |-> << >>, hdr_checksum |-> 0]

onvm_pkt_fill_ether(port) == [s_addr |-> port, d_addr |-> "bcast"]

onvm_pkt_fill_udp(payload) == [sport |-> "a", dport |-> "b", dgram_len |-> Swap16(payload + UdpLen)]

\* The parts that are put in front of each other, empty ones left out by TCP only.
Parts(kind, payload) ==
  IF kind = "udp" THEN << payload, UdpLen, Ipv4Len, EtherLen >>
  ELSE SelectSeq(<< payload >>, LAMBDA n : n > 0) \o << TcpLen, Ipv4Len, EtherLen >>

Bytes(kind, payload) ==
  payload + (IF kind = "udp" THEN UdpLen ELSE TcpLen) + Ipv4Len + EtherLen

\* The headers are copied into the packet before iph->total_length is set, so the
\* packet keeps what the caller's header held.
Made(kind, payload, leftover) ==
  LET iph == onvm_pkt_fill_ipv4(IF kind = "udp" THEN IP_PROTOCOL_UDP ELSE IP_PROTOCOL_TCP, leftover)
      eth == onvm_pkt_fill_ether("nic")
      l4 == onvm_pkt_fill_udp(payload)
  IN  [version |-> iph.version, ihl |-> iph.ihl, proto |-> iph.proto, src |-> iph.src,
       dst |-> iph.dst, total_length |-> iph.total_length, options |-> iph.options,
       hdr_checksum |-> 0, sum |-> "none", ol_flags |-> {"ip", kind},
       s_addr |-> eth.s_addr, d_addr |-> eth.d_addr, sport |-> l4.sport, dport |-> l4.dport,
       len |-> Bytes(kind, payload)]

Init == pool = 2 /\ pkt = NoPkt /\ lost = 0

\* onvm_pkt_generate_udp, onvm_pkt_generate_tcp: the buffer of a packet whose
\* parts do not fit is not given back.
Generate(kind, payload, leftover) ==
  /\ pkt = NoPkt
  /\ pool > 0
  /\ pool' = pool - 1
  /\ IF Len(Parts(kind, payload)) > Room
     THEN lost' = lost + 1 /\ UNCHANGED pkt
     ELSE /\ pkt' = onvm_pkt_set_checksums(Made(kind, payload, leftover))
          /\ UNCHANGED lost

\* A packet from the wire: the length is right, the header may carry options.
Receive(proto, version, ihl, payload) ==
  /\ pkt = NoPkt
  /\ pool > 0
  /\ pool' = pool - 1
  /\ pkt' = [version |-> version, ihl |-> ihl, proto |-> proto, src |-> 40000, dst |-> 30000,
             total_length |-> Swap16(payload + 4 * ihl),
             options |-> << 7, 8 >>, hdr_checksum |-> 0, sum |-> "wire", ol_flags |-> {},
             s_addr |-> "peer", d_addr |-> "nic", sport |-> "a", dport |-> "b",
             len |-> payload + 4 * ihl + EtherLen]
  /\ UNCHANGED lost

\* The NF answers: addresses are turned round and the checksums set again.
Answer ==
  /\ pkt # NoPkt
  /\ pkt.s_addr = "peer"
  /\ pkt' = onvm_pkt_set_checksums(
              onvm_pkt_swap_tcp_hdr(onvm_pkt_swap_ip_hdr(onvm_pkt_swap_ether_hdr(pkt))))
  /\ UNCHANGED << pool, lost >>

\* The NF forwards from one port to another.
Forward ==
  /\ pkt # NoPkt
  /\ \/ pkt' = onvm_pkt_set_mac_addr(pkt, "nic", "nic2")
     \/ pkt' = onvm_pkt_swap_src_mac_addr(pkt, "nic2")
     \/ pkt' = onvm_pkt_swap_dst_mac_addr(pkt, "nic2")
  /\ pkt.d_addr # "nic2"
  /\ UNCHANGED << pool, lost >>

\* The packet leaves, and its buffer returns to the pool.
Send ==
  /\ pkt # NoPkt
  /\ pkt' = NoPkt
  /\ pool' = pool + 1
  /\ UNCHANGED lost

Next ==
  \/ \E kind \in {"udp", "tcp"}, n \in Payloads, l \in Leftover : Generate(kind, n, l)
  \/ \E proto \in {1, IP_PROTOCOL_TCP, IP_PROTOCOL_UDP}, v \in {4, 6}, h \in {5, 6}, n \in Payloads :
       Receive(proto, v, h, n)
  \/ Answer \/ Forward \/ Send

Spec == Init /\ [][Next]_vars

-----------------------------------------------------------------------------
\* A header whose checksum the software has set sums to all ones, as a receiver
\* checks it, whatever the fields and options and also when the sum needs a carry
\* (calculate_ip_cksum, the case of 0xffff included).
HeaderVerifies ==
  pkt # NoPkt /\ pkt.version = 4 /\ pkt.sum # "wire" /\ "ip" \notin Capa =>
    RawCksum(IpWords(pkt, pkt.hdr_checksum)) = WordMax

\* A checksum is either left to the hardware, which has been told so and finds the
\* sum of the pseudo header, or is the software's: never both, and never none.
OffloadConsistent ==
  pkt # NoPkt /\ pkt.sum \in {"phdr", "summed", "overrun"} =>
    LET name == IF pkt.proto = IP_PROTOCOL_TCP THEN "tcp" ELSE "udp"
    IN  /\ (pkt.sum = "phdr") = (name \in Capa)
        /\ pkt.sum = "phdr" => name \in pkt.ol_flags

\* Every buffer is in the pool, in the NF's hands or lost by a packet whose parts
\* did not fit.
MbufsAccounted == pool + lost + (IF pkt = NoPkt THEN 0 ELSE 1) = 2
=============================================================================

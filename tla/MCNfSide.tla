------------------------------ MODULE MCNfSide ------------------------------
(***************************************************************************)
(* Small instances of what an NF process does: the components of NfSide,   *)
(* with constants in the cfg files, and next to them those whose constants *)
(* are given here.  They share nothing: which picks one for a behaviour,   *)
(* and the variables of the others stay.                                   *)
(***************************************************************************)
EXTENDS NfSide

CONSTANTS Child, Stranger, MaxId, StopIters   \* of Scaling

\* Command lines and configuration files of an NF (a string is its characters).
Dashes == <<"--">>
EalArgs == {<<>>, <<<<"-l">>, <<"3">>>>, <<<<"--", "prefix">>>>, <<<<"-n">>, <<"4">>>>}
LibArgs == {<<>>, <<<<"-r">>, <<"7">>>>, <<<<"-n">>, <<"5">>, <<"-r">>, <<"2">>>>,
            <<<<"-m">>, <<"-r">>, <<"7">>>>, <<<<"-r">>, <<"1", "2">>>>, <<<<"-r">>>>,
            <<<<"-r">>, <<"1", "6">>, <<"-t">>, <<"3">>>>, <<<<"-t">>, <<"1", "6">>>>,
            <<<<"-x">>>>, <<<<"-s">>>>}
OwnArgs == {<<>>, <<<<"-x">>, <<"1">>>>, <<<<"-x">>, <<"--", "long">>>>}
CommandLines ==
    {<<<<"prog">>>> \o f \o e \o <<Dashes>> \o l \o o :
        f \in {<<>>, <<<<"-F">>, <<"file">>>>}, e \in EalArgs, l \in LibArgs,
        o \in {<<>>} \cup {<<Dashes>> \o x : x \in OwnArgs}}
File(c, m, s, i) == [readable |-> TRUE, corelist |-> c, memory |-> m, service |-> s, instance |-> i]
Configs == {[File(-1, -1, -1, -1) EXCEPT !.readable = FALSE], File(-1, 3, 2, 6), File(1, -1, 2, 6),
            File(1, 3, -1, 6), File(1, 3, 2, -1), File(1, 3, 12, 6)}

\* What the NIC and the software hash flows to, and the chains of flow modifications.
HwHash     == [k1 |-> 1, k2 |-> 2]
SoftHash   == [k1 |-> 1, k2 |-> 3]
ChainLists == {<<1>>, <<1, 3>>, <<1, 1, 3, 1>>}

\* Payloads and blocks for the ciphers, rule files, router files.
Job(m, k, l, a, n, c) == [mode |-> m, keysize |-> k, len |-> l, assoc |-> a, nonce |-> n, mac |-> c]
Jobs == {Job("udp", 256, l, 0, 0, 0) : l \in {0, 1, 15, 16, 17, 33}}
        \cup {Job("other", 256, 5, 0, 0, 0)}
        \cup {Job("block", k, 16, 0, 0, 0) : k \in {128, 192, 256}}
        \cup {Job("cbc", k, l, 0, 0, 0) : k \in {128, 256}, l \in {16, 32, 17}}
        \cup {Job("ccm", 128, l, a, n, c) : l \in {1, 16, 20}, a \in {0, 14}, n \in {7, 13}, c \in {4, 16}}
Rule(ip, d, a) == [ip |-> ip, depth |-> d, action |-> a]
RuleFiles ==
    {<<Rule(<<0, 0>>, 1, 0), Rule(<<0, 1>>, 2, 1), Rule(<<1, 0>>, 2, 4), Rule(<<1, 1>>, 1, 1)>>,
     <<Rule(<<0, 0>>, 1, 1), Rule(<<0, 0>>, 1, 0), Rule(<<1, 1>>, 0, 0), Rule(<<1, 1>>, 2, 0)>>,
     <<Rule(<<0, 0>>, 1, 0), Rule(<<0, 1>>, 3, 1), Rule(<<1, 1>>, 1, 0)>>,
     <<[ip |-> <<0, 0>>]>>, <<>>}
Line(ip, d) == [ip |-> ip, dest |-> d]
RouterFiles ==
    {[count |-> 3, lines |-> <<Line(<<1, 0>>, 2), Line(<<2, 1>>, 9), Line(<<1, 0>>, 3)>>],
     [count |-> 8, lines |-> <<>>], [count |-> 0, lines |-> <<>>],
     [count |-> 2, lines |-> <<Line(<<1, 0>>, 2)>>], [count |-> 1, lines |-> <<Line(<<1, 0>>, -1)>>]}

\* Queues of the packets that come to the fair queue.
FlowQueues == <<0, 1, 0, -1, 0, 0, 1>>

\* Ports and addresses of the forwarding NFs.
PortLists    == {<<>>, <<0>>, <<0, 1>>, <<0, 2>>, <<0, 1, 2>>}
Addresses    == {<<1, 0>>, <<2, 1>>, <<3, 0>>}
AddressLists == {<<>>, <<<<1, 0>>>>, <<<<1, 0>>, <<2, 1>>>>}

Scale == INSTANCE Scaling WITH nfStatus <- v1, nfParent <- v2, children <- v3,
    pc <- v4, myId <- v5, queue <- v6, main <- v7, iter <- v8, uncounted <- v9
ASSUME ScaleAssumption == Scale!Distinguished
Args == INSTANCE NfArgs WITH old <- v1, config <- v2, new <- v3, optind <- v4,
    set <- v5, pc <- v6, given <- v7, CommandLines <- CommandLines,
    Configs <- Configs, Width <- 16
Sdn == INSTANCE SdnFlowTable WITH arrived <- v1, ring <- v2, known <- v3,
    ready <- v4, lists <- v5, ctl <- v6, mods <- v7, done <- v8, dead <- v9,
    Pkt <- 1 .. 4, FlowOf <- <<"f", "g", "f", "f">>, ListMax <- 2,
    RingSize <- 2
Mb == INSTANCE MsgBuf WITH inbuf <- v1, outbuf <- v2, base <- v3, sent <- v4,
    parsed <- v5, asked <- v6, pushed <- v7, written <- v8, Header <- 2,
    Lengths <- <<2, 3, 2>>, Replies <- <<0, 7, 2>>, PacketIn <- 3,
    MaxPacketIn <- 1, InitLen <- 2
Cipher == INSTANCE AesNfs WITH job <- v1, text <- v2, auth <- v3, stage <- v4,
    key_schedule <- v5, results <- v6, run <- v7, blk <- v8, Jobs <- Jobs

parts == <<v1, v2, v3, v4, v5, v6, v7, v8, v9, v10>>
all   == <<which, vars, parts>>

InitAll ==
    /\ Init
    /\ \/ which = "share" /\ v1 = 0 /\ v2 = 0 /\ v3 = 0 /\ v4 = 0 /\ v5 = 0
          /\ v6 = 0 /\ v7 = 0 /\ v8 = 0 /\ v9 = 0 /\ v10 = 0
       \/ which = "request" /\ Req!Init /\ v9 = 0 /\ v10 = 0
       \/ which = "scale" /\ Scale!Init /\ v10 = 0
       \/ which = "flow" /\ Director!Init /\ v6 = 0 /\ v7 = 0 /\ v8 = 0 /\ v9 = 0 /\ v10 = 0
       \/ which = "helper" /\ Helper!Init /\ v4 = 0 /\ v5 = 0 /\ v6 = 0 /\ v7 = 0 /\ v8 = 0 /\ v9 = 0 /\ v10 = 0
       \/ which = "args" /\ Args!Init /\ v8 = 0 /\ v9 = 0 /\ v10 = 0
       \/ which = "sdn" /\ Sdn!Init /\ v10 = 0
       \/ which = "msgbuf" /\ Mb!Init /\ v9 = 0 /\ v10 = 0
       \/ which = "aes" /\ Cipher!Init /\ v9 = 0 /\ v10 = 0
       \/ which = "fair" /\ Fq!Init
       \/ which = "balance" /\ Lb!Init /\ v7 = 0 /\ v8 = 0 /\ v9 = 0 /\ v10 = 0
       \/ which = "bucket" /\ Tb!Init /\ v8 = 0 /\ v9 = 0 /\ v10 = 0
       \/ which = "tracker" /\ Ft!Init /\ v7 = 0 /\ v8 = 0 /\ v9 = 0 /\ v10 = 0
       \/ which = "firewall" /\ Fw!Init /\ v7 = 0 /\ v8 = 0 /\ v9 = 0 /\ v10 = 0
       \/ which = "nfd" /\ Nfd!Init /\ v6 = 0 /\ v7 = 0 /\ v8 = 0 /\ v9 = 0 /\ v10 = 0
       \/ which = "ports" /\ Fwd!Init /\ v7 = 0 /\ v8 = 0 /\ v9 = 0 /\ v10 = 0
       \/ which = "messaging" /\ Msg!Init /\ v7 = 0 /\ v8 = 0 /\ v9 = 0 /\ v10 = 0

Others(x) == which = x /\ UNCHANGED <<which, vars>>

NextAll ==
    \/ which = "share" /\ Next /\ UNCHANGED <<which, parts>>
    \/ Others("request") /\ Req!Next /\ UNCHANGED <<v9, v10>>
    \/ Others("scale") /\ Scale!Next /\ UNCHANGED v10
    \/ Others("flow") /\ Director!Next /\ UNCHANGED <<v6, v7, v8, v9, v10>>
    \/ Others("helper") /\ Helper!Next /\ UNCHANGED <<v4, v5, v6, v7, v8, v9, v10>>
    \/ Others("args") /\ Args!Next /\ UNCHANGED <<v8, v9, v10>>
    \/ Others("sdn") /\ Sdn!Next /\ UNCHANGED v10
    \/ Others("msgbuf") /\ Mb!Next /\ UNCHANGED <<v9, v10>>
    \/ Others("aes") /\ Cipher!Next /\ UNCHANGED <<v9, v10>>
    \/ Others("fair") /\ Fq!Next
    \/ Others("balance") /\ Lb!Next /\ UNCHANGED <<v7, v8, v9, v10>>
    \/ Others("bucket") /\ Tb!Next /\ UNCHANGED <<v8, v9, v10>>
    \/ Others("tracker") /\ Ft!Next /\ UNCHANGED <<v7, v8, v9, v10>>
    \/ Others("firewall") /\ Fw!Next /\ UNCHANGED <<v7, v8, v9, v10>>
    \/ Others("nfd") /\ Nfd!Next /\ UNCHANGED <<v6, v7, v8, v9, v10>>
    \/ Others("ports") /\ Fwd!Next /\ UNCHANGED <<v7, v8, v9, v10>>
    \/ Others("messaging") /\ Msg!Next /\ UNCHANGED <<v7, v8, v9, v10>>

SafeAll == InitAll /\ [][NextAll]_all

\* The fairness of SharedCore.
FairAll ==
    /\ SafeAll
    /\ WF_all(which = "share" /\ NfThread /\ UNCHANGED <<which, parts>>)
    /\ WF_all(which = "share" /\ WakeupThread /\ UNCHANGED <<which, parts>>)
    /\ WF_all(which = "share" /\ MasterThread /\ UNCHANGED <<which, parts>>)
    /\ WF_all(which = "share" /\ SignalHandler /\ UNCHANGED <<which, parts>>)

-----------------------------------------------------------------------------
\* Message buffers of requests are in the pool or a ring, but for those put twice, put
\* in error or lost on a full ring; an NF that waits has its request in the queue, unless
\* the answer came before the waiting status was written (onvm_nflib_request_ft).
RequestsAnswered ==
    which = "request" => Req!BuffersAccounted /\ Req!AnswerComes

\* children_cnt is the number of children still to stop, plus those that failed to
\* start, less stops counted for the wrong parent; a parent leaves after its children
\* unless it gives up or miscounts (onvm_nflib_scale, onvm_nflib_terminate_children).
ChildrenCounted ==
    which = "scale" => Scale!ChildrenCounted /\ Scale!LeavesLast

\* Entries of the flow director have a live chain of their own, a flow is found by its
\* packets in one entry if NIC and software hash alike, and a chain below the limit is
\* walked as it was built (onvm_flow_dir_add_key, onvm_ft_lookup_pkt, onvm_sc_append_entry).
FlowsFound ==
    which = "flow" => Director!EntriesLive /\ Director!FlowFoundOnce /\ Director!ChainWalked

\* A header the software summed verifies, a transport checksum is computed by exactly
\* one of hardware and software, and mbufs of generated packets are accounted for up to
\* the early returns (onvm_pkt_set_checksums, onvm_pkt_generate_tcp).
HelpersSound ==
    which = "helper" => Helper!HeaderVerifies /\ Helper!OffloadConsistent /\ Helper!MbufsAccounted

\* Command line values replace those of the file, if they have as many digits, and the
\* NF's own arguments are those behind the second dashes, with a file and without
\* (onvm_config_create_nf_arg_list, onvm_nflib_init).
ArgumentsApply ==
    which = "args" => Args!OverridesApply /\ Args!NfArgsOnly

\* The controller is asked about a flow once at a time, waiting packets leave once and in
\* order, no list with packets is without a question, and OpenFlow messages are cut and
\* answered whatever the reads and writes are (sdn.c, sdn_pkt_list.h, msgbuf.c).
SdnSound ==
    /\ which = "sdn" => Sdn!AskedOnce /\ Sdn!BufferedOnceInOrder /\ Sdn!NothingForgotten
    /\ which = "msgbuf" => Mb!RoomToRead /\ Mb!CutAtMessages /\ Mb!AnswersKept

\* aes.c computes the standard's examples, aes_decrypt restores what aes_encrypt did to a
\* payload of any length, a changed byte is noticed by aes_decrypt_ccm, and its buffer
\* is large enough.
CipherSound ==
    which = "aes" => Cipher!KnownAnswers /\ Cipher!PayloadRestored /\ Cipher!ChangeNoticed /\ Cipher!FormatFits

\* Packets of a flow leave the fair queue once and in order with two threads at it, a
\* waiting queue is passed over at most once per other queue, and a lock is only left
\* behind by an overflow (fairqueue_enqueue, fairqueue_dequeue).
FairlyQueued ==
    which = "fair" => Fq!FlowOrderKept /\ Fq!RoundRobin /\ Fq!StuckOnlyWhenFull

\* What comes back goes to where the traffic came from: in the load balancer, NAPT and the
\* stateful firewalls, l2fwd, l3fwd, the bridge, arp_response and nf_router.
RepliesReturn ==
    /\ which = "balance" => Lb!RepliesToClient
    /\ which = "nfd" => Nfd!RepliesToFirst /\ Nfd!AnswersOnly
    /\ which = "ports" => Fwd!PairsBack /\ Fwd!HeaderOfTheWayOut /\ Fwd!RepliesOwn /\ Fwd!ArpFollowsTraffic

\* The token bucket forwards no more than the rate makes and at most two buckets at a
\* time, no source gets more through the flood detectors than their limits, and the
\* spreader's counter is that of its open connections (simple_fwd_tb, NFD).
LimitsKept ==
    /\ which = "bucket" => Tb!RateKept /\ Tb!BurstTwoBuckets
    /\ which = "nfd" => Nfd!LimitsHold /\ Nfd!SpreaderCount

\* num_stored is the number of flows in the load balancer's table, the flow tracker's
\* counts are those of the packets, and the longest firewall rule in force decides.
TablesExact ==
    /\ which = "balance" => Lb!StoredExact
    /\ which = "tracker" => Ft!CountsPackets
    /\ which = "firewall" => Fw!DecidedByLongest

\* Every message buffer is in the pool or the ring, and an undisturbed run of
\* test_messaging passes and counts what it marks as passed.
TestReports ==
    which = "messaging" => Msg!MessagesAccounted /\ Msg!ReportSound

\* A flow keeps its server, and its line in the flow tracker, until it has been silent
\* for the expiry time (clear_entries).
EntriesStay ==
    [][/\ which = "balance" => Lb!StickyStep
       /\ which = "tracker" => Ft!SilentStep]_all
=============================================================================

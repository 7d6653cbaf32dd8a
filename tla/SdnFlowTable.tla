---------------------------- MODULE SdnFlowTable ----------------------------
(***************************************************************************)
(* The SDN flow table NF (examples/flow_table): the NF's thread looks      *)
(* packets up in the flow director and hands those of unknown flows over   *)
(* ring_to_sdn to a second thread (setup_securechannel), which keeps them  *)
(* in one list per flow (sdn_pkt_list.h), asks the controller about the    *)
(* flow once, and returns the list when the controller's flow modification *)
(* arrives (sdn.c).  The controller is external: it answers a packet-in    *)
(* with a flow modification for the flow and the buffer it names, with one *)
(* that names no buffer, or not at all.                                    *)
(***************************************************************************)
EXTENDS Integers, Sequences, FiniteSets, SequencesExt

CONSTANTS
    Pkt,        \* packets, in the order in which they arrive: 1 .. n
    FlowOf,     \* the flow of each packet
    RingSize,   \* SDN_RING_SIZE
    ListMax     \* entries of pkt_buf_ft (1024)

FlowIds == {FlowOf[p] : p \in Pkt}
NoFlow  == "no buffer"           \* buffer_id UINT32_MAX

VARIABLES
    arrived,    \* packets that have arrived
    ring,       \* ring_to_sdn
    known,      \* flows of the flow director
    ready,      \* switch_status is READY_TO_SEND
    lists,      \* pkt_buf_ft: flow -> its list and flag, once it has a list
    ctl,        \* packet-ins on their way to the controller: flows
    mods,       \* flow modifications on their way back: [flow, buf]
    done,       \* packets the NF is done with, in order: [pkt, how]
    dead        \* the process has called exit

vars == <<arrived, ring, known, ready, lists, ctl, mods, done, dead>>

Init ==
    /\ arrived = 0 /\ ring = <<>> /\ known = {} /\ ready = FALSE
    /\ lists = <<>> /\ ctl = <<>> /\ mods = <<>> /\ done = <<>> /\ dead = FALSE

Finish(p, how) == Append(done, [pkt |-> p, how |-> how])

-----------------------------------------------------------------------------
\* packet_handler: flow_table_hit sends the packet along the flow's chain,
\* flow_table_miss buffers it, or drops it when the ring is full.
Packet ==
    /\ ~dead /\ arrived < Cardinality(Pkt)
    /\ arrived' = arrived + 1
    /\ LET p == arrived + 1 IN
       \/ /\ FlowOf[p] \in known
          /\ done' = Finish(p, "hit") /\ UNCHANGED ring
       \/ /\ FlowOf[p] \notin known /\ Len(ring) < RingSize
          /\ ring' = Append(ring, p) /\ UNCHANGED done
       \/ /\ FlowOf[p] \notin known /\ Len(ring) = RingSize
          /\ done' = Finish(p, "drop") /\ UNCHANGED ring
    /\ UNCHANGED <<known, ready, lists, ctl, mods, dead>>

\* datapath_handle_read: OFPT_HELLO or OFPT_FEATURES_REQUEST.  The other
\* messages are answered without a change of this state.
Hello ==
    /\ ~dead /\ ~ready /\ ready' = TRUE
    /\ UNCHANGED <<arrived, ring, known, lists, ctl, mods, done, dead>>

\* sdn_pkt_list_add and sdn_pkt_list_set_flag.
Asked(l, p) == [pkts |-> Append(l.pkts, p), flag |-> TRUE]

\* datapath_handle_write: one packet from the ring into the list of its flow;
\* the controller is asked if it was not asked yet.  A full table ends the
\* process.
HandleWrite ==
    /\ ~dead /\ ready /\ ring # <<>>
    /\ LET p == Head(ring)
           f == FlowOf[p]
           l == IF f \in DOMAIN lists THEN lists[f] ELSE [pkts |-> <<>>, flag |-> FALSE]
       IN  IF f \in DOMAIN lists \/ Cardinality(DOMAIN lists) < ListMax
           THEN /\ lists' = [g \in DOMAIN lists \cup {f} |->
                                IF g = f THEN Asked(l, p) ELSE lists[g]]
                /\ ctl' = IF l.flag THEN ctl ELSE Append(ctl, f)
                /\ ring' = Tail(ring) /\ UNCHANGED dead
           ELSE dead' = TRUE /\ UNCHANGED <<lists, ctl, ring>>
    /\ UNCHANGED <<arrived, known, ready, mods, done>>

\* The controller answers, or does not.
Controller ==
    /\ ctl # <<>> /\ ctl' = Tail(ctl)
    /\ mods' \in {mods, Append(mods, [flow |-> Head(ctl), buf |-> Head(ctl)]),
                  Append(mods, [flow |-> Head(ctl), buf |-> NoFlow])}
    /\ UNCHANGED <<arrived, ring, known, ready, lists, done, dead>>

\* Mutant: the list is returned but not emptied.
FlushedNot(l) == [l EXCEPT !.flag = FALSE]

\* sdn_pkt_list_flush: what is left of the list.
Flushed(l) == [pkts |-> <<>>, flag |-> FALSE]

\* datapath_handle_read: OFPT_FLOW_MOD.  One without a buffer is ignored.  The
\* flow goes into the flow director, and its list is returned with
\* onvm_nflib_return_pkt, which frees a packet when the NF's tx ring is full.
HandleFlowMod ==
    /\ ~dead /\ mods # <<>> /\ mods' = Tail(mods)
    /\ LET m == Head(mods) IN
       \/ m.buf = NoFlow /\ UNCHANGED <<known, lists, done>>
       \/ /\ m.buf # NoFlow
          /\ known' = known \cup {m.flow}
          /\ lists' = [lists EXCEPT ![m.buf] = Flushed(@)]
          /\ \E lost \in SUBSET DOMAIN lists[m.buf].pkts :
                done' = done \o [i \in DOMAIN lists[m.buf].pkts |->
                                    [pkt |-> lists[m.buf].pkts[i],
                                     how |-> IF i \in lost THEN "drop" ELSE "returned"]]
    /\ UNCHANGED <<arrived, ring, ready, ctl, dead>>

Next == Packet \/ Hello \/ HandleWrite \/ Controller \/ HandleFlowMod

Spec == Init /\ [][Next]_vars

-----------------------------------------------------------------------------
Answers(f) == SelectSeq(mods, LAMBDA m : m.buf = f)

\* The controller is asked about a flow at most once at a time, and only while
\* packets of the flow wait: between the packet-in and the flow modification
\* the flag of the list stays set, whatever packets arrive meanwhile.
AskedOnce ==
    \A f \in FlowIds :
        LET open == Len(SelectSeq(ctl, LAMBDA g : g = f)) + Len(Answers(f)) IN
        /\ open <= 1
        /\ open = 1 => lists[f].flag /\ lists[f].pkts # <<>>

Where(p) ==
    (IF \E i \in DOMAIN ring : ring[i] = p THEN 1 ELSE 0)
    + Cardinality({f \in DOMAIN lists : \E i \in DOMAIN lists[f].pkts : lists[f].pkts[i] = p})
    + Cardinality({i \in DOMAIN done : done[i].pkt = p})

\* Every packet that has arrived is in the ring, in one list, or done with,
\* exactly once, and the packets of a flow that wait for the controller are
\* done with in the order in which they came.
BufferedOnceInOrder ==
    /\ \A p \in 1 .. arrived : Where(p) = 1
    /\ \A i, j \in DOMAIN done :
          /\ i < j /\ FlowOf[done[i].pkt] = FlowOf[done[j].pkt]
          /\ done[i].how = "returned" /\ done[j].how = "returned"
          => done[i].pkt < done[j].pkt

\* A packet of a flow with an entry in the flow director waits only if it was
\* in the ring before the entry was made, or its flow was asked about again.
\* So nothing is left in a list with its flag clear.
NothingForgotten ==
    \A f \in DOMAIN lists : lists[f].pkts # <<>> => lists[f].flag
=============================================================================

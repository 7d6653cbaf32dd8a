------------------------------ MODULE FlowDir ------------------------------
(***************************************************************************)
(* The flow director (onvm_flow_dir.c): a flow table (onvm_flow_table.c,   *)
(* over DPDK's rte_hash) in shared memory whose entries point to service   *)
(* chains (onvm_sc_common.c, onvm_sc_mgr.c).  NFs change it as the test NF *)
(* does on a packet (examples/test_flow_dir) and as the SDN NF does on a   *)
(* flow modification (examples/flow_table/sdn.c: OFPT_FLOW_MOD), or with   *)
(* the deletions of the interface, while the manager's RX threads and the  *)
(* other NFs look packets up (onvm_pkt.c: onvm_pkt_process_rx_batch,       *)
(* onvm_pkt_common.c).                                                     *)
(*                                                                         *)
(* rte_hash is external: a key is stored with its hash in a free position, *)
(* and found only under the hash it was stored with.  Packets carry the    *)
(* hash of the NIC, keys are hashed by onvm_softrss.  The data array keeps *)
(* what the last owner of a position left there.                           *)
(***************************************************************************)
EXTENDS Integers, Sequences, FiniteSets, SequencesExt

CONSTANTS
    Key,            \* 5-tuples of flows
    HwRss, SoftRss, \* hash of a flow's packets, and of its key (onvm_softrss)
    Slot,           \* positions of the table
    Addr,           \* where service chains may be allocated: positive numbers
    Destination,    \* where the test NF sends a flow
    Builds,         \* the destinations a flow modification may list
    MaxChain        \* ONVM_MAX_CHAIN_LENGTH: entries of the array sc[]

Null  == 0
Empty == [len |-> -1]       \* a free position, or free memory
Rss   == {HwRss[k] : k \in Key} \cup {SoftRss[k] : k \in Key}

\* Chains lie behind address zero, and lists of destinations are finite.
Sized ==
    /\ Null \notin Addr /\ Destination \in Nat /\ MaxChain \in Nat \ {0}
    /\ \A ds \in Builds : ds \in [1 .. Len(ds) -> Nat] /\ Len(ds) \in Nat

VARIABLES
    hash,   \* position -> key and hash, or Empty
    data,   \* position -> address of the service chain of the flow_entry
    chain,  \* address -> service chain, or Empty when it is free memory
    nf,     \* what the NF that changes the table is doing
    broken  \* the NF wrote through a null pointer

vars == <<hash, data, chain, nf, broken>>

\* onvm_next_destination (onvm_next_action alike): 0 and a drop past the end.
NextDestination(c, cur) == IF cur >= c.len THEN 0 ELSE c.sc[cur + 1]

NewChain == [sc |-> [i \in 1 .. MaxChain - 1 |-> 0], len |-> 0, ref |-> 0, built |-> <<>>]

\* onvm_sc_append_entry.  sc[0] is reserved and the array has MaxChain
\* entries, but the test lets chain_length reach MaxChain + 1: sc[MaxChain]
\* lies on chain_length and sc[MaxChain + 1] on ref_cnt.
Append1(c, d) ==
    IF c.len > MaxChain THEN c
    ELSE LET n == c.len + 1
             b == [c EXCEPT !.built = Append(@, d)] IN
         IF n < MaxChain THEN [b EXCEPT !.len = n, !.sc[n] = d]
         ELSE IF n = MaxChain THEN [b EXCEPT !.len = d]
         ELSE [b EXCEPT !.len = n, !.ref = d]

BuildChain(ds) == FoldLeft(Append1, NewChain, ds)

\* onvm_ft_fill_key, and the hash that goes with the key.
Keyed(k, sig) == [key |-> k, sig |-> sig]

Lookup(k, sig) == {s \in Slot : hash[s] = Keyed(k, sig)}
Free           == {a \in Addr : chain[a] = Empty}

Init ==
    /\ hash = [s \in Slot |-> Empty]
    /\ data = [s \in Slot |-> Null]
    /\ chain = [a \in Addr |-> Empty]
    /\ nf = [at |-> "idle"]
    /\ broken = FALSE

-----------------------------------------------------------------------------
(* test_flow_dir: packet_handler, a flow that is not in the table.          *)

\* onvm_flow_dir_get_pkt fails and onvm_flow_dir_add_pkt makes the entry
\* visible with what the position held before; no room drops the packet.
AddPkt(k) ==
    /\ nf.at = "idle" /\ ~broken /\ Lookup(k, HwRss[k]) = {}
    /\ \E s \in Slot :
          /\ hash[s] = Empty
          /\ hash' = [hash EXCEPT ![s] = Keyed(k, HwRss[k])]
          /\ nf' = [at |-> "added", slot |-> s]
    /\ UNCHANGED <<data, chain, broken>>

\* memset of the flow_entry.
Clear ==
    /\ nf.at = "added"
    /\ data' = [data EXCEPT ![nf.slot] = Null]
    /\ nf' = [nf EXCEPT !.at = "cleared"]
    /\ UNCHANGED <<hash, chain, broken>>

\* onvm_sc_create, then onvm_sc_append_entry on the chain that is now visible.
CreateChain ==
    /\ nf.at = "cleared"
    /\ \E a \in Free :
          /\ chain' = [chain EXCEPT ![a] = NewChain]
          /\ data' = [data EXCEPT ![nf.slot] = a]
    /\ nf' = [nf EXCEPT !.at = "created"]
    /\ UNCHANGED <<hash, broken>>

AppendEntry ==
    /\ nf.at = "created"
    /\ chain' = [chain EXCEPT ![data[nf.slot]] = Append1(@, Destination)]
    /\ nf' = [at |-> "idle"]
    /\ UNCHANGED <<hash, data, broken>>

-----------------------------------------------------------------------------
(* datapath_handle_read: OFPT_FLOW_MOD *)

\* flow_action_extract builds the chain; then onvm_flow_dir_get_key.  A known
\* flow loses its chain, another one is added.  When the table is full the
\* entry is still a null pointer and is written.
FlowMod(k, ds) ==
    /\ nf.at = "idle" /\ ~broken
    /\ LET old == Lookup(k, SoftRss[k]) IN
       \E a \in Free :
          \/ \E s \in old :
                /\ chain' = [x \in Addr |->
                      IF x = a THEN BuildChain(ds)
                      ELSE IF x = data[s] THEN Empty ELSE chain[x]]
                /\ nf' = [at |-> "mod", slot |-> s, new |-> a]
                /\ UNCHANGED <<hash, broken>>
          \/ \E s \in Slot :
                /\ old = {} /\ hash[s] = Empty
                /\ hash' = [hash EXCEPT ![s] = Keyed(k, SoftRss[k])]
                /\ chain' = [chain EXCEPT ![a] = BuildChain(ds)]
                /\ nf' = [at |-> "mod", slot |-> s, new |-> a]
                /\ UNCHANGED broken
          \/ /\ old = {} /\ \A s \in Slot : hash[s] # Empty
             /\ broken' = TRUE
             /\ UNCHANGED <<hash, chain, nf>>
    /\ UNCHANGED data

\* memset, then the new chain.
InstallChain ==
    /\ nf.at = "mod"
    /\ data' = [data EXCEPT ![nf.slot] = nf.new]
    /\ nf' = [at |-> "idle"]
    /\ UNCHANGED <<hash, chain, broken>>

-----------------------------------------------------------------------------
(* The deletions of onvm_flow_dir.c *)

\* onvm_flow_dir_del_and_free_key and _pkt: the chain is freed and then the
\* entry is removed.
DelAndFree(k, sig) ==
    /\ nf.at = "idle" /\ ~broken
    /\ \E s \in Lookup(k, sig) :
          /\ chain' = [x \in Addr |-> IF x = data[s] THEN Empty ELSE chain[x]]
          /\ nf' = [at |-> "freed", slot |-> s]
    /\ UNCHANGED <<hash, data, broken>>

\* Mutant: the entry stays in the table.
RemoveEntryForgotten ==
    /\ nf.at = "freed"
    /\ nf' = [at |-> "idle"]
    /\ UNCHANGED <<hash, data, chain, broken>>

\* onvm_ft_remove_key: the position is free again, its data stays.
RemoveEntry ==
    /\ nf.at = "freed"
    /\ hash' = [hash EXCEPT ![nf.slot] = Empty]
    /\ nf' = [at |-> "idle"]
    /\ UNCHANGED <<data, chain, broken>>

\* onvm_flow_dir_del_key and _pkt: one reference less; the entry goes when
\* there was none before.
Del(k, sig) ==
    /\ nf.at = "idle" /\ ~broken
    /\ \E s \in Lookup(k, sig) :
          LET a == data[s] IN
          /\ chain[a] # Empty
          /\ IF chain[a].ref <= 0
             THEN chain' = [chain EXCEPT ![a] = Empty] /\ nf' = [at |-> "freed", slot |-> s]
             ELSE chain' = [chain EXCEPT ![a].ref = @ - 1] /\ UNCHANGED nf
    /\ UNCHANGED <<hash, data, broken>>

Next ==
    \/ \E k \in Key : AddPkt(k)
    \/ \E k \in Key, ds \in Builds : FlowMod(k, ds)
    \/ \E k \in Key, r \in Rss : DelAndFree(k, r) \/ Del(k, r)
    \/ Clear \/ CreateChain \/ AppendEntry \/ InstallChain \/ RemoveEntry

Spec == Init /\ [][Next]_vars

-----------------------------------------------------------------------------
InUse   == {s \in Slot : hash[s] # Empty}
Settled == {s \in InUse : nf.at = "idle" \/ nf.slot # s}

\* An entry that no NF is just changing points to a chain that is allocated
\* and that no other such entry points to, however often positions and memory
\* are used again.  (Between the add and the install a lookup finds what the
\* position held before: the chain of a flow that was deleted.)
EntriesLive ==
    \A s \in Settled :
        /\ data[s] # Null /\ chain[data[s]] # Empty
        /\ \A t \in Settled \ {s} : data[t] # data[s]

\* A flow that was added by its key is found by its packets, provided the NIC
\* computes the same hash as onvm_softrss; and then it has one entry only,
\* whether it was added by a packet or by its key.
FlowFoundOnce ==
    \A k \in Key :
        HwRss[k] = SoftRss[k] =>
            LET of == {s \in InUse : hash[s].key = k} IN
            of = Lookup(k, HwRss[k]) /\ Cardinality(of) <= 1

\* A packet walks a chain of fewer than ONVM_MAX_CHAIN_LENGTH entries exactly
\* as it was built, and is dropped behind its last entry (onvm_sc_append_entry,
\* onvm_next_destination).
ChainWalked ==
    \A a \in Addr :
        LET c == chain[a] IN
        c # Empty /\ Len(c.built) < MaxChain =>
            /\ \A i \in DOMAIN c.built : NextDestination(c, i - 1) = c.built[i]
            /\ NextDestination(c, Len(c.built)) = 0
=============================================================================

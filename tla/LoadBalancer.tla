---------------------------- MODULE LoadBalancer ----------------------------
(***************************************************************************)
(* The load balancer NF (examples/load_balancer): packets of clients go to *)
(* one of the servers, packets of the servers back to the client whose MAC *)
(* address was learned from the first packet of the flow.  A flow is what  *)
(* is left of the addresses once the load balancer's own is taken out, so  *)
(* both directions find the same entry.  The flow table is cleared of      *)
(* expired flows only when it is full.                                     *)
(***************************************************************************)
EXTENDS Integers, FiniteSets

CONSTANTS
    Flow,           \* flows; a flow has one client
    Backends,       \* what a configuration file may give as number of servers
    TableSize,      \* TABLE_SIZE
    ExpireTime,     \* lb->expire_time, in ticks
    MaxTime         \* bound: ticks

VARIABLES
    server_count,   \* 0 before the configuration has been read
    ft,             \* the flow table
    num_stored,
    elapsed,        \* lb->elapsed_cycles, as of the last callback
    clock,          \* the cycle counter
    out             \* the packet that was handled last, as it leaves

vars == <<server_count, ft, num_stored, elapsed, clock, out>>

None     == [used |-> FALSE]
Used     == {f \in Flow : ft[f].used}
Nothing  == [to |-> "none"]

\* main: rte_calloc, and the flow table.
Init ==
    /\ server_count = 0 /\ ft = [f \in Flow |-> None]
    /\ num_stored = 0 /\ elapsed = 0 /\ clock = 0 /\ out = Nothing

\* parse_backend_config: at least one server, uint8_t of them; get_iface_inf
\* tells the two ports apart by their addresses.
ParseBackendConfig(n) ==
    /\ server_count = 0 /\ n > 0 /\ server_count' = n
    /\ UNCHANGED <<ft, num_stored, elapsed, clock, out>>

Tick ==
    /\ clock < MaxTime /\ clock' = clock + 1
    /\ UNCHANGED <<server_count, ft, num_stored, elapsed, out>>

\* callback_handler, once per loop of the NF.
Callback ==
    /\ elapsed # clock /\ elapsed' = clock
    /\ UNCHANGED <<server_count, ft, num_stored, clock, out>>

\* Mutant: the age is compared with the time of the last clean-up.
ExpiredBySlot(e) == elapsed >= ExpireTime

\* update_status.
Expired(e) == elapsed - e.last >= ExpireTime

\* clear_entries: the others become active.
ClearEntries(t) ==
    [f \in Flow |-> IF ~t[f].used \/ Expired(t[f]) THEN None ELSE [t[f] EXCEPT !.active = TRUE]]

\* num_stored goes down by the entries that were removed.
Stored(t) == num_stored - Cardinality({f \in Flow : ft[f].used /\ ~t[f].used})

\* table_lookup_entry with table_add_entry: the table and the count afterwards.
LookupEntry(f, by) ==
    IF ft[f].used THEN [t |-> [ft EXCEPT ![f].last = elapsed], n |-> num_stored, ok |-> TRUE]
    ELSE LET t == IF TableSize - 1 - num_stored = 0 THEN ClearEntries(ft) ELSE ft
             n == Stored(t)
             room == Cardinality({g \in Flow : t[g].used}) < TableSize
         IN  IF ~room THEN [t |-> t, n |-> n, ok |-> FALSE]
             ELSE [t |-> [t EXCEPT ![f] = [used |-> TRUE, dest |-> (n + 1) % server_count,
                                           last |-> elapsed, active |-> FALSE, mac |-> "none",
                                           born |-> by]],
                   n |-> n + 1, ok |-> TRUE]

\* Mutant: the address is saved from every packet.
LearnAlways(e, mac) == [e EXCEPT !.active = TRUE, !.mac = mac]

\* If the entry is new, the source address of the packet is saved.
Learn(e, mac) == IF e.active THEN e ELSE [e EXCEPT !.active = TRUE, !.mac = mac]

\* packet_handler.  A packet without an IPv4 header or with a zero address is
\* dropped (flow "bad").
Handle(f, port) ==
    /\ server_count > 0
    /\ LET r == LookupEntry(f, port)
           e == Learn(r.t[f], IF port = "client" THEN f ELSE "server")
       IN  IF ~r.ok THEN /\ ft' = r.t /\ num_stored' = r.n
                         /\ out' = [to |-> "drop"]
           ELSE /\ ft' = [r.t EXCEPT ![f] = e] /\ num_stored' = r.n
                /\ out' = IF port = "server" THEN [to |-> "client", flow |-> f, mac |-> e.mac]
                          ELSE [to |-> "server", flow |-> f, dest |-> e.dest]
    /\ UNCHANGED <<server_count, elapsed, clock>>

HandleBad ==
    /\ server_count > 0 /\ out' = [to |-> "drop"]
    /\ UNCHANGED <<server_count, ft, num_stored, elapsed, clock>>

Next ==
    \/ \E n \in Backends : ParseBackendConfig(n)
    \/ Tick \/ Callback \/ HandleBad
    \/ \E f \in Flow, port \in {"client", "server"} : Handle(f, port)

Spec == Init /\ [][Next]_vars

-----------------------------------------------------------------------------
\* num_stored, which decides when the table is cleared and which server is next,
\* is the number of entries, through clearing and refused insertions.
StoredExact == num_stored = Cardinality(Used) /\ num_stored <= TableSize

\* A reply goes back to the client of its flow, unless it was a server's packet
\* that made the entry (the first one, or the first after the flow was cleared):
\* then the server's own address was learned.
RepliesToClient ==
    out.to = "client" /\ ft[out.flow].used /\ ft[out.flow].born = "client" => out.mac = out.flow

\* A flow keeps its server as long as its entry lives, and the entry is only taken
\* away when it has been silent for the expiry time.
StickyStep ==
    \A f \in Used : IF ft'[f].used THEN ft'[f].dest = ft[f].dest
                    ELSE clock - ft[f].last >= ExpireTime
=============================================================================

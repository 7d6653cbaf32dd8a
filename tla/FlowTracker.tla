---------------------------- MODULE FlowTracker ----------------------------
(***************************************************************************)
(* The flow tracker NF (examples/flow_tracker): a table of the flows seen, *)
(* with a packet count each.  Expired flows are removed only when a new    *)
(* flow finds the table full; the display marks them on the way.  Both     *)
(* directions of a flow have one entry.                                    *)
(***************************************************************************)
EXTENDS Integers, FiniteSets

CONSTANTS
    Flow,
    TblSize,        \* TBL_SIZE
    ExpireTime, PrintDelay,
    MaxTime,        \* bound: ticks of the counter
    MaxPackets      \* bound: packets of a flow

VARIABLES
    ft, num_stored,
    elapsed, last_cycles,   \* of state_info
    clock,
    seen            \* history: packets of each flow since its entry was made

vars == <<ft, num_stored, elapsed, last_cycles, clock, seen>>

None == [used |-> FALSE]
Used(t) == {f \in Flow : t[f].used}

Init ==
    /\ ft = [f \in Flow |-> None] /\ num_stored = 0
    /\ elapsed = 0 /\ last_cycles = 0 /\ clock = 0 /\ seen = [f \in Flow |-> 0]

Tick ==
    /\ clock < MaxTime /\ clock' = clock + 1
    /\ UNCHANGED <<ft, num_stored, elapsed, last_cycles, seen>>

\* update_status at the time e.
Status(t, e) ==
    [f \in Flow |-> IF t[f].used THEN [t[f] EXCEPT !.active = e - t[f].last < ExpireTime]
                    ELSE t[f]]

\* callback_handler with do_stats_display.
Callback ==
    /\ elapsed' = clock
    /\ IF clock - last_cycles > PrintDelay
       THEN last_cycles' = clock /\ ft' = Status(ft, clock)
       ELSE UNCHANGED <<last_cycles, ft>>
    /\ UNCHANGED <<num_stored, clock, seen>>

\* clear_entries.
Cleared ==
    LET t == Status(ft, elapsed)
    IN  [f \in Flow |-> IF t[f].used /\ t[f].active THEN t[f] ELSE None]

Full == TblSize - num_stored = 0

NewEntry == [used |-> TRUE, count |-> 0, last |-> elapsed, active |-> TRUE]

\* table_lookup_entry with table_add_entry: the first packet of a flow makes the
\* entry, those that follow are counted.  A flow without an entry gets none if
\* the table stays full, and its packets go on uncounted.
Packet(f) ==
    /\ seen[f] < MaxPackets
    /\ IF ft[f].used
       THEN /\ ft' = [ft EXCEPT ![f].count = @ + 1, ![f].last = elapsed]
            /\ seen' = [seen EXCEPT ![f] = @ + 1] /\ UNCHANGED num_stored
       ELSE LET t == IF Full THEN Cleared ELSE ft
                n == num_stored - Cardinality(Used(ft) \ Used(t))
                room == Cardinality(Used(t)) < TblSize
            IN  /\ ft' = IF room THEN [t EXCEPT ![f] = NewEntry] ELSE t
                /\ num_stored' = IF room THEN n + 1 ELSE n
                /\ seen' = [g \in Flow |-> IF g = f /\ room THEN 1
                                           ELSE IF t[g].used THEN seen[g] ELSE 0]
    /\ UNCHANGED <<elapsed, last_cycles, clock>>

Next == Tick \/ Callback \/ \E f \in Flow : Packet(f)

Spec == Init /\ [][Next]_vars

-----------------------------------------------------------------------------
\* The count of a flow is one less than its packets: the one that made the entry
\* is not in it; no packet of an entry is otherwise missed, whatever is cleared.
CountsPackets == \A f \in Used(ft) : ft[f].count = seen[f] - 1

\* A flow is only forgotten if it has been silent for the expiry time.
SilentStep == \A f \in Used(ft) : ~ft'[f].used => clock - ft[f].last >= ExpireTime
=============================================================================

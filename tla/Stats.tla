------------------------------- MODULE Stats -------------------------------
(***************************************************************************)
(* The statistics of the manager (onvm_stats.c): the master thread prints  *)
(* counters and rates of the ports and of the running NFs, while RX, TX    *)
(* and NF threads count on.  The rate of a counter is its difference to    *)
(* what the last display saved for it; the saved values are kept by        *)
(* instance id and outlive the NF, whose counters onvm_nf_stop clears.     *)
(*                                                                         *)
(* A row is a port or an instance id.  Of the counters two are kept: "rx"  *)
(* (and tx alike), which the display of an NF reads again when it saves it,*)
(* and "drop" (rx_drop, tx_drop), which it does not.  Where the output     *)
(* goes, and its layout, are left out; the totals of the services are in.  *)
(***************************************************************************)
EXTENDS Integers, Sequences, FiniteSets, FiniteSetsExt

CONSTANTS
    Ports, Nfs,     \* numbers of the rows; ports come first
    ServiceOf,      \* service of each NF
    MaxCount        \* bound: what a counter may reach

Row     == Ports \cup Nfs
Counter == {"rx", "drop"}
Zero    == [f \in Counter |-> 0]

VARIABLES
    status,     \* nfs[].status, and "running" for ports
    count,      \* the counters of each row
    last,       \* rx_last, nf_rx_last, nf_rx_drop_last ...
    disp,       \* the display: where it is, the row, the values it has read
    total,      \* rx_for_service
    printed,    \* history: the rx printed for each NF in this display
    shown,      \* history: the differences printed for a row since its clear
    missed,     \* history: packets counted between the read and the save
    stale       \* history: counters whose saved value is of an earlier NF

vars == <<status, count, last, disp, total, printed, shown, missed, stale>>

Service == {ServiceOf[i] : i \in Nfs}
Idle    == [at |-> "idle"]

Init ==
    /\ status = [i \in Row |-> IF i \in Ports THEN "running" ELSE "stopped"]
    /\ count = [i \in Row |-> Zero] /\ last = [i \in Row |-> Zero]
    /\ disp = Idle
    /\ total = [s \in Service |-> 0] /\ printed = [i \in Nfs |-> 0]
    /\ shown = [i \in Row |-> Zero] /\ missed = [i \in Row |-> Zero]
    /\ stale = [i \in Row |-> {}]

\* A worker counts a packet; for an NF that has just stopped too, if it looked
\* at the status before.
Count(i, f) ==
    /\ count[i][f] < MaxCount
    /\ count' = [count EXCEPT ![i][f] = @ + 1]
    /\ missed' = IF disp.at = "save" /\ disp.row = i /\ i \in Nfs /\ f = "rx"
                 THEN [missed EXCEPT ![i][f] = @ + 1] ELSE missed
    /\ UNCHANGED <<status, last, disp, total, printed, shown, stale>>

-----------------------------------------------------------------------------
(* onvm_nf_check_status, which the master calls between two displays.       *)

Ready(i) ==
    /\ disp = Idle /\ i \in Nfs /\ status[i] = "stopped"
    /\ status' = [status EXCEPT ![i] = "running"]
    /\ UNCHANGED <<count, last, disp, total, printed, shown, missed, stale>>

\* onvm_nf_stop with onvm_stats_clear_nf.
Stop(i) ==
    /\ disp = Idle /\ i \in Nfs /\ status[i] = "running"
    /\ status' = [status EXCEPT ![i] = "stopped"]
    /\ count' = [count EXCEPT ![i] = Zero]
    /\ stale' = [stale EXCEPT ![i] = {f \in Counter : last[i][f] # 0}]
    /\ shown' = [shown EXCEPT ![i] = Zero] /\ missed' = [missed EXCEPT ![i] = Zero]
    /\ UNCHANGED <<last, disp, total, printed>>

-----------------------------------------------------------------------------
(* onvm_stats_display_all *)

\* The next row to print: ports, then the NFs that run.
RowsFrom(n) == {i \in Row : i >= n /\ status[i] = "running"}
Goto(n)     == IF RowsFrom(n) = {} THEN [at |-> "totals"]
               ELSE [at |-> "read", row |-> Min(RowsFrom(n))]

Begin ==
    /\ disp = Idle /\ disp' = Goto(Min(Row))
    /\ total' = [s \in Service |-> 0] /\ printed' = [i \in Nfs |-> 0]
    /\ UNCHANGED <<status, count, last, shown, missed, stale>>

\* What is saved for a row, forgotten when the counter of an NF is 0.
Saved(i) == [f \in Counter |-> IF i \in Nfs /\ count[i][f] = 0 THEN 0 ELSE last[i][f]]

\* onvm_stats_display_ports and _nfs: one row is read and printed.
Read ==
    /\ disp.at = "read"
    /\ LET i == disp.row
           diff == [f \in Counter |-> count[i][f] - Saved(i)[f]]
           fresh == {f \in stale[i] : count[i][f] # 0}
       IN  /\ disp' = [at |-> "save", row |-> i, seen |-> count[i], diff |-> diff, stale |-> fresh]
           /\ last' = [last EXCEPT ![i] = Saved(i)]
           /\ shown' = [shown EXCEPT ![i] = [f \in Counter |->
                           IF f \in fresh THEN count[i][f] ELSE @[f] + diff[f]]]
           /\ stale' = [stale EXCEPT ![i] = {}]
           /\ printed' = IF i \in Nfs THEN [printed EXCEPT ![i] = count[i]["rx"]] ELSE printed
           /\ total' = IF i \in Nfs THEN [total EXCEPT ![ServiceOf[i]] = @ + count[i]["rx"]]
                       ELSE total
    /\ UNCHANGED <<status, count, missed>>

\* Mutant: all counters are read again.
Reread(i) == count[i]

\* What the row saves: an NF's rx is read again, the rest is what was printed.
ToSave(i) == [f \in Counter |-> IF i \in Nfs /\ f = "rx" THEN count[i][f] ELSE disp.seen[f]]

Save ==
    /\ disp.at = "save"
    /\ last' = [last EXCEPT ![disp.row] = ToSave(disp.row)]
    /\ disp' = Goto(disp.row + 1)
    /\ UNCHANGED <<status, count, total, printed, shown, missed, stale>>

\* The totals are printed if a service has more than one NF.
Totals ==
    /\ disp.at = "totals" /\ disp' = Idle
    /\ UNCHANGED <<status, count, last, total, printed, shown, missed, stale>>

Next ==
    \/ \E i \in Row, f \in Counter : Count(i, f)
    \/ \E i \in Nfs : Ready(i) \/ Stop(i)
    \/ Begin \/ Read \/ Save \/ Totals

Spec == Init /\ [][Next]_vars

-----------------------------------------------------------------------------
\* Between two displays, the rates printed for a row add up to what it has
\* counted up to the last one, but for the packets that came while its line was
\* printed: these are in no rate of an NF.  For drops and for ports nothing is
\* missed.
RatesAddUp ==
    disp.at # "save" =>
        \A i \in Row : \A f \in Counter \ stale[i] :
            shown[i][f] + missed[i][f] = last[i][f]

\* A rate is never the difference to a larger value (which would print as almost
\* 2^64), unless packets of the next NF with the id came before the display saw
\* the cleared counter.
NoUnderflow ==
    disp.at = "save" =>
        \A f \in Counter : disp.diff[f] < 0 => f \in disp.stale

\* The totals of a service are those of the lines printed for its NFs.
TotalsMatch ==
    disp.at = "totals" =>
        \A s \in Service :
            total[s] = MapThenSumSet(LAMBDA i : printed[i], {i \in Nfs : ServiceOf[i] = s})
=============================================================================

------------------------------ MODULE MgrStart ------------------------------
(***************************************************************************)
(* Start and end of the manager in its DPDK build: init() (onvm_init.c),   *)
(* parse_app_args (onvm_args.c), and main() (main.c), which spreads the    *)
(* NFs over the TX and wakeup threads, launches them on the lcores, runs   *)
(* the master loop and frees what it has allocated.                        *)
(*                                                                         *)
(* Lcores are numbered from 0; the master runs on 0.  EAL, the memory      *)
(* zones and the drivers are external: each call may fail.                 *)
(***************************************************************************)
EXTENDS Integers, Sequences, FiniteSets

CONSTANTS
  LcoreCounts,          \* values of rte_lcore_count()
  Cpus,                 \* onvm_threading_get_num_cores()
  TotalPorts,           \* rte_eth_dev_count_avail()
  PortMasks, CoreMasks, \* masks given with -p and -n, as sets of bits
  MAX_NFS, MaxServices,
  WakeupThreads,        \* ONVM_NUM_WAKEUP_THREADS
  MaxOptions,           \* options on a command line
  MaxShutdownIters,
  MaxLinkChecks         \* MAX_CHECK_TIME

VARIABLES
  pc, lcores,
  ports,                \* ports->id
  started,              \* ports started, with repetition
  cores,                \* cores[] with enabled set
  num_services, services,  \* the number asked for, and the size of the arrays
  share,                \* ONVM_NF_SHARE_CORES
  workers,              \* launched: [kind, first, last, lcore, state]
  count                 \* options parsed, then link checks, then shutdown rounds

vars == << pc, lcores, ports, started, cores, num_services, services, share, workers, count >>

\* What the build and the host give: there is a master lcore, and one wakeup thread.
Configuration ==
  /\ LcoreCounts \subseteq Nat \ {0}
  /\ TotalPorts \in Nat /\ PortMasks \subseteq SUBSET Nat
  /\ MAX_NFS \in Nat \ {0}
  /\ WakeupThreads = 1

NumRx == 1              \* ONVM_NUM_RX_THREADS
NumAux == 1             \* ONVM_NUM_MGR_AUX_THREADS

Init ==
  /\ pc = "reserve"
  /\ lcores \in LcoreCounts
  /\ ports = << >> /\ started = << >>
  /\ cores = {}
  /\ num_services = MaxServices /\ services = 0
  /\ share = FALSE
  /\ workers = << >>
  /\ count = 0

\* A call of init() that fails ends the process, by a return or by rte_exit.
Fail ==
  /\ pc \in {"reserve", "parse", "pools", "ports", "queues"}
  /\ pc' = "exited"
  /\ UNCHANGED << lcores, ports, started, cores, num_services, services, share, workers, count >>

\* The memory zones: the arrays of the services are laid out before the options
\* are read, for the number of services compiled in.
Reserve ==
  /\ pc = "reserve"
  /\ services' = num_services
  /\ pc' = "parse"
  /\ UNCHANGED << lcores, ports, started, cores, num_services, share, workers, count >>

Option ==
  /\ pc = "parse" /\ count < MaxOptions
  /\ count' = count + 1
  /\ UNCHANGED << pc, lcores, started, services, workers >>

Ascending(S) == CHOOSE s \in [1..Cardinality(S) -> S] : \A i, j \in DOMAIN s : i < j => s[i] < s[j]

\* Each bit of the mask that is a port is appended: a second -p appends again.
parse_portmask(mask) ==
  /\ Option
  /\ ports' = ports \o Ascending({b \in mask : b < TotalPorts})
  /\ UNCHANGED << cores, num_services, share >>

\* The walk over the mask ends at the number of CPUs.
parse_nf_cores(mask) ==
  /\ Option
  /\ cores' = cores \cup {b \in mask : b < Cpus}
  /\ UNCHANGED << ports, num_services, share >>

parse_num_services(n) ==
  /\ Option
  /\ num_services' = n
  /\ UNCHANGED << ports, cores, share >>

EnableSharedCpu ==
  /\ Option
  /\ share' = TRUE
  /\ UNCHANGED << ports, cores, num_services >>

\* The options that only set a global of the statistics or a limit, -s and -z to -j.
OtherOption ==
  /\ Option
  /\ UNCHANGED << ports, cores, num_services, share >>

\* The mbuf pool, the pool of start configurations, the message pool.
InitPools ==
  /\ pc = "parse"
  /\ pc' = "ports"
  /\ UNCHANGED << lcores, ports, started, cores, num_services, services, share, workers, count >>

\* init_port, in the order of the list.  A port that has been started cannot be
\* configured again, and the manager exits (Fail).
init_port ==
  /\ pc = "ports" /\ Len(started) < Len(ports)
  /\ LET port == ports[Len(started) + 1]
     IN  /\ port \notin {started[i] : i \in DOMAIN started}
         /\ started' = Append(started, port)
  /\ UNCHANGED << pc, lcores, ports, cores, num_services, services, share, workers, count >>

PortsDone ==
  /\ pc = "ports" /\ Len(started) = Len(ports)
  /\ pc' = "links" /\ count' = 0
  /\ UNCHANGED << lcores, ports, started, cores, num_services, services, share, workers >>

\* check_all_ports_link_status: asks again until all are up or the time is over;
\* then one last time, to print.
CheckLinks(up) ==
  /\ pc = "links"
  /\ count' = count + 1
  /\ pc' = IF up \/ count >= MaxLinkChecks - 1 THEN "queues" ELSE "links"
  /\ UNCHANGED << lcores, ports, started, cores, num_services, services, share, workers >>

\* init_info_queue, init_shared_sem, the default chain, the flow director.
InitQueues ==
  /\ pc = "queues"
  /\ pc' = "assign" /\ count' = 0
  /\ UNCHANGED << lcores, ports, started, cores, num_services, services, share, workers >>

(***************************************************************************)
(* main(): the threads.                                                    *)
(***************************************************************************)

\* What is left for TX; the code computes it without a sign.
TxLcores == lcores - NumRx - NumAux - (IF share THEN WakeupThreads ELSE 0)

\* Only shared core mode tests that a core is left for TX, and less than none is a
\* huge number there: the arrays of that size do not fit the stack.
AssignCores ==
  /\ pc = "assign"
  /\ pc' = CASE TxLcores < 0 -> "crashed"
             [] share /\ TxLcores = 0 -> "returned"
             [] OTHER -> "launch"
  /\ UNCHANGED << lcores, ports, started, cores, num_services, services, share, workers, count >>

Ceil(a, b) == (a + b - 1) \div b
Min(a, b) == IF a < b THEN a ELSE b

\* Mutant: the quotient is rounded down.
DownRange(i, n) == [first |-> Min(i * (MAX_NFS \div n) + 1, MAX_NFS),
                    last |-> Min((i + 1) * (MAX_NFS \div n) + 1, MAX_NFS)]

\* NFs first .. last - 1 of TX thread i of n: the quotient is rounded up.
TxRange(i, n) == [first |-> Min(i * Ceil(MAX_NFS, n) + 1, MAX_NFS),
                  last |-> Min((i + 1) * Ceil(MAX_NFS, n) + 1, MAX_NFS)]

\* Of wakeup thread i: the division is one of integers, ceil finds nothing to do.
WakeupRange(i, n) == [first |-> Min(i * (MAX_NFS \div n) + 1, MAX_NFS),
                      last |-> Min((i + 1) * (MAX_NFS \div n) + 1, MAX_NFS)]

\* The kinds of the threads, in the order they are launched.
Plan ==
  [i \in 1..TxLcores |-> "tx"] \o [i \in 1..NumRx |-> "rx"]
    \o [i \in 1..(IF share THEN WakeupThreads ELSE 0) |-> "wakeup"]

\* rte_get_next_lcore(cur, skip master, wrap): the n-th launch gets the n-th
\* lcore after the master (the offset of NumRx - 1 is zero).
NextLcore(n) == ((n - 1) % (lcores - 1)) + 1

\* The next thread: its context is allocated and it is launched, unless the lcore
\* is busy.  A failure of either frees and returns (LaunchFails).
Launch ==
  /\ pc = "launch" /\ Len(workers) < Len(Plan)
  /\ LET n == Len(workers) + 1
         kind == Plan[n]
         range == CASE kind = "tx" -> TxRange(n - 1, TxLcores)
                    [] kind = "rx" -> [first |-> 0, last |-> 0]
                    [] kind = "wakeup" -> WakeupRange(n - 1 - TxLcores - NumRx, WakeupThreads)
     IN  /\ \A i \in DOMAIN workers : workers[i].lcore # NextLcore(n)
         /\ workers' = Append(workers, [kind |-> kind, first |-> range.first, last |-> range.last,
                                        lcore |-> NextLcore(n)])
  /\ UNCHANGED << pc, lcores, ports, started, cores, num_services, services, share, count >>

LaunchFails ==
  /\ pc = "launch" /\ Len(workers) < Len(Plan)
  /\ pc' = "returned"
  /\ UNCHANGED << lcores, ports, started, cores, num_services, services, share, workers, count >>

\* master_thread_main runs until a signal, the time to live or the packet limit.
RunMaster ==
  /\ pc = "launch" /\ Len(workers) = Len(Plan)
  /\ pc' = "running"
  /\ UNCHANGED << lcores, ports, started, cores, num_services, services, share, workers, count >>

StopMaster ==
  /\ pc = "running"
  /\ pc' = "stopping" /\ count' = 0
  /\ UNCHANGED << lcores, ports, started, cores, num_services, services, share, workers >>

\* The NFs have been told to stop; the manager waits for them a number of rounds,
\* and then ends whether they have left or not.
AwaitNfs(gone) ==
  /\ pc = "stopping"
  /\ count' = count + 1
  /\ pc' = IF gone \/ count + 1 >= MaxShutdownIters THEN "returned" ELSE pc
  /\ UNCHANGED << lcores, ports, started, cores, num_services, services, share, workers >>

Next ==
  \/ Fail \/ Reserve
  \/ \E mask \in PortMasks : parse_portmask(mask)
  \/ \E mask \in CoreMasks : parse_nf_cores(mask)
  \/ \E n \in {1, MaxServices + 1} : parse_num_services(n)
  \/ EnableSharedCpu \/ OtherOption
  \/ InitPools \/ init_port \/ PortsDone
  \/ \E up \in BOOLEAN : CheckLinks(up)
  \/ InitQueues \/ AssignCores \/ Launch \/ LaunchFails \/ RunMaster \/ StopMaster
  \/ \E gone \in BOOLEAN : AwaitNfs(gone)

Spec == Init /\ [][Next]_vars

-----------------------------------------------------------------------------
Of(kind) == {i \in DOMAIN workers : workers[i].kind = kind}
Owners(kind, nf) == {i \in Of(kind) : nf >= workers[i].first /\ nf < workers[i].last}

\* While the manager runs, each instance ID is polled by exactly one TX thread,
\* however the IDs divide by the number of threads: one that two threads dequeued
\* from, or none, would break the single-consumer ring or never be drained.
NfsPartitioned ==
  pc \in {"running", "stopping"} /\ TxLcores > 0 =>
    \A nf \in 1..(MAX_NFS - 1) : Cardinality(Owners("tx", nf)) = 1

\* In shared core mode each instance ID has one wakeup thread too: without it an NF
\* that sleeps would not be woken.
SleepersWatched ==
  pc \in {"running", "stopping"} /\ share =>
    \A nf \in 1..(MAX_NFS - 1) : Cardinality(Owners("wakeup", nf)) = 1

\* The threads fit the lcores: each finds one that is free and not the master's,
\* so none of the launches main() plans can find its core busy.
LcoresSuffice ==
  pc = "launch" /\ Len(workers) < Len(Plan) =>
    NextLcore(Len(workers) + 1) \in (1..(lcores - 1)) \ {workers[i].lcore : i \in DOMAIN workers}

\* A manager that runs has started every port on its list, and none twice, also
\* when -p was given more than once.
PortsStartedOnce ==
  pc \in {"running", "stopping"} =>
    /\ started = ports
    /\ \A i, j \in DOMAIN started : started[i] = started[j] => i = j
=============================================================================

----------------------------- MODULE NfRegistry -----------------------------
(***************************************************************************)
(* How network functions (NFs) register with the manager and leave it      *)
(* (onvm_mgr/onvm_nf.c: onvm_nf_check_status, onvm_nf_start, onvm_nf_ready,*)
(* onvm_nf_stop, onvm_nf_next_instance_id, onvm_nf_relocate_nf;            *)
(* onvm_nflib/onvm_threading.c: the choice of a core;                      *)
(* onvm_nflib/onvm_nflib.c: the NF's side of the handshake).               *)
(*                                                                         *)
(* Every NF process runs once: it takes an nf_init_cfg from the shared     *)
(* pool, asks for an id (MSG_NF_STARTING), declares itself ready           *)
(* (MSG_NF_READY) and finally says that it stops (MSG_NF_STOPPING).  The   *)
(* manager handles the messages one by one; the processes poll the words   *)
(* that the manager writes.                                                *)
(*                                                                         *)
(* `health' says whether the shared state is still sound.  It leaves "up"  *)
(* when the manager calls rte_exit or memory is overwritten; nothing is    *)
(* modelled after that.                                                    *)
(***************************************************************************)
EXTENDS Integers, Sequences, FiniteSets, FiniteSetsExt

CONSTANTS
    Proc,           \* NF processes, each launched once
    MaxNfs,         \* MAX_NFS; instance id 0 is reserved
    MaxServices,    \* MAX_SERVICES
    MaxPerService,  \* MAX_NFS_PER_SERVICE
    NumCores,       \* onvm_threading_get_num_cores()
    Enabled,        \* cores enabled for NFs
    PoolSize,       \* nf_init_cfg structs in the pool
    Options,        \* what a process may ask for
    Signals,        \* processes may be signalled while they start
    Reassign        \* ONVM_NF_SHUTDOWN_CORE_REASSIGNMENT

Id      == 1 .. (MaxNfs - 1)
NoId    == MaxNfs + 1           \* NF_NO_ID
Service == 0 .. (MaxServices - 1)
Slot    == 0 .. (MaxPerService - 1)
Core    == 0 .. (NumCores - 1)
U16     == 65536
Cfg     == 0                    \* an nf_init_cfg struct, in the pool

Option == [inst : Id \cup {NoId}, service : Nat, manual : BOOLEAN,
           core : Core, share : BOOLEAN]

ASSUME RegistryAssumption ==
    /\ IsFiniteSet(Proc)
    /\ {MaxNfs, MaxServices, MaxPerService, NumCores, PoolSize} \subseteq Nat \ {0}
    /\ NoId < U16                \* ids are uint16_t
    /\ Enabled \subseteq Core
    /\ Options \subseteq Option /\ Options # {}
    /\ {Signals, Reassign} \subseteq BOOLEAN

VARIABLES
    health,     \* "up", or why the manager's state is lost
    nf,         \* nfs: id -> status, service and core
    ringed,     \* ids whose rings exist
    services,   \* services: service -> slot -> id, 0 for none
    perService, \* nf_per_service_count
    numNfs,     \* num_nfs
    nextId,     \* next_instance_id
    coreCnt,    \* cores[].nf_count
    dedicated,  \* cores[].is_dedicated_core
    pool,       \* the nf_init_cfg pool, first in first out: Cfg, or the id
                \* of an nfs[] entry that was put there
    queue,      \* incoming_msg_queue
    moves,      \* id -> cores of the MSG_CHANGE_COREs not yet handled
    pc,         \* where each process is
    cfg,        \* the nf_init_cfg of each process
    myId        \* nf_local_ctx->nf

mgrState == <<nf, ringed, services, perService, numNfs, nextId, coreCnt, dedicated>>
procs    == <<pc, cfg, myId>>
vars     == <<health, mgrState, pool, queue, moves, procs>>

Up         == health = "up"
Valid(i)   == nf[i].status = "running"           \* onvm_nf_is_valid
Running    == {i \in Id : Valid(i)}
Registered == {i \in Id : nf[i].status \in {"starting", "running"}}

Init ==
    /\ health = "up"
    /\ nf = [i \in Id |-> [status |-> "unused", service |-> 0, core |-> 0]]
    /\ ringed = {}
    /\ services = [s \in Service |-> [k \in Slot |-> 0]]
    /\ perService = [s \in Service |-> 0]
    /\ numNfs = 0 /\ nextId = 1
    /\ coreCnt = [c \in Core |-> 0]
    /\ dedicated = [c \in Core |-> FALSE]
    /\ pool = [k \in 1 .. PoolSize |-> Cfg]
    /\ queue = <<>>
    /\ moves = [i \in Id |-> <<>>]
    /\ pc = [p \in Proc |-> "new"]
    /\ cfg = [p \in Proc |-> [status |-> "waiting", opt |-> CHOOSE o \in Options : TRUE]]
    /\ myId = [p \in Proc |-> 0]

-----------------------------------------------------------------------------
(* The NF process (onvm_nflib.c) *)

Send(type, p) == queue' = Append(queue, [type |-> type, proc |-> p])

Goto(p, loc) == pc' = [pc EXCEPT ![p] = loc]

\* onvm_nflib_init_nf_init_cfg, the arguments, and the start message.  A
\* process that was signalled before this point leaves without a message and
\* without giving the struct back.
Launch(p, o) ==
    /\ Up /\ pc[p] = "new" /\ Len(pool) > 0
    /\ pool' = Tail(pool)
    /\ IF Head(pool) # Cfg
       THEN health' = "aliased" /\ UNCHANGED <<queue, procs>>
       ELSE /\ cfg' = [cfg EXCEPT ![p] = [status |-> "waiting", opt |-> o]]
            /\ \/ Goto(p, "waiting") /\ Send("starting", p)
               \/ Signals /\ Goto(p, "gone") /\ UNCHANGED queue
            /\ UNCHANGED <<health, myId>>
    /\ UNCHANGED <<mgrState, moves>>

\* The process finds the answer: it keeps the id, or gives up.  Either way the
\* struct goes back to the pool.
Answered(p) ==
    /\ Up /\ pc[p] = "waiting" /\ cfg[p].status # "waiting"
    /\ pool' = Append(pool, Cfg)
    /\ IF cfg[p].status = "starting"
       THEN Goto(p, "started") /\ myId' = [myId EXCEPT ![p] = cfg[p].opt.inst]
       ELSE Goto(p, "gone") /\ UNCHANGED myId
    /\ UNCHANGED <<health, mgrState, queue, moves, cfg>>

\* A signal while it waits: it waits a few seconds more for an id, stops the
\* NF if it got one, and otherwise leaves.  The struct is not given back.
SignalledWaiting(p) ==
    /\ Up /\ Signals /\ pc[p] = "waiting"
    /\ Goto(p, "gone")
    /\ IF cfg[p].status = "starting"
       THEN /\ myId' = [myId EXCEPT ![p] = cfg[p].opt.inst]
            /\ Send("stopping", p)
       ELSE UNCHANGED <<queue, myId>>
    /\ UNCHANGED <<health, mgrState, pool, moves, cfg>>

\* Mutant: the ready message is lost.
SendReadyLost(p) ==
    /\ Up /\ pc[p] = "started"
    /\ Goto(p, "readying")
    /\ UNCHANGED <<health, mgrState, pool, queue, moves, cfg, myId>>

\* onvm_nflib_run: onvm_nflib_nf_ready sends the message and waits.
SendReady(p) ==
    /\ Up /\ pc[p] = "started"
    /\ Goto(p, "readying") /\ Send("ready", p)
    /\ UNCHANGED <<health, mgrState, pool, moves, cfg, myId>>

BecomeReady(p) ==
    /\ Up /\ pc[p] = "readying" /\ Valid(myId[p])
    /\ Goto(p, "running")
    /\ UNCHANGED <<health, mgrState, pool, queue, moves, cfg, myId>>

\* Mutant: the NF ends without a word.
StopSilent(p) ==
    /\ Up /\ pc[p] \in {"started", "running"}
    /\ Goto(p, "gone")
    /\ UNCHANGED <<health, mgrState, pool, queue, moves, cfg, myId>>

\* onvm_nflib_stop, when the main loop ends or, before it began, when the NF
\* rejects its own arguments.
Stop(p) ==
    /\ Up /\ pc[p] \in {"started", "running"}
    /\ Goto(p, "gone") /\ Send("stopping", p)
    /\ UNCHANGED <<health, mgrState, pool, moves, cfg, myId>>

\* MSG_CHANGE_CORE in onvm_nflib_handle_msg.
ChangeCore(p) ==
    /\ Up /\ pc[p] = "running" /\ moves[myId[p]] # <<>>
    /\ nf' = [nf EXCEPT ![myId[p]].core = Head(moves[myId[p]])]
    /\ moves' = [moves EXCEPT ![myId[p]] = Tail(@)]
    /\ UNCHANGED <<health, ringed, services, perService, numNfs, nextId, coreCnt,
                   dedicated, pool, queue, procs>>

Process(p) ==
    \/ \E o \in Options : Launch(p, o)
    \/ Answered(p) \/ SignalledWaiting(p) \/ SendReady(p) \/ BecomeReady(p)
    \/ Stop(p) \/ ChangeCore(p)

-----------------------------------------------------------------------------
(* onvm_nf_start *)

\* onvm_nf_next_instance_id: the first id from next_instance_id on, and then
\* from the start, that no running NF has.
NextInstanceId ==
    LET idle  == Id \ Running
        later == {i \in idle : i >= nextId}
    IN  IF numNfs >= MaxNfs \/ idle = {} THEN MaxNfs
        ELSE IF later # {} THEN Min(later) ELSE Min(idle)

\* Mutant: dedicated cores are given out again.
FreeCoresAll == Enabled

\* onvm_threading_get_core without a manual choice: the least used core.
FreeCores == {c \in Enabled : ~dedicated[c]}

BestCore ==
    CHOOSE c \in FreeCores :
        \A d \in FreeCores : \/ coreCnt[c] < coreCnt[d]
                             \/ coreCnt[c] = coreCnt[d] /\ c <= d

CoreFor(o) == IF o.manual THEN o.core ELSE BestCore

\* Why onvm_threading_get_core refuses, or "ok".
CoreVerdict(o) ==
    IF o.manual /\ o.core \notin Enabled THEN "out_of_range"
    ELSE IF o.manual /\ dedicated[o.core] THEN "busy"
    ELSE IF ~o.manual /\ (\A c \in FreeCores : coreCnt[c] = U16 - 1) THEN "no_cores"
    ELSE IF ~o.share /\ coreCnt[CoreFor(o)] # 0 THEN "no_dedicated"
    ELSE "ok"

\* The checks of onvm_nf_start in their order.
StartVerdict(o, id) ==
    IF id >= MaxNfs THEN "no_ids"
    ELSE IF o.service >= MaxServices THEN "service_max"
    ELSE IF perService[o.service] >= MaxPerService THEN "service_count_max"
    ELSE IF Valid(id) THEN "id_conflict"
    ELSE CoreVerdict(o)

\* onvm_nf_init_rings: rte_ring_create fails when the name is taken.
RingExists(id) == id \in ringed

\* onvm_nf_check_status takes a message from the queue.
Receive(type, p) ==
    /\ Up /\ queue # <<>> /\ Head(queue) = [type |-> type, proc |-> p]
    /\ queue' = Tail(queue)

\* MSG_NF_STARTING.
HandleStarting(p) ==
    LET o       == cfg[p].opt
        id      == IF o.inst = NoId THEN NextInstanceId ELSE o.inst
        verdict == StartVerdict(o, id)
        core    == CoreFor(o)
    IN  /\ Receive("starting", p)
        /\ nextId' = IF o.inst # NoId \/ numNfs >= MaxNfs THEN nextId
                     ELSE IF id = MaxNfs THEN MaxNfs ELSE id + 1
        /\ IF verdict # "ok"
           THEN /\ cfg' = [cfg EXCEPT ![p].status = verdict]
                /\ UNCHANGED <<health, nf, ringed, coreCnt, dedicated>>
           ELSE IF RingExists(id)  \* rte_exit
           THEN health' = "ring_clash" /\ UNCHANGED <<nf, ringed, coreCnt, dedicated, cfg>>
           ELSE /\ nf' = [nf EXCEPT ![id] = [status |-> "starting",
                                            service |-> o.service, core |-> core]]
                /\ ringed' = ringed \cup {id}
                /\ coreCnt' = [coreCnt EXCEPT ![core] = (@ + 1) % U16]
                /\ dedicated' = [dedicated EXCEPT ![core] = @ \/ ~o.share]
                /\ cfg' = [cfg EXCEPT ![p] = [status |-> "starting",
                                              opt |-> [o EXCEPT !.inst = id]]]
                /\ UNCHANGED health
        /\ UNCHANGED <<services, perService, numNfs, pool, moves, pc, myId>>

-----------------------------------------------------------------------------
(* onvm_nf_ready and onvm_nf_stop *)

\* MSG_NF_READY: the NF is entered in its service.
HandleReady(p) ==
    LET id == myId[p]
        s  == nf[id].service
    IN  /\ Receive("ready", p)
        /\ IF nf[id].status # "starting"
           THEN UNCHANGED <<health, nf, services, perService, numNfs>>
           ELSE IF perService[s] >= MaxPerService  \* write past the array
           THEN health' = "overrun" /\ UNCHANGED <<nf, services, perService, numNfs>>
           ELSE /\ services' = [services EXCEPT ![s][perService[s]] = id]
                /\ perService' = [perService EXCEPT ![s] = @ + 1]
                /\ numNfs' = numNfs + 1
                /\ nf' = [nf EXCEPT ![id].status = "running"]
                /\ UNCHANGED health
        /\ UNCHANGED <<ringed, nextId, coreCnt, dedicated, pool, moves, procs>>

\* Mutant: the slot is cleared and nothing moves.
UnlistedGap(row, id) == [k \in Slot |-> IF row[k] = id THEN 0 ELSE row[k]]

\* The service map without id: the entries after it move left, up to the first
\* empty slot.
Unlisted(row, id) ==
    LET at == Min({k \in Slot : row[k] = id})
        to == Min({k \in Slot : k >= at /\ (k = MaxPerService - 1 \/ row[k + 1] = 0)})
    IN  IF \A k \in Slot : row[k] # id THEN row
        ELSE [k \in Slot |-> CASE k \in at .. (to - 1) -> row[k + 1]
                               [] k = to -> 0
                               [] OTHER -> row[k]]

\* onvm_threading_find_nf_to_reassign_core and onvm_nf_relocate_nf, after core
\* `freed' lost an NF: cnt are the counts by then, left the running NFs.
MostUsed(cnt) == CHOOSE c \in Core :
    \A d \in Core : cnt[c] > cnt[d] \/ (cnt[c] = cnt[d] /\ c <= d)

NeedsReassign(cnt, freed) ==
    LET most == cnt[MostUsed(cnt)]
    IN  Reassign /\ most # 1 /\ cnt[freed] < most - 1

Candidates(cnt, left) == {i \in left : nf[i].core = MostUsed(cnt)}

\* "Further cleanup is only required if NF was succesfully started".
Counted(was) == was = "running"

\* Mutant: the core keeps counting the NF.
CoreKept(c) == coreCnt

CoreReleased(c) == [coreCnt EXCEPT ![c] = (@ - 1) % U16]

\* MSG_NF_STOPPING.
HandleStopping(p) ==
    LET id      == myId[p]
        s       == nf[id].service
        freed   == nf[id].core
        was     == nf[id].status
        cnt     == CoreReleased(freed)
        movers  == Candidates(cnt, Running \ {id})
    IN  /\ Receive("stopping", p)
        /\ UNCHANGED <<nextId, procs>>
        /\ IF was \notin {"starting", "running"}
           THEN UNCHANGED <<health, nf, ringed, services, perService, numNfs,
                            coreCnt, dedicated, pool, moves>>
           ELSE /\ nf' = [nf EXCEPT ![id].status = "stopped"]
                /\ dedicated' = [dedicated EXCEPT ![freed] = FALSE]
                /\ pool' = Append(pool, id)  \* "Free info struct": the nfs[] entry
                /\ IF ~Counted(was)
                   THEN UNCHANGED <<ringed, services, perService, numNfs>>
                   ELSE /\ numNfs' = numNfs - 1
                        /\ ringed' = ringed \ {id}
                        /\ perService' = [perService EXCEPT ![s] = @ - 1]
                        /\ services' = [services EXCEPT ![s] = Unlisted(@, id)]
                /\ IF ~Counted(was) \/ ~NeedsReassign(cnt, freed)
                   THEN /\ coreCnt' = cnt
                        /\ moves' = [moves EXCEPT ![id] = <<>>]
                        /\ UNCHANGED health
                   ELSE IF movers = {}  \* rte_exit: no NF on that core
                   THEN health' = "no_candidate" /\ UNCHANGED <<coreCnt, moves>>
                   ELSE /\ coreCnt' = [cnt EXCEPT ![nf[Min(movers)].core] = (@ - 1) % U16,
                                                 ![freed] = (@ + 1) % U16]
                        /\ moves' = [moves EXCEPT ![id] = <<>>,
                                                  ![Min(movers)] = Append(@, freed)]
                        /\ UNCHANGED health

\* One message of onvm_nf_check_status.
CheckStatus(p) == HandleStarting(p) \/ HandleReady(p) \/ HandleStopping(p)

\* All processes are gone, or the manager's state is.
Finished ==
    /\ ~Up \/ (queue = <<>> /\ \A p \in Proc :
                            pc[p] = "gone" \/ (pc[p] = "new" /\ pool = <<>>))
    /\ UNCHANGED vars

Next == (\E p \in Proc : CheckStatus(p) \/ Process(p)) \/ Finished

Spec == Init /\ [][Next]_vars

\* The manager's master thread checks its queue again and again, and an NF
\* polls the words that it waits for.  Nothing makes an NF start or stop.
Fairness ==
    /\ WF_vars(\E p \in Proc : CheckStatus(p))
    /\ \A p \in Proc :
           WF_vars(Answered(p) \/ SendReady(p) \/ BecomeReady(p) \/ ChangeCore(p))

FairSpec == Spec /\ Fairness

-----------------------------------------------------------------------------
(* Properties *)

TypeOK ==
    /\ health \in {"up", "aliased", "ring_clash", "overrun", "no_candidate"}
    /\ nf \in [Id -> [status : {"unused", "starting", "running", "stopped"},
                      service : Service, core : Core]]
    /\ ringed \subseteq Id
    /\ services \in [Service -> [Slot -> Id \cup {0}]]
    /\ perService \in [Service -> 0 .. MaxPerService]
    /\ numNfs \in 0 .. MaxNfs /\ nextId \in 1 .. MaxNfs
    /\ coreCnt \in [Core -> 0 .. (U16 - 1)] /\ dedicated \in [Core -> BOOLEAN]
    /\ \A k \in 1 .. Len(pool) : pool[k] \in {Cfg} \cup Id
    /\ \A k \in 1 .. Len(queue) : queue[k] \in
           [type : {"starting", "ready", "stopping"}, proc : Proc]
    /\ moves \in [Id -> Seq(Core)]
    /\ pc \in [Proc -> {"new", "waiting", "started", "readying", "running", "gone"}]
    /\ myId \in [Proc -> Id \cup {0}]

\* The service map lists exactly the running NFs of each service, each once,
\* in the first nf_per_service_count slots and without gaps: what
\* onvm_sc_service_to_nf_map picks is always a running NF.
ServiceMapExact ==
    \A s \in Service :
        LET listed == {k \in Slot : k < perService[s]}
        IN  /\ {services[s][k] : k \in listed} = {i \in Running : nf[i].service = s}
            /\ \A j, k \in listed : services[s][j] = services[s][k] => j = k
            /\ \A k \in Slot \ listed : services[s][k] = 0

\* num_nfs counts the running NFs; rx_thread_main drops every packet while it
\* is 0, and onvm_nf_next_instance_id relies on it.
NumNfsExact == numNfs = Cardinality(Running)

\* nf_count of a core is the number of NFs that were given it and have not
\* stopped.  (Without reassignment: a relocation message takes time.)
CoreCountExact ==
    \A c \in Core : coreCnt[c] = Cardinality({i \in Registered : nf[i].core = c})

Live(p) == pc[p] \in {"started", "readying", "running"}

\* An NF that did not agree to share has its core to itself for as long as it
\* lives, whoever asks for cores, by hand or not, and whoever stops.
DedicatedAlone ==
    \A p, q \in Proc :
        p # q /\ Live(p) /\ Live(q) /\ ~cfg[p].opt.share
            => nf[myId[p]].core # nf[myId[q]].core

\* With reassignment too, every registered NF is counted on one core: starts,
\* stops and relocations that overlap neither lose nor invent an NF in sum.
CoreTotalExact ==
    Up => MapThenSumSet(LAMBDA c : coreCnt[c], Core) % U16 = Cardinality(Registered)

\* No two live NFs have the same instance id, and the registry knows each.
IdsUnique ==
    /\ \A p, q \in Proc : Live(p) /\ Live(q) /\ myId[p] = myId[q] => p = q
    /\ \A p \in Proc : Live(p) => myId[p] \in Registered

\* Every registered NF has a process that lives, or one whose last message is
\* still on its way: no id and no core is held for nobody.
NoOrphans ==
    \A i \in Registered : \E p \in Proc :
        \/ pc[p] = "waiting" /\ cfg[p].status = "starting" /\ cfg[p].opt.inst = i
        \/ Live(p) /\ myId[p] = i
        \/ /\ myId[p] = i
           /\ \E k \in 1 .. Len(queue) :
                  queue[k] = [type |-> "stopping", proc |-> p]

\* A process that waits for the manager gets its answer.
EventuallyAnswered ==
    \A p \in Proc : (pc[p] \in {"waiting", "readying"})
                        ~> (pc[p] \in {"running", "gone", "started"} \/ ~Up)

\* When a process has stopped, its NF is deregistered.
EventuallyDeregistered ==
    \A p \in Proc : (pc[p] = "gone" /\ myId[p] # 0)
        ~> \/ myId[p] \notin Registered \/ ~Up
           \/ \E q \in Proc \ {p} : myId[q] = myId[p]

\* "Check if this id is occupied by another NF": the manager never gives away
\* an id whose rings another NF has (rte_exit).
NoRingClash == health # "ring_clash"

\* The books of the manager are exact while NFs start and stop in any order: the
\* service map lists the running NFs of each service once and without a gap, the
\* counters count them, and no id has two owners.
RegistryExact == TypeOK /\ ServiceMapExact /\ NumNfsExact /\ IdsUnique

\* The core table counts the NFs on each core, and a dedicated core has one.
CoresExact == CoreCountExact /\ DedicatedAlone

\* Every handshake ends: a request is answered and a stop is carried out.
HandshakesEnd == EventuallyAnswered /\ EventuallyDeregistered
=============================================================================

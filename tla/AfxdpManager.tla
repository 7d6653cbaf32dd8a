---------------------------- MODULE AfxdpManager ----------------------------
(***************************************************************************)
(* The life of the AF_XDP manager process (onvm_mgr/afxdp/onvm_afxdp.c:    *)
(* afxdp_preallocate_hugepages, afxdp_init, afxdp_run and its three worker *)
(* threads, afxdp_cleanup, the signal handler; onvm_mgr/main.c, the        *)
(* USE_AFXDP half of main).                                                *)
(*                                                                         *)
(* main() runs one session: init, run, cleanup(true).  With ModeSwitching  *)
(* the caller is the host that the header documents: it may allocate the   *)
(* buffer first and ends a session with cleanup(false) to start another.   *)
(*                                                                         *)
(* Faults is the set of calls that may fail; each of them may also         *)
(* succeed, every time it is made.                                         *)
(***************************************************************************)
EXTENDS Integers

CONSTANTS
    Faults,         \* calls that may fail
    ModeSwitching,  \* the caller is the documented mode-switching host
    MaxSessions,    \* bound: sessions of one process
    Ttl,            \* cfg.time_to_live in stats intervals, 0 for none
    PktLimit,       \* cfg.pkt_limit, 0 for none
    MaxPkts         \* bound: packets counted by the RX thread

Call == {"args", "preflight", "load", "attach", "map", "rlimit", "hugepage",
         "memalign", "umem", "socket", "create_rx", "create_mgr",
         "create_wake", "detach"}

Thread == {"rx", "mgr", "wake"}

ASSUME ManagerAssumption ==
    /\ Faults \subseteq Call
    /\ ModeSwitching \in BOOLEAN
    /\ MaxSessions \in Nat \ {0}
    /\ {Ttl, PktLimit, MaxPkts} \subseteq Nat

VARIABLES
    pc,          \* where the main thread is
    sessions,    \* sessions begun
    handlers,    \* SIGINT and SIGTERM reach afxdp_signal_handler
    globalExit,  \* ctx->global_exit
    prog,        \* ctx->xdp_prog: NULL, an error pointer or a program
    attached,    \* the interface runs the program (kernel state)
    buffer,      \* the memory behind ctx->packet_buffer
    useHuge,     \* ctx->use_hugepages
    umem,        \* ctx->umem is set
    sock,        \* ctx->xsk_socket is set
    th,          \* where each worker thread of the session is
    clock,       \* stats intervals since the mgr thread started
    pkts         \* xsk->stats.rx_packets

kernel == <<prog, attached>>
memory == <<buffer, useHuge>>
xsk    == <<umem, sock>>
work   == <<th, clock, pkts>>
vars   == <<pc, sessions, handlers, globalExit, kernel, memory, xsk, work>>

InitSteps == {"preflight", "load", "attach", "map", "rlimit", "buffer",
              "umem", "socket"}
RunSteps == {"run_rx", "run_mgr", "run_wake", "join_rx", "join_mgr",
             "join_wake"}

\* The process is gone: main returned, exit() was called, or it was killed.
Ended == pc \in {"exited", "crashed"}

MayFail(c) == c \in Faults

Init ==
    /\ pc = "idle" /\ sessions = 0
    /\ handlers = FALSE /\ globalExit = FALSE
    /\ prog = "null" /\ attached = FALSE
    /\ buffer = "null" /\ useHuge = FALSE
    /\ umem = FALSE /\ sock = FALSE
    /\ th = [t \in Thread |-> "none"] /\ clock = 0 /\ pkts = 0

-----------------------------------------------------------------------------
(* afxdp_preallocate_hugepages and afxdp_init *)

\* Mutant: the fallback keeps the flag of the attempt.
AllocateFlagged ==
    \/ buffer' = "huge" /\ useHuge' = TRUE
    \/ MayFail("hugepage") /\ buffer' = "heap" /\ useHuge' = TRUE

\* afxdp_alloc_hugepage_buffer: huge pages, else ordinary memory.
Allocate ==
    \/ buffer' = "huge" /\ useHuge' = TRUE
    \/ MayFail("hugepage") /\ buffer' = "heap" /\ useHuge' = FALSE

AllocateFails ==
    MayFail("hugepage") /\ MayFail("memalign") /\ UNCHANGED memory

\* A second call finds the buffer and does nothing.
Preallocate ==
    /\ ModeSwitching /\ pc = "idle" /\ sessions = 0 /\ buffer = "null"
    /\ Allocate \/ AllocateFails
    /\ UNCHANGED <<pc, sessions, handlers, globalExit, kernel, xsk, work>>

\* Main leaves afxdp_init with an error.  main.c gives up only on a negative
\* result, and it gives up without a cleanup.
InitFails(ret) == pc' = IF ret < 0 THEN "exited" ELSE "run_rx"

\* The head of afxdp_init and afxdp_parse_args, which exits on bad arguments.
\* The session will have threads of its own.
InitBegin ==
    /\ pc = "idle" /\ sessions < MaxSessions
    /\ sessions' = sessions + 1
    /\ globalExit' = FALSE
    /\ th' = [t \in Thread |-> "none"]
    /\ \/ pc' = "preflight"
       \/ MayFail("args") /\ pc' = "exited"
    /\ UNCHANGED <<handlers, kernel, memory, xsk, clock, pkts>>

\* The checks pass and the signal handlers are installed, or init returns.
Preflight ==
    /\ pc = "preflight"
    /\ \/ pc' = "load" /\ handlers' = TRUE
       \/ MayFail("preflight") /\ InitFails(-1) /\ UNCHANGED handlers
    /\ UNCHANGED <<sessions, globalExit, kernel, memory, xsk, work>>

\* xdp_program__create.  libxdp_get_error is negative, and init returns -err.
LoadProgram ==
    /\ pc = "load"
    /\ \/ pc' = "attach" /\ prog' = "open"
       \/ MayFail("load") /\ prog' = "error" /\ InitFails(1)
    /\ UNCHANGED <<sessions, handlers, globalExit, attached, memory, xsk, work>>

AttachProgram ==
    /\ pc = "attach"
    /\ \/ pc' = "map" /\ attached' = TRUE
       \/ MayFail("attach") /\ InitFails(-1) /\ UNCHANGED attached
    /\ UNCHANGED <<sessions, handlers, globalExit, prog, memory, xsk, work>>

FindMap ==
    /\ pc = "map"
    /\ \/ pc' = "rlimit"
       \/ MayFail("map") /\ InitFails(-1)
    /\ UNCHANGED <<sessions, handlers, globalExit, kernel, memory, xsk, work>>

RaiseMemlock ==
    /\ pc = "rlimit"
    /\ \/ pc' = "buffer"
       \/ MayFail("rlimit") /\ InitFails(-1)
    /\ UNCHANGED <<sessions, handlers, globalExit, kernel, memory, xsk, work>>

\* Mutant: a buffer is allocated every time.
AllocateAlways ==
    /\ pc = "buffer"
    /\ \/ pc' = "umem" /\ Allocate
       \/ AllocateFails /\ InitFails(-1)
    /\ UNCHANGED <<sessions, handlers, globalExit, kernel, xsk, work>>

\* A buffer that is already there is adopted.
AdoptOrAllocate ==
    /\ pc = "buffer"
    /\ \/ buffer # "null" /\ pc' = "umem" /\ UNCHANGED memory
       \/ buffer = "null" /\ pc' = "umem" /\ Allocate
       \/ buffer = "null" /\ AllocateFails /\ InitFails(-1)
    /\ UNCHANGED <<sessions, handlers, globalExit, kernel, xsk, work>>

ConfigureUmem ==
    /\ pc = "umem"
    /\ \/ pc' = "socket" /\ umem' = TRUE
       \/ MayFail("umem") /\ InitFails(-1) /\ UNCHANGED umem
    /\ UNCHANGED <<sessions, handlers, globalExit, kernel, memory, sock, work>>

\* The socket comes with zeroed statistics.  On failure the UMEM is deleted.
ConfigureSocket ==
    /\ pc = "socket"
    /\ \/ pc' = "run_rx" /\ sock' = TRUE /\ pkts' = 0 /\ UNCHANGED umem
       \/ MayFail("socket") /\ InitFails(-1) /\ umem' = FALSE
          /\ UNCHANGED <<sock, pkts>>
    /\ UNCHANGED <<sessions, handlers, globalExit, kernel, memory, th, clock>>

-----------------------------------------------------------------------------
(* afxdp_run *)

\* pthread_create of thread t, which starts at location loc.
Created(t, loc) ==
    /\ th' = [th EXCEPT ![t] = loc]
    /\ clock' = IF t = "mgr" THEN 0 ELSE clock
    /\ UNCHANGED globalExit

\* A failure sets global_exit; t has no thread to join.
CreateFails(t, call) ==
    /\ MayFail(call)
    /\ th' = [th EXCEPT ![t] = "failed"]
    /\ globalExit' = TRUE
    /\ UNCHANGED clock

\* Mutant: main returns when the RX thread cannot be created.
CreateRxOrReturn ==
    /\ pc = "run_rx"
    /\ \/ Created("rx", "start") /\ pc' = "run_mgr"
       \/ CreateFails("rx", "create_rx") /\ pc' = "exited"
    /\ UNCHANGED <<sessions, handlers, kernel, memory, xsk, pkts>>

CreateRx ==
    /\ pc = "run_rx"
    /\ \/ Created("rx", "start") /\ pc' = "run_mgr"
       \/ CreateFails("rx", "create_rx") /\ pc' = "cleanup"
    /\ UNCHANGED <<sessions, handlers, kernel, memory, xsk, pkts>>

CreateMgr ==
    /\ pc = "run_mgr" /\ pc' = "run_wake"
    /\ Created("mgr", "check") \/ CreateFails("mgr", "create_mgr")
    /\ UNCHANGED <<sessions, handlers, kernel, memory, xsk, pkts>>

CreateWake ==
    /\ pc = "run_wake" /\ pc' = "join_rx"
    /\ Created("wake", "check") \/ CreateFails("wake", "create_wake")
    /\ UNCHANGED <<sessions, handlers, kernel, memory, xsk, pkts>>

\* pthread_join waits for the thread.  The handle of a thread that was never
\* created is uninitialised: the call may fail at once or crash the process.
Join(t, here, next) ==
    /\ pc = here
    /\ \/ th[t] = "done" /\ pc' = next
       \/ th[t] = "failed" /\ pc' \in {next, "crashed"}
    /\ UNCHANGED <<sessions, handlers, globalExit, kernel, memory, xsk, work>>

\* Mutant: only the RX thread is joined.
JoinRxOnly == Join("rx", "join_rx", "cleanup")

JoinWorkers ==
    \/ Join("rx", "join_rx", "join_mgr")
    \/ Join("mgr", "join_mgr", "join_wake")
    \/ Join("wake", "join_wake", "cleanup")

-----------------------------------------------------------------------------
(* afxdp_cleanup *)

\* The program is detached and closed, socket and UMEM are deleted; the buffer
\* is released only at the end of the process.
Cleanup(final) ==
    /\ pc = "cleanup"
    /\ ~final => ModeSwitching /\ sessions < MaxSessions
    /\ attached' \in {FALSE} \cup (IF MayFail("detach") THEN {attached} ELSE {})
    /\ prog' = "null"
    /\ umem' = FALSE /\ sock' = FALSE
    /\ buffer' = IF final THEN "null" ELSE buffer
    /\ pc' = IF final THEN "exited" ELSE "idle"
    /\ UNCHANGED <<sessions, handlers, globalExit, useHuge, work>>

MainThread ==
    \/ Preallocate \/ InitBegin \/ Preflight \/ LoadProgram \/ AttachProgram
    \/ FindMap \/ RaiseMemlock \/ AdoptOrAllocate \/ ConfigureUmem
    \/ ConfigureSocket \/ CreateRx \/ CreateMgr \/ CreateWake \/ JoinWorkers
    \/ Cleanup(TRUE) \/ Cleanup(FALSE)

-----------------------------------------------------------------------------
(* The worker threads *)

Goto(t, loc) == th' = [th EXCEPT ![t] = loc]

LeaveMain ==
    UNCHANGED <<sessions, handlers, kernel, memory, xsk>>

\* afxdp_rx_and_process begins with the file descriptor of the socket.
RxStart ==
    /\ ~Ended /\ th["rx"] = "start"
    /\ IF sock THEN Goto("rx", "check") /\ UNCHANGED pc
               ELSE pc' = "crashed" /\ UNCHANGED th
    /\ LeaveMain /\ UNCHANGED <<globalExit, clock, pkts>>

\* The loop tests global_exit and makes a pass over the rings (or, in poll
\* mode, goes round after one second without a packet).
RxLoop ==
    /\ ~Ended /\ th["rx"] = "check"
    /\ Goto("rx", IF globalExit THEN "done" ELSE "pass")
    /\ LeaveMain /\ UNCHANGED <<pc, globalExit, clock, pkts>>

RxPass ==
    /\ ~Ended /\ th["rx"] = "pass"
    /\ Goto("rx", "check")
    /\ pkts' \in {pkts} \cup (IF pkts < MaxPkts THEN {pkts + 1} ELSE {})
    /\ LeaveMain /\ UNCHANGED <<pc, globalExit, clock>>

MgrLoop ==
    /\ ~Ended /\ th["mgr"] = "check"
    /\ Goto("mgr", IF globalExit THEN "done" ELSE "sleep")
    /\ LeaveMain /\ UNCHANGED <<pc, globalExit, clock, pkts>>

\* sleep(interval), and the second test of global_exit.
MgrWake ==
    /\ ~Ended /\ th["mgr"] = "sleep"
    /\ clock' = IF clock < Ttl THEN clock + 1 ELSE clock
    /\ Goto("mgr", IF globalExit THEN "done" ELSE "work")
    /\ LeaveMain /\ UNCHANGED <<pc, globalExit, pkts>>

\* Mutant: the time limit is not tested.
MgrWorkNoTtl ==
    /\ ~Ended /\ th["mgr"] = "work"
    /\ globalExit' = (globalExit \/ (PktLimit # 0 /\ pkts >= PktLimit))
    /\ Goto("mgr", "check")
    /\ LeaveMain /\ UNCHANGED <<pc, clock, pkts>>

\* Statistics are printed, then both limits are tested.
MgrWork ==
    /\ ~Ended /\ th["mgr"] = "work"
    /\ globalExit' = \/ globalExit
                     \/ Ttl # 0 /\ clock >= Ttl
                     \/ PktLimit # 0 /\ pkts >= PktLimit
    /\ Goto("mgr", "check")
    /\ LeaveMain /\ UNCHANGED <<pc, clock, pkts>>

\* The wakeup thread polls global_exit, sets it once more and returns.
WakeLoop ==
    /\ ~Ended /\ th["wake"] = "check" /\ globalExit
    /\ globalExit' = TRUE
    /\ Goto("wake", "done")
    /\ LeaveMain /\ UNCHANGED <<pc, clock, pkts>>

RxThread  == RxStart \/ RxLoop \/ RxPass
MgrThread == MgrLoop \/ MgrWake \/ MgrWork

\* SIGINT or SIGTERM: the handler sets the flag; before it is installed the
\* signal kills the process.
Signal ==
    /\ ~Ended
    /\ IF handlers THEN globalExit' = TRUE /\ UNCHANGED pc
                   ELSE pc' = "exited" /\ UNCHANGED globalExit
    /\ UNCHANGED <<sessions, handlers, kernel, memory, xsk, work>>

\* The process has ended.
Terminated == Ended /\ UNCHANGED vars

Next == MainThread \/ RxThread \/ MgrThread \/ WakeLoop \/ Signal \/ Terminated

Spec == Init /\ [][Next]_vars

\* Every thread is scheduled by the kernel; a host that is idle need not begin
\* another session, so it owes no step there.
Fairness ==
    /\ WF_vars(pc # "idle" /\ MainThread)
    /\ WF_vars(RxThread) /\ WF_vars(MgrThread) /\ WF_vars(WakeLoop)

FairSpec == Spec /\ Fairness

-----------------------------------------------------------------------------
(* Properties *)

TypeOK ==
    /\ pc \in {"idle", "cleanup", "exited", "crashed"} \cup InitSteps \cup RunSteps
    /\ sessions \in 0 .. MaxSessions
    /\ handlers \in BOOLEAN /\ globalExit \in BOOLEAN
    /\ prog \in {"null", "error", "open"} /\ attached \in BOOLEAN
    /\ buffer \in {"null", "huge", "heap"} /\ useHuge \in BOOLEAN
    /\ umem \in BOOLEAN /\ sock \in BOOLEAN
    /\ th["rx"] \in {"none", "failed", "start", "check", "pass", "done"}
    /\ th["mgr"] \in {"none", "failed", "check", "sleep", "work", "done"}
    /\ th["wake"] \in {"none", "failed", "check", "done"}
    /\ clock \in 0 .. Ttl /\ pkts \in 0 .. MaxPkts

Alive(t) == th[t] \notin {"none", "failed", "done"}

\* While the process lives, a worker thread never outlives what it uses: the
\* socket, the UMEM, its buffer and the program stay until all are joined,
\* whichever thread failed to start and whoever asked for the exit.
WorkersOwnSocket ==
    ~Ended /\ (\E t \in Thread : Alive(t))
        => sock /\ umem /\ buffer # "null" /\ prog = "open" /\ attached

\* A process that got as far as afxdp_run leaves nothing behind when it exits:
\* no program on the interface, no socket, no UMEM, no buffer and no thread.
CleanShutdown ==
    pc = "exited" /\ th["rx"] # "none"
        => /\ prog = "null" /\ ~attached /\ ~umem /\ ~sock /\ buffer = "null"
           /\ \A t \in Thread : ~Alive(t)

\* A buffer is released the way it was obtained (munmap or free), however
\* many sessions and failed allocations lie between the two.
ReleasedAsAllocated == buffer # "null" => (useHuge <=> buffer = "huge")

\* "The hugepage UMEM buffer is kept mapped so it can be re-used": between
\* sessions no buffer is dropped or replaced, only the end of the process
\* releases it.
BufferKept ==
    [][buffer # "null" => buffer' = buffer \/ pc' = "exited"]_vars

\* Once global_exit is set in a running session the process ends: no thread
\* misses the request and no join waits for ever.
ShutdownCompletes == (globalExit /\ pc \in RunSteps) ~> (Ended \/ pc = "idle")

\* The time limit and the packet limit end the run.
LimitsEndRun ==
    /\ (Ttl > 0 /\ pc \in RunSteps) ~> (Ended \/ pc = "idle")
    /\ (PktLimit > 0 /\ pkts >= PktLimit /\ pc \in RunSteps)
           ~> (Ended \/ pc = "idle")

\* "0 on success, negative errno on failure": main only runs a manager whose
\* initialisation succeeded.
RunsOnlyInitialised == pc \in RunSteps => sock

\* Workers and the types of what they work on: see TypeOK and WorkersOwnSocket.
WorkersSafe == TypeOK /\ WorkersOwnSocket

\* Every reason to end a session ends it: a signal, the time limit, the packet
\* limit, a thread that could not be created.
RunsEnd == ShutdownCompletes /\ LimitsEndRun
=============================================================================

------------------------- MODULE AfxdpManagerProofs -------------------------
(***************************************************************************)
(* The AF_XDP manager keeps what its threads use and cleans up after them, *)
(* for any number of sessions, any limits and any set of calls that fail.  *)
(* After its sessions, the components that stand next to them in MCManager *)
(* and name their variables v1, v2 ...                                     *)
(***************************************************************************)
EXTENDS MCManager, SumProofs, SequenceTheorems, FiniteSetTheorems, TLAPS

RxPlace   == {"none", "failed", "start", "check", "pass", "done"}
MgrPlace  == {"none", "failed", "check", "sleep", "work", "done"}
WakePlace == {"none", "failed", "check", "done"}

\* What the proofs need to know of the constants.
LEMMA Constants ==
    MaxSessions \in Nat \ {0} /\ Ttl \in Nat /\ PktLimit \in Nat /\ MaxPkts \in Nat
BY ManagerAssumption

\* A thread that does not run: it was never created, or it has returned.
Idle(t) == th[t] \in {"none", "failed", "done"}
Over(t) == th[t] \in {"failed", "done"}

\* Which threads exist, by the place of the main thread.
ThreadsAt ==
    /\ pc = "idle" => \A t \in Thread : Idle(t)
    /\ pc \in InitSteps \cup {"run_rx"} => \A t \in Thread : th[t] = "none"
    /\ pc = "run_mgr" => th["mgr"] = "none" /\ th["wake"] = "none"
    /\ pc = "run_wake" => th["wake"] = "none"
    /\ pc \in {"join_mgr", "join_wake"} => Over("rx")
    /\ pc = "join_wake" => Over("mgr")
    /\ pc = "cleanup" => \A t \in Thread : Idle(t)
    /\ ~handlers => \A t \in Thread : th[t] = "none"
    /\ ~handlers => pc \in {"idle", "preflight", "exited"}
    /\ pc = "exited" => \A t \in Thread : Idle(t)

ThreadInv == TypeOK /\ th \in [Thread -> RxPlace \cup MgrPlace \cup WakePlace] /\ ThreadsAt

\* The words that hold a thread's place after one of them is written.
LEMMA PlaceWritten ==
    ASSUME NEW t \in Thread, NEW loc \in RxPlace \cup MgrPlace \cup WakePlace,
           th \in [Thread -> RxPlace \cup MgrPlace \cup WakePlace],
           th' = [th EXCEPT ![t] = loc]
    PROVE  /\ th' \in [Thread -> RxPlace \cup MgrPlace \cup WakePlace]
           /\ th'[t] = loc
           /\ \A u \in Thread \ {t} : th'[u] = th[u]
OBVIOUS

\* No thread runs in a manager that has not started.
LEMMA ThreadInit == Init => ThreadInv
<1> SUFFICES ASSUME Init PROVE ThreadInv
  OBVIOUS
<1>1. \A t \in Thread : th[t] = "none"
  BY DEF Init
<1>2. "rx" \in Thread /\ "mgr" \in Thread /\ "wake" \in Thread
  BY DEF Thread
<1>3. TypeOK
  <2>1. /\ handlers \in BOOLEAN /\ globalExit \in BOOLEAN /\ attached \in BOOLEAN
        /\ useHuge \in BOOLEAN /\ umem \in BOOLEAN /\ sock \in BOOLEAN
    BY DEF Init
  <2>2. pc = "idle" /\ sessions = 0 /\ prog = "null" /\ buffer = "null" /\ clock = 0 /\ pkts = 0
    BY DEF Init
  <2>3. QED
    BY <1>1, <1>2, <2>1, <2>2, Constants DEF TypeOK
<1>4. th \in [Thread -> RxPlace \cup MgrPlace \cup WakePlace]
  BY DEF Init, RxPlace
<1>5. ThreadsAt
  BY <1>1 DEF Init, ThreadsAt, Idle, InitSteps
<1>6. QED
  BY <1>3, <1>4, <1>5 DEF ThreadInv

\* afxdp_init leaves the threads alone.
LEMMA InitStepsInv ==
    ASSUME ThreadInv,
           \/ Preallocate \/ InitBegin \/ Preflight \/ LoadProgram \/ AttachProgram
           \/ FindMap \/ RaiseMemlock \/ AdoptOrAllocate \/ ConfigureUmem \/ ConfigureSocket
    PROVE  ThreadInv'
<1> USE DEF InitFails, kernel, memory, xsk, work
<1>1. TypeOK /\ ThreadsAt
  BY DEF ThreadInv
<1>2. CASE InitBegin
  <2>1. \A t \in Thread : th'[t] = "none"
    BY <1>2 DEF InitBegin
  <2>2. th'["rx"] = "none" /\ th'["mgr"] = "none" /\ th'["wake"] = "none"
    BY <2>1 DEF Thread
  <2>3. TypeOK'
    <3>1. globalExit' \in BOOLEAN
      BY <1>2 DEF InitBegin
    <3>2. sessions' \in 0 .. MaxSessions
      BY <1>1, <1>2, Constants DEF InitBegin, TypeOK
    <3>3. pc' \in {"exited"} \cup InitSteps
      BY <1>2 DEF InitBegin, InitSteps
    <3>4. UNCHANGED <<handlers, kernel, memory, xsk, clock, pkts>>
      BY <1>2 DEF InitBegin
    <3>5. QED
      BY <1>1, <2>2, <3>1, <3>2, <3>3, <3>4 DEF TypeOK
  <2>4. th' \in [Thread -> RxPlace \cup MgrPlace \cup WakePlace]
    BY <1>2 DEF InitBegin, RxPlace
  <2>5. pc' \in {"preflight", "exited"}
    BY <1>2 DEF InitBegin
  <2>6. ThreadsAt'
    BY <2>1, <2>5 DEF ThreadsAt, Idle, InitSteps
  <2>7. QED
    BY <2>3, <2>4, <2>6 DEF ThreadInv
<1>3. CASE Preallocate
  <2>1. buffer' \in {"null", "huge", "heap"} /\ useHuge' \in BOOLEAN
    BY <1>1, <1>3 DEF Preallocate, Allocate, AllocateFails, TypeOK
  <2>2. UNCHANGED <<pc, sessions, handlers, globalExit, kernel, xsk, work>>
    BY <1>3 DEF Preallocate
  <2>3. QED
    BY <2>1, <2>2 DEF ThreadInv, TypeOK, ThreadsAt, Idle, Over
<1>4. CASE \/ Preflight \/ LoadProgram \/ AttachProgram \/ FindMap \/ RaiseMemlock
           \/ AdoptOrAllocate \/ ConfigureUmem \/ ConfigureSocket
  <2>1. pc \in InitSteps /\ pc' \in InitSteps \cup {"run_rx", "exited"} /\ th' = th
    BY <1>4 DEF Preflight, LoadProgram, AttachProgram, FindMap, RaiseMemlock, AdoptOrAllocate,
                ConfigureUmem, ConfigureSocket, InitSteps
  <2>2. \A t \in Thread : th'[t] = "none"
    BY <1>1, <2>1 DEF ThreadsAt
  <2>3. handlers' \/ pc' = "exited"
    BY <1>1, <1>4 DEF Preflight, LoadProgram, AttachProgram, FindMap, RaiseMemlock,
                      AdoptOrAllocate, ConfigureUmem, ConfigureSocket, ThreadsAt
  <2>4. ThreadsAt'
    BY <2>1, <2>2, <2>3 DEF ThreadsAt, Idle, InitSteps
  <2>5. TypeOK'
    <3>1. CASE Preflight \/ LoadProgram \/ AttachProgram \/ FindMap \/ RaiseMemlock
      <4>1. handlers' \in BOOLEAN /\ attached' \in BOOLEAN /\ prog' \in {"null", "error", "open"}
        BY <1>1, <3>1 DEF Preflight, LoadProgram, AttachProgram, FindMap, RaiseMemlock, TypeOK
      <4>2. UNCHANGED <<sessions, globalExit, memory, xsk, work>>
        BY <3>1 DEF Preflight, LoadProgram, AttachProgram, FindMap, RaiseMemlock
      <4>3. QED
        BY <1>1, <2>1, <4>1, <4>2 DEF TypeOK, RunSteps
    <3>2. CASE AdoptOrAllocate
      <4>1. buffer' \in {"null", "huge", "heap"} /\ useHuge' \in BOOLEAN
        BY <1>1, <3>2 DEF AdoptOrAllocate, Allocate, AllocateFails, TypeOK
      <4>2. QED
        BY <1>1, <2>1, <3>2, <4>1 DEF AdoptOrAllocate, TypeOK, RunSteps
    <3>3. CASE ConfigureUmem \/ ConfigureSocket
      <4>1. umem' \in BOOLEAN /\ sock' \in BOOLEAN /\ pkts' \in 0 .. MaxPkts
        <5>1. pkts' \in 0 .. MaxPkts
          BY <1>1, <3>3, Constants DEF ConfigureUmem, ConfigureSocket, TypeOK
        <5>2. CASE ConfigureUmem
          BY <1>1, <5>1, <5>2 DEF ConfigureUmem, TypeOK
        <5>3. CASE ConfigureSocket
          BY <1>1, <5>1, <5>3 DEF ConfigureSocket, TypeOK
        <5>4. QED
          BY <3>3, <5>2, <5>3
      <4>2. UNCHANGED <<sessions, handlers, globalExit, kernel, memory, th, clock>>
        BY <3>3 DEF ConfigureUmem, ConfigureSocket
      <4>3. QED
        BY <1>1, <2>1, <4>1, <4>2 DEF TypeOK, RunSteps
    <3>4. QED
      BY <1>4, <3>1, <3>2, <3>3
  <2>6. QED
    BY <2>1, <2>4, <2>5 DEF ThreadInv
<1>5. QED
  BY <1>2, <1>3, <1>4

\* afxdp_run creates the threads and waits for them, afxdp_cleanup finds none.
LEMMA RunStepsInv ==
    ASSUME ThreadInv,
           CreateRx \/ CreateMgr \/ CreateWake \/ JoinWorkers \/ Cleanup(TRUE) \/ Cleanup(FALSE)
    PROVE  ThreadInv'
<1> USE DEF kernel, memory, xsk, work
<1>1. TypeOK /\ ThreadsAt /\ th \in [Thread -> RxPlace \cup MgrPlace \cup WakePlace]
  BY DEF ThreadInv
<1>2. Thread = {"rx", "mgr", "wake"}
  BY DEF Thread
<1>3. CASE CreateRx
  <2>1. PICK loc \in {"start", "failed"} :
            /\ th' = [th EXCEPT !["rx"] = loc]
            /\ pc' = IF loc = "start" THEN "run_mgr" ELSE "cleanup"
            /\ globalExit' \in BOOLEAN /\ clock' = clock
    <3>1. CASE Created("rx", "start") /\ pc' = "run_mgr"
      BY <1>1, <3>1 DEF Created, TypeOK
    <3>2. CASE CreateFails("rx", "create_rx") /\ pc' = "cleanup"
      <4>1. globalExit' \in BOOLEAN
        BY <3>2 DEF CreateFails
      <4>2. QED
        BY <3>2, <4>1 DEF CreateFails
    <3>3. QED
      BY <1>3, <3>1, <3>2 DEF CreateRx
  <2>2. /\ th' \in [Thread -> RxPlace \cup MgrPlace \cup WakePlace]
        /\ th'["rx"] = loc /\ th'["mgr"] = th["mgr"] /\ th'["wake"] = th["wake"]
    BY <1>1, <1>2, <2>1, PlaceWritten DEF RxPlace
  <2>3. pc = "run_rx" /\ UNCHANGED <<sessions, handlers, kernel, memory, xsk, pkts>>
    BY <1>3 DEF CreateRx
  <2>4. TypeOK'
    BY <1>1, <2>1, <2>2, <2>3 DEF TypeOK, RunSteps
  <2>5. ThreadsAt'
    BY <1>1, <1>2, <2>1, <2>2, <2>3 DEF ThreadsAt, Idle, InitSteps
  <2>6. QED
    BY <2>2, <2>4, <2>5 DEF ThreadInv
<1>4. CASE CreateMgr
  <2>1. PICK loc \in {"check", "failed"} :
            /\ th' = [th EXCEPT !["mgr"] = loc]
            /\ globalExit' \in BOOLEAN /\ clock' \in 0 .. Ttl
    <3>1. CASE Created("mgr", "check")
      BY <1>1, <3>1, Constants DEF Created, TypeOK
    <3>2. CASE CreateFails("mgr", "create_mgr")
      <4>1. globalExit' \in BOOLEAN
        BY <3>2 DEF CreateFails
      <4>2. QED
        BY <1>1, <3>2, <4>1 DEF CreateFails, TypeOK
    <3>3. QED
      BY <1>4, <3>1, <3>2 DEF CreateMgr
  <2>2. /\ th' \in [Thread -> RxPlace \cup MgrPlace \cup WakePlace]
        /\ th'["mgr"] = loc /\ th'["rx"] = th["rx"] /\ th'["wake"] = th["wake"]
    BY <1>1, <1>2, <2>1, PlaceWritten DEF MgrPlace
  <2>3. /\ pc = "run_mgr" /\ pc' = "run_wake"
        /\ UNCHANGED <<sessions, handlers, kernel, memory, xsk, pkts>>
    BY <1>4 DEF CreateMgr
  <2>4. TypeOK'
    BY <1>1, <2>1, <2>2, <2>3 DEF TypeOK, RunSteps
  <2>5. ThreadsAt'
    BY <1>1, <1>2, <2>1, <2>2, <2>3 DEF ThreadsAt, InitSteps
  <2>6. QED
    BY <2>2, <2>4, <2>5 DEF ThreadInv
<1>5. CASE CreateWake
  <2>1. PICK loc \in {"check", "failed"} :
            /\ th' = [th EXCEPT !["wake"] = loc]
            /\ globalExit' \in BOOLEAN /\ clock' = clock
    <3>1. CASE Created("wake", "check")
      BY <1>1, <3>1 DEF Created, TypeOK
    <3>2. CASE CreateFails("wake", "create_wake")
      <4>1. globalExit' \in BOOLEAN
        BY <3>2 DEF CreateFails
      <4>2. QED
        BY <3>2, <4>1 DEF CreateFails
    <3>3. QED
      BY <1>5, <3>1, <3>2 DEF CreateWake
  <2>2. /\ th' \in [Thread -> RxPlace \cup MgrPlace \cup WakePlace]
        /\ th'["wake"] = loc /\ th'["rx"] = th["rx"] /\ th'["mgr"] = th["mgr"]
    BY <1>1, <1>2, <2>1, PlaceWritten DEF WakePlace
  <2>3. /\ pc = "run_wake" /\ pc' = "join_rx"
        /\ UNCHANGED <<sessions, handlers, kernel, memory, xsk, pkts>>
    BY <1>5 DEF CreateWake
  <2>4. TypeOK'
    BY <1>1, <2>1, <2>2, <2>3 DEF TypeOK, RunSteps
  <2>5. ThreadsAt'
    BY <1>1, <1>2, <2>1, <2>2, <2>3 DEF ThreadsAt, InitSteps
  <2>6. QED
    BY <2>2, <2>4, <2>5 DEF ThreadInv
<1>6. CASE JoinWorkers
  <2>1. /\ UNCHANGED <<sessions, handlers, globalExit, kernel, memory, xsk, work>>
        /\ \/ pc = "join_rx" /\ Over("rx") /\ pc' \in {"join_mgr", "crashed"}
           \/ pc = "join_mgr" /\ Over("mgr") /\ pc' \in {"join_wake", "crashed"}
           \/ pc = "join_wake" /\ Over("wake") /\ pc' \in {"cleanup", "crashed"}
    BY <1>6 DEF JoinWorkers, Join, Over
  <2>2. TypeOK'
    BY <1>1, <2>1 DEF TypeOK, RunSteps
  <2>3. ThreadsAt'
    BY <1>1, <1>2, <2>1 DEF ThreadsAt, Over, Idle, InitSteps
  <2>4. QED
    BY <1>1, <2>1, <2>2, <2>3 DEF ThreadInv
<1>7. CASE Cleanup(TRUE) \/ Cleanup(FALSE)
  <2>1. /\ pc = "cleanup" /\ pc' \in {"exited", "idle"}
        /\ attached' \in BOOLEAN /\ prog' = "null" /\ umem' = FALSE /\ sock' = FALSE
        /\ buffer' \in {"null", buffer}
        /\ UNCHANGED <<sessions, handlers, globalExit, useHuge, work>>
    BY <1>1, <1>7 DEF Cleanup, TypeOK
  <2>2. TypeOK'
    <3>1. umem' \in BOOLEAN /\ sock' \in BOOLEAN
      BY <2>1
    <3>2. QED
      BY <1>1, <2>1, <3>1 DEF TypeOK
  <2>3. ThreadsAt'
    BY <1>1, <1>2, <2>1 DEF ThreadsAt, Idle, InitSteps
  <2>4. QED
    BY <1>1, <2>1, <2>2, <2>3 DEF ThreadInv
<1>8. QED
  BY <1>3, <1>4, <1>5, <1>6, <1>7

\* A worker goes from one place of its loop to another, and only it does.
LEMMA WorkerInv ==
    ASSUME ThreadInv, RxThread \/ MgrThread \/ WakeLoop
    PROVE  /\ ThreadInv' /\ ~Ended
           /\ \E t \in Thread : Alive(t)
           /\ UNCHANGED <<handlers, kernel, memory, xsk>> /\ pc' \in {pc, "crashed"}
<1> USE DEF kernel, memory, xsk, LeaveMain
<1>1. TypeOK /\ ThreadsAt /\ th \in [Thread -> RxPlace \cup MgrPlace \cup WakePlace]
  BY DEF ThreadInv
<1>2. Thread = {"rx", "mgr", "wake"}
  BY DEF Thread
<1>3. ASSUME NEW t \in Thread, NEW loc, Alive(t), ~Ended,
             th' = [th EXCEPT ![t] = loc], UNCHANGED <<pc, handlers>>,
             loc \in RxPlace \cup MgrPlace \cup WakePlace
      PROVE  /\ th' \in [Thread -> RxPlace \cup MgrPlace \cup WakePlace]
             /\ ThreadsAt' /\ th'[t] = loc /\ \A u \in Thread \ {t} : th'[u] = th[u]
  <2>1. /\ th' \in [Thread -> RxPlace \cup MgrPlace \cup WakePlace]
        /\ th'[t] = loc /\ \A u \in Thread \ {t} : th'[u] = th[u]
    BY <1>1, <1>3, PlaceWritten
  <2>2. ThreadsAt'
    BY <1>1, <1>2, <1>3, <2>1 DEF ThreadsAt, Alive, Idle, Over, Ended, InitSteps
  <2>3. QED
    BY <2>1, <2>2
<1>4. CASE RxStart
  <2>1. /\ ~Ended /\ th["rx"] = "start" /\ Alive("rx")
        /\ UNCHANGED <<sessions, handlers, kernel, memory, xsk, globalExit, clock, pkts>>
    BY <1>4 DEF RxStart, Alive
  <2>2. CASE th' = [th EXCEPT !["rx"] = "check"] /\ pc' = pc
    <3>1. /\ th' \in [Thread -> RxPlace \cup MgrPlace \cup WakePlace] /\ ThreadsAt'
          /\ th'["rx"] = "check" /\ th'["mgr"] = th["mgr"] /\ th'["wake"] = th["wake"]
      BY <1>2, <1>3, <2>1, <2>2 DEF RxPlace
    <3>2. TypeOK'
      BY <1>1, <2>1, <2>2, <3>1 DEF TypeOK
    <3>3. QED
      BY <1>2, <2>1, <2>2, <3>1, <3>2 DEF ThreadInv
  <2>3. CASE pc' = "crashed" /\ th' = th
    <3>1. TypeOK'
      BY <1>1, <2>1, <2>3 DEF TypeOK
    <3>2. ThreadsAt'
      BY <1>1, <1>2, <2>1, <2>3 DEF ThreadsAt, InitSteps, Alive, Ended
    <3>3. QED
      BY <1>1, <1>2, <2>1, <2>3, <3>1, <3>2 DEF ThreadInv
  <2>4. QED
    BY <1>4, <2>2, <2>3 DEF RxStart, Goto
<1>5. CASE RxLoop \/ RxPass
  <2>1. PICK loc \in {"done", "pass", "check"} :
            /\ ~Ended /\ Alive("rx") /\ th' = [th EXCEPT !["rx"] = loc]
            /\ UNCHANGED <<pc, sessions, handlers, kernel, memory, xsk, globalExit, clock>>
    BY <1>5 DEF RxLoop, RxPass, Goto, Alive
  <2>2. /\ th' \in [Thread -> RxPlace \cup MgrPlace \cup WakePlace] /\ ThreadsAt'
        /\ th'["rx"] = loc /\ th'["mgr"] = th["mgr"] /\ th'["wake"] = th["wake"]
    BY <1>2, <1>3, <2>1 DEF RxPlace
  <2>3. pkts' \in 0 .. MaxPkts
    BY <1>1, <1>5, Constants DEF RxLoop, RxPass, TypeOK
  <2>4. TypeOK'
    BY <1>1, <2>1, <2>2, <2>3 DEF TypeOK
  <2>5. QED
    BY <1>2, <2>1, <2>2, <2>4 DEF ThreadInv
<1>6. CASE MgrThread
  <2>1. PICK loc \in {"done", "sleep", "work", "check"} :
            /\ ~Ended /\ Alive("mgr") /\ th' = [th EXCEPT !["mgr"] = loc]
            /\ UNCHANGED <<pc, sessions, handlers, kernel, memory, xsk, pkts>>
    BY <1>6 DEF MgrThread, MgrLoop, MgrWake, MgrWork, Goto, Alive
  <2>2. /\ th' \in [Thread -> RxPlace \cup MgrPlace \cup WakePlace] /\ ThreadsAt'
        /\ th'["mgr"] = loc /\ th'["rx"] = th["rx"] /\ th'["wake"] = th["wake"]
    BY <1>2, <1>3, <2>1 DEF MgrPlace
  <2>3. clock' \in 0 .. Ttl
    <3>1. clock \in 0 .. Ttl
      BY <1>1 DEF TypeOK
    <3>2. CASE MgrLoop \/ MgrWork
      BY <3>1, <3>2 DEF MgrLoop, MgrWork
    <3>3. CASE MgrWake
      <4>1. clock' = IF clock < Ttl THEN clock + 1 ELSE clock
        BY <3>3 DEF MgrWake
      <4>2. QED
        BY <3>1, <4>1, Constants
    <3>4. QED
      BY <1>6, <3>2, <3>3 DEF MgrThread
  <2>4. globalExit' \in BOOLEAN
    <3>1. CASE MgrLoop \/ MgrWake
      BY <1>1, <3>1 DEF MgrLoop, MgrWake, TypeOK
    <3>2. CASE MgrWork
      BY <3>2, Zenon DEF MgrWork
    <3>3. QED
      BY <1>6, <3>1, <3>2 DEF MgrThread
  <2>5. TypeOK'
    BY <1>1, <2>1, <2>2, <2>3, <2>4 DEF TypeOK
  <2>6. QED
    BY <1>2, <2>1, <2>2, <2>5 DEF ThreadInv
<1>7. CASE WakeLoop
  <2>1. /\ ~Ended /\ Alive("wake") /\ th' = [th EXCEPT !["wake"] = "done"]
        /\ UNCHANGED <<pc, sessions, handlers, kernel, memory, xsk, clock, pkts>>
    BY <1>7 DEF WakeLoop, Goto, Alive
  <2>2. /\ th' \in [Thread -> RxPlace \cup MgrPlace \cup WakePlace] /\ ThreadsAt'
        /\ th'["wake"] = "done" /\ th'["rx"] = th["rx"] /\ th'["mgr"] = th["mgr"]
    BY <1>2, <1>3, <2>1 DEF WakePlace
  <2>3. globalExit' \in BOOLEAN
    BY <1>7 DEF WakeLoop
  <2>4. TypeOK'
    BY <1>1, <2>1, <2>2, <2>3 DEF TypeOK
  <2>5. QED
    BY <1>2, <2>1, <2>2, <2>4 DEF ThreadInv
<1>8. QED
  BY <1>4, <1>5, <1>6, <1>7 DEF RxThread

\* A signal sets the flag or, before the handlers are installed, ends a process
\* that has no thread yet.
LEMMA SignalInv ==
    ASSUME ThreadInv, Signal
    PROVE  /\ ThreadInv' /\ ~Ended
           /\ pc' = pc \/ (pc' = "exited" /\ \A t \in Thread : th[t] = "none")
           /\ UNCHANGED <<handlers, kernel, memory, xsk, work>>
<1> USE DEF kernel, memory, xsk, work
<1>1. TypeOK /\ ThreadsAt /\ th \in [Thread -> RxPlace \cup MgrPlace \cup WakePlace]
  BY DEF ThreadInv
<1>2. /\ ~Ended /\ UNCHANGED <<sessions, handlers, kernel, memory, xsk, work>>
      /\ \/ handlers /\ globalExit' = TRUE /\ pc' = pc
         \/ ~handlers /\ pc' = "exited" /\ globalExit' = globalExit
  BY DEF Signal
<1>3. globalExit' \in BOOLEAN
  BY <1>1, <1>2 DEF TypeOK
<1>4. TypeOK'
  BY <1>1, <1>2, <1>3 DEF TypeOK
<1>5. ThreadsAt'
  BY <1>1, <1>2 DEF ThreadsAt, Idle, Over, InitSteps
<1>6. QED
  BY <1>1, <1>2, <1>4, <1>5 DEF ThreadInv, ThreadsAt

\* Main creates, joins and cleans up in an order that always knows the threads.
LEMMA ThreadStep == ThreadInv /\ [Next]_vars => ThreadInv'
<1> SUFFICES ASSUME ThreadInv, [Next]_vars PROVE ThreadInv'
  OBVIOUS
<1>1. CASE MainThread
  BY <1>1, InitStepsInv, RunStepsInv DEF MainThread
<1>2. CASE RxThread \/ MgrThread \/ WakeLoop
  BY <1>2, WorkerInv
<1>3. CASE Signal
  BY <1>3, SignalInv
<1>4. CASE UNCHANGED vars
  BY <1>4 DEF vars, kernel, memory, xsk, work, ThreadInv, TypeOK, ThreadsAt, Idle, Over
<1>5. QED
  BY <1>1, <1>2, <1>3, <1>4 DEF Next, Terminated

\* The places of the threads agree in every state.
LEMMA ThreadsKnown == Spec => []ThreadInv
BY ThreadInit, ThreadStep, PTL DEF Spec

-----------------------------------------------------------------------------
(* What the threads use *)

\* How far the resources of a session are built, by the place of the main
\* thread.  A program that could not be loaded is taken for a success.
BuiltAt ==
    /\ pc \in {"attach", "map", "rlimit", "buffer", "umem", "socket"} => prog = "open"
    /\ pc \in {"map", "rlimit", "buffer", "umem", "socket"} => attached
    /\ pc \in {"umem", "socket"} => buffer # "null"
    /\ pc = "socket" => umem
    /\ pc \in RunSteps \cup {"cleanup"} =>
           sock /\ umem /\ buffer # "null" /\ prog = "open" /\ attached

\* Every step keeps it, if the program can be loaded.
LEMMA BuiltStep ==
    ASSUME "load" \notin Faults, ThreadInv, BuiltAt, [Next]_vars
    PROVE  BuiltAt'
<1> USE DEF InitFails, kernel, memory, xsk, work
<1>1. CASE Preallocate \/ InitBegin \/ Preflight
  BY <1>1 DEF Preallocate, InitBegin, Preflight, BuiltAt, RunSteps
<1>2. CASE LoadProgram \/ AttachProgram \/ FindMap \/ RaiseMemlock
  BY <1>2 DEF LoadProgram, AttachProgram, FindMap, RaiseMemlock, MayFail, BuiltAt, RunSteps
<1>3. CASE AdoptOrAllocate
  BY <1>3 DEF AdoptOrAllocate, Allocate, BuiltAt, RunSteps
<1>4. CASE ConfigureUmem \/ ConfigureSocket
  BY <1>4 DEF ConfigureUmem, ConfigureSocket, BuiltAt, RunSteps
<1>5. CASE CreateRx \/ CreateMgr \/ CreateWake
  BY <1>5 DEF CreateRx, CreateMgr, CreateWake, BuiltAt, RunSteps
<1>6. CASE JoinWorkers
  BY <1>6 DEF JoinWorkers, Join, BuiltAt, RunSteps
<1>7. CASE Cleanup(TRUE) \/ Cleanup(FALSE)
  BY <1>7 DEF Cleanup, BuiltAt, RunSteps
<1>8. CASE RxThread \/ MgrThread \/ WakeLoop
  <2>1. UNCHANGED <<kernel, memory, xsk>> /\ pc' \in {pc, "crashed"}
    BY <1>8, WorkerInv
  <2>2. QED
    BY <2>1 DEF BuiltAt, RunSteps
<1>9. CASE Signal
  <2>1. UNCHANGED <<kernel, memory, xsk>> /\ pc' \in {pc, "exited"}
    BY <1>9, SignalInv
  <2>2. QED
    BY <2>1 DEF BuiltAt, RunSteps
<1>10. CASE UNCHANGED vars
  BY <1>10 DEF vars, BuiltAt
<1>11. QED
  BY <1>1, <1>2, <1>3, <1>4, <1>5, <1>6, <1>7, <1>8, <1>9, <1>10 DEF Next, MainThread, Terminated

\* Threads run only where everything is built.
LEMMA OwnersBuilt == ThreadInv /\ BuiltAt => WorkersSafe
<1> SUFFICES ASSUME ThreadInv, BuiltAt, ~Ended, NEW t \in Thread, Alive(t)
             PROVE  sock /\ umem /\ buffer # "null" /\ prog = "open" /\ attached
  BY DEF WorkersSafe, WorkersOwnSocket, ThreadInv
<1>1. TypeOK /\ ThreadsAt
  BY DEF ThreadInv
<1>2. pc \in RunSteps
  BY <1>1 DEF TypeOK, ThreadsAt, Idle, Alive, Ended
<1>3. QED
  BY <1>2 DEF BuiltAt

\* While the process lives, no worker thread outlives the socket, the UMEM, the
\* buffer or the program, provided that the program can be loaded: afxdp_init
\* returns a positive number when it cannot, and main runs on.
THEOREM WorkersKeepSocket == "load" \notin Faults => (Spec => []WorkersSafe)
<1> SUFFICES ASSUME "load" \notin Faults PROVE Spec => []WorkersSafe
  OBVIOUS
<1>1. Init => BuiltAt
  BY DEF Init, BuiltAt, RunSteps
<1>2. ThreadInv /\ BuiltAt /\ [Next]_vars => BuiltAt'
  BY BuiltStep
<1>3. QED
  BY <1>1, <1>2, ThreadsKnown, OwnersBuilt, PTL DEF Spec

-----------------------------------------------------------------------------
(* What is left behind *)

\* A process that created a thread, or tried to, has ended only through
\* afxdp_cleanup.
LeftClean ==
    pc = "exited" =>
        \/ \A t \in Thread : th[t] = "none"
        \/ prog = "null" /\ ~attached /\ ~umem /\ ~sock /\ buffer = "null"

\* Every step keeps it, if the program can be detached.
LEMMA CleanStep ==
    ASSUME "detach" \notin Faults, ThreadInv, LeftClean, [Next]_vars
    PROVE  LeftClean'
<1> USE DEF InitFails, kernel, memory, xsk, work
<1>1. ThreadsAt
  BY DEF ThreadInv
<1>2. CASE InitBegin
  BY <1>2 DEF InitBegin, LeftClean
<1>3. CASE \/ Preflight \/ LoadProgram \/ AttachProgram \/ FindMap \/ RaiseMemlock
           \/ AdoptOrAllocate \/ ConfigureUmem \/ ConfigureSocket
  <2>1. pc \in InitSteps /\ th' = th
    BY <1>3 DEF Preflight, LoadProgram, AttachProgram, FindMap, RaiseMemlock, AdoptOrAllocate,
                ConfigureUmem, ConfigureSocket, InitSteps
  <2>2. QED
    BY <1>1, <2>1 DEF ThreadsAt, LeftClean
<1>4. CASE Preallocate \/ CreateRx \/ CreateMgr \/ CreateWake \/ JoinWorkers
  <2>1. pc' # "exited"
    BY <1>4 DEF Preallocate, CreateRx, CreateMgr, CreateWake, JoinWorkers, Join
  <2>2. QED
    BY <2>1 DEF LeftClean
<1>5. CASE Cleanup(TRUE) \/ Cleanup(FALSE)
  BY <1>5 DEF Cleanup, MayFail, LeftClean
<1>6. CASE RxThread \/ MgrThread \/ WakeLoop
  <2>1. ~Ended /\ pc' \in {pc, "crashed"}
    BY <1>6, WorkerInv
  <2>2. QED
    BY <2>1 DEF LeftClean, Ended
<1>7. CASE Signal
  <2>1. ~Ended /\ th' = th /\ (pc' = pc \/ \A t \in Thread : th[t] = "none")
    BY <1>7, SignalInv
  <2>2. QED
    BY <2>1 DEF LeftClean, Ended
<1>8. CASE UNCHANGED vars
  BY <1>8 DEF vars, LeftClean
<1>9. QED
  BY <1>2, <1>3, <1>4, <1>5, <1>6, <1>7, <1>8 DEF Next, MainThread, Terminated

\* A process that got as far as afxdp_run and exits leaves no program, socket,
\* UMEM, buffer or thread behind, whichever thread could not be created and
\* whether or not the program could be loaded; only a failure of the kernel to
\* detach the program is beyond it.
THEOREM ShutdownClean == "detach" \notin Faults => (Spec => []CleanShutdown)
<1> SUFFICES ASSUME "detach" \notin Faults PROVE Spec => []CleanShutdown
  OBVIOUS
<1>1. Init => LeftClean
  BY DEF Init, LeftClean
<1>2. ThreadInv /\ LeftClean /\ [Next]_vars => LeftClean'
  BY CleanStep
<1>3. ThreadInv /\ LeftClean => CleanShutdown
  BY DEF ThreadInv, ThreadsAt, Idle, Alive, LeftClean, CleanShutdown, Thread
<1>4. QED
  BY <1>1, <1>2, <1>3, ThreadsKnown, PTL DEF Spec

-----------------------------------------------------------------------------
(* The buffer *)

\* The buffer and its flag change together.
LEMMA BufferStep ==
    ASSUME ReleasedAsAllocated, [Next]_vars
    PROVE  /\ ReleasedAsAllocated'
           /\ buffer # "null" => buffer' = buffer \/ pc' = "exited"
<1> USE DEF memory, LeaveMain
<1>1. CASE Preallocate
  BY <1>1 DEF Preallocate, Allocate, AllocateFails, ReleasedAsAllocated
<1>2. CASE AdoptOrAllocate
  BY <1>2 DEF AdoptOrAllocate, Allocate, AllocateFails, ReleasedAsAllocated
<1>3. CASE Cleanup(TRUE) \/ Cleanup(FALSE)
  <2>1. useHuge' = useHuge /\ (buffer' = buffer \/ (buffer' = "null" /\ pc' = "exited"))
    BY <1>3 DEF Cleanup
  <2>2. QED
    BY <2>1 DEF ReleasedAsAllocated
<1>4. CASE ~(Preallocate \/ AdoptOrAllocate \/ Cleanup(TRUE) \/ Cleanup(FALSE))
  <2>1. buffer' = buffer /\ useHuge' = useHuge
    BY <1>4
       DEF Next, MainThread, InitBegin, Preflight, LoadProgram, AttachProgram, FindMap,
           RaiseMemlock, ConfigureUmem, ConfigureSocket, CreateRx, CreateMgr, CreateWake,
           JoinWorkers, Join, RxThread, RxStart, RxLoop, RxPass, MgrThread, MgrLoop, MgrWake,
           MgrWork, WakeLoop, Signal, Terminated, vars
  <2>2. QED
    BY <2>1 DEF ReleasedAsAllocated
<1>5. QED
  BY <1>1, <1>2, <1>3, <1>4

\* The buffer is released the way it was obtained, after any number of sessions
\* and failed allocations.
THEOREM BufferMatchesFlag == Spec => []ReleasedAsAllocated
<1>1. Init => ReleasedAsAllocated
  BY DEF Init, ReleasedAsAllocated
<1>2. ReleasedAsAllocated /\ [Next]_vars => ReleasedAsAllocated'
  BY BufferStep
<1>3. QED
  BY <1>1, <1>2, PTL DEF Spec

\* Between sessions no step drops the buffer or replaces it.
THEOREM BufferStays == Spec => BufferKept
<1>1. ReleasedAsAllocated /\ [Next]_vars
          => [buffer # "null" => buffer' = buffer \/ pc' = "exited"]_vars
  BY BufferStep
<1>2. QED
  BY <1>1, BufferMatchesFlag, PTL DEF Spec, BufferKept

-----------------------------------------------------------------------------
(* The start of the DPDK manager, next to the sessions: v1 is the pc, v2 the *)
(* lcores, v3 the list of ports, v4 those started, v5 the cores, v6 and v7   *)
(* the services, v8 the shared core mode, v9 the workers, v10 a counter.     *)

\* Cardinality is that of every module.
LEMMA StartSize == \A S : Start!Cardinality(S) = Cardinality(S)
BY DEF Start!Cardinality, Cardinality

(* Arithmetic: the shares of the threads *)

\* Division of integers.
LEMMA Quotient ==
    ASSUME NEW a \in Nat, NEW b \in Nat \ {0}
    PROVE  a \div b \in Nat /\ (a \div b) * b <= a /\ a < ((a \div b) + 1) * b
OBVIOUS

\* A number is in one of the intervals of length c.
LEMMA OneInterval ==
    ASSUME NEW c \in Nat, NEW n \in Nat, NEW i \in Nat, NEW j \in Nat,
           i * c <= n, n < (i + 1) * c, j * c <= n, n < (j + 1) * c
    PROVE  i = j
OBVIOUS

\* Shares of the size that is rounded up are enough for all.
LEMMA CeilCovers ==
    ASSUME NEW a \in Nat \ {0}, NEW b \in Nat \ {0}
    PROVE  Start!Ceil(a, b) \in Nat \ {0} /\ a <= Start!Ceil(a, b) * b
<1>1. PICK q \in Nat : q = Start!Ceil(a, b) /\ a + b - 1 < (q + 1) * b
  <2>1. a + b - 1 \in Nat
    OBVIOUS
  <2>2. QED
    BY <2>1, Quotient DEF Start!Ceil
<1>2. (q + 1) * b = q * b + b /\ q * b \in Nat
  OBVIOUS
<1>3. a <= q * b
  BY <1>1, <1>2
<1>4. q # 0
  <2>1. SUFFICES ASSUME q = 0 PROVE FALSE
    OBVIOUS
  <2>2. q * b = 0
    BY <2>1
  <2>3. QED
    BY <1>3, <2>2
<1>5. QED
  BY <1>1, <1>3, <1>4

\* The shares are intervals, whose ends are cut at MAX_NFS.
LEMMA InShare ==
    ASSUME NEW i \in Nat, NEW c \in Nat, NEW m \in Nat \ {0}, NEW n \in 1 .. (m - 1)
    PROVE  /\ n >= Start!Min(i * c + 1, m) <=> i * c <= n - 1
           /\ n < Start!Min((i + 1) * c + 1, m) <=> n - 1 < (i + 1) * c
<1>1. PICK x \in Nat, y \in Nat : x = i * c /\ y = (i + 1) * c
  OBVIOUS
<1>2. /\ n >= Start!Min(x + 1, m) <=> x <= n - 1
      /\ n < Start!Min(y + 1, m) <=> n - 1 < y
  BY DEF Start!Min
<1>3. QED
  BY <1>1, <1>2

\* Of t TX threads exactly one has an NF in its share.
LEMMA OneShare ==
    ASSUME NEW t \in Nat \ {0}, NEW n \in 1 .. (MAX_NFS - 1), MAX_NFS \in Nat \ {0}
    PROVE  \E k \in 1 .. t : \A j \in 1 .. t :
               (n >= Start!TxRange(j - 1, t).first /\ n < Start!TxRange(j - 1, t).last) <=> j = k
<1>1. PICK c \in Nat \ {0} : c = Start!Ceil(MAX_NFS, t) /\ MAX_NFS <= c * t
  BY CeilCovers
<1>2. n - 1 \in Nat
  OBVIOUS
<1>3. PICK q \in Nat : q * c <= n - 1 /\ n - 1 < (q + 1) * c
  BY <1>2, Quotient
<1>4. q + 1 \in 1 .. t
  <2>1. SUFFICES ASSUME t <= q PROVE FALSE
    BY <1>3
  <2>2. c * t <= q * c
    BY <2>1
  <2>3. QED
    BY <1>1, <1>3, <2>2
<1>5. ASSUME NEW j \in 1 .. t
      PROVE  (n >= Start!TxRange(j - 1, t).first /\ n < Start!TxRange(j - 1, t).last) <=> j = q + 1
  <2>1. j - 1 \in Nat /\ (j - 1) + 1 = j
    OBVIOUS
  <2>2. /\ n >= Start!TxRange(j - 1, t).first <=> (j - 1) * c <= n - 1
        /\ n < Start!TxRange(j - 1, t).last <=> n - 1 < ((j - 1) + 1) * c
    BY <1>1, <2>1, InShare DEF Start!TxRange
  <2>3. PICK i \in Nat : i = j - 1
    BY <2>1
  <2>4. (i * c <= n - 1 /\ n - 1 < (i + 1) * c) <=> i = q
    BY <1>2, <1>3, OneInterval
  <2>5. QED
    BY <2>2, <2>3, <2>4
<1>6. QED
  BY <1>4, <1>5

-----------------------------------------------------------------------------
(* Lists: the ports of a mask, the threads in the order of their launch *)

Sorted(s) == \A i, j \in DOMAIN s : i < j => s[i] < s[j]

\* The sets of numbers below k can be listed in ascending order.
HasList(S) ==
    /\ IsFiniteSet(S)
    /\ \E n \in Nat : Cardinality(S) = n /\ \E s \in [1 .. n -> S] : Sorted(s)

Listed(k) == \A S \in SUBSET (0 .. (k - 1)) : HasList(S)

\* A larger number is the last of the list.
LEMMA ListedGrows ==
    ASSUME NEW k \in Nat, Listed(k)
    PROVE  Listed(k + 1)
<1>1. SUFFICES ASSUME NEW S \in SUBSET (0 .. ((k + 1) - 1))
               PROVE  HasList(S)
  BY DEF Listed
<1>2. CASE k \notin S
  <2>1. S \in SUBSET (0 .. (k - 1))
    BY <1>2
  <2>2. QED
    BY <2>1 DEF Listed
<1>3. CASE k \in S
  <2>0. PICK T : T = S \ {k}
    OBVIOUS
  <2>1. T \in SUBSET (0 .. (k - 1)) /\ S = T \cup {k} /\ k \notin T
    <3>1. ASSUME NEW x \in T PROVE x \in 0 .. (k - 1)
      <4>1. x \in 0 .. ((k + 1) - 1) /\ x # k
        BY <2>0
      <4>2. QED
        BY <4>1
    <3>2. QED
      BY <1>3, <2>0, <3>1
  <2>2. HasList(T)
    BY <2>1 DEF Listed
  <2>3. PICK n \in Nat : Cardinality(T) = n /\ \E s \in [1 .. n -> T] : Sorted(s)
    BY <2>2 DEF HasList
  <2>4. PICK t \in [1 .. n -> T] : Sorted(t)
    BY <2>3
  <2>5. IsFiniteSet(S) /\ Cardinality(S) = n + 1
    <3>1. IsFiniteSet(T)
      BY <2>2 DEF HasList
    <3>2. IsFiniteSet(T \cup {k}) /\ Cardinality(T \cup {k}) = Cardinality(T) + 1
      BY <2>1, <3>1, FS_AddElement
    <3>3. QED
      BY <2>1, <2>3, <3>2
  <2>6. PICK s : s = [i \in 1 .. (n + 1) |-> IF i = n + 1 THEN k ELSE t[i]]
    OBVIOUS
  <2>7. /\ s \in [1 .. (n + 1) -> S]
        /\ s[n + 1] = k /\ \A i \in 1 .. n : s[i] = t[i] /\ s[i] \in 0 .. (k - 1)
    <3>1. \A i \in 1 .. (n + 1) : i = n + 1 \/ i \in 1 .. n
      OBVIOUS
    <3>2. ASSUME NEW i \in 1 .. n PROVE s[i] = t[i] /\ s[i] \in T /\ s[i] \in 0 .. (k - 1)
      <4>1. t[i] \in T /\ i \in 1 .. (n + 1) /\ i # n + 1
        BY <2>4
      <4>2. s[i] = t[i]
        BY <2>6, <4>1
      <4>3. QED
        BY <2>1, <4>1, <4>2
    <3>3. n + 1 \in 1 .. (n + 1)
      OBVIOUS
    <3>4. s[n + 1] = k
      BY <2>6, <3>3
    <3>5. \A i \in 1 .. (n + 1) : s[i] \in S
      BY <2>1, <3>1, <3>2, <3>4
    <3>6. QED
      BY <2>6, <3>2, <3>4, <3>5
  <2>8. Sorted(s)
    <3>1. SUFFICES ASSUME NEW i \in 1 .. (n + 1), NEW j \in 1 .. (n + 1), i < j
                   PROVE  s[i] < s[j]
      BY <2>7 DEF Sorted
    <3>2. i \in 1 .. n /\ (j \in 1 .. n \/ j = n + 1)
      BY <3>1
    <3>3. CASE j = n + 1
      BY <2>7, <3>2, <3>3
    <3>4. CASE j \in 1 .. n
      BY <2>4, <2>7, <3>1, <3>2, <3>4 DEF Sorted
    <3>5. QED
      BY <3>2, <3>3, <3>4
  <2>9. QED
    BY <2>5, <2>7, <2>8 DEF HasList
<1>4. QED
  BY <1>2, <1>3

\* There is no smallest k that says otherwise.
LEMMA AllListed ==
    ASSUME NEW k \in Nat
    PROVE  Listed(k)
<1> DEFINE Bad == {n \in Nat : ~Listed(n)}
<1>1. SUFFICES ASSUME Bad # {} PROVE FALSE
  OBVIOUS
<1>2. PICK m \in Bad : \A x \in Bad : m <= x
  BY <1>1, LeastNat
<1>3. m # 0
  <2>1. \A S \in SUBSET (0 .. (0 - 1)) : S = {}
    OBVIOUS
  <2>2. PICK e : e = [i \in 1 .. 0 |-> 0]
    OBVIOUS
  <2>6. e \in [1 .. 0 -> {}] /\ Sorted(e)
    BY <2>2 DEF Sorted
  <2>3. Cardinality({}) = 0 /\ IsFiniteSet({})
    BY FS_EmptySet
  <2>7. HasList({})
    <3>1. \E n \in Nat : Cardinality({}) = n /\ \E s \in [1 .. n -> {}] : Sorted(s)
      <4>1. WITNESS 0 \in Nat
      <4>2. QED
        BY <2>3, <2>6
    <3>2. QED
      BY <2>3, <3>1, Zenon DEF HasList
  <2>4. Listed(0)
    BY <2>1, <2>7 DEF Listed
  <2>5. QED
    BY <1>2, <2>4
<1>4. m - 1 \in Nat /\ m - 1 \notin Bad /\ (m - 1) + 1 = m
  BY <1>2, <1>3
<1>5. QED
  BY <1>2, <1>4, ListedGrows

\* What parse_portmask appends is a list of ports.
LEMMA AscendingType ==
    ASSUME Start!Configuration, NEW mask \in PortMasks
    PROVE  Start!Ascending({b \in mask : b < TotalPorts}) \in Seq(Nat)
<1>0. PICK S : S = {b \in mask : b < TotalPorts}
  OBVIOUS
<1>1. S \in SUBSET (0 .. (TotalPorts - 1))
  <2>1. ASSUME NEW x \in S PROVE x \in 0 .. (TotalPorts - 1)
    <3>1. x \in mask /\ x < TotalPorts
      BY <1>0
    <3>2. x \in Nat /\ TotalPorts \in Nat
      BY <3>1 DEF Start!Configuration
    <3>3. QED
      BY <3>1, <3>2
  <2>2. QED
    BY <2>1
<1>2. Listed(TotalPorts)
  BY AllListed DEF Start!Configuration
<1>3. PICK n \in Nat : Cardinality(S) = n /\ \E s \in [1 .. n -> S] : Sorted(s)
  BY <1>1, <1>2 DEF Listed, HasList
<1>4. Start!Ascending(S) = CHOOSE s \in [1 .. n -> S] : Sorted(s)
  BY <1>3, StartSize DEF Start!Ascending, Sorted
<1>5. Start!Ascending(S) \in [1 .. n -> S] /\ S \subseteq Nat
  BY <1>1, <1>3, <1>4
<1>6. QED
  BY <1>0, <1>5

Kind == {"tx", "rx", "wakeup"}
Wakeups == IF v8 THEN WakeupThreads ELSE 0

\* TX threads, the RX thread, and a wakeup thread in shared core mode: as many as
\* there are lcores besides the master's.
LEMMA PlanIs ==
    ASSUME Start!Configuration, v2 \in Nat, v8 \in BOOLEAN, Start!TxLcores \in Nat
    PROVE  /\ Start!Plan \in Seq(Kind) /\ Len(Start!Plan) \in Nat /\ Len(Start!Plan) = v2 - 1
           /\ Len(Start!Plan) = Start!TxLcores + 1 + Wakeups /\ Wakeups = IF v8 THEN 1 ELSE 0
           /\ \A i \in 1 .. Len(Start!Plan) :
                  Start!Plan[i] = IF i <= Start!TxLcores THEN "tx" ELSE IF i = Start!TxLcores + 1 THEN "rx" ELSE "wakeup"
<1>1. PICK t \in Nat, w \in Nat : t = Start!TxLcores /\ w = Wakeups /\ w = IF v8 THEN 1 ELSE 0
  BY DEF Start!Configuration, Wakeups
<1>2. v2 - 1 = t + 1 + w
  BY <1>1 DEF Start!TxLcores, Start!NumRx, Start!NumAux, Wakeups
<1>3. PICK a, b, c : /\ a = [i \in 1 .. t |-> "tx"] /\ b = [i \in 1 .. Start!NumRx |-> "rx"]
                     /\ c = [i \in 1 .. w |-> "wakeup"]
  OBVIOUS
<1>4. Start!Plan = a \o b \o c
  BY <1>1, <1>3 DEF Start!Plan, Wakeups
<1>5. /\ a \in Seq(Kind) /\ b \in Seq(Kind) /\ c \in Seq(Kind)
      /\ Len(a) = t /\ Len(b) = 1 /\ Len(c) = w
      /\ \A i \in 1 .. t : a[i] = "tx"
      /\ b[1] = "rx"
      /\ \A i \in 1 .. w : c[i] = "wakeup"
  BY <1>3 DEF Kind, Start!NumRx
<1>6. PICK ab : ab = a \o b
  OBVIOUS
<1>7. /\ ab \in Seq(Kind) /\ Len(ab) = t + 1
      /\ \A i \in 1 .. (t + 1) : ab[i] = IF i <= t THEN a[i] ELSE b[i - t]
  BY <1>5, <1>6, ConcatProperties
<1>8. /\ Start!Plan \in Seq(Kind) /\ Len(Start!Plan) = t + 1 + w
      /\ \A i \in 1 .. (t + 1 + w) : Start!Plan[i] = IF i <= t + 1 THEN ab[i] ELSE c[i - (t + 1)]
  <2>1. Start!Plan = ab \o c
    BY <1>4, <1>6
  <2>2. /\ ab \o c \in Seq(Kind) /\ Len(ab \o c) = Len(ab) + Len(c)
        /\ \A i \in 1 .. Len(ab) + Len(c) : (ab \o c)[i] = IF i <= Len(ab) THEN ab[i] ELSE c[i - Len(ab)]
    <3>1. ab \in Seq(Kind) /\ c \in Seq(Kind)
      BY <1>5, <1>7
    <3>2. QED
      BY <3>1, ConcatProperties
  <2>3. QED
    BY <1>5, <1>7, <2>1, <2>2
<1>9. ASSUME NEW i \in 1 .. (t + 1 + w)
      PROVE  Start!Plan[i] = IF i <= t THEN "tx" ELSE IF i = t + 1 THEN "rx" ELSE "wakeup"
  <2>1. CASE i <= t
    BY <1>5, <1>7, <1>8, <2>1
  <2>2. CASE i = t + 1
    BY <1>5, <1>7, <1>8, <2>2
  <2>3. CASE t + 1 < i
    <3>1. i - (t + 1) \in 1 .. w
      BY <2>3
    <3>2. QED
      BY <1>5, <1>8, <2>3, <3>1
  <2>4. QED
    BY <2>1, <2>2, <2>3
<1>10. QED
  BY <1>1, <1>2, <1>8, <1>9

\* The n-th thread gets the n-th lcore after the master's.
LEMMA NextLcoreIs ==
    ASSUME v2 \in Nat, NEW n \in 1 .. (v2 - 1)
    PROVE  Start!NextLcore(n) = n
<1>1. PICK k \in Nat, m \in Nat : k = v2 - 1 /\ m = n - 1 /\ m < k
  OBVIOUS
<1>2. m % k = m
  BY <1>1
<1>3. QED
  BY <1>1, <1>2 DEF Start!NextLcore

-----------------------------------------------------------------------------
(* The invariant *)

\* The n-th thread as main() launches it.
WorkerOf(n) ==
    LET range == CASE Start!Plan[n] = "tx" -> Start!TxRange(n - 1, Start!TxLcores)
                   [] Start!Plan[n] = "rx" -> [first |-> 0, last |-> 0]
                   [] Start!Plan[n] = "wakeup" -> Start!WakeupRange(n - 1 - Start!TxLcores - Start!NumRx, WakeupThreads)
    IN  [kind |-> Start!Plan[n], first |-> range.first, last |-> range.last, lcore |-> Start!NextLcore(n)]

\* The ports are started in the order of the list, each of them once.
PortsInv ==
    /\ v3 \in Seq(Nat) /\ v4 \in Seq(Nat)
    /\ Len(v4) <= Len(v3)
    /\ \A i \in 1 .. Len(v4) : v4[i] = v3[i]
    /\ \A i, j \in 1 .. Len(v4) : v4[i] = v4[j] => i = j
    /\ v1 \in {"reserve", "parse"} => v4 = <<>>
    /\ v1 \in {"links", "queues", "assign", "launch", "running", "stopping"} =>
           Len(v4) = Len(v3)

\* The threads are launched as planned.
Planned ==
    /\ Start!TxLcores \in Nat /\ (v8 => Start!TxLcores # 0)
    /\ v9 \in Seq({WorkerOf(i) : i \in 1 .. Len(Start!Plan)})
    /\ Len(v9) <= Len(Start!Plan)
    /\ \A i \in 1 .. Len(v9) : v9[i] = WorkerOf(i)
    /\ v1 # "launch" => Len(v9) = Len(Start!Plan)

StartInv ==
    /\ v2 \in LcoreCounts /\ v8 \in BOOLEAN
    /\ PortsInv
    /\ v1 \in {"reserve", "parse", "ports", "links", "queues", "assign"} => v9 = <<>>
    /\ v1 \in {"launch", "running", "stopping"} => Planned

\* Before anything is started.
LEMMA StartInit ==
    ASSUME Start!Init
    PROVE  StartInv
<1>1. /\ v1 = "reserve" /\ v3 = <<>> /\ v4 = <<>> /\ v9 = <<>>
      /\ v2 \in LcoreCounts /\ v8 = FALSE
  BY DEF Start!Init
<1>2. Len(<<>>) = 0 /\ <<>> \in Seq(Nat)
  OBVIOUS
<1>3. PortsInv
  BY <1>1, <1>2 DEF PortsInv
<1>4. QED
  BY <1>1, <1>3 DEF StartInv

\* What depends on the lcores and the mode alone.
LEMMA SamePlan ==
    ASSUME v2' = v2, v8' = v8
    PROVE  Start!TxLcores' = Start!TxLcores /\ Start!Plan' = Start!Plan /\ \A n : WorkerOf(n)' = WorkerOf(n)
<1>1. Start!TxLcores' = Start!TxLcores
  BY DEF Start!TxLcores
<1>2. Start!Plan' = Start!Plan
  BY <1>1 DEF Start!Plan
<1>3. ASSUME NEW n PROVE Start!NextLcore(n)' = Start!NextLcore(n)
  BY DEF Start!NextLcore
<1>4. ASSUME NEW n PROVE WorkerOf(n)' = WorkerOf(n)
  BY <1>1, <1>2, <1>3 DEF WorkerOf
<1>5. QED
  BY <1>1, <1>2, <1>4

\* A step between two states in which the threads run, and which launches none.
LEMMA PlannedKept ==
    ASSUME Planned, v2' = v2, v8' = v8, v9' = v9,
           (v1 # "launch" \/ v1' = "launch") \/ Len(v9) = Len(Start!Plan)
    PROVE  Planned'
<1>1. Start!TxLcores' = Start!TxLcores /\ Start!Plan' = Start!Plan /\ \A n : WorkerOf(n)' = WorkerOf(n)
  BY SamePlan
<1>2. {WorkerOf(i) : i \in 1 .. Len(Start!Plan)}' = {WorkerOf(i) : i \in 1 .. Len(Start!Plan)}
  BY <1>1
<1>3. QED
  BY <1>1, <1>2 DEF Planned

\* The steps of init() and parse_app_args that start nothing.
LEMMA QuietKeeps ==
    ASSUME StartInv, v2' = v2, v4' = v4, v9' = v9,
           \/ v8' = v8 /\ v3' = v3 /\ v1 \notin {"launch", "running", "stopping"}
              /\ \/ v1' \in {v1, "exited", "crashed", "returned"}
                 \/ v1 = "reserve" /\ v1' = "parse"
                 \/ v1 = "parse" /\ v1' = "ports"
                 \/ v1 = "links" /\ v1' = "queues"
                 \/ v1 = "queues" /\ v1' = "assign"
           \/ v1 = "parse" /\ v1' = v1 /\ v8' \in BOOLEAN /\ v3' \in Seq(Nat)
    PROVE  StartInv'
<1>1. v2' \in LcoreCounts /\ v8' \in BOOLEAN
  BY DEF StartInv
<1>2. PortsInv'
  BY DEF StartInv, PortsInv
<1>3. QED
  BY <1>1, <1>2 DEF StartInv

\* init_port and the end of its loop.
LEMMA PortKeeps ==
    ASSUME StartInv, Start!init_port \/ Start!PortsDone
    PROVE  StartInv'
<1>1. CASE Start!PortsDone
  BY <1>1 DEF Start!PortsDone, StartInv, PortsInv
<1>2. CASE Start!init_port
  <2>0. PICK n \in Nat : n = Len(v4) + 1
    BY DEF StartInv, PortsInv
  <2>1. PICK port : port = v3[n]
    OBVIOUS
  <2>2. /\ v1 = "ports" /\ Len(v4) < Len(v3) /\ v1' = v1
        /\ \A i \in 1 .. Len(v4) : v4[i] # port
        /\ v4' = Append(v4, port)
        /\ UNCHANGED << v2, v3, v8, v9 >>
    <3>1. v4 \in Seq(Nat)
      BY DEF StartInv, PortsInv
    <3>2. /\ v1 = "ports" /\ Len(v4) < Len(v3) /\ v1' = v1
          /\ port \notin {v4[i] : i \in DOMAIN v4}
          /\ v4' = Append(v4, port)
          /\ UNCHANGED << v2, v3, v8, v9 >>
      BY <1>2, <2>0, <2>1 DEF Start!init_port
    <3>3. DOMAIN v4 = 1 .. Len(v4)
      BY <3>1
    <3>4. QED
      BY <3>2, <3>3
  <2>3. PortsInv /\ Len(v3) \in Nat /\ Len(v4) \in Nat /\ n \in 1 .. Len(v3) /\ port \in Nat
    BY <2>0, <2>1, <2>2 DEF StartInv, PortsInv
  <2>4. /\ v4' \in Seq(Nat) /\ Len(v4') = n /\ v4'[n] = port
        /\ \A i \in 1 .. Len(v4) : v4'[i] = v4[i]
    BY <2>0, <2>2, <2>3, AppendProperties DEF PortsInv
  <2>5. \A i \in 1 .. n : i = n \/ i \in 1 .. Len(v4)
    BY <2>0, <2>3
  <2>6. PortsInv'
    BY <2>0, <2>1, <2>2, <2>3, <2>4, <2>5 DEF PortsInv
  <2>7. QED
    BY <2>2, <2>6 DEF StartInv
<1>3. QED
  BY <1>1, <1>2

\* main() hands out the lcores.
LEMMA AssignKeeps ==
    ASSUME Start!Configuration, StartInv, Start!AssignCores
    PROVE  StartInv'
<1>1. /\ v1 = "assign" /\ v9 = <<>>
      /\ UNCHANGED << v2, v3, v4, v8, v9 >>
  BY DEF Start!AssignCores, StartInv
<1>2. v2 \in Int /\ Start!TxLcores \in Int /\ v8 \in BOOLEAN
  BY DEF StartInv, Start!Configuration, Start!TxLcores, Start!NumRx, Start!NumAux
<1>3. \/ v1' \in {"crashed", "returned"}
      \/ v1' = "launch" /\ Start!TxLcores \in Nat /\ (v8 => Start!TxLcores # 0)
  BY <1>2 DEF Start!AssignCores
<1>4. PortsInv'
  BY <1>1, <1>3 DEF StartInv, PortsInv
<1>5. CASE v1' \in {"crashed", "returned"}
  BY <1>1, <1>4, <1>5 DEF StartInv
<1>6. CASE v1' = "launch" /\ Start!TxLcores \in Nat /\ (v8 => Start!TxLcores # 0)
  <2>1. v2 \in Nat
    BY DEF StartInv, Start!Configuration
  <2>2. Len(Start!Plan) \in Nat
    BY <1>2, <1>6, <2>1, PlanIs
  <2>3. Start!TxLcores' = Start!TxLcores /\ Start!Plan' = Start!Plan
    BY <1>1, SamePlan
  <2>4. v9' = <<>> /\ Len(v9') = 0
    BY <1>1
  <2>5. Planned'
    BY <1>1, <1>6, <2>2, <2>3, <2>4 DEF Planned
  <2>6. QED
    BY <1>1, <1>4, <1>6, <2>5 DEF StartInv
<1>7. QED
  BY <1>3, <1>5, <1>6

\* A thread is launched.
LEMMA LaunchKeeps ==
    ASSUME Start!Configuration, StartInv, Start!Launch
    PROVE  StartInv'
<1>1. PICK n : n = Len(v9) + 1
  OBVIOUS
<1>2. /\ v1 = "launch" /\ v1' = v1 /\ Len(v9) < Len(Start!Plan)
      /\ v9' = Append(v9, WorkerOf(n))
      /\ UNCHANGED << v2, v3, v4, v8 >>
  BY <1>1 DEF Start!Launch, WorkerOf
<1>3. Planned /\ v2 \in Nat /\ v8 \in BOOLEAN
  BY <1>2 DEF StartInv, Start!Configuration
<1>4. Len(Start!Plan) \in Nat /\ Len(v9) \in Nat
  BY <1>3, PlanIs DEF Planned
<1>5. Start!TxLcores' = Start!TxLcores /\ Start!Plan' = Start!Plan /\ \A i : WorkerOf(i)' = WorkerOf(i)
  BY <1>2, SamePlan
<1>6. n \in 1 .. Len(Start!Plan)
  BY <1>1, <1>2, <1>4
<1>7. PICK W : W = {WorkerOf(i) : i \in 1 .. Len(Start!Plan)}
  OBVIOUS
<1>8. v9 \in Seq(W) /\ WorkerOf(n) \in W
  BY <1>3, <1>6, <1>7 DEF Planned
<1>9. /\ v9' \in Seq(W) /\ Len(v9') = n /\ v9'[n] = WorkerOf(n)
      /\ \A i \in 1 .. Len(v9) : v9'[i] = v9[i]
  BY <1>1, <1>2, <1>8, AppendProperties
<1>10. \A i \in 1 .. n : v9'[i] = WorkerOf(i)
  <2>1. \A i \in 1 .. n : i = n \/ i \in 1 .. Len(v9)
    BY <1>1, <1>4
  <2>2. QED
    BY <1>3, <1>9, <2>1 DEF Planned
<1>11. W = {WorkerOf(i) : i \in 1 .. Len(Start!Plan)}'
  BY <1>5, <1>7
<1>12. Planned'
  BY <1>2, <1>3, <1>5, <1>6, <1>9, <1>10, <1>11 DEF Planned
<1>13. PortsInv'
  BY <1>2 DEF StartInv, PortsInv
<1>14. QED
  BY <1>2, <1>12, <1>13 DEF StartInv

\* The steps of main() that launch no thread.
LEMMA MainKeeps ==
    ASSUME StartInv, \/ Start!LaunchFails \/ Start!RunMaster \/ Start!StopMaster
                     \/ \E gone \in BOOLEAN : Start!AwaitNfs(gone)
    PROVE  StartInv'
<1>1. /\ UNCHANGED << v2, v3, v4, v8, v9 >>
      /\ v1 \in {"launch", "running", "stopping"}
      /\ v1' \in {"running", "stopping", "returned"}
      /\ v1 = "launch" => v1' = "returned" \/ Len(v9) = Len(Start!Plan)
  BY DEF Start!LaunchFails, Start!RunMaster, Start!StopMaster, Start!AwaitNfs
<1>2. Planned
  BY <1>1 DEF StartInv
<1>3. v1' # "returned" => Planned'
  BY <1>1, <1>2, PlannedKept
<1>4. PortsInv'
  BY <1>1 DEF StartInv, PortsInv
<1>5. QED
  BY <1>1, <1>3, <1>4 DEF StartInv

\* Every step keeps the invariant.
LEMMA StartStep ==
    ASSUME Start!Configuration, StartInv, [Start!Next]_(Start!vars)
    PROVE  StartInv'
<1>1. CASE \/ Start!Fail \/ Start!Reserve \/ Start!EnableSharedCpu \/ Start!OtherOption
           \/ Start!InitPools \/ Start!InitQueues
           \/ \E mask \in CoreMasks : Start!parse_nf_cores(mask)
           \/ \E n \in {1, MaxServices + 1} : Start!parse_num_services(n)
           \/ \E up \in BOOLEAN : Start!CheckLinks(up)
  BY <1>1, QuietKeeps
     DEF Start!Fail, Start!Reserve, Start!EnableSharedCpu, Start!OtherOption, Start!InitPools,
         Start!InitQueues, Start!parse_nf_cores, Start!parse_num_services, Start!CheckLinks,
         Start!Option, StartInv, PortsInv
<1>2. ASSUME NEW mask \in PortMasks, Start!parse_portmask(mask) PROVE StartInv'
  <2>1. v3' \in Seq(Nat)
    BY <1>2, AscendingType, ConcatProperties DEF Start!parse_portmask, StartInv, PortsInv
  <2>2. QED
    BY <1>2, <2>1, QuietKeeps DEF Start!parse_portmask, Start!Option, StartInv
<1>3. CASE Start!init_port \/ Start!PortsDone
  BY <1>3, PortKeeps
<1>4. CASE Start!AssignCores
  BY <1>4, AssignKeeps
<1>5. CASE Start!Launch
  BY <1>5, LaunchKeeps
<1>6. CASE Start!LaunchFails \/ Start!RunMaster \/ Start!StopMaster \/ \E gone \in BOOLEAN : Start!AwaitNfs(gone)
  BY <1>6, MainKeeps
<1>7. CASE UNCHANGED Start!vars
  <2>1. UNCHANGED << v1, v2, v3, v4, v8, v9 >>
    BY <1>7 DEF Start!vars
  <2>2. Planned => Planned'
    BY <2>1, PlannedKept
  <2>3. QED
    BY <2>1, <2>2 DEF StartInv, PortsInv
<1>8. QED
  BY <1>1, <1>2, <1>3, <1>4, <1>5, <1>6, <1>7 DEF Start!Next

-----------------------------------------------------------------------------
(* What the invariant says *)

\* A thread that runs is the one planned.
LEMMA WorkersAre ==
    ASSUME Start!Configuration, StartInv, v1 \in {"launch", "running", "stopping"}
    PROVE  /\ v2 \in Nat /\ v8 \in BOOLEAN /\ Start!TxLcores \in Nat /\ (v8 => Start!TxLcores # 0)
           /\ Len(v9) \in Nat /\ Len(v9) <= v2 - 1 /\ Len(Start!Plan) = v2 - 1
           /\ DOMAIN v9 = 1 .. Len(v9)
           /\ v1 # "launch" => Len(v9) = Start!TxLcores + 1 + (IF v8 THEN 1 ELSE 0)
           /\ \A i \in 1 .. Len(v9) :
                  /\ v9[i] = WorkerOf(i) /\ v9[i].lcore = i
                  /\ v9[i].kind = IF i <= Start!TxLcores THEN "tx"
                                       ELSE IF i = Start!TxLcores + 1 THEN "rx" ELSE "wakeup"
<1>1. Planned /\ v2 \in Nat /\ v8 \in BOOLEAN
  BY DEF StartInv, Start!Configuration
<1>2. Start!TxLcores \in Nat /\ (v8 => Start!TxLcores # 0)
  BY <1>1 DEF Planned
<1>3. /\ Len(Start!Plan) \in Nat /\ Len(Start!Plan) = v2 - 1
      /\ Len(Start!Plan) = Start!TxLcores + 1 + (IF v8 THEN 1 ELSE 0)
      /\ \A i \in 1 .. Len(Start!Plan) :
             Start!Plan[i] = IF i <= Start!TxLcores THEN "tx" ELSE IF i = Start!TxLcores + 1 THEN "rx" ELSE "wakeup"
  BY <1>1, <1>2, PlanIs
<1>4. /\ Len(v9) \in Nat /\ Len(v9) <= Len(Start!Plan) /\ DOMAIN v9 = 1 .. Len(v9)
      /\ \A i \in 1 .. Len(v9) : v9[i] = WorkerOf(i)
      /\ v1 # "launch" => Len(v9) = Len(Start!Plan)
  BY <1>1 DEF Planned
<1>5. ASSUME NEW i \in 1 .. Len(v9)
      PROVE  v9[i].lcore = i /\ v9[i].kind = Start!Plan[i] /\ i \in 1 .. Len(Start!Plan)
  <2>1. i \in 1 .. (v2 - 1)
    BY <1>3, <1>4
  <2>2. Start!NextLcore(i) = i
    BY <1>1, <2>1, NextLcoreIs
  <2>3. QED
    BY <1>3, <1>4, <2>1, <2>2 DEF WorkerOf
<1>6. QED
  BY <1>1, <1>2, <1>3, <1>4, <1>5

\* Each NF has one TX thread.
LEMMA PartitionFollows ==
    ASSUME Start!Configuration, StartInv
    PROVE  Start!NfsPartitioned
<1>1. SUFFICES ASSUME v1 \in {"running", "stopping"}, Start!TxLcores > 0, NEW nf \in 1 .. (MAX_NFS - 1)
               PROVE  Cardinality(Start!Owners("tx", nf)) = 1
  BY StartSize DEF Start!NfsPartitioned
<1>2. /\ Start!TxLcores \in Nat /\ DOMAIN v9 = 1 .. Len(v9) /\ Len(v9) \in Nat
      /\ Len(v9) > Start!TxLcores
      /\ \A i \in 1 .. Len(v9) :
             /\ v9[i] = WorkerOf(i)
             /\ v9[i].kind = IF i <= Start!TxLcores THEN "tx"
                                  ELSE IF i = Start!TxLcores + 1 THEN "rx" ELSE "wakeup"
  BY <1>1, WorkersAre
<1>3. PICK k \in 1 .. Start!TxLcores : \A j \in 1 .. Start!TxLcores :
          (nf >= Start!TxRange(j - 1, Start!TxLcores).first /\ nf < Start!TxRange(j - 1, Start!TxLcores).last) <=> j = k
  <2>1. Start!TxLcores \in Nat \ {0} /\ MAX_NFS \in Nat \ {0}
    BY <1>1, <1>2 DEF Start!Configuration
  <2>2. QED
    BY <2>1, OneShare, Zenon
<1>4. Start!Of("tx") = 1 .. Start!TxLcores
  BY <1>2 DEF Start!Of
<1>5. ASSUME NEW j \in 1 .. Start!TxLcores
      PROVE  /\ v9[j].first = Start!TxRange(j - 1, Start!TxLcores).first
             /\ v9[j].last = Start!TxRange(j - 1, Start!TxLcores).last
  <2>1. j \in 1 .. Len(v9)
    BY <1>2
  <2>2. v9[j] = WorkerOf(j) /\ v9[j].kind = "tx"
    BY <1>2, <2>1
  <2>3. Start!Plan[j] = "tx"
    BY <2>2 DEF WorkerOf
  <2>4. QED
    BY <2>2, <2>3 DEF WorkerOf
<1>6. Start!Owners("tx", nf) = {k}
  <2>1. \A j \in 1 .. Start!TxLcores : (nf >= v9[j].first /\ nf < v9[j].last) <=> j = k
    BY <1>3, <1>5
  <2>2. QED
    BY <1>3, <1>4, <2>1 DEF Start!Owners
<1>7. QED
  BY <1>6, FS_Singleton

\* In shared core mode the wakeup thread watches all.
LEMMA SleepersFollow ==
    ASSUME Start!Configuration, StartInv
    PROVE  Start!SleepersWatched
<1>1. SUFFICES ASSUME v1 \in {"running", "stopping"}, v8, NEW nf \in 1 .. (MAX_NFS - 1)
               PROVE  Cardinality(Start!Owners("wakeup", nf)) = 1
  BY StartSize DEF Start!SleepersWatched
<1>2. /\ Start!TxLcores \in Nat /\ DOMAIN v9 = 1 .. Len(v9) /\ Len(v9) = Start!TxLcores + 2
      /\ \A i \in 1 .. Len(v9) :
             /\ v9[i] = WorkerOf(i)
             /\ v9[i].kind = IF i <= Start!TxLcores THEN "tx"
                                  ELSE IF i = Start!TxLcores + 1 THEN "rx" ELSE "wakeup"
  BY <1>1, WorkersAre
<1>3. PICK k : k = Start!TxLcores + 2 /\ k \in 1 .. Len(v9)
  BY <1>2
<1>4. Start!Of("wakeup") = {k}
  <2>1. \A i \in 1 .. Len(v9) : v9[i].kind = "wakeup" <=> i = k
    BY <1>2, <1>3
  <2>2. QED
    BY <1>2, <1>3, <2>1 DEF Start!Of
<1>5. v9[k].first = Start!Min(1, MAX_NFS) /\ v9[k].last = Start!Min(MAX_NFS + 1, MAX_NFS)
  <2>1. v9[k] = WorkerOf(k) /\ v9[k].kind = "wakeup"
    BY <1>2, <1>3
  <2>2. Start!Plan[k] = "wakeup"
    BY <2>1 DEF WorkerOf
  <2>3. k - 1 - Start!TxLcores - Start!NumRx = 0
    BY <1>2, <1>3 DEF Start!NumRx
  <2>4. v9[k].first = Start!WakeupRange(0, 1).first /\ v9[k].last = Start!WakeupRange(0, 1).last
    BY <2>1, <2>2, <2>3 DEF WorkerOf, Start!Configuration
  <2>5. 0 * (MAX_NFS \div 1) + 1 = 1 /\ (0 + 1) * (MAX_NFS \div 1) + 1 = MAX_NFS + 1
    BY DEF Start!Configuration
  <2>6. QED
    BY <2>4, <2>5 DEF Start!WakeupRange
<1>6. nf >= v9[k].first /\ nf < v9[k].last
  BY <1>5 DEF Start!Min, Start!Configuration
<1>7. Start!Owners("wakeup", nf) = {k}
  BY <1>4, <1>6 DEF Start!Owners
<1>8. QED
  BY <1>7, FS_Singleton

\* A launch finds an lcore.
LEMMA LcoresFollow ==
    ASSUME Start!Configuration, StartInv
    PROVE  Start!LcoresSuffice
<1>1. SUFFICES ASSUME v1 = "launch", Len(v9) < Len(Start!Plan)
               PROVE  Start!NextLcore(Len(v9) + 1) \in
                          (1 .. (v2 - 1)) \ {v9[i].lcore : i \in DOMAIN v9}
  BY DEF Start!LcoresSuffice
<1>2. /\ v2 \in Nat /\ Len(v9) \in Nat /\ Len(Start!Plan) = v2 - 1
      /\ DOMAIN v9 = 1 .. Len(v9) /\ \A i \in 1 .. Len(v9) : v9[i].lcore = i
  BY <1>1, WorkersAre
<1>3. Len(v9) + 1 \in 1 .. (v2 - 1)
  BY <1>1, <1>2
<1>4. Start!NextLcore(Len(v9) + 1) = Len(v9) + 1
  BY <1>2, <1>3, NextLcoreIs
<1>5. QED
  BY <1>2, <1>3, <1>4

\* The list of the ports is what has been started.
LEMMA PortsFollow ==
    ASSUME StartInv
    PROVE  Start!PortsStartedOnce
<1>1. SUFFICES ASSUME v1 \in {"running", "stopping"}
               PROVE  /\ v4 = v3
                      /\ \A i, j \in DOMAIN v4 : v4[i] = v4[j] => i = j
  BY DEF Start!PortsStartedOnce
<1>2. PortsInv /\ Len(v4) = Len(v3)
  BY <1>1 DEF StartInv, PortsInv
<1>3. QED
  BY <1>2 DEF PortsInv

\* In every behaviour that is about the start of the DPDK manager each instance ID is polled
\* by exactly one TX thread and, in shared core mode, watched by exactly one wakeup thread,
\* whatever the number of lcores and of NFs; no launch finds its lcore busy; and every
\* port of the list was started once (main, init, parse_portmask).
THEOREM ThreadsCover == SafeAll => []ThreadsCoverNfs
<1> DEFINE Inv == which = "start" => StartInv
<1>1. InitAll => Inv
  BY StartAssumption, StartInit DEF InitAll
<1>2. Inv /\ [NextAll]_all => Inv'
  <2>1. SUFFICES ASSUME Inv, [NextAll]_all, which' = "start" PROVE StartInv'
    OBVIOUS
  <2>2. which = "start" /\ (Start!Next \/ UNCHANGED Start!vars)
    BY <2>1 DEF NextAll, Others, all, parts, Start!vars
  <2>3. [Start!Next]_(Start!vars)
    BY <2>2
  <2>4. QED
    BY <2>1, <2>2, <2>3, StartAssumption, StartStep
<1>3. Inv => ThreadsCoverNfs
  BY PartitionFollows, SleepersFollow, LcoresFollow, PortsFollow, StartAssumption DEF ThreadsCoverNfs
<1>4. QED
  BY <1>1, <1>2, <1>3, PTL DEF SafeAll

-----------------------------------------------------------------------------
(* The configuration of the AF_XDP manager: v1 is struct afxdp_config, v3    *)
(* the place in the checks, v4 the NIC, v6 and v7 the maps of the XDP        *)
(* program, v8 the packets it has seen.                                      *)

\* The places after the driver, the flags and the zero-copy check, and all that are
\* before the program runs.
PastDriver == {"queue", "object", "kernel", "flags", "zerocopy", "load", "running"}
PastFlags  == {"zerocopy", "load", "running"}
PastZero   == {"load", "running"}
SetupPlace == {"args", "state", "driver", "exited", "failed"} \cup PastDriver

\* What the options and the checks leave behind, at each place.  A check may be out of
\* date: the machine changes, but only the loss of the NIC changes the driver.
SetupCfg ==
    /\ v3 \in SetupPlace
    /\ v1.bind \subseteq {"copy", "zerocopy"}
    /\ v3 = "args" => v1.obj # "default" /\ v1.prog # "default" /\ (v1.custom => v1.obj = "own")
    /\ v1.obj = "default" <=> v1.prog = "default"
    /\ v3 \in PastDriver /\ v1.mode = "native" /\ v4.there => v4.driver = "native"
    /\ v3 \in PastFlags => ~({"copy", "zerocopy"} \subseteq v1.bind)
    /\ v3 \in PastZero => ~("zerocopy" \in v1.bind /\ v1.mode = "skb")
    /\ v3 = "running" => v4.there

\* Each field of the configuration can be read.
SetupTypes ==
    /\ v1 = [ifname |-> v1.ifname, mode |-> v1.mode, bind |-> v1.bind, queue |-> v1.queue,
             obj |-> v1.obj, prog |-> v1.prog, custom |-> v1.custom]
    /\ v1.custom \in BOOLEAN
    /\ v4 = [there |-> v4.there, driver |-> v4.driver, queues |-> v4.queues, kernel |-> v4.kernel]
    /\ v4.there \in BOOLEAN

LEMMA SetupCfgStep ==
    ASSUME SetupTypes, SetupCfg, Setup!Next
    PROVE  SetupTypes' /\ SetupCfg'
<1> USE DEF SetupPlace, PastDriver, PastFlags, PastZero
<1>1. CASE Setup!Option
  <2>0. v3 = "args" /\ v3' = v3 /\ v4' = v4
    BY <1>1 DEF Setup!Option
  <2>1. CASE v1' = [v1 EXCEPT !.mode = "skb", !.bind = @ \cup {"copy"}]
    BY <2>0, <2>1 DEF SetupTypes, SetupCfg
  <2>2. CASE v1' = [v1 EXCEPT !.mode = "native"]
    BY <2>0, <2>2 DEF SetupTypes, SetupCfg
  <2>3. ASSUME NEW b \in {"copy", "zerocopy"}, v1' = [v1 EXCEPT !.bind = @ \cup {b}]
        PROVE  SetupTypes' /\ SetupCfg'
    BY <2>0, <2>3 DEF SetupTypes, SetupCfg
  <2>4. ASSUME NEW q \in Queues, v1' = [v1 EXCEPT !.queue = q]
        PROVE  SetupTypes' /\ SetupCfg'
    BY <2>0, <2>4 DEF SetupTypes, SetupCfg
  <2>5. CASE v1' = [v1 EXCEPT !.obj = "own", !.custom = TRUE]
    BY <2>0, <2>5 DEF SetupTypes, SetupCfg
  <2>6. CASE v1' = [v1 EXCEPT !.prog = "own"]
    BY <2>0, <2>6 DEF SetupTypes, SetupCfg
  <2>7. ASSUME NEW n \in {"eth0", "none"}, v1' = [v1 EXCEPT !.ifname = n]
        PROVE  SetupTypes' /\ SetupCfg'
    BY <2>0, <2>7 DEF SetupTypes, SetupCfg
  <2>8. QED
    BY <1>1, <2>1, <2>2, <2>3, <2>4, <2>5, <2>6, <2>7 DEF Setup!Option
<1>2. CASE Setup!ArgsDone
  <2>1. v3 = "args" /\ v4' = v4
    BY <1>2 DEF Setup!ArgsDone
  <2>2. CASE v1.ifname = "none"
    BY <1>2, <2>1, <2>2 DEF Setup!ArgsDone, SetupTypes, SetupCfg
  <2>3. CASE v1.ifname # "none" /\ v1.custom
    <3>1. v1' = [v1 EXCEPT !.custom = TRUE] /\ v3' = "state"
      BY <1>2, <2>3 DEF Setup!ArgsDone, Setup!WithProgram
    <3>2. QED
      BY <2>1, <2>3, <3>1 DEF SetupTypes, SetupCfg
  <2>4. CASE v1.ifname # "none" /\ ~v1.custom
    <3>1. v3' = "state" /\ v1' = [[v1 EXCEPT !.obj = "default", !.prog = "default"] EXCEPT !.custom = TRUE]
      BY <1>2, <2>4 DEF Setup!ArgsDone, Setup!WithProgram
    <3>2. PICK c : c = [v1 EXCEPT !.obj = "default", !.prog = "default"]
      OBVIOUS
    <3>3. c = [ifname |-> v1.ifname, mode |-> v1.mode, bind |-> v1.bind, queue |-> v1.queue,
               obj |-> "default", prog |-> "default", custom |-> v1.custom]
      BY <3>2 DEF SetupTypes
    <3>4. v1' = [ifname |-> v1.ifname, mode |-> v1.mode, bind |-> v1.bind, queue |-> v1.queue,
                 obj |-> "default", prog |-> "default", custom |-> TRUE]
      BY <3>1, <3>2, <3>3
    <3>5. QED
      BY <2>1, <2>4, <3>1, <3>4 DEF SetupTypes, SetupCfg
  <2>5. QED
    BY <2>2, <2>3, <2>4
<1>4. CASE Setup!CheckState
  BY <1>4 DEF Setup!CheckState, Setup!Check, SetupTypes, SetupCfg
<1>5. CASE Setup!CheckDriver
  BY <1>5 DEF Setup!CheckDriver, Setup!Check, SetupTypes, SetupCfg
<1>6. CASE Setup!CheckQueue
  BY <1>6 DEF Setup!CheckQueue, Setup!Check, SetupTypes, SetupCfg
<1>7. CASE Setup!CheckObject
  BY <1>7 DEF Setup!CheckObject, Setup!Check, SetupTypes, SetupCfg
<1>8. CASE Setup!CheckKernel
  BY <1>8 DEF Setup!CheckKernel, Setup!Check, SetupTypes, SetupCfg
<1>9. CASE Setup!CheckFlags
  BY <1>9 DEF Setup!CheckFlags, Setup!Check, SetupTypes, SetupCfg
<1>10. CASE Setup!CheckZero
  BY <1>10 DEF Setup!CheckZero, Setup!Check, SetupTypes, SetupCfg
<1>11. CASE Setup!Load
  BY <1>11 DEF Setup!Load, SetupTypes, SetupCfg
<1>12. CASE Setup!MachineChanges
  <2>1. v1' = v1 /\ v3' = v3 /\ v3 # "running"
    BY <1>12 DEF Setup!MachineChanges
  <2>2. v4' = [there |-> FALSE, driver |-> "other", queues |-> 0, kernel |-> v4.kernel] \/ v4' = v4
        \/ v4' = [v4 EXCEPT !.queues = 1]
    BY <1>12 DEF Setup!MachineChanges, Setup!Gone
  <2>3. /\ v4' = [there |-> v4'.there, driver |-> v4'.driver, queues |-> v4'.queues, kernel |-> v4'.kernel]
        /\ v4'.there \in BOOLEAN /\ (v4'.there => v4.there /\ v4'.driver = v4.driver)
    <3>1. CASE v4' = [there |-> FALSE, driver |-> "other", queues |-> 0, kernel |-> v4.kernel]
      BY <3>1
    <3>2. CASE v4' = v4
      BY <3>2 DEF SetupTypes
    <3>3. CASE v4' = [v4 EXCEPT !.queues = 1]
      BY <3>3 DEF SetupTypes
    <3>4. QED
      BY <2>2, <3>1, <3>2, <3>3
  <2>4. SetupTypes'
    BY <2>1, <2>3 DEF SetupTypes
  <2>5. SetupCfg'
    BY <2>1, <2>3 DEF SetupCfg
  <2>6. QED
    BY <2>4, <2>5
<1>13. ASSUME NEW p \in Setup!Packet, NEW q \in {0, 1}, Setup!xdp_sock_prog(p, q)
       PROVE  SetupTypes' /\ SetupCfg'
  BY <1>13 DEF Setup!xdp_sock_prog, SetupTypes, SetupCfg
<1>14. QED
  BY <1>1, <1>2, <1>4, <1>5, <1>6, <1>7, <1>8, <1>9, <1>10, <1>11, <1>12, <1>13 DEF Setup!Next

Seen == [p : Setup!Packet, q : {0, 1}, to : {"host", "socket"}]
ToSocket(s) == {i \in 1 .. Len(s) : s[i].to = "socket"}

\* The socket is entered in the map for the queue it is bound to, and what went to it
\* was not for the host and has been counted.
SetupHost ==
    /\ v7 \in [0 .. MaxEntries - 1 -> Nat] /\ v8 \in Seq(Seen)
    /\ v3 # "running" => v6 = {} /\ v8 = <<>>
    /\ v6 \subseteq {v1.queue} \cap (0 .. MaxEntries - 1)
    /\ \A i \in 1 .. Len(v8) :
          v8[i].to = "socket" => v8[i].q = v1.queue /\ ~Setup!Passed(v8[i].p)
    /\ Cardinality(ToSocket(v8)) <= v7[0] + v7[1]

\* One more packet is at most one more for the socket.
LEMMA SocketMore ==
    ASSUME NEW s \in Seq(Seen), NEW r \in Seen
    PROVE  /\ Cardinality(ToSocket(s)) \in Nat
           /\ r.to = "host" => ToSocket(Append(s, r)) = ToSocket(s)
           /\ Cardinality(ToSocket(Append(s, r))) <= Cardinality(ToSocket(s)) + 1
<1>1. PICK n \in Nat : n = Len(s)
  OBVIOUS
<1>2. PICK t : t = Append(s, r)
  OBVIOUS
<1>3. Len(t) = n + 1 /\ t[n + 1] = r /\ \A i \in 1 .. n : t[i] = s[i]
  BY <1>1, <1>2, AppendProperties
<1>4. 1 .. n + 1 = (1 .. n) \cup {n + 1}
  BY <1>1
<1>5. ToSocket(t) = ToSocket(s) \cup (IF r.to = "socket" THEN {n + 1} ELSE {})
  BY <1>1, <1>3, <1>4 DEF ToSocket
<1>6. IsFiniteSet(ToSocket(s)) /\ Cardinality(ToSocket(s)) \in Nat
  <2>1. IsFiniteSet(1 .. n)
    BY <1>1, FS_Interval, 1 \in Int, n \in Int
  <2>2. ToSocket(s) \subseteq 1 .. n
    BY <1>1 DEF ToSocket
  <2>3. QED
    BY <2>1, <2>2, FS_Subset, FS_CardinalityType
<1>7. Cardinality(ToSocket(s) \cup {n + 1}) = Cardinality(ToSocket(s)) + 1
  <2>1. n + 1 \notin ToSocket(s)
    BY <1>1 DEF ToSocket
  <2>2. QED
    BY <1>6, <2>1, FS_AddElement
<1>8. /\ r.to = "socket" => ToSocket(t) = ToSocket(s) \cup {n + 1}
      /\ r.to # "socket" => ToSocket(t) = ToSocket(s)
  BY <1>5
<1>9. Cardinality(ToSocket(t)) <= Cardinality(ToSocket(s)) + 1
  <2>1. CASE r.to = "socket"
    <3>1. Cardinality(ToSocket(t)) = Cardinality(ToSocket(s)) + 1
      BY <1>7, <1>8, <2>1, Zenon
    <3>2. QED
      BY <1>6, <3>1
  <2>2. CASE r.to # "socket"
    BY <1>6, <1>8, <2>2
  <2>3. QED
    BY <2>1, <2>2
<1>10. QED
  BY <1>2, <1>6, <1>8, <1>9

LEMMA SetupHostStep ==
    ASSUME SetupTypes, SetupCfg, SetupHost, Setup!Next
    PROVE  SetupHost'
<1>0. v7 \in [0 .. MaxEntries - 1 -> Nat] /\ v8 \in Seq(Seen)
  BY DEF SetupHost
<1>1. ASSUME v3 # "running", v3' # "running", v6' = v6, v7' = v7, v8' = v8 PROVE SetupHost'
  BY <1>1 DEF SetupHost, ToSocket
<1>2. CASE Setup!Option
  BY <1>1, <1>2 DEF Setup!Option
<1>3. CASE Setup!ArgsDone
  BY <1>1, <1>3 DEF Setup!ArgsDone
<1>4. CASE Setup!CheckState \/ Setup!CheckDriver \/ Setup!CheckQueue \/ Setup!CheckObject
           \/ Setup!CheckKernel \/ Setup!CheckFlags \/ Setup!CheckZero
  BY <1>1, <1>4 DEF Setup!CheckState, Setup!CheckDriver, Setup!CheckQueue, Setup!CheckObject,
       Setup!CheckKernel, Setup!CheckFlags, Setup!CheckZero, Setup!Check
<1>5. CASE Setup!MachineChanges
  BY <1>1, <1>5 DEF Setup!MachineChanges
<1>6. CASE Setup!Load
  <2>1. v3 = "load" /\ v7' = v7 /\ v8' = v8 /\ v1' = v1
    BY <1>6 DEF Setup!Load
  <2>2. v8 = <<>> /\ v6 = {}
    BY <2>1 DEF SetupHost
  <2>3. (v3' = "running" /\ v6' = {v1.queue} /\ v1.queue \in DOMAIN v7) \/ v6' = v6
    BY <1>6 DEF Setup!Load
  <2>4. v6' \subseteq {v1.queue} \cap (0 .. MaxEntries - 1) /\ (v3' # "running" => v6' = {})
    BY <1>0, <1>6, <2>2, <2>3 DEF Setup!Load
  <2>5. QED
    BY <2>1, <2>2, <2>4 DEF SetupHost, ToSocket
<1>7. ASSUME NEW p \in Setup!Packet, NEW q \in {0, 1}, Setup!xdp_sock_prog(p, q)
      PROVE  SetupHost'
  <2>0. /\ v3 = "running" /\ v3' = v3 /\ v1' = v1 /\ v6' = v6
        /\ v6 \subseteq {v1.queue} \cap (0 .. MaxEntries - 1)
    BY <1>7 DEF Setup!xdp_sock_prog, SetupHost
  <2>1. PICK r \in Seen :
           /\ v8' = Append(v8, r) /\ r.p = p /\ r.q = q
           /\ \/ r.to = "host" /\ v7' = v7
              \/ r.to = "host" /\ q \in DOMAIN v7 /\ v7' = [v7 EXCEPT ![q] = @ + 1]
              \/ /\ r.to = "socket" /\ q \in v6 /\ ~Setup!Passed(p)
                 /\ q \in DOMAIN v7 /\ v7' = [v7 EXCEPT ![q] = @ + 1]
    <3>1. CASE Setup!Passed(p)
      <4>1. PICK r \in Seen : r = [p |-> p, q |-> q, to |-> "host"]
        BY DEF Seen
      <4>2. v8' = Append(v8, r) /\ v7' = v7
        BY <1>7, <3>1, <4>1 DEF Setup!xdp_sock_prog
      <4>3. QED
        BY <4>1, <4>2
    <3>2. CASE ~Setup!Passed(p)
      <4>0. PICK w \in {"host", "socket"} : w = IF q \in v6 THEN "socket" ELSE "host"
        OBVIOUS
      <4>1. PICK r \in Seen : r = [p |-> p, q |-> q, to |-> w]
        BY DEF Seen
      <4>2. /\ v8' = Append(v8, r)
            /\ v7' = IF q \in DOMAIN v7 THEN [v7 EXCEPT ![q] = @ + 1] ELSE v7
        BY <1>7, <3>2, <4>0, <4>1 DEF Setup!xdp_sock_prog
      <4>3. q \in v6 => q \in DOMAIN v7
        BY <1>0, <2>0
      <4>4. QED
        BY <3>2, <4>0, <4>1, <4>2, <4>3
    <3>3. QED
      BY <3>1, <3>2
  <2>2. PICK a \in Nat : a = v7[0]
    BY <1>0, SetupAssumption
  <2>3. PICK b \in Nat : b = v7[1]
    BY <1>0, SetupAssumption
  <2>4. /\ v7' \in [0 .. MaxEntries - 1 -> Nat]
        /\ v7'[0] + v7'[1] \in Nat
        /\ v7'[0] + v7'[1] >= a + b
        /\ v7' # v7 => v7'[0] + v7'[1] = a + b + 1
    <3>1. CASE v7' = v7
      BY <1>0, <2>2, <2>3, <3>1
    <3>2. CASE q \in DOMAIN v7 /\ v7' = [v7 EXCEPT ![q] = @ + 1]
      <4>1. 0 \in 0 .. MaxEntries - 1 /\ 1 \in 0 .. MaxEntries - 1 /\ q \in 0 .. MaxEntries - 1
        BY <1>0, <3>2, SetupAssumption
      <4>2. v7[q] + 1 \in Nat
        BY <1>0, <4>1
      <4>3. v7' \in [0 .. MaxEntries - 1 -> Nat] /\ v7'[q] = v7[q] + 1 /\ v7'[1 - q] = v7[1 - q]
        BY <1>0, <3>2, <4>1, <4>2
      <4>4. CASE q = 0
        BY <2>2, <2>3, <4>3, <4>4
      <4>5. CASE q = 1
        BY <2>2, <2>3, <4>3, <4>5
      <4>6. QED
        BY <4>4, <4>5
    <3>3. QED
      BY <2>1, <3>1, <3>2
  <2>5. v7' = [v7 EXCEPT ![q] = @ + 1] /\ q \in DOMAIN v7 => v7' # v7
    BY <1>0
  <2>6. PICK k \in Nat : k = Cardinality(ToSocket(v8)) /\ k <= a + b
    BY <1>0, <2>1, <2>2, <2>3, SocketMore DEF SetupHost
  <2>7. Cardinality(ToSocket(v8')) <= v7'[0] + v7'[1]
    <3>1. CASE r.to = "host"
      <4>1. ToSocket(v8') = ToSocket(v8)
        BY <1>0, <2>1, <3>1, SocketMore
      <4>2. QED
        BY <2>4, <2>6, <4>1
    <3>2. CASE r.to = "socket"
      <4>1. v7'[0] + v7'[1] = a + b + 1
        BY <2>1, <2>4, <2>5, <3>2
      <4>2. Cardinality(ToSocket(v8')) \in Nat /\ Cardinality(ToSocket(v8')) <= k + 1
        <5>1. v8' \in Seq(Seen)
          BY <1>0, <2>1, AppendProperties
        <5>2. QED
          BY <1>0, <2>1, <2>6, <5>1, SocketMore
      <4>3. QED
        BY <2>6, <4>1, <4>2
    <3>3. QED
      BY <3>1, <3>2 DEF Seen
  <2>8. ASSUME NEW i \in 1 .. Len(v8'), v8'[i].to = "socket"
        PROVE  v8'[i].q = v1.queue /\ ~Setup!Passed(v8'[i].p)
    <3>1. CASE i \in 1 .. Len(v8)
      <4>1. v8'[i] = v8[i]
        BY <1>0, <2>1, <3>1, AppendProperties
      <4>2. QED
        BY <2>8, <3>1, <4>1 DEF SetupHost
    <3>2. CASE i \notin 1 .. Len(v8)
      <4>1. i = Len(v8) + 1 /\ v8'[i] = r
        BY <1>0, <2>1, <3>2, AppendProperties
      <4>2. QED
        BY <2>0, <2>1, <2>8, <4>1
    <3>3. QED
      BY <3>1, <3>2
  <2>9. v8' \in Seq(Seen)
    BY <1>0, <2>1, AppendProperties
  <2>10. QED
    BY <2>0, <2>4, <2>7, <2>8, <2>9 DEF SetupHost, ToSocket
<1>8. QED
  BY <1>2, <1>3, <1>4, <1>5, <1>6, <1>7 DEF Setup!Next

\* What holds of the configuration and of the program that is loaded.
SetupInv == SetupTypes /\ SetupCfg /\ SetupHost

LEMMA SetupInit == ASSUME Setup!Init PROVE SetupInv
<1>0. v3 = "args" /\ v6 = {} /\ v7 = [q \in 0 .. MaxEntries - 1 |-> 0] /\ v8 = <<>>
  BY DEF Setup!Init
<1>1. SetupTypes
  BY DEF Setup!Init, Setup!Defaults, Setup!Nic, SetupTypes
<1>2. SetupCfg
  BY DEF Setup!Init, Setup!Defaults, SetupCfg, SetupPlace, PastDriver, PastFlags, PastZero
<1>3. ToSocket(v8) = {} /\ Cardinality(ToSocket(v8)) = 0
  <2>1. ToSocket(v8) = {}
    BY <1>0 DEF ToSocket
  <2>2. QED
    BY <2>1, FS_EmptySet
<1>4. v7[0] = 0 /\ v7[1] = 0
  BY <1>0, SetupAssumption
<1>5. SetupHost
  BY <1>0, <1>3, <1>4 DEF SetupHost
<1>6. QED
  BY <1>1, <1>2, <1>5 DEF SetupInv

LEMMA SetupStep == ASSUME SetupInv, [Setup!Next]_(Setup!vars) PROVE SetupInv'
<1>1. CASE Setup!Next
  BY <1>1, SetupCfgStep, SetupHostStep DEF SetupInv
<1>2. CASE UNCHANGED Setup!vars
  BY <1>2 DEF Setup!vars, SetupInv, SetupTypes, SetupCfg, SetupHost, ToSocket
<1>3. QED
  BY <1>1, <1>2

\* The invariant is what the run checks.
LEMMA SetupChecked == ASSUME SetupInv PROVE Setup!LoadsCoherent /\ Setup!HostKeepsItsOwn
<1>1. Setup!LoadsCoherent
  BY DEF SetupInv, SetupCfg, PastDriver, PastFlags, PastZero, Setup!LoadsCoherent
<1>2. v8 \in Seq(Seen) /\ DOMAIN v8 = 1 .. Len(v8)
  BY DEF SetupInv, SetupHost
<1>3. Setup!Cardinality(ToSocket(v8)) = Cardinality(ToSocket(v8))
  BY DEF Setup!Cardinality, Cardinality
<1>4. {i \in DOMAIN v8 : v8[i].to = "socket"} = ToSocket(v8)
  BY <1>2 DEF ToSocket
<1>5. ASSUME NEW i \in DOMAIN v8, v8[i].to = "socket"
      PROVE  LET r == v8[i] IN
             /\ r.q = v1.queue /\ r.p.proto # "arp" /\ r.p.cut # "eth"
             /\ (r.p.proto = "ip" => r.p.cut # "ip" /\ (r.p.l4 = "tcp" => r.p.cut = "whole"))
  <2>1. v8[i] \in Seen /\ v8[i].q = v1.queue /\ ~Setup!Passed(v8[i].p)
    BY <1>2, <1>5 DEF SetupInv, SetupHost
  <2>2. v8[i].p \in Setup!Packet
    BY <2>1 DEF Seen
  <2>3. QED
    BY <2>1, <2>2 DEF Setup!Packet, Setup!Passed
<1>6. QED
  BY <1>1, <1>3, <1>4, <1>5 DEF Setup!HostKeepsItsOwn, SetupInv, SetupHost

\* For any options in any order, on a machine that changes while the manager starts: what
\* is loaded is coherent, the host keeps ARP, truncated packets and other queues, and
\* what the socket gets is counted.
THEOREM SetupCoherent == SafeAll => []SetupSound
<1> DEFINE Inv == which = "setup" => SetupInv
<1>1. InitAll => Inv
  BY SetupInit DEF InitAll
<1>2. Inv /\ [NextAll]_all => Inv'
  <2>1. SUFFICES ASSUME Inv, [NextAll]_all PROVE Inv'
    OBVIOUS
  <2>2. which' = which
    BY <2>1 DEF NextAll, Others, all
  <2>3. CASE which = "setup"
    <3>1. [Setup!Next]_(Setup!vars)
      BY <2>1, <2>3 DEF NextAll, Others, all, parts, Setup!vars
    <3>2. QED
      BY <2>1, <2>2, <2>3, <3>1, SetupStep
  <2>4. QED
    BY <2>2, <2>3
<1>3. Inv => SetupSound
  BY SetupChecked DEF SetupSound
<1>4. QED
  BY <1>1, <1>2, <1>3, PTL DEF SafeAll

-----------------------------------------------------------------------------
(* The statistics: v1 is the status of the rows, v2 the counters, v3 what    *)
(* was saved of them, v4 the display, v5 the totals of the services, v6 what *)
(* was printed for the NFs, v7 the rates shown, v8 the packets missed, v9    *)
(* the counters whose saved value is of an earlier NF.                       *)

Counters == {"rx", "drop"}
AllRows  == Ports \cup Nfs
OfService(s) == {i \in Nfs : ServiceOf[i] = s}

StatsTypes ==
    /\ v2 \in [AllRows -> [Counters -> Nat]] /\ v3 \in [AllRows -> [Counters -> Nat]]
    /\ v7 \in [AllRows -> [Counters -> Int]] /\ v8 \in [AllRows -> [Counters -> Nat]]
    /\ v9 \in [AllRows -> SUBSET Counters]
    /\ v5 \in [{ServiceOf[i] : i \in Nfs} -> Int] /\ v6 \in [Nfs -> Nat]
    /\ v4.at \in {"idle", "totals", "read", "save"}
    /\ v4.at \in {"read", "save"} => v4.row \in AllRows
    /\ v4.at = "save" => v4.seen \in [Counters -> Nat] /\ v4.diff \in [Counters -> Int]

\* A saved value of an earlier NF has nothing to do with what was shown; any other is
\* at most the counter, and the sum of what was shown and missed.  The row that is
\* being printed is between the two.
RowKept(i, f) ==
    /\ f \in v9[i] => i \in Nfs /\ v7[i][f] = 0 /\ v8[i][f] = 0
    /\ f \notin v9[i] /\ ~(v4.at = "save" /\ v4.row = i) =>
          v3[i][f] <= v2[i][f] /\ v7[i][f] + v8[i][f] = v3[i][f]

\* The row that is being printed: what was shown and missed is what will be saved.
PrintedKept(i, f) ==
    /\ f \notin v9[i] /\ v4.seen[f] <= v2[i][f]
    /\ v7[i][f] + v8[i][f] = IF i \in Nfs /\ f = "rx" THEN v2[i][f] ELSE v4.seen[f]
    /\ v4.diff[f] < 0 => f \in v4.stale

\* The totals are those of the lines so far; the NFs ahead have none.
TotalsKept ==
    /\ \A s \in {ServiceOf[i] : i \in Nfs} : v5[s] = SumOver(OfService(s), v6)
    /\ v4.at = "read" => \A i \in Nfs : i >= v4.row => v6[i] = 0
    /\ v4.at = "save" => \A i \in Nfs : i > v4.row => v6[i] = 0

StatsRows ==
    /\ \A i \in AllRows, f \in Counters : RowKept(i, f)
    /\ v4.at = "save" => \A f \in Counters : PrintedKept(v4.row, f)

StatsInv == StatsTypes /\ StatsRows /\ TotalsKept

\* The next row of the display is one further down.
LEMMA NextRow ==
    ASSUME NEW n \in Int, NEW d, d = Display!Goto(n)
    PROVE  d = [at |-> "totals"] \/ \E r \in AllRows : r >= n /\ d = [at |-> "read", row |-> r]
<1>1. CASE Display!RowsFrom(n) = {}
  BY <1>1 DEF Display!Goto
<1>2. CASE Display!RowsFrom(n) # {}
  <2>1. PICK S : S = Display!RowsFrom(n)
    OBVIOUS
  <2>2. S \subseteq AllRows /\ S \in SUBSET Nat /\ S # {} /\ \A r \in S : r >= n
    BY <1>2, <2>1, StatsAssumption DEF Display!RowsFrom, Display!Row, AllRows
  <2>3. \E x \in S : \A y \in S : x <= y
    BY <2>2, LeastNat
  <2>4. Display!Min(S) \in S
    BY <2>3 DEF Display!Min
  <2>5. d = [at |-> "read", row |-> Display!Min(S)]
    BY <1>2, <2>1 DEF Display!Goto
  <2>6. QED
    BY <2>2, <2>4, <2>5
<1>3. QED
  BY <1>1, <1>2

\* A packet is counted.
LEMMA StatsCount ==
    ASSUME StatsTypes, StatsRows, NEW i \in AllRows, NEW f \in Counters, Display!Count(i, f)
    PROVE  StatsTypes' /\ StatsRows'
<1>1. /\ v2' = [v2 EXCEPT ![i][f] = @ + 1]
      /\ v1' = v1 /\ v3' = v3 /\ v4' = v4 /\ v5' = v5 /\ v6' = v6 /\ v7' = v7 /\ v9' = v9
      /\ v8' = IF v4.at = "save" /\ v4.row = i /\ i \in Nfs /\ f = "rx"
               THEN [v8 EXCEPT ![i][f] = @ + 1] ELSE v8
  BY DEF Display!Count
<1>2. /\ v2 \in [AllRows -> [Counters -> Nat]] /\ v3 \in [AllRows -> [Counters -> Nat]]
      /\ v7 \in [AllRows -> [Counters -> Int]] /\ v8 \in [AllRows -> [Counters -> Nat]]
  BY DEF StatsTypes
<1>3. v2' \in [AllRows -> [Counters -> Nat]] /\ v8' \in [AllRows -> [Counters -> Nat]]
  BY <1>1, <1>2
<1>4. StatsTypes'
  BY <1>1, <1>3 DEF StatsTypes
<1>5. \A j \in AllRows, g \in Counters :
         v2'[j][g] = IF j = i /\ g = f THEN v2[j][g] + 1 ELSE v2[j][g]
  BY <1>1, <1>2
<1>6. \A j \in AllRows, g \in Counters :
         v8'[j][g] = IF j = i /\ g = f /\ v4.at = "save" /\ v4.row = i /\ i \in Nfs /\ f = "rx"
                     THEN v8[j][g] + 1 ELSE v8[j][g]
  BY <1>1, <1>2
<1>7. ASSUME NEW j \in AllRows, NEW g \in Counters PROVE RowKept(j, g)'
  <2>1. RowKept(j, g)
    BY DEF StatsRows
  <2>2. /\ v2[j][g] \in Nat /\ v3[j][g] \in Nat /\ v2'[j][g] \in Nat /\ v2'[j][g] >= v2[j][g]
        /\ (v4.at = "save" /\ v4.row = j) \/ v8'[j][g] = v8[j][g]
    BY <1>2, <1>5, <1>6
  <2>3. v9[j] # {} /\ v4.at = "save" => v4.row # j
    BY DEF StatsRows, PrintedKept, StatsTypes
  <2>4. QED
    BY <1>1, <2>1, <2>2, <2>3 DEF RowKept
<1>8. ASSUME v4.at = "save", NEW g \in Counters PROVE PrintedKept(v4.row, g)'
  <2>1. PICK r \in AllRows : r = v4.row
    BY <1>8 DEF StatsTypes
  <2>2. PrintedKept(r, g)
    BY <1>8, <2>1 DEF StatsRows
  <2>3. v2[r][g] \in Nat /\ v8[r][g] \in Nat /\ v7[r][g] \in Int /\ v4.seen[g] \in Nat
    BY <1>2, <1>8 DEF StatsTypes
  <2>4. CASE r = i /\ g = f
    BY <1>1, <1>5, <1>6, <1>8, <2>1, <2>2, <2>3, <2>4 DEF PrintedKept
  <2>5. CASE ~(r = i /\ g = f)
    BY <1>1, <1>5, <1>6, <1>8, <2>1, <2>2, <2>5 DEF PrintedKept
  <2>6. QED
    BY <2>4, <2>5
<1>9. QED
  BY <1>1, <1>4, <1>7, <1>8 DEF StatsRows

\* An NF is stopped between two displays and its counters are cleared.
LEMMA StatsStop ==
    ASSUME StatsTypes, StatsRows, NEW i \in Nfs, Display!Stop(i)
    PROVE  StatsTypes' /\ StatsRows'
<1>1. /\ v2' = [v2 EXCEPT ![i] = Display!Zero] /\ v7' = [v7 EXCEPT ![i] = Display!Zero]
      /\ v8' = [v8 EXCEPT ![i] = Display!Zero]
      /\ v9' = [v9 EXCEPT ![i] = {f \in Counters : v3[i][f] # 0}]
      /\ v4 = [at |-> "idle"] /\ v4' = v4 /\ v3' = v3 /\ v5' = v5 /\ v6' = v6
  BY DEF Display!Stop, Display!Idle, Display!Counter, Counters
<1>2. PICK z \in [Counters -> Nat] : z = Display!Zero /\ z["rx"] = 0 /\ z["drop"] = 0
  <2>1. PICK z : z = [f \in Counters |-> 0]
    OBVIOUS
  <2>2. z \in [Counters -> Nat] /\ z["rx"] = 0 /\ z["drop"] = 0
    BY <2>1 DEF Counters
  <2>3. z = Display!Zero
    BY <2>1 DEF Display!Zero, Display!Counter, Counters
  <2>4. QED
    BY <2>2, <2>3
<1>3. i \in AllRows /\ z \in [Counters -> Int]
  BY DEF AllRows
<1>4. /\ v2 \in [AllRows -> [Counters -> Nat]] /\ v3 \in [AllRows -> [Counters -> Nat]]
      /\ v7 \in [AllRows -> [Counters -> Int]] /\ v8 \in [AllRows -> [Counters -> Nat]]
      /\ v9 \in [AllRows -> SUBSET Counters]
  BY DEF StatsTypes
<1>5. StatsTypes'
  <2>1. v2' \in [AllRows -> [Counters -> Nat]] /\ v8' \in [AllRows -> [Counters -> Nat]]
    BY <1>1, <1>2, <1>3, <1>4
  <2>2. v7' \in [AllRows -> [Counters -> Int]]
    BY <1>1, <1>2, <1>3, <1>4
  <2>3. v9' \in [AllRows -> SUBSET Counters]
    BY <1>1, <1>3, <1>4
  <2>4. QED
    BY <1>1, <2>1, <2>2, <2>3 DEF StatsTypes
<1>6. ASSUME NEW j \in AllRows, NEW g \in Counters PROVE RowKept(j, g)'
  <2>1. CASE j = i
    <3>1. v2'[j][g] = 0 /\ v7'[j][g] = 0 /\ v8'[j][g] = 0
      BY <1>1, <1>2, <1>4, <2>1 DEF Counters
    <3>2. g \in v9'[j] <=> v3[j][g] # 0
      BY <1>1, <1>4, <2>1
    <3>3. QED
      BY <1>1, <2>1, <3>1, <3>2 DEF RowKept
  <2>2. CASE j # i
    <3>1. v2'[j] = v2[j] /\ v7'[j] = v7[j] /\ v8'[j] = v8[j] /\ v9'[j] = v9[j]
      BY <1>1, <1>4, <2>2
    <3>2. RowKept(j, g)
      BY DEF StatsRows
    <3>3. QED
      BY <1>1, <3>1, <3>2 DEF RowKept
  <2>3. QED
    BY <2>1, <2>2
<1>7. QED
  BY <1>1, <1>5, <1>6 DEF StatsRows

\* A row is read: its rate is printed, and its line goes to the total of its service.
LEMMA StatsRead ==
    ASSUME StatsInv, Display!Read
    PROVE  StatsInv'
<1>0. StatsTypes /\ StatsRows /\ TotalsKept
  BY DEF StatsInv
<1>1. /\ v2 \in [AllRows -> [Counters -> Nat]] /\ v3 \in [AllRows -> [Counters -> Nat]]
      /\ v7 \in [AllRows -> [Counters -> Int]] /\ v8 \in [AllRows -> [Counters -> Nat]]
      /\ v9 \in [AllRows -> SUBSET Counters]
      /\ v5 \in [{ServiceOf[j] : j \in Nfs} -> Int] /\ v6 \in [Nfs -> Nat]
  BY <1>0 DEF StatsTypes
<1>2. PICK i \in AllRows : i = v4.row /\ v4.at = "read"
  BY <1>0 DEF Display!Read, StatsTypes
<1>3. PICK c \in [Counters -> Nat] : c = v2[i]
  BY <1>1
<1>4. PICK sv \in [Counters -> Nat] :
         sv = Display!Saved(i) /\ \A f \in Counters : sv[f] = IF i \in Nfs /\ c[f] = 0 THEN 0 ELSE v3[i][f]
  <2>1. PICK w : w = [f \in Counters |-> IF i \in Nfs /\ c[f] = 0 THEN 0 ELSE v3[i][f]]
    OBVIOUS
  <2>2. w \in [Counters -> Nat] /\ \A f \in Counters : w[f] = IF i \in Nfs /\ c[f] = 0 THEN 0 ELSE v3[i][f]
    BY <1>1, <2>1
  <2>3. w = Display!Saved(i)
    BY <1>3, <2>1 DEF Display!Saved, Display!Counter, Counters
  <2>4. QED
    BY <2>2, <2>3
<1>5. PICK df \in [Counters -> Int] :
         /\ df = [f \in Display!Counter |-> v2[i][f] - Display!Saved(i)[f]]
         /\ \A f \in Counters : df[f] = c[f] - sv[f]
  <2>1. PICK w : w = [f \in Counters |-> c[f] - sv[f]]
    OBVIOUS
  <2>2. w \in [Counters -> Int] /\ \A f \in Counters : w[f] = c[f] - sv[f]
    BY <2>1
  <2>3. w = [f \in Display!Counter |-> v2[i][f] - Display!Saved(i)[f]]
    BY <1>3, <1>4, <2>1 DEF Display!Counter, Counters
  <2>4. QED
    BY <2>2, <2>3
<1>6. PICK fr \in SUBSET Counters : fr = {f \in v9[i] : v2[i][f] # 0}
  BY <1>1
<1>7. PICK sh \in [Counters -> Int] :
         /\ sh = [f \in Display!Counter |-> IF f \in fr THEN v2[i][f] ELSE v7[i][f] + df[f]]
         /\ \A f \in Counters : sh[f] = IF f \in fr THEN c[f] ELSE v7[i][f] + df[f]
  <2>1. PICK w : w = [f \in Counters |-> IF f \in fr THEN c[f] ELSE v7[i][f] + df[f]]
    OBVIOUS
  <2>2. w \in [Counters -> Int] /\ \A f \in Counters : w[f] = IF f \in fr THEN c[f] ELSE v7[i][f] + df[f]
    BY <1>1, <2>1
  <2>3. w = [f \in Display!Counter |-> IF f \in fr THEN v2[i][f] ELSE v7[i][f] + df[f]]
    BY <1>3, <2>1 DEF Display!Counter, Counters
  <2>4. QED
    BY <2>2, <2>3
<1>8. /\ v4' = [at |-> "save", row |-> i, seen |-> c, diff |-> df, stale |-> fr]
      /\ v3' = [v3 EXCEPT ![i] = sv]
      /\ v7' = [v7 EXCEPT ![i] = [f \in Display!Counter |-> IF f \in fr THEN v2[i][f] ELSE @[f] + df[f]]]
      /\ v9' = [v9 EXCEPT ![i] = {}]
      /\ v2' = v2 /\ v8' = v8
      /\ v6' = IF i \in Nfs THEN [v6 EXCEPT ![i] = v2[i]["rx"]] ELSE v6
      /\ v5' = IF i \in Nfs THEN [v5 EXCEPT ![ServiceOf[i]] = @ + v2[i]["rx"]] ELSE v5
  BY <1>2, <1>3, <1>4, <1>5, <1>6 DEF Display!Read
<1>9. v7' = [v7 EXCEPT ![i] = sh]
  BY <1>7, <1>8
<1>10. PICK k \in Nat : k = v2[i]["rx"]
  BY <1>1 DEF Counters
<1>11. StatsTypes'
  <2>1. v3' \in [AllRows -> [Counters -> Nat]] /\ v7' \in [AllRows -> [Counters -> Int]]
    BY <1>1, <1>8, <1>9
  <2>2. v9' \in [AllRows -> SUBSET Counters]
    BY <1>1, <1>8
  <2>3. v5' \in [{ServiceOf[j] : j \in Nfs} -> Int] /\ v6' \in [Nfs -> Nat]
    BY <1>1, <1>8, <1>10
  <2>4. v4'.at = "save" /\ v4'.row \in AllRows /\ v4'.seen \in [Counters -> Nat] /\ v4'.diff \in [Counters -> Int]
    BY <1>8
  <2>5. QED
    BY <1>1, <1>8, <2>1, <2>2, <2>3, <2>4 DEF StatsTypes
<1>12. v4'.at = "save" /\ v4'.row = i /\ v4'.seen = c /\ v4'.diff = df /\ v4'.stale = fr
  BY <1>8
<1>13. ASSUME NEW j \in AllRows, NEW g \in Counters PROVE RowKept(j, g)'
  <2>1. CASE j = i
    <3>1. v9'[j] = {}
      BY <1>1, <1>8, <2>1
    <3>2. QED
      BY <1>12, <2>1, <3>1 DEF RowKept
  <2>2. CASE j # i
    <3>1. v2'[j] = v2[j] /\ v7'[j] = v7[j] /\ v8'[j] = v8[j] /\ v9'[j] = v9[j] /\ v3'[j] = v3[j]
      BY <1>1, <1>8, <1>9, <2>2
    <3>2. RowKept(j, g) /\ v4.at # "save"
      BY <1>0, <1>2 DEF StatsRows
    <3>3. QED
      BY <3>1, <3>2 DEF RowKept
  <2>3. QED
    BY <2>1, <2>2
<1>14. ASSUME NEW g \in Counters PROVE PrintedKept(i, g)'
  <2>1. RowKept(i, g) /\ v4.at # "save"
    BY <1>0, <1>2 DEF StatsRows
  <2>2. g \notin v9'[i] /\ v7'[i][g] = sh[g] /\ v8'[i][g] = v8[i][g] /\ v2'[i][g] = c[g]
    BY <1>1, <1>3, <1>8, <1>9
  <2>3. g \in fr <=> g \in v9[i] /\ c[g] # 0
    BY <1>3, <1>6
  <2>4. c[g] \in Nat /\ v3[i][g] \in Nat /\ v7[i][g] \in Int /\ v8[i][g] \in Nat /\ df[g] \in Int
    BY <1>1
  <2>5. sh[g] + v8[i][g] = c[g] /\ (df[g] < 0 => g \in fr)
    <3>1. CASE g \in fr
      BY <1>7, <2>1, <2>3, <2>4, <3>1 DEF RowKept
    <3>2. CASE g \notin fr
      <4>1. sh[g] = v7[i][g] + df[g] /\ df[g] = c[g] - sv[g]
        BY <1>5, <1>7, <3>2
      <4>2. sv[g] = v3[i][g] \/ (sv[g] = 0 /\ c[g] = 0 /\ i \in Nfs)
        BY <1>4
      <4>3. CASE g \in v9[i]
        <5>1. c[g] = 0 /\ i \in Nfs /\ v7[i][g] = 0 /\ v8[i][g] = 0
          BY <2>1, <2>3, <3>2, <4>3 DEF RowKept
        <5>2. sv[g] = 0
          BY <1>4, <5>1
        <5>3. QED
          BY <4>1, <5>1, <5>2
      <4>4. CASE g \notin v9[i]
        <5>1. v3[i][g] <= c[g] /\ v7[i][g] + v8[i][g] = v3[i][g]
          BY <1>3, <2>1, <4>4 DEF RowKept
        <5>2. QED
          BY <2>4, <4>1, <4>2, <5>1
      <4>5. QED
        BY <4>3, <4>4
    <3>3. QED
      BY <3>1, <3>2
  <2>6. QED
    BY <1>12, <2>2, <2>4, <2>5 DEF PrintedKept
<1>15. TotalsKept'
  <2>1. CASE i \notin Nfs
    <3>1. v5' = v5 /\ v6' = v6
      BY <1>8, <2>1
    <3>2. \A j \in Nfs : j > i => v6[j] = 0
      <4>1. i \in Nat /\ \A j \in Nfs : j \in Nat
        BY StatsAssumption DEF AllRows
      <4>2. \A j \in Nfs : j >= i => v6[j] = 0
        BY <1>0, <1>2 DEF TotalsKept
      <4>3. QED
        BY <4>1, <4>2
    <3>3. QED
      BY <1>0, <1>12, <3>1, <3>2 DEF TotalsKept
  <2>2. CASE i \in Nfs
    <3>1. v6' = [v6 EXCEPT ![i] = k] /\ v5' = [v5 EXCEPT ![ServiceOf[i]] = @ + k]
      BY <1>8, <1>10, <2>2
    <3>2. v6[i] = 0 /\ \A j \in Nfs : j > i => v6[j] = 0 /\ j # i
      <4>1. i \in Nat /\ \A j \in Nfs : j \in Nat /\ (j >= i => v6[j] = 0)
        BY <1>0, <1>2, <2>2, StatsAssumption DEF TotalsKept
      <4>2. QED
        BY <2>2, <4>1
    <3>3. ASSUME NEW s \in {ServiceOf[j] : j \in Nfs} PROVE v5'[s] = SumOver(OfService(s), v6')
      <4>1. IsFiniteSet(OfService(s)) /\ OfService(s) \subseteq Nfs
        BY StatsAssumption, FS_Subset DEF OfService
      <4>2. v5[s] = SumOver(OfService(s), v6) /\ v5[s] \in Int
        BY <1>0, <1>1 DEF TotalsKept
      <4>3. /\ \A x \in OfService(s) : v6[x] \in Int /\ v6'[x] \in Int
            /\ \A x \in OfService(s) \ {i} : v6'[x] = v6[x]
            /\ v6'[i] = k
        BY <1>1, <2>2, <3>1, <4>1
      <4>4. CASE ServiceOf[i] = s
        <5>1. i \in OfService(s)
          BY <2>2, <4>4 DEF OfService
        <5>2. SumOver(OfService(s), v6') = SumOver(OfService(s), v6) + (v6'[i] - v6[i])
          BY <4>1, <4>3, <5>1, SumChange
        <5>3. v5'[s] = v5[s] + k
          BY <1>1, <3>1, <4>4
        <5>4. QED
          BY <3>2, <4>2, <4>3, <5>2, <5>3
      <4>5. CASE ServiceOf[i] # s
        <5>1. i \notin OfService(s)
          BY <4>5 DEF OfService
        <5>2. \A x \in OfService(s) : v6'[x] = v6[x]
          BY <4>3, <5>1
        <5>3. SumOver(OfService(s), v6') = SumOver(OfService(s), v6)
          BY <4>1, <4>3, <5>2, SumSame
        <5>4. v5'[s] = v5[s]
          BY <1>1, <3>1, <4>5
        <5>5. QED
          BY <4>2, <5>3, <5>4
      <4>6. QED
        BY <4>4, <4>5
    <3>4. \A j \in Nfs : j > i => v6'[j] = 0
      BY <1>1, <3>1, <3>2
    <3>5. QED
      BY <1>12, <3>3, <3>4 DEF TotalsKept
  <2>3. QED
    BY <2>1, <2>2
<1>16. QED
  BY <1>11, <1>12, <1>13, <1>14, <1>15 DEF StatsInv, StatsRows

\* The row is saved and the display goes on.
LEMMA StatsSave ==
    ASSUME StatsInv, Display!Save
    PROVE  StatsInv'
<1>0. StatsTypes /\ StatsRows /\ TotalsKept
  BY DEF StatsInv
<1>1. /\ v2 \in [AllRows -> [Counters -> Nat]] /\ v3 \in [AllRows -> [Counters -> Nat]]
      /\ v7 \in [AllRows -> [Counters -> Int]] /\ v8 \in [AllRows -> [Counters -> Nat]]
      /\ v4.seen \in [Counters -> Nat]
  BY <1>0 DEF StatsTypes, Display!Save
<1>2. PICK i \in AllRows : i = v4.row /\ v4.at = "save"
  BY <1>0 DEF Display!Save, StatsTypes
<1>3. PICK w \in [Counters -> Nat] :
         w = Display!ToSave(i) /\ \A f \in Counters : w[f] = IF i \in Nfs /\ f = "rx" THEN v2[i][f] ELSE v4.seen[f]
  <2>1. PICK w : w = [f \in Counters |-> IF i \in Nfs /\ f = "rx" THEN v2[i][f] ELSE v4.seen[f]]
    OBVIOUS
  <2>2. w \in [Counters -> Nat] /\ \A f \in Counters : w[f] = IF i \in Nfs /\ f = "rx" THEN v2[i][f] ELSE v4.seen[f]
    BY <1>1, <2>1
  <2>3. w = Display!ToSave(i)
    BY <2>1 DEF Display!ToSave, Display!Counter, Counters
  <2>4. QED
    BY <2>2, <2>3
<1>4. /\ v3' = [v3 EXCEPT ![i] = w] /\ v4' = Display!Goto(i + 1)
      /\ v2' = v2 /\ v5' = v5 /\ v6' = v6 /\ v7' = v7 /\ v8' = v8 /\ v9' = v9
  BY <1>2, <1>3 DEF Display!Save
<1>5. i \in Nat /\ Nfs \subseteq Nat
  BY StatsAssumption DEF AllRows
<1>6. v4'.at = "totals" \/ (v4'.at = "read" /\ v4'.row \in AllRows /\ v4'.row >= i + 1)
  <2>1. i + 1 \in Int
    BY <1>5
  <2>2. QED
    BY <1>4, <2>1, NextRow
<1>7. StatsTypes'
  <2>1. v3' \in [AllRows -> [Counters -> Nat]]
    BY <1>1, <1>4
  <2>2. QED
    BY <1>0, <1>4, <1>6, <2>1 DEF StatsTypes
<1>8. ASSUME NEW j \in AllRows, NEW g \in Counters PROVE RowKept(j, g)'
  <2>1. RowKept(j, g) /\ v4'.at # "save"
    BY <1>0, <1>6 DEF StatsRows
  <2>2. CASE j = i
    <3>1. v3'[j][g] = w[g]
      BY <1>1, <1>4, <2>2
    <3>2. PrintedKept(i, g)
      BY <1>0, <1>2 DEF StatsRows
    <3>3. v2[i][g] \in Nat /\ v4.seen[g] \in Nat
      BY <1>1
    <3>4. QED
      BY <1>3, <1>4, <2>1, <2>2, <3>1, <3>2, <3>3 DEF RowKept, PrintedKept
  <2>3. CASE j # i
    <3>1. v3'[j] = v3[j]
      BY <1>1, <1>4, <2>3
    <3>2. QED
      BY <1>2, <1>4, <2>1, <2>3, <3>1 DEF RowKept
  <2>4. QED
    BY <2>2, <2>3
<1>9. TotalsKept'
  <2>1. \A j \in Nfs : j > i => v6[j] = 0
    BY <1>0, <1>2 DEF TotalsKept
  <2>2. v4'.at = "read" => \A j \in Nfs : j >= v4'.row => v6[j] = 0
    <3>1. ASSUME v4'.at = "read", NEW j \in Nfs, j >= v4'.row PROVE j > i
      <4>1. PICK r \in Nat : r = v4'.row /\ r >= i + 1
        BY <1>6, <3>1, StatsAssumption DEF AllRows
      <4>2. j \in Nat /\ j >= r
        BY <1>5, <3>1, <4>1
      <4>3. QED
        BY <1>5, <4>1, <4>2
    <3>2. QED
      BY <2>1, <3>1
  <2>3. v4'.at # "save"
    BY <1>6
  <2>4. QED
    BY <1>0, <1>4, <2>2, <2>3 DEF TotalsKept
<1>10. QED
  BY <1>6, <1>7, <1>8, <1>9 DEF StatsInv, StatsRows

\* A new display begins with empty totals.
LEMMA StatsBegin ==
    ASSUME StatsInv, Display!Begin
    PROVE  StatsInv'
<1>0. StatsTypes /\ StatsRows /\ TotalsKept
  BY DEF StatsInv
<1>1. /\ v4 = [at |-> "idle"] /\ v4' = Display!Goto(Display!Min(AllRows))
      /\ v5' = [s \in {ServiceOf[i] : i \in Nfs} |-> 0] /\ v6' = [i \in Nfs |-> 0]
      /\ v2' = v2 /\ v3' = v3 /\ v7' = v7 /\ v8' = v8 /\ v9' = v9
  BY DEF Display!Begin, Display!Idle, Display!Row, AllRows, Display!Service
<1>2. Display!Min(AllRows) \in Int
  <2>1. AllRows \in SUBSET Nat /\ AllRows # {}
    BY StatsAssumption DEF AllRows
  <2>2. \E x \in AllRows : \A y \in AllRows : x <= y
    BY <2>1, LeastNat
  <2>3. Display!Min(AllRows) \in AllRows
    BY <2>2 DEF Display!Min
  <2>4. PICK m \in AllRows : m = Display!Min(AllRows)
    BY <2>3
  <2>5. m \in Int
    BY <2>1
  <2>6. QED
    BY <2>4, <2>5
<1>3. v4'.at = "totals" \/ (v4'.at = "read" /\ v4'.row \in AllRows)
  BY <1>1, <1>2, NextRow
<1>4. StatsTypes'
  BY <1>0, <1>1, <1>3 DEF StatsTypes
<1>5. \A j \in AllRows, g \in Counters : RowKept(j, g)'
  BY <1>0, <1>1, <1>3 DEF StatsRows, RowKept
<1>6. TotalsKept'
  <2>1. ASSUME NEW s \in {ServiceOf[i] : i \in Nfs} PROVE v5'[s] = SumOver(OfService(s), v6')
    <3>1. IsFiniteSet(OfService(s)) /\ OfService(s) \subseteq Nfs
      BY StatsAssumption, FS_Subset DEF OfService
    <3>2. \A x \in OfService(s) : v6'[x] = 0
      BY <1>1, <3>1
    <3>3. SumOver(OfService(s), v6') = 0
      BY <3>1, <3>2, SumZero
    <3>4. v5'[s] = 0
      BY <1>1
    <3>5. QED
      BY <3>3, <3>4
  <2>2. \A j \in Nfs : v6'[j] = 0
    BY <1>1
  <2>3. QED
    BY <1>3, <2>1, <2>2 DEF TotalsKept
<1>7. QED
  BY <1>3, <1>4, <1>5, <1>6 DEF StatsInv, StatsRows

LEMMA StatsStep == ASSUME StatsInv, [Display!Next]_(Display!vars) PROVE StatsInv'
<1>0. StatsTypes /\ StatsRows /\ TotalsKept
  BY DEF StatsInv
<1>1. ASSUME v4' = v4, v5' = v5, v6' = v6 PROVE TotalsKept'
  BY <1>0, <1>1 DEF TotalsKept
<1>2. ASSUME NEW i \in Display!Row, NEW f \in Display!Counter, Display!Count(i, f) PROVE StatsInv'
  <2>1. i \in AllRows /\ f \in Counters
    BY DEF Display!Row, AllRows, Display!Counter, Counters
  <2>2. StatsTypes' /\ StatsRows'
    BY <1>0, <1>2, <2>1, StatsCount
  <2>3. QED
    BY <1>1, <1>2, <2>2 DEF Display!Count, StatsInv
<1>3. ASSUME NEW i \in Nfs, Display!Stop(i) PROVE StatsInv'
  <2>1. StatsTypes' /\ StatsRows'
    BY <1>0, <1>3, StatsStop
  <2>2. QED
    BY <1>1, <1>3, <2>1 DEF Display!Stop, StatsInv
<1>4. ASSUME v2' = v2, v3' = v3, v4' = v4, v5' = v5, v6' = v6, v7' = v7, v8' = v8, v9' = v9
      PROVE  StatsInv'
  BY <1>0, <1>1, <1>4 DEF StatsInv, StatsTypes, StatsRows, RowKept, PrintedKept
<1>5. ASSUME NEW i \in Nfs, Display!Ready(i) PROVE StatsInv'
  BY <1>4, <1>5 DEF Display!Ready
<1>6. CASE Display!Totals
  <2>1. /\ v4.at = "totals" /\ v4'.at = "idle" /\ v2' = v2 /\ v3' = v3 /\ v5' = v5 /\ v6' = v6
        /\ v7' = v7 /\ v8' = v8 /\ v9' = v9
    BY <1>6 DEF Display!Totals, Display!Idle
  <2>2. StatsTypes'
    BY <1>0, <2>1 DEF StatsTypes
  <2>3. StatsRows'
    BY <1>0, <2>1 DEF StatsRows, RowKept
  <2>4. TotalsKept'
    BY <1>0, <2>1 DEF TotalsKept
  <2>5. QED
    BY <2>2, <2>3, <2>4 DEF StatsInv
<1>7. CASE UNCHANGED Display!vars
  BY <1>4, <1>7 DEF Display!vars
<1>8. QED
  BY <1>2, <1>3, <1>5, <1>6, <1>7, StatsRead, StatsSave, StatsBegin DEF Display!Next

LEMMA StatsInit == ASSUME Display!Init PROVE StatsInv
<1>1. PICK z \in [Counters -> Nat] : z = Display!Zero /\ \A f \in Counters : z[f] = 0
  <2>1. PICK z : z = [f \in Counters |-> 0]
    OBVIOUS
  <2>2. z \in [Counters -> Nat] /\ \A f \in Counters : z[f] = 0
    BY <2>1
  <2>3. z = Display!Zero
    BY <2>1 DEF Display!Zero, Display!Counter, Counters
  <2>4. QED
    BY <2>2, <2>3
<1>2. /\ v2 = [i \in AllRows |-> z] /\ v3 = [i \in AllRows |-> z] /\ v7 = [i \in AllRows |-> z]
      /\ v8 = [i \in AllRows |-> z] /\ v9 = [i \in AllRows |-> {}] /\ v4 = [at |-> "idle"]
      /\ v5 = [s \in {ServiceOf[i] : i \in Nfs} |-> 0] /\ v6 = [i \in Nfs |-> 0]
  BY <1>1 DEF Display!Init, Display!Row, AllRows, Display!Idle, Display!Service
<1>3. StatsTypes
  <2>1. z \in [Counters -> Int]
    OBVIOUS
  <2>2. QED
    BY <1>2, <2>1 DEF StatsTypes
<1>4. StatsRows
  BY <1>1, <1>2 DEF StatsRows, RowKept
<1>5. TotalsKept
  <2>1. ASSUME NEW s \in {ServiceOf[i] : i \in Nfs} PROVE v5[s] = SumOver(OfService(s), v6)
    <3>1. IsFiniteSet(OfService(s)) /\ OfService(s) \subseteq Nfs
      BY StatsAssumption, FS_Subset DEF OfService
    <3>2. \A x \in OfService(s) : v6[x] = 0
      BY <1>2, <3>1
    <3>3. SumOver(OfService(s), v6) = 0
      BY <3>1, <3>2, SumZero
    <3>4. QED
      BY <1>2, <3>3
  <2>2. QED
    BY <1>2, <2>1 DEF TotalsKept
<1>6. QED
  BY <1>3, <1>4, <1>5 DEF StatsInv

\* The invariant is what the run checks.
LEMMA StatsChecked ==
    ASSUME StatsInv
    PROVE  Display!RatesAddUp /\ Display!NoUnderflow /\ Display!TotalsMatch
<1>1. Display!RatesAddUp
  <2>1. ASSUME v4.at # "save", NEW i \in AllRows, NEW f \in Counters \ v9[i]
        PROVE  v7[i][f] + v8[i][f] = v3[i][f]
    BY <2>1 DEF StatsInv, StatsRows, RowKept
  <2>2. QED
    BY <2>1 DEF Display!RatesAddUp, Display!Row, AllRows, Display!Counter, Counters
<1>2. Display!NoUnderflow
  BY DEF StatsInv, StatsRows, PrintedKept, Display!NoUnderflow, Display!Counter, Counters
<1>3. Display!TotalsMatch
  <2>1. ASSUME NEW s
        PROVE  Display!MapThenSumSet(LAMBDA i : v6[i], {i \in Nfs : ServiceOf[i] = s})
               = SumOver(OfService(s), v6)
    BY DEF Display!MapThenSumSet, Display!MapThenFoldSet, SumOver, Partial, Sums, Chosen, OfService
  <2>2. QED
    BY <2>1 DEF StatsInv, TotalsKept, Display!TotalsMatch, Display!Service
<1>4. QED
  BY <1>1, <1>2, <1>3

\* For any ports, NFs and services: what the displays print of a row adds up, no rate is a
\* negative difference unless an id was used again, and the totals of a service are
\* those of its lines.
THEOREM RatesAreHonest == SafeAll => []RatesHonest
<1> DEFINE Inv == which = "stats" => StatsInv
<1>1. InitAll => Inv
  BY StatsInit DEF InitAll
<1>2. Inv /\ [NextAll]_all => Inv'
  <2>1. SUFFICES ASSUME Inv, [NextAll]_all PROVE Inv'
    OBVIOUS
  <2>2. which' = which
    BY <2>1 DEF NextAll, Others, all
  <2>3. CASE which = "stats"
    <3>1. [Display!Next]_(Display!vars)
      BY <2>1, <2>3 DEF NextAll, Others, all, parts, Display!vars
    <3>2. QED
      BY <2>1, <2>2, <2>3, <3>1, StatsStep
  <2>4. QED
    BY <2>2, <2>3
<1>3. Inv => RatesHonest
  BY StatsChecked DEF RatesHonest
<1>4. QED
  BY <1>1, <1>2, <1>3, PTL DEF SafeAll
=============================================================================

------------------------------ MODULE Scaling ------------------------------
(***************************************************************************)
(* Scaling of an NF to child threads (onvm_nflib.c: onvm_nflib_scale,      *)
(* onvm_nflib_start_child, onvm_nflib_stop, onvm_nflib_terminate_children, *)
(* onvm_nflib_cleanup) and what the manager does for it (onvm_nf.c:        *)
(* onvm_nf_start, onvm_nf_ready, onvm_nf_stop).                            *)
(*                                                                         *)
(* A thread is a child of the parent NF or, from Stranger, another NF of   *)
(* the machine that takes an instance id and leaves again.  The entry of   *)
(* nfs[] that it gets keeps the parent of whoever had it before:           *)
(* thread_info.parent is only ever written by onvm_nflib_start_child.      *)
(***************************************************************************)
EXTENDS Integers, Sequences, FiniteSets, FiniteSetsExt

CONSTANTS
    Child,      \* threads the parent may create
    Stranger,   \* NFs that are no children
    MaxId,      \* instance ids 1 .. MaxId; the parent has id 1
    StopIters   \* NF_TERM_STOP_ITER_TIMES

Parent == 1
Id     == 1 .. MaxId
Thread == Child \cup Stranger

\* What the code takes for granted: a child is a thread of its parent and of no
\* other NF, and there is an id for the parent.
Distinguished ==
    /\ IsFiniteSet(Child) /\ Child \cap Stranger = {}
    /\ MaxId \in Nat \ {0} /\ StopIters \in Nat

VARIABLES
    nfStatus,   \* nfs[].status
    nfParent,   \* nfs[].thread_info.parent, 0 for none
    children,   \* nfs[Parent].thread_info.children_cnt
    pc,         \* where each thread is
    myId,       \* nf_local_ctx->nf of each thread
    queue,      \* mgr_msg_queue
    main,       \* the thread of the parent: "run", "term", "left"
    iter,       \* iter_cnt of onvm_nflib_terminate_children
    uncounted   \* history: children that no stop will ever count, and stops
                \* counted for an NF that is no child

vars == <<nfStatus, nfParent, children, pc, myId, queue, main, iter, uncounted>>

Init ==
    /\ nfStatus = [i \in Id |-> IF i = Parent THEN "running" ELSE "unused"]
    /\ nfParent = [i \in Id |-> 0]
    /\ children = 0
    /\ pc = [t \in Thread |-> "new"] /\ myId = [t \in Thread |-> 0]
    /\ queue = <<>> /\ main = "run" /\ iter = 0
    /\ uncounted = [lost |-> 0, stale |-> 0]

Alive(t) == pc[t] \notin {"new", "gone"}

\* The process of the parent is there: its threads run.
Runs(t) == t \in Child => main # "left"

Goto(t, l)  == pc' = [pc EXCEPT ![t] = l]
Send(k, t)  == queue' = Append(queue, [type |-> k, thread |-> t])

-----------------------------------------------------------------------------
(* The parent *)

\* onvm_nflib_scale, called by the parent's loop.  The count is raised before
\* the thread is created; an error of pthread_create is positive, so the
\* branch that lowers the count again is never taken.
Scale(t) ==
    /\ main = "run" /\ pc[t] = "new" /\ t \in Child
    /\ children' = children + 1
    /\ \/ Goto(t, "asked") /\ Send("starting", t) /\ UNCHANGED uncounted
       \/ Goto(t, "gone") /\ UNCHANGED queue
          /\ uncounted' = [uncounted EXCEPT !.lost = @ + 1]
    /\ UNCHANGED <<nfStatus, nfParent, myId, main, iter>>

\* The main loop ends, by a signal or a limit, and onvm_nflib_stop begins.
StopMain ==
    /\ main = "run" /\ main' = "term"
    /\ UNCHANGED <<nfStatus, nfParent, children, pc, myId, queue, iter, uncounted>>

\* One round of onvm_nflib_terminate_children.
WaitForChildren ==
    /\ main = "term" /\ children > 0 /\ iter < StopIters
    /\ iter' = iter + 1
    /\ UNCHANGED <<nfStatus, nfParent, children, pc, myId, queue, main, uncounted>>

\* onvm_nflib_cleanup, and the end of the process with its threads.
Leave ==
    /\ main = "term" /\ ~(children > 0 /\ iter < StopIters)
    /\ main' = "left"
    /\ queue' = Append(queue, [type |-> "parent"])
    /\ UNCHANGED <<nfStatus, nfParent, children, pc, myId, iter, uncounted>>

-----------------------------------------------------------------------------
(* Children and strangers *)

\* A stranger asks for an id.
Begin(t) ==
    /\ t \in Stranger /\ pc[t] = "new"
    /\ Goto(t, "asked") /\ Send("starting", t)
    /\ UNCHANGED <<nfStatus, nfParent, children, myId, main, iter, uncounted>>

\* onvm_nflib_start_child after a refusal: onvm_nflib_stop returns at once,
\* since the context has no NF, and no message is sent.
Refused(t) ==
    /\ pc[t] = "refused" /\ Runs(t)
    /\ Goto(t, "gone")
    /\ uncounted' = IF t \in Child THEN [uncounted EXCEPT !.lost = @ + 1] ELSE uncounted
    /\ UNCHANGED <<nfStatus, nfParent, children, myId, queue, main, iter>>

\* Mutant: the child forgets to note its parent.
AdoptOrphan(t) ==
    /\ pc[t] = "granted" /\ Runs(t)
    /\ Goto(t, "readying") /\ Send("ready", t)
    /\ UNCHANGED <<nfStatus, nfParent, children, myId, main, iter, uncounted>>

\* onvm_nflib_start_child: the parent is noted, and the child says it is ready.
Adopt(t) ==
    /\ pc[t] = "granted" /\ Runs(t)
    /\ nfParent' = IF t \in Child THEN [nfParent EXCEPT ![myId[t]] = Parent] ELSE nfParent
    /\ Goto(t, "readying") /\ Send("ready", t)
    /\ UNCHANGED <<nfStatus, children, myId, main, iter, uncounted>>

\* The main loop, entered once the status is NF_RUNNING, and its end: by a
\* message, a limit of its own, or because the parent's context was stopped.
\* onvm_nflib_stop sends the message.
Finish(t) ==
    /\ pc[t] = "readying" /\ nfStatus[myId[t]] = "running" /\ Runs(t)
    /\ Goto(t, "gone") /\ Send("stopping", t)
    /\ UNCHANGED <<nfStatus, nfParent, children, myId, main, iter, uncounted>>

-----------------------------------------------------------------------------
(* The manager *)

Idle == {i \in Id : nfStatus[i] \in {"unused", "stopped"}}

\* onvm_nf_start: an id, or a refusal when there is none (or the service or
\* the cores are full).
Start(t) ==
    \/ /\ Idle # {} /\ Goto(t, "granted")
       /\ myId' = [myId EXCEPT ![t] = Min(Idle)]
       /\ nfStatus' = [nfStatus EXCEPT ![Min(Idle)] = "starting"]
    \/ Goto(t, "refused") /\ UNCHANGED <<myId, nfStatus>>

\* onvm_nf_stop: the parent that the entry names is told.
StopNf(i) ==
    /\ nfStatus' = [nfStatus EXCEPT ![i] = "stopped"]
    /\ children' = IF nfParent[i] = Parent THEN children - 1 ELSE children

Handle ==
    /\ queue # <<>> /\ queue' = Tail(queue)
    /\ LET m == Head(queue) IN
       \/ m.type = "starting" /\ Start(m.thread) /\ UNCHANGED <<children, uncounted>>
       \/ /\ m.type = "ready"
          /\ nfStatus' = [nfStatus EXCEPT ![myId[m.thread]] = "running"]
          /\ UNCHANGED <<children, pc, myId, uncounted>>
       \/ /\ m.type = "stopping" /\ StopNf(myId[m.thread])
          /\ uncounted' = [uncounted EXCEPT !.stale =
                 IF m.thread \in Stranger /\ nfParent[myId[m.thread]] = Parent
                 THEN @ + 1 ELSE @]
          /\ UNCHANGED <<pc, myId>>
       \/ m.type = "parent" /\ StopNf(Parent) /\ UNCHANGED <<pc, myId, uncounted>>
    /\ UNCHANGED <<nfParent, main, iter>>

Next ==
    \/ \E t \in Child : Scale(t)
    \/ \E t \in Stranger : Begin(t)
    \/ \E t \in Thread : Refused(t) \/ Adopt(t) \/ Finish(t)
    \/ StopMain \/ WaitForChildren \/ Leave \/ Handle

Spec == Init /\ [][Next]_vars

-----------------------------------------------------------------------------
\* Children whose stop the manager has not handled.
Unhandled ==
    {t \in Child : Alive(t)} \cup
    {t \in Child : \E k \in DOMAIN queue : queue[k] = [type |-> "stopping", thread |-> t]}

\* While the parent is there, children_cnt is the number of children whose
\* stop is still to come, plus those that failed to start (onvm_nflib_scale
\* and onvm_nflib_start_child never lower the count for them), less the stops
\* of other NFs that got the entry of a former child with its parent in it.
ChildrenCounted ==
    main # "left" =>
        children = Cardinality(Unhandled) + uncounted.lost - uncounted.stale

\* A parent that leaves before it has used up its rounds leaves no child
\* behind: the manager has handled the stop of every child, unless stops of
\* other NFs were counted for children (onvm_nflib_terminate_children).
LeavesLast ==
    main = "left" /\ iter < StopIters /\ uncounted.stale = 0 => Unhandled = {}
=============================================================================

----------------------------- MODULE SharedCore -----------------------------
(***************************************************************************)
(* Shared core mode: an NF without work sleeps on a semaphore and the      *)
(* manager wakes it (onvm_nflib/onvm_nflib.c: onvm_nflib_thread_main_loop, *)
(* onvm_nflib_dequeue_messages, onvm_nflib_handle_signal;                  *)
(* onvm_mgr/main.c: wakeup_thread_main, wakeup_client and the shutdown in  *)
(* master_thread_main; onvm_nflib/onvm_common.h: whether_wakeup_client).   *)
(*                                                                         *)
(* One running NF.  Its thread, the wakeup thread of the manager, the      *)
(* signal handler of the NF process and the manager's master thread share  *)
(* the sleep flag, the semaphore and the two queues, with one access to    *)
(* them per step.                                                          *)
(***************************************************************************)
EXTENDS Naturals, Sequences

CONSTANTS
    RxSize,    \* bound: packets on the NF's RX ring
    MsgSize,   \* entries of the NF's message ring
    DataSize,  \* bound: messages that other NFs leave on it
    ReadSize,  \* PACKET_READ_SIZE
    Stops,     \* how the NF may be told to end: "signal", "manager", "ttl"
    UserActions  \* the NF has a user_actions callback

ASSUME SharedCoreAssumption ==
    /\ {RxSize, MsgSize, ReadSize} \subseteq Nat \ {0}
    /\ DataSize \in 0 .. MsgSize
    /\ Stops \subseteq {"signal", "manager", "ttl"}
    /\ UserActions \in BOOLEAN

VARIABLES
    rx,        \* packets on rx_q
    msgs,      \* messages on msg_q
    asleep,    \* sleep_state (shm_server): 0 or 1
    sem,       \* value of the semaphore
    keep,      \* keep_running of the NF
    verdict,   \* what the main loop is about to store in it
    expired,   \* its time to live is over
    nfPc,      \* where the NF thread is
    wakePc,    \* where the wakeup thread is
    workers,   \* worker_keep_running of the manager
    sigPc,     \* where the signal handler is
    mgrPc      \* where the manager's shutdown is

queues == <<rx, msgs>>
actors == <<nfPc, wakePc, workers, sigPc, mgrPc>>
vars   == <<queues, asleep, sem, keep, verdict, expired, actors>>

Init ==
    /\ rx = 0 /\ msgs = <<>>
    /\ asleep = 0 /\ sem = 0
    /\ keep = TRUE /\ verdict = TRUE /\ expired = FALSE
    /\ nfPc = "check" /\ wakePc = "look" /\ workers = TRUE
    /\ sigPc = "idle" /\ mgrPc = "idle"

-----------------------------------------------------------------------------
(* onvm_nflib_thread_main_loop *)

LeaveOthers == UNCHANGED <<wakePc, workers, sigPc, mgrPc, expired>>

LeaveSleep == UNCHANGED <<rx, asleep, sem>>

NfCheck ==
    /\ nfPc = "check"
    /\ nfPc' = IF keep THEN "test_rx" ELSE "exited"
    /\ LeaveOthers /\ UNCHANGED <<queues, asleep, sem, keep, verdict>>

\* It may sleep only if both rings look empty, read one after the other.
NfTestRx ==
    /\ nfPc = "test_rx"
    /\ nfPc' = IF rx = 0 THEN "test_msg" ELSE "packets"
    /\ LeaveOthers /\ UNCHANGED <<queues, asleep, sem, keep, verdict>>

NfTestMsg ==
    /\ nfPc = "test_msg"
    /\ nfPc' = IF msgs = <<>> THEN "mark" ELSE "packets"
    /\ LeaveOthers /\ UNCHANGED <<queues, asleep, sem, keep, verdict>>

\* Mutant: the NF waits without raising its flag.
NfMarkSilent ==
    /\ nfPc = "mark"
    /\ nfPc' = "wait"
    /\ LeaveOthers /\ UNCHANGED <<queues, asleep, sem, keep, verdict>>

NfMark ==
    /\ nfPc = "mark"
    /\ asleep' = 1
    /\ nfPc' = "wait"
    /\ LeaveOthers /\ UNCHANGED <<queues, sem, keep, verdict>>

NfWait ==
    /\ nfPc = "wait" /\ sem > 0
    /\ sem' = sem - 1
    /\ nfPc' = "packets"
    /\ LeaveOthers /\ UNCHANGED <<queues, asleep, keep, verdict>>

\* A burst of packets is handled and sent on.
NfPackets ==
    /\ nfPc = "packets"
    /\ rx' = IF rx <= ReadSize THEN 0 ELSE rx - ReadSize
    /\ nfPc' = "messages"
    /\ LeaveOthers /\ UNCHANGED <<msgs, asleep, sem, keep, verdict>>

\* One message is handled ...
NfMessages ==
    /\ nfPc = "messages"
    /\ msgs' = IF msgs = <<>> THEN msgs ELSE Tail(msgs)
    /\ keep' = (keep /\ ~(msgs # <<>> /\ Head(msgs) = "stop"))
    /\ nfPc' = IF UserActions THEN "actions" ELSE "limits"
    /\ LeaveOthers /\ LeaveSleep /\ UNCHANGED verdict

\* Mutant: the callback alone decides.
NfActionsAlone ==
    /\ nfPc = "actions"
    /\ verdict' \in BOOLEAN
    /\ nfPc' = "store"
    /\ LeaveOthers /\ LeaveSleep /\ UNCHANGED <<msgs, keep>>

\* ... the callback may ask for the end; if it does not, keep_running is read ...
NfActions ==
    /\ nfPc = "actions"
    /\ verdict' \in {FALSE, keep}
    /\ nfPc' = "store"
    /\ LeaveOthers /\ LeaveSleep /\ UNCHANGED <<msgs, keep>>

\* ... and the outcome is written to it ...
NfStore ==
    /\ nfPc = "store"
    /\ keep' = verdict
    /\ nfPc' = "limits"
    /\ LeaveOthers /\ LeaveSleep /\ UNCHANGED <<msgs, verdict>>

\* ... and the time limit is tested.
NfLimits ==
    /\ nfPc = "limits"
    /\ keep' = (keep /\ ~expired)
    /\ nfPc' = "check"
    /\ LeaveOthers /\ LeaveSleep /\ UNCHANGED <<msgs, verdict>>

NfThread ==
    \/ NfCheck \/ NfTestRx \/ NfTestMsg \/ NfMark \/ NfWait \/ NfPackets
    \/ NfMessages \/ NfActions \/ NfStore \/ NfLimits

-----------------------------------------------------------------------------
(* The manager *)

LeaveNf == UNCHANGED <<nfPc, keep, verdict, expired>>

\* Mutant: the thresholds are one too high.
WakeLookHigh ==
    /\ wakePc = "look"
    /\ wakePc' = IF ~workers THEN "done"
                 ELSE IF rx > 1 \/ Len(msgs) > 1 THEN "flag" ELSE "look"
    /\ LeaveNf /\ UNCHANGED <<queues, asleep, sem, workers, sigPc, mgrPc>>

\* wakeup_thread_main: the rings of the NF are read (one after the other, but
\* an answer that is old by then only means another round) ...
WakeLook ==
    /\ wakePc = "look"
    /\ wakePc' = IF ~workers THEN "done"
                 ELSE IF rx > 0 \/ msgs # <<>> THEN "flag" ELSE "look"
    /\ LeaveNf /\ UNCHANGED <<queues, asleep, sem, workers, sigPc, mgrPc>>

\* Mutant: the flag is not tested.
WakeAnyway ==
    /\ wakePc = "flag"
    /\ wakePc' = "clear"
    /\ LeaveNf /\ UNCHANGED <<queues, asleep, sem, workers, sigPc, mgrPc>>

\* ... then the flag ...
WakeFlag ==
    /\ wakePc = "flag"
    /\ wakePc' = IF asleep = 1 THEN "clear" ELSE "look"
    /\ LeaveNf /\ UNCHANGED <<queues, asleep, sem, workers, sigPc, mgrPc>>

\* ... and wakeup_client clears it ...
WakeClear ==
    /\ wakePc = "clear"
    /\ asleep' = 0
    /\ wakePc' = "post"
    /\ LeaveNf /\ UNCHANGED <<queues, sem, workers, sigPc, mgrPc>>

\* ... and posts the semaphore.
WakePost ==
    /\ wakePc = "post"
    /\ sem' = sem + 1
    /\ wakePc' = "look"
    /\ LeaveNf /\ UNCHANGED <<queues, asleep, workers, sigPc, mgrPc>>

WakeupThread == WakeLook \/ WakeFlag \/ WakeClear \/ WakePost

\* The shutdown of master_thread_main: the workers are stopped, the NF is sent
\* MSG_STOP (nobody looks at whether it fits on the ring) and woken if its flag
\* says that it sleeps.
MgrStopWorkers ==
    /\ "manager" \in Stops /\ mgrPc = "idle"
    /\ workers' = FALSE
    /\ mgrPc' = "send"
    /\ LeaveNf /\ UNCHANGED <<queues, asleep, sem, wakePc, sigPc>>

MgrSendStop ==
    /\ mgrPc = "send"
    /\ msgs' = IF Len(msgs) < MsgSize THEN Append(msgs, "stop") ELSE msgs
    /\ mgrPc' = "flag"
    /\ LeaveNf /\ UNCHANGED <<rx, asleep, sem, wakePc, workers, sigPc>>

MgrFlag ==
    /\ mgrPc = "flag"
    /\ mgrPc' = IF asleep = 1 THEN "clear" ELSE "done"
    /\ LeaveNf /\ UNCHANGED <<queues, asleep, sem, wakePc, workers, sigPc>>

MgrClear ==
    /\ mgrPc = "clear"
    /\ asleep' = 0
    /\ mgrPc' = "post"
    /\ LeaveNf /\ UNCHANGED <<queues, sem, wakePc, workers, sigPc>>

MgrPost ==
    /\ mgrPc = "post"
    /\ sem' = sem + 1
    /\ mgrPc' = "done"
    /\ LeaveNf /\ UNCHANGED <<queues, asleep, wakePc, workers, sigPc>>

MasterThread == MgrSendStop \/ MgrFlag \/ MgrClear \/ MgrPost

-----------------------------------------------------------------------------
(* onvm_nflib_handle_signal *)

LeaveMgr == UNCHANGED <<queues, verdict, nfPc, wakePc, workers, mgrPc, expired>>

SigArrive ==
    /\ "signal" \in Stops /\ sigPc = "idle"
    /\ keep' = FALSE
    /\ sigPc' = "flag"
    /\ LeaveMgr /\ UNCHANGED <<asleep, sem>>

SigFlag ==
    /\ sigPc = "flag"
    /\ sigPc' = IF asleep = 1 THEN "clear" ELSE "done"
    /\ LeaveMgr /\ UNCHANGED <<asleep, sem, keep>>

SigClear ==
    /\ sigPc = "clear"
    /\ asleep' = 0
    /\ sigPc' = "post"
    /\ LeaveMgr /\ UNCHANGED <<sem, keep>>

SigPost ==
    /\ sigPc = "post"
    /\ sem' = sem + 1
    /\ sigPc' = "done"
    /\ LeaveMgr /\ UNCHANGED <<asleep, keep>>

SignalHandler == SigFlag \/ SigClear \/ SigPost

-----------------------------------------------------------------------------
(* What comes from outside *)

\* An RX or TX thread of the manager, or another NF, puts a packet on rx_q.
PacketArrives ==
    /\ rx < RxSize
    /\ rx' = rx + 1
    /\ UNCHANGED <<msgs, asleep, sem, keep, verdict, expired, actors>>

\* Another NF sends a message.
MessageArrives ==
    /\ Len(msgs) < DataSize
    /\ msgs' = Append(msgs, "data")
    /\ UNCHANGED <<rx, asleep, sem, keep, verdict, expired, actors>>

TimePasses ==
    /\ "ttl" \in Stops /\ ~expired
    /\ expired' = TRUE
    /\ UNCHANGED <<queues, asleep, sem, keep, verdict, actors>>

Next ==
    \/ NfThread \/ WakeupThread \/ MgrStopWorkers \/ MasterThread
    \/ SigArrive \/ SignalHandler \/ PacketArrives \/ MessageArrives \/ TimePasses

Spec == Init /\ [][Next]_vars

\* Every thread runs; nothing obliges packets, messages or a stop to come.
Fairness ==
    /\ WF_vars(NfThread) /\ WF_vars(WakeupThread)
    /\ WF_vars(MasterThread) /\ WF_vars(SignalHandler)

FairSpec == Spec /\ Fairness

-----------------------------------------------------------------------------
(* Properties *)

TypeOK ==
    /\ rx \in 0 .. RxSize /\ msgs \in Seq({"data", "stop"}) /\ Len(msgs) <= MsgSize
    /\ asleep \in {0, 1} /\ sem \in Nat
    /\ keep \in BOOLEAN /\ verdict \in BOOLEAN /\ expired \in BOOLEAN /\ workers \in BOOLEAN
    /\ nfPc \in {"check", "test_rx", "test_msg", "mark", "wait", "packets",
                 "messages", "actions", "store", "limits", "exited"}
    /\ wakePc \in {"look", "flag", "clear", "post", "done"}
    /\ sigPc \in {"idle", "flag", "clear", "post", "done"}
    /\ mgrPc \in {"idle", "send", "flag", "clear", "post", "done"}

\* Posts that are decided on and not yet made.
Waking == {a \in {"wake", "sig", "mgr"} :
              \/ a = "wake" /\ wakePc \in {"clear", "post"}
              \/ a = "sig" /\ sigPc \in {"clear", "post"}
              \/ a = "mgr" /\ mgrPc \in {"clear", "post"}}

\* An NF on the semaphore can always be woken: its flag is up for the next
\* waker to see, or the post is on its way or made.
SleeperReachable ==
    nfPc = "wait" => asleep = 1 \/ sem > 0 \/ Waking # {}

\* "Once the NF is in wake state, no additional notifications will be sent
\* until it goes back to sleep": as long as the manager's wakeup thread alone
\* has woken the NF, there is at most one post, and none for an NF that is
\* awake.
OneNotification ==
    sigPc = "idle" /\ mgrPc = "idle" =>
        /\ sem + (IF wakePc = "post" THEN 1 ELSE 0) <= 1
        /\ sem > 0 \/ wakePc \in {"clear", "post"} => nfPc = "wait"

\* Packets and messages that wait are taken by the NF, whatever signal comes
\* between, unless it ends or the manager shuts its wakeup thread down.
EventuallyServed ==
    /\ (rx > 0) ~> (nfPc \in {"packets", "exited"} \/ ~workers)
    /\ (msgs # <<>>) ~> (nfPc \in {"messages", "exited"} \/ ~workers)

\* The stop message ends the NF in the round in which it is taken: the outcome
\* of user_actions, whatever it is, never overrides it (as it may a signal's).
StopMessageEnds ==
    (nfPc = "messages" /\ msgs # <<>> /\ Head(msgs) = "stop") ~> (nfPc = "exited")

\* An NF whose time is over ends with the round it is in; only one that sleeps
\* or is about to goes on past its limit, until it is woken for another reason.
TtlEndsAwake == (expired /\ nfPc = "packets") ~> (nfPc = "exited")

\* "Stops both starting and running NFs": a signalled NF ends.
SignalStops == (sigPc # "idle") ~> (nfPc = "exited")

\* The sleeping NF can be woken, and ring and semaphore stay in their ranges.
SleeperSafe == TypeOK /\ SleeperReachable

\* The stop message and the time limit end the NF in the round in which they are
\* seen, whatever user_actions returns.
StopsInRound == StopMessageEnds /\ TtlEndsAwake
=============================================================================

--------------------------- MODULE TestMessaging ---------------------------
(***************************************************************************)
(* The NF that tests messages (examples/test_messaging): it sends messages *)
(* to itself in three phases.  The NF's loop takes at most one message,    *)
(* hands it to nf_msg_handler, gives its buffer back, then calls           *)
(* test_handler.  Other NFs may send to it, and the time limit may pass.   *)
(***************************************************************************)
EXTENDS Integers, Sequences, FiniteSets, FiniteSetsExt

CONSTANTS
    PoolSize,       \* messages of nf_msg_pool
    RingSize,       \* rte_ring_get_size(msg_q); one slot stays empty
    Burst,          \* messages of test 2 (10)
    MaxStrangers,   \* bound: messages from other NFs
    MaxLate         \* bound: times that the limit passes

VARIABLES
    ts,             \* test_state
    q,              \* [ring, pool]: msg_q and what nf_msg_pool has left
    late,           \* TEST_TIME_LIMIT has passed since start_time
    pc,             \* "loop", "act", "done" or "crashed"
    strangers,      \* history: messages from others
    timeouts        \* history: tests that test_handler gave up

vars == <<ts, q, late, pc, strangers, timeouts>>

Magic == 99
Count(n) == [i \in 1 .. n |-> i - 1]

\* nf_setup.
Init ==
    /\ ts = [phase |-> 0, passed |-> 0, count |-> 0, base |-> 0, status |-> [i \in 1 .. 3 |-> "incomplete"]]
    /\ q = [ring |-> <<>>, pool |-> PoolSize]
    /\ late = FALSE /\ pc = "loop" /\ strangers = 0 /\ timeouts = 0

\* onvm_nflib_send_msg_to_nf, for one message after the other: those that find no
\* buffer or no room are lost.
Send(o, msgs) ==
    LET n == Min({Len(msgs), RingSize - 1 - Len(o.ring), o.pool})
    IN  [ring |-> o.ring \o SubSeq(msgs, 1, n), pool |-> o.pool - n]

\* clear_msg_queue.
Clear(o) == [ring |-> <<>>, pool |-> o.pool + Len(o.ring)]

Passed(t, i) == [t EXCEPT !.passed = @ + 1, !.status[i] = "passed", !.count = 0]
Failed(t, i) == [t EXCEPT !.status[i] = "failed"]

\* nf_msg_handler in phase 1, with left messages behind m.
OneMessage(t, m, left) ==
    LET c == [t EXCEPT !.count = @ + 1]
    IN  IF c.count # 1 THEN c
        ELSE IF left = 0 /\ m = Magic THEN Passed(c, 1) ELSE Failed(c, 1)

\* Mutant: the count is not set back for the next test.
ManyMessagesKeep(t, m, left, avail) ==
    LET i == t.phase
        c == IF m = t.count THEN [t EXCEPT !.count = @ + 1] ELSE Failed(t, i)
    IN  IF c.count # (IF i = 2 THEN Burst ELSE RingSize - 1) THEN c
        ELSE IF left = 0 /\ (i = 2 \/ avail = t.base - 1)
             THEN [Passed(c, i) EXCEPT !.count = c.count] ELSE Failed(c, i)

\* Phases 2 and 3: numbered messages, as many as were sent or fit; at the end of
\* phase 3 only the buffer in hand is away from the pool.
ManyMessages(t, m, left, avail) ==
    LET i == t.phase
        c == IF m = t.count THEN [t EXCEPT !.count = @ + 1] ELSE Failed(t, i)
    IN  IF c.count # (IF i = 2 THEN Burst ELSE RingSize - 1) THEN c
        ELSE IF left = 0 /\ (i = 2 \/ avail = t.base - 1) THEN Passed(c, i) ELSE Failed(c, i)

\* The loop of the NF: onvm_nflib_dequeue_messages.
Dequeue ==
    /\ pc = "loop" /\ pc' = "act"
    /\ IF q.ring = <<>> THEN UNCHANGED <<ts, q>>
       ELSE LET m == Head(q.ring)  left == Len(q.ring) - 1
            IN  /\ ts' = CASE ts.phase = 1        -> OneMessage(ts, m, left)
                           [] ts.phase \in 2 .. 3 -> ManyMessages(ts, m, left, q.pool)
                           [] OTHER               -> ts
                /\ q' = [ring |-> Tail(q.ring), pool |-> q.pool + 1]
    /\ UNCHANGED <<late, strangers, timeouts>>

\* The limit has passed: test_status[test_phase - 1] is written, which is part of
\* msg_q in phase 0 and padding in phase 4.
GiveUp(t) == IF t.phase \in 1 .. 3 THEN [Failed(t, t.phase) EXCEPT !.phase = @ + 1]
             ELSE [t EXCEPT !.phase = @ + 1]

Over(t) == t.phase \in 1 .. 3 /\ t.status[t.phase] # "incomplete"

\* What the next phase starts with.
Messages(phase) == CASE phase = 1 -> <<Magic>> [] phase = 2 -> Count(Burst)
                     [] phase = 3 -> Count(RingSize + 2) [] OTHER -> <<>>

\* test_handler, after the time limit was looked at.
NextPhase(t, o) ==
    /\ IF t.phase = 0 \/ Over(t)
       THEN /\ q' = Send(Clear(o), Messages(t.phase + 1))
            /\ ts' = [t EXCEPT !.phase = @ + 1, !.base = IF t.phase = 0 THEN Clear(o).pool ELSE @]
       ELSE ts' = t /\ q' = o
    /\ pc' = IF t.phase = 4 THEN "done" ELSE "loop"
    /\ UNCHANGED strangers

TestHandler ==
    /\ pc = "act" /\ ~late
    /\ NextPhase(ts, q) /\ UNCHANGED <<late, timeouts>>

TestHandlerLate ==
    /\ pc = "act" /\ late /\ ts.phase > 0
    /\ NextPhase(GiveUp(ts), Clear(q)) /\ late' = FALSE /\ timeouts' = timeouts + 1

\* The write before the array has hit msg_q, which clear_msg_queue reads.
CrashLate ==
    /\ pc = "act" /\ late /\ ts.phase = 0 /\ pc' = "crashed"
    /\ UNCHANGED <<ts, q, late, strangers, timeouts>>

\* Another NF sends a number.
StrangerSends ==
    /\ pc \in {"loop", "act"} /\ strangers < MaxStrangers
    /\ q' = Send(q, <<0>>) /\ strangers' = strangers + 1
    /\ UNCHANGED <<ts, late, pc, timeouts>>

TimePasses ==
    /\ pc \in {"loop", "act"} /\ ~late /\ timeouts < MaxLate /\ late' = TRUE
    /\ UNCHANGED <<ts, q, pc, strangers, timeouts>>

Next == Dequeue \/ TestHandler \/ TestHandlerLate \/ CrashLate \/ StrangerSends \/ TimePasses

Spec == Init /\ [][Next]_vars

-----------------------------------------------------------------------------
\* Every message buffer is in the pool or in the ring between two steps of the loop,
\* whatever was lost, cleared or sent by others.
MessagesAccounted == q.pool + Len(q.ring) = PoolSize

\* The report is right: nobody disturbed and no limit passed, then three tests passed;
\* and as long as no limit passed the number is that of the tests marked PASSED.
ReportSound ==
    /\ pc = "done" /\ strangers = 0 /\ timeouts = 0 => ts.passed = 3
    /\ timeouts = 0 => ts.passed = Cardinality({i \in 1 .. 3 : ts.status[i] = "passed"})
=============================================================================

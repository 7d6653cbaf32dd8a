---------------------------- MODULE TokenBucket ----------------------------
(***************************************************************************)
(* The token bucket of simple_fwd_tb (forward_tb.c): packet_handler_tb     *)
(* waits in a busy loop until there are tokens for the packet.  Tokens are *)
(* made only when they do not suffice, for the time since they were last   *)
(* made, in 64-bit arithmetic.  One tick of the counter is worth Rate      *)
(* units of 1/Hz tokens.                                                   *)
(***************************************************************************)
EXTENDS Integers, Sequences, FiniteSetsExt

CONSTANTS
    Rate, Depth,    \* tb_rate * 1000000 and tb_depth
    Hz,             \* rte_get_timer_hz
    Width,          \* 2^64: where the product wraps around
    Sizes,          \* lengths of packets
    MaxTime,        \* bound: the cycle counter
    MaxSent         \* bound: packets forwarded

VARIABLES
    clock,          \* the cycle counter
    tokens, last,   \* tb_tokens, last_cycle
    pc, pkt,        \* the thread: "idle", "wait" with the packet, "gone"
    exit,           \* signal_exit_flag
    sent            \* history: times and sizes of the packets forwarded

vars == <<clock, tokens, last, pc, pkt, exit, sent>>

\* parse_app_args: the bucket is full; thread_main_loop reads the counter.
Init ==
    /\ clock = 0 /\ tokens = Depth /\ last = 0
    /\ pc = "idle" /\ pkt = 0 /\ exit = FALSE /\ sent = <<>>

Tick ==
    /\ clock < MaxTime /\ clock' = clock + 1
    /\ UNCHANGED <<tokens, last, pc, pkt, exit, sent>>

Signal ==
    /\ ~exit /\ exit' = TRUE
    /\ UNCHANGED <<clock, tokens, last, pc, pkt, sent>>

\* tokens_produced, as the product of three 64-bit numbers.
Produced == (((clock - last) * Rate) % Width) \div Hz

Forward(len, rest) ==
    /\ tokens' = rest - len /\ sent' = Append(sent, [at |-> clock, len |-> len])
    /\ pc' = "idle" /\ pkt' = 0

\* A packet that fits the tokens there are, or is larger than the bucket.
Packet(len) ==
    /\ pc = "idle" /\ ~exit /\ Len(sent) < MaxSent
    /\ IF len > Depth THEN UNCHANGED <<tokens, pc, pkt, sent>>
       ELSE IF tokens < len THEN pc' = "wait" /\ pkt' = len /\ UNCHANGED <<tokens, sent>>
       ELSE Forward(len, tokens)
    /\ UNCHANGED <<clock, last, exit>>

\* The tokens after they were made, up to the depth.
Filled == IF Produced + tokens > Depth THEN Depth ELSE tokens + Produced

\* Mutant: the time of the tokens is not set.
LastKept == last

LastNow == clock

\* The end of the busy loop, which looks at nothing but the counter.
Refill ==
    /\ pc = "wait" /\ Produced + tokens >= pkt
    /\ Forward(pkt, Filled) /\ last' = LastNow
    /\ UNCHANGED <<clock, exit>>

Leave ==
    /\ pc = "idle" /\ exit /\ pc' = "gone"
    /\ UNCHANGED <<clock, tokens, last, pkt, exit, sent>>

Next == Tick \/ Signal \/ Refill \/ Leave \/ \E len \in Sizes : Packet(len)

Spec == Init /\ [][Next]_vars

-----------------------------------------------------------------------------
\* What the packets of the history add up to, all of them and those of one time.
Bytes == MapThenSumSet(LAMBDA i : sent[i].len, DOMAIN sent)
BytesAt(t) == MapThenSumSet(LAMBDA i : sent[i].len, {i \in DOMAIN sent : sent[i].at = t})

\* In the long run no more is forwarded than the bucket held and the rate made,
\* also when the product of the times has wrapped around.
RateKept == Bytes * Hz <= Depth * Hz + Rate * clock

\* A burst, all that is forwarded at one time, is at most two buckets: what was
\* left, and, made up afterwards for the time before, as much again.
BurstTwoBuckets == \A t \in 0 .. clock : BytesAt(t) <= 2 * Depth
=============================================================================

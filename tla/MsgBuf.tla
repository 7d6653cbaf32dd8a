------------------------------- MODULE MsgBuf -------------------------------
(***************************************************************************)
(* The connection of the SDN NF to its controller: the two buffers         *)
(* (examples/flow_table/msgbuf.c), the loop that cuts what was read into   *)
(* messages and answers them (sdn.c: datapath_handle_read), and the writes *)
(* (datapath_handle_write).  Bytes are numbered in the order in which they *)
(* are sent.  A buffer is not compacted: what was taken out of it stays in *)
(* front of `start' until the buffer is empty.                             *)
(***************************************************************************)
EXTENDS Integers, Sequences, SequencesExt

CONSTANTS
    Header,      \* sizeof(struct ofp_header)
    Lengths,     \* the lengths of the messages that the controller sends
    Replies,     \* the length of the answer to each of them, 0 for none
    PacketIn,    \* length of a packet-in
    MaxPacketIn, \* bound: packet-ins sent
    InitLen      \* bufsize of msgbuf_new

Sum(s) == FoldLeft(LAMBDA a, b : a + b, 0, s)
Total  == Sum(Lengths)

VARIABLES
    inbuf, outbuf, \* len, start and end
    base,   \* number of the byte in the first cell of inbuf
    sent,   \* bytes that the controller has written
    parsed, \* messages handled
    asked,  \* packet-ins sent
    pushed, \* bytes put into outbuf
    written \* bytes of them that write() has taken

vars == <<inbuf, outbuf, base, sent, parsed, asked, pushed, written>>

Buffered(m) == m.end - m.start
Double(m)   == [m EXCEPT !.len = 2 * @]

\* msgbuf_read with msgbuf_grow.
Grow(m) == IF m.end >= m.len THEN Double(m) ELSE m

\* msgbuf_pull, and the end of msgbuf_write: the buffer starts from the front
\* again once it is empty.
Pull(m, n) ==
    IF m.start + n >= m.end THEN [m EXCEPT !.start = 0, !.end = 0]
    ELSE [m EXCEPT !.start = @ + n]

\* msgbuf_push.
Push(m, n) ==
    LET fit[l \in m.len .. 4 * m.len * (n + 1)] ==
            IF m.end + n > l THEN fit[2 * l] ELSE l
    IN  [m EXCEPT !.len = fit[m.len], !.end = @ + n]

\* datapath_init: the hello is on its way.
Init ==
    /\ inbuf = [len |-> InitLen, start |-> 0, end |-> 0]
    /\ outbuf = Push([len |-> InitLen, start |-> 0, end |-> 0], Header)
    /\ base = 0 /\ sent = 0 /\ parsed = 0 /\ asked = 0
    /\ pushed = Header /\ written = 0

Write(n) ==
    /\ sent + n <= Total /\ sent' = sent + n
    /\ UNCHANGED <<inbuf, outbuf, base, parsed, asked, pushed, written>>

Received    == base + inbuf.end
Consumed(k) == Sum(SubSeq(Lengths, 1, k))

\* The switch over the type of a message: the bytes of its answer.
Answer(m, n) == IF n = 0 THEN m ELSE Push(m, n)

\* The loop of datapath_handle_read: pull while the next message is complete.
ParseLoop(in, out, b, k) ==
    LET ready(x) == /\ x.k < Len(Lengths) /\ Buffered(x.in) >= Header
                    /\ Buffered(x.in) >= Lengths[x.k + 1]
        one(x, next) ==
            IF ~ready(x) THEN x
            ELSE LET y == Pull(x.in, Lengths[x.k + 1]) IN
                 [in |-> y, k |-> x.k + 1, out |-> Answer(x.out, Replies[x.k + 1]),
                  b |-> IF y.end = 0 THEN x.b + x.in.end ELSE x.b]
    IN  FoldLeft(one, [in |-> in, out |-> out, b |-> b, k |-> k], Lengths)

\* datapath_handle_read: what the socket has, up to the room in the buffer.
HandleRead(n) ==
    /\ n <= sent - Received /\ n <= inbuf.len - inbuf.end
    /\ LET r == ParseLoop(Grow([inbuf EXCEPT !.end = @ + n]), outbuf, base, parsed) IN
       /\ inbuf' = r.in /\ outbuf' = r.out /\ base' = r.b /\ parsed' = r.k
       /\ pushed' = pushed + Sum(SubSeq(Replies, parsed + 1, r.k))
    /\ UNCHANGED <<sent, asked, written>>

\* datapath_handle_write: a packet-in if a new flow is waiting, then write(),
\* which takes n of the bytes or fails.
HandleWrite(new, n) ==
    /\ new => asked < MaxPacketIn
    /\ LET out == IF new THEN Push(outbuf, PacketIn) ELSE outbuf IN
       /\ n <= Buffered(out)
       /\ outbuf' = IF Buffered(out) > 0 THEN Pull(out, n) ELSE out
    /\ asked' = IF new THEN asked + 1 ELSE asked
    /\ pushed' = IF new THEN pushed + PacketIn ELSE pushed
    /\ written' = written + n
    /\ UNCHANGED <<inbuf, base, sent, parsed>>

Next ==
    \/ \E n \in 1 .. Total : Write(n) \/ HandleRead(n)
    \/ \E new \in BOOLEAN, n \in 0 .. outbuf.end + PacketIn : HandleWrite(new, n)

Spec == Init /\ [][Next]_vars

-----------------------------------------------------------------------------
\* There is always room to read: read() is never called for 0 bytes, whose
\* result datapath_handle_read would take for a closed connection.
RoomToRead == inbuf.end < inbuf.len

\* The messages are cut where the controller cut them: the first byte of the
\* buffer is the first byte of the first message not handled, every complete
\* message is handled, and no byte is lost or read twice.
CutAtMessages ==
    /\ base + inbuf.start = Consumed(parsed)
    /\ Received <= sent
    /\ parsed < Len(Lengths) =>
          \/ Buffered(inbuf) < Lengths[parsed + 1]
          \/ Buffered(inbuf) < Header

\* Answers and packet-ins fit the buffer however large they are, and leave it
\* completely: what was not written by a short write is still there.
AnswersKept ==
    /\ outbuf.end <= outbuf.len
    /\ written + Buffered(outbuf) = pushed
=============================================================================

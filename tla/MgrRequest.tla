----------------------------- MODULE MgrRequest -----------------------------
(***************************************************************************)
(* The message buffers that the manager and the NFs share (nf_msg_pool):   *)
(* an NF asks the manager for an LPM region or a flow table and waits for  *)
(* the answer (onvm_nflib_request_lpm, onvm_nflib_request_ft), NFs send    *)
(* each other messages (onvm_nflib_send_msg_to_nf), and the manager sends  *)
(* messages to NFs (onvm_nf_send_msg).                                     *)
(*                                                                         *)
(* A buffer is put into the pool by whoever is done with it.  A request is *)
(* put back twice: by onvm_nf_check_status and by the NF that waited for   *)
(* it.  So the pool is a bag: `pool' counts the copies of each buffer, and *)
(* a buffer with two copies may be handed out twice, its contents          *)
(* overwritten under the first owner.                                      *)
(***************************************************************************)
EXTENDS Integers, Sequences, FiniteSets, SequencesExt, FiniteSetsExt

CONSTANTS
    Nf,         \* NFs
    Buf,        \* the buffers of nf_msg_pool
    QueueSize,  \* NF_MSG_QUEUE_SIZE, and the size of mgr_msg_queue
    MaxRequests \* bound: requests an NF makes

VARIABLES
    pool,   \* copies of each buffer in nf_msg_pool
    body,   \* msg_type and msg_data of each buffer
    queue,  \* mgr_msg_queue: buffers
    inbox,  \* msg_q of each NF: buffers
    status, \* req->status of each NF's request
    pc,     \* where each NF is in its request, and with which buffer
    early,  \* history: NFs whose answer came before they began to wait
    count   \* history: requests made by each NF, requests returned,
            \* buffers that no one will put back, wild pointers put

vars == <<pool, body, queue, inbox, status, pc, early, count>>

Nothing == [type |-> "none", nf |-> CHOOSE n \in Nf : TRUE]

Init ==
    /\ pool = [b \in Buf |-> 1]
    /\ body = [b \in Buf |-> Nothing]
    /\ queue = <<>> /\ inbox = [n \in Nf |-> <<>>]
    /\ status = [n \in Nf |-> "unset"]
    /\ pc = [n \in Nf |-> [at |-> "idle", buf |-> CHOOSE b \in Buf : TRUE]]
    /\ early = {}
    /\ count = [made |-> [n \in Nf |-> 0], returned |-> 0, leaked |-> 0, wild |-> 0]

InPool == MapThenSumSet(LAMBDA b : pool[b], Buf)

Get(b) == pool' = [pool EXCEPT ![b] = @ - 1]
Put(b) == pool' = [pool EXCEPT ![b] = @ + 1]

-----------------------------------------------------------------------------
(* An NF *)

\* onvm_nflib_request_lpm and _ft up to the enqueue.  A full queue gives the
\* buffer back and the request fails.
Request(n, b) ==
    /\ pc[n].at = "idle" /\ pool[b] > 0 /\ count.made[n] < MaxRequests
    /\ body' = [body EXCEPT ![b] = [type |-> "request", nf |-> n]]
    /\ count' = [count EXCEPT !.made[n] = @ + 1]
    /\ early' = early \ {n}
    /\ IF Len(queue) < QueueSize
       THEN /\ Get(b) /\ queue' = Append(queue, b)
            /\ pc' = [pc EXCEPT ![n] = [at |-> "sent", buf |-> b]]
            /\ status' = [status EXCEPT ![n] = "unset"]
       ELSE UNCHANGED <<pool, queue, pc, status>>
    /\ UNCHANGED inbox

\* onvm_nflib_request_ft when the pool is empty: the pointer that was never
\* set is put into the pool, here as a copy of some buffer.
RequestFtEmpty(n, b) ==
    /\ pc[n].at = "idle" /\ InPool = 0 /\ count.made[n] < MaxRequests
    /\ Put(b)
    /\ count' = [count EXCEPT !.made[n] = @ + 1, !.wild = @ + 1]
    /\ UNCHANGED <<body, queue, inbox, status, pc, early>>

\* The status is set after the message is in the queue.
Wait(n) ==
    /\ pc[n].at = "sent"
    /\ pc' = [pc EXCEPT ![n].at = "waiting"]
    /\ early' = IF status[n] # "unset" THEN early \cup {n} ELSE early
    /\ status' = [status EXCEPT ![n] = "waiting"]
    /\ UNCHANGED <<pool, body, queue, inbox, count>>

\* The loop over sleep(1) sees an answer; the buffer is put back.
Return(n) ==
    /\ pc[n].at = "waiting" /\ status[n] # "waiting"
    /\ Put(pc[n].buf)
    /\ pc' = [pc EXCEPT ![n].at = "idle"]
    /\ count' = [count EXCEPT !.returned = @ + 1]
    /\ UNCHANGED <<body, queue, inbox, status, early>>

\* onvm_nflib_send_msg_to_nf: a full ring gives the buffer back.
SendToNf(n, d, b) ==
    /\ pc[n].at = "idle" /\ pool[b] > 0
    /\ body' = [body EXCEPT ![b] = [type |-> "data", nf |-> n]]
    /\ IF Len(inbox[d]) < QueueSize
       THEN Get(b) /\ inbox' = [inbox EXCEPT ![d] = Append(@, b)]
       ELSE UNCHANGED <<pool, inbox>>
    /\ UNCHANGED <<queue, status, pc, early, count>>

\* onvm_nflib_dequeue_messages: one message, handled and put back.
DequeueMessages(n) ==
    /\ pc[n].at = "idle" /\ inbox[n] # <<>>
    /\ Put(Head(inbox[n]))
    /\ inbox' = [inbox EXCEPT ![n] = Tail(@)]
    /\ UNCHANGED <<body, queue, status, pc, early, count>>

-----------------------------------------------------------------------------
(* The manager *)

\* onvm_nf_init_lpm_region and onvm_nf_init_ft: what rte_lpm_create or
\* rte_hash_create makes the answer.
Answers == {"ok", "fail"}

\* Mutant: no answer is written.
HandleSilent(answer) ==
    /\ queue # <<>>
    /\ queue' = Tail(queue)
    /\ Put(Head(queue))
    /\ UNCHANGED <<body, inbox, status, pc, early, count>>

\* onvm_nf_check_status.  The type is read from the buffer when it is handled.
Handle(answer) ==
    /\ queue # <<>>
    /\ queue' = Tail(queue)
    /\ Put(Head(queue))
    /\ status' = IF body[Head(queue)].type = "request"
                 THEN [status EXCEPT ![body[Head(queue)].nf] = answer]
                 ELSE status
    /\ UNCHANGED <<body, inbox, pc, early, count>>

\* onvm_nf_send_msg: the buffer is lost when the ring of the NF is full.
SendMsg(d, b) ==
    /\ pool[b] > 0 /\ Get(b)
    /\ body' = [body EXCEPT ![b] = [type |-> "order", nf |-> d]]
    /\ IF Len(inbox[d]) < QueueSize
       THEN inbox' = [inbox EXCEPT ![d] = Append(@, b)] /\ UNCHANGED count
       ELSE count' = [count EXCEPT !.leaked = @ + 1] /\ UNCHANGED inbox
    /\ UNCHANGED <<queue, status, pc, early>>

Next ==
    \/ \E n \in Nf : Wait(n) \/ Return(n) \/ DequeueMessages(n)
    \/ \E n \in Nf, b \in Buf : Request(n, b) \/ RequestFtEmpty(n, b) \/ SendMsg(n, b)
    \/ \E n, d \in Nf, b \in Buf : SendToNf(n, d, b)
    \/ \E a \in Answers : Handle(a)

Spec == Init /\ [][Next]_vars

-----------------------------------------------------------------------------
InQueues == Len(queue) + MapThenSumSet(LAMBDA n : Len(inbox[n]), Nf)

\* The buffers in the pool and in the rings are the ones the pool was created
\* with, less those that onvm_nf_send_msg dropped on a full ring, plus one for
\* every request that returned and every wild pointer: the second put of a
\* request and the put after a failed get are the only things that make the
\* pool grow, and the full ring of a destination the only leak.
BuffersAccounted ==
    InPool + InQueues = Cardinality(Buf) + count.returned + count.wild - count.leaked

\* As long as no buffer was put back twice or in error, an NF waits only for an
\* answer that is still to come, except one whose answer came between the
\* enqueue and the write of the waiting status: that answer is overwritten
\* and the NF never returns.
AnswerComes ==
    count.returned + count.wild = 0 =>
        \A n \in Nf :
            pc[n].at = "waiting" /\ status[n] = "waiting" /\ n \notin early =>
                \E i \in DOMAIN queue : body[queue[i]] = [type |-> "request", nf |-> n]
=============================================================================

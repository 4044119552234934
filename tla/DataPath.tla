------------------------------- MODULE DataPath -------------------------------
(***************************************************************************)
(* Remote writes: the post and poll calls of HartebeestCore                *)
(* (hartebeest.cc:239-369) and the device they drive.  A queue pair has a  *)
(* send queue of max_send_wr slots, a completion queue has cq_depth        *)
(* entries.  Every request is signaled.  The device executes the requests  *)
(* of a queue pair in order, and gives up on one whose peer does not       *)
(* answer; the queue pair is then in the error state for good, since       *)
(* nothing in the library moves it back.                                   *)
(*                                                                         *)
(* Queue pairs, completion queues and memory regions are objects of the    *)
(* heap obj of the processes, see LocalResources.                          *)
(***************************************************************************)
EXTENDS Naturals, Sequences

CONSTANTS
    Node, Handle, nullptr,      \* as in LocalResources
    Faults,         \* "link": packets get lost; "ibv_poll_cq": it may fail
    max_send_wr,    \* cap.max_send_wr of a queue pair
    cq_depth        \* entries of a completion queue

ASSUME DepthAssumption == max_send_wr \in Nat \ {0} /\ cq_depth \in Nat \ {0}

VARIABLES
    obj,        \* the wrappers, of which this module reads some fields
    buffer,     \* what is in each memory region
    req,        \* the requests ibv_post_send accepted of each queue pair
    wrote,      \* the values the device wrote for them at the peer
    acked,      \* how many of them are completed
    polled,     \* how many completions of each queue pair were polled
    cq,         \* the entries of each completion queue
    broken,     \* the queue pairs in the error state
    overrun,    \* the completion queues that got one entry too many
    told,       \* what the polls made for each queue pair returned
    blind       \* <<q, i>>: the i-th answer for q is of a poll that failed

dataVars == <<buffer, req, wrote, acked, polled, cq, broken, overrun, told, blind>>

Id == Node \X Handle
Wrapper(q) == obj[q[1]][q[2]]

\* struct ibv_qp::send_cq and recv_cq.
SendCq(q) == <<q[1], Wrapper(q).send_cq>>
RecvCq(q) == <<q[1], Wrapper(q).recv_cq>>

DataInit ==
    /\ buffer = [r \in Id |-> 0]
    /\ req = [q \in Id |-> <<>>]
    /\ wrote = [q \in Id |-> <<>>]
    /\ acked = [q \in Id |-> 0]
    /\ polled = [q \in Id |-> 0]
    /\ cq = [c \in Id |-> <<>>]
    /\ broken = {}
    /\ overrun = {}
    /\ told = [q \in Id |-> <<>>]
    /\ blind = {}

-----------------------------------------------------------------------------
(* The calls of the application.                                           *)

\* The application writes a new value into one of its regions.
Fill(r) ==
    /\ buffer' = [buffer EXCEPT ![r] = @ + 1]
    /\ UNCHANGED <<obj, req, wrote, acked, polled, cq, broken, overrun, told, blind>>

\* ibv_post_send takes the request: the queue pair is in RTS or in the error
\* state and has a slot, which is free again when the completion was polled.
\* It refuses an inline payload longer than cap.max_inline_data too; lengths
\* are left out, and a post that is refused is as if it was not made.
Accepts(q) ==
    /\ Wrapper(q).state = "RTS"
    /\ Len(req[q]) - polled[q] < max_send_wr

Request(from, to, inline) ==
    [from |-> from, to |-> to, inline |-> inline, val |-> buffer[from]]

\* Two faulty posts: the request is posted again when it was taken, and its two
\* addresses are swapped.
PostTwice(q, from, to, inline) ==
    /\ LET r == Request(from, to, inline)
       IN  req' = IF Accepts(q) THEN [req EXCEPT ![q] = @ \o <<r, r>>] ELSE req
    /\ UNCHANGED <<obj, buffer, wrote, acked, polled, cq, broken, overrun, told, blind>>
PostSwapped(q, from, to, inline) ==
    /\ LET r == Request(to, from, inline)
       IN  req' = IF Accepts(q) THEN [req EXCEPT ![q] = Append(@, r)] ELSE req
    /\ UNCHANGED <<obj, buffer, wrote, acked, polled, cq, broken, overrun, told, blind>>

(* rdma_post_single_fast and rdma_post_single_signaled_inline, which differ*)
(* in when the payload is read: by the device, or now.  Both return whether*)
(* the request was accepted; the work_id of the caller is not passed on.   *)
Post(q, from, to, inline) ==
    /\ req' = IF Accepts(q)
              THEN [req EXCEPT ![q] = Append(@, Request(from, to, inline))]
              ELSE req
    /\ UNCHANGED <<obj, buffer, wrote, acked, polled, cq, broken, overrun, told, blind>>

\* A faulty poll: the status of the completion is not looked at.
StatusIgnored(wc) == TRUE
\* wc.status = IBV_WC_SUCCESS
Status(wc) == wc.ok

\* A faulty poll: it asks for two completions and has room for one.
ConsumeTwo(c) ==
    /\ cq[c] # <<>>
    /\ cq' = [cq EXCEPT ![c] = IF Len(@) > 1 THEN Tail(Tail(@)) ELSE <<>>]
    /\ polled' = [polled EXCEPT ![Head(cq[c]).qp] = @ + 2]

Consume(c) ==
    /\ cq[c] # <<>>
    /\ cq' = [cq EXCEPT ![c] = Tail(@)]
    /\ polled' = [polled EXCEPT ![Head(cq[c]).qp] = @ + 1]

\* A faulty poll: it does not wait for an entry, and takes none for a success.
PollOnce(q) ==
    /\ told' = [told EXCEPT ![q] =
            Append(@, cq[SendCq(q)] = <<>> \/ Status(Head(cq[SendCq(q)])))]
    /\ IF cq[SendCq(q)] = <<>> THEN UNCHANGED <<cq, polled>> ELSE Consume(SendCq(q))
    /\ UNCHANGED <<obj, buffer, req, wrote, acked, broken, overrun, blind>>

(* rdma_poll on the send queue of q and rdma_send_poll(q): a loop that ends*)
(* when there is an entry, of whatever queue pair, or when ibv_poll_cq     *)
(* fails: the status is then read from a completion nobody wrote.          *)
(* rdma_poll takes any name and dereferences null for one that was never   *)
(* registered; its callers name the send queue of the queue pair they      *)
(* posted to, which is registered.                                         *)
Poll(q) ==
    \/ /\ Consume(SendCq(q))
       /\ told' = [told EXCEPT ![q] = Append(@, Status(Head(cq[SendCq(q)])))]
       /\ UNCHANGED <<obj, buffer, req, wrote, acked, broken, overrun, blind>>
    \/ /\ "ibv_poll_cq" \in Faults
       /\ \E status \in BOOLEAN : told' = [told EXCEPT ![q] = Append(@, status)]
       /\ blind' = blind \cup {<<q, Len(told[q]) + 1>>}
       /\ UNCHANGED <<obj, buffer, req, wrote, acked, polled, cq, broken, overrun>>

(* rdma_recv_poll(q).  No call of the library posts a receive, so all it   *)
(* can find is a completion of a request of a queue pair that sends there. *)
(* It ends when ibv_poll_cq fails too.  Its answer is about nothing that   *)
(* was posted for q, and is not kept.                                      *)
RecvPoll(q) ==
    \/ /\ Consume(RecvCq(q))
       /\ UNCHANGED <<obj, buffer, req, wrote, acked, broken, overrun, told, blind>>
    \/ /\ "ibv_poll_cq" \in Faults
       /\ UNCHANGED <<obj, dataVars>>

-----------------------------------------------------------------------------
(* The device.                                                             *)

\* What q sends reaches its peer: the queue pair at that address is ready and
\* was connected to one of the same machine.
Reaches(q) ==
    LET p == Wrapper(q).peer IN
    /\ p # nullptr
    /\ Wrapper(p).kind = "qp"
    /\ Wrapper(p).state \in {"RTR", "RTS"}
    /\ Wrapper(p).peer[1] = q[1]
    /\ p \notin broken

\* And what the peer answers reaches q.
Mutual(q) == Reaches(q) /\ Wrapper(Wrapper(q).peer).peer = q

Active(q) == Wrapper(q).kind = "qp" /\ Wrapper(q).state = "RTS" /\ q \notin broken
Registered(r) == Wrapper(r).kind = "mr" /\ Wrapper(r).made

\* The next request the device has not executed yet.
NextWrite(q) == req[q][Len(wrote[q]) + 1]

\* A faulty post: it does not ask for a completion of what succeeds.
CompleteUnsignaled(q, ok, down) ==
    /\ acked' = [acked EXCEPT ![q] = @ + 1]
    /\ cq' = IF ok THEN cq
             ELSE [cq EXCEPT ![SendCq(q)] = Append(@, [qp |-> q, ok |-> ok])]
    /\ broken' = broken \cup down
    /\ UNCHANGED <<obj, req, polled, overrun, told, blind>>

\* One more request of q is completed, the queue pairs in down broke.
Complete(q, ok, down) ==
    LET c == SendCq(q)
        full == Len(cq[c]) = cq_depth
    IN  /\ acked' = [acked EXCEPT ![q] = @ + 1]
        /\ IF c \in overrun \/ full
           THEN /\ overrun' = overrun \cup {c}
                /\ broken' = broken \cup down
                     \cup {p \in Id : Wrapper(p).kind = "qp" /\ SendCq(p) = c}
                /\ UNCHANGED cq
           ELSE /\ cq' = [cq EXCEPT ![c] = Append(@, [qp |-> q, ok |-> ok])]
                /\ broken' = broken \cup down
                /\ UNCHANGED overrun
        /\ UNCHANGED <<obj, req, polled, told, blind>>

\* What a request carries was read at the post or is read when it is sent.
Carried(r) == IF r.inline THEN r.val ELSE buffer[r.from]

\* The write arrives.
Land(q) ==
    /\ Active(q) /\ Reaches(q)
    /\ Len(wrote[q]) < Len(req[q])
    /\ Registered(NextWrite(q).to)
    /\ LET v == Carried(NextWrite(q))
       IN  /\ wrote' = [wrote EXCEPT ![q] = Append(@, v)]
           /\ buffer' = [buffer EXCEPT ![NextWrite(q).to] = v]
    /\ UNCHANGED <<obj, req, acked, polled, cq, broken, overrun, told, blind>>

\* The acknowledgement arrives.
Ack(q) ==
    /\ Active(q) /\ Mutual(q)
    /\ acked[q] < Len(wrote[q])
    /\ Complete(q, TRUE, {})
    /\ UNCHANGED <<buffer, wrote>>

\* The region is not registered any more: an error at both ends.
Refuse(q) ==
    /\ Active(q) /\ Mutual(q)
    /\ acked[q] = Len(wrote[q]) /\ Len(wrote[q]) < Len(req[q])
    /\ ~Registered(NextWrite(q).to)
    /\ Complete(q, FALSE, {q, Wrapper(q).peer})
    /\ UNCHANGED <<buffer, wrote>>

\* retry_cnt retransmissions got no answer, whether or not the write arrived.
GiveUp(q) ==
    /\ Active(q)
    /\ acked[q] < Len(req[q])
    /\ ~Mutual(q) \/ "link" \in Faults
    /\ Complete(q, FALSE, {q})
    /\ UNCHANGED <<buffer, wrote>>

\* What was posted to a broken queue pair completes with an error.
Flush(q) ==
    /\ Wrapper(q).kind = "qp" /\ q \in broken
    /\ acked[q] < Len(req[q])
    /\ Complete(q, FALSE, {})
    /\ UNCHANGED <<buffer, wrote>>

Device(q) == Land(q) \/ Ack(q) \/ Refuse(q) \/ GiveUp(q) \/ Flush(q)

=============================================================================

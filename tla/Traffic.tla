-------------------------------- MODULE Traffic --------------------------------
(***************************************************************************)
(* Applications that write to each other's memory over queue pairs set up  *)
(* in some way: each end is connected when its process gets to it, and an  *)
(* application that keeps to the calls posts, polls once for every request *)
(* the post took, and touches a payload again only when it has an answer   *)
(* for everything posted from it.                                          *)
(***************************************************************************)
EXTENDS DataPath, FiniteSets

CONSTANTS
    Pair,       \* the queue pairs
    Sender,     \* those of Pair the applications post to
    send_cq, recv_cq,   \* their completion queues
    peer,       \* the queue pair each is connected to
    payload,    \* the region each sender posts from
    target,     \* the region each sender writes to
    Inline,     \* whether each sender posts inline, or which of the two it likes
    Gone,       \* the regions whose information outlived them
    Setup,      \* the sets of senders that may be in use together
    MaxPost,    \* bounds the requests of each sender
    MaxBlind    \* bounds the polls of each sender that fail

\* The applications of the module do not share payloads.
ASSUME WiringAssumption ==
    /\ Sender \subseteq Pair /\ Pair \subseteq Id /\ IsFiniteSet(Pair)
    /\ send_cq \in [Pair -> Handle] /\ recv_cq \in [Pair -> Handle]
    /\ peer \in [Pair -> Pair] /\ \A q \in Pair : peer[q][1] # q[1]
    /\ payload \in [Sender -> Id] /\ target \in [Sender -> Id]
    /\ \A p, q \in Sender : /\ payload[p] # target[q]
                            /\ p # q => payload[p] # payload[q]
    /\ nullptr \notin Id
    /\ Setup \subseteq SUBSET Sender
    /\ Inline \in [Sender -> SUBSET BOOLEAN]
    /\ MaxPost \in [Sender -> Nat] /\ MaxBlind \in [Sender -> Nat]

VARIABLE use    \* the senders in use

vars == <<use, obj, buffer, req, wrote, acked, polled, cq, broken, overrun, told, blind>>

\* A queue pair that only its own requests complete on.
Exclusive ==
    { q \in Sender : \A p \in Pair :
        /\ p # q => <<p[1], send_cq[p]>> # <<q[1], send_cq[q]>>
        /\ <<p[1], recv_cq[p]>> # <<q[1], send_cq[q]>> }

\* The fields of the wrappers this module looks at.
PairAt(q, state, dest) ==
    [ kind |-> "qp", made |-> TRUE, state |-> state, peer |-> dest,
      send_cq |-> send_cq[q], recv_cq |-> recv_cq[q] ]
Region(r) ==
    [ kind |-> "mr", made |-> r \notin Gone, state |-> "none", peer |-> nullptr,
      send_cq |-> nullptr, recv_cq |-> nullptr ]

\* The queue pairs in use were initialised, the others not.
Init ==
    /\ use \in Setup
    /\ obj = [n \in Node |-> [h \in Handle |->
            LET q == <<n, h>>
                state == IF q \in use \cup {peer[p] : p \in use} THEN "INIT" ELSE "RESET"
            IN  IF q \in Pair THEN PairAt(q, state, nullptr) ELSE Region(q)]]
    /\ DataInit

\* connect_local_qp, which may stop half way.
Connect(q) ==
    /\ Wrapper(q).state = "INIT"
    /\ \E state \in {"RTS"} \cup IF "ibv_modify_qp" \in Faults THEN {"RTR"} ELSE {} :
         obj' = [obj EXCEPT ![q[1]][q[2]] = PairAt(q, state, peer[q])]
    /\ UNCHANGED <<use, dataVars>>

\* The answer to everything posted to q is there.
Settled(q) == Len(told[q]) = Len(req[q])

\* At most one new payload for each request.
Refill(q) ==
    /\ Settled(q) /\ buffer[payload[q]] <= Len(req[q])
    /\ Len(req[q]) < MaxPost[q]
    /\ Fill(payload[q])

Send(q, inline) ==
    /\ Len(req[q]) < MaxPost[q] /\ buffer[payload[q]] > 0
    /\ Post(q, payload[q], target[q], inline)

Await(q) ==
    /\ ~Settled(q)
    /\ Poll(q)
    /\ Cardinality({a \in blind' : a[1] = q}) <= MaxBlind[q]

Next ==
    \/ \E q \in Pair : Connect(q)
    \/ UNCHANGED use /\ \E q \in Pair : RecvPoll(q) \/ Device(q)
    \/ UNCHANGED use /\ \E q \in use :
         \/ Refill(q)
         \/ \E inline \in Inline[q] : Send(q, inline)
         \/ Await(q)

\* The devices execute, acknowledge or give up, and a process that polls
\* goes on doing so and takes what it finds.  Nothing makes an application post
\* or connect, and no poll has to fail.
Spec ==
    /\ Init /\ [][Next]_vars
    /\ WF_vars(UNCHANGED use /\ \E q \in Pair : Device(q))
    /\ WF_vars(UNCHANGED use /\ \E q \in Sender : Await(q) /\ UNCHANGED blind)

-----------------------------------------------------------------------------
\* The heap and the data path have their types, and the counters of a queue
\* pair are in the order in which a request passes them.
TrafficTypeOK ==
    /\ buffer \in [Id -> Nat]
    /\ \A q \in Sender : buffer[payload[q]] <= MaxPost[q]
    /\ \A q \in Id : /\ polled[q] <= acked[q] /\ acked[q] <= Len(req[q])
                     /\ Len(wrote[q]) <= Len(req[q])
    /\ \A c \in Id : Len(cq[c]) <= cq_depth
    /\ broken \subseteq Pair
    /\ \A a \in blind : a[1] \in Sender /\ a[2] \in DOMAIN told[a[1]]

Payloads(s) == [i \in DOMAIN s |-> s[i].val]
Channel(q) ==
    INSTANCE WriteChannel WITH Payload <- 0..MaxPost[q],
        want <- Payloads(req[q]), done <- wrote[q], said <- told[q]

\* A queue pair that shares its completion queue with no other keeps the
\* promises of a write channel, although a completion does not say which
\* request it is of (wr_id is always 0, hartebeest.cc:258) and a write that is
\* not inline reads its payload long after the post returned.  It does so until
\* a poll of its own failed.
Sighted(q) == \A i \in DOMAIN told[q] : <<q, i>> \notin blind
ImplementsChannel ==
    /\ \A q \in Exclusive : Channel(q)!Init
    /\ [][\A q \in Exclusive :
            Sighted(q)' => [Channel(q)!Next]_(Channel(q)!vars)]_vars

Sharers(c) == { q \in Sender : <<q[1], send_cq[q]>> = c }

\* The answers given for the queue pairs that complete on c, those of polls that
\* did not fail and are yes, and what was written for these queue pairs.
Answers(c) == UNION { {q} \X DOMAIN told[q] : q \in Sharers(c) }
Yes(c) == { a \in Answers(c) \ blind : told[a[1]][a[2]] }
Writes(c) == UNION { {q} \X DOMAIN wrote[q] : q \in Sharers(c) }

\* No completion is taken for two answers: at no time did the polls on a
\* completion queue say yes more often than something was written, although the
\* pollers of the queue take each other's completions, of any of their requests.
YesIsBacked == \A c \in Id : Cardinality(Yes(c)) <= Cardinality(Writes(c))

\* The answers of the polls on a shared completion queue may be swapped, but
\* when all of its queue pairs got all theirs, and all are yes, all is written.
AllYesMeansAllWritten ==
    \A c \in Id :
        (\A q \in Sharers(c) :
            Settled(q) /\ Sighted(q) /\ \A i \in DOMAIN told[q] : told[q][i])
                => \A q \in Sharers(c) : Len(wrote[q]) = Len(req[q])

\* A completion queue does not overrun when cq_depth covers the send queues of
\* all the queue pairs that complete on it: cq_depth and max_send_wr are
\* configured one by one, and nothing compares them.
SizedNeverOverruns ==
    \A c \in Id : Cardinality(Sharers(c)) * max_send_wr <= cq_depth => c \notin overrun

\* The completions taken of those of the queue pairs that complete on c.
Taken(c) == UNION { {q} \X (1..polled[q]) : q \in Sharers(c) }

\* Everybody who polls once for every request the post took gets the answers,
\* whatever becomes of the link and of the peer, but for two cases: the
\* completion queue overran, or a poll of a receive queue took a completion that
\* was waited for.  In both, a poll spins for ever: rdma_poll has no limit.
SendCqs == { <<q[1], send_cq[q]>> : q \in Sender }
EveryPostAnswered ==
    \A c \in SendCqs :
        []<>(\/ \A q \in Sharers(c) : Settled(q)
            \/ c \in overrun
            \/ Cardinality(Answers(c) \ blind) < Cardinality(Taken(c)))

=============================================================================

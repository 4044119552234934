-------------------------------- MODULE Bringup --------------------------------
(***************************************************************************)
(* The flow of an application (README.md:151, steps 1 to 10) as the test   *)
(* test/core-test.cc runs it on two nodes: each node creates its resources,*)
(* publishes them under names that carry its node id, waits for those of   *)
(* the other node and connects.  The test looks at no return value.        *)
(***************************************************************************)
EXTENDS HartebeestCore, Sequences

CONSTANTS
    mr_name, qp_name    \* the Memcached keys a node publishes under

ASSUME NameAssumption ==
    /\ mr_name \in [Node -> MrName]
    /\ qp_name \in [Node -> QpName]
    /\ \A n, m \in Node : n # m => /\ mr_name[n] # mr_name[m]
                                   /\ qp_name[n] # qp_name[m]
    /\ \E n, m \in Node : n # m /\ Node = {n, m}

\* The names of the test for the resources of a node.
ASSUME FlowKeyAssumption ==
    "pd" \in PdKey /\ "mr" \in MrKey /\ "qp" \in QpKey /\ {"cq-1", "cq-2"} \subseteq CqKey

VARIABLES
    pc,     \* the next call of the flow each process makes
    ok      \* did every call of the process so far return true

flowVars == <<proc, launch, obj, pdCache, cqCache, mrCache, qpCache, ret,
              memc, remoteMr, remoteQp, pc, ok>>

Other(n) == CHOOSE m \in Node : m # n

\* Two faulty flows: connecting before the remote queue pair was fetched, and
\* waiting for the other node's region before publishing one's own.
FlowConnectsEarly ==
        << "create_local_pd", "create_local_mr", "memc_push_local_mr",
           "memc_fetch_remote_mr", "create_basiccq-1", "create_basiccq-2",
           "create_local_qp", "init_local_qp", "memc_push_local_qp",
           "connect_local_qp", "memc_fetch_remote_qp" >>
FlowFetchesFirst ==
        << "create_local_pd", "create_local_mr", "memc_fetch_remote_mr",
           "memc_push_local_mr", "create_basiccq-1", "create_basiccq-2",
           "create_local_qp", "init_local_qp", "memc_push_local_qp",
           "memc_fetch_remote_qp", "connect_local_qp" >>

Flow == << "create_local_pd", "create_local_mr", "memc_push_local_mr",
           "memc_fetch_remote_mr", "create_basiccq-1", "create_basiccq-2",
           "create_local_qp", "init_local_qp", "memc_push_local_qp",
           "memc_fetch_remote_qp", "connect_local_qp" >>

At(n, call) == pc[n] \in DOMAIN Flow /\ Flow[pc[n]] = call
Finished(n) == Running(n) /\ pc[n] = Len(Flow) + 1

FlowInit ==
    /\ Init
    /\ pc = [n \in Node |-> 1]
    /\ ok = [n \in Node |-> TRUE]

Call(n) ==
    \/ At(n, "create_local_pd")  /\ CreateLocalPd(n, "pd") /\ Carry(n)
    \/ At(n, "create_local_mr")  /\ CreateLocalMr(n, "pd", "mr") /\ Carry(n)
    \/ At(n, "memc_push_local_mr") /\ PushLocalMr(n, mr_name[n], "pd", "mr")
    \/ At(n, "memc_fetch_remote_mr") /\ FetchRemoteMr(n, mr_name[Other(n)])
    \/ At(n, "create_basiccq-1") /\ CreateBasicCq(n, "cq-1") /\ Carry(n)
    \/ At(n, "create_basiccq-2") /\ CreateBasicCq(n, "cq-2") /\ Carry(n)
    \/ At(n, "create_local_qp")
         /\ CreateLocalQp(n, "pd", "qp", "cq-1", "cq-2") /\ Carry(n)
    \/ At(n, "init_local_qp")    /\ InitLocalQp(n, "pd", "qp") /\ Carry(n)
    \/ At(n, "memc_push_local_qp") /\ PushLocalQp(n, qp_name[n], "pd", "qp")
    \/ At(n, "memc_fetch_remote_qp") /\ FetchRemoteQp(n, qp_name[Other(n)])
    \/ At(n, "connect_local_qp")
         /\ ConnectLocalQp(n, "pd", "qp", qp_name[Other(n)])

\* The next call of the flow, whatever the last one returned.
FlowStep(n) ==
    /\ Call(n)
    /\ pc' = [pc EXCEPT ![n] = IF Running(n)' THEN @ + 1 ELSE 1]
    /\ ok' = [ok EXCEPT ![n] = @ /\ (Running(n)' => ret'[n] = "true")]

\* The process is stopped from outside, at any point of the flow.
Crash(n) ==
    /\ "kill" \in Faults
    /\ Kill(n) /\ Carry(n)
    /\ pc' = [pc EXCEPT ![n] = 1]
    /\ UNCHANGED ok

\* The application is launched again and starts the flow over.
Restart(n) ==
    /\ Relaunch(n)
    /\ ok' = [ok EXCEPT ![n] = TRUE]
    /\ UNCHANGED <<memc, remoteMr, remoteQp, pc>>

FlowNext == \E n \in Node : FlowStep(n) \/ Crash(n) \/ Restart(n)

\* A process that runs goes on to its next call: the operating system runs
\* it, and the poll of a fetch answers once the key is on the server.  Nothing
\* makes an ended process be launched again.
FlowSpec ==
    FlowInit /\ [][FlowNext]_flowVars /\ \A n \in Node : WF_flowVars(FlowStep(n))

-----------------------------------------------------------------------------
\* pc and ok have their types, on top of those of the core.
FlowTypeOK ==
    /\ TypeOK
    /\ pc \in [Node -> 1..(Len(Flow) + 1)]
    /\ ok \in [Node -> BOOLEAN]

\* The queue pair a node created in the flow.
MyQp(n) == obj[n][local_qp(n, "pd", "qp")]

\* The two ends name each other, both in RTS.
Connected(n, m) ==
    /\ MyQp(n).state = "RTS"
    /\ MyQp(n).peer = <<m, local_qp(m, "pd", "qp")>>

AllFinished == \A n \in Node : Finished(n)

\* What two nodes that are done have made of each other when all their calls
\* returned true, although no call of the flow ever looks at the other end: an
\* end that is not connected to the other one's names a queue pair of an
\* earlier launch, whose key is never deleted, and one end at least is
\* connected, since the node that published last fetched after the other.
EndsMeet ==
    AllFinished /\ (\A n \in Node : ok[n]) =>
        /\ \A n \in Node : \/ Connected(n, Other(n))
                           \/ /\ launch[Other(n)] > 1
                              /\ Denotes(MyQp(n).peer).kind = "dead"
        /\ \E n \in Node : Connected(n, Other(n))

\* A node whose calls all returned true has, when it is done, a queue pair in
\* RTS whose destination is one the other node published; it may be one of an
\* earlier launch.
TrueMeansLinked ==
    \A n \in Node : Finished(n) /\ ok[n] =>
        /\ MyQp(n).state = "RTS"
        /\ MyQp(n).peer[1] = Other(n)
        /\ Describes(MyQp(n).peer, "qp")

\* When no external call fails the flow never reaches an assert or a null
\* pointer, whatever becomes of the other node meanwhile.
NeverAborts == Faults \subseteq {"kill"} => \A n \in Node : proc[n] # "aborted"

\* A process that aborts in the flow had a warning it could have heeded: some
\* call of its own returned false before.  The completion queue is the
\* exception, see RegisteredCqIsCreated, and so are the wrappers whose
\* constructors assert what they allocated.
AbortsOnlyAfterFalse ==
    Faults \cap {"ibv_create_cq", "ibv_alloc_pd", "ibv_create_qp",
                 "aligned_alloc"} = {}
      => \A n \in Node : proc[n] = "aborted" => ~ok[n]

\* The two nodes do not wait for each other forever: when both stay up from
\* some point on, both get through the flow, also after relaunches.
StayingUpFinishes ==
    (\A n \in Node : <>[]Running(n)) => \A n \in Node : <>[]Finished(n)

=============================================================================

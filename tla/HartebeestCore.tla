---------------------------- MODULE HartebeestCore ----------------------------
(***************************************************************************)
(* The exchange of resource information (hartebeest.cc, hb_memc.cc) and    *)
(* the connection of queue pairs (connect_local_qp, Qp::transit_rtr and    *)
(* transit_rts).  A process publishes what a peer needs of a memory region *)
(* or a queue pair under a key of a Memcached server all processes share;  *)
(* a peer fetches it into a wrapper of its own, caches the wrapper, and    *)
(* connects a local queue pair to what the wrapper says.                   *)
(*                                                                         *)
(* Memcached outlives the processes: the library never deletes a key it    *)
(* pushed.  A Memcached call is atomic at the server; every other step of  *)
(* a call touches only its own process.                                    *)
(***************************************************************************)
EXTENDS LocalResources

CONSTANTS
    MrName, QpName      \* the Memcached keys of memory regions, queue pairs

\* The application does not use one key for two kinds of resource.
ASSUME KeyAssumption == MrName \cap QpName = {}

VARIABLES
    memc,       \* the Memcached server: key -> published information
    remoteMr,   \* HartebeestCore::remote_mr_cache of each process
    remoteQp    \* HartebeestCore::remote_qp_cache of each process

exchangeVars == <<memc, remoteMr, remoteQp>>
vars == <<proc, launch, obj, pdCache, cqCache, mrCache, qpCache, ret,
          memc, remoteMr, remoteQp>>

\* A faulty unflatten_info: the fields are read in the wrong order.
NewRemoteSwapped(kind, info) ==
    [Blank(kind) EXCEPT !.made = TRUE, !.peer = <<info[2], info[1]>>]
NewRemote(kind, info) ==
    [Blank(kind) EXCEPT !.made = TRUE, !.peer = info]

Init ==
    /\ LocalInit
    /\ memc = EmptyCache(MrName \cup QpName)
    /\ remoteMr = [n \in Node |-> EmptyCache(MrName)]
    /\ remoteQp = [n \in Node |-> EmptyCache(QpName)]

\* The caches of remote resources end with the process.
RemoteCachesEndWith(n) ==
    /\ remoteMr' = [remoteMr EXCEPT ![n] = EmptyCache(MrName)]
    /\ remoteQp' = [remoteQp EXCEPT ![n] = EmptyCache(QpName)]
    /\ UNCHANGED memc

AbortCore(n) == Abort(n) /\ RemoteCachesEndWith(n)

\* What a call of the LocalResources interface does to the rest.
Carry(n) ==
    IF Running(n)' THEN UNCHANGED exchangeVars ELSE RemoteCachesEndWith(n)

LocalCall(n) == LocalStep(n) /\ Carry(n)

\* Exchanger::set: when libmemcached reports an error (a timeout, a lost
\* connection) the server may have stored the value or not.
set(n, key, info) ==
    \/ memc' = [memc EXCEPT ![key] = info] /\ Return(n, TRUE)
    \/ /\ "memcached_set" \in Faults
       /\ memc' \in {memc, [memc EXCEPT ![key] = info]}
       /\ Return(n, FALSE)

\* Exchanger::get: the published information, nullptr when there is none.
get(key) == memc[key]

(* HartebeestCore::memc_push_local_mr; flatten_info asserts on a wrapper   *)
(* without an ibv_mr.                                                      *)
PushLocalMr(n, memc_key, pd_key, mr_key) ==
    LET callable == /\ HasMr(n, pd_key, mr_key)
                    /\ obj[n][local_mr(n, pd_key, mr_key)].made
    IN  /\ Running(n)
        /\ \/ ~callable /\ AbortCore(n)
           \/ /\ callable
              /\ set(n, memc_key, <<n, local_mr(n, pd_key, mr_key)>>)
              /\ UNCHANGED <<proc, launch, obj, pdCache, cqCache, mrCache,
                             qpCache, remoteMr, remoteQp>>

(* HartebeestCore::memc_push_local_qp.                                     *)
PushLocalQp(n, memc_key, pd_key, qp_key) ==
    /\ Running(n)
    /\ \/ ~HasQp(n, pd_key, qp_key) /\ AbortCore(n)
       \/ /\ HasQp(n, pd_key, qp_key)
          /\ set(n, memc_key, <<n, local_qp(n, pd_key, qp_key)>>)
          /\ UNCHANGED <<proc, launch, obj, pdCache, cqCache, mrCache,
                         qpCache, remoteMr, remoteQp>>

(* HartebeestCore::memc_fetch_remote_mr: a loop that only ends when the    *)
(* key is there.  Every fetch allocates a wrapper; whether the cache took  *)
(* it is not looked at, and the call always returns true.                  *)
FetchRemoteMr(n, memc_key) ==
    /\ Running(n)
    /\ get(memc_key) # nullptr
    /\ \E h \in Fresh(n) :
         /\ Store(n, h, NewRemote("rmr", get(memc_key)))
         /\ remoteMr' =
              [remoteMr EXCEPT ![n] = register_resrc(@, memc_key, h)]
    /\ Return(n, TRUE)
    /\ UNCHANGED <<proc, launch, pdCache, cqCache, mrCache, qpCache,
                   memc, remoteQp>>

(* HartebeestCore::memc_fetch_remote_qp.                                   *)
FetchRemoteQp(n, memc_key) ==
    /\ Running(n)
    /\ get(memc_key) # nullptr
    /\ \E h \in Fresh(n) :
         /\ Store(n, h, NewRemote("rqp", get(memc_key)))
         /\ remoteQp' =
              [remoteQp EXCEPT ![n] = register_resrc(@, memc_key, h)]
    /\ Return(n, TRUE)
    /\ UNCHANGED <<proc, launch, pdCache, cqCache, mrCache, qpCache,
                   memc, remoteMr>>

\* A faulty connect_local_qp: the address of the wrapper for what it holds.
RemoteInfoOfWrapper(n, remote_qp_key) ==
    <<n, get_resrc(remoteQp[n], remote_qp_key)>>

\* get_remote_qp, and the resource its wrapper describes.
RemoteInfo(n, remote_qp_key) == obj[n][get_resrc(remoteQp[n], remote_qp_key)].peer

(* HartebeestCore::connect_local_qp: INIT -> RTR with the destination,     *)
(* then RTR -> RTS.  Either move may fail; the first is not undone when    *)
(* the second does.                                                        *)
ConnectLocalQp(n, pd_key, qp_key, remote_qp_key) ==
    LET callable == /\ is_registered(remoteQp[n], remote_qp_key)
                    /\ HasQp(n, pd_key, qp_key)
        h == local_qp(n, pd_key, qp_key)
        moved(state) == Store(n, h, [obj[n][h] EXCEPT
                          !.state = state,
                          !.peer = RemoteInfo(n, remote_qp_key)])
        faulty == "ibv_modify_qp" \in Faults
    IN  /\ Running(n)
        /\ \/ ~callable /\ AbortCore(n)
           \/ /\ callable
              /\ \/ /\ CanMove(n, h, "RTR")
                    /\ moved("RTS")
                    /\ Return(n, TRUE)
                 \/ /\ CanMove(n, h, "RTR") /\ faulty       \* transit_rts
                    /\ moved("RTR")
                    /\ Return(n, FALSE)
                 \/ /\ ~CanMove(n, h, "RTR") \/ faulty      \* transit_rtr
                    /\ UNCHANGED obj
                    /\ Return(n, FALSE)
              /\ UNCHANGED <<proc, launch, pdCache, cqCache, mrCache, qpCache,
                             memc, remoteMr, remoteQp>>

(* The server drops a key: memory pressure or a restart.                   *)
Evict(memc_key) ==
    /\ "memcached_evict" \in Faults
    /\ memc[memc_key] # nullptr
    /\ memc' = [memc EXCEPT ![memc_key] = nullptr]
    /\ UNCHANGED <<proc, launch, obj, pdCache, cqCache, mrCache, qpCache, ret,
                   remoteMr, remoteQp>>

Step(n) ==
    \/ LocalCall(n)
    \/ \E k \in MrName, pd_key \in PdKey, mr_key \in MrKey :
         PushLocalMr(n, k, pd_key, mr_key)
    \/ \E k \in QpName, pd_key \in PdKey, qp_key \in QpKey :
         PushLocalQp(n, k, pd_key, qp_key)
    \/ \E k \in MrName : FetchRemoteMr(n, k)
    \/ \E k \in QpName : FetchRemoteQp(n, k)
    \/ \E k \in QpName, pd_key \in PdKey, qp_key \in QpKey :
         ConnectLocalQp(n, pd_key, qp_key, k)

Next == (\E n \in Node : Step(n)) \/ (\E k \in MrName \cup QpName : Evict(k))

Spec == Init /\ [][Next]_vars

-----------------------------------------------------------------------------
\* Every variable has the type its comment says.
TypeOK ==
    /\ LocalTypeOK
    /\ memc \in [MrName \cup QpName -> Info \cup {nullptr}]
    /\ remoteMr \in [Node -> [MrName -> Address]]
    /\ remoteQp \in [Node -> [QpName -> Address]]

\* The resource an information denotes, and whether the process that owned it
\* when it was published has ended since.
Denotes(info) == obj[info[1]][info[2]]
OwnerEnded(info) == ~Running(info[1]) \/ launch[info[1]] > 1

\* An information about a resource of some kind: the resource is still there,
\* or its process ended and nobody told those that hold the information.
Describes(info, kind) ==
    \/ Denotes(info).kind = kind /\ Denotes(info).made
    \/ Denotes(info).kind = "dead" /\ OwnerEnded(info)

\* What is on the server, in the remote caches and in a connected queue pair
\* describes a resource of the class it was published as, and goes stale in
\* one way only, the end of the process that published it.  Five calls of two
\* processes lie between create_local_qp on one side and the destination
\* Qp::transit_rtr gives the device on the other.
StaleOnlyIfOwnerEnded ==
    /\ \A k \in MrName : memc[k] # nullptr => Describes(memc[k], "mr")
    /\ \A k \in QpName : memc[k] # nullptr => Describes(memc[k], "qp")
    /\ \A n \in Node, h \in Handle :
         /\ obj[n][h].kind = "rmr" => Describes(obj[n][h].peer, "mr")
         /\ obj[n][h].kind = "rqp" => Describes(obj[n][h].peer, "qp")
         /\ obj[n][h].kind = "qp" =>
              IF obj[n][h].state \in {"RTR", "RTS"}
              THEN Describes(obj[n][h].peer, "qp")
              ELSE obj[n][h].peer = nullptr

\* A queue pair is connected at most once in its life: its destination never
\* changes, its state never goes back, and one that transit_rts left in RTR
\* stays there, since a second connect_local_qp stops at transit_rtr.
ConnectedOnce ==
    [][\A n \in Node, h \in Handle :
         obj[n][h].kind = "qp" /\ obj'[n][h].kind # "dead" =>
           LET o == obj[n][h]  o2 == obj'[n][h] IN
           /\ o.peer # nullptr => o2.peer = o.peer /\ o2.state = o.state
           /\ o.state = "INIT" => o2.state # "RESET"
      ]_vars

\* README.md:117: a fetched resource is registered to the local cache.  Read
\* as the caller must read it: after a fetch the cache holds what was fetched.
FetchedIsRegistered ==
    [][\A n \in Node, h \in Handle :
         obj[n][h].kind = "free" /\ obj'[n][h].kind = "rqp" =>
           \E k \in QpName : obj'[n][remoteQp'[n][k]].peer = obj'[n][h].peer
      ]_vars

\* The rest of the inductive invariant the proofs use: the remote caches hold
\* wrappers of their own class, remote wrappers and connected queue pairs carry
\* an information, and launches are counted.
RemoteCachesHoldWrappers ==
    \A n \in Node :
        /\ \A k \in MrName : remoteMr[n][k] # nullptr =>
                                obj[n][remoteMr[n][k]].kind = "rmr"
        /\ \A k \in QpName : remoteQp[n][k] # nullptr =>
                                obj[n][remoteQp[n][k]].kind = "rqp"
PeersSet ==
    \A n \in Node, h \in Handle :
        LET o == obj[n][h] IN
        o.kind \in {"rmr", "rqp"} \/ (o.kind = "qp" /\ o.state \in {"RTR", "RTS"})
            => o.peer \in Info
LaunchedOnce == \A n \in Node : launch[n] >= 1

CoreInv ==
    /\ TypeOK /\ LocalInv /\ LaunchedOnce
    /\ RemoteCachesHoldWrappers /\ PeersSet /\ StaleOnlyIfOwnerEnded

-----------------------------------------------------------------------------
\* The abstract state a state of the core stands for.
KnownMr(n, k) == IF remoteMr[n][k] = nullptr THEN nullptr
                                             ELSE obj[n][remoteMr[n][k]].peer
KnownQp(n, k) == IF remoteQp[n][k] = nullptr THEN nullptr
                                             ELSE obj[n][remoteQp[n][k]].peer
absAlive == {n \in Node : Running(n)}
absKnown == [n \in Node |-> [k \in MrName \cup QpName |->
               IF k \in MrName THEN KnownMr(n, k) ELSE KnownQp(n, k)]]
absLink == [n \in Node |-> [h \in Handle |->
              IF obj[n][h].kind = "qp" THEN obj[n][h].peer ELSE nullptr]]

R == INSTANCE Rendezvous WITH
       Process <- Node, Endpoint <- Handle, Key <- MrName \cup QpName,
       LinkKey <- QpName, none <- nullptr,
       alive <- absAlive, board <- memc, known <- absKnown, link <- absLink

\* The exchange and connection calls implement the rendezvous: whatever calls
\* the processes make, and whatever fails, a process learns of a key once and
\* from the board, and a queue pair is linked once and to what was learned.
ImplementsRendezvous == R!Spec

=============================================================================

---------------------------- MODULE BringupProofs ----------------------------
(***************************************************************************)
(* The bring-up of the two nodes, for every choice of the calls that may   *)
(* fail, every number of launches and every order of the two processes:    *)
(* what a process has at each call of the flow, why a call can end it, and *)
(* what the other end of a connected queue pair is.                        *)
(***************************************************************************)
EXTENDS Bringup, HartebeestCoreProofs

-----------------------------------------------------------------------------
(* The inductive invariant.                                                *)

\* What the calls before the next one left behind, whatever they returned,
\* and what else they left when all returned true.
Reached(n) ==
    /\ pc[n] > 1 => HasPd(n, "pd")
    /\ pc[n] > 2 => HasMr(n, "pd", "mr")
    /\ pc[n] > 2 /\ ok[n] => obj[n][local_mr(n, "pd", "mr")].made
    /\ pc[n] > 4 => is_registered(remoteMr[n], mr_name[Other(n)])
    /\ pc[n] > 5 => is_registered(cqCache[n], "cq-1")
    /\ pc[n] > 6 => is_registered(cqCache[n], "cq-2")
    /\ pc[n] > 7 => HasQp(n, "pd", "qp")
    /\ pc[n] > 10 => is_registered(remoteQp[n], qp_name[Other(n)])
    /\ pc[n] > 11 /\ ok[n] => MyQp(n).state = "RTS"
ReachedInv == \A n \in Node : Reached(n) /\ (~Running(n) => pc[n] = 1)

\* A wrapper without its verbs object had a call that failed.
MadeInv ==
    \A n \in Node, h \in Handle :
        /\ obj[n][h].kind = "mr" /\ ~obj[n][h].made => "ibv_reg_mr" \in Faults
        /\ obj[n][h].kind = "cq" /\ ~obj[n][h].made => "ibv_create_cq" \in Faults

\* The information is about a queue pair of m: about one that is gone, or about
\* the one the flow created in this launch.
QpOfFlow(m, info) ==
    /\ info[1] = m /\ info[2] \in Handle
    /\ obj[m][info[2]].kind # "dead" =>
         HasQp(m, "pd", "qp") /\ info[2] = local_qp(m, "pd", "qp")

\* So is what is on the server under the name of m, what was fetched under
\* it, and the destination of a queue pair connected to m.
LinksInv ==
    /\ \A m \in Node : memc[qp_name[m]] # nullptr =>
         QpOfFlow(m, memc[qp_name[m]])
    /\ \A n, m \in Node : remoteQp[n][qp_name[m]] # nullptr =>
         QpOfFlow(m, obj[n][remoteQp[n][qp_name[m]]].peer)
    /\ \A n \in Node, h \in Handle :
         obj[n][h].kind = "qp" /\ obj[n][h].peer # nullptr =>
           QpOfFlow(Other(n), obj[n][h].peer)

\* The queue pair a node publishes, and what it fetched of the other's.
Here(n) == <<n, local_qp(n, "pd", "qp")>>
Known(n) == RemoteInfo(n, qp_name[Other(n)])

\* How two nodes meet.  After its push a node is the last that published under
\* its name; it fetches once, and connects to what it fetched.  The second of
\* the two to fetch therefore finds what the first published before it fetched.
MeetInv ==
    /\ \A n \in Node : pc[n] > 9 /\ ok[n] => memc[qp_name[n]] = Here(n)
    /\ \A n \in Node : pc[n] <= 10 => remoteQp[n][qp_name[Other(n)]] = nullptr
    /\ \A n \in Node : pc[n] > 11 /\ ok[n] => MyQp(n).peer = Known(n)
    /\ \A n, m \in Node :
         n # m /\ pc[n] > 10 /\ ok[n] /\ pc[m] > 10 /\ ok[m] =>
           Known(n) = Here(m) \/ Known(m) = Here(n)

\* The information is about a region of m and, in the first launch of m, about
\* the one the flow created.
MrOfFlow(m, info) ==
    /\ info[1] = m
    /\ launch[m] = 1 /\ Running(m) =>
         HasMr(m, "pd", "mr") /\ info[2] = local_mr(m, "pd", "mr")

\* So is what is on the server under the name of the region of m, and what was
\* fetched under it.
RegionsInv ==
    /\ \A m \in Node : memc[mr_name[m]] # nullptr =>
         MrOfFlow(m, memc[mr_name[m]])
    /\ \A n, m \in Node : remoteMr[n][mr_name[m]] # nullptr =>
         MrOfFlow(m, obj[n][remoteMr[n][mr_name[m]]].peer)

FlowInv ==
    /\ CoreInv /\ FlowTypeOK
    /\ ReachedInv /\ MadeInv /\ LinksInv /\ MeetInv
    /\ NeverAborts /\ AbortsOnlyAfterFalse

-----------------------------------------------------------------------------
(* Names and calls.                                                        *)

\* There are two nodes.
LEMMA OtherNode ==
    \A n \in Node : /\ Other(n) \in Node /\ Other(n) # n
                    /\ \A m \in Node : m # n => m = Other(n)
<1> SUFFICES ASSUME NEW n \in Node
             PROVE  /\ Other(n) \in Node /\ Other(n) # n
                    /\ \A m \in Node : m # n => m = Other(n)
  OBVIOUS
<1>1. PICK a, b \in Node : a # b /\ Node = {a, b}
  BY NameAssumption
<1>2. \E m \in Node : m # n
  BY <1>1
<1>3. Other(n) \in Node /\ Other(n) # n
  BY <1>2 DEF Other
<1> QED
  BY <1>1, <1>3

\* The keys of the flow are keys of the core.
LEMMA FlowKeys ==
    /\ \A n \in Node : mr_name[n] \in MrName /\ qp_name[n] \in QpName
    /\ \A n, m \in Node : n # m =>
         qp_name[n] # qp_name[m] /\ mr_name[n] # mr_name[m]
    /\ \A n, m \in Node : mr_name[n] # qp_name[m]
    /\ "pd" \in PdKey /\ "mr" \in MrKey /\ "qp" \in QpKey
    /\ "cq-1" \in CqKey /\ "cq-2" \in CqKey
<1>1. \A n \in Node : mr_name[n] \in MrName /\ qp_name[n] \in QpName
  BY NameAssumption
<1>2. \A n, m \in Node : mr_name[n] # qp_name[m]
  BY <1>1, KeyAssumption
<1>3. \A n, m \in Node : n # m =>
        qp_name[n] # qp_name[m] /\ mr_name[n] # mr_name[m]
  BY NameAssumption
<1> QED
  BY <1>1, <1>2, <1>3, FlowKeyAssumption

LEMMA FlowLength == Len(Flow) = 11 /\ DOMAIN Flow = 1..11
  BY DEF Flow

\* The place of each call in the flow.
LEMMA FlowPlaces ==
    ASSUME NEW n \in Node
    PROVE  /\ At(n, "create_local_pd") => pc[n] = 1
           /\ At(n, "create_local_mr") => pc[n] = 2
           /\ At(n, "memc_push_local_mr") => pc[n] = 3
           /\ At(n, "memc_fetch_remote_mr") => pc[n] = 4
           /\ At(n, "create_basiccq-1") => pc[n] = 5
           /\ At(n, "create_basiccq-2") => pc[n] = 6
           /\ At(n, "create_local_qp") => pc[n] = 7
           /\ At(n, "init_local_qp") => pc[n] = 8
           /\ At(n, "memc_push_local_qp") => pc[n] = 9
           /\ At(n, "memc_fetch_remote_qp") => pc[n] = 10
           /\ At(n, "connect_local_qp") => pc[n] = 11
<1>1. /\ Flow[1] = "create_local_pd" /\ Flow[2] = "create_local_mr"
      /\ Flow[3] = "memc_push_local_mr" /\ Flow[4] = "memc_fetch_remote_mr"
      /\ Flow[5] = "create_basiccq-1" /\ Flow[6] = "create_basiccq-2"
      /\ Flow[7] = "create_local_qp" /\ Flow[8] = "init_local_qp"
      /\ Flow[9] = "memc_push_local_qp" /\ Flow[10] = "memc_fetch_remote_qp"
      /\ Flow[11] = "connect_local_qp"
  BY DEF Flow
<1>2. \A i \in DOMAIN Flow : \/ i = 1 \/ i = 2 \/ i = 3 \/ i = 4 \/ i = 5 \/ i = 6
                             \/ i = 7 \/ i = 8 \/ i = 9 \/ i = 10 \/ i = 11
  BY FlowLength
<1> QED
  BY <1>1, <1>2 DEF At

\* The flow is a client of the core: every call of it is one the core allows.
LEMMA CallIsStep ==
    ASSUME NEW n \in Node, Call(n)
    PROVE  Step(n)
<1>1. mr_name[n] \in MrName /\ qp_name[n] \in QpName
  BY FlowKeys
<1>2. mr_name[Other(n)] \in MrName /\ qp_name[Other(n)] \in QpName
  BY FlowKeys, OtherNode
<1>3. CASE CreateLocalPd(n, "pd") /\ Carry(n)
  BY <1>3, FlowKeys DEF Step, LocalCall, LocalStep
<1>4. CASE CreateLocalMr(n, "pd", "mr") /\ Carry(n)
  BY <1>4, FlowKeys DEF Step, LocalCall, LocalStep
<1>5. CASE \E k \in {"cq-1", "cq-2"} : CreateBasicCq(n, k) /\ Carry(n)
  BY <1>5, FlowKeys DEF Step, LocalCall, LocalStep
<1>6. CASE CreateLocalQp(n, "pd", "qp", "cq-1", "cq-2") /\ Carry(n)
  BY <1>6, FlowKeys DEF Step, LocalCall, LocalStep
<1>7. CASE InitLocalQp(n, "pd", "qp") /\ Carry(n)
  BY <1>7, FlowKeys DEF Step, LocalCall, LocalStep
<1>8. CASE PushLocalMr(n, mr_name[n], "pd", "mr")
  BY <1>1, <1>8, FlowKeys DEF Step
<1>9. CASE PushLocalQp(n, qp_name[n], "pd", "qp")
  BY <1>1, <1>9, FlowKeys DEF Step
<1>10. CASE FetchRemoteMr(n, mr_name[Other(n)]) \/ FetchRemoteQp(n, qp_name[Other(n)])
  BY <1>2, <1>10 DEF Step
<1>11. CASE ConnectLocalQp(n, "pd", "qp", qp_name[Other(n)])
  BY <1>2, <1>11, FlowKeys DEF Step
<1> QED
  BY <1>3, <1>4, <1>5, <1>6, <1>7, <1>8, <1>9, <1>10, <1>11 DEF Call

\* So are the end and the relaunch of a process.
LEMMA EndIsStep ==
    ASSUME LocalTypeOK, NEW n \in Node,
           (Kill(n) /\ Carry(n)) \/ (Relaunch(n) /\ UNCHANGED exchangeVars)
    PROVE  Step(n)
<1>1. CASE Kill(n) /\ Carry(n)
  BY <1>1 DEF Step, LocalCall, LocalStep
<1>2. CASE Relaunch(n) /\ UNCHANGED exchangeVars
  <2>1. Running(n)'
    BY <1>2 DEF Relaunch, Running, LocalTypeOK
  <2> QED
    BY <1>2, <2>1 DEF Step, LocalCall, LocalStep, Carry
<1> QED
  BY <1>1, <1>2

-----------------------------------------------------------------------------
(* The shapes of a step of the flow.                                       *)

Ended(n) == /\ \E why \in {"aborted", "killed"} : End(n, why)
            /\ RemoteCachesEndWith(n)
Begun(n) == Relaunch(n) /\ UNCHANGED exchangeVars

\* The process n goes on: what it has it keeps, and it touches no other.
Proceeds(n) ==
    /\ Running(n) /\ UNCHANGED <<proc, launch>>
    /\ \A m \in Node \ {n} : /\ ProcessKept(m)
                             /\ remoteMr'[m] = remoteMr[m]
                             /\ remoteQp'[m] = remoteQp[m]
    /\ BindingsKept(n)
    /\ \A g \in Handle :
         /\ obj[n][g].kind # "free" => SameObject(obj[n][g], obj'[n][g])
         /\ obj[n][g].kind \in {"rmr", "rqp"} => obj'[n][g] = obj[n][g]
    /\ \A k \in MrName : remoteMr[n][k] \in {nullptr, remoteMr'[n][k]}
    /\ \A k \in QpName : remoteQp[n][k] \in {nullptr, remoteQp'[n][k]}

\* A call on local resources ends the process or lets it go on.
LEMMA LocalCallCases ==
    ASSUME CoreInv, NEW n \in Node, LocalStep(n), Carry(n), Running(n)
    PROVE  Ended(n) \/ Proceeds(n)
<1>1. LocalInv /\ LocalTypeOK
  BY DEF CoreInv, LocalInv
<1>2. CASE \E why \in {"aborted", "killed"} : End(n, why)
  <2>1. ~Running(n)'
    BY <1>1, <1>2 DEF End, Running, LocalTypeOK
  <2> QED
    BY <1>2, <2>1 DEF Ended, Carry
<1>3. ASSUME NEW h \in Handle, Grows(n, h), UNCHANGED <<proc, launch>>
      PROVE  Proceeds(n)
  <2>1. UNCHANGED exchangeVars
    BY <1>3 DEF Carry, Running
  <2>2. PeersKept
    BY <1>1, LocalStepPeers
  <2>3. \A g \in Handle :
          /\ obj[n][g].kind # "free" => SameObject(obj[n][g], obj'[n][g])
          /\ obj[n][g].kind \in {"rmr", "rqp"} => obj'[n][g] = obj[n][g]
    BY <1>3, <2>2 DEF Grows, PeersKept, PeerKept, SameObject
  <2> QED
    BY <1>3, <2>1, <2>3 DEF Grows, Proceeds, exchangeVars
<1> QED
  BY <1>1, <1>2, <1>3, LocalStepShape DEF Relaunch

\* A call that leaves the objects and the local caches of all alone.
LEMMA SetProceeds ==
    ASSUME NEW n \in Node, Running(n),
           UNCHANGED <<proc, launch, obj, pdCache, cqCache, mrCache, qpCache,
                       remoteMr, remoteQp>>
    PROVE  Proceeds(n)
  BY DEF Proceeds, ProcessKept, BindingsKept, SameObject

\* A fetch adds a wrapper and at most one name for it.
LEMMA FetchProceeds ==
    ASSUME CoreInv, NEW n \in Node, NEW k,
           \/ k \in MrName /\ FetchRemoteMr(n, k)
           \/ k \in QpName /\ FetchRemoteQp(n, k)
    PROVE  Proceeds(n)
<1>1. LocalTypeOK /\ TypeOK
  BY DEF CoreInv, TypeOK
<1>2. PICK h \in Fresh(n) : \E o : Store(n, h, o)
  BY DEF FetchRemoteMr, FetchRemoteQp
<1>3. /\ \A m \in Node \ {n} : obj'[m] = obj[m]
      /\ \A g \in Handle : obj[n][g].kind # "free" => obj'[n][g] = obj[n][g]
  BY <1>1, <1>2, StoreFresh
<1>4. \A g \in Handle :
        /\ obj[n][g].kind # "free" => SameObject(obj[n][g], obj'[n][g])
        /\ obj[n][g].kind \in {"rmr", "rqp"} => obj'[n][g] = obj[n][g]
  BY <1>3 DEF SameObject
<1>5. /\ \A m \in Node \ {n} : remoteMr'[m] = remoteMr[m] /\ remoteQp'[m] = remoteQp[m]
      /\ \A j \in MrName : remoteMr[n][j] \in {nullptr, remoteMr'[n][j]}
      /\ \A j \in QpName : remoteQp[n][j] \in {nullptr, remoteQp'[n][j]}
  <2>1. CASE FetchRemoteMr(n, k)
    BY <1>1, <2>1 DEF FetchRemoteMr, TypeOK, register_resrc, is_registered
  <2>2. CASE FetchRemoteQp(n, k)
    BY <1>1, <2>2 DEF FetchRemoteQp, TypeOK, register_resrc, is_registered
  <2> QED
    BY <2>1, <2>2
<1>6. /\ Running(n)
      /\ UNCHANGED <<proc, launch, pdCache, cqCache, mrCache, qpCache>>
  BY DEF FetchRemoteMr, FetchRemoteQp
<1> QED
  BY <1>3, <1>4, <1>5, <1>6 DEF Proceeds, ProcessKept, BindingsKept

\* A connection updates the state and the destination of one queue pair.
LEMMA ConnectProceeds ==
    ASSUME CoreInv, NEW n \in Node, Running(n), NEW h \in Handle, NEW k,
           obj[n][h].kind = "qp", ConnectEffect(n, h, k)
    PROVE  Proceeds(n)
<1>1. obj \in [Node -> [Handle -> Object]]
  BY DEF CoreInv, TypeOK, LocalTypeOK
<1>2. CASE UNCHANGED obj
  BY <1>2, SetProceeds DEF ConnectEffect
<1>3. ASSUME NEW state,
             Store(n, h, [obj[n][h] EXCEPT !.state = state, !.peer = RemoteInfo(n, k)])
      PROVE  Proceeds(n)
  <2>1. /\ \A m \in Node \ {n} : obj'[m] = obj[m]
        /\ \A g \in Handle \ {h} : obj'[n][g] = obj[n][g]
        /\ obj'[n][h] = [obj[n][h] EXCEPT !.state = state, !.peer = RemoteInfo(n, k)]
    BY <1>1, <1>3 DEF Store
  <2>2. obj[n][h] \in Object
    BY <1>1
  <2>3. SameObject(obj[n][h], obj'[n][h])
    BY <2>1, <2>2 DEF SameObject, Object
  <2>4. \A g \in Handle :
          /\ obj[n][g].kind # "free" => SameObject(obj[n][g], obj'[n][g])
          /\ obj[n][g].kind \in {"rmr", "rqp"} => obj'[n][g] = obj[n][g]
    BY <2>1, <2>3 DEF SameObject
  <2> QED
    BY <2>1, <2>4 DEF ConnectEffect, Proceeds, ProcessKept, BindingsKept
<1> QED
  BY <1>2, <1>3 DEF ConnectEffect

\* Every call of the flow ends the process or lets it go on.
LEMMA CallCases ==
    ASSUME CoreInv, NEW n \in Node, Call(n)
    PROVE  Running(n) /\ (Ended(n) \/ Proceeds(n))
<1>1. Running(n)
  BY DEF Call, CreateLocalPd, CreateLocalMr, CreateBasicCq, CreateLocalQp,
         InitLocalQp, PushLocalMr, PushLocalQp, FetchRemoteMr, FetchRemoteQp,
         ConnectLocalQp
<1>2. AbortCore(n) => Ended(n)
  BY DEF AbortCore, Abort, Ended
<1>3. qp_name[Other(n)] \in QpName /\ mr_name[Other(n)] \in MrName
  BY FlowKeys, OtherNode
<1>4. CASE LocalStep(n) /\ Carry(n)
  BY <1>1, <1>4, LocalCallCases
<1>5. CASE PushLocalMr(n, mr_name[n], "pd", "mr")
  BY <1>1, <1>2, <1>5, SetProceeds DEF PushLocalMr
<1>6. CASE PushLocalQp(n, qp_name[n], "pd", "qp")
  BY <1>1, <1>2, <1>6, SetProceeds DEF PushLocalQp
<1>7. CASE FetchRemoteMr(n, mr_name[Other(n)]) \/ FetchRemoteQp(n, qp_name[Other(n)])
  <2>1. \A k : FetchRemoteMr(n, k) /\ k \in MrName => Proceeds(n)
    BY FetchProceeds
  <2>2. \A k : FetchRemoteQp(n, k) /\ k \in QpName => Proceeds(n)
    BY FetchProceeds
  <2> QED
    BY <1>1, <1>3, <1>7, <2>1, <2>2
<1>8. CASE ConnectLocalQp(n, "pd", "qp", qp_name[Other(n)])
  BY <1>1, <1>2, <1>3, <1>8, ConnectCases, ConnectProceeds, FlowKeys
<1>9. \/ LocalStep(n) /\ Carry(n)
      \/ PushLocalMr(n, mr_name[n], "pd", "mr") \/ PushLocalQp(n, qp_name[n], "pd", "qp")
      \/ FetchRemoteMr(n, mr_name[Other(n)]) \/ FetchRemoteQp(n, qp_name[Other(n)])
      \/ ConnectLocalQp(n, "pd", "qp", qp_name[Other(n)])
  BY FlowKeys DEF Call, LocalStep
<1> QED
  BY <1>1, <1>4, <1>5, <1>6, <1>7, <1>8, <1>9

-----------------------------------------------------------------------------
(* What a step leaves of what was there.                                   *)

\* The names of a process that goes on lead where they led.
LEMMA LooksKept ==
    ASSUME CoreInv, NEW n \in Node, Proceeds(n), NEW m \in Node
    PROVE  /\ HasPd(m, "pd") => HasPd(m, "pd")'
           /\ HasMr(m, "pd", "mr") =>
                /\ HasMr(m, "pd", "mr")'
                /\ local_mr(m, "pd", "mr")' = local_mr(m, "pd", "mr")
                /\ obj[m][local_mr(m, "pd", "mr")].made =>
                     obj'[m][local_mr(m, "pd", "mr")].made
           /\ HasQp(m, "pd", "qp") =>
                /\ HasQp(m, "pd", "qp")'
                /\ local_qp(m, "pd", "qp")' = local_qp(m, "pd", "qp")
           /\ \A k \in CqKey :
                is_registered(cqCache[m], k) => is_registered(cqCache'[m], k)
           /\ \A k \in MrName :
                is_registered(remoteMr[m], k) => is_registered(remoteMr'[m], k)
           /\ \A k \in QpName : is_registered(remoteQp[m], k) =>
                remoteQp'[m][k] = remoteQp[m][k] /\ is_registered(remoteQp'[m], k)
<1>1. CASE m # n
  BY <1>1 DEF Proceeds, ProcessKept, HasPd, HasMr, HasQp, local_pd, local_mr,
              local_qp, get_resrc, is_registered
<1>2. CASE m = n
  <2>1. LocalInv /\ LocalTypeOK
    BY DEF CoreInv, LocalInv
  <2>2. "pd" \in PdKey /\ "mr" \in MrKey /\ "qp" \in QpKey
    BY FlowKeys
  <2>3. HasPd(n, "pd") => pdCache[n]["pd"] \in Handle /\ pdCache'[n]["pd"] = pdCache[n]["pd"]
    BY <2>1, <2>2 DEF HasPd, local_pd, get_resrc, LocalTypeOK, Address,
                      Proceeds, BindingsKept
  <2>4. HasPd(n, "pd") => HasPd(n, "pd")' /\ local_pd(n, "pd")' = local_pd(n, "pd")
    BY <2>3 DEF HasPd, local_pd, get_resrc
  <2>5. HasMr(n, "pd", "mr") => /\ HasMr(n, "pd", "mr")'
                                /\ local_mr(n, "pd", "mr")' = local_mr(n, "pd", "mr")
    BY <2>2, <2>3, <2>4
       DEF HasMr, HasPd, local_mr, local_pd, get_resrc, Proceeds, BindingsKept
  <2>6. HasQp(n, "pd", "qp") => /\ HasQp(n, "pd", "qp")'
                                /\ local_qp(n, "pd", "qp")' = local_qp(n, "pd", "qp")
    BY <2>2, <2>3, <2>4
       DEF HasQp, HasPd, local_qp, local_pd, get_resrc, Proceeds, BindingsKept
  <2>7. HasMr(n, "pd", "mr") /\ obj[n][local_mr(n, "pd", "mr")].made =>
          obj'[n][local_mr(n, "pd", "mr")].made
    BY <2>1, <2>2, LocalLookup DEF Proceeds, SameObject
  <2>8. /\ \A k \in CqKey :
             is_registered(cqCache[n], k) => is_registered(cqCache'[n], k)
        /\ \A k \in MrName :
             is_registered(remoteMr[n], k) => is_registered(remoteMr'[n], k)
        /\ \A k \in QpName : is_registered(remoteQp[n], k) =>
             remoteQp'[n][k] = remoteQp[n][k] /\ is_registered(remoteQp'[n], k)
    BY DEF is_registered, Proceeds, BindingsKept
  <2> QED
    BY <1>2, <2>4, <2>5, <2>6, <2>7, <2>8
<1> QED
  BY <1>1, <1>2

\* A process that runs in its first launch after a step did before it.
LEMMA FirstKept ==
    ASSUME CoreInv, NEW n \in Node, Ended(n) \/ Begun(n) \/ Proceeds(n),
           NEW m \in Node, launch'[m] = 1, Running(m)'
    PROVE  launch[m] = 1 /\ Running(m)
<1>1. LocalTypeOK /\ LaunchedOnce
  BY DEF CoreInv, TypeOK
<1>2. CASE Proceeds(n)
  BY <1>2 DEF Proceeds, Running
<1>3. CASE Ended(n)
  BY <1>1, <1>3 DEF Ended, End, Running, LocalTypeOK
<1>4. CASE Begun(n)
  <2>1. launch'[n] = launch[n] + 1 /\ launch[n] \in Nat /\ launch[n] >= 1
    BY <1>1, <1>4 DEF Begun, Relaunch, LocalTypeOK, LaunchedOnce
  <2>2. m # n
    BY <2>1
  <2> QED
    BY <1>1, <1>4, <2>2 DEF Begun, Relaunch, Running, LocalTypeOK
<1> QED
  BY <1>2, <1>3, <1>4

\* What was about the right queue pair before a step is after it.
LEMMA QpKept ==
    ASSUME CoreInv, NEW n \in Node, Ended(n) \/ Begun(n) \/ Proceeds(n),
           NEW m \in Node, NEW info, QpOfFlow(m, info),
           obj'[m][info[2]].kind # "dead"
    PROVE  HasQp(m, "pd", "qp")' /\ info[2] = local_qp(m, "pd", "qp")'
<1> DEFINE h == info[2]
<1>1. LocalTypeOK /\ LocalInv /\ h \in Handle /\ "pd" \in PdKey /\ "qp" \in QpKey
  BY FlowKeys DEF CoreInv, TypeOK, QpOfFlow
<1>2. CASE Proceeds(n)
  <2>1. obj[m][h].kind # "dead"
    <3>1. CASE m # n
      BY <1>2, <3>1 DEF Proceeds, ProcessKept
    <3>2. CASE m = n
      BY <1>1, <1>2, <3>2 DEF Proceeds, SameObject
    <3> QED
      BY <3>1, <3>2
  <2>2. HasQp(m, "pd", "qp") /\ h = local_qp(m, "pd", "qp")
    BY <2>1 DEF QpOfFlow
  <2> QED
    BY <1>2, <2>2, LooksKept
<1>3. CASE Ended(n) /\ m = n
  <2>1. obj'[n][h].kind = "free" /\ obj[n][h].kind = "free"
    BY <1>1, <1>3 DEF Ended, End, Blank, LocalTypeOK
  <2>2. HasQp(n, "pd", "qp") /\ h = local_qp(n, "pd", "qp")
    BY <1>3, <2>1 DEF QpOfFlow
  <2> QED
    BY <1>1, <2>1, <2>2, LocalLookup
<1>4. CASE Ended(n) /\ m # n
  <2>1. /\ obj'[m] = obj[m]
        /\ pdCache'[m] = pdCache[m] /\ qpCache'[m] = qpCache[m]
    BY <1>1, <1>4 DEF Ended, End, LocalTypeOK
  <2> QED
    BY <2>1 DEF QpOfFlow, HasQp, HasPd, local_qp, local_pd, get_resrc
<1>5. CASE Begun(n)
  BY <1>5 DEF Begun, Relaunch, QpOfFlow, HasQp, HasPd, local_qp, local_pd, get_resrc
<1> QED
  BY <1>2, <1>3, <1>4, <1>5

\* After the step every information at rest is one that was about the right
\* queue pair before it.
LinksSourced ==
    /\ \A m \in Node : memc'[qp_name[m]] # nullptr =>
         QpOfFlow(m, memc'[qp_name[m]])
    /\ \A n, m \in Node : remoteQp'[n][qp_name[m]] # nullptr =>
         QpOfFlow(m, obj'[n][remoteQp'[n][qp_name[m]]].peer)
    /\ \A n \in Node, h \in Handle :
         obj'[n][h].kind = "qp" /\ obj'[n][h].peer # nullptr =>
           QpOfFlow(Other(n), obj'[n][h].peer)

LEMMA LinksStep ==
    ASSUME CoreInv, NEW n \in Node, Ended(n) \/ Begun(n) \/ Proceeds(n),
           LinksSourced
    PROVE  LinksInv'
<1>1. ASSUME NEW m \in Node, NEW info, QpOfFlow(m, info)
      PROVE  /\ info[1] = m /\ info[2] \in Handle
             /\ obj'[m][info[2]].kind # "dead" =>
                  HasQp(m, "pd", "qp")' /\ info[2] = local_qp(m, "pd", "qp")'
  BY <1>1, QpKept DEF QpOfFlow
<1>2. \A m \in Node : memc'[qp_name[m]] # nullptr =>
        QpOfFlow(m, memc[qp_name[m]])'
  <2> SUFFICES ASSUME NEW m \in Node, memc'[qp_name[m]] # nullptr
               PROVE  QpOfFlow(m, memc[qp_name[m]])'
    OBVIOUS
  <2>1. QpOfFlow(m, memc'[qp_name[m]])
    BY DEF LinksSourced
  <2> QED
    BY <1>1, <2>1 DEF QpOfFlow
<1>3. \A l, m \in Node : remoteQp'[l][qp_name[m]] # nullptr =>
        QpOfFlow(m, obj[l][remoteQp[l][qp_name[m]]].peer)'
  <2> SUFFICES ASSUME NEW l \in Node, NEW m \in Node,
                      remoteQp'[l][qp_name[m]] # nullptr
               PROVE  QpOfFlow(m, obj[l][remoteQp[l][qp_name[m]]].peer)'
    OBVIOUS
  <2>1. QpOfFlow(m, obj'[l][remoteQp'[l][qp_name[m]]].peer)
    BY DEF LinksSourced
  <2> QED
    BY <1>1, <2>1 DEF QpOfFlow
<1>4. \A l \in Node, h \in Handle :
         obj'[l][h].kind = "qp" /\ obj'[l][h].peer # nullptr =>
           QpOfFlow(Other(l), obj[l][h].peer)'
  <2> SUFFICES ASSUME NEW l \in Node, NEW h \in Handle,
                      obj'[l][h].kind = "qp", obj'[l][h].peer # nullptr
               PROVE  QpOfFlow(Other(l), obj[l][h].peer)'
    OBVIOUS
  <2>1. QpOfFlow(Other(l), obj'[l][h].peer) /\ Other(l) \in Node
    BY OtherNode DEF LinksSourced
  <2>2. Other(l)' = Other(l)
    BY DEF Other
  <2> QED
    BY <1>1, <2>1, <2>2 DEF QpOfFlow
<1> QED
  BY <1>2, <1>3, <1>4 DEF LinksInv, Other

\* The objects and remote caches of the others are what they were, and those
\* of a process that goes on are sourced when what it fetched and connected is.
LEMMA LinksProceed ==
    ASSUME FlowInv, NEW n \in Node, Proceeds(n),
           \A m \in Node : \/ memc'[qp_name[m]] = memc[qp_name[m]]
                           \/ QpOfFlow(m, memc'[qp_name[m]]),
           \A m \in Node :
             \/ remoteQp'[n][qp_name[m]] = remoteQp[n][qp_name[m]]
             \/ QpOfFlow(m, obj'[n][remoteQp'[n][qp_name[m]]].peer),
           \A h \in Handle : obj'[n][h].kind = "qp" =>
             \/ obj'[n][h].peer = nullptr
             \/ obj[n][h].kind = "qp" /\ obj'[n][h].peer = obj[n][h].peer
             \/ QpOfFlow(Other(n), obj'[n][h].peer)
    PROVE  LinksSourced
<1>1. LinksInv /\ CoreInv /\ TypeOK /\ RemoteCachesHoldWrappers
  BY DEF FlowInv, CoreInv
<1>2. \A m \in Node : memc'[qp_name[m]] # nullptr =>
        QpOfFlow(m, memc'[qp_name[m]])
  BY <1>1 DEF LinksInv
<1>3. ASSUME NEW l \in Node, NEW m \in Node, remoteQp'[l][qp_name[m]] # nullptr
      PROVE  QpOfFlow(m, obj'[l][remoteQp'[l][qp_name[m]]].peer)
  <2>1. CASE l # n
    <3>1. remoteQp'[l] = remoteQp[l] /\ obj'[l] = obj[l]
      BY <2>1 DEF Proceeds, ProcessKept
    <3> QED
      BY <1>1, <1>3, <3>1 DEF LinksInv
  <2>2. CASE l = n /\ remoteQp'[n][qp_name[m]] = remoteQp[n][qp_name[m]]
    <3>1. remoteQp[n][qp_name[m]] \in Handle
      BY <1>1, <1>3, <2>2, FlowKeys DEF TypeOK, Address
    <3>2. obj[n][remoteQp[n][qp_name[m]]].kind = "rqp"
      BY <1>1, <1>3, <2>2, FlowKeys DEF RemoteCachesHoldWrappers
    <3>3. obj'[n][remoteQp[n][qp_name[m]]] = obj[n][remoteQp[n][qp_name[m]]]
      BY <3>1, <3>2 DEF Proceeds
    <3> QED
      BY <1>1, <1>3, <2>2, <3>3 DEF LinksInv
  <2> QED
    BY <1>3, <2>1, <2>2
<1>4. ASSUME NEW l \in Node, NEW h \in Handle,
             obj'[l][h].kind = "qp", obj'[l][h].peer # nullptr
      PROVE  QpOfFlow(Other(l), obj'[l][h].peer)
  <2>1. CASE l # n
    <3>1. obj'[l] = obj[l]
      BY <2>1 DEF Proceeds, ProcessKept
    <3> QED
      BY <1>1, <1>4, <3>1 DEF LinksInv
  <2>2. CASE l = n
    BY <1>1, <1>4, <2>2 DEF LinksInv
  <2> QED
    BY <2>1, <2>2
<1> QED
  BY <1>2, <1>3, <1>4 DEF LinksSourced

\* A wrapper that is new in a process that goes on is made, unless its call
\* failed.
NewMade(n) ==
    \A h \in Handle : obj[n][h].kind = "free" =>
        /\ obj'[n][h].kind = "mr" /\ ~obj'[n][h].made => "ibv_reg_mr" \in Faults
        /\ obj'[n][h].kind = "cq" /\ ~obj'[n][h].made => "ibv_create_cq" \in Faults

LEMMA MadeProceeds ==
    ASSUME MadeInv, NEW n \in Node, Proceeds(n), NewMade(n)
    PROVE  MadeInv'
<1> SUFFICES ASSUME NEW m \in Node, NEW h \in Handle
             PROVE  /\ obj'[m][h].kind = "mr" /\ ~obj'[m][h].made => "ibv_reg_mr" \in Faults
                    /\ obj'[m][h].kind = "cq" /\ ~obj'[m][h].made => "ibv_create_cq" \in Faults
  BY DEF MadeInv
<1>1. CASE m # n
  BY <1>1 DEF MadeInv, Proceeds, ProcessKept
<1>2. CASE m = n /\ obj[n][h].kind = "free"
  BY <1>2 DEF NewMade
<1>3. CASE m = n /\ obj[n][h].kind # "free"
  <2>1. SameObject(obj[n][h], obj'[n][h])
    BY <1>3 DEF Proceeds
  <2> QED
    BY <1>3, <2>1 DEF MadeInv, SameObject
<1> QED
  BY <1>1, <1>2, <1>3

-----------------------------------------------------------------------------
(* What each call adds.                                                    *)

\* The call number pc[n] leaves what Reached says it does.
Gains(n) ==
    /\ pc[n] = 1 => HasPd(n, "pd")'
    /\ pc[n] = 2 =>
         /\ HasMr(n, "pd", "mr")'
         /\ ret'[n] = "true" => obj'[n][local_mr(n, "pd", "mr")'].made
    /\ pc[n] = 4 => is_registered(remoteMr'[n], mr_name[Other(n)])
    /\ pc[n] = 5 => is_registered(cqCache'[n], "cq-1")
    /\ pc[n] = 6 => is_registered(cqCache'[n], "cq-2")
    /\ pc[n] = 7 => HasQp(n, "pd", "qp")'
    /\ pc[n] = 10 => is_registered(remoteQp'[n], qp_name[Other(n)])
    /\ pc[n] = 11 /\ ret'[n] = "true" => MyQp(n)'.state = "RTS"

LEMMA FlowParts ==
    ASSUME FlowInv
    PROVE  /\ CoreInv /\ TypeOK /\ LocalInv /\ LocalTypeOK
           /\ pc \in [Node -> 1..12] /\ ok \in [Node -> BOOLEAN]
           /\ \A n \in Node : Reached(n) /\ pc[n] \in 1..12
  BY FlowLength DEF FlowInv, CoreInv, TypeOK, FlowTypeOK, ReachedInv

\* Who aborts does not go on.
LEMMA AbortEnds ==
    ASSUME LocalTypeOK, NEW n \in Node, Abort(n) \/ AbortCore(n)
    PROVE  ~Running(n)'
  BY DEF AbortCore, Abort, End, Running, LocalTypeOK

LEMMA Returned ==
    ASSUME LocalTypeOK, NEW n \in Node, NEW b \in BOOLEAN, Return(n, b)
    PROVE  ret'[n] = "true" <=> b
  BY DEF Return, LocalTypeOK

\* A name offered to a cache is registered afterwards, to the new object
\* unless it was registered before.
LEMMA Offered ==
    ASSUME NEW Key, NEW cache \in [Key -> Address], NEW key \in Key,
           NEW h \in Handle
    PROVE  /\ is_registered(register_resrc(cache, key, h), key)
           /\ ~is_registered(cache, key) => register_resrc(cache, key, h)[key] = h
  BY NullAssumption DEF register_resrc, is_registered

\* The calls on local resources change nothing of what is known of the other
\* node.
LEMMA LocalCallLinks ==
    ASSUME FlowInv, NEW n \in Node, Proceeds(n), LocalStep(n), Carry(n)
    PROVE  LinksSourced
<1>1. UNCHANGED exchangeVars
  BY DEF Proceeds, Carry, Running
<1>2. PeersKept
  BY FlowParts, LocalStepPeers
<1>3. \A h \in Handle : obj'[n][h].kind = "qp" =>
        \/ obj'[n][h].peer = nullptr
        \/ obj[n][h].kind = "qp" /\ obj'[n][h].peer = obj[n][h].peer
  BY <1>2 DEF PeersKept, PeerKept
<1> QED
  BY <1>1, <1>3, LinksProceed DEF exchangeVars

LEMMA PdGains ==
    ASSUME FlowInv, NEW n \in Node, Proceeds(n), Running(n)',
           CreateLocalPd(n, "pd"), pc[n] = 1
    PROVE  Gains(n) /\ NewMade(n)
<1>1. LocalTypeOK /\ "pd" \in PdKey
  BY FlowParts, FlowKeys
<1>2. PICK h \in Fresh(n) :
        /\ Store(n, h, NewPd("pd"))
        /\ pdCache' = [pdCache EXCEPT ![n] = register_resrc(@, "pd", h)]
  BY <1>1, AbortEnds DEF CreateLocalPd
<1>3. pdCache'[n] = register_resrc(pdCache[n], "pd", h) /\ h \in Handle
  BY <1>1, <1>2 DEF LocalTypeOK, Fresh
<1>4. is_registered(pdCache'[n], "pd")
  BY <1>1, <1>3, Offered DEF LocalTypeOK
<1>5. HasPd(n, "pd")'
  BY <1>4 DEF HasPd, local_pd, get_resrc, is_registered
<1>6. NewPd("pd").kind = "pd"
  BY DEF NewPd, Blank
<1>7. NewMade(n)
  BY <1>1, <1>2, <1>6, StoreFresh DEF NewMade
<1> QED
  BY <1>5, <1>7 DEF Gains

LEMMA MrGains ==
    ASSUME FlowInv, NEW n \in Node, Proceeds(n), Running(n)',
           CreateLocalMr(n, "pd", "mr"), pc[n] = 2
    PROVE  Gains(n) /\ NewMade(n)
<1> DEFINE p == local_pd(n, "pd")
<1>1. LocalTypeOK /\ "pd" \in PdKey /\ "mr" \in MrKey
  BY FlowParts, FlowKeys
<1>2. PICK h \in Fresh(n), made \in {TRUE, FALSE} :
        /\ HasPd(n, "pd")
        /\ ~made => "ibv_reg_mr" \in Faults
        /\ Store(n, h, NewMr(p, "mr", made))
        /\ mrCache' = [mrCache EXCEPT ![n][p] = register_resrc(@, "mr", h)]
        /\ Return(n, made /\ ~HasMr(n, "pd", "mr"))
        /\ pdCache' = pdCache
  BY <1>1, AbortEnds DEF CreateLocalMr
<1>3. h \in Handle /\ p \in Handle /\ HasPd(n, "pd")' /\ local_pd(n, "pd")' = p
  BY <1>1, <1>2 DEF LocalTypeOK, Fresh, HasPd, local_pd, get_resrc, Address
<1>4. mrCache'[n][p] = register_resrc(mrCache[n][p], "mr", h)
  BY <1>1, <1>2, <1>3 DEF LocalTypeOK
<1>5. mrCache[n][p] \in [MrKey -> Address]
  BY <1>1, <1>3 DEF LocalTypeOK
<1>6. /\ is_registered(mrCache'[n][p], "mr")
      /\ ~is_registered(mrCache[n][p], "mr") => mrCache'[n][p]["mr"] = h
  BY <1>1, <1>3, <1>4, <1>5, Offered
<1>7. HasMr(n, "pd", "mr")' /\ local_mr(n, "pd", "mr")' = mrCache'[n][p]["mr"]
  BY <1>3, <1>6 DEF HasMr, local_mr, get_resrc, is_registered
<1>8. ASSUME ret'[n] = "true"
      PROVE  obj'[n][local_mr(n, "pd", "mr")'].made
  <2>1. made /\ ~HasMr(n, "pd", "mr")
    BY <1>1, <1>2, <1>8, Returned
  <2>2. mrCache'[n][p]["mr"] = h
    BY <1>2, <1>6, <2>1 DEF HasMr, local_mr, get_resrc, is_registered
  <2>3. obj'[n][h] = NewMr(p, "mr", made)
    BY <1>1, <1>2, StoreFresh
  <2>4. NewMr(p, "mr", made).made
    BY <2>1 DEF NewMr, Blank
  <2> QED
    BY <1>7, <2>2, <2>3, <2>4
<1>9. NewMade(n)
  <2>1. NewMr(p, "mr", made).kind = "mr" /\ NewMr(p, "mr", made).made = made
    BY DEF NewMr, Blank
  <2> QED
    BY <1>1, <1>2, <2>1, StoreFresh DEF NewMade
<1> QED
  BY <1>7, <1>8, <1>9 DEF Gains

LEMMA CqGains ==
    ASSUME FlowInv, NEW n \in Node, Proceeds(n),
           \/ CreateBasicCq(n, "cq-1") /\ pc[n] = 5
           \/ CreateBasicCq(n, "cq-2") /\ pc[n] = 6
    PROVE  Gains(n) /\ NewMade(n)
<1>1. LocalTypeOK /\ "cq-1" \in CqKey /\ "cq-2" \in CqKey
  BY FlowParts, FlowKeys
<1>2. ASSUME NEW k \in CqKey, CreateBasicCq(n, k)
      PROVE  is_registered(cqCache'[n], k) /\ NewMade(n)
  <2>1. PICK h \in Fresh(n), made \in {TRUE, FALSE} :
          /\ ~made => "ibv_create_cq" \in Faults
          /\ Store(n, h, NewCq(k, made))
          /\ cqCache' = [cqCache EXCEPT ![n] = register_resrc(@, k, h)]
    BY <1>2 DEF CreateBasicCq
  <2>2. cqCache'[n] = register_resrc(cqCache[n], k, h) /\ h \in Handle
    BY <1>1, <2>1 DEF LocalTypeOK, Fresh
  <2>3. is_registered(cqCache'[n], k)
    <3>1. cqCache[n] \in [CqKey -> Address]
      BY <1>1 DEF LocalTypeOK
    <3> QED
      BY <2>2, <3>1, Offered
  <2>4. NewCq(k, made).kind = "cq" /\ NewCq(k, made).made = made
    BY DEF NewCq, Blank
  <2> QED
    BY <1>1, <2>1, <2>3, <2>4, StoreFresh DEF NewMade
<1> QED
  BY <1>1, <1>2 DEF Gains

LEMMA QpGains ==
    ASSUME FlowInv, NEW n \in Node, Proceeds(n), Running(n)',
           CreateLocalQp(n, "pd", "qp", "cq-1", "cq-2"), pc[n] = 7
    PROVE  Gains(n) /\ NewMade(n)
<1> DEFINE p == local_pd(n, "pd")
<1>1. LocalTypeOK /\ "pd" \in PdKey /\ "qp" \in QpKey
  BY FlowParts, FlowKeys
<1>2. PICK h \in Fresh(n) :
        /\ HasPd(n, "pd")
        /\ \E s, r : Store(n, h, NewQp(p, "qp", s, r))
        /\ qpCache' = [qpCache EXCEPT ![n][p] = register_resrc(@, "qp", h)]
        /\ pdCache' = pdCache
  BY <1>1, AbortEnds DEF CreateLocalQp
<1>3. h \in Handle /\ p \in Handle /\ HasPd(n, "pd")' /\ local_pd(n, "pd")' = p
  BY <1>1, <1>2 DEF LocalTypeOK, Fresh, HasPd, local_pd, get_resrc, Address
<1>4. qpCache'[n][p] = register_resrc(qpCache[n][p], "qp", h)
  BY <1>1, <1>2, <1>3 DEF LocalTypeOK
<1>5. qpCache[n][p] \in [QpKey -> Address]
  BY <1>1, <1>3 DEF LocalTypeOK
<1>6. is_registered(qpCache'[n][p], "qp")
  BY <1>1, <1>3, <1>4, <1>5, Offered
<1>7. HasQp(n, "pd", "qp")'
  BY <1>3, <1>6 DEF HasQp, local_qp, get_resrc, is_registered
<1>8. \A s, r : NewQp(p, "qp", s, r).kind = "qp"
  BY DEF NewQp, Blank
<1>9. NewMade(n)
  BY <1>1, <1>2, <1>8, StoreFresh DEF NewMade
<1> QED
  BY <1>7, <1>9 DEF Gains

\* A call that only touches objects that are there makes no new one.
LEMMA NothingNew ==
    ASSUME LocalTypeOK, NEW n \in Node, NEW h \in Handle, obj[n][h].kind # "free",
           UNCHANGED obj \/ (\E o : Store(n, h, o)), MadeInv
    PROVE  NewMade(n)
<1>1. \A g \in Handle : obj[n][g].kind = "free" => obj'[n][g] = obj[n][g]
  BY DEF Store, LocalTypeOK
<1> QED
  BY <1>1 DEF NewMade

LEMMA InitGains ==
    ASSUME FlowInv, NEW n \in Node, Proceeds(n), Running(n)',
           InitLocalQp(n, "pd", "qp"), pc[n] = 8
    PROVE  Gains(n) /\ NewMade(n)
<1>1. LocalTypeOK /\ LocalInv /\ "pd" \in PdKey /\ "qp" \in QpKey
  BY FlowParts, FlowKeys
<1>2. /\ HasQp(n, "pd", "qp")
      /\ UNCHANGED obj \/ \E o : Store(n, local_qp(n, "pd", "qp"), o)
  BY <1>1, AbortEnds DEF InitLocalQp
<1>3. /\ local_qp(n, "pd", "qp") \in Handle
      /\ obj[n][local_qp(n, "pd", "qp")].kind = "qp"
  BY <1>1, <1>2, LocalLookup
<1>4. NewMade(n)
  BY <1>1, <1>2, <1>3, NothingNew DEF FlowInv
<1> QED
  BY <1>4 DEF Gains

\* Publishing leaves the objects alone, and puts the own queue pair under the
\* own name.
LEMMA PushGains ==
    ASSUME FlowInv, NEW n \in Node, Proceeds(n), Running(n)',
           \/ PushLocalMr(n, mr_name[n], "pd", "mr") /\ pc[n] = 3
           \/ PushLocalQp(n, qp_name[n], "pd", "qp") /\ pc[n] = 9
    PROVE  Gains(n) /\ NewMade(n) /\ LinksSourced
<1>1. LocalTypeOK /\ LocalInv /\ TypeOK
  BY FlowParts
<1>2. UNCHANGED <<obj, remoteQp>>
  BY <1>1, AbortEnds DEF PushLocalMr, PushLocalQp
<1>3. NewMade(n)
  <2>1. \A h \in Handle : obj[n][h].kind = "free" => obj'[n][h].kind = "free"
    BY <1>2
  <2> QED
    BY <2>1 DEF NewMade
<1>4. ASSUME NEW m \in Node
      PROVE  \/ memc'[qp_name[m]] = memc[qp_name[m]]
             \/ QpOfFlow(m, memc'[qp_name[m]])
  <2>1. memc \in [MrName \cup QpName -> Info \cup {nullptr}]
    BY <1>1 DEF TypeOK
  <2>2. CASE PushLocalMr(n, mr_name[n], "pd", "mr")
    <3>1. \E info : memc' \in {memc, [memc EXCEPT ![mr_name[n]] = info]}
      BY <1>1, <2>2, AbortEnds DEF PushLocalMr, set
    <3> QED
      BY <2>1, <3>1, FlowKeys
  <2>3. CASE PushLocalQp(n, qp_name[n], "pd", "qp")
    <3> DEFINE info == <<n, local_qp(n, "pd", "qp")>>
    <3>1. /\ HasQp(n, "pd", "qp")
          /\ memc' \in {memc, [memc EXCEPT ![qp_name[n]] = info]}
      BY <1>1, <2>3, AbortEnds DEF PushLocalQp, set
    <3>2. QpOfFlow(n, info)
      BY <1>1, <3>1, FlowKeys, LocalLookup DEF QpOfFlow
    <3>3. CASE m # n
      BY <2>1, <3>1, <3>3, FlowKeys
    <3>4. CASE m = n
      <4>1. memc'[qp_name[n]] = memc[qp_name[n]] \/ memc'[qp_name[n]] = info
        BY <2>1, <3>1, FlowKeys
      <4> QED
        BY <3>2, <3>4, <4>1
    <3> QED
      BY <3>3, <3>4
  <2> QED
    BY <2>2, <2>3
<1>5. LinksSourced
  BY <1>2, <1>4, LinksProceed
<1> QED
  BY <1>3, <1>5 DEF Gains

\* What a fetch gets under the name of a node is what is on the server.
LEMMA FetchGains ==
    ASSUME FlowInv, NEW n \in Node, Proceeds(n),
           \/ FetchRemoteMr(n, mr_name[Other(n)]) /\ pc[n] = 4
           \/ FetchRemoteQp(n, qp_name[Other(n)]) /\ pc[n] = 10
    PROVE  Gains(n) /\ NewMade(n) /\ LinksSourced
<1>1. LocalTypeOK /\ TypeOK /\ CoreInv /\ LinksInv
  BY FlowParts DEF FlowInv
<1>2. /\ Other(n) \in Node /\ qp_name[Other(n)] \in QpName
      /\ mr_name[Other(n)] \in MrName
  BY FlowKeys, OtherNode
<1>3. CASE FetchRemoteMr(n, mr_name[Other(n)]) /\ pc[n] = 4
  <2> DEFINE k == mr_name[Other(n)]
  <2>1. PICK h \in Fresh(n) :
          /\ Store(n, h, NewRemote("rmr", memc[k]))
          /\ remoteMr' = [remoteMr EXCEPT ![n] = register_resrc(@, k, h)]
    BY <1>3 DEF FetchRemoteMr, get
  <2>2. memc[k] \in Info
    BY <1>1, <1>2, <1>3 DEF FetchRemoteMr, get, TypeOK
  <2>3. NewRemote("rmr", memc[k]).kind = "rmr"
    BY <2>2, NewRemoteType
  <2>4. /\ h \in Handle /\ obj'[n][h].kind = "rmr"
        /\ \A g \in Handle \ {h} : obj'[n][g] = obj[n][g]
    BY <1>1, <2>1, <2>3, StoreFresh
  <2>5. NewMade(n)
    BY <2>4 DEF NewMade
  <2>6. remoteMr'[n] = register_resrc(remoteMr[n], k, h)
        /\ remoteMr[n] \in [MrName -> Address]
    BY <1>1, <2>1 DEF TypeOK
  <2>7. is_registered(remoteMr'[n], k)
    BY <1>2, <2>4, <2>6, Offered
  <2>8. UNCHANGED <<memc, remoteQp>>
    BY <1>3 DEF FetchRemoteMr
  <2>9. \A g \in Handle : obj'[n][g].kind = "qp" => obj'[n][g] = obj[n][g]
    BY <2>4
  <2>10. LinksSourced
    BY <2>8, <2>9, LinksProceed
  <2> QED
    BY <1>3, <2>5, <2>7, <2>10 DEF Gains
<1>4. CASE FetchRemoteQp(n, qp_name[Other(n)]) /\ pc[n] = 10
  <2> DEFINE k == qp_name[Other(n)]
  <2>1. PICK h \in Fresh(n) :
          /\ Store(n, h, NewRemote("rqp", memc[k]))
          /\ remoteQp' = [remoteQp EXCEPT ![n] = register_resrc(@, k, h)]
    BY <1>4 DEF FetchRemoteQp, get
  <2>2. memc[k] \in Info /\ memc[k] # nullptr
    BY <1>1, <1>2, <1>4 DEF FetchRemoteQp, get, TypeOK
  <2>3. NewRemote("rqp", memc[k]).kind = "rqp" /\ NewRemote("rqp", memc[k]).peer = memc[k]
    BY <2>2, NewRemoteType
  <2>4. /\ h \in Handle /\ obj'[n][h].kind = "rqp" /\ obj'[n][h].peer = memc[k]
        /\ \A g \in Handle \ {h} : obj'[n][g] = obj[n][g]
    BY <1>1, <2>1, <2>3, StoreFresh
  <2>5. NewMade(n)
    BY <2>4 DEF NewMade
  <2>6. remoteQp'[n] = register_resrc(remoteQp[n], k, h)
        /\ remoteQp[n] \in [QpName -> Address]
    BY <1>1, <2>1 DEF TypeOK
  <2>7. is_registered(remoteQp'[n], k)
    BY <1>2, <2>4, <2>6, Offered
  <2>8. UNCHANGED memc
    BY <1>4 DEF FetchRemoteQp
  <2>9. \A g \in Handle : obj'[n][g].kind = "qp" => obj'[n][g] = obj[n][g]
    BY <2>4
  <2>10. QpOfFlow(Other(n), memc[k])
    BY <1>1, <1>2, <2>2 DEF LinksInv
  <2>11. ASSUME NEW m \in Node
         PROVE  \/ remoteQp'[n][qp_name[m]] = remoteQp[n][qp_name[m]]
                \/ QpOfFlow(m, obj'[n][remoteQp'[n][qp_name[m]]].peer)
    <3>1. CASE m # Other(n)
      <4>1. qp_name[m] # k /\ qp_name[m] \in QpName
        BY <1>2, <3>1, FlowKeys
      <4> QED
        BY <2>6, <4>1 DEF register_resrc
    <3>2. CASE m = Other(n)
      <4>1. \/ remoteQp'[n][k] = remoteQp[n][k]
            \/ remoteQp'[n][k] = h
        BY <1>2, <2>6 DEF register_resrc
      <4> QED
        BY <2>4, <2>10, <3>2, <4>1
    <3> QED
      BY <3>1, <3>2
  <2>12. LinksSourced
    BY <2>8, <2>9, <2>11, LinksProceed
  <2> QED
    BY <1>4, <2>5, <2>7, <2>12 DEF Gains
<1> QED
  BY <1>3, <1>4

\* A queue pair that is connected gets what was fetched for its destination,
\* and when the call returns true it is in RTS.
LEMMA ConnectGains ==
    ASSUME FlowInv, NEW n \in Node, Proceeds(n), Running(n)',
           ConnectLocalQp(n, "pd", "qp", qp_name[Other(n)]), pc[n] = 11
    PROVE  Gains(n) /\ NewMade(n) /\ LinksSourced
<1> DEFINE h == local_qp(n, "pd", "qp")
           k == qp_name[Other(n)]
           moved(state) == Store(n, h, [obj[n][h] EXCEPT
                             !.state = state, !.peer = RemoteInfo(n, k)])
<1>1. LocalTypeOK /\ LocalInv /\ TypeOK /\ CoreInv /\ LinksInv /\ MadeInv
  BY FlowParts DEF FlowInv
<1>2. Other(n) \in Node /\ k \in QpName /\ "pd" \in PdKey /\ "qp" \in QpKey
  BY FlowKeys, OtherNode
<1>3. /\ is_registered(remoteQp[n], k) /\ HasQp(n, "pd", "qp")
      /\ \/ moved("RTS") /\ Return(n, TRUE)
         \/ (moved("RTR") \/ UNCHANGED obj) /\ Return(n, FALSE)
      /\ UNCHANGED <<memc, pdCache, qpCache, remoteQp>>
  BY <1>1, AbortEnds DEF ConnectLocalQp
<1>4. /\ h \in Handle /\ obj[n][h].kind = "qp"
      /\ obj \in [Node -> [Handle -> Object]] /\ obj[n][h] \in Object
  BY <1>1, <1>2, <1>3, LocalLookup DEF LocalTypeOK
<1>5. local_qp(n, "pd", "qp")' = h
  BY <1>3 DEF local_qp, local_pd, get_resrc
<1> HIDE DEF h
<1>6. ASSUME NEW state, moved(state)
      PROVE  /\ obj'[n][h].state = state
             /\ obj'[n][h].peer = RemoteInfo(n, k)
             /\ \A g \in Handle \ {h} : obj'[n][g] = obj[n][g]
  <2>1. obj'[n] = [obj[n] EXCEPT ![h] = [obj[n][h] EXCEPT
                     !.state = state, !.peer = RemoteInfo(n, k)]]
    BY <1>4, <1>6 DEF Store
  <2>2. obj[n] \in [Handle -> Object]
    BY <1>4
  <2>3. obj'[n][h] = [obj[n][h] EXCEPT !.state = state, !.peer = RemoteInfo(n, k)]
    BY <1>4, <2>1, <2>2
  <2> QED
    BY <1>4, <2>1, <2>2, <2>3 DEF Object
<1>7. QpOfFlow(Other(n), RemoteInfo(n, k))
  BY <1>1, <1>2, <1>3 DEF LinksInv, RemoteInfo, get_resrc, is_registered
<1>8. \A g \in Handle : obj'[n][g].kind = "qp" =>
        \/ obj[n][g].kind = "qp" /\ obj'[n][g].peer = obj[n][g].peer
        \/ QpOfFlow(Other(n), obj'[n][g].peer)
  BY <1>3, <1>6, <1>7
<1>9. LinksSourced
  BY <1>3, <1>8, LinksProceed
<1>10. NewMade(n)
  BY <1>1, <1>3, <1>4, NothingNew
<1>11. ret'[n] = "true" => MyQp(n)'.state = "RTS"
  <2>1. ret'[n] = "true" => moved("RTS")
    BY <1>1, <1>3, Returned
  <2>2. MyQp(n)' = obj'[n][h]
    BY <1>5 DEF MyQp
  <2> QED
    BY <1>6, <2>1, <2>2
<1> QED
  BY <1>9, <1>10, <1>11 DEF Gains

LEMMA CallGains ==
    ASSUME FlowInv, NEW n \in Node, Proceeds(n), Running(n)', Call(n)
    PROVE  Gains(n) /\ NewMade(n) /\ LinksSourced
<1>1. CASE At(n, "create_local_pd") /\ CreateLocalPd(n, "pd") /\ Carry(n)
  BY <1>1, FlowPlaces, PdGains, LocalCallLinks, FlowKeys DEF LocalStep
<1>2. CASE At(n, "create_local_mr") /\ CreateLocalMr(n, "pd", "mr") /\ Carry(n)
  BY <1>2, FlowPlaces, MrGains, LocalCallLinks, FlowKeys DEF LocalStep
<1>3. CASE /\ \/ At(n, "create_basiccq-1") /\ CreateBasicCq(n, "cq-1")
              \/ At(n, "create_basiccq-2") /\ CreateBasicCq(n, "cq-2")
           /\ Carry(n)
  BY <1>3, FlowPlaces, CqGains, LocalCallLinks, FlowKeys DEF LocalStep
<1>4. CASE /\ At(n, "create_local_qp")
           /\ CreateLocalQp(n, "pd", "qp", "cq-1", "cq-2") /\ Carry(n)
  BY <1>4, FlowPlaces, QpGains, LocalCallLinks, FlowKeys DEF LocalStep
<1>5. CASE At(n, "init_local_qp") /\ InitLocalQp(n, "pd", "qp") /\ Carry(n)
  BY <1>5, FlowPlaces, InitGains, LocalCallLinks, FlowKeys DEF LocalStep
<1>6. CASE At(n, "memc_push_local_mr") /\ PushLocalMr(n, mr_name[n], "pd", "mr")
  BY <1>6, FlowPlaces, PushGains
<1>7. CASE At(n, "memc_push_local_qp") /\ PushLocalQp(n, qp_name[n], "pd", "qp")
  BY <1>7, FlowPlaces, PushGains
<1>8. CASE At(n, "memc_fetch_remote_mr") /\ FetchRemoteMr(n, mr_name[Other(n)])
  BY <1>8, FlowPlaces, FetchGains
<1>9. CASE At(n, "memc_fetch_remote_qp") /\ FetchRemoteQp(n, qp_name[Other(n)])
  BY <1>9, FlowPlaces, FetchGains
<1>10. CASE /\ At(n, "connect_local_qp")
            /\ ConnectLocalQp(n, "pd", "qp", qp_name[Other(n)])
  BY <1>10, FlowPlaces, ConnectGains
<1> QED
  BY <1>1, <1>2, <1>3, <1>4, <1>5, <1>6, <1>7, <1>8, <1>9, <1>10 DEF Call

\* Which calls touch the server and the remote cache of queue pairs, and what
\* the push, the fetch and the connection of the queue pair leave behind.
Meets(n) ==
    /\ \A m \in Node \ {n} : memc'[qp_name[m]] = memc[qp_name[m]]
    /\ pc[n] # 9 => memc'[qp_name[n]] = memc[qp_name[n]]
    /\ pc[n] = 9 /\ ret'[n] = "true" => memc'[qp_name[n]] = Here(n)
    /\ pc[n] # 10 => remoteQp'[n] = remoteQp[n]
    /\ pc[n] = 10 => Known(n)' = memc[qp_name[Other(n)]]
    /\ pc[n] = 11 /\ ret'[n] = "true" => MyQp(n)'.peer = Known(n)

LEMMA PushMeets ==
    ASSUME FlowInv, NEW n \in Node, Running(n)',
           \/ PushLocalMr(n, mr_name[n], "pd", "mr") /\ pc[n] = 3
           \/ PushLocalQp(n, qp_name[n], "pd", "qp") /\ pc[n] = 9
    PROVE  Meets(n)
<1>1. /\ LocalTypeOK
      /\ memc \in [MrName \cup QpName -> Info \cup {nullptr}]
  BY FlowParts DEF TypeOK
<1>2. remoteQp' = remoteQp
  BY <1>1, AbortEnds DEF PushLocalMr, PushLocalQp
<1>3. CASE PushLocalMr(n, mr_name[n], "pd", "mr") /\ pc[n] = 3
  <2>1. \E info : memc' \in {memc, [memc EXCEPT ![mr_name[n]] = info]}
    BY <1>1, <1>3, AbortEnds DEF PushLocalMr, set
  <2>2. \A m \in Node : memc'[qp_name[m]] = memc[qp_name[m]]
    BY <1>1, <2>1, FlowKeys
  <2> QED
    BY <1>2, <1>3, <2>2 DEF Meets
<1>4. CASE PushLocalQp(n, qp_name[n], "pd", "qp") /\ pc[n] = 9
  <2>1. set(n, qp_name[n], Here(n))
    BY <1>1, <1>4, AbortEnds DEF PushLocalQp, Here
  <2>2. memc' \in {memc, [memc EXCEPT ![qp_name[n]] = Here(n)]}
    BY <2>1 DEF set
  <2>3. \A m \in Node \ {n} : memc'[qp_name[m]] = memc[qp_name[m]]
    BY <1>1, <2>2, FlowKeys
  <2>4. ret'[n] = "true" => memc' = [memc EXCEPT ![qp_name[n]] = Here(n)]
    BY <1>1, <2>1, Returned DEF set
  <2>5. ret'[n] = "true" => memc'[qp_name[n]] = Here(n)
    BY <1>1, <2>4, FlowKeys
  <2> QED
    BY <1>2, <1>4, <2>3, <2>5 DEF Meets
<1> QED
  BY <1>3, <1>4

LEMMA FetchMeets ==
    ASSUME FlowInv, NEW n \in Node,
           \/ FetchRemoteMr(n, mr_name[Other(n)]) /\ pc[n] = 4
           \/ FetchRemoteQp(n, qp_name[Other(n)]) /\ pc[n] = 10
    PROVE  Meets(n)
<1>1. LocalTypeOK /\ TypeOK /\ MeetInv
  BY FlowParts DEF FlowInv
<1>2. CASE FetchRemoteMr(n, mr_name[Other(n)]) /\ pc[n] = 4
  BY <1>2 DEF FetchRemoteMr, Meets
<1>3. CASE FetchRemoteQp(n, qp_name[Other(n)]) /\ pc[n] = 10
  <2> DEFINE k == qp_name[Other(n)]
  <2>1. PICK h \in Fresh(n) :
          /\ Store(n, h, NewRemote("rqp", memc[k]))
          /\ remoteQp' = [remoteQp EXCEPT ![n] = register_resrc(@, k, h)]
    BY <1>3 DEF FetchRemoteQp, get
  <2>2. Other(n) \in Node /\ k \in QpName
    BY FlowKeys, OtherNode
  <2>3. memc[k] \in Info /\ UNCHANGED memc
    BY <1>1, <1>3, <2>2 DEF FetchRemoteQp, get, TypeOK
  <2>4. NewRemote("rqp", memc[k]).kind = "rqp" /\ NewRemote("rqp", memc[k]).peer = memc[k]
    BY <2>3, NewRemoteType
  <2>5. h \in Handle /\ obj'[n][h].peer = memc[k]
    BY <1>1, <2>1, <2>4, StoreFresh
  <2>6. remoteQp[n][k] = nullptr
    BY <1>1, <1>3 DEF MeetInv
  <2>7. /\ remoteQp'[n] = register_resrc(remoteQp[n], k, h)
        /\ remoteQp[n] \in [QpName -> Address]
    BY <1>1, <2>1 DEF TypeOK
  <2>8. remoteQp'[n][k] = h
    BY <2>2, <2>5, <2>6, <2>7, Offered DEF is_registered
  <2>9. Known(n)' = obj'[n][remoteQp'[n][k]].peer
    BY DEF Known, RemoteInfo, get_resrc, Other
  <2> QED
    BY <1>3, <2>3, <2>5, <2>8, <2>9 DEF Meets
<1> QED
  BY <1>2, <1>3

LEMMA ConnectMeets ==
    ASSUME FlowInv, NEW n \in Node, Running(n)',
           ConnectLocalQp(n, "pd", "qp", qp_name[Other(n)]), pc[n] = 11
    PROVE  Meets(n)
<1> DEFINE h == local_qp(n, "pd", "qp")
<1>1. /\ LocalTypeOK /\ LocalInv /\ "pd" \in PdKey /\ "qp" \in QpKey
  BY FlowParts, FlowKeys
<1>2. /\ HasQp(n, "pd", "qp") /\ UNCHANGED <<memc, pdCache, qpCache, remoteQp>>
      /\ ret'[n] = "true" =>
           Store(n, h, [obj[n][h] EXCEPT !.state = "RTS", !.peer = Known(n)])
  BY <1>1, AbortEnds, Returned DEF ConnectLocalQp, Known
<1>3. /\ h \in Handle /\ obj \in [Node -> [Handle -> Object]]
      /\ obj[n][h] \in Object
  BY <1>1, <1>2, LocalLookup DEF LocalTypeOK
<1>4. local_qp(n, "pd", "qp")' = h
  BY <1>2 DEF local_qp, local_pd, get_resrc
<1>5. ret'[n] = "true" => MyQp(n)'.peer = Known(n)
  <2> SUFFICES ASSUME ret'[n] = "true" PROVE obj'[n][h].peer = Known(n)
    BY <1>4 DEF MyQp
  <2> HIDE DEF h
  <2>1. obj'[n] = [obj[n] EXCEPT ![h] =
                     [obj[n][h] EXCEPT !.state = "RTS", !.peer = Known(n)]]
    BY <1>2, <1>3 DEF Store
  <2>2. obj[n] \in [Handle -> Object]
    BY <1>3
  <2>3. obj'[n][h] = [obj[n][h] EXCEPT !.state = "RTS", !.peer = Known(n)]
    BY <1>3, <2>1, <2>2
  <2> QED
    BY <1>3, <2>3 DEF Object
<1> QED
  BY <1>2, <1>5 DEF Meets

LEMMA CallMeets ==
    ASSUME FlowInv, NEW n \in Node, Running(n)', Call(n)
    PROVE  Meets(n)
<1>1. ASSUME Carry(n), pc[n] \notin {9, 10, 11} PROVE Meets(n)
  BY <1>1 DEF Carry, exchangeVars, Meets
<1>2. CASE At(n, "memc_push_local_mr") /\ PushLocalMr(n, mr_name[n], "pd", "mr")
  BY <1>2, FlowPlaces, PushMeets
<1>3. CASE At(n, "memc_push_local_qp") /\ PushLocalQp(n, qp_name[n], "pd", "qp")
  BY <1>3, FlowPlaces, PushMeets
<1>4. CASE At(n, "memc_fetch_remote_mr") /\ FetchRemoteMr(n, mr_name[Other(n)])
  BY <1>4, FlowPlaces, FetchMeets
<1>5. CASE At(n, "memc_fetch_remote_qp") /\ FetchRemoteQp(n, qp_name[Other(n)])
  BY <1>5, FlowPlaces, FetchMeets
<1>6. CASE /\ At(n, "connect_local_qp")
           /\ ConnectLocalQp(n, "pd", "qp", qp_name[Other(n)])
  BY <1>6, FlowPlaces, ConnectMeets
<1>7. CASE /\ \/ At(n, "create_local_pd") \/ At(n, "create_local_mr")
              \/ At(n, "create_basiccq-1") \/ At(n, "create_basiccq-2")
              \/ At(n, "create_local_qp") \/ At(n, "init_local_qp")
           /\ Carry(n)
  BY <1>1, <1>7, FlowPlaces
<1> QED
  BY <1>2, <1>3, <1>4, <1>5, <1>6, <1>7 DEF Call

-----------------------------------------------------------------------------
(* Why a call of the flow can end its process.                             *)

LEMMA AbortCause ==
    ASSUME FlowInv, NEW n \in Node, Call(n), ~Running(n)'
    PROVE  /\ ~(Faults \subseteq {"kill"})
           /\ Faults \cap {"ibv_create_cq", "ibv_alloc_pd", "ibv_create_qp",
                           "aligned_alloc"} = {} => ~ok[n]
<1>1. /\ CoreInv /\ LocalTypeOK /\ LocalInv /\ Reached(n) /\ MadeInv
      /\ "pd" \in PdKey /\ "mr" \in MrKey /\ "qp" \in QpKey
      /\ "cq-1" \in CqKey /\ "cq-2" \in CqKey
  BY FlowParts, FlowKeys DEF FlowInv
<1>2. Running(n) /\ proc' # proc
  BY <1>1, CallCases DEF Running
<1>3. CASE \E f \in {"ibv_create_cq", "ibv_alloc_pd", "ibv_create_qp",
                     "aligned_alloc"} : f \in Faults
  BY <1>3
<1>4. CASE At(n, "create_local_pd") /\ CreateLocalPd(n, "pd")
  BY <1>2, <1>3, <1>4 DEF CreateLocalPd
<1>5. CASE At(n, "create_local_mr") /\ CreateLocalMr(n, "pd", "mr")
  <2>1. HasPd(n, "pd")
    BY <1>1, <1>5, FlowPlaces DEF Reached
  <2> QED
    BY <1>2, <1>3, <1>5, <2>1 DEF CreateLocalMr
<1>6. CASE At(n, "memc_push_local_mr") /\ PushLocalMr(n, mr_name[n], "pd", "mr")
  <2> DEFINE h == local_mr(n, "pd", "mr")
  <2>1. HasMr(n, "pd", "mr") /\ (ok[n] => obj[n][h].made)
    BY <1>1, <1>6, FlowPlaces DEF Reached
  <2>2. ~obj[n][h].made
    BY <1>2, <1>6, <2>1 DEF PushLocalMr
  <2>3. h \in Handle /\ obj[n][h].kind = "mr"
    BY <1>1, <2>1, LocalLookup
  <2>4. "ibv_reg_mr" \in Faults
    BY <1>1, <2>2, <2>3 DEF MadeInv
  <2> QED
    BY <2>1, <2>2, <2>4
<1>7. CASE At(n, "create_local_qp") /\ CreateLocalQp(n, "pd", "qp", "cq-1", "cq-2")
  <2>1. /\ HasPd(n, "pd")
        /\ is_registered(cqCache[n], "cq-1") /\ is_registered(cqCache[n], "cq-2")
    BY <1>1, <1>7, FlowPlaces DEF Reached
  <2>2. \/ ~UsableCq(n, "cq-1") \/ ~UsableCq(n, "cq-2")
        \/ "ibv_create_qp" \in Faults
    BY <1>2, <1>7, <2>1 DEF CreateLocalQp
  <2>3. ASSUME NEW k \in CqKey, is_registered(cqCache[n], k), ~UsableCq(n, k)
        PROVE  "ibv_create_cq" \in Faults
    <3>1. cqCache[n][k] \in Handle /\ ~obj[n][cqCache[n][k]].made
      BY <1>1, <2>3 DEF UsableCq, is_registered, get_resrc, LocalTypeOK, Address
    <3>2. obj[n][cqCache[n][k]].kind = "cq"
      BY <1>1, <2>3 DEF is_registered, LocalInv, CachesNameLiveObjects, CqEntriesOK
    <3> QED
      BY <1>1, <3>1, <3>2 DEF MadeInv
  <2> QED
    BY <1>1, <1>3, <2>1, <2>2, <2>3
<1>8. CASE At(n, "init_local_qp") /\ InitLocalQp(n, "pd", "qp")
  <2>1. HasQp(n, "pd", "qp")
    BY <1>1, <1>8, FlowPlaces DEF Reached
  <2> QED
    BY <1>2, <1>8, <2>1 DEF InitLocalQp
<1>9. CASE At(n, "memc_push_local_qp") /\ PushLocalQp(n, qp_name[n], "pd", "qp")
  <2>1. HasQp(n, "pd", "qp")
    BY <1>1, <1>9, FlowPlaces DEF Reached
  <2> QED
    BY <1>2, <1>9, <2>1 DEF PushLocalQp
<1>10. CASE /\ At(n, "connect_local_qp")
            /\ ConnectLocalQp(n, "pd", "qp", qp_name[Other(n)])
  <2>1. HasQp(n, "pd", "qp") /\ is_registered(remoteQp[n], qp_name[Other(n)])
    BY <1>1, <1>10, FlowPlaces DEF Reached
  <2> QED
    BY <1>2, <1>10, <2>1 DEF ConnectLocalQp
<1>11. CASE \/ FetchRemoteMr(n, mr_name[Other(n)]) \/ FetchRemoteQp(n, qp_name[Other(n)])
            \/ CreateBasicCq(n, "cq-1") \/ CreateBasicCq(n, "cq-2")
  BY <1>2, <1>11 DEF FetchRemoteMr, FetchRemoteQp, CreateBasicCq
<1> QED
  BY <1>4, <1>5, <1>6, <1>7, <1>8, <1>9, <1>10, <1>11 DEF Call

-----------------------------------------------------------------------------
(* Every step keeps the invariant.                                         *)

\* What a process reached is about its own state.
LEMMA ReachedOther ==
    ASSUME NEW m \in Node, Reached(m), ProcessKept(m),
           remoteMr'[m] = remoteMr[m], remoteQp'[m] = remoteQp[m],
           pc'[m] = pc[m], ok'[m] => ok[m]
    PROVE  Reached(m)'
<1>1. /\ HasPd(m, "pd")' = HasPd(m, "pd")
      /\ HasMr(m, "pd", "mr")' = HasMr(m, "pd", "mr")
      /\ local_mr(m, "pd", "mr")' = local_mr(m, "pd", "mr")
      /\ HasQp(m, "pd", "qp")' = HasQp(m, "pd", "qp")
      /\ local_qp(m, "pd", "qp")' = local_qp(m, "pd", "qp")
  BY DEF ProcessKept, HasPd, HasMr, HasQp, local_pd, local_mr, local_qp, get_resrc
<1>2. MyQp(m)' = MyQp(m) /\ Other(m)' = Other(m)
  BY <1>1 DEF MyQp, ProcessKept, Other
<1> QED
  BY <1>1, <1>2 DEF Reached, ProcessKept

\* So is what it published, fetched and connected to.
LEMMA MeetOther ==
    ASSUME NEW m \in Node, ProcessKept(m), remoteQp'[m] = remoteQp[m]
    PROVE  Here(m)' = Here(m) /\ Known(m)' = Known(m) /\ MyQp(m)' = MyQp(m)
  BY DEF ProcessKept, Here, Known, RemoteInfo, MyQp, local_qp, local_pd,
         get_resrc, Other

\* A step in which n is set back to its first call.
LEMMA MeetEnds ==
    ASSUME FlowInv, NEW n \in Node, memc' = memc, pc'[n] = 1,
           \A k \in QpName : remoteQp'[n][k] = nullptr,
           \A m \in Node \ {n} :
             /\ ProcessKept(m) /\ remoteQp'[m] = remoteQp[m]
             /\ pc'[m] = pc[m] /\ (ok'[m] => ok[m])
    PROVE  MeetInv'
<1>1. MeetInv
  BY DEF FlowInv
<1>2. \A m \in Node \ {n} :
        Here(m)' = Here(m) /\ Known(m)' = Known(m) /\ MyQp(m)' = MyQp(m)
  BY MeetOther
<1>3. \A m \in Node : Other(m)' = Other(m) /\ qp_name[Other(m)] \in QpName
  BY OtherNode, FlowKeys DEF Other
<1>4. \A m \in Node : m # n => m = Other(n)
  BY OtherNode
<1>5. \A m \in Node : pc'[m] > 9 /\ ok'[m] => memc'[qp_name[m]] = Here(m)'
  BY <1>1, <1>2 DEF MeetInv
<1>6. \A m \in Node : pc'[m] <= 10 => remoteQp'[m][qp_name[Other(m)]] = nullptr
  BY <1>1, <1>3 DEF MeetInv
<1>7. \A m \in Node : pc'[m] > 11 /\ ok'[m] => MyQp(m)'.peer = Known(m)'
  BY <1>1, <1>2 DEF MeetInv
<1>8. \A l, m \in Node : ~(l # m /\ pc'[l] > 10 /\ pc'[m] > 10)
  BY <1>4
<1> QED
  BY <1>3, <1>5, <1>6, <1>7, <1>8 DEF MeetInv

LEMMA EndedKeeps ==
    ASSUME FlowInv, NEW n \in Node, Ended(n), pc' = [pc EXCEPT ![n] = 1],
           \A m \in Node : ok'[m] => ok[m]
    PROVE  ReachedInv' /\ MadeInv' /\ LinksInv' /\ MeetInv'
<1>1. /\ CoreInv /\ TypeOK /\ LocalTypeOK /\ MadeInv /\ LinksInv /\ ReachedInv
      /\ pc \in [Node -> 1..12]
  BY FlowParts DEF FlowInv
<1>2. /\ \A m \in Node \ {n} :
           /\ ProcessKept(m) /\ proc'[m] = proc[m]
           /\ remoteMr'[m] = remoteMr[m] /\ remoteQp'[m] = remoteQp[m]
           /\ pc'[m] = pc[m]
      /\ pc'[n] = 1 /\ UNCHANGED memc
  BY <1>1 DEF Ended, End, RemoteCachesEndWith, ProcessKept, LocalTypeOK, TypeOK
<1>3. /\ \A h \in Handle : obj'[n][h].kind \in {"free", "dead"}
      /\ \A k \in QpName : remoteQp'[n][k] = nullptr
  BY <1>1 DEF Ended, End, RemoteCachesEndWith, Blank, LocalTypeOK, TypeOK, EmptyCache
<1>4. ReachedInv'
  <2> SUFFICES ASSUME NEW m \in Node
               PROVE  Reached(m)' /\ (~Running(m)' => pc'[m] = 1)
    BY DEF ReachedInv
  <2>1. CASE m = n
    BY <1>2, <2>1 DEF Reached
  <2>2. CASE m # n
    BY <1>1, <1>2, <2>2, ReachedOther DEF ReachedInv, Running
  <2> QED
    BY <2>1, <2>2
<1>5. MadeInv'
  BY <1>1, <1>2, <1>3 DEF MadeInv, ProcessKept
<1>6. LinksSourced
  <2>1. \A l, m \in Node : remoteQp'[l][qp_name[m]] # nullptr =>
          QpOfFlow(m, obj'[l][remoteQp'[l][qp_name[m]]].peer)
    BY <1>1, <1>2, <1>3, FlowKeys DEF LinksInv, ProcessKept
  <2>2. \A l \in Node, h \in Handle :
          obj'[l][h].kind = "qp" /\ obj'[l][h].peer # nullptr =>
            QpOfFlow(Other(l), obj'[l][h].peer)
    BY <1>1, <1>2, <1>3 DEF LinksInv, ProcessKept
  <2> QED
    BY <1>1, <1>2, <2>1, <2>2 DEF LinksSourced, LinksInv
<1>7. MeetInv'
  BY <1>2, <1>3, MeetEnds
<1> QED
  BY <1>1, <1>4, <1>5, <1>6, <1>7, LinksStep

LEMMA ProceedsMeets ==
    ASSUME FlowInv, NEW n \in Node, Proceeds(n), Meets(n), pc[n] \in 1..11,
           pc' = [pc EXCEPT ![n] = @ + 1],
           ok' = [ok EXCEPT ![n] = @ /\ ret'[n] = "true"]
    PROVE  MeetInv'
<1>1. /\ CoreInv /\ TypeOK /\ MeetInv /\ Reached(n)
      /\ pc \in [Node -> 1..12] /\ ok \in [Node -> BOOLEAN]
  BY FlowParts DEF FlowInv
<1>2. /\ pc'[n] = pc[n] + 1 /\ (ok'[n] => ok[n] /\ ret'[n] = "true")
      /\ \A m \in Node \ {n} : pc'[m] = pc[m] /\ ok'[m] = ok[m]
  BY <1>1
<1>3. \A m \in Node \ {n} :
        /\ Here(m)' = Here(m) /\ Known(m)' = Known(m) /\ MyQp(m)' = MyQp(m)
        /\ remoteQp'[m] = remoteQp[m]
  BY MeetOther DEF Proceeds
<1>4. \A m \in Node : Other(m)' = Other(m)
  BY DEF Other
<1>5. pc[n] > 7 => Here(n)' = Here(n)
  BY <1>1, LooksKept DEF Reached, Here
<1>6. pc[n] > 10 => Known(n)' = Known(n)
  <2> DEFINE k == qp_name[Other(n)]
  <2> SUFFICES ASSUME pc[n] > 10 PROVE Known(n)' = Known(n)
    OBVIOUS
  <2>1. k \in QpName /\ is_registered(remoteQp[n], k)
    BY <1>1, OtherNode, FlowKeys DEF Reached
  <2>2. /\ remoteQp[n][k] \in Handle /\ obj[n][remoteQp[n][k]].kind = "rqp"
        /\ remoteQp'[n][k] = remoteQp[n][k]
    BY <1>1, <2>1 DEF is_registered, TypeOK, Address, CoreInv,
                      RemoteCachesHoldWrappers, Proceeds
  <2> QED
    BY <1>4, <2>2 DEF Proceeds, Known, RemoteInfo, get_resrc
<1>7. ASSUME NEW m \in Node, pc'[m] > 9, ok'[m]
      PROVE  memc'[qp_name[m]] = Here(m)'
  <2>1. CASE m # n
    BY <1>1, <1>2, <1>3, <1>7, <2>1 DEF Meets, MeetInv
  <2>2. CASE m = n
    BY <1>1, <1>2, <1>5, <1>7, <2>2 DEF Meets, MeetInv
  <2> QED
    BY <2>1, <2>2
<1>8. \A m \in Node : pc'[m] <= 10 => remoteQp'[m][qp_name[Other(m)]] = nullptr
  BY <1>1, <1>2, <1>3 DEF Meets, MeetInv
<1>9. ASSUME NEW m \in Node, pc'[m] > 11, ok'[m]
      PROVE  MyQp(m)'.peer = Known(m)'
  <2>1. CASE m # n
    BY <1>1, <1>2, <1>3, <1>9, <2>1 DEF MeetInv
  <2>2. CASE m = n
    BY <1>2, <1>6, <1>9, <2>2 DEF Meets
  <2> QED
    BY <2>1, <2>2
<1>10. ASSUME NEW m \in Node \ {n}, pc'[n] > 10, ok'[n], pc'[m] > 10, ok'[m]
       PROVE  Known(n)' = Here(m)' \/ Known(m)' = Here(n)'
  <2>1. CASE pc[n] = 10
    <3>1. m = Other(n)
      BY <1>10, OtherNode
    <3>2. Known(n)' = memc[qp_name[m]]
      BY <2>1, <3>1 DEF Meets
    <3>3. memc[qp_name[m]] = Here(m)
      BY <1>1, <1>2, <1>10 DEF MeetInv
    <3> QED
      BY <1>3, <3>2, <3>3
  <2>2. CASE pc[n] > 10
    BY <1>1, <1>2, <1>3, <1>5, <1>6, <1>10, <2>2 DEF MeetInv
  <2> QED
    BY <1>2, <1>10, <2>1, <2>2
<1>11. ASSUME NEW l \in Node, NEW m \in Node,
              l # m, pc'[l] > 10, ok'[l], pc'[m] > 10, ok'[m]
       PROVE  Known(l)' = Here(m)' \/ Known(m)' = Here(l)'
  <2>1. CASE l = n
    BY <1>10, <1>11, <2>1
  <2>2. CASE l # n
    <3>1. m = n
      BY <1>11, <2>2, OtherNode
    <3> QED
      BY <1>10, <1>11, <2>2, <3>1
  <2> QED
    BY <2>1, <2>2
<1> QED
  BY <1>4, <1>7, <1>8, <1>9, <1>11 DEF MeetInv

LEMMA ProceedsReached ==
    ASSUME FlowInv, NEW n \in Node, Proceeds(n), Gains(n), pc[n] \in 1..11,
           pc' = [pc EXCEPT ![n] = @ + 1],
           ok' = [ok EXCEPT ![n] = @ /\ ret'[n] = "true"]
    PROVE  ReachedInv'
<1>1. /\ CoreInv /\ TypeOK /\ LocalTypeOK /\ ReachedInv
      /\ pc \in [Node -> 1..12] /\ ok \in [Node -> BOOLEAN]
  BY FlowParts DEF FlowInv
<1>2. SUFFICES ASSUME NEW m \in Node
               PROVE  Reached(m)' /\ (~Running(m)' => pc'[m] = 1)
  BY DEF ReachedInv
<1>3. CASE m # n
  <2>1. pc'[m] = pc[m] /\ ok'[m] = ok[m]
    BY <1>1, <1>3
  <2> QED
    BY <1>1, <1>3, <2>1, ReachedOther DEF Proceeds, ReachedInv, Running
<1>4. CASE m = n
  <2>1. pc'[n] = pc[n] + 1 /\ (ok'[n] => ok[n] /\ ret'[n] = "true")
    BY <1>1
  <2>2. pc[n] \in 1..12 /\ Reached(n) /\ Running(n)'
    BY <1>1 DEF ReachedInv, Proceeds, Running
  <2>3. mr_name[Other(n)] \in MrName /\ qp_name[Other(n)] \in QpName
        /\ "cq-1" \in CqKey /\ "cq-2" \in CqKey
    BY FlowKeys, OtherNode
  <2>4. pc'[n] > 1 => HasPd(n, "pd")'
    BY <1>1, <2>1, <2>2, LooksKept DEF Reached, Gains
  <2>5. pc'[n] > 2 => HasMr(n, "pd", "mr")'
    BY <1>1, <2>1, <2>2, LooksKept DEF Reached, Gains
  <2>6. pc'[n] > 2 /\ ok'[n] => obj'[n][local_mr(n, "pd", "mr")'].made
    <3>1. CASE pc[n] = 2
      BY <2>1, <3>1 DEF Gains
    <3>2. CASE pc[n] > 2
      BY <1>1, <2>1, <2>2, <3>2, LooksKept DEF Reached
    <3> QED
      BY <2>1, <2>2, <3>1, <3>2
  <2>7. pc'[n] > 4 => is_registered(remoteMr'[n], mr_name[Other(n)])
    BY <1>1, <2>1, <2>2, <2>3, LooksKept DEF Reached, Gains
  <2>8. /\ pc'[n] > 5 => is_registered(cqCache'[n], "cq-1")
        /\ pc'[n] > 6 => is_registered(cqCache'[n], "cq-2")
    BY <1>1, <2>1, <2>2, <2>3, LooksKept DEF Reached, Gains
  <2>9. pc'[n] > 7 => HasQp(n, "pd", "qp")'
    BY <1>1, <2>1, <2>2, LooksKept DEF Reached, Gains
  <2>10. pc'[n] > 10 => is_registered(remoteQp'[n], qp_name[Other(n)])
    BY <1>1, <2>1, <2>2, <2>3, LooksKept DEF Reached, Gains
  <2>11. pc'[n] > 11 /\ ok'[n] => MyQp(n)'.state = "RTS"
    <3>1. pc'[n] > 11 => pc[n] = 11
      BY <2>1, <2>2
    <3> QED
      BY <2>1, <3>1 DEF Gains
  <2>12. Other(n)' = Other(n)
    BY DEF Other
  <2> QED
    BY <1>4, <2>2, <2>4, <2>5, <2>6, <2>7, <2>8, <2>9, <2>10, <2>11, <2>12 DEF Reached
<1> QED
  BY <1>3, <1>4

LEMMA FlowStepKeepsInv ==
    ASSUME FlowInv, NEW n \in Node, FlowStep(n)
    PROVE  FlowInv'
<1>1. /\ CoreInv /\ LocalTypeOK /\ MadeInv
      /\ pc \in [Node -> 1..12] /\ ok \in [Node -> BOOLEAN]
      /\ NeverAborts /\ AbortsOnlyAfterFalse
  BY FlowParts DEF FlowInv
<1>2. Call(n) /\ pc[n] \in 1..11
  BY FlowLength DEF FlowStep, Call, At
<1>3. CoreInv'
  BY <1>1, <1>2, CallIsStep, StepKeepsInv DEF Next
<1>4. /\ pc' = [pc EXCEPT ![n] = IF Running(n)' THEN @ + 1 ELSE 1]
      /\ ok' = [ok EXCEPT ![n] = @ /\ (Running(n)' => ret'[n] = "true")]
  BY DEF FlowStep
<1>5. FlowTypeOK'
  <2>1. pc' \in [Node -> 1..12]
    BY <1>1, <1>2, <1>4
  <2>2. ok' \in [Node -> BOOLEAN]
    BY <1>1, <1>4
  <2> QED
    BY <1>3, <2>1, <2>2, FlowLength DEF CoreInv, FlowTypeOK
<1>6. \A m \in Node : ok'[m] => ok[m]
  BY <1>1, <1>4
<1>7. Running(n) /\ (Ended(n) \/ Proceeds(n))
  BY <1>1, <1>2, CallCases
<1>8. CASE Running(n)'
  <2>1. Proceeds(n)
    BY <1>1, <1>7, <1>8 DEF Ended, End, Running, LocalTypeOK
  <2>2. Gains(n) /\ NewMade(n) /\ LinksSourced
    BY <1>2, <1>8, <2>1, CallGains
  <2>3. ReachedInv'
    BY <1>2, <1>4, <1>8, <2>1, <2>2, ProceedsReached
  <2>4. MadeInv' /\ LinksInv'
    BY <1>1, <2>1, <2>2, MadeProceeds, LinksStep
  <2>5. proc' = proc
    BY <2>1 DEF Proceeds
  <2>6. NeverAborts' /\ AbortsOnlyAfterFalse'
    BY <1>1, <1>6, <2>5 DEF NeverAborts, AbortsOnlyAfterFalse
  <2>7. MeetInv'
    BY <1>2, <1>4, <1>8, <2>1, CallMeets, ProceedsMeets
  <2> QED
    BY <1>3, <1>5, <2>3, <2>4, <2>6, <2>7 DEF FlowInv
<1>9. CASE ~Running(n)'
  <2>1. Ended(n)
    BY <1>7, <1>9 DEF Proceeds, Running
  <2>2. ReachedInv' /\ MadeInv' /\ LinksInv' /\ MeetInv'
    BY <1>4, <1>6, <1>9, <2>1, EndedKeeps
  <2>3. \A m \in Node \ {n} : proc'[m] = proc[m]
    BY <1>1, <2>1 DEF Ended, End, LocalTypeOK
  <2>4. NeverAborts'
    BY <1>1, <1>2, <1>9, AbortCause DEF NeverAborts
  <2>5. AbortsOnlyAfterFalse'
    BY <1>1, <1>2, <1>6, <1>9, <2>3, AbortCause DEF AbortsOnlyAfterFalse
  <2> QED
    BY <1>3, <1>5, <2>2, <2>4, <2>5 DEF FlowInv
<1> QED
  BY <1>8, <1>9

\* A process that is stopped, or that is done, leaves the others what they had.
LEMMA KillKeepsInv ==
    ASSUME FlowInv, NEW n \in Node, Kill(n), Carry(n),
           pc' = [pc EXCEPT ![n] = 1], UNCHANGED ok
    PROVE  FlowInv'
<1>1. /\ CoreInv /\ LocalTypeOK
      /\ pc \in [Node -> 1..12] /\ ok \in [Node -> BOOLEAN]
      /\ NeverAborts /\ AbortsOnlyAfterFalse
  BY FlowParts DEF FlowInv
<1>2. CoreInv'
  BY <1>1, EndIsStep, StepKeepsInv DEF Next
<1>3. FlowTypeOK'
  <2>1. pc' \in [Node -> 1..12]
    BY <1>1
  <2> QED
    BY <1>1, <1>2, <2>1, FlowLength DEF CoreInv, FlowTypeOK
<1>4. End(n, "killed") /\ ~Running(n)'
  BY <1>1 DEF Kill, End, Running, LocalTypeOK
<1>5. Ended(n)
  BY <1>4 DEF Carry, Ended
<1>6. ReachedInv' /\ MadeInv' /\ LinksInv' /\ MeetInv'
  BY <1>5, EndedKeeps
<1>7. proc' = [proc EXCEPT ![n] = "killed"]
  BY <1>4 DEF End
<1>8. \A m \in Node : proc'[m] = "aborted" => proc[m] = "aborted"
  BY <1>1, <1>7 DEF LocalTypeOK
<1>9. NeverAborts' /\ AbortsOnlyAfterFalse'
  BY <1>1, <1>8 DEF NeverAborts, AbortsOnlyAfterFalse
<1> QED
  BY <1>2, <1>3, <1>6, <1>9 DEF FlowInv

\* A process that is launched again has what it had: nothing.
LEMMA RestartKeepsInv ==
    ASSUME FlowInv, NEW n \in Node, Restart(n)
    PROVE  FlowInv'
<1>1. /\ CoreInv /\ LocalTypeOK /\ ReachedInv /\ MadeInv /\ LinksInv
      /\ pc \in [Node -> 1..12] /\ ok \in [Node -> BOOLEAN]
      /\ NeverAborts /\ AbortsOnlyAfterFalse
  BY FlowParts DEF FlowInv
<1>2. Begun(n)
  BY DEF Restart, Begun, exchangeVars
<1>3. CoreInv'
  BY <1>1, <1>2, EndIsStep, StepKeepsInv DEF Next, Begun
<1>4. /\ pc' = pc /\ ok' = [ok EXCEPT ![n] = TRUE]
      /\ UNCHANGED <<obj, pdCache, cqCache, mrCache, qpCache, memc, remoteMr, remoteQp>>
      /\ proc' = [proc EXCEPT ![n] = "up"] /\ ~Running(n)
  BY DEF Restart, Relaunch
<1>5. FlowTypeOK'
  BY <1>1, <1>3, <1>4, FlowLength DEF CoreInv, FlowTypeOK
<1>6. /\ \A m \in Node \ {n} : ok'[m] = ok[m] /\ proc'[m] = proc[m]
      /\ proc'[n] = "up" /\ pc[n] = 1
  BY <1>1, <1>4 DEF LocalTypeOK, ReachedInv
<1>7. ReachedInv'
  <2> SUFFICES ASSUME NEW m \in Node
               PROVE  Reached(m)' /\ (~Running(m)' => pc'[m] = 1)
    BY DEF ReachedInv
  <2>1. CASE m = n
    BY <1>4, <1>6, <2>1 DEF Reached
  <2>2. CASE m # n
    <3>1. ProcessKept(m)
      BY <1>4 DEF ProcessKept
    <3> QED
      BY <1>1, <1>4, <1>6, <2>2, <3>1, ReachedOther DEF ReachedInv, Running
  <2> QED
    BY <2>1, <2>2
<1>8. MadeInv'
  BY <1>1, <1>4 DEF MadeInv
<1>9. LinksSourced
  BY <1>1, <1>4 DEF LinksInv, LinksSourced
<1>10. LinksInv'
  BY <1>1, <1>2, <1>9, LinksStep
<1>11. NeverAborts' /\ AbortsOnlyAfterFalse'
  BY <1>1, <1>6 DEF NeverAborts, AbortsOnlyAfterFalse
<1>12. MeetInv'
  <2>1. /\ \A m \in Node \ {n} : ProcessKept(m)
        /\ pc'[n] = 1 /\ MeetInv /\ Other(n) \in Node /\ \A m \in Node : m # n => m = Other(n)
    BY <1>4, <1>6, OtherNode DEF ProcessKept, FlowInv
  <2>2. \A m \in Node : /\ Here(m)' = Here(m) /\ Known(m)' = Known(m)
                        /\ MyQp(m)' = MyQp(m) /\ Other(m)' = Other(m)
    BY <1>4, MeetOther DEF ProcessKept, Other
  <2>3. /\ pc' = pc /\ ~(pc[n] > 9)
        /\ \A m \in Node : m # n => (ok'[m] <=> ok[m])
    BY <1>4, <1>6
  <2>4. \A m \in Node : pc[m] > 10 \/ pc[m] > 11 => pc[m] > 9 /\ m # n
    BY <1>1, <2>3
  <2>5. /\ \A m \in Node : pc'[m] > 9 /\ ok'[m] => memc'[qp_name[m]] = Here(m)'
        /\ \A m \in Node : pc'[m] <= 10 => remoteQp'[m][qp_name[Other(m)']] = nullptr
    BY <1>4, <2>1, <2>2, <2>3 DEF MeetInv
  <2>6. \A m \in Node : pc'[m] > 11 /\ ok'[m] => MyQp(m)'.peer = Known(m)'
    BY <2>1, <2>2, <2>3, <2>4 DEF MeetInv
  <2>7. \A l, m \in Node :
          l # m /\ pc'[l] > 10 /\ ok'[l] /\ pc'[m] > 10 /\ ok'[m] =>
            Known(l)' = Here(m)' \/ Known(m)' = Here(l)'
    BY <2>1, <2>2, <2>3, <2>4 DEF MeetInv
  <2> QED
    BY <2>5, <2>6, <2>7 DEF MeetInv
<1> QED
  BY <1>3, <1>5, <1>7, <1>8, <1>10, <1>11, <1>12 DEF FlowInv

\* A step that only changes what calls returned.
LEMMA ReturnKeepsInv ==
    ASSUME FlowInv,
           UNCHANGED <<proc, launch, obj, pdCache, cqCache, mrCache, qpCache,
                       memc, remoteMr, remoteQp, pc>>,
           ret' \in [Node -> {"none", "true", "false"}],
           ok' \in [Node -> BOOLEAN], \A m \in Node : ok'[m] => ok[m]
    PROVE  FlowInv'
<1>1. /\ CoreInv /\ LocalTypeOK /\ ReachedInv /\ MadeInv /\ LinksInv
      /\ pc \in [Node -> 1..12]
      /\ NeverAborts /\ AbortsOnlyAfterFalse
  BY FlowParts DEF FlowInv
<1>2. LocalTypeOK' /\ TypeOK'
  BY DEF CoreInv, TypeOK, LocalTypeOK, FlowInv
<1>3. LocalInv'
  BY <1>1, <1>2, SameObjectsKeepInv DEF CoreInv
<1>4. Evolves /\ PeersKept
  BY DEF Evolves, Running, SameObject, PeersKept, PeerKept
<1>5. PeersSet' /\ StaleOnlyIfOwnerEnded'
  BY <1>1, <1>2, <1>4, OldSourced, SourcedKeeps
<1>6. RemoteCachesHoldWrappers' /\ LaunchedOnce'
  BY <1>1 DEF CoreInv, RemoteCachesHoldWrappers, LaunchedOnce
<1>7. CoreInv'
  BY <1>2, <1>3, <1>5, <1>6 DEF CoreInv
<1>8. ReachedInv'
  <2> SUFFICES ASSUME NEW m \in Node
               PROVE  Reached(m)' /\ (~Running(m)' => pc'[m] = 1)
    BY DEF ReachedInv
  <2>1. ProcessKept(m)
    BY DEF ProcessKept
  <2> QED
    BY <1>1, <2>1, ReachedOther DEF ReachedInv, Running
<1>9. MadeInv'
  BY <1>1 DEF MadeInv
<1>10. LinksInv'
  <2>1. /\ \A m \in Node : /\ HasQp(m, "pd", "qp")' = HasQp(m, "pd", "qp")
                           /\ local_qp(m, "pd", "qp")' = local_qp(m, "pd", "qp")
                           /\ Running(m)' = Running(m)
        /\ \A l : Other(l)' = Other(l)
    BY DEF HasQp, HasPd, local_qp, local_pd, get_resrc, Running, Other
  <2>2. \A l \in Node : Other(l) \in Node
    BY OtherNode
  <2>3. ASSUME NEW m \in Node, NEW info, QpOfFlow(m, info)
        PROVE  /\ info[1] = m /\ info[2] \in Handle
               /\ obj'[m][info[2]].kind # "dead" =>
                    HasQp(m, "pd", "qp")' /\ info[2] = local_qp(m, "pd", "qp")'
    BY <2>1, <2>3 DEF QpOfFlow
  <2>4. \A m \in Node : memc'[qp_name[m]] # nullptr => QpOfFlow(m, memc[qp_name[m]])'
    BY <1>1, <2>3 DEF LinksInv, QpOfFlow
  <2>5. ASSUME NEW l \in Node, NEW m \in Node, remoteQp'[l][qp_name[m]] # nullptr
        PROVE  QpOfFlow(m, obj[l][remoteQp[l][qp_name[m]]].peer)'
    <3>1. QpOfFlow(m, obj[l][remoteQp[l][qp_name[m]]].peer)
      BY <1>1, <2>5 DEF LinksInv
    <3> QED
      BY <2>3, <3>1 DEF QpOfFlow
  <2>6. ASSUME NEW l \in Node, NEW h \in Handle,
               obj'[l][h].kind = "qp", obj'[l][h].peer # nullptr
        PROVE  QpOfFlow(Other(l), obj[l][h].peer)'
    <3>1. QpOfFlow(Other(l), obj[l][h].peer)
      BY <1>1, <2>6 DEF LinksInv
    <3> QED
      BY <2>1, <2>2, <2>3, <3>1 DEF QpOfFlow
  <2> QED
    BY <2>4, <2>5, <2>6 DEF LinksInv
<1>11. NeverAborts' /\ AbortsOnlyAfterFalse'
  BY <1>1 DEF NeverAborts, AbortsOnlyAfterFalse
<1>12. FlowTypeOK'
  BY <1>1, <1>2, FlowLength DEF FlowTypeOK
<1>13. MeetInv'
  <2>1. \A m \in Node : /\ Here(m)' = Here(m) /\ Known(m)' = Known(m)
                        /\ MyQp(m)' = MyQp(m) /\ Other(m)' = Other(m)
    BY MeetOther DEF ProcessKept, Other
  <2>2. MeetInv
    BY DEF FlowInv
  <2> QED
    BY <2>1, <2>2 DEF MeetInv
<1> QED
  BY <1>7, <1>8, <1>9, <1>10, <1>11, <1>12, <1>13 DEF FlowInv

LEMMA FlowInitially == FlowInit => FlowInv
<1> SUFFICES ASSUME FlowInit PROVE FlowInv
  OBVIOUS
<1>1. CoreInv
  BY InitInv DEF FlowInit
<1>2. /\ \A n \in Node, h \in Handle : obj[n][h].kind = "free"
      /\ \A n \in Node : pc[n] = 1 /\ ok[n] /\ proc[n] = "up"
      /\ \A k \in QpName : memc[k] = nullptr /\ \A n \in Node : remoteQp[n][k] = nullptr
  BY DEF FlowInit, Init, LocalInit, NoObjects, Blank, EmptyCache
<1>3. FlowTypeOK
  BY <1>1, FlowLength DEF FlowInit, FlowTypeOK, CoreInv
<1>4. ReachedInv
  BY <1>2 DEF ReachedInv, Reached, Running
<1>5. MadeInv
  BY <1>2 DEF MadeInv
<1>6. LinksInv
  BY <1>2, FlowKeys DEF LinksInv
<1>7. NeverAborts /\ AbortsOnlyAfterFalse
  BY <1>2 DEF NeverAborts, AbortsOnlyAfterFalse
<1>8. MeetInv
  BY <1>2, FlowKeys, OtherNode DEF MeetInv
<1> QED
  BY <1>1, <1>3, <1>4, <1>5, <1>6, <1>7, <1>8 DEF FlowInv

LEMMA FlowNextKeepsInv == FlowInv /\ [FlowNext]_flowVars => FlowInv'
<1> SUFFICES ASSUME FlowInv, [FlowNext]_flowVars PROVE FlowInv'
  OBVIOUS
<1>1. ASSUME NEW n \in Node, FlowStep(n) PROVE FlowInv'
  BY <1>1, FlowStepKeepsInv
<1>2. ASSUME NEW n \in Node, Crash(n) PROVE FlowInv'
  BY <1>2, KillKeepsInv DEF Crash
<1>3. ASSUME NEW n \in Node, Restart(n) PROVE FlowInv'
  BY <1>3, RestartKeepsInv
<1>4. CASE UNCHANGED flowVars
  <2>1. ret' \in [Node -> {"none", "true", "false"}] /\ ok' \in [Node -> BOOLEAN]
    BY <1>4, FlowParts DEF flowVars, LocalTypeOK
  <2> QED
    BY <1>4, <2>1, ReturnKeepsInv DEF flowVars
<1> QED
  BY <1>1, <1>2, <1>3, <1>4 DEF FlowNext

-----------------------------------------------------------------------------
(* The regions the nodes know of.                                          *)

\* What was the region of the first launch is still that, while the launch
\* lasts.
LEMMA RegionKept ==
    ASSUME CoreInv, NEW n \in Node, Ended(n) \/ Begun(n) \/ Proceeds(n),
           NEW m \in Node, NEW info, MrOfFlow(m, info)
    PROVE  /\ info[1] = m
           /\ launch'[m] = 1 /\ Running(m)' =>
                HasMr(m, "pd", "mr")' /\ info[2] = local_mr(m, "pd", "mr")'
<1> SUFFICES ASSUME launch'[m] = 1, Running(m)'
             PROVE  HasMr(m, "pd", "mr")' /\ info[2] = local_mr(m, "pd", "mr")'
  BY DEF MrOfFlow
<1>1. LocalTypeOK /\ launch[m] = 1 /\ Running(m)
  BY FirstKept DEF CoreInv, TypeOK
<1>2. HasMr(m, "pd", "mr") /\ info[2] = local_mr(m, "pd", "mr")
  BY <1>1 DEF MrOfFlow
<1>3. CASE Proceeds(n)
  BY <1>2, <1>3, LooksKept
<1>4. CASE Ended(n)
  <2>1. m # n
    BY <1>1, <1>4 DEF Ended, End, Running, LocalTypeOK
  <2>2. pdCache'[m] = pdCache[m] /\ mrCache'[m] = mrCache[m]
    BY <1>1, <1>4, <2>1 DEF Ended, End, LocalTypeOK
  <2> QED
    BY <1>2, <2>2 DEF HasMr, HasPd, local_mr, local_pd, get_resrc
<1>5. CASE Begun(n)
  BY <1>2, <1>5 DEF Begun, Relaunch, HasMr, HasPd, local_mr, local_pd, get_resrc
<1> QED
  BY <1>3, <1>4, <1>5

\* A step after which the server and the remote caches hold what they held
\* before, and what is new was about the right region before.
LEMMA RegionsStep ==
    ASSUME CoreInv, RegionsInv,
           NEW n \in Node, Ended(n) \/ Begun(n) \/ Proceeds(n),
           \A m \in Node : memc'[mr_name[m]] # nullptr =>
             MrOfFlow(m, memc'[mr_name[m]]),
           \A l, m \in Node : remoteMr'[l][mr_name[m]] # nullptr =>
             MrOfFlow(m, obj'[l][remoteMr'[l][mr_name[m]]].peer)
    PROVE  RegionsInv'
<1>1. \A m \in Node : memc'[mr_name[m]] # nullptr =>
        MrOfFlow(m, memc[mr_name[m]])'
  BY RegionKept DEF MrOfFlow
<1>2. \A l, m \in Node : remoteMr'[l][mr_name[m]] # nullptr =>
        MrOfFlow(m, obj[l][remoteMr[l][mr_name[m]]].peer)'
  BY RegionKept DEF MrOfFlow
<1> QED
  BY <1>1, <1>2 DEF RegionsInv

\* The remote wrappers of others, and the old ones of a process that goes on,
\* are what they were.
LEMMA RegionsProceed ==
    ASSUME FlowInv, RegionsInv, NEW n \in Node, Proceeds(n),
           \A m \in Node : \/ memc'[mr_name[m]] = memc[mr_name[m]]
                           \/ MrOfFlow(m, memc'[mr_name[m]]),
           \A m \in Node :
             \/ remoteMr'[n][mr_name[m]] = remoteMr[n][mr_name[m]]
             \/ MrOfFlow(m, obj'[n][remoteMr'[n][mr_name[m]]].peer)
    PROVE  RegionsInv'
<1>1. CoreInv /\ TypeOK /\ RemoteCachesHoldWrappers
  BY DEF FlowInv, CoreInv
<1>2. \A m \in Node : memc'[mr_name[m]] # nullptr =>
        MrOfFlow(m, memc'[mr_name[m]])
  BY DEF RegionsInv
<1>3. ASSUME NEW l \in Node, NEW m \in Node, remoteMr'[l][mr_name[m]] # nullptr
      PROVE  MrOfFlow(m, obj'[l][remoteMr'[l][mr_name[m]]].peer)
  <2>1. CASE l # n
    <3>1. remoteMr'[l] = remoteMr[l] /\ obj'[l] = obj[l]
      BY <2>1 DEF Proceeds, ProcessKept
    <3> QED
      BY <1>3, <3>1 DEF RegionsInv
  <2>2. CASE l = n /\ remoteMr'[n][mr_name[m]] = remoteMr[n][mr_name[m]]
    <3>1. remoteMr[n][mr_name[m]] \in Handle
      BY <1>1, <1>3, <2>2, FlowKeys DEF TypeOK, Address
    <3>2. obj[n][remoteMr[n][mr_name[m]]].kind = "rmr"
      BY <1>1, <1>3, <2>2, FlowKeys DEF RemoteCachesHoldWrappers
    <3>3. obj'[n][remoteMr[n][mr_name[m]]] = obj[n][remoteMr[n][mr_name[m]]]
      BY <3>1, <3>2 DEF Proceeds
    <3> QED
      BY <1>3, <2>2, <3>3 DEF RegionsInv
  <2> QED
    BY <1>3, <2>1, <2>2
<1> QED
  BY <1>1, <1>2, <1>3, RegionsStep

\* The end of a process forgets its remote regions and leaves the server.
LEMMA RegionsEnd ==
    ASSUME FlowInv, RegionsInv, NEW n \in Node, Ended(n)
    PROVE  RegionsInv'
<1>1. CoreInv /\ TypeOK /\ LocalTypeOK
  BY FlowParts
<1>2. /\ UNCHANGED memc
      /\ \A m \in Node \ {n} : obj'[m] = obj[m] /\ remoteMr'[m] = remoteMr[m]
      /\ \A k \in MrName : remoteMr'[n][k] = nullptr
  BY <1>1 DEF Ended, End, RemoteCachesEndWith, LocalTypeOK, TypeOK, EmptyCache
<1>3. ASSUME NEW l \in Node, NEW m \in Node, remoteMr'[l][mr_name[m]] # nullptr
      PROVE  MrOfFlow(m, obj'[l][remoteMr'[l][mr_name[m]]].peer)
  <2>1. l # n
    BY <1>2, <1>3, FlowKeys
  <2> QED
    BY <1>2, <1>3, <2>1 DEF RegionsInv
<1> QED
  BY <1>1, <1>2, <1>3, RegionsStep DEF RegionsInv

\* A process that is launched again changes neither.
LEMMA RegionsRestart ==
    ASSUME FlowInv, RegionsInv, NEW n \in Node, Restart(n)
    PROVE  RegionsInv'
<1>1. CoreInv /\ Begun(n) /\ UNCHANGED <<obj, memc, remoteMr>>
  BY FlowParts DEF Restart, Begun, Relaunch, exchangeVars
<1> QED
  BY <1>1, RegionsStep DEF RegionsInv

\* A node publishes its own region under its own name, and fetches what is
\* there under the name of the other.
LEMMA RegionsFlow ==
    ASSUME FlowInv, RegionsInv, NEW n \in Node, FlowStep(n)
    PROVE  RegionsInv'
<1>1. CoreInv /\ TypeOK /\ LocalTypeOK /\ Call(n)
  BY FlowParts DEF FlowStep
<1>2. Ended(n) \/ Proceeds(n)
  BY <1>1, CallCases
<1>3. CASE Ended(n)
  BY <1>3, RegionsEnd
<1>4. CASE Proceeds(n)
  <2>1. Running(n)'
    BY <1>4 DEF Proceeds, Running
  <2>2. CASE \/ Carry(n)
             \/ ConnectLocalQp(n, "pd", "qp", qp_name[Other(n)])
             \/ FetchRemoteQp(n, qp_name[Other(n)])
    <3>1. UNCHANGED <<memc, remoteMr>>
      BY <1>1, <2>1, <2>2, AbortEnds
         DEF Carry, exchangeVars, ConnectLocalQp, FetchRemoteQp
    <3> QED
      BY <1>4, <3>1, RegionsProceed
  <2>3. CASE PushLocalQp(n, qp_name[n], "pd", "qp")
    <3>1. /\ UNCHANGED remoteMr
          /\ \E info : memc' \in {memc, [memc EXCEPT ![qp_name[n]] = info]}
      BY <1>1, <2>1, <2>3, AbortEnds DEF PushLocalQp, set
    <3>2. \A m \in Node : memc'[mr_name[m]] = memc[mr_name[m]]
      BY <1>1, <3>1, FlowKeys DEF TypeOK
    <3> QED
      BY <1>4, <3>1, <3>2, RegionsProceed
  <2>4. CASE PushLocalMr(n, mr_name[n], "pd", "mr")
    <3> DEFINE info == <<n, local_mr(n, "pd", "mr")>>
    <3>1. /\ UNCHANGED remoteMr /\ HasMr(n, "pd", "mr")
          /\ memc' \in {memc, [memc EXCEPT ![mr_name[n]] = info]}
      BY <1>1, <2>1, <2>4, AbortEnds DEF PushLocalMr, set
    <3>2. MrOfFlow(n, info)
      BY <3>1 DEF MrOfFlow
    <3> HIDE DEF info
    <3>3. \A m \in Node : \/ memc'[mr_name[m]] = memc[mr_name[m]]
                          \/ m = n /\ memc'[mr_name[m]] = info
      BY <1>1, <3>1, FlowKeys DEF TypeOK
    <3> QED
      BY <1>4, <3>1, <3>2, <3>3, RegionsProceed
  <2>5. CASE FetchRemoteMr(n, mr_name[Other(n)])
    <3> DEFINE k == mr_name[Other(n)]
    <3>1. PICK h \in Fresh(n) :
            /\ Store(n, h, NewRemote("rmr", memc[k]))
            /\ remoteMr' = [remoteMr EXCEPT ![n] = register_resrc(@, k, h)]
      BY <2>5 DEF FetchRemoteMr, get
    <3>2. Other(n) \in Node /\ k \in MrName
      BY FlowKeys, OtherNode
    <3>3. memc[k] \in Info /\ memc[k] # nullptr /\ UNCHANGED memc
      BY <1>1, <2>5, <3>2 DEF FetchRemoteMr, get, TypeOK
    <3>4. NewRemote("rmr", memc[k]).kind = "rmr" /\ NewRemote("rmr", memc[k]).peer = memc[k]
      BY <3>3, NewRemoteType
    <3>5. h \in Handle /\ obj'[n][h].peer = memc[k]
      BY <1>1, <3>1, <3>4, StoreFresh
    <3>6. MrOfFlow(Other(n), memc[k])
      BY <3>2, <3>3 DEF RegionsInv
    <3>7. remoteMr'[n] = register_resrc(remoteMr[n], k, h)
          /\ remoteMr[n] \in [MrName -> Address]
      BY <1>1, <3>1 DEF TypeOK
    <3>8. ASSUME NEW m \in Node
          PROVE  \/ remoteMr'[n][mr_name[m]] = remoteMr[n][mr_name[m]]
                 \/ MrOfFlow(m, obj'[n][remoteMr'[n][mr_name[m]]].peer)
      <4>1. CASE m # Other(n)
        <5>1. mr_name[m] # k /\ mr_name[m] \in MrName
          BY <3>2, <4>1, FlowKeys
        <5> QED
          BY <3>7, <5>1 DEF register_resrc
      <4>2. CASE m = Other(n)
        <5>1. remoteMr'[n][k] = remoteMr[n][k] \/ remoteMr'[n][k] = h
          BY <3>2, <3>7 DEF register_resrc
        <5> QED
          BY <3>5, <3>6, <4>2, <5>1
      <4> QED
        BY <4>1, <4>2
    <3> QED
      BY <1>4, <3>3, <3>8, RegionsProceed
  <2> QED
    BY <1>1, <2>2, <2>3, <2>4, <2>5 DEF Call
<1> QED
  BY <1>2, <1>3, <1>4

-----------------------------------------------------------------------------
(* What holds of every behaviour of the bring-up.                          *)

\* The inductive invariant holds in every reachable state of the bring-up.
THEOREM FlowInvariant == FlowSpec => []FlowInv
  BY FlowInitially, FlowNextKeepsInv, PTL DEF FlowSpec

\* The flow of the README is a client of the core: every bring-up is a
\* behaviour of HartebeestCore, and so has the properties of all of those.
THEOREM FlowIsClient == FlowSpec => Spec
<1>1. FlowInit => Init
  BY DEF FlowInit
<1>2. FlowInv /\ [FlowNext]_flowVars => [Next]_vars
  <2> SUFFICES ASSUME FlowInv, [FlowNext]_flowVars PROVE [Next]_vars
    OBVIOUS
  <2>1. LocalTypeOK
    BY FlowParts
  <2>2. ASSUME NEW n \in Node, FlowStep(n) PROVE Next
    BY <2>2, CallIsStep DEF FlowStep, Next
  <2>3. ASSUME NEW n \in Node, Crash(n) PROVE Next
    BY <2>1, <2>3, EndIsStep DEF Crash, Next
  <2>4. ASSUME NEW n \in Node, Restart(n) PROVE Next
    BY <2>1, <2>4, EndIsStep DEF Restart, exchangeVars, Next
  <2>5. CASE UNCHANGED flowVars
    BY <2>5 DEF flowVars, vars
  <2> QED
    BY <2>2, <2>3, <2>4, <2>5 DEF FlowNext
<1> QED
  BY <1>1, <1>2, FlowInvariant, PTL DEF FlowSpec, Spec

\* What the invariant says of a node that is done.
LEMMA DoneMeansLinked ==
    ASSUME FlowInv, NEW n \in Node, Finished(n), ok[n]
    PROVE  /\ MyQp(n).state = "RTS" /\ MyQp(n).peer \in Info
           /\ Describes(MyQp(n).peer, "qp")
           /\ QpOfFlow(Other(n), MyQp(n).peer)
<1>1. /\ CoreInv /\ LocalInv /\ Reached(n) /\ LinksInv
      /\ "pd" \in PdKey /\ "qp" \in QpKey
  BY FlowParts, FlowKeys DEF FlowInv
<1>2. pc[n] = 12
  BY FlowLength DEF Finished
<1>3. HasQp(n, "pd", "qp") /\ MyQp(n).state = "RTS"
  BY <1>1, <1>2 DEF Reached
<1>4. local_qp(n, "pd", "qp") \in Handle /\ MyQp(n).kind = "qp"
  BY <1>1, <1>3, LocalLookup DEF MyQp
<1>5. MyQp(n).peer \in Info /\ Describes(MyQp(n).peer, "qp")
  BY <1>1, <1>3, <1>4 DEF MyQp, CoreInv, PeersSet, StaleOnlyIfOwnerEnded
<1>6. MyQp(n).peer # nullptr
  BY <1>5, NullAssumption DEF Info
<1> QED
  BY <1>1, <1>3, <1>4, <1>5, <1>6 DEF LinksInv, MyQp

LEMMA FlowInvTells ==
    FlowInv => TrueMeansLinked /\ EndsMeet
<1> SUFFICES ASSUME FlowInv PROVE TrueMeansLinked /\ EndsMeet
  OBVIOUS
<1>1. TrueMeansLinked
  BY DoneMeansLinked DEF TrueMeansLinked, QpOfFlow
<1>2. EndsMeet
  <2> SUFFICES ASSUME AllFinished, \A n \in Node : ok[n]
               PROVE  /\ \A n \in Node :
                           \/ Connected(n, Other(n))
                           \/ /\ launch[Other(n)] > 1
                              /\ Denotes(MyQp(n).peer).kind = "dead"
                      /\ \E n \in Node : Connected(n, Other(n))
    BY DEF EndsMeet
  <2>1. ASSUME NEW n \in Node
        PROVE  \/ Connected(n, Other(n))
               \/ /\ launch[Other(n)] > 1
                  /\ Denotes(MyQp(n).peer).kind = "dead"
    <3> DEFINE info == MyQp(n).peer
    <3>1. Finished(n) /\ Other(n) \in Node /\ Running(Other(n))
      BY OtherNode DEF AllFinished, Finished
    <3>2. /\ MyQp(n).state = "RTS" /\ info \in Node \X Handle
          /\ Describes(info, "qp") /\ QpOfFlow(Other(n), info)
      BY <3>1, DoneMeansLinked DEF Info
    <3>3. CASE Denotes(info).kind = "dead"
      BY <3>1, <3>2, <3>3 DEF Describes, OwnerEnded, QpOfFlow
    <3>4. CASE Denotes(info).kind # "dead"
      <4>1. info = <<Other(n), local_qp(Other(n), "pd", "qp")>>
        BY <3>2, <3>4 DEF QpOfFlow, Denotes
      <4> QED
        BY <3>2, <4>1 DEF Connected
    <3> QED
      BY <3>3, <3>4
  <2>2. \E n \in Node : Connected(n, Other(n))
    <3>1. MeetInv /\ \A n \in Node : pc[n] = 12 /\ Finished(n)
      BY FlowLength DEF FlowInv, AllFinished, Finished
    <3>2. \A n \in Node : MyQp(n).peer = Known(n) /\ MyQp(n).state = "RTS"
      BY <3>1, DoneMeansLinked DEF MeetInv
    <3>3. \A n \in Node : Other(n) \in Node /\ Other(n) # n /\ Other(Other(n)) = n
      BY OtherNode
    <3>4. PICK n \in Node : TRUE
      BY NameAssumption
    <3>5. Known(n) = Here(Other(n)) \/ Known(Other(n)) = Here(n)
      BY <3>1, <3>3 DEF MeetInv
    <3> QED
      BY <3>2, <3>3, <3>5 DEF Connected, Here
  <2> QED
    BY <2>1, <2>2
<1> QED
  BY <1>1, <1>2

\* Of the bring-up by itself, whatever the application does afterwards: no
\* call aborts without a failed call behind it, a node whose calls all
\* returned true is linked to the other node, and the two ends meet.
THEOREM BringupCorrect ==
    FlowSpec => [](/\ NeverAborts /\ AbortsOnlyAfterFalse
                   /\ TrueMeansLinked /\ EndsMeet)
<1>1. FlowInv => /\ NeverAborts /\ AbortsOnlyAfterFalse
                 /\ TrueMeansLinked /\ EndsMeet
  BY FlowInvTells DEF FlowInv
<1> QED
  BY <1>1, FlowInvariant, PTL

=============================================================================

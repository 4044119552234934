------------------------- MODULE HartebeestCoreProofs -------------------------
(***************************************************************************)
(* Theorems about the exchange of resource information and the connection  *)
(* of queue pairs, for every set of nodes, addresses, names and keys and   *)
(* every choice of the calls that may fail.                                *)
(***************************************************************************)
EXTENDS HartebeestCore, LocalResourcesProofs

USE DEF get

-----------------------------------------------------------------------------
(* Type correctness.                                                       *)

\* The initial states are well typed.
LEMMA InitType == Init => TypeOK
  BY LocalInitType DEF Init, TypeOK, EmptyCache, Address

\* A failed assert or a null call keeps the types.
LEMMA AbortCoreType ==
    ASSUME TypeOK, NEW n \in Node, AbortCore(n)
    PROVE  TypeOK'
<1>1. LocalTypeOK'
  BY EndType DEF AbortCore, Abort, TypeOK
<1> QED
  BY <1>1 DEF AbortCore, RemoteCachesEndWith, TypeOK, EmptyCache, Address

\* A call on local resources, or the end or launch of a process, keeps the
\* types.
LEMMA LocalCallType ==
    ASSUME TypeOK, NEW n \in Node, LocalCall(n)
    PROVE  TypeOK'
<1>1. LocalTypeOK'
  BY LocalStepType DEF LocalCall, TypeOK
<1>2. CASE UNCHANGED exchangeVars
  BY <1>1, <1>2 DEF exchangeVars, TypeOK
<1>3. CASE RemoteCachesEndWith(n)
  BY <1>1, <1>3 DEF RemoteCachesEndWith, TypeOK, EmptyCache, Address
<1> QED
  BY <1>2, <1>3 DEF LocalCall, Carry

\* Publishing a resource of the process.
LEMMA SetType ==
    ASSUME TypeOK, NEW n \in Node, NEW k \in MrName \cup QpName,
           NEW info \in Info, set(n, k, info),
           UNCHANGED <<proc, launch, obj, pdCache, cqCache, mrCache,
                       qpCache, remoteMr, remoteQp>>
    PROVE  TypeOK'
<1>1. memc' \in [MrName \cup QpName -> Info \cup {nullptr}]
  BY DEF set, TypeOK
<1>2. ret' \in [Node -> {"none", "true", "false"}]
  BY ReturnType DEF set, TypeOK
<1> QED
  BY <1>1, <1>2 DEF TypeOK, LocalTypeOK

\* What lookups of local resources return.
LEMMA LocalLookup ==
    ASSUME LocalInv, NEW n \in Node, NEW pd_key \in PdKey
    PROVE  /\ \A mr_key \in MrKey : HasMr(n, pd_key, mr_key) =>
                LET h == local_mr(n, pd_key, mr_key) IN
                h \in Handle /\ obj[n][h].kind = "mr"
           /\ \A qp_key \in QpKey : HasQp(n, pd_key, qp_key) =>
                LET h == local_qp(n, pd_key, qp_key) IN
                h \in Handle /\ obj[n][h].kind = "qp" /\ obj[n][h].made
<1>1. LocalTypeOK /\ MrEntriesOK(n) /\ QpEntriesOK(n)
  BY DEF LocalInv, CachesNameLiveObjects
<1>2. HasPd(n, pd_key) => local_pd(n, pd_key) \in Handle
  BY <1>1 DEF HasPd, local_pd, get_resrc, LocalTypeOK, Address
<1>3. ASSUME NEW mr_key \in MrKey, HasMr(n, pd_key, mr_key)
      PROVE  /\ local_mr(n, pd_key, mr_key) \in Handle
             /\ obj[n][local_mr(n, pd_key, mr_key)].kind = "mr"
  BY <1>1, <1>2, <1>3
     DEF HasMr, local_mr, get_resrc, LocalTypeOK, Address, MrEntriesOK
<1>4. ASSUME NEW qp_key \in QpKey, HasQp(n, pd_key, qp_key)
      PROVE  /\ local_qp(n, pd_key, qp_key) \in Handle
             /\ obj[n][local_qp(n, pd_key, qp_key)].kind = "qp"
  BY <1>1, <1>2, <1>4
     DEF HasQp, local_qp, get_resrc, LocalTypeOK, Address, QpEntriesOK
<1>5. ASSUME NEW h \in Handle, obj[n][h].kind = "qp" PROVE obj[n][h].made
  BY <1>5 DEF LocalInv, ObjectsNamed, WellNamed
<1> QED
  BY <1>3, <1>4, <1>5

\* A push keeps the types.
LEMMA PushType ==
    ASSUME TypeOK, LocalInv, NEW n \in Node, NEW k, NEW pd_key \in PdKey
    PROVE  /\ \A mr_key \in MrKey :
                k \in MrName /\ PushLocalMr(n, k, pd_key, mr_key) => TypeOK'
           /\ \A qp_key \in QpKey :
                k \in QpName /\ PushLocalQp(n, k, pd_key, qp_key) => TypeOK'
<1>1. ASSUME NEW mr_key \in MrKey, k \in MrName,
             PushLocalMr(n, k, pd_key, mr_key)
      PROVE  TypeOK'
  <2>1. CASE AbortCore(n)
    BY <2>1, AbortCoreType
  <2>2. CASE ~AbortCore(n)
    <3>1. /\ HasMr(n, pd_key, mr_key)
          /\ set(n, k, <<n, local_mr(n, pd_key, mr_key)>>)
          /\ UNCHANGED <<proc, launch, obj, pdCache, cqCache, mrCache,
                         qpCache, remoteMr, remoteQp>>
      BY <1>1, <2>2 DEF PushLocalMr
    <3>2. <<n, local_mr(n, pd_key, mr_key)>> \in Info
      BY <3>1, LocalLookup DEF Info
    <3> QED
      BY <1>1, <3>1, <3>2, SetType
  <2> QED
    BY <2>1, <2>2
<1>2. ASSUME NEW qp_key \in QpKey, k \in QpName,
             PushLocalQp(n, k, pd_key, qp_key)
      PROVE  TypeOK'
  <2>1. CASE AbortCore(n)
    BY <2>1, AbortCoreType
  <2>2. CASE ~AbortCore(n)
    <3>1. /\ HasQp(n, pd_key, qp_key)
          /\ set(n, k, <<n, local_qp(n, pd_key, qp_key)>>)
          /\ UNCHANGED <<proc, launch, obj, pdCache, cqCache, mrCache,
                         qpCache, remoteMr, remoteQp>>
      BY <1>2, <2>2 DEF PushLocalQp
    <3>2. <<n, local_qp(n, pd_key, qp_key)>> \in Info
      BY <3>1, LocalLookup DEF Info
    <3> QED
      BY <1>2, <3>1, <3>2, SetType
  <2> QED
    BY <2>1, <2>2
<1> QED
  BY <1>1, <1>2

\* A remote wrapper is an object, and holds what it was made for.
LEMMA NewRemoteType ==
    ASSUME NEW kind \in {"rmr", "rqp"}, NEW info \in Info
    PROVE  /\ NewRemote(kind, info) \in Object
           /\ NewRemote(kind, info).kind = kind
           /\ NewRemote(kind, info).peer = info
  BY BlankType DEF NewRemote, Blank, Object, Address

\* A fetch keeps the types.
LEMMA FetchType ==
    ASSUME TypeOK, NEW n \in Node, NEW k,
           \/ k \in MrName /\ FetchRemoteMr(n, k)
           \/ k \in QpName /\ FetchRemoteQp(n, k)
    PROVE  TypeOK'
<1>1. memc[k] \in Info
  BY DEF FetchRemoteMr, FetchRemoteQp, TypeOK
<1>2. ret' \in [Node -> {"none", "true", "false"}]
  BY ReturnType DEF FetchRemoteMr, FetchRemoteQp, TypeOK
<1>3. CASE k \in MrName /\ FetchRemoteMr(n, k)
  <2>1. PICK h \in Fresh(n) :
          /\ Store(n, h, NewRemote("rmr", memc[k]))
          /\ remoteMr' = [remoteMr EXCEPT ![n] = register_resrc(@, k, h)]
    BY <1>3 DEF FetchRemoteMr
  <2>2. h \in Handle /\ h \in Address
    BY DEF Fresh, Address
  <2>3. obj' \in [Node -> [Handle -> Object]]
    BY <1>1, <2>1, <2>2, NewRemoteType, StoreType DEF TypeOK
  <2>4. remoteMr[n] \in [MrName -> Address]
    BY DEF TypeOK
  <2>5. register_resrc(remoteMr[n], k, h) \in [MrName -> Address]
    BY <1>3, <2>2, <2>4, RegisterType
  <2>6. remoteMr' \in [Node -> [MrName -> Address]]
    BY <2>1, <2>5 DEF TypeOK
  <2> QED
    BY <1>2, <1>3, <2>3, <2>6 DEF FetchRemoteMr, TypeOK, LocalTypeOK
<1>4. CASE k \in QpName /\ FetchRemoteQp(n, k)
  <2>1. PICK h \in Fresh(n) :
          /\ Store(n, h, NewRemote("rqp", memc[k]))
          /\ remoteQp' = [remoteQp EXCEPT ![n] = register_resrc(@, k, h)]
    BY <1>4 DEF FetchRemoteQp
  <2>2. h \in Handle /\ h \in Address
    BY DEF Fresh, Address
  <2>3. obj' \in [Node -> [Handle -> Object]]
    BY <1>1, <2>1, <2>2, NewRemoteType, StoreType DEF TypeOK
  <2>4. remoteQp[n] \in [QpName -> Address]
    BY DEF TypeOK
  <2>5. register_resrc(remoteQp[n], k, h) \in [QpName -> Address]
    BY <1>4, <2>2, <2>4, RegisterType
  <2>6. remoteQp' \in [Node -> [QpName -> Address]]
    BY <2>1, <2>5 DEF TypeOK
  <2> QED
    BY <1>2, <1>4, <2>3, <2>6 DEF FetchRemoteQp, TypeOK, LocalTypeOK
<1> QED
  BY <1>3, <1>4

\* connect_local_qp finds a queue pair and an information.
LEMMA ConnectLookup ==
    ASSUME CoreInv, NEW n \in Node, NEW pd_key \in PdKey, NEW qp_key \in QpKey,
           NEW k \in QpName, HasQp(n, pd_key, qp_key),
           is_registered(remoteQp[n], k)
    PROVE  /\ local_qp(n, pd_key, qp_key) \in Handle
           /\ obj[n][local_qp(n, pd_key, qp_key)].kind = "qp"
           /\ RemoteInfo(n, k) \in Info
           /\ Describes(RemoteInfo(n, k), "qp")
<1>1. remoteQp[n][k] \in Handle
  BY DEF is_registered, CoreInv, TypeOK, Address
<1>2. obj[n][remoteQp[n][k]].kind = "rqp"
  BY DEF is_registered, CoreInv, RemoteCachesHoldWrappers
<1>3. obj[n][remoteQp[n][k]].peer \in Info
  BY <1>1, <1>2 DEF CoreInv, PeersSet
<1>4. Describes(obj[n][remoteQp[n][k]].peer, "qp")
  BY <1>1, <1>2 DEF CoreInv, StaleOnlyIfOwnerEnded
<1> QED
  BY <1>3, <1>4, LocalLookup DEF CoreInv, RemoteInfo, get_resrc

\* What a connect_local_qp that does not abort does to the queue pair.
ConnectEffect(n, h, k) ==
    /\ \/ UNCHANGED obj
       \/ /\ CanMove(n, h, "RTR")
          /\ \E state \in {"RTR", "RTS"} :
               Store(n, h, [obj[n][h] EXCEPT !.state = state,
                                             !.peer = RemoteInfo(n, k)])
    /\ \E b \in BOOLEAN : Return(n, b)
    /\ UNCHANGED <<proc, launch, pdCache, cqCache, mrCache, qpCache,
                   memc, remoteMr, remoteQp>>

\* connect_local_qp ends the process, or finds what it needs and has that
\* effect.
LEMMA ConnectCases ==
    ASSUME CoreInv, NEW n \in Node, NEW pd_key \in PdKey, NEW qp_key \in QpKey,
           NEW k \in QpName, ConnectLocalQp(n, pd_key, qp_key, k)
    PROVE  \/ AbortCore(n)
           \/ \E h \in Handle :
                /\ obj[n][h].kind = "qp"
                /\ is_registered(remoteQp[n], k)
                /\ RemoteInfo(n, k) \in Info
                /\ Describes(RemoteInfo(n, k), "qp")
                /\ ConnectEffect(n, h, k)
<1>1. CASE AbortCore(n)
  BY <1>1
<1>2. CASE ~AbortCore(n)
  <2>1. is_registered(remoteQp[n], k) /\ HasQp(n, pd_key, qp_key)
    BY <1>2 DEF ConnectLocalQp
  <2>2. ConnectEffect(n, local_qp(n, pd_key, qp_key), k)
    BY <1>2 DEF ConnectLocalQp, ConnectEffect
  <2> QED
    BY <2>1, <2>2, ConnectLookup
<1> QED
  BY <1>1, <1>2

\* Neither outcome of a connection spoils the types.
LEMMA ConnectEffectType ==
    ASSUME TypeOK, NEW n \in Node, NEW h \in Handle, NEW k \in QpName,
           RemoteInfo(n, k) \in Info, ConnectEffect(n, h, k)
    PROVE  TypeOK'
<1>1. obj[n][h] \in Object
  BY DEF TypeOK, LocalTypeOK
<1>2. \A state \in {"RTR", "RTS"} :
        [obj[n][h] EXCEPT !.state = state, !.peer = RemoteInfo(n, k)] \in Object
  BY <1>1 DEF Object, QpState
<1>3. obj' \in [Node -> [Handle -> Object]]
  <2>1. CASE UNCHANGED obj
    BY <2>1 DEF TypeOK, LocalTypeOK
  <2>2. ASSUME NEW state \in {"RTR", "RTS"},
               Store(n, h, [obj[n][h] EXCEPT !.state = state,
                                             !.peer = RemoteInfo(n, k)])
        PROVE  obj' \in [Node -> [Handle -> Object]]
    BY <1>2, <2>2, StoreType DEF TypeOK
  <2> QED
    BY <2>1, <2>2 DEF ConnectEffect
<1>4. ret' \in [Node -> {"none", "true", "false"}]
  BY ReturnType DEF ConnectEffect, TypeOK
<1> QED
  BY <1>3, <1>4 DEF ConnectEffect, TypeOK, LocalTypeOK

\* The server dropping a key keeps the types.
LEMMA EvictType ==
    ASSUME TypeOK, NEW k, Evict(k)
    PROVE  TypeOK'
  BY DEF Evict, TypeOK, LocalTypeOK

-----------------------------------------------------------------------------
(* How the objects of a process evolve.                                    *)

\* Every process keeps its objects, or ends, or starts again.
Evolves ==
    \A m \in Node :
        \/ /\ Running(m)' = Running(m) /\ launch'[m] = launch[m]
           /\ \A g \in Handle : obj[m][g].kind # "free" =>
                                   SameObject(obj[m][g], obj'[m][g])
        \/ /\ Running(m) /\ ~Running(m)' /\ launch'[m] = launch[m]
           /\ \A g \in Handle : obj[m][g].kind # "free" =>
                                   obj'[m][g].kind = "dead"
        \/ /\ ~Running(m) /\ launch'[m] = launch[m] + 1
           /\ obj'[m] = obj[m]

\* What describes a resource goes on describing it, until its process ends.
LEMMA DescribesStable ==
    ASSUME TypeOK, LaunchedOnce, Evolves, NEW info \in Info,
           NEW kind \in {"mr", "qp"}, Describes(info, kind)
    PROVE  Describes(info, kind)'
<1> DEFINE m == info[1]
           g == info[2]
<1>1. m \in Node /\ g \in Handle
  BY DEF Info
<1>2. launch[m] \in Nat /\ launch[m] >= 1
  BY <1>1 DEF TypeOK, LocalTypeOK, LaunchedOnce
<1>3. obj[m][g].kind \in {kind, "dead"}
  BY DEF Describes, Denotes
<1> HIDE DEF m, g
<1>4. Describes(info, kind) <=>
        \/ obj[m][g].kind = kind /\ obj[m][g].made
        \/ obj[m][g].kind = "dead" /\ (~Running(m) \/ launch[m] > 1)
  BY DEF Describes, Denotes, OwnerEnded, m, g
<1>5. Describes(info, kind)' <=>
        \/ obj'[m][g].kind = kind /\ obj'[m][g].made
        \/ obj'[m][g].kind = "dead" /\ (~Running(m)' \/ launch'[m] > 1)
  BY DEF Describes, Denotes, OwnerEnded, m, g
<1>6. CASE /\ Running(m)' = Running(m) /\ launch'[m] = launch[m]
           /\ SameObject(obj[m][g], obj'[m][g])
  BY <1>4, <1>5, <1>6 DEF SameObject
<1>7. CASE ~Running(m)' /\ obj'[m][g].kind = "dead"
  BY <1>5, <1>7
<1>8. CASE /\ ~Running(m) /\ launch'[m] = launch[m] + 1 /\ obj'[m] = obj[m]
  <2>1. launch'[m] > 1
    BY <1>2, <1>8
  <2> QED
    BY <1>4, <1>5, <1>8, <2>1
<1> QED
  BY <1>1, <1>3, <1>6, <1>7, <1>8 DEF Evolves

\* Launches are never uncounted.
LEMMA LaunchesGrow ==
    ASSUME TypeOK, LaunchedOnce, Evolves
    PROVE  LaunchedOnce'
<1> SUFFICES ASSUME NEW m \in Node PROVE launch'[m] >= 1
  BY DEF LaunchedOnce
<1>1. launch'[m] = launch[m] \/ launch'[m] = launch[m] + 1
  BY DEF Evolves
<1>2. launch[m] \in Nat /\ launch[m] >= 1
  BY DEF LaunchedOnce, TypeOK, LocalTypeOK
<1> QED
  BY <1>1, <1>2

\* The end of a process is an evolution.
LEMMA EndEvolves ==
    ASSUME LocalTypeOK, NEW n \in Node, NEW why \in {"aborted", "killed"},
           Running(n), End(n, why)
    PROVE  Evolves
<1>1. /\ ~Running(n)' /\ launch' = launch
      /\ \A g \in Handle : obj[n][g].kind # "free" => obj'[n][g].kind = "dead"
  BY DEF End, Running, LocalTypeOK, Blank
<1>2. \A m \in Node \ {n} : proc'[m] = proc[m] /\ obj'[m] = obj[m]
  BY DEF End, LocalTypeOK
<1> QED
  BY <1>1, <1>2 DEF Evolves, Running, SameObject

\* So is a process gaining or updating one object.
LEMMA GrowsEvolves ==
    ASSUME NEW n \in Node, NEW h \in Handle, Grows(n, h),
           UNCHANGED <<proc, launch>>
    PROVE  Evolves
  BY DEF Grows, Evolves, Running, ProcessKept, SameObject

\* So is every step on local resources.
LEMMA LocalStepEvolves ==
    ASSUME LocalInv, NEW n \in Node, LocalStep(n)
    PROVE  Evolves
<1>1. LocalTypeOK
  BY DEF LocalInv
<1>2. ASSUME NEW why \in {"aborted", "killed"}, Running(n), End(n, why)
      PROVE  Evolves
  BY <1>1, <1>2, EndEvolves
<1>3. CASE Relaunch(n)
  BY <1>1, <1>3 DEF Relaunch, Evolves, Running, SameObject, LocalTypeOK
<1>4. ASSUME NEW h \in Handle, Grows(n, h), UNCHANGED <<proc, launch>>
      PROVE  Evolves
  BY <1>4, GrowsEvolves
<1> QED
  BY <1>2, <1>3, <1>4, LocalStepShape

\* The calls on local resources neither make remote wrappers nor connect.
PeerKept(o, o2) ==
    /\ o2.kind \in {"rmr", "rqp"} => o2 = o
    /\ o2.kind = "qp" =>
         \/ /\ o.kind = "qp" /\ o2.peer = o.peer
            /\ \/ o2.state = o.state
               \/ o.state \in {"RESET", "INIT"} /\ o2.state = "INIT"
         \/ o.kind = "free" /\ o2.peer = nullptr /\ o2.state = "RESET"
PeersKept == \A m \in Node, g \in Handle : PeerKept(obj[m][g], obj'[m][g])

\* The end of a process makes no remote wrapper and connects nothing.
LEMMA EndPeers ==
    ASSUME LocalTypeOK, NEW n \in Node, NEW why, End(n, why)
    PROVE  PeersKept
<1>1. \A g \in Handle : obj'[n][g].kind \in {"free", "dead"}
  BY DEF End, LocalTypeOK, Blank
<1>2. \A m \in Node \ {n} : obj'[m] = obj[m]
  BY DEF End, LocalTypeOK
<1> QED
  BY <1>1, <1>2 DEF PeersKept, PeerKept

\* Nor does the creation of a local object.
LEMMA StorePeers ==
    ASSUME LocalTypeOK, NEW n \in Node, NEW h \in Fresh(n), NEW o, Store(n, h, o),
           o.kind \in LocalKind, o.peer = nullptr,
           o.kind = "qp" => o.state = "RESET"
    PROVE  PeersKept
<1>1. /\ h \in Handle /\ obj[n][h].kind = "free" /\ obj'[n][h] = o
      /\ \A g \in Handle \ {h} : obj'[n][g] = obj[n][g]
      /\ \A m \in Node \ {n} : obj'[m] = obj[m]
  BY StoreFresh
<1> QED
  BY <1>1 DEF PeersKept, PeerKept, LocalKind

\* Nor does any step on local resources.
LEMMA LocalStepPeers ==
    ASSUME LocalInv, NEW n \in Node, LocalStep(n)
    PROVE  PeersKept
<1>0. LocalTypeOK
  BY DEF LocalInv
<1>1. ASSUME NEW why, End(n, why) PROVE PeersKept
  BY <1>0, <1>1, EndPeers
<1>2. ASSUME NEW pd_key \in PdKey, CreateLocalPd(n, pd_key)
      PROVE  PeersKept
  <2>1. LET o == NewPd(pd_key) IN o.kind = "pd" /\ o.peer = nullptr
    BY DEF NewPd, Blank
  <2> QED
    BY <1>0, <1>1, <1>2, <2>1, StorePeers DEF CreateLocalPd, Abort, LocalKind
<1>3. ASSUME NEW pd_key \in PdKey, NEW mr_key \in MrKey,
             CreateLocalMr(n, pd_key, mr_key)
      PROVE  PeersKept
  <2>1. \A p, made : LET o == NewMr(p, mr_key, made) IN
                     o.kind = "mr" /\ o.peer = nullptr
    BY DEF NewMr, Blank
  <2> QED
    BY <1>0, <1>1, <1>3, <2>1, StorePeers DEF CreateLocalMr, Abort, LocalKind
<1>4. ASSUME NEW cq_key \in CqKey, CreateBasicCq(n, cq_key)
      PROVE  PeersKept
  <2>1. \A made : LET o == NewCq(cq_key, made) IN
                  o.kind = "cq" /\ o.peer = nullptr
    BY DEF NewCq, Blank
  <2> QED
    BY <1>0, <1>4, <2>1, StorePeers DEF CreateBasicCq, LocalKind
<1>5. ASSUME NEW pd_key \in PdKey, NEW qp_key \in QpKey,
             NEW scq \in CqKey, NEW rcq \in CqKey,
             CreateLocalQp(n, pd_key, qp_key, scq, rcq)
      PROVE  PeersKept
  <2>1. \A p, s, r : LET o == NewQp(p, qp_key, s, r) IN
          o.kind = "qp" /\ o.peer = nullptr /\ o.state = "RESET"
    BY DEF NewQp, Blank
  <2> QED
    BY <1>0, <1>1, <1>5, <2>1, StorePeers DEF CreateLocalQp, Abort, LocalKind
<1>6. ASSUME NEW pd_key \in PdKey, NEW qp_key \in QpKey,
             InitLocalQp(n, pd_key, qp_key)
      PROVE  PeersKept
  <2> DEFINE h == local_qp(n, pd_key, qp_key)
  <2>1. CASE Abort(n)
    BY <1>1, <2>1 DEF Abort
  <2>2. CASE UNCHANGED obj
    BY <2>2 DEF PeersKept, PeerKept
  <2>3. CASE /\ HasQp(n, pd_key, qp_key) /\ CanMove(n, h, "INIT")
             /\ Store(n, h, [obj[n][h] EXCEPT !.state = "INIT"])
    <3>1. h \in Handle /\ obj[n][h].kind = "qp"
      BY <2>3, LocalLookup
    <3>2. obj[n][h].state \in {"RESET", "INIT"}
      BY <2>3 DEF CanMove, QpMove
    <3> HIDE DEF h
    <3>3. obj[n][h] \in Object /\ obj \in [Node -> [Handle -> Object]]
      BY <1>0, <3>1 DEF LocalTypeOK
    <3>4. /\ \A m \in Node \ {n} : obj'[m] = obj[m]
          /\ \A g \in Handle \ {h} : obj'[n][g] = obj[n][g]
          /\ obj'[n][h] = [obj[n][h] EXCEPT !.state = "INIT"]
      BY <2>3, <3>1, <3>3 DEF Store
    <3>5. /\ obj'[n][h].kind = "qp" /\ obj'[n][h].peer = obj[n][h].peer
          /\ obj'[n][h].state = "INIT"
      BY <3>1, <3>3, <3>4 DEF Object
    <3>6. PeerKept(obj[n][h], obj'[n][h])
      BY <3>1, <3>2, <3>5 DEF PeerKept
    <3>7. \A m \in Node, g \in Handle :
            m # n \/ g # h => obj'[m][g] = obj[m][g]
      BY <3>4
    <3> QED
      BY <3>6, <3>7 DEF PeersKept, PeerKept
  <2> QED
    BY <1>6, <2>1, <2>2, <2>3 DEF InitLocalQp
<1>7. CASE Kill(n)
  BY <1>1, <1>7 DEF Kill
<1>8. CASE Relaunch(n)
  BY <1>8 DEF Relaunch, PeersKept, PeerKept
<1> QED
  BY <1>2, <1>3, <1>4, <1>5, <1>6, <1>7, <1>8 DEF LocalStep

-----------------------------------------------------------------------------
(* The invariant of the exchange.                                          *)

\* After the step every information at rest comes from one that described a
\* resource before it.
Sourced ==
    /\ \A k \in MrName : memc'[k] # nullptr => Describes(memc'[k], "mr")
    /\ \A k \in QpName : memc'[k] # nullptr => Describes(memc'[k], "qp")
    /\ \A m \in Node, g \in Handle :
         LET o2 == obj'[m][g] IN
         /\ o2.kind = "rmr" => o2.peer \in Info /\ Describes(o2.peer, "mr")
         /\ o2.kind = "rqp" => o2.peer \in Info /\ Describes(o2.peer, "qp")
         /\ o2.kind = "qp" =>
              IF o2.state \in {"RTR", "RTS"}
              THEN o2.peer \in Info /\ Describes(o2.peer, "qp")
              ELSE o2.peer = nullptr

\* Information that described a resource before a step describes it after.
LEMMA SourcedKeeps ==
    ASSUME CoreInv, TypeOK', Evolves, Sourced
    PROVE  PeersSet' /\ StaleOnlyIfOwnerEnded'
<1>1. \A info \in Info, kind \in {"mr", "qp"} :
        Describes(info, kind) => Describes(info, kind)'
  BY DescribesStable DEF CoreInv
<1>2. \A k \in MrName \cup QpName : memc'[k] # nullptr => memc'[k] \in Info
  BY DEF TypeOK
<1>3. \A k \in MrName : memc'[k] # nullptr => Describes(memc[k], "mr")'
  BY <1>1, <1>2 DEF Sourced
<1>4. \A k \in QpName : memc'[k] # nullptr => Describes(memc[k], "qp")'
  BY <1>1, <1>2 DEF Sourced
<1>5. ASSUME NEW m \in Node, NEW g \in Handle
      PROVE  /\ obj'[m][g].kind = "rmr" => Describes(obj[m][g].peer, "mr")'
             /\ obj'[m][g].kind = "rqp" => Describes(obj[m][g].peer, "qp")'
             /\ obj'[m][g].kind = "qp" =>
                  IF obj'[m][g].state \in {"RTR", "RTS"}
                  THEN Describes(obj[m][g].peer, "qp")'
                  ELSE obj'[m][g].peer = nullptr
  BY <1>1 DEF Sourced
<1>6. PeersSet'
  BY DEF Sourced, PeersSet
<1> QED
  BY <1>3, <1>4, <1>5, <1>6 DEF StaleOnlyIfOwnerEnded

\* What is there before a step is sourced.
LEMMA OldSourced ==
    ASSUME CoreInv, PeersKept,
           \A k \in MrName \cup QpName : memc'[k] \in {nullptr, memc[k]}
    PROVE  Sourced
<1>1. ASSUME NEW m \in Node, NEW g \in Handle
      PROVE  LET o == obj[m][g] IN
             /\ o.kind = "rmr" => o.peer \in Info /\ Describes(o.peer, "mr")
             /\ o.kind = "rqp" => o.peer \in Info /\ Describes(o.peer, "qp")
             /\ o.kind = "qp" =>
                  IF o.state \in {"RTR", "RTS"}
                  THEN o.peer \in Info /\ Describes(o.peer, "qp")
                  ELSE o.peer = nullptr
  BY DEF CoreInv, PeersSet, StaleOnlyIfOwnerEnded
<1>2. ASSUME NEW m \in Node, NEW g \in Handle
      PROVE  LET o == obj'[m][g] IN
             /\ o.kind = "rmr" => o.peer \in Info /\ Describes(o.peer, "mr")
             /\ o.kind = "rqp" => o.peer \in Info /\ Describes(o.peer, "qp")
             /\ o.kind = "qp" =>
                  IF o.state \in {"RTR", "RTS"}
                  THEN o.peer \in Info /\ Describes(o.peer, "qp")
                  ELSE o.peer = nullptr
  BY <1>1 DEF PeersKept, PeerKept
<1>3. /\ \A k \in MrName : memc[k] # nullptr => Describes(memc[k], "mr")
      /\ \A k \in QpName : memc[k] # nullptr => Describes(memc[k], "qp")
  BY DEF CoreInv, StaleOnlyIfOwnerEnded
<1> QED
  BY <1>2, <1>3 DEF Sourced

\* Remote wrappers of a process that goes on stay, and stay cached.
LEMMA RemotesKeep ==
    ASSUME CoreInv, TypeOK', Evolves,
           \A m \in Node : Running(m) /\ ~Running(m)' =>
             /\ \A k \in MrName : remoteMr'[m][k] = nullptr
             /\ \A k \in QpName : remoteQp'[m][k] = nullptr,
           \A m \in Node :
             /\ \A k \in MrName : \/ remoteMr'[m][k] \in {nullptr, remoteMr[m][k]}
                                  \/ obj'[m][remoteMr'[m][k]].kind = "rmr"
             /\ \A k \in QpName : \/ remoteQp'[m][k] \in {nullptr, remoteQp[m][k]}
                                  \/ obj'[m][remoteQp'[m][k]].kind = "rqp"
    PROVE  RemoteCachesHoldWrappers'
<1> SUFFICES ASSUME NEW m \in Node
             PROVE  /\ \A k \in MrName : remoteMr'[m][k] # nullptr =>
                         obj'[m][remoteMr'[m][k]].kind = "rmr"
                    /\ \A k \in QpName : remoteQp'[m][k] # nullptr =>
                         obj'[m][remoteQp'[m][k]].kind = "rqp"
  BY DEF RemoteCachesHoldWrappers
<1>1. CASE Running(m) /\ ~Running(m)'
  BY <1>1
<1>2. CASE ~(Running(m) /\ ~Running(m)')
  <2>1. \A g \in Handle : obj[m][g].kind # "free" =>
                             obj'[m][g].kind = obj[m][g].kind
    BY <1>2 DEF Evolves, SameObject
  <2>2. ASSUME NEW k \in MrName, remoteMr'[m][k] # nullptr,
               remoteMr'[m][k] = remoteMr[m][k]
        PROVE  obj'[m][remoteMr'[m][k]].kind = "rmr"
    <3>1. remoteMr[m][k] \in Handle /\ obj[m][remoteMr[m][k]].kind = "rmr"
      BY <2>2 DEF CoreInv, TypeOK, RemoteCachesHoldWrappers, Address
    <3> QED
      BY <2>1, <2>2, <3>1
  <2>3. ASSUME NEW k \in QpName, remoteQp'[m][k] # nullptr,
               remoteQp'[m][k] = remoteQp[m][k]
        PROVE  obj'[m][remoteQp'[m][k]].kind = "rqp"
    <3>1. remoteQp[m][k] \in Handle /\ obj[m][remoteQp[m][k]].kind = "rqp"
      BY <2>3 DEF CoreInv, TypeOK, RemoteCachesHoldWrappers, Address
    <3> QED
      BY <2>1, <2>3, <3>1
  <2> QED
    BY <2>2, <2>3
<1> QED
  BY <1>1, <1>2

\* The caches of remote resources after the end of a process.
LEMMA EndRemotes ==
    ASSUME TypeOK, NEW n \in Node, RemoteCachesEndWith(n)
    PROVE  /\ \A k \in MrName : remoteMr'[n][k] = nullptr
           /\ \A k \in QpName : remoteQp'[n][k] = nullptr
           /\ \A m \in Node \ {n} : remoteMr'[m] = remoteMr[m]
                                    /\ remoteQp'[m] = remoteQp[m]
  BY DEF RemoteCachesEndWith, TypeOK, EmptyCache

\* A call on local resources, or the end or launch of a process, keeps the
\* invariant.
LEMMA LocalCallInv ==
    ASSUME CoreInv, NEW n \in Node, LocalCall(n)
    PROVE  CoreInv'
<1>0. TypeOK /\ LocalInv /\ LaunchedOnce /\ LocalStep(n)
  BY DEF CoreInv, LocalCall
<1>1. TypeOK' /\ LocalInv'
  BY <1>0, LocalCallType, LocalStepKeepsInv
<1>2. Evolves /\ PeersKept
  BY <1>0, LocalStepEvolves, LocalStepPeers
<1>3. LaunchedOnce'
  BY <1>0, <1>2, LaunchesGrow
<1>4. UNCHANGED memc
  BY DEF LocalCall, Carry, exchangeVars, RemoteCachesEndWith
<1>5. PeersSet' /\ StaleOnlyIfOwnerEnded'
  BY <1>1, <1>2, <1>4, OldSourced, SourcedKeeps
<1>6. \A m \in Node \ {n} : proc'[m] = proc[m]
  BY <1>0 DEF LocalStep, CreateLocalPd, CreateLocalMr, CreateBasicCq,
              CreateLocalQp, InitLocalQp, Kill, Relaunch, Abort, End,
              TypeOK, LocalTypeOK
<1>7. RemoteCachesHoldWrappers'
  <2>1. CASE Running(n)'
    <3>1. UNCHANGED <<remoteMr, remoteQp>>
      BY <2>1 DEF LocalCall, Carry, exchangeVars
    <3> QED
      BY <1>1, <1>2, <1>6, <2>1, <3>1, RemotesKeep DEF Running
  <2>2. CASE ~Running(n)'
    <3>1. RemoteCachesEndWith(n)
      BY <2>2 DEF LocalCall, Carry
    <3> QED
      BY <1>0, <1>1, <1>2, <1>6, <3>1, EndRemotes, RemotesKeep DEF Running
  <2> QED
    BY <2>1, <2>2
<1> QED
  BY <1>1, <1>3, <1>5, <1>7 DEF CoreInv

\* A failed assert or a null call keeps the invariant.
LEMMA AbortCoreInv ==
    ASSUME CoreInv, NEW n \in Node, Running(n), AbortCore(n)
    PROVE  CoreInv'
<1>0. TypeOK /\ LocalInv /\ LaunchedOnce /\ LocalTypeOK /\ End(n, "aborted")
  BY DEF CoreInv, AbortCore, Abort, LocalInv
<1>1. TypeOK' /\ LocalInv'
  BY <1>0, AbortCoreType, EndKeepsInv
<1>2. Evolves /\ PeersKept
  BY <1>0, EndEvolves, EndPeers
<1>3. LaunchedOnce'
  BY <1>0, <1>2, LaunchesGrow
<1>4. RemoteCachesEndWith(n) /\ UNCHANGED memc
  BY DEF AbortCore, RemoteCachesEndWith
<1>5. PeersSet' /\ StaleOnlyIfOwnerEnded'
  BY <1>1, <1>2, <1>4, OldSourced, SourcedKeeps
<1>6. \A m \in Node \ {n} : proc'[m] = proc[m]
  BY <1>0 DEF End, LocalTypeOK
<1>7. RemoteCachesHoldWrappers'
  BY <1>0, <1>1, <1>2, <1>4, <1>6, EndRemotes, RemotesKeep DEF Running
<1> QED
  BY <1>1, <1>3, <1>5, <1>7 DEF CoreInv

\* Publishing what a process really has.
LEMMA SetInv ==
    ASSUME CoreInv, NEW n \in Node, NEW k \in MrName \cup QpName,
           NEW info \in Info, set(n, k, info),
           k \in MrName => Describes(info, "mr"),
           k \in QpName => Describes(info, "qp"),
           UNCHANGED <<proc, launch, obj, pdCache, cqCache, mrCache,
                       qpCache, remoteMr, remoteQp>>
    PROVE  CoreInv'
<1>0. TypeOK /\ LocalInv /\ LaunchedOnce
  BY DEF CoreInv
<1>1. TypeOK'
  BY <1>0, SetType
<1>2. LocalInv'
  BY <1>0, <1>1, SameObjectsKeepInv DEF TypeOK
<1>3. Evolves
  BY DEF Evolves, Running, SameObject
<1>4. Sourced
  <2>1. \A j \in MrName \cup QpName :
          memc'[j] = memc[j] \/ (j = k /\ memc'[j] = info)
    BY <1>0 DEF set, TypeOK
  <2>2. /\ \A j \in MrName : memc[j] # nullptr => Describes(memc[j], "mr")
        /\ \A j \in QpName : memc[j] # nullptr => Describes(memc[j], "qp")
    BY DEF CoreInv, StaleOnlyIfOwnerEnded
  <2>3. \A m \in Node, g \in Handle :
          LET o == obj[m][g] IN
          /\ o.kind = "rmr" => o.peer \in Info /\ Describes(o.peer, "mr")
          /\ o.kind = "rqp" => o.peer \in Info /\ Describes(o.peer, "qp")
          /\ o.kind = "qp" =>
               IF o.state \in {"RTR", "RTS"}
               THEN o.peer \in Info /\ Describes(o.peer, "qp")
               ELSE o.peer = nullptr
    BY DEF CoreInv, PeersSet, StaleOnlyIfOwnerEnded
  <2> QED
    BY <2>1, <2>2, <2>3 DEF Sourced
<1>5. PeersSet' /\ StaleOnlyIfOwnerEnded'
  BY <1>1, <1>3, <1>4, SourcedKeeps
<1>6. RemoteCachesHoldWrappers' /\ LaunchedOnce'
  BY DEF CoreInv, RemoteCachesHoldWrappers, LaunchedOnce
<1> QED
  BY <1>1, <1>2, <1>5, <1>6 DEF CoreInv

\* A push keeps the invariant: it publishes what the process really has, or
\* ends it.
LEMMA PushInv ==
    ASSUME CoreInv, NEW n \in Node, NEW k, NEW pd_key \in PdKey
    PROVE  /\ \A mr_key \in MrKey :
                k \in MrName /\ PushLocalMr(n, k, pd_key, mr_key) => CoreInv'
           /\ \A qp_key \in QpKey :
                k \in QpName /\ PushLocalQp(n, k, pd_key, qp_key) => CoreInv'
<1>1. ASSUME NEW mr_key \in MrKey, k \in MrName,
             PushLocalMr(n, k, pd_key, mr_key)
      PROVE  CoreInv'
  <2>1. CASE AbortCore(n)
    BY <1>1, <2>1, AbortCoreInv DEF PushLocalMr
  <2>2. CASE ~AbortCore(n)
    <3> DEFINE h == local_mr(n, pd_key, mr_key)
    <3>1. /\ HasMr(n, pd_key, mr_key) /\ obj[n][h].made
          /\ set(n, k, <<n, h>>)
          /\ UNCHANGED <<proc, launch, obj, pdCache, cqCache, mrCache,
                         qpCache, remoteMr, remoteQp>>
      BY <1>1, <2>2 DEF PushLocalMr
    <3>2. h \in Handle /\ obj[n][h].kind = "mr"
      BY <3>1, LocalLookup DEF CoreInv
    <3>3. <<n, h>> \in Info /\ Describes(<<n, h>>, "mr")
      BY <3>1, <3>2 DEF Info, Describes, Denotes
    <3>4. k \notin QpName
      BY <1>1, KeyAssumption
    <3> HIDE DEF h
    <3> QED
      BY <1>1, <3>1, <3>3, <3>4, SetInv
  <2> QED
    BY <2>1, <2>2
<1>2. ASSUME NEW qp_key \in QpKey, k \in QpName,
             PushLocalQp(n, k, pd_key, qp_key)
      PROVE  CoreInv'
  <2>1. CASE AbortCore(n)
    BY <1>2, <2>1, AbortCoreInv DEF PushLocalQp
  <2>2. CASE ~AbortCore(n)
    <3> DEFINE h == local_qp(n, pd_key, qp_key)
    <3>1. /\ HasQp(n, pd_key, qp_key)
          /\ set(n, k, <<n, h>>)
          /\ UNCHANGED <<proc, launch, obj, pdCache, cqCache, mrCache,
                         qpCache, remoteMr, remoteQp>>
      BY <1>2, <2>2 DEF PushLocalQp
    <3>2. h \in Handle /\ obj[n][h].kind = "qp" /\ obj[n][h].made
      BY <3>1, LocalLookup DEF CoreInv
    <3>3. <<n, h>> \in Info /\ Describes(<<n, h>>, "qp")
      BY <3>1, <3>2 DEF Info, Describes, Denotes
    <3>4. k \notin MrName
      BY <1>2, KeyAssumption
    <3> HIDE DEF h
    <3> QED
      BY <1>2, <3>1, <3>3, <3>4, SetInv
  <2> QED
    BY <2>1, <2>2
<1> QED
  BY <1>1, <1>2

\* A fetch allocates a wrapper for an information taken from the server.
LEMMA RemoteStored ==
    ASSUME CoreInv, TypeOK', NEW n \in Node, NEW h \in Fresh(n),
           NEW kind \in {"rmr", "rqp"}, NEW info \in Info,
           Store(n, h, NewRemote(kind, info)),
           kind = "rmr" => Describes(info, "mr"),
           kind = "rqp" => Describes(info, "qp"),
           UNCHANGED <<proc, launch, pdCache, cqCache, mrCache, qpCache, memc>>
    PROVE  LocalInv' /\ Evolves /\ Sourced
<1> DEFINE o == NewRemote(kind, info)
<1>0. LocalInv /\ LocalTypeOK /\ LocalTypeOK'
  BY DEF CoreInv, LocalInv, TypeOK
<1>1. o.kind = kind /\ o.peer = info
  BY NewRemoteType
<1> HIDE DEF o
<1>2. /\ h \in Handle /\ obj[n][h].kind = "free" /\ obj'[n][h] = o
      /\ \A g \in Handle \ {h} : obj'[n][g] = obj[n][g]
      /\ \A m \in Node \ {n} : obj'[m] = obj[m]
      /\ \A g \in Handle :
           IF obj[n][g].kind # "free" THEN SameObject(obj[n][g], obj'[n][g])
           ELSE obj'[n][g] = obj[n][g] \/ (g = h /\ h \in Fresh(n))
  BY <1>0, StoreFresh DEF o
<1>3. Grows(n, h)
  <2>1. BindingsKept(n) /\ NewEntries(n, h)
    BY DEF BindingsKept, NewEntries
  <2>2. h \notin LocalObjects(n)' /\ WellNamed(obj'[n][h]) /\ ParentsOK(n, h)'
    BY <1>1, <1>2 DEF LocalObjects, LocalKind, WellNamed, ParentsOK
  <2> QED
    BY <1>1, <1>2, <2>1, <2>2 DEF Grows, ProcessKept
<1>4. LocalInv' /\ Evolves
  BY <1>0, <1>2, <1>3, GrowsKeepsInv, GrowsEvolves
<1>5. Sourced
  <2>1. /\ \A k \in MrName : memc[k] # nullptr => Describes(memc[k], "mr")
        /\ \A k \in QpName : memc[k] # nullptr => Describes(memc[k], "qp")
    BY DEF CoreInv, StaleOnlyIfOwnerEnded
  <2>2. ASSUME NEW m \in Node, NEW g \in Handle
        PROVE  LET q == obj[m][g] IN
               /\ q.kind = "rmr" => q.peer \in Info /\ Describes(q.peer, "mr")
               /\ q.kind = "rqp" => q.peer \in Info /\ Describes(q.peer, "qp")
               /\ q.kind = "qp" =>
                    IF q.state \in {"RTR", "RTS"}
                    THEN q.peer \in Info /\ Describes(q.peer, "qp")
                    ELSE q.peer = nullptr
    BY DEF CoreInv, PeersSet, StaleOnlyIfOwnerEnded
  <2>3. \A m \in Node, g \in Handle :
          obj'[m][g] = obj[m][g] \/ obj'[m][g] = o
    BY <1>2
  <2> QED
    BY <1>1, <2>1, <2>2, <2>3 DEF Sourced
<1> QED
  BY <1>4, <1>5

\* A fetch keeps the invariant.
LEMMA FetchInv ==
    ASSUME CoreInv, NEW n \in Node, NEW k,
           \/ k \in MrName /\ FetchRemoteMr(n, k)
           \/ k \in QpName /\ FetchRemoteQp(n, k)
    PROVE  CoreInv'
<1>0. TypeOK /\ LaunchedOnce /\ TypeOK'
  BY FetchType DEF CoreInv
<1>1. CASE k \in MrName /\ FetchRemoteMr(n, k)
  <2>1. PICK h \in Fresh(n) :
          /\ Store(n, h, NewRemote("rmr", memc[k]))
          /\ remoteMr' = [remoteMr EXCEPT ![n] = register_resrc(@, k, h)]
    BY <1>1 DEF FetchRemoteMr
  <2>2. memc[k] \in Info /\ Describes(memc[k], "mr")
    BY <1>0, <1>1 DEF FetchRemoteMr, TypeOK, CoreInv, StaleOnlyIfOwnerEnded
  <2>3. LocalInv' /\ Evolves /\ Sourced
    BY <1>0, <1>1, <2>1, <2>2, RemoteStored DEF FetchRemoteMr
  <2>4. h \in Handle /\ obj'[n][h].kind = "rmr"
    BY <1>0, <2>1, <2>2, StoreFresh, NewRemoteType DEF TypeOK
  <2>5. \A m \in Node, j \in MrName :
          \/ remoteMr'[m][j] = remoteMr[m][j]
          \/ m = n /\ remoteMr'[m][j] = h
    BY <1>0, <1>1, <2>1 DEF TypeOK, register_resrc
  <2>6. RemoteCachesHoldWrappers'
    BY <1>0, <1>1, <2>3, <2>4, <2>5, RemotesKeep DEF FetchRemoteMr, Running
  <2> QED
    BY <1>0, <2>3, <2>6, LaunchesGrow, SourcedKeeps DEF CoreInv
<1>2. CASE k \in QpName /\ FetchRemoteQp(n, k)
  <2>1. PICK h \in Fresh(n) :
          /\ Store(n, h, NewRemote("rqp", memc[k]))
          /\ remoteQp' = [remoteQp EXCEPT ![n] = register_resrc(@, k, h)]
    BY <1>2 DEF FetchRemoteQp
  <2>2. memc[k] \in Info /\ Describes(memc[k], "qp")
    BY <1>0, <1>2 DEF FetchRemoteQp, TypeOK, CoreInv, StaleOnlyIfOwnerEnded
  <2>3. LocalInv' /\ Evolves /\ Sourced
    BY <1>0, <1>2, <2>1, <2>2, RemoteStored DEF FetchRemoteQp
  <2>4. h \in Handle /\ obj'[n][h].kind = "rqp"
    BY <1>0, <2>1, <2>2, StoreFresh, NewRemoteType DEF TypeOK
  <2>5. \A m \in Node, j \in QpName :
          \/ remoteQp'[m][j] = remoteQp[m][j]
          \/ m = n /\ remoteQp'[m][j] = h
    BY <1>0, <1>2, <2>1 DEF TypeOK, register_resrc
  <2>6. RemoteCachesHoldWrappers'
    BY <1>0, <1>2, <2>3, <2>4, <2>5, RemotesKeep DEF FetchRemoteQp, Running
  <2> QED
    BY <1>0, <2>3, <2>6, LaunchesGrow, SourcedKeeps DEF CoreInv
<1> QED
  BY <1>1, <1>2

\* A connection, made or half made or refused, keeps the invariant.
LEMMA ConnectEffectInv ==
    ASSUME CoreInv, NEW n \in Node, NEW h \in Handle, NEW k \in QpName,
           obj[n][h].kind = "qp", RemoteInfo(n, k) \in Info,
           Describes(RemoteInfo(n, k), "qp"), ConnectEffect(n, h, k)
    PROVE  CoreInv'
<1>0. TypeOK /\ LocalInv /\ LocalTypeOK /\ LaunchedOnce
  BY DEF CoreInv, LocalInv
<1>1. TypeOK' /\ LocalTypeOK'
  BY <1>0, ConnectEffectType DEF TypeOK
<1>2. /\ UNCHANGED <<proc, launch, pdCache, cqCache, mrCache, qpCache,
                     memc, remoteMr, remoteQp>>
  BY DEF ConnectEffect
<1>3. CASE UNCHANGED obj
  <2>1. LocalInv'
    BY <1>0, <1>1, <1>2, <1>3, SameObjectsKeepInv
  <2>2. Evolves /\ PeersKept
    BY <1>2, <1>3 DEF Evolves, Running, SameObject, PeersKept, PeerKept
  <2>3. PeersSet' /\ StaleOnlyIfOwnerEnded'
    BY <1>1, <1>2, <2>2, OldSourced, SourcedKeeps
  <2>4. RemoteCachesHoldWrappers' /\ LaunchedOnce'
    BY <1>2, <1>3 DEF CoreInv, RemoteCachesHoldWrappers, LaunchedOnce
  <2> QED
    BY <1>1, <2>1, <2>3, <2>4 DEF CoreInv
<1>4. ASSUME NEW state \in {"RTR", "RTS"},
             Store(n, h, [obj[n][h] EXCEPT !.state = state,
                                           !.peer = RemoteInfo(n, k)])
      PROVE  CoreInv'
  <2>1. obj[n][h] \in Object /\ obj \in [Node -> [Handle -> Object]]
    BY <1>0 DEF LocalTypeOK
  <2>2. /\ \A m \in Node \ {n} : obj'[m] = obj[m]
        /\ \A g \in Handle \ {h} : obj'[n][g] = obj[n][g]
        /\ obj'[n][h] = [obj[n][h] EXCEPT !.state = state,
                                          !.peer = RemoteInfo(n, k)]
    BY <1>4, <2>1 DEF Store
  <2>3. /\ SameObject(obj[n][h], obj'[n][h])
        /\ obj'[n][h].state = state /\ obj'[n][h].peer = RemoteInfo(n, k)
    BY <2>1, <2>2 DEF SameObject, Object
  <2>4. \A m \in Node, g \in Handle :
          m # n \/ g # h => obj'[m][g] = obj[m][g]
    BY <2>2
  <2>5. Grows(n, h)
    <3>1. \A m \in Node \ {n} : ProcessKept(m)
      BY <1>2, <2>2 DEF ProcessKept
    <3>2. BindingsKept(n) /\ NewEntries(n, h)
      BY <1>2 DEF BindingsKept, NewEntries
    <3>3. \A g \in Handle :
            IF obj[n][g].kind # "free" THEN SameObject(obj[n][g], obj'[n][g])
            ELSE obj'[n][g] = obj[n][g]
      BY <2>3, <2>4 DEF SameObject
    <3> QED
      BY <3>1, <3>2, <3>3 DEF Grows
  <2>6. LocalInv' /\ Evolves
    BY <1>0, <1>1, <1>2, <2>5, GrowsKeepsInv, GrowsEvolves
  <2>7. Sourced
    <3>1. /\ \A j \in MrName : memc[j] # nullptr => Describes(memc[j], "mr")
          /\ \A j \in QpName : memc[j] # nullptr => Describes(memc[j], "qp")
      BY DEF CoreInv, StaleOnlyIfOwnerEnded
    <3>2. ASSUME NEW m \in Node, NEW g \in Handle
          PROVE  LET q == obj[m][g] IN
                 /\ q.kind = "rmr" => q.peer \in Info /\ Describes(q.peer, "mr")
                 /\ q.kind = "rqp" => q.peer \in Info /\ Describes(q.peer, "qp")
                 /\ q.kind = "qp" =>
                      IF q.state \in {"RTR", "RTS"}
                      THEN q.peer \in Info /\ Describes(q.peer, "qp")
                      ELSE q.peer = nullptr
      BY DEF CoreInv, PeersSet, StaleOnlyIfOwnerEnded
    <3>3. ASSUME NEW m \in Node, NEW g \in Handle
          PROVE  LET q == obj'[m][g] IN
                 /\ q.kind = "rmr" => q.peer \in Info /\ Describes(q.peer, "mr")
                 /\ q.kind = "rqp" => q.peer \in Info /\ Describes(q.peer, "qp")
                 /\ q.kind = "qp" =>
                      IF q.state \in {"RTR", "RTS"}
                      THEN q.peer \in Info /\ Describes(q.peer, "qp")
                      ELSE q.peer = nullptr
      <4>1. CASE m = n /\ g = h
        <5>1. obj'[m][g].kind = "qp" /\ obj'[m][g].state \in {"RTR", "RTS"}
              /\ obj'[m][g].peer = RemoteInfo(n, k)
          BY <2>3, <4>1 DEF SameObject
        <5> QED
          BY <5>1
      <4>2. CASE m # n \/ g # h
        BY <2>4, <3>2, <4>2
      <4> QED
        BY <4>1, <4>2
    <3> QED
      BY <1>2, <3>1, <3>3 DEF Sourced
  <2>8. RemoteCachesHoldWrappers'
    BY <1>1, <1>2, <2>6, RemotesKeep DEF Running
  <2> QED
    BY <1>0, <1>1, <2>6, <2>7, <2>8, LaunchesGrow, SourcedKeeps DEF CoreInv
<1> QED
  BY <1>3, <1>4 DEF ConnectEffect

\* The server dropping a key keeps the invariant.
LEMMA EvictInv ==
    ASSUME CoreInv, NEW k, Evict(k)
    PROVE  CoreInv'
<1>1. TypeOK /\ LocalInv /\ TypeOK' /\ LocalTypeOK'
  BY EvictType DEF CoreInv, TypeOK
<1>2. LocalInv'
  BY <1>1, SameObjectsKeepInv DEF Evict
<1>3. Evolves /\ PeersKept
  BY DEF Evict, Evolves, Running, SameObject, PeersKept, PeerKept
<1>4. \A j \in MrName \cup QpName : memc'[j] \in {nullptr, memc[j]}
  BY <1>1 DEF Evict, TypeOK
<1>5. PeersSet' /\ StaleOnlyIfOwnerEnded'
  BY <1>1, <1>3, <1>4, OldSourced, SourcedKeeps
<1>6. RemoteCachesHoldWrappers' /\ LaunchedOnce'
  BY DEF Evict, CoreInv, RemoteCachesHoldWrappers, LaunchedOnce
<1> QED
  BY <1>1, <1>2, <1>5, <1>6 DEF CoreInv

\* No step breaks the invariant.
LEMMA StepKeepsInv == CoreInv /\ [Next]_vars => CoreInv'
<1> SUFFICES ASSUME CoreInv, [Next]_vars PROVE CoreInv'
  OBVIOUS
<1>1. ASSUME NEW n \in Node, Step(n) PROVE CoreInv'
  <2>1. CASE LocalCall(n)
    BY <2>1, LocalCallInv
  <2>2. ASSUME NEW k \in MrName, NEW pd_key \in PdKey, NEW mr_key \in MrKey,
               PushLocalMr(n, k, pd_key, mr_key)
        PROVE  CoreInv'
    BY <2>2, PushInv
  <2>3. ASSUME NEW k \in QpName, NEW pd_key \in PdKey, NEW qp_key \in QpKey,
               PushLocalQp(n, k, pd_key, qp_key)
        PROVE  CoreInv'
    BY <2>3, PushInv
  <2>4. ASSUME NEW k \in MrName, FetchRemoteMr(n, k) PROVE CoreInv'
    BY <2>4, FetchInv
  <2>5. ASSUME NEW k \in QpName, FetchRemoteQp(n, k) PROVE CoreInv'
    BY <2>5, FetchInv
  <2>6. ASSUME NEW k \in QpName, NEW pd_key \in PdKey, NEW qp_key \in QpKey,
               ConnectLocalQp(n, pd_key, qp_key, k)
        PROVE  CoreInv'
    <3>1. CASE AbortCore(n)
      BY <2>6, <3>1, AbortCoreInv DEF ConnectLocalQp
    <3>2. CASE ~AbortCore(n)
      BY <2>6, <3>2, ConnectCases, ConnectEffectInv
    <3> QED
      BY <3>1, <3>2
  <2> QED
    BY <1>1, <2>1, <2>2, <2>3, <2>4, <2>5, <2>6 DEF Step
<1>2. ASSUME NEW k, Evict(k) PROVE CoreInv'
  BY <1>2, EvictInv
<1>3. CASE UNCHANGED vars
  <2>1. LocalTypeOK' /\ TypeOK'
    BY <1>3 DEF vars, CoreInv, TypeOK, LocalTypeOK
  <2>2. LocalInv'
    BY <1>3, <2>1, SameObjectsKeepInv DEF vars, CoreInv
  <2>3. Evolves /\ PeersKept
    BY <1>3 DEF vars, Evolves, Running, SameObject, PeersKept, PeerKept
  <2>4. UNCHANGED memc
    BY <1>3 DEF vars
  <2>5. PeersSet' /\ StaleOnlyIfOwnerEnded'
    BY <2>1, <2>3, <2>4, OldSourced, SourcedKeeps
  <2>6. RemoteCachesHoldWrappers' /\ LaunchedOnce'
    BY <1>3 DEF vars, CoreInv, RemoteCachesHoldWrappers, LaunchedOnce
  <2> QED
    BY <2>1, <2>2, <2>5, <2>6 DEF CoreInv
<1> QED
  BY <1>1, <1>2, <1>3 DEF Next

\* The invariant holds in the initial states.
LEMMA InitInv == Init => CoreInv
<1> SUFFICES ASSUME Init PROVE CoreInv
  OBVIOUS
<1>1. TypeOK /\ LocalInv
  BY InitType, LocalInitInv DEF Init
<1>2. \A n \in Node, h \in Handle : obj[n][h].kind = "free"
  BY DEF Init, LocalInit, NoObjects, Blank
<1>3. LaunchedOnce
  BY DEF Init, LocalInit, LaunchedOnce
<1>4. RemoteCachesHoldWrappers
  BY DEF Init, EmptyCache, RemoteCachesHoldWrappers
<1>5. PeersSet
  BY <1>2 DEF PeersSet
<1>6. StaleOnlyIfOwnerEnded
  BY <1>2 DEF Init, EmptyCache, StaleOnlyIfOwnerEnded
<1> QED
  BY <1>1, <1>3, <1>4, <1>5, <1>6 DEF CoreInv

-----------------------------------------------------------------------------
(* What holds of every behaviour.                                          *)

\* The inductive invariant holds in every reachable state.
THEOREM CoreInvariant == Spec => []CoreInv
  BY InitInv, StepKeepsInv, PTL DEF Spec

\* Every process, its wrappers, its caches and the server stay well typed,
\* whatever the applications call and whichever external calls fail.
THEOREM TypeCorrect == Spec => []TypeOK
<1>1. CoreInv => TypeOK
  BY DEF CoreInv
<1> QED
  BY CoreInvariant, <1>1, PTL

\* A published, fetched or connected-to information describes a resource of
\* the class it was published as, or one whose process has ended.
THEOREM StaleOnlyIfOwnerEndedCorrect == Spec => []StaleOnlyIfOwnerEnded
<1>1. CoreInv => StaleOnlyIfOwnerEnded
  BY DEF CoreInv
<1> QED
  BY CoreInvariant, <1>1, PTL

\* What ConnectedOnce says of one step.
QpsConnectOnce ==
    \A n \in Node, h \in Handle :
        obj[n][h].kind = "qp" /\ obj'[n][h].kind # "dead" =>
          LET o == obj[n][h]  o2 == obj'[n][h] IN
          /\ o.peer # nullptr => o2.peer = o.peer /\ o2.state = o.state
          /\ o.state = "INIT" => o2.state # "RESET"

\* A queue pair with a destination is past INIT.
LEMMA PeerMeansConnected ==
    ASSUME CoreInv, NEW m \in Node, NEW g \in Handle, obj[m][g].kind = "qp",
           obj[m][g].peer # nullptr
    PROVE  obj[m][g].state \in {"RTR", "RTS"}
  BY DEF CoreInv, StaleOnlyIfOwnerEnded

\* A step that keeps what queue pairs are connected to connects none twice.
LEMMA PeersKeptConnectOnce ==
    ASSUME CoreInv, Evolves, PeersKept
    PROVE  QpsConnectOnce
<1> SUFFICES ASSUME NEW m \in Node, NEW g \in Handle,
                    obj[m][g].kind = "qp", obj'[m][g].kind # "dead"
             PROVE  LET o == obj[m][g]  o2 == obj'[m][g] IN
                    /\ o.peer # nullptr => o2.peer = o.peer /\ o2.state = o.state
                    /\ o.state = "INIT" => o2.state # "RESET"
  BY DEF QpsConnectOnce
<1>1. obj'[m][g].kind = "qp"
  BY DEF Evolves, SameObject
<1>2. PeerKept(obj[m][g], obj'[m][g])
  BY DEF PeersKept
<1> QED
  BY <1>1, <1>2, PeerMeansConnected DEF PeerKept

\* Every call connects a queue pair once.
LEMMA StepConnectsOnce == CoreInv /\ [Next]_vars => QpsConnectOnce
<1> SUFFICES ASSUME CoreInv, [Next]_vars PROVE QpsConnectOnce
  OBVIOUS
<1>0. TypeOK /\ LocalInv /\ LocalTypeOK
  BY DEF CoreInv, LocalInv
<1>1. CASE UNCHANGED obj
  BY <1>1 DEF QpsConnectOnce
<1>2. ASSUME NEW n \in Node, AbortCore(n) PROVE QpsConnectOnce
  <2>1. \A g \in Handle : obj'[n][g].kind \in {"free", "dead"}
                          /\ (obj[n][g].kind # "free" => obj'[n][g].kind = "dead")
    BY <1>0, <1>2 DEF AbortCore, Abort, End, LocalTypeOK, Blank
  <2>2. \A m \in Node \ {n} : obj'[m] = obj[m]
    BY <1>0, <1>2 DEF AbortCore, Abort, End, LocalTypeOK
  <2> QED
    BY <2>1, <2>2 DEF QpsConnectOnce
<1>3. ASSUME NEW n \in Node, LocalCall(n) PROVE QpsConnectOnce
  BY <1>0, <1>3, LocalStepEvolves, LocalStepPeers, PeersKeptConnectOnce
     DEF LocalCall
<1>4. ASSUME NEW n \in Node, NEW h \in Fresh(n), NEW o, Store(n, h, o)
      PROVE  QpsConnectOnce
  <2>1. \A m \in Node, g \in Handle :
          obj[m][g].kind # "free" => obj'[m][g] = obj[m][g]
    BY <1>0, <1>4, StoreFresh
  <2> QED
    BY <2>1 DEF QpsConnectOnce
<1>5. ASSUME NEW n \in Node, NEW k \in QpName, NEW pd_key \in PdKey,
             NEW qp_key \in QpKey, ConnectLocalQp(n, pd_key, qp_key, k)
      PROVE  QpsConnectOnce
  <2>1. CASE AbortCore(n)
    BY <1>2, <2>1
  <2>2. ASSUME NEW h \in Handle, obj[n][h].kind = "qp", CanMove(n, h, "RTR"),
               NEW state \in {"RTR", "RTS"},
               Store(n, h, [obj[n][h] EXCEPT !.state = state,
                                             !.peer = RemoteInfo(n, k)])
        PROVE  QpsConnectOnce
    <3>1. obj[n][h].state = "INIT"
      BY <2>2 DEF CanMove, QpMove
    <3>2. obj[n][h].peer = nullptr
      BY <2>2, <3>1, PeerMeansConnected
    <3>3. obj[n][h] \in Object /\ obj \in [Node -> [Handle -> Object]]
      BY <1>0 DEF LocalTypeOK
    <3>4. obj'[n][h].state = state
      BY <2>2, <3>3 DEF Store, Object
    <3>5. \A m \in Node, g \in Handle :
            m # n \/ g # h => obj'[m][g] = obj[m][g]
      BY <2>2, <3>3 DEF Store
    <3> QED
      BY <3>2, <3>4, <3>5 DEF QpsConnectOnce
  <2> QED
    BY <1>1, <1>5, <2>1, <2>2, ConnectCases DEF ConnectEffect
<1>6. ASSUME NEW n \in Node, Step(n) PROVE QpsConnectOnce
  <2>1. ASSUME NEW k, NEW pd_key, NEW mr_key,
               PushLocalMr(n, k, pd_key, mr_key)
        PROVE  QpsConnectOnce
    BY <1>1, <1>2, <2>1 DEF PushLocalMr
  <2>2. ASSUME NEW k, NEW pd_key, NEW qp_key,
               PushLocalQp(n, k, pd_key, qp_key)
        PROVE  QpsConnectOnce
    BY <1>1, <1>2, <2>2 DEF PushLocalQp
  <2>3. ASSUME NEW k, FetchRemoteMr(n, k) \/ FetchRemoteQp(n, k)
        PROVE  QpsConnectOnce
    BY <1>4, <2>3 DEF FetchRemoteMr, FetchRemoteQp
  <2> QED
    BY <1>3, <1>5, <1>6, <2>1, <2>2, <2>3 DEF Step
<1>7. ASSUME NEW k, Evict(k) PROVE QpsConnectOnce
  BY <1>1, <1>7 DEF Evict
<1>8. CASE UNCHANGED vars
  BY <1>1, <1>8 DEF vars
<1> QED
  BY <1>6, <1>7, <1>8 DEF Next

\* The destination of a queue pair is set once and kept, and a queue pair
\* left half connected stays so.
THEOREM ConnectedOnceCorrect == Spec => ConnectedOnce
<1>1. CoreInv /\ [Next]_vars =>
        [\A n \in Node, h \in Handle :
           obj[n][h].kind = "qp" /\ obj'[n][h].kind # "dead" =>
             LET o == obj[n][h]  o2 == obj'[n][h] IN
             /\ o.peer # nullptr => o2.peer = o.peer /\ o2.state = o.state
             /\ o.state = "INIT" => o2.state # "RESET"]_vars
  BY StepConnectsOnce DEF QpsConnectOnce
<1> QED
  BY <1>1, CoreInvariant, PTL DEF Spec, ConnectedOnce

=============================================================================

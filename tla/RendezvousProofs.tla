--------------------------- MODULE RendezvousProofs ---------------------------
(***************************************************************************)
(* HartebeestCore implements Rendezvous: the initial states map to initial *)
(* states, and a step maps to a step of Rendezvous or to a stutter.        *)
(***************************************************************************)
EXTENDS HartebeestCoreProofs

USE DEF get

\* The abstract link of one object.
LinkOf(n, h) == IF obj[n][h].kind = "qp" THEN obj[n][h].peer ELSE nullptr

\* What the abstract state is made of does not change.
KnownStays(m) ==
    /\ \A k \in MrName : KnownMr(m, k)' = KnownMr(m, k)
    /\ \A k \in QpName : KnownQp(m, k)' = KnownQp(m, k)
LinkStays(m) == \A g \in Handle : LinkOf(m, g)' = LinkOf(m, g)

\* What a process knows depends on its remote wrappers only.
LEMMA WrappersKeepKnown ==
    ASSUME CoreInv, NEW m \in Node,
           \A g \in Handle : obj[m][g].kind \in {"rmr", "rqp"} =>
                                obj'[m][g].peer = obj[m][g].peer
    PROVE  /\ \A k \in MrName : remoteMr'[m][k] = remoteMr[m][k] =>
                                   KnownMr(m, k)' = KnownMr(m, k)
           /\ \A k \in QpName : remoteQp'[m][k] = remoteQp[m][k] =>
                                   KnownQp(m, k)' = KnownQp(m, k)
<1>1. ASSUME NEW k \in MrName, remoteMr'[m][k] = remoteMr[m][k],
             remoteMr[m][k] # nullptr
      PROVE  KnownMr(m, k)' = KnownMr(m, k)
  <2>1. remoteMr[m][k] \in Handle /\ obj[m][remoteMr[m][k]].kind = "rmr"
    BY <1>1 DEF CoreInv, TypeOK, RemoteCachesHoldWrappers, Address
  <2>2. obj'[m][remoteMr[m][k]].peer = obj[m][remoteMr[m][k]].peer
    BY <2>1
  <2> QED
    BY <1>1, <2>2 DEF KnownMr
<1>2. ASSUME NEW k \in QpName, remoteQp'[m][k] = remoteQp[m][k],
             remoteQp[m][k] # nullptr
      PROVE  KnownQp(m, k)' = KnownQp(m, k)
  <2>1. remoteQp[m][k] \in Handle /\ obj[m][remoteQp[m][k]].kind = "rqp"
    BY <1>2 DEF CoreInv, TypeOK, RemoteCachesHoldWrappers, Address
  <2>2. obj'[m][remoteQp[m][k]].peer = obj[m][remoteQp[m][k]].peer
    BY <2>1
  <2> QED
    BY <1>2, <2>2 DEF KnownQp
<1> QED
  BY <1>1, <1>2 DEF KnownMr, KnownQp

\* The calls on local resources change neither what a process knows nor what
\* its queue pairs are linked to, unless they end it.
LEMMA LocalKeepsAbstraction ==
    ASSUME CoreInv, PeersKept, Evolves, NEW m \in Node,
           ~(Running(m) /\ ~Running(m)'),
           remoteMr'[m] = remoteMr[m], remoteQp'[m] = remoteQp[m]
    PROVE  KnownStays(m) /\ LinkStays(m)
<1>1. \A g \in Handle : obj[m][g].kind # "free" =>
                           obj'[m][g].kind = obj[m][g].kind
  BY DEF Evolves, SameObject
<1>2. \A g \in Handle : PeerKept(obj[m][g], obj'[m][g])
  BY DEF PeersKept
<1>3. \A g \in Handle : obj[m][g].kind \in {"rmr", "rqp"} =>
                           obj'[m][g].peer = obj[m][g].peer
  BY <1>1, <1>2 DEF PeerKept
<1>4. LinkStays(m)
  BY <1>1, <1>2 DEF LinkStays, LinkOf, PeerKept
<1> QED
  BY <1>3, <1>4, WrappersKeepKnown DEF KnownStays

\* A process that ended knows nothing and is linked to nothing.
LEMMA EndAbstraction ==
    ASSUME TypeOK, NEW n \in Node, NEW why, End(n, why), RemoteCachesEndWith(n)
    PROVE  /\ \A k \in MrName : KnownMr(n, k)' = nullptr
           /\ \A k \in QpName : KnownQp(n, k)' = nullptr
           /\ \A g \in Handle : LinkOf(n, g)' = nullptr
           /\ \A m \in Node \ {n} : KnownStays(m) /\ LinkStays(m)
<1>1. \A g \in Handle : obj'[n][g].kind \in {"free", "dead"}
  BY DEF End, Blank, TypeOK, LocalTypeOK
<1>2. \A m \in Node \ {n} : obj'[m] = obj[m]
  BY DEF End, TypeOK, LocalTypeOK
<1> QED
  BY <1>1, <1>2, EndRemotes
     DEF KnownMr, KnownQp, LinkOf, KnownStays, LinkStays

\* A table that changes in one place is an EXCEPT of the old one.
LEMMA OneEntryChanged ==
    ASSUME NEW S, NEW T, NEW V, NEW x \in S, NEW y \in T,
           NEW f \in [S -> [T -> V]], NEW g \in [S -> [T -> V]],
           \A a \in S, b \in T : a # x \/ b # y => g[a][b] = f[a][b]
    PROVE  g = [f EXCEPT ![x][y] = g[x][y]]
<1> DEFINE e == [f EXCEPT ![x][y] = g[x][y]]
<1>1. e \in [S -> [T -> V]]
  OBVIOUS
<1>2. \A a \in S, b \in T : e[a][b] = g[a][b]
  OBVIOUS
<1> HIDE DEF e
<1>3. \A a \in S : e[a] \in [T -> V] /\ g[a] \in [T -> V]
  BY <1>1
<1>4. \A a \in S : e[a] = g[a]
  BY <1>2, <1>3
<1>5. e = g
  BY <1>1, <1>4
<1> QED
  BY <1>5 DEF e

\* The abstract state: which tables it is made of, and their types.
Tables ==
    /\ absKnown \in [Node -> [MrName \cup QpName -> Info \cup {nullptr}]]
    /\ absLink \in [Node -> [Handle -> Info \cup {nullptr}]]
    /\ \A n \in Node :
         /\ \A k \in MrName : absKnown[n][k] = KnownMr(n, k)
         /\ \A k \in QpName : absKnown[n][k] = KnownQp(n, k)
         /\ \A h \in Handle : absLink[n][h] = LinkOf(n, h)

\* A well-typed core has a well-typed abstract state.
LEMMA TablesType == TypeOK => Tables
<1> SUFFICES ASSUME TypeOK PROVE Tables
  OBVIOUS
<1>1. \A n \in Node, h \in Handle : obj[n][h].peer \in Info \cup {nullptr}
  BY DEF TypeOK, LocalTypeOK, Object
<1>2. \A n \in Node : /\ \A k \in MrName : KnownMr(n, k) \in Info \cup {nullptr}
                      /\ \A k \in QpName : KnownQp(n, k) \in Info \cup {nullptr}
                      /\ \A h \in Handle : LinkOf(n, h) \in Info \cup {nullptr}
  BY <1>1 DEF KnownMr, KnownQp, LinkOf, TypeOK, Address
<1>3. \A n \in Node, k \in MrName \cup QpName :
        (IF k \in MrName THEN KnownMr(n, k) ELSE KnownQp(n, k))
          \in Info \cup {nullptr}
  BY <1>2
<1>4. absKnown \in [Node -> [MrName \cup QpName -> Info \cup {nullptr}]]
  BY <1>3 DEF absKnown
<1>5. absLink \in [Node -> [Handle -> Info \cup {nullptr}]]
  BY <1>2 DEF absLink, LinkOf
<1>6. \A n \in Node : /\ \A k \in MrName : absKnown[n][k] = KnownMr(n, k)
                      /\ \A k \in QpName : absKnown[n][k] = KnownQp(n, k)
                      /\ \A h \in Handle : absLink[n][h] = LinkOf(n, h)
  BY KeyAssumption DEF absKnown, absLink, LinkOf
<1> QED
  BY <1>4, <1>5, <1>6 DEF Tables

\* And so it is after a step.
LEMMA TablesTypeNext == TypeOK' => Tables'
  BY TablesType, PTL

-----------------------------------------------------------------------------
(* From what happens to every process to a step of Rendezvous.             *)

\* Nothing happens to the abstract state.
LEMMA AbstractStutter ==
    ASSUME UNCHANGED <<proc, memc>>,
           \A m \in Node : KnownStays(m) /\ LinkStays(m)
    PROVE  UNCHANGED R!vars
<1>1. absAlive' = absAlive
  BY DEF absAlive, Running
<1>2. absKnown' = absKnown
  BY DEF absKnown, KnownStays
<1>3. absLink' = absLink
  BY DEF absLink, LinkStays, LinkOf
<1> QED
  BY <1>1, <1>2, <1>3 DEF R!vars

\* The end of a process.
LEMMA AbstractEnd ==
    ASSUME TypeOK, NEW n \in Node, NEW why \in {"aborted", "killed"},
           Running(n), End(n, why), RemoteCachesEndWith(n)
    PROVE  R!Next
<1>1. absAlive' = absAlive \ {n} /\ n \in absAlive
  BY DEF absAlive, Running, End, TypeOK, LocalTypeOK
<1>2. absKnown' = [absKnown EXCEPT ![n] = [k \in MrName \cup QpName |-> nullptr]]
  BY EndAbstraction DEF absKnown, KnownStays
<1>3. absLink' = [absLink EXCEPT ![n] = [h \in Handle |-> nullptr]]
  BY EndAbstraction DEF absLink, LinkStays, LinkOf
<1>4. UNCHANGED memc
  BY DEF RemoteCachesEndWith
<1>5. R!End(n)
  BY <1>1, <1>2, <1>3, <1>4 DEF R!End
<1> QED
  BY <1>5 DEF R!Next

\* A new launch.
LEMMA AbstractBegin ==
    ASSUME TypeOK, NEW n \in Node, Relaunch(n), UNCHANGED memc,
           \A m \in Node : KnownStays(m) /\ LinkStays(m)
    PROVE  R!Next
<1>1. absAlive' = absAlive \cup {n} /\ n \notin absAlive
  BY DEF absAlive, Running, Relaunch, TypeOK, LocalTypeOK
<1>2. absKnown' = absKnown
  BY DEF absKnown, KnownStays
<1>3. absLink' = absLink
  BY DEF absLink, LinkStays, LinkOf
<1>4. R!Begin(n)
  BY <1>1, <1>2, <1>3 DEF R!Begin
<1> QED
  BY <1>4 DEF R!Next

-----------------------------------------------------------------------------
(* The steps.                                                              *)

\* A call on local resources, or the end or launch of a process.
LEMMA LocalCallRefines ==
    ASSUME CoreInv, NEW n \in Node, LocalCall(n)
    PROVE  R!Next \/ UNCHANGED R!vars
<1>0. TypeOK /\ LocalTypeOK /\ LocalInv /\ LocalStep(n) /\ Evolves /\ PeersKept
  BY LocalStepEvolves, LocalStepPeers DEF CoreInv, LocalInv, LocalCall
<1>1. CASE Running(n) /\ \E why \in {"aborted", "killed"} : End(n, why)
  <2>1. PICK why \in {"aborted", "killed"} : End(n, why)
    BY <1>1
  <2>2. RemoteCachesEndWith(n)
    BY <1>0, <2>1 DEF LocalCall, Carry, Running, End, LocalTypeOK
  <2> QED
    BY <1>0, <1>1, <2>1, <2>2, AbstractEnd
<1>2. CASE Relaunch(n)
  <2>1. Running(n)' /\ \A m \in Node \ {n} : Running(m)' = Running(m)
    BY <1>0, <1>2 DEF Relaunch, Running, LocalTypeOK
  <2>2. UNCHANGED exchangeVars
    BY <2>1 DEF LocalCall, Carry
  <2>3. \A m \in Node : KnownStays(m) /\ LinkStays(m)
    BY <1>0, <2>1, <2>2, LocalKeepsAbstraction DEF exchangeVars
  <2> QED
    BY <1>0, <1>2, <2>2, <2>3, AbstractBegin DEF exchangeVars
<1>3. CASE Running(n) /\ UNCHANGED <<proc, launch>>
  <2>1. UNCHANGED exchangeVars
    BY <1>3 DEF LocalCall, Carry, Running
  <2>2. \A m \in Node : KnownStays(m) /\ LinkStays(m)
    BY <1>0, <1>3, <2>1, LocalKeepsAbstraction DEF exchangeVars, Running
  <2> QED
    BY <1>3, <2>1, <2>2, AbstractStutter DEF exchangeVars
<1> QED
  BY <1>0, <1>1, <1>2, <1>3, LocalStepShape

\* A push that reaches the server posts, one that does not is no step.
LEMMA SetRefines ==
    ASSUME TypeOK, NEW n \in Node, Running(n), NEW k \in MrName \cup QpName,
           NEW h \in Handle, set(n, k, <<n, h>>),
           UNCHANGED <<proc, obj, remoteMr, remoteQp>>
    PROVE  R!Next \/ UNCHANGED R!vars
<1>1. UNCHANGED <<absAlive, absKnown, absLink>>
  BY DEF absAlive, absKnown, absLink, Running, KnownMr, KnownQp
<1>2. CASE UNCHANGED memc
  BY <1>1, <1>2 DEF R!vars
<1>3. CASE memc' = [memc EXCEPT ![k] = <<n, h>>]
  <2>1. n \in absAlive
    BY DEF absAlive
  <2>2. R!Post(n, k, h)
    BY <1>1, <1>3, <2>1 DEF R!Post
  <2> QED
    BY <2>2 DEF R!Next
<1> QED
  BY <1>2, <1>3 DEF set

\* A push.
LEMMA PushRefines ==
    ASSUME CoreInv, NEW n \in Node, NEW k, NEW pd_key \in PdKey
    PROVE  /\ \A mr_key \in MrKey :
                k \in MrName /\ PushLocalMr(n, k, pd_key, mr_key) =>
                  R!Next \/ UNCHANGED R!vars
           /\ \A qp_key \in QpKey :
                k \in QpName /\ PushLocalQp(n, k, pd_key, qp_key) =>
                  R!Next \/ UNCHANGED R!vars
<1>0. TypeOK /\ LocalInv
  BY DEF CoreInv
<1>1. ASSUME Running(n), AbortCore(n) PROVE R!Next
  BY <1>0, <1>1, AbstractEnd DEF AbortCore, Abort
<1>2. ASSUME NEW mr_key \in MrKey, k \in MrName,
             PushLocalMr(n, k, pd_key, mr_key)
      PROVE  R!Next \/ UNCHANGED R!vars
  <2>1. CASE AbortCore(n)
    BY <1>1, <1>2, <2>1 DEF PushLocalMr
  <2>2. CASE ~AbortCore(n)
    <3>1. /\ Running(n) /\ HasMr(n, pd_key, mr_key)
          /\ set(n, k, <<n, local_mr(n, pd_key, mr_key)>>)
          /\ UNCHANGED <<proc, obj, remoteMr, remoteQp>>
      BY <1>2, <2>2 DEF PushLocalMr
    <3>2. local_mr(n, pd_key, mr_key) \in Handle
      BY <1>0, <3>1, LocalLookup
    <3> QED
      BY <1>0, <1>2, <3>1, <3>2, SetRefines
  <2> QED
    BY <2>1, <2>2
<1>3. ASSUME NEW qp_key \in QpKey, k \in QpName,
             PushLocalQp(n, k, pd_key, qp_key)
      PROVE  R!Next \/ UNCHANGED R!vars
  <2>1. CASE AbortCore(n)
    BY <1>1, <1>3, <2>1 DEF PushLocalQp
  <2>2. CASE ~AbortCore(n)
    <3>1. /\ Running(n) /\ HasQp(n, pd_key, qp_key)
          /\ set(n, k, <<n, local_qp(n, pd_key, qp_key)>>)
          /\ UNCHANGED <<proc, obj, remoteMr, remoteQp>>
      BY <1>3, <2>2 DEF PushLocalQp
    <3>2. local_qp(n, pd_key, qp_key) \in Handle
      BY <1>0, <3>1, LocalLookup
    <3> QED
      BY <1>0, <1>3, <3>1, <3>2, SetRefines
  <2> QED
    BY <2>1, <2>2
<1> QED
  BY <1>2, <1>3

\* The first fetch of a key learns it; a later one is no step.
LEMMA FetchRefines ==
    ASSUME CoreInv, NEW n \in Node, NEW k,
           \/ k \in MrName /\ FetchRemoteMr(n, k)
           \/ k \in QpName /\ FetchRemoteQp(n, k)
    PROVE  R!Next \/ UNCHANGED R!vars
<1>0. TypeOK /\ LocalTypeOK /\ Tables /\ Tables'
  BY FetchType, TablesType, TablesTypeNext DEF CoreInv, TypeOK
<1>1. PICK kind \in {"rmr", "rqp"}, h \in Fresh(n) :
        /\ kind = "rmr" => /\ k \in MrName
                           /\ remoteMr' = [remoteMr EXCEPT
                                ![n] = register_resrc(@, k, h)]
                           /\ UNCHANGED remoteQp
        /\ kind = "rqp" => /\ k \in QpName
                           /\ remoteQp' = [remoteQp EXCEPT
                                ![n] = register_resrc(@, k, h)]
                           /\ UNCHANGED remoteMr
        /\ Store(n, h, NewRemote(kind, memc[k]))
  BY DEF FetchRemoteMr, FetchRemoteQp
<1>2. /\ Running(n) /\ UNCHANGED <<proc, memc>>
      /\ k \in MrName \cup QpName /\ memc[k] \in Info
  BY <1>0 DEF FetchRemoteMr, FetchRemoteQp, TypeOK
<1>3. /\ h \in Handle /\ h # nullptr /\ obj[n][h].kind = "free"
      /\ obj'[n][h].kind = kind /\ obj'[n][h].peer = memc[k]
      /\ \A g \in Handle \ {h} : obj'[n][g] = obj[n][g]
      /\ \A m \in Node \ {n} : obj'[m] = obj[m]
  BY <1>0, <1>1, <1>2, StoreFresh, NewRemoteType, NullAssumption
<1>4. \A m \in Node : LinkStays(m)
  BY <1>3 DEF LinkStays, LinkOf
<1>5. \A m \in Node, g \in Handle :
        obj[m][g].kind \in {"rmr", "rqp"} => obj'[m][g].peer = obj[m][g].peer
  BY <1>3
<1>6. \A m \in Node :
        /\ \A j \in MrName : remoteMr'[m][j] = remoteMr[m][j] =>
                                KnownMr(m, j)' = KnownMr(m, j)
        /\ \A j \in QpName : remoteQp'[m][j] = remoteQp[m][j] =>
                                KnownQp(m, j)' = KnownQp(m, j)
  BY <1>5, WrappersKeepKnown
<1>7. absAlive' = absAlive /\ absLink' = absLink /\ n \in absAlive
  BY <1>2, <1>4 DEF absAlive, Running, absLink, LinkStays, LinkOf
<1>8. CASE UNCHANGED <<remoteMr, remoteQp>>
  <2>1. \A m \in Node : KnownStays(m)
    BY <1>6, <1>8 DEF KnownStays
  <2> QED
    BY <1>2, <1>4, <2>1, AbstractStutter
<1>9. ASSUME kind = "rmr", remoteMr[n][k] = nullptr
      PROVE  R!Next
  <2>1. /\ remoteMr'[n][k] = h
        /\ \A m \in Node, j \in MrName :
             m # n \/ j # k => remoteMr'[m][j] = remoteMr[m][j]
        /\ UNCHANGED remoteQp
    BY <1>0, <1>1, <1>9 DEF TypeOK, register_resrc, is_registered
  <2>2. /\ KnownMr(n, k) = nullptr /\ KnownMr(n, k)' = memc[k]
        /\ \A m \in Node, j \in MrName :
             m # n \/ j # k => KnownMr(m, j)' = KnownMr(m, j)
        /\ \A m \in Node, j \in QpName : KnownQp(m, j)' = KnownQp(m, j)
    BY <1>3, <1>6, <1>9, <2>1 DEF KnownMr
  <2>3. absKnown' = [absKnown EXCEPT ![n][k] = memc[k]]
    <3>1. \A m \in Node, j \in MrName \cup QpName :
            m # n \/ j # k => absKnown'[m][j] = absKnown[m][j]
      BY <1>0, <2>2 DEF Tables
    <3>2. absKnown'[n][k] = memc[k]
      BY <1>0, <1>1, <1>2, <1>9, <2>2 DEF Tables
    <3> QED
      BY <1>0, <1>2, <3>1, <3>2, OneEntryChanged DEF Tables
  <2>4. absKnown[n][k] = nullptr
    BY <1>1, <1>2, <1>9, <2>2 DEF absKnown
  <2>5. R!Learn(n, k)
    BY <1>2, <1>7, <2>3, <2>4 DEF R!Learn
  <2> QED
    BY <1>2, <2>5 DEF R!Next
<1>10. ASSUME kind = "rqp", remoteQp[n][k] = nullptr
       PROVE  R!Next
  <2>1. /\ remoteQp'[n][k] = h
        /\ \A m \in Node, j \in QpName :
             m # n \/ j # k => remoteQp'[m][j] = remoteQp[m][j]
        /\ UNCHANGED remoteMr
    BY <1>0, <1>1, <1>10 DEF TypeOK, register_resrc, is_registered
  <2>2. /\ KnownQp(n, k) = nullptr /\ KnownQp(n, k)' = memc[k]
        /\ \A m \in Node, j \in QpName :
             m # n \/ j # k => KnownQp(m, j)' = KnownQp(m, j)
        /\ \A m \in Node, j \in MrName : KnownMr(m, j)' = KnownMr(m, j)
    BY <1>3, <1>6, <1>10, <2>1 DEF KnownQp
  <2>3. k \notin MrName
    BY <1>1, <1>10, KeyAssumption
  <2>4. absKnown' = [absKnown EXCEPT ![n][k] = memc[k]]
    <3>1. \A m \in Node, j \in MrName \cup QpName :
            m # n \/ j # k => absKnown'[m][j] = absKnown[m][j]
      BY <1>0, <2>2 DEF Tables
    <3>2. absKnown'[n][k] = memc[k]
      BY <1>0, <1>1, <1>2, <1>10, <2>2 DEF Tables
    <3> QED
      BY <1>0, <1>2, <3>1, <3>2, OneEntryChanged DEF Tables
  <2>5. absKnown[n][k] = nullptr
    BY <1>1, <1>2, <1>10, <2>2, <2>3 DEF absKnown
  <2>6. R!Learn(n, k)
    BY <1>2, <1>7, <2>4, <2>5 DEF R!Learn
  <2> QED
    BY <1>2, <2>6 DEF R!Next
<1>11. \/ kind = "rmr" /\ remoteMr[n][k] = nullptr
       \/ kind = "rqp" /\ remoteQp[n][k] = nullptr
       \/ UNCHANGED <<remoteMr, remoteQp>>
  BY <1>0, <1>1 DEF TypeOK, register_resrc, is_registered
<1> QED
  BY <1>8, <1>9, <1>10, <1>11

\* A connection links, or is no step.
LEMMA ConnectRefines ==
    ASSUME CoreInv, NEW n \in Node, Running(n), NEW h \in Handle,
           NEW k \in QpName, obj[n][h].kind = "qp",
           is_registered(remoteQp[n], k), RemoteInfo(n, k) \in Info,
           ConnectEffect(n, h, k)
    PROVE  R!Next \/ UNCHANGED R!vars
<1>0. TypeOK /\ LocalTypeOK /\ Tables /\ Tables'
  BY ConnectEffectType, TablesType, TablesTypeNext DEF CoreInv, TypeOK
<1>1. UNCHANGED <<proc, memc, remoteMr, remoteQp>>
  BY DEF ConnectEffect
<1>2. CASE UNCHANGED obj
  BY <1>1, <1>2, AbstractStutter
     DEF KnownStays, LinkStays, KnownMr, KnownQp, LinkOf
<1>3. ASSUME CanMove(n, h, "RTR"), NEW state \in {"RTR", "RTS"},
             Store(n, h, [obj[n][h] EXCEPT !.state = state,
                                           !.peer = RemoteInfo(n, k)])
      PROVE  R!Next
  <2>1. obj[n][h] \in Object /\ obj \in [Node -> [Handle -> Object]]
    BY <1>0 DEF LocalTypeOK
  <2>2. obj'[n][h].kind = "qp" /\ obj'[n][h].peer = RemoteInfo(n, k)
    BY <1>3, <2>1 DEF Store, Object
  <2>3. \A m \in Node, g \in Handle :
          m # n \/ g # h => obj'[m][g] = obj[m][g]
    BY <1>3, <2>1 DEF Store
  <2>4. \A m \in Node, g \in Handle :
          obj[m][g].kind \in {"rmr", "rqp"} => obj'[m][g].peer = obj[m][g].peer
    BY <2>3
  <2>5. \A m \in Node : KnownStays(m)
    BY <1>1, <2>4, WrappersKeepKnown DEF KnownStays
  <2>6. absAlive' = absAlive /\ absKnown' = absKnown /\ n \in absAlive
    BY <1>1, <2>5 DEF absAlive, Running, absKnown, KnownStays
  <2>7. obj[n][h].peer = nullptr
    BY <1>3, PeerMeansConnected DEF CanMove, QpMove
  <2>8. k \notin MrName
    BY KeyAssumption
  <2>9. absKnown[n][k] = RemoteInfo(n, k) /\ absKnown[n][k] # nullptr
    BY <2>8, NullAssumption
       DEF absKnown, KnownQp, RemoteInfo, get_resrc, is_registered, Info
  <2>10. absLink' = [absLink EXCEPT ![n][h] = absKnown[n][k]]
    <3>1. \A m \in Node, g \in Handle :
            m # n \/ g # h => absLink'[m][g] = absLink[m][g]
      <4>1. \A m \in Node, g \in Handle :
              m # n \/ g # h => LinkOf(m, g)' = LinkOf(m, g)
        BY <2>3 DEF LinkOf
      <4> QED
        BY <1>0, <4>1 DEF Tables
    <3>2. absLink'[n][h] = absKnown[n][k]
      <4>1. absLink'[n][h] = LinkOf(n, h)'
        BY <1>0 DEF Tables
      <4>2. LinkOf(n, h)' = RemoteInfo(n, k)
        BY <2>2 DEF LinkOf
      <4> QED
        BY <2>9, <4>1, <4>2
    <3> QED
      BY <1>0, <3>1, <3>2, OneEntryChanged DEF Tables
  <2>11. absLink[n][h] = nullptr
    BY <2>7 DEF absLink
  <2>12. R!Link(n, h, k)
    BY <1>1, <2>6, <2>9, <2>10, <2>11 DEF R!Link
  <2> QED
    BY <2>12 DEF R!Next
<1> QED
  BY <1>2, <1>3 DEF ConnectEffect

\* Every step of the core is a step of Rendezvous or a stutter.
LEMMA StepRefines == CoreInv /\ [Next]_vars => [R!Next]_(R!vars)
<1> SUFFICES ASSUME CoreInv, [Next]_vars PROVE R!Next \/ UNCHANGED R!vars
  OBVIOUS
<1>1. ASSUME NEW n \in Node, Step(n) PROVE R!Next \/ UNCHANGED R!vars
  <2>1. CASE LocalCall(n)
    BY <2>1, LocalCallRefines
  <2>2. ASSUME NEW k \in MrName, NEW pd_key \in PdKey, NEW mr_key \in MrKey,
               PushLocalMr(n, k, pd_key, mr_key)
        PROVE  R!Next \/ UNCHANGED R!vars
    BY <2>2, PushRefines
  <2>3. ASSUME NEW k \in QpName, NEW pd_key \in PdKey, NEW qp_key \in QpKey,
               PushLocalQp(n, k, pd_key, qp_key)
        PROVE  R!Next \/ UNCHANGED R!vars
    BY <2>3, PushRefines
  <2>4. ASSUME NEW k \in MrName, FetchRemoteMr(n, k)
        PROVE  R!Next \/ UNCHANGED R!vars
    BY <2>4, FetchRefines
  <2>5. ASSUME NEW k \in QpName, FetchRemoteQp(n, k)
        PROVE  R!Next \/ UNCHANGED R!vars
    BY <2>5, FetchRefines
  <2>6. ASSUME NEW k \in QpName, NEW pd_key \in PdKey, NEW qp_key \in QpKey,
               ConnectLocalQp(n, pd_key, qp_key, k)
        PROVE  R!Next \/ UNCHANGED R!vars
    <3>1. Running(n) /\ TypeOK
      BY <2>6 DEF ConnectLocalQp, CoreInv
    <3>2. CASE AbortCore(n)
      BY <3>1, <3>2, AbstractEnd DEF AbortCore, Abort
    <3>3. CASE ~AbortCore(n)
      BY <2>6, <3>1, <3>3, ConnectCases, ConnectRefines
    <3> QED
      BY <3>2, <3>3
  <2> QED
    BY <1>1, <2>1, <2>2, <2>3, <2>4, <2>5, <2>6 DEF Step
<1>2. ASSUME NEW k \in MrName \cup QpName, Evict(k) PROVE R!Next
  <2>1. UNCHANGED <<absAlive, absKnown, absLink>>
    BY <1>2 DEF Evict, absAlive, absKnown, absLink, Running, KnownMr, KnownQp
  <2>2. R!Lose(k)
    BY <1>2, <2>1 DEF Evict, R!Lose
  <2> QED
    BY <2>2 DEF R!Next
<1>3. CASE UNCHANGED vars
  <2>1. \A m \in Node : KnownStays(m) /\ LinkStays(m)
    BY <1>3 DEF vars, KnownStays, LinkStays, KnownMr, KnownQp, LinkOf
  <2> QED
    BY <1>3, <2>1, AbstractStutter DEF vars
<1> QED
  BY <1>1, <1>2, <1>3 DEF Next

\* The initial states are those of Rendezvous.
LEMMA InitRefines == Init => R!Init
<1> SUFFICES ASSUME Init PROVE R!Init
  OBVIOUS
<1>1. absAlive = Node
  BY DEF Init, LocalInit, absAlive, Running
<1>2. \A n \in Node : /\ \A k \in MrName : KnownMr(n, k) = nullptr
                      /\ \A k \in QpName : KnownQp(n, k) = nullptr
  BY DEF Init, EmptyCache, KnownMr, KnownQp
<1>3. \A n \in Node, h \in Handle : obj[n][h].kind = "free"
  BY DEF Init, LocalInit, NoObjects, Blank
<1>4. absKnown = [n \in Node |-> [k \in MrName \cup QpName |-> nullptr]]
  BY <1>2 DEF absKnown
<1>5. absLink = [n \in Node |-> [h \in Handle |-> nullptr]]
  BY <1>3 DEF absLink
<1> QED
  BY <1>1, <1>4, <1>5 DEF R!Init, Init, EmptyCache

\* The exchange and connection calls implement the rendezvous: whatever the
\* processes call and whatever fails, a process learns a key once and from the
\* server, and a queue pair is linked once and to what its process learned.
THEOREM RendezvousCorrect == Spec => ImplementsRendezvous
  BY InitRefines, StepRefines, CoreInvariant, PTL DEF Spec, ImplementsRendezvous, R!Spec

=============================================================================

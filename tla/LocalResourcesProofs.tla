------------------------- MODULE LocalResourcesProofs -------------------------
(***************************************************************************)
(* Theorems about the resources of a process, for every set of nodes,      *)
(* addresses and names and every choice of the calls that may fail.        *)
(***************************************************************************)
EXTENDS LocalResources, TLAPS

-----------------------------------------------------------------------------
(* The cache operators.                                                    *)

\* Registering an address keeps a cache a cache.
LEMMA RegisterType ==
    ASSUME NEW Key, NEW S, NEW cache \in [Key -> S], NEW k \in Key, NEW v \in S
    PROVE  register_resrc(cache, k, v) \in [Key -> S]
  BY DEF register_resrc

\* After a registration the key is bound, to what it was bound to before if
\* it was, and no other key changes: the map never rebinds.
LEMMA RegisterKeeps ==
    ASSUME NEW Key, NEW S, NEW cache \in [Key -> S], NEW k \in Key, NEW v
    PROVE  \A j \in Key :
             get_resrc(register_resrc(cache, k, v), j) =
               IF j = k /\ ~is_registered(cache, k) THEN v
                                                    ELSE get_resrc(cache, j)
  BY DEF register_resrc, is_registered, get_resrc

\* An empty cache has the type of a cache.
LEMMA EmptyType ==
    ASSUME NEW Key
    PROVE  EmptyCache(Key) \in [Key -> Address]
  BY DEF EmptyCache, Address

-----------------------------------------------------------------------------
(* Type correctness.                                                       *)

\* A cleared wrapper of any kind is an object.
LEMMA BlankType ==
    \A kind \in {"free", "dead", "pd", "mr", "cq", "qp", "rmr", "rqp"} :
        Blank(kind) \in Object
  BY DEF Blank, Object, Address

\* So are the wrappers the constructors make.
LEMMA NewTypes ==
    ASSUME NEW p \in Handle, NEW s \in Handle, NEW r \in Handle,
           NEW key \in Name, NEW made \in BOOLEAN
    PROVE  /\ NewPd(key) \in Object
           /\ NewMr(p, key, made) \in Object
           /\ NewCq(key, made) \in Object
           /\ NewQp(p, key, s, r) \in Object
  BY DEF NewPd, NewMr, NewCq, NewQp, Blank, Object, Address, QpState

\* The initial states are well typed.
LEMMA LocalInitType == LocalInit => LocalTypeOK
  BY BlankType, EmptyType DEF LocalInit, LocalTypeOK, NoObjects, NoSubcaches

\* The end of a process leaves everything well typed.
LEMMA EndType ==
    ASSUME LocalTypeOK, NEW n \in Node, NEW why \in {"aborted", "killed"},
           End(n, why)
    PROVE  LocalTypeOK'
  BY BlankType, EmptyType DEF LocalTypeOK, End, NoSubcaches

\* Storing a well-typed object keeps obj well typed.
LEMMA StoreType ==
    ASSUME LocalTypeOK, NEW n \in Node, NEW h \in Handle, NEW o \in Object,
           Store(n, h, o)
    PROVE  obj' \in [Node -> [Handle -> Object]]
  BY DEF LocalTypeOK, Store

\* Returning keeps ret well typed.
LEMMA ReturnType ==
    ASSUME LocalTypeOK, NEW n \in Node, NEW b, Return(n, b)
    PROVE  ret' \in [Node -> {"none", "true", "false"}]
  BY DEF LocalTypeOK, Return

\* No call of a process, and no failure of one, spoils the types.
LEMMA LocalStepType ==
    ASSUME LocalTypeOK, NEW n \in Node, LocalStep(n)
    PROVE  LocalTypeOK'
<1>1. ASSUME NEW pd_key \in PdKey, CreateLocalPd(n, pd_key)
      PROVE  LocalTypeOK'
  <2>1. CASE Abort(n)
    BY <2>1, EndType DEF Abort
  <2>2. ASSUME NEW h \in Fresh(n),
               Store(n, h, NewPd(pd_key)),
               pdCache' = [pdCache EXCEPT ![n] = register_resrc(@, pd_key, h)],
               Return(n, ~is_registered(pdCache[n], pd_key)),
               UNCHANGED <<proc, launch, cqCache, mrCache, qpCache>>
        PROVE  LocalTypeOK'
    <3>1. h \in Handle /\ h \in Address
      BY DEF Fresh, Address
    <3>2. NewPd(pd_key) \in Object
      BY <3>1, NewTypes DEF Name
    <3>3. obj' \in [Node -> [Handle -> Object]]
      BY <2>2, <3>1, <3>2, StoreType
    <3>4. ret' \in [Node -> {"none", "true", "false"}]
      BY <2>2, ReturnType
    <3>5. pdCache' \in [Node -> [PdKey -> Address]]
      BY <2>2, <3>1, RegisterType DEF LocalTypeOK
    <3> QED
      BY <2>2, <3>3, <3>4, <3>5 DEF LocalTypeOK
  <2> QED
    BY <1>1, <2>1, <2>2 DEF CreateLocalPd
<1>2. ASSUME NEW pd_key \in PdKey, NEW mr_key \in MrKey,
             CreateLocalMr(n, pd_key, mr_key)
      PROVE  LocalTypeOK'
  <2>1. CASE Abort(n)
    BY <2>1, EndType DEF Abort
  <2>2. ASSUME NEW h \in Fresh(n), NEW made \in {TRUE, FALSE},
               NEW p, p = local_pd(n, pd_key), HasPd(n, pd_key),
               Store(n, h, NewMr(p, mr_key, made)),
               mrCache' =
                 [mrCache EXCEPT ![n][p] = register_resrc(@, mr_key, h)],
               Return(n, made /\ ~HasMr(n, pd_key, mr_key)),
               UNCHANGED <<proc, launch, pdCache, cqCache, qpCache>>
        PROVE  LocalTypeOK'
    <3>1. h \in Handle /\ h \in Address
      BY DEF Fresh, Address
    <3>2. p \in Handle
      BY <2>2 DEF HasPd, local_pd, get_resrc, LocalTypeOK, Address
    <3>3. NewMr(p, mr_key, made) \in Object
      BY <3>1, <3>2, NewTypes DEF Name
    <3>4. obj' \in [Node -> [Handle -> Object]]
      BY <2>2, <3>1, <3>3, StoreType
    <3>5. ret' \in [Node -> {"none", "true", "false"}]
      BY <2>2, ReturnType
    <3>6. register_resrc(mrCache[n][p], mr_key, h) \in [MrKey -> Address]
      <4>1. mrCache[n][p] \in [MrKey -> Address]
        BY <3>2 DEF LocalTypeOK
      <4> QED
        BY <4>1, <3>1, RegisterType
    <3>7. mrCache' \in [Node -> [Handle -> [MrKey -> Address]]]
      BY <2>2, <3>2, <3>6 DEF LocalTypeOK
    <3> QED
      BY <2>2, <3>4, <3>5, <3>7 DEF LocalTypeOK
  <2> QED
    BY <1>2, <2>1, <2>2 DEF CreateLocalMr
<1>3. ASSUME NEW cq_key \in CqKey, CreateBasicCq(n, cq_key)
      PROVE  LocalTypeOK'
  <2>1. PICK h \in Fresh(n), made \in {TRUE, FALSE} :
               /\ Store(n, h, NewCq(cq_key, made))
               /\ cqCache' =
                    [cqCache EXCEPT ![n] = register_resrc(@, cq_key, h)]
               /\ Return(n, ~is_registered(cqCache[n], cq_key))
               /\ UNCHANGED <<proc, launch, pdCache, mrCache, qpCache>>
    BY <1>3 DEF CreateBasicCq
  <2>2. h \in Handle /\ h \in Address
    BY DEF Fresh, Address
  <2>3. NewCq(cq_key, made) \in Object
    BY <2>2, NewTypes DEF Name
  <2>4. obj' \in [Node -> [Handle -> Object]]
    BY <2>1, <2>2, <2>3, StoreType
  <2>5. ret' \in [Node -> {"none", "true", "false"}]
    BY <2>1, ReturnType
  <2>6. cqCache' \in [Node -> [CqKey -> Address]]
    BY <2>1, <2>2, RegisterType DEF LocalTypeOK
  <2> QED
    BY <2>1, <2>4, <2>5, <2>6 DEF LocalTypeOK
<1>4. ASSUME NEW pd_key \in PdKey, NEW qp_key \in QpKey,
             NEW scq \in CqKey, NEW rcq \in CqKey,
             CreateLocalQp(n, pd_key, qp_key, scq, rcq)
      PROVE  LocalTypeOK'
  <2>1. CASE Abort(n)
    BY <2>1, EndType DEF Abort
  <2>2. ASSUME NEW h \in Fresh(n), NEW p, p = local_pd(n, pd_key),
               NEW s, s = get_resrc(cqCache[n], scq),
               NEW r, r = get_resrc(cqCache[n], rcq),
               HasPd(n, pd_key), UsableCq(n, scq), UsableCq(n, rcq),
               Store(n, h, NewQp(p, qp_key, s, r)),
               qpCache' =
                 [qpCache EXCEPT ![n][p] = register_resrc(@, qp_key, h)],
               Return(n, ~HasQp(n, pd_key, qp_key)),
               UNCHANGED <<proc, launch, pdCache, cqCache, mrCache>>
        PROVE  LocalTypeOK'
    <3>1. h \in Handle /\ h \in Address
      BY DEF Fresh, Address
    <3>2. p \in Handle /\ s \in Handle /\ r \in Handle
      BY <2>2 DEF HasPd, UsableCq, is_registered, local_pd, get_resrc,
                  LocalTypeOK, Address
    <3>3. NewQp(p, qp_key, s, r) \in Object
      BY <3>2, NewTypes DEF Name
    <3>4. obj' \in [Node -> [Handle -> Object]]
      BY <2>2, <3>1, <3>3, StoreType
    <3>5. ret' \in [Node -> {"none", "true", "false"}]
      BY <2>2, ReturnType
    <3>6. register_resrc(qpCache[n][p], qp_key, h) \in [QpKey -> Address]
      <4>1. qpCache[n][p] \in [QpKey -> Address]
        BY <3>2 DEF LocalTypeOK
      <4> QED
        BY <4>1, <3>1, RegisterType
    <3>7. qpCache' \in [Node -> [Handle -> [QpKey -> Address]]]
      BY <2>2, <3>2, <3>6 DEF LocalTypeOK
    <3> QED
      BY <2>2, <3>4, <3>5, <3>7 DEF LocalTypeOK
  <2> QED
    BY <1>4, <2>1, <2>2 DEF CreateLocalQp
<1>5. ASSUME NEW pd_key \in PdKey, NEW qp_key \in QpKey,
             InitLocalQp(n, pd_key, qp_key)
      PROVE  LocalTypeOK'
  <2>1. CASE Abort(n)
    BY <2>1, EndType DEF Abort
  <2>2. CASE ~Abort(n)
    <3> DEFINE h == local_qp(n, pd_key, qp_key)
    <3>1. /\ \/ /\ Store(n, h, [obj[n][h] EXCEPT !.state = "INIT"])
                /\ Return(n, TRUE)
             \/ /\ UNCHANGED obj
                /\ Return(n, FALSE)
          /\ UNCHANGED <<proc, launch, pdCache, cqCache, mrCache, qpCache>>
          /\ HasQp(n, pd_key, qp_key)
      BY <1>5, <2>2 DEF InitLocalQp
    <3>2. h \in Handle
      BY <3>1 DEF HasQp, HasPd, local_qp, local_pd, get_resrc, LocalTypeOK,
                  Address
    <3>3. obj' \in [Node -> [Handle -> Object]]
      <4> HIDE DEF h
      <4>1. obj[n][h] \in Object
        BY <3>2 DEF LocalTypeOK
      <4>2. [obj[n][h] EXCEPT !.state = "INIT"] \in Object
        BY <4>1 DEF Object, QpState
      <4>3. CASE UNCHANGED obj
        BY <4>3 DEF LocalTypeOK
      <4>4. CASE Store(n, h, [obj[n][h] EXCEPT !.state = "INIT"])
        BY <4>4, <3>2, <4>2, StoreType
      <4> QED
        BY <3>1, <4>3, <4>4
    <3>4. ret' \in [Node -> {"none", "true", "false"}]
      BY <3>1, ReturnType
    <3> QED
      BY <3>1, <3>3, <3>4 DEF LocalTypeOK
  <2> QED
    BY <2>1, <2>2
<1>6. CASE Kill(n)
  BY <1>6, EndType DEF Kill
<1>7. CASE Relaunch(n)
  BY <1>7 DEF Relaunch, LocalTypeOK
<1> QED
  BY <1>1, <1>2, <1>3, <1>4, <1>5, <1>6, <1>7 DEF LocalStep

\* A process and its resources are always well typed, whatever calls the
\* application makes and whichever external calls fail.
THEOREM LocalTypeCorrect == LocalSpec => []LocalTypeOK
<1>1. LocalTypeOK /\ [LocalNext]_localVars => LocalTypeOK'
  <2> SUFFICES ASSUME LocalTypeOK, [LocalNext]_localVars PROVE LocalTypeOK'
    OBVIOUS
  <2>1. CASE LocalNext
    BY <2>1, LocalStepType DEF LocalNext
  <2>2. CASE UNCHANGED localVars
    BY <2>2 DEF localVars, LocalTypeOK
  <2> QED
    BY <2>1, <2>2
<1> QED
  BY LocalInitType, <1>1, PTL DEF LocalSpec

-----------------------------------------------------------------------------
(* Names never rebind.                                                     *)

\* What the calls do to one cache of a process keeps the other bindings.
LEMMA RegisterBinds ==
    ASSUME NEW Key, NEW S, NEW cache \in [Key -> S], NEW k \in Key, NEW v
    PROVE  \A j \in Key :
             cache[j] \in {nullptr, register_resrc(cache, k, v)[j]}
  BY DEF register_resrc, is_registered

\* No call of a process that lives on drops a binding of any process.
LEMMA LocalStepKeepsBindings ==
    ASSUME LocalTypeOK, NEW n \in Node, LocalStep(n), NEW m \in Node,
           Running(m), Running(m)'
    PROVE  BindingsKept(m)
<1> USE DEF BindingsKept
<1>0. ASSUME NEW why, why # "up", End(n, why)
      PROVE  BindingsKept(m)
  <2>1. m # n
    BY <1>0 DEF End, Running, LocalTypeOK
  <2> QED
    BY <1>0, <2>1 DEF End, LocalTypeOK
<1>1. CASE UNCHANGED <<pdCache, cqCache, mrCache, qpCache>>
  BY <1>1
<1>2. ASSUME NEW k \in PdKey, NEW h,
             pdCache' = [pdCache EXCEPT ![n] = register_resrc(@, k, h)],
             UNCHANGED <<cqCache, mrCache, qpCache>>
      PROVE  BindingsKept(m)
  <2>1. pdCache[n] \in [PdKey -> Address]
    BY DEF LocalTypeOK
  <2>2. \A j \in PdKey :
          pdCache[n][j] \in {nullptr, register_resrc(pdCache[n], k, h)[j]}
    BY <2>1, RegisterBinds
  <2> QED
    BY <1>2, <2>2 DEF LocalTypeOK
<1>3. ASSUME NEW k \in CqKey, NEW h,
             cqCache' = [cqCache EXCEPT ![n] = register_resrc(@, k, h)],
             UNCHANGED <<pdCache, mrCache, qpCache>>
      PROVE  BindingsKept(m)
  <2>1. cqCache[n] \in [CqKey -> Address]
    BY DEF LocalTypeOK
  <2>2. \A j \in CqKey :
          cqCache[n][j] \in {nullptr, register_resrc(cqCache[n], k, h)[j]}
    BY <2>1, RegisterBinds
  <2> QED
    BY <1>3, <2>2 DEF LocalTypeOK
<1>4. ASSUME NEW p \in Handle, NEW k \in MrKey, NEW h,
             mrCache' = [mrCache EXCEPT ![n][p] = register_resrc(@, k, h)],
             UNCHANGED <<pdCache, cqCache, qpCache>>
      PROVE  BindingsKept(m)
  <2>1. mrCache[n][p] \in [MrKey -> Address]
    BY DEF LocalTypeOK
  <2>2. \A j \in MrKey :
          mrCache[n][p][j] \in {nullptr, register_resrc(mrCache[n][p], k, h)[j]}
    BY <2>1, RegisterBinds
  <2> QED
    BY <1>4, <2>2 DEF LocalTypeOK
<1>5. ASSUME NEW p \in Handle, NEW k \in QpKey, NEW h,
             qpCache' = [qpCache EXCEPT ![n][p] = register_resrc(@, k, h)],
             UNCHANGED <<pdCache, cqCache, mrCache>>
      PROVE  BindingsKept(m)
  <2>1. qpCache[n][p] \in [QpKey -> Address]
    BY DEF LocalTypeOK
  <2>2. \A j \in QpKey :
          qpCache[n][p][j] \in {nullptr, register_resrc(qpCache[n][p], k, h)[j]}
    BY <2>1, RegisterBinds
  <2> QED
    BY <1>5, <2>2 DEF LocalTypeOK
<1>6. \A k \in PdKey : HasPd(n, k) => local_pd(n, k) \in Handle
  BY DEF HasPd, local_pd, get_resrc, LocalTypeOK, Address
<1>7. ASSUME NEW k \in PdKey, CreateLocalPd(n, k)
      PROVE  BindingsKept(m)
  BY <1>7, <1>0, <1>2 DEF CreateLocalPd, Abort
<1>8. ASSUME NEW k \in PdKey, NEW j \in MrKey, CreateLocalMr(n, k, j)
      PROVE  BindingsKept(m)
  BY <1>8, <1>0, <1>4, <1>6 DEF CreateLocalMr, Abort
<1>9. ASSUME NEW k \in CqKey, CreateBasicCq(n, k)
      PROVE  BindingsKept(m)
  BY <1>9, <1>3 DEF CreateBasicCq
<1>10. ASSUME NEW k \in PdKey, NEW j \in QpKey, NEW s \in CqKey, NEW r \in CqKey,
              CreateLocalQp(n, k, j, s, r)
       PROVE  BindingsKept(m)
  BY <1>10, <1>0, <1>5, <1>6 DEF CreateLocalQp, Abort
<1>11. ASSUME NEW k \in PdKey, NEW j \in QpKey, InitLocalQp(n, k, j)
       PROVE  BindingsKept(m)
  BY <1>11, <1>0, <1>1 DEF InitLocalQp, Abort
<1>12. CASE Kill(n)
  BY <1>12, <1>0 DEF Kill
<1>13. CASE Relaunch(n)
  BY <1>13, <1>1 DEF Relaunch
<1> QED
  BY <1>7, <1>8, <1>9, <1>10, <1>11, <1>12, <1>13 DEF LocalStep

\* A name never changes its meaning while the process lives.
THEOREM BindingsStableCorrect == LocalSpec => BindingsStable
<1>1. LocalTypeOK /\ [LocalNext]_localVars =>
        [\A n \in Node : Running(n) /\ Running(n)' => BindingsKept(n)]_localVars
  BY LocalStepKeepsBindings DEF LocalNext
<1> QED
  BY <1>1, LocalTypeCorrect, PTL DEF LocalSpec, BindingsStable

-----------------------------------------------------------------------------
(* The inductive invariant.  A step either ends a process, which leaves it *)
(* with nothing, or lets it grow by at most one object.                    *)

SameObject(o, o2) ==
    /\ o2.kind = o.kind /\ o2.name = o.name /\ o2.made = o.made
    /\ o2.pd = o.pd /\ o2.send_cq = o.send_cq /\ o2.recv_cq = o.recv_cq

ProcessKept(m) ==
    /\ obj'[m] = obj[m]
    /\ pdCache'[m] = pdCache[m] /\ cqCache'[m] = cqCache[m]
    /\ mrCache'[m] = mrCache[m] /\ qpCache'[m] = qpCache[m]

\* New entries of the caches name the object at h by its class and name.
NewEntries(n, h) ==
    LET o == obj'[n][h] IN
    /\ \A k \in PdKey : \/ pdCache'[n][k] = pdCache[n][k]
                        \/ pdCache'[n][k] = h /\ o.kind = "pd" /\ o.name = k
    /\ \A k \in CqKey : \/ cqCache'[n][k] = cqCache[n][k]
                        \/ cqCache'[n][k] = h /\ o.kind = "cq" /\ o.name = k
    /\ \A p \in Handle, k \in MrKey :
         \/ mrCache'[n][p][k] = mrCache[n][p][k]
         \/ mrCache'[n][p][k] = h /\ o.kind = "mr" /\ o.name = k /\ o.pd = p
    /\ \A p \in Handle, k \in QpKey :
         \/ qpCache'[n][p][k] = qpCache[n][p][k]
         \/ qpCache'[n][p][k] = h /\ o.kind = "qp" /\ o.name = k /\ o.pd = p

\* The process n gains at most the object at h.
Grows(n, h) ==
    /\ \A m \in Node \ {n} : ProcessKept(m)
    /\ BindingsKept(n)
    /\ \A g \in Handle :
         IF obj[n][g].kind # "free" THEN SameObject(obj[n][g], obj'[n][g])
         ELSE obj'[n][g] = obj[n][g] \/ (g = h /\ h \in Fresh(n))
    /\ NewEntries(n, h)
    /\ obj[n][h].kind = "free" /\ obj'[n][h].kind # "free" =>
         /\ obj'[n][h].kind # "dead"
         /\ WellNamed(obj'[n][h])
         /\ ParentsOK(n, h)'
         /\ h \in LocalObjects(n)' => EntryOf(n, h)' # nullptr

\* Gaining or updating one object keeps the invariant.
LEMMA GrowsKeepsInv ==
    ASSUME LocalInv, LocalTypeOK', NEW n \in Node, NEW h \in Handle, Grows(n, h)
    PROVE  LocalInv'
<1>1. AllocatedInOrder'
  <2> SUFFICES ASSUME NEW m \in Node, NEW f \in Handle, NEW g \in Handle,
                      obj'[m][f].kind # "free", obj'[m][g].kind = "free"
               PROVE  f < g
    BY DEF AllocatedInOrder
  <2>1. CASE m # n
    BY <2>1 DEF Grows, ProcessKept, LocalInv, AllocatedInOrder
  <2>2. CASE m = n
    <3>1. obj[n][g].kind = "free"
      BY <2>2 DEF Grows, SameObject
    <3>2. CASE obj[n][f].kind # "free"
      BY <2>2, <3>1, <3>2 DEF LocalInv, AllocatedInOrder
    <3>3. CASE obj[n][f].kind = "free"
      <4>1. f = h /\ h \in Fresh(n)
        BY <2>2, <3>3 DEF Grows
      <4>2. f <= g /\ f # g
        BY <2>2, <3>1, <4>1 DEF Fresh
      <4> QED
        BY <4>2, HandleAssumption
    <3> QED
      BY <3>2, <3>3
  <2> QED
    BY <2>1, <2>2
<1>2. ObjectsNamed'
  <2> SUFFICES ASSUME NEW m \in Node, NEW g \in Handle
               PROVE  WellNamed(obj'[m][g])
    BY DEF ObjectsNamed
  <2>1. WellNamed(obj[m][g])
    BY DEF LocalInv, ObjectsNamed
  <2>2. CASE m # n
    BY <2>1, <2>2 DEF Grows, ProcessKept
  <2>3. CASE m = n /\ obj[n][g].kind # "free"
    BY <2>1, <2>3 DEF Grows, SameObject, WellNamed
  <2>4. CASE m = n /\ obj[n][g].kind = "free"
    BY <2>1, <2>4 DEF Grows, WellNamed
  <2> QED
    BY <2>2, <2>3, <2>4
<1>3. \A m \in Node : PdEntriesOK(m)' /\ CqEntriesOK(m)'
  <2> SUFFICES ASSUME NEW m \in Node
               PROVE  PdEntriesOK(m)' /\ CqEntriesOK(m)'
    OBVIOUS
  <2>1. PdEntriesOK(m) /\ CqEntriesOK(m)
    BY DEF LocalInv, CachesNameLiveObjects
  <2>2. CASE m # n
    BY <2>1, <2>2 DEF Grows, ProcessKept, PdEntriesOK, CqEntriesOK
  <2>3. CASE m = n
    <3>1. ASSUME NEW k \in PdKey, pdCache'[n][k] # nullptr
          PROVE  obj'[n][pdCache'[n][k]].kind = "pd"
                 /\ obj'[n][pdCache'[n][k]].name = k
      <4>1. pdCache'[n][k] \in Handle
        BY <3>1 DEF LocalTypeOK, Address
      <4> QED
        BY <2>1, <2>3, <3>1, <4>1
           DEF Grows, NewEntries, PdEntriesOK, SameObject
    <3>2. ASSUME NEW k \in CqKey, cqCache'[n][k] # nullptr
          PROVE  obj'[n][cqCache'[n][k]].kind = "cq"
                 /\ obj'[n][cqCache'[n][k]].name = k
      <4>1. cqCache'[n][k] \in Handle
        BY <3>2 DEF LocalTypeOK, Address
      <4> QED
        BY <2>1, <2>3, <3>2, <4>1
           DEF Grows, NewEntries, CqEntriesOK, SameObject
    <3> QED
      BY <2>3, <3>1, <3>2 DEF PdEntriesOK, CqEntriesOK
  <2> QED
    BY <2>2, <2>3
<1>4. \A m \in Node : MrEntriesOK(m)' /\ QpEntriesOK(m)'
  <2> SUFFICES ASSUME NEW m \in Node
               PROVE  MrEntriesOK(m)' /\ QpEntriesOK(m)'
    OBVIOUS
  <2>1. MrEntriesOK(m) /\ QpEntriesOK(m)
    BY DEF LocalInv, CachesNameLiveObjects
  <2>2. CASE m # n
    BY <2>1, <2>2 DEF Grows, ProcessKept, MrEntriesOK, QpEntriesOK
  <2>3. CASE m = n
    <3>1. ASSUME NEW p \in Handle, NEW k \in MrKey, mrCache'[n][p][k] # nullptr
          PROVE  LET o == obj'[n][mrCache'[n][p][k]] IN
                 o.kind = "mr" /\ o.name = k /\ o.pd = p
      <4> DEFINE e == mrCache'[n][p][k]
      <4>1. e \in Handle
        BY <3>1 DEF LocalTypeOK, Address
      <4>2. CASE e = mrCache[n][p][k]
        <5>1. LET o == obj[n][e] IN
              o.kind = "mr" /\ o.name = k /\ o.pd = p
          BY <2>1, <2>3, <3>1, <4>2 DEF MrEntriesOK
        <5>2. SameObject(obj[n][e], obj'[n][e])
          BY <4>1, <5>1 DEF Grows
        <5> QED
          BY <5>1, <5>2 DEF SameObject
      <4>3. CASE e # mrCache[n][p][k]
        BY <4>3 DEF Grows, NewEntries
      <4> QED
        BY <4>2, <4>3
    <3>2. ASSUME NEW p \in Handle, NEW k \in QpKey, qpCache'[n][p][k] # nullptr
          PROVE  LET o == obj'[n][qpCache'[n][p][k]] IN
                 o.kind = "qp" /\ o.name = k /\ o.pd = p
      <4> DEFINE e == qpCache'[n][p][k]
      <4>1. e \in Handle
        BY <3>2 DEF LocalTypeOK, Address
      <4>2. CASE e = qpCache[n][p][k]
        <5>1. LET o == obj[n][e] IN
              o.kind = "qp" /\ o.name = k /\ o.pd = p
          BY <2>1, <2>3, <3>2, <4>2 DEF QpEntriesOK
        <5>2. SameObject(obj[n][e], obj'[n][e])
          BY <4>1, <5>1 DEF Grows
        <5> QED
          BY <5>1, <5>2 DEF SameObject
      <4>3. CASE e # qpCache[n][p][k]
        BY <4>3 DEF Grows, NewEntries
      <4> QED
        BY <4>2, <4>3
    <3> QED
      BY <2>3, <3>1, <3>2 DEF MrEntriesOK, QpEntriesOK
  <2> QED
    BY <2>2, <2>3
<1>5. ASSUME NEW m \in Node, NEW g \in Handle
      PROVE  ParentsOK(m, g)'
  <2>1. ParentsOK(m, g)
    BY DEF LocalInv, CachesNameLiveObjects
  <2>2. CASE m # n
    BY <2>1, <2>2 DEF Grows, ProcessKept, ParentsOK
  <2>3. CASE m = n /\ obj[n][g].kind # "free"
    <3>1. SameObject(obj[n][g], obj'[n][g])
      BY <2>3 DEF Grows
    <3>2. obj[n][g] \in Object
      BY DEF LocalInv, LocalTypeOK
    <3>3. ASSUME obj[n][g].kind \in {"mr", "qp"}
          PROVE  LET p == obj'[n][g].pd IN
                 /\ p # nullptr /\ obj'[n][p].kind = "pd"
                 /\ pdCache'[n][obj'[n][p].name] = p
      <4>1. obj[n][g].pd \in Handle
        BY <2>1, <2>3, <3>2, <3>3 DEF ParentsOK, Object, Address
      <4>2. WellNamed(obj[n][obj[n][g].pd])
        BY <4>1 DEF LocalInv, ObjectsNamed
      <4> DEFINE p == obj[n][g].pd
      <4>3. /\ p # nullptr /\ obj[n][p].kind = "pd"
            /\ pdCache[n][obj[n][p].name] = p
        BY <2>1, <2>3, <3>3 DEF ParentsOK
      <4>4. SameObject(obj[n][p], obj'[n][p])
        BY <4>1, <4>3 DEF Grows
      <4>5. obj[n][p].name \in PdKey
        BY <4>2, <4>3 DEF WellNamed
      <4>6. pdCache'[n][obj[n][p].name] = p
        BY <4>3, <4>5 DEF Grows, BindingsKept
      <4>7. obj'[n][g].pd = p
        BY <3>1 DEF SameObject
      <4> QED
        BY <4>3, <4>4, <4>6, <4>7 DEF SameObject
    <3>4. ASSUME obj[n][g].kind = "qp",
                 NEW c \in {obj'[n][g].send_cq, obj'[n][g].recv_cq}
          PROVE  /\ c # nullptr /\ obj'[n][c].kind = "cq" /\ obj'[n][c].made
                 /\ cqCache'[n][obj'[n][c].name] = c
      <4>1. c \in {obj[n][g].send_cq, obj[n][g].recv_cq}
        BY <3>1 DEF SameObject
      <4>2. /\ c # nullptr /\ obj[n][c].kind = "cq" /\ obj[n][c].made
            /\ cqCache[n][obj[n][c].name] = c
        BY <2>1, <2>3, <3>4, <4>1 DEF ParentsOK
      <4>3. c \in Handle
        BY <3>2, <4>1, <4>2 DEF Object, Address
      <4>4. WellNamed(obj[n][c])
        BY <4>3 DEF LocalInv, ObjectsNamed
      <4> QED
        BY <4>2, <4>3, <4>4 DEF Grows, SameObject, BindingsKept, WellNamed
    <3> QED
      BY <2>3, <3>1, <3>3, <3>4 DEF ParentsOK, SameObject
  <2>4. CASE m = n /\ obj[n][g].kind = "free"
    <3>1. CASE obj'[n][g].kind = "free"
      BY <2>4, <3>1 DEF ParentsOK
    <3>2. CASE obj'[n][g].kind # "free"
      BY <2>4, <3>2 DEF Grows
    <3> QED
      BY <3>1, <3>2
  <2> QED
    BY <2>2, <2>3, <2>4
<1>6. CachesNameLiveObjects'
  BY <1>3, <1>4, <1>5 DEF CachesNameLiveObjects
<1>7. FirstCreatedWins'
  <2> SUFFICES ASSUME NEW m \in Node, NEW g \in Handle,
                      obj'[m][g].kind \in LocalKind
               PROVE  EntryOf(m, g)' # nullptr /\ EntryOf(m, g)' <= g
    BY DEF FirstCreatedWins, LocalObjects
  <2>1. CASE m # n
    <3>1. obj[m][g].kind \in LocalKind /\ EntryOf(m, g)' = EntryOf(m, g)
      BY <2>1 DEF Grows, ProcessKept, EntryOf
    <3> QED
      BY <3>1 DEF LocalInv, FirstCreatedWins, LocalObjects
  <2>2. CASE m = n /\ obj[n][g].kind # "free"
    <3>1. SameObject(obj[n][g], obj'[n][g])
      BY <2>2 DEF Grows
    <3>2. obj[n][g].kind \in LocalKind
      BY <2>2, <3>1 DEF SameObject
    <3>3. EntryOf(n, g) # nullptr /\ EntryOf(n, g) <= g
      BY <3>2 DEF LocalInv, FirstCreatedWins, LocalObjects
    <3>4. EntryOf(n, g)' = EntryOf(n, g)
      <4>1. WellNamed(obj[n][g])
        BY DEF LocalInv, ObjectsNamed
      <4>2. obj[n][g].kind \in {"mr", "qp"} => obj[n][g].pd \in Handle
        BY DEF LocalInv, LocalTypeOK, Object, Address, CachesNameLiveObjects,
               ParentsOK
      <4>3. BindingsKept(n)
        BY DEF Grows
      <4>4. CASE obj[n][g].kind = "pd"
        BY <3>1, <3>3, <4>1, <4>3, <4>4
           DEF EntryOf, SameObject, WellNamed, BindingsKept
      <4>5. CASE obj[n][g].kind = "cq"
        BY <3>1, <3>3, <4>1, <4>3, <4>5
           DEF EntryOf, SameObject, WellNamed, BindingsKept
      <4>6. CASE obj[n][g].kind = "mr"
        BY <3>1, <3>3, <4>1, <4>2, <4>3, <4>6
           DEF EntryOf, SameObject, WellNamed, BindingsKept
      <4>7. CASE obj[n][g].kind = "qp"
        BY <3>1, <3>3, <4>1, <4>2, <4>3, <4>7
           DEF EntryOf, SameObject, WellNamed, BindingsKept
      <4> QED
        BY <3>2, <4>4, <4>5, <4>6, <4>7 DEF LocalKind
    <3> QED
      BY <2>2, <3>3, <3>4
  <2>3. CASE m = n /\ obj[n][g].kind = "free"
    <3>1. g = h /\ obj'[n][h].kind # "free"
      BY <2>3 DEF Grows, LocalKind
    <3>2. EntryOf(n, h)' # nullptr
      BY <2>3, <3>1 DEF Grows, LocalObjects
    <3>3. EntryOf(n, h)' \in Handle /\ obj'[n][EntryOf(n, h)'].kind # "free"
      <4>1. obj'[n][h].kind \in LocalKind /\ WellNamed(obj'[n][h])
        BY <2>3, <3>1 DEF Grows
      <4>2. obj'[n][h].kind \in {"mr", "qp"} => obj'[n][h].pd \in Handle
        BY <1>5, <2>3 DEF ParentsOK, LocalTypeOK, Object, Address
      <4>3. /\ PdEntriesOK(n)' /\ CqEntriesOK(n)'
            /\ MrEntriesOK(n)' /\ QpEntriesOK(n)'
        BY <1>3, <1>4
      <4>4. CASE obj'[n][h].kind = "pd"
        BY <3>2, <4>1, <4>3, <4>4
           DEF EntryOf, WellNamed, PdEntriesOK, LocalTypeOK, Address
      <4>5. CASE obj'[n][h].kind = "cq"
        BY <3>2, <4>1, <4>3, <4>5
           DEF EntryOf, WellNamed, CqEntriesOK, LocalTypeOK, Address
      <4>6. CASE obj'[n][h].kind = "mr"
        <5> DEFINE o == obj'[n][h]
        <5>1. o.pd \in Handle /\ o.name \in MrKey
          BY <4>1, <4>2, <4>6 DEF WellNamed
        <5>2. EntryOf(n, h)' = mrCache'[n][o.pd][o.name]
          BY <4>6 DEF EntryOf
        <5>3. EntryOf(n, h)' \in Handle
          BY <3>2, <5>1, <5>2 DEF LocalTypeOK, Address
        <5>4. obj'[n][EntryOf(n, h)'].kind = "mr"
          BY <3>2, <4>3, <5>1, <5>2 DEF MrEntriesOK
        <5> QED
          BY <5>3, <5>4
      <4>7. CASE obj'[n][h].kind = "qp"
        <5> DEFINE o == obj'[n][h]
        <5>1. o.pd \in Handle /\ o.name \in QpKey
          BY <4>1, <4>2, <4>7 DEF WellNamed
        <5>2. EntryOf(n, h)' = qpCache'[n][o.pd][o.name]
          BY <4>7 DEF EntryOf
        <5>3. EntryOf(n, h)' \in Handle
          BY <3>2, <5>1, <5>2 DEF LocalTypeOK, Address
        <5>4. obj'[n][EntryOf(n, h)'].kind = "qp"
          BY <3>2, <4>3, <5>1, <5>2 DEF QpEntriesOK
        <5> QED
          BY <5>3, <5>4
      <4> QED
        BY <4>1, <4>4, <4>5, <4>6, <4>7 DEF LocalKind
    <3>4. CASE EntryOf(n, h)' = h
      BY <2>3, <3>1, <3>2, <3>4, HandleAssumption
    <3>5. CASE EntryOf(n, h)' # h
      <4> DEFINE e == EntryOf(n, h)'
      <4>1. obj[n][e].kind # "free"
        BY <3>1, <3>3, <3>5 DEF Grows
      <4>2. e < h
        BY <2>3, <3>1, <3>3, <4>1 DEF LocalInv, AllocatedInOrder
      <4>3. e \in Nat /\ h \in Nat
        BY <3>3, HandleAssumption
      <4> QED
        BY <2>3, <3>1, <3>2, <4>2, <4>3
    <3> QED
      BY <3>4, <3>5
  <2> QED
    BY <2>1, <2>2, <2>3
<1> QED
  BY <1>1, <1>2, <1>6, <1>7 DEF LocalInv

\* ParentsOK reads the objects, Pds and completion queues of one process.
LEMMA SameParents ==
    ASSUME NEW m \in Node, obj'[m] = obj[m], pdCache'[m] = pdCache[m],
           cqCache'[m] = cqCache[m], NEW g, ParentsOK(m, g)
    PROVE  ParentsOK(m, g)'
<1>1. /\ obj'[m][g] = obj[m][g]
      /\ \A p : obj'[m][p] = obj[m][p] /\ pdCache'[m][p] = pdCache[m][p]
                                      /\ cqCache'[m][p] = cqCache[m][p]
  OBVIOUS
<1> QED
  BY <1>1 DEF ParentsOK

\* The invariant is about the objects and the caches only.
LEMMA SameObjectsKeepInv ==
    ASSUME LocalInv, LocalTypeOK',
           UNCHANGED <<obj, pdCache, cqCache, mrCache, qpCache>>
    PROVE  LocalInv'
<1>1. \A m \in Node, g \in Handle : ParentsOK(m, g)'
  BY SameParents DEF LocalInv, CachesNameLiveObjects
<1>2. \A m \in Node : /\ PdEntriesOK(m)' /\ CqEntriesOK(m)'
                      /\ MrEntriesOK(m)' /\ QpEntriesOK(m)'
  BY DEF LocalInv, CachesNameLiveObjects, PdEntriesOK, CqEntriesOK,
         MrEntriesOK, QpEntriesOK
<1>3. CachesNameLiveObjects'
  BY <1>1, <1>2 DEF CachesNameLiveObjects
<1>4. FirstCreatedWins'
  BY DEF LocalInv, FirstCreatedWins, LocalObjects, EntryOf
<1>5. AllocatedInOrder' /\ ObjectsNamed'
  BY DEF LocalInv, AllocatedInOrder, ObjectsNamed, WellNamed
<1> QED
  BY <1>3, <1>4, <1>5 DEF LocalInv

\* A process that ended has nothing left to be wrong about.
LEMMA EndKeepsInv ==
    ASSUME LocalInv, NEW n \in Node, NEW why \in {"aborted", "killed"},
           End(n, why)
    PROVE  LocalInv'
<1>1. LocalTypeOK'
  BY EndType DEF LocalInv
<1>2. \A m \in Node \ {n} : ProcessKept(m)
  BY DEF End, ProcessKept, LocalInv, LocalTypeOK
<1>3. \A g \in Handle :
        /\ obj'[n][g].kind \in {"free", "dead"}
        /\ obj'[n][g].kind = "free" <=> obj[n][g].kind = "free"
  BY DEF End, Blank, LocalInv, LocalTypeOK
<1>4. /\ pdCache'[n] = [k \in PdKey |-> nullptr]
      /\ cqCache'[n] = [k \in CqKey |-> nullptr]
      /\ mrCache'[n] = [p \in Handle |-> [k \in MrKey |-> nullptr]]
      /\ qpCache'[n] = [p \in Handle |-> [k \in QpKey |-> nullptr]]
  BY DEF End, LocalInv, LocalTypeOK, EmptyCache, NoSubcaches
<1>5. AllocatedInOrder'
  BY <1>2, <1>3 DEF AllocatedInOrder, LocalInv, ProcessKept
<1>6. ObjectsNamed'
  BY <1>2, <1>3 DEF ObjectsNamed, LocalInv, ProcessKept, WellNamed
<1>7. FirstCreatedWins'
  <2> SUFFICES ASSUME NEW m \in Node, NEW g \in Handle,
                      obj'[m][g].kind \in LocalKind
               PROVE  EntryOf(m, g)' # nullptr /\ EntryOf(m, g)' <= g
    BY DEF FirstCreatedWins, LocalObjects
  <2>1. m # n
    BY <1>3 DEF LocalKind
  <2>2. obj[m][g].kind \in LocalKind /\ EntryOf(m, g)' = EntryOf(m, g)
    BY <1>2, <2>1 DEF ProcessKept, EntryOf
  <2> QED
    BY <2>2 DEF LocalInv, FirstCreatedWins, LocalObjects
<1>8. CachesNameLiveObjects'
  <2> SUFFICES ASSUME NEW m \in Node
               PROVE  /\ PdEntriesOK(m)' /\ CqEntriesOK(m)'
                      /\ MrEntriesOK(m)' /\ QpEntriesOK(m)'
                      /\ \A g \in Handle : ParentsOK(m, g)'
    BY DEF CachesNameLiveObjects
  <2>1. CASE m = n
    <3>1. \A g \in Handle : ParentsOK(m, g)'
      BY <1>3, <2>1 DEF ParentsOK
    <3> QED
      BY <1>4, <2>1, <3>1
         DEF PdEntriesOK, CqEntriesOK, MrEntriesOK, QpEntriesOK
  <2>2. CASE m # n
    <3>1. PdEntriesOK(m) /\ CqEntriesOK(m) /\ MrEntriesOK(m) /\ QpEntriesOK(m)
      BY DEF LocalInv, CachesNameLiveObjects
    <3>2. \A g \in Handle : ParentsOK(m, g)
      BY DEF LocalInv, CachesNameLiveObjects
    <3>3. \A g \in Handle : ParentsOK(m, g)'
      <4>1. obj'[m] = obj[m] /\ pdCache'[m] = pdCache[m]
            /\ cqCache'[m] = cqCache[m]
        BY <1>2, <2>2 DEF ProcessKept
      <4> QED
        BY <3>2, <4>1, SameParents
    <3>4. PdEntriesOK(m)' /\ CqEntriesOK(m)'
      BY <1>2, <2>2, <3>1 DEF ProcessKept, PdEntriesOK, CqEntriesOK
    <3>5. MrEntriesOK(m)' /\ QpEntriesOK(m)'
      BY <1>2, <2>2, <3>1 DEF ProcessKept, MrEntriesOK, QpEntriesOK
    <3> QED
      BY <3>3, <3>4, <3>5
  <2> QED
    BY <2>1, <2>2
<1> QED
  BY <1>1, <1>5, <1>6, <1>7, <1>8 DEF LocalInv

\* The part of Grows that is about the objects, for a fresh one.
LEMMA StoreFresh ==
    ASSUME LocalTypeOK, NEW n \in Node, NEW h \in Fresh(n), NEW o,
           Store(n, h, o)
    PROVE  /\ h \in Handle /\ obj[n][h].kind = "free" /\ obj'[n][h] = o
           /\ \A g \in Handle \ {h} : obj'[n][g] = obj[n][g]
           /\ \A m \in Node \ {n} : obj'[m] = obj[m]
           /\ \A g \in Handle :
                IF obj[n][g].kind # "free" THEN SameObject(obj[n][g], obj'[n][g])
                ELSE obj'[n][g] = obj[n][g] \/ (g = h /\ h \in Fresh(n))
  BY DEF Store, Fresh, LocalTypeOK, SameObject

\* What a call does that neither ends nor starts the process.
LEMMA LocalStepGrows ==
    ASSUME LocalInv, NEW n \in Node, LocalStep(n), Running(n), Running(n)'
    PROVE  \E h \in Handle : Grows(n, h)
<1>0. LocalTypeOK /\ LocalTypeOK'
  BY LocalStepType DEF LocalInv
<1>1. BindingsKept(n)
  BY <1>0, LocalStepKeepsBindings
<1>2. \A why : End(n, why) => why = "up"
  BY <1>0 DEF End, Running, LocalTypeOK
<1>3. ASSUME NEW pd_key \in PdKey, CreateLocalPd(n, pd_key)
      PROVE  \E h \in Handle : Grows(n, h)
  <2>1. PICK h \in Fresh(n) :
          /\ Store(n, h, NewPd(pd_key))
          /\ pdCache' = [pdCache EXCEPT ![n] = register_resrc(@, pd_key, h)]
          /\ UNCHANGED <<cqCache, mrCache, qpCache>>
    BY <1>2, <1>3 DEF CreateLocalPd, Abort
  <2>2. /\ \A m \in Node \ {n} : pdCache'[m] = pdCache[m]
        /\ pdCache'[n] = register_resrc(pdCache[n], pd_key, h)
        /\ pdCache[n] \in [PdKey -> Address]
    BY <1>0, <2>1 DEF LocalTypeOK
  <2>3. /\ \A k \in PdKey : \/ pdCache'[n][k] = pdCache[n][k]
                            \/ k = pd_key /\ pdCache'[n][k] = h
        /\ pdCache'[n][pd_key] # nullptr
    BY <2>2, NullAssumption DEF register_resrc, is_registered, Fresh
  <2>4. /\ NewPd(pd_key).kind = "pd" /\ NewPd(pd_key).name = pd_key
    BY DEF NewPd, Blank
  <2>5. NewEntries(n, h)
    BY <1>0, <2>1, <2>3, <2>4, StoreFresh DEF NewEntries
  <2>6. WellNamed(obj'[n][h]) /\ ParentsOK(n, h)'
    BY <1>0, <2>1, <2>4, StoreFresh DEF WellNamed, ParentsOK
  <2>7. EntryOf(n, h)' # nullptr
    BY <1>0, <2>1, <2>3, <2>4, StoreFresh DEF EntryOf
  <2> QED
    BY <1>0, <1>1, <2>1, <2>2, <2>4, <2>5, <2>6, <2>7, StoreFresh
       DEF Grows, ProcessKept
<1>4. ASSUME NEW pd_key \in PdKey, NEW mr_key \in MrKey,
             CreateLocalMr(n, pd_key, mr_key)
      PROVE  \E h \in Handle : Grows(n, h)
  <2> DEFINE p == local_pd(n, pd_key)
  <2>1. PICK h \in Fresh(n), made \in {TRUE, FALSE} :
          /\ HasPd(n, pd_key)
          /\ Store(n, h, NewMr(p, mr_key, made))
          /\ mrCache' =
               [mrCache EXCEPT ![n][p] = register_resrc(@, mr_key, h)]
          /\ UNCHANGED <<pdCache, cqCache, qpCache>>
    BY <1>2, <1>4 DEF CreateLocalMr, Abort
  <2>2. p \in Handle /\ p # nullptr /\ pdCache[n][pd_key] = p
    BY <1>0, <2>1 DEF HasPd, local_pd, get_resrc, LocalTypeOK, Address
  <2>3. obj[n][p].kind = "pd" /\ obj[n][p].name = pd_key
    BY <2>2 DEF LocalInv, CachesNameLiveObjects, PdEntriesOK
  <2> HIDE DEF p
  <2>4. /\ \A m \in Node \ {n} : mrCache'[m] = mrCache[m]
        /\ \A q \in Handle \ {p} : mrCache'[n][q] = mrCache[n][q]
        /\ mrCache'[n][p] = register_resrc(mrCache[n][p], mr_key, h)
        /\ mrCache[n][p] \in [MrKey -> Address]
    BY <1>0, <2>1, <2>2 DEF LocalTypeOK
  <2>5. /\ \A q \in Handle, k \in MrKey :
             \/ mrCache'[n][q][k] = mrCache[n][q][k]
             \/ q = p /\ k = mr_key /\ mrCache'[n][q][k] = h
        /\ mrCache'[n][p][mr_key] # nullptr
    BY <2>4, NullAssumption DEF register_resrc, is_registered, Fresh
  <2>6. LET o == NewMr(p, mr_key, made) IN
        o.kind = "mr" /\ o.name = mr_key /\ o.pd = p
    BY DEF NewMr, Blank
  <2>7. NewEntries(n, h)
    BY <1>0, <2>1, <2>5, <2>6, StoreFresh DEF NewEntries
  <2>8. WellNamed(obj'[n][h])
    BY <1>0, <2>1, <2>6, StoreFresh DEF WellNamed
  <2>9. ParentsOK(n, h)'
    BY <1>0, <2>1, <2>2, <2>3, <2>6, StoreFresh DEF ParentsOK
  <2>10. EntryOf(n, h)' # nullptr
    BY <1>0, <2>1, <2>5, <2>6, StoreFresh DEF EntryOf
  <2> QED
    BY <1>0, <1>1, <2>1, <2>4, <2>6, <2>7, <2>8, <2>9, <2>10, StoreFresh
       DEF Grows, ProcessKept
<1>5. ASSUME NEW cq_key \in CqKey, CreateBasicCq(n, cq_key)
      PROVE  \E h \in Handle : Grows(n, h)
  <2>1. PICK h \in Fresh(n), made \in {TRUE, FALSE} :
          /\ Store(n, h, NewCq(cq_key, made))
          /\ cqCache' = [cqCache EXCEPT ![n] = register_resrc(@, cq_key, h)]
          /\ UNCHANGED <<pdCache, mrCache, qpCache>>
    BY <1>5 DEF CreateBasicCq
  <2>2. /\ \A m \in Node \ {n} : cqCache'[m] = cqCache[m]
        /\ cqCache'[n] = register_resrc(cqCache[n], cq_key, h)
        /\ cqCache[n] \in [CqKey -> Address]
    BY <1>0, <2>1 DEF LocalTypeOK
  <2>3. /\ \A k \in CqKey : \/ cqCache'[n][k] = cqCache[n][k]
                            \/ k = cq_key /\ cqCache'[n][k] = h
        /\ cqCache'[n][cq_key] # nullptr
    BY <2>2, NullAssumption DEF register_resrc, is_registered, Fresh
  <2>4. LET o == NewCq(cq_key, made) IN o.kind = "cq" /\ o.name = cq_key
    BY DEF NewCq, Blank
  <2>5. NewEntries(n, h)
    BY <1>0, <2>1, <2>3, <2>4, StoreFresh DEF NewEntries
  <2>6. WellNamed(obj'[n][h]) /\ ParentsOK(n, h)'
    BY <1>0, <2>1, <2>4, StoreFresh DEF WellNamed, ParentsOK
  <2>7. EntryOf(n, h)' # nullptr
    BY <1>0, <2>1, <2>3, <2>4, StoreFresh DEF EntryOf
  <2> QED
    BY <1>0, <1>1, <2>1, <2>2, <2>4, <2>5, <2>6, <2>7, StoreFresh
       DEF Grows, ProcessKept
<1>6. ASSUME NEW pd_key \in PdKey, NEW qp_key \in QpKey,
             NEW scq \in CqKey, NEW rcq \in CqKey,
             CreateLocalQp(n, pd_key, qp_key, scq, rcq)
      PROVE  \E h \in Handle : Grows(n, h)
  <2> DEFINE p == local_pd(n, pd_key)
             s == get_resrc(cqCache[n], scq)
             r == get_resrc(cqCache[n], rcq)
  <2>1. PICK h \in Fresh(n) :
          /\ HasPd(n, pd_key) /\ UsableCq(n, scq) /\ UsableCq(n, rcq)
          /\ Store(n, h, NewQp(p, qp_key, s, r))
          /\ qpCache' =
               [qpCache EXCEPT ![n][p] = register_resrc(@, qp_key, h)]
          /\ UNCHANGED <<pdCache, cqCache, mrCache>>
    BY <1>2, <1>6 DEF CreateLocalQp, Abort
  <2>2. p \in Handle /\ p # nullptr /\ pdCache[n][pd_key] = p
    BY <1>0, <2>1 DEF HasPd, local_pd, get_resrc, LocalTypeOK, Address
  <2>3. obj[n][p].kind = "pd" /\ obj[n][p].name = pd_key
    BY <2>2 DEF LocalInv, CachesNameLiveObjects, PdEntriesOK
  <2>4. /\ s \in Handle /\ s # nullptr /\ cqCache[n][scq] = s /\ obj[n][s].made
        /\ r \in Handle /\ r # nullptr /\ cqCache[n][rcq] = r /\ obj[n][r].made
    BY <1>0, <2>1
       DEF UsableCq, is_registered, get_resrc, LocalTypeOK, Address
  <2>5. /\ obj[n][s].kind = "cq" /\ obj[n][s].name = scq
        /\ obj[n][r].kind = "cq" /\ obj[n][r].name = rcq
    BY <2>4 DEF LocalInv, CachesNameLiveObjects, CqEntriesOK
  <2> HIDE DEF p, s, r
  <2>6. /\ \A m \in Node \ {n} : qpCache'[m] = qpCache[m]
        /\ \A q \in Handle \ {p} : qpCache'[n][q] = qpCache[n][q]
        /\ qpCache'[n][p] = register_resrc(qpCache[n][p], qp_key, h)
        /\ qpCache[n][p] \in [QpKey -> Address]
    BY <1>0, <2>1, <2>2 DEF LocalTypeOK
  <2>7. /\ \A q \in Handle, k \in QpKey :
             \/ qpCache'[n][q][k] = qpCache[n][q][k]
             \/ q = p /\ k = qp_key /\ qpCache'[n][q][k] = h
        /\ qpCache'[n][p][qp_key] # nullptr
    BY <2>6, NullAssumption DEF register_resrc, is_registered, Fresh
  <2>8. LET o == NewQp(p, qp_key, s, r) IN
        /\ o.kind = "qp" /\ o.name = qp_key /\ o.pd = p /\ o.made
        /\ o.send_cq = s /\ o.recv_cq = r
    BY DEF NewQp, Blank
  <2>9. NewEntries(n, h)
    BY <1>0, <2>1, <2>7, <2>8, StoreFresh DEF NewEntries
  <2>10. WellNamed(obj'[n][h])
    BY <1>0, <2>1, <2>8, StoreFresh DEF WellNamed
  <2>11. ParentsOK(n, h)'
    <3>1. /\ obj'[n][h] = NewQp(p, qp_key, s, r) /\ obj[n][h].kind = "free"
          /\ \A g \in Handle \ {h} : obj'[n][g] = obj[n][g]
      BY <1>0, <2>1, StoreFresh
    <3>2. obj'[n][p] = obj[n][p] /\ obj'[n][s] = obj[n][s]
          /\ obj'[n][r] = obj[n][r]
      BY <2>2, <2>3, <2>4, <2>5, <3>1
    <3> QED
      BY <2>1, <2>2, <2>3, <2>4, <2>5, <2>8, <3>1, <3>2 DEF ParentsOK
  <2>12. EntryOf(n, h)' # nullptr
    BY <1>0, <2>1, <2>7, <2>8, StoreFresh DEF EntryOf
  <2> QED
    BY <1>0, <1>1, <2>1, <2>6, <2>8, <2>9, <2>10, <2>11, <2>12, StoreFresh
       DEF Grows, ProcessKept
<1>7. ASSUME NEW pd_key \in PdKey, NEW qp_key \in QpKey,
             InitLocalQp(n, pd_key, qp_key)
      PROVE  \E h \in Handle : Grows(n, h)
  <2> DEFINE h == local_qp(n, pd_key, qp_key)
  <2>1. /\ \/ Store(n, h, [obj[n][h] EXCEPT !.state = "INIT"])
           \/ UNCHANGED obj
        /\ UNCHANGED <<pdCache, cqCache, mrCache, qpCache>>
        /\ HasQp(n, pd_key, qp_key)
    BY <1>2, <1>7 DEF InitLocalQp, Abort
  <2>2. local_pd(n, pd_key) \in Handle
    BY <1>0, <2>1 DEF HasQp, HasPd, local_pd, get_resrc, LocalTypeOK, Address
  <2>3. h \in Handle /\ obj[n][h].kind = "qp"
    BY <1>0, <2>1, <2>2 DEF HasQp, local_qp, get_resrc, LocalTypeOK, Address,
       LocalInv, CachesNameLiveObjects, QpEntriesOK
  <2> HIDE DEF h
  <2>4. obj[n][h] \in Object /\ obj \in [Node -> [Handle -> Object]]
    BY <1>0, <2>3 DEF LocalTypeOK
  <2>5. /\ \A m \in Node \ {n} : obj'[m] = obj[m]
        /\ \A g \in Handle \ {h} : obj'[n][g] = obj[n][g]
        /\ SameObject(obj[n][h], obj'[n][h])
    BY <2>1, <2>3, <2>4 DEF Store, SameObject, Object
  <2>6. NewEntries(n, h)
    BY <2>1 DEF NewEntries
  <2>7. \A g \in Handle :
          IF obj[n][g].kind # "free" THEN SameObject(obj[n][g], obj'[n][g])
          ELSE obj'[n][g] = obj[n][g]
    BY <2>3, <2>5 DEF SameObject
  <2>8. Grows(n, h)
    BY <1>1, <2>1, <2>3, <2>5, <2>6, <2>7 DEF Grows, ProcessKept
  <2> QED
    BY <2>3, <2>8
<1>8. ~Kill(n) /\ ~Relaunch(n)
  BY <1>2 DEF Kill, Relaunch
<1> QED
  BY <1>3, <1>4, <1>5, <1>6, <1>7, <1>8 DEF LocalStep

\* The three shapes of a step of a process.
LEMMA LocalStepShape ==
    ASSUME LocalInv, NEW n \in Node, LocalStep(n)
    PROVE  \/ /\ Running(n)
              /\ \E why \in {"aborted", "killed"} : End(n, why)
           \/ Relaunch(n)
           \/ /\ Running(n) /\ UNCHANGED <<proc, launch>>
              /\ \E h \in Handle : Grows(n, h)
<1>1. CASE \E why \in {"aborted", "killed"} : End(n, why)
  <2>1. Running(n) \/ Relaunch(n)
    BY DEF LocalStep, CreateLocalPd, CreateLocalMr, CreateBasicCq,
           CreateLocalQp, InitLocalQp, Kill
  <2> QED
    BY <1>1, <2>1
<1>2. CASE ~\E why \in {"aborted", "killed"} : End(n, why)
  <2>1. Relaunch(n) \/ (Running(n) /\ UNCHANGED <<proc, launch>>)
    BY <1>2 DEF LocalStep, CreateLocalPd, CreateLocalMr, CreateBasicCq,
                CreateLocalQp, InitLocalQp, Kill, Abort
  <2> QED
    BY <2>1, LocalStepGrows DEF Running
<1> QED
  BY <1>1, <1>2

\* Every step of a process keeps the invariant.
LEMMA LocalStepKeepsInv ==
    ASSUME LocalInv, NEW n \in Node, LocalStep(n)
    PROVE  LocalInv'
<1>1. LocalTypeOK'
  BY LocalStepType DEF LocalInv
<1> QED
  BY <1>1, LocalStepShape, EndKeepsInv, SameObjectsKeepInv, GrowsKeepsInv
     DEF Relaunch

\* The invariant holds in the initial states.
LEMMA LocalInitInv == LocalInit => LocalInv
<1> SUFFICES ASSUME LocalInit PROVE LocalInv
  OBVIOUS
<1>1. LocalTypeOK
  BY LocalInitType
<1>2. \A n \in Node, h \in Handle : obj[n][h].kind = "free"
  BY DEF LocalInit, NoObjects, Blank
<1>3. \A n \in Node : /\ pdCache[n] = [k \in PdKey |-> nullptr]
                      /\ cqCache[n] = [k \in CqKey |-> nullptr]
                      /\ mrCache[n] = [p \in Handle |-> [k \in MrKey |-> nullptr]]
                      /\ qpCache[n] = [p \in Handle |-> [k \in QpKey |-> nullptr]]
  BY DEF LocalInit, EmptyCache, NoSubcaches
<1>4. CachesNameLiveObjects
  BY <1>2, <1>3 DEF CachesNameLiveObjects, PdEntriesOK, CqEntriesOK,
                    MrEntriesOK, QpEntriesOK, ParentsOK
<1>5. FirstCreatedWins /\ AllocatedInOrder /\ ObjectsNamed
  BY <1>2 DEF FirstCreatedWins, LocalObjects, LocalKind, AllocatedInOrder,
              ObjectsNamed, WellNamed
<1> QED
  BY <1>1, <1>4, <1>5 DEF LocalInv

\* The invariant of the proofs is one.
THEOREM LocalInvariant == LocalSpec => []LocalInv
<1>1. LocalInv /\ [LocalNext]_localVars => LocalInv'
  <2> SUFFICES ASSUME LocalInv, [LocalNext]_localVars PROVE LocalInv'
    OBVIOUS
  <2>1. CASE LocalNext
    BY <2>1, LocalStepKeepsInv DEF LocalNext
  <2>2. CASE UNCHANGED localVars
    <3>1. LocalTypeOK'
      BY <2>2 DEF localVars, LocalInv, LocalTypeOK
    <3> QED
      BY <2>2, <3>1, SameObjectsKeepInv DEF localVars
  <2> QED
    BY <2>1, <2>2
<1> QED
  BY LocalInitInv, <1>1, PTL DEF LocalSpec

\* A name stands for the first object created under it.
THEOREM FirstCreatedWinsCorrect == LocalSpec => []FirstCreatedWins
<1>1. LocalInv => FirstCreatedWins
  BY DEF LocalInv
<1> QED
  BY LocalInvariant, <1>1, PTL

\* What a cache hands out is of the right class, with parents that exist.
THEOREM CachesNameLiveObjectsCorrect == LocalSpec => []CachesNameLiveObjects
<1>1. LocalInv => CachesNameLiveObjects
  BY DEF LocalInv
<1> QED
  BY LocalInvariant, <1>1, PTL

-----------------------------------------------------------------------------
(* What a create call returns.                                             *)

\* What ReturnTellsBinding says of one step.
ReturnTells ==
    \A n \in Node, h \in Handle :
        obj[n][h].kind = "free" /\ obj'[n][h].kind \in LocalKind =>
          LET o == obj'[n][h] IN
          (ret'[n] = "true") <=> (EntryOf(n, h)' = h /\ (o.made \/ o.kind = "cq"))

\* The only new object of a create call is the one it stores.
LEMMA StoredTells ==
    ASSUME LocalTypeOK, NEW n \in Node, NEW h \in Fresh(n), NEW o, Store(n, h, o),
           (ret'[n] = "true") <=> (EntryOf(n, h)' = h /\ (o.made \/ o.kind = "cq"))
    PROVE  ReturnTells
<1>1. /\ obj'[n][h] = o
      /\ \A m \in Node, g \in Handle : m # n \/ g # h => obj'[m][g] = obj[m][g]
  BY StoreFresh
<1>2. \A m \in Node, g \in Handle :
        obj[m][g].kind = "free" /\ obj'[m][g].kind \in LocalKind => m = n /\ g = h
  BY <1>1 DEF LocalKind
<1> QED
  BY <1>1, <1>2 DEF ReturnTells

\* After an offer to a cache the name stands for the offered address exactly
\* when it was free, provided that the address was not in the cache.
LEMMA RegisterTells ==
    ASSUME NEW Key, NEW S, NEW cache \in [Key -> S], NEW k \in Key,
           NEW v, v # nullptr, cache[k] # v
    PROVE  register_resrc(cache, k, v)[k] = v <=> ~is_registered(cache, k)
  BY DEF register_resrc, is_registered

\* The address of a new object is in no cache.
LEMMA FreshUnnamed ==
    ASSUME LocalInv, NEW n \in Node, NEW h \in Fresh(n)
    PROVE  /\ h \in Handle /\ h # nullptr
           /\ \A k \in PdKey : pdCache[n][k] # h
           /\ \A k \in CqKey : cqCache[n][k] # h
           /\ \A p \in Handle, k \in MrKey : mrCache[n][p][k] # h
           /\ \A p \in Handle, k \in QpKey : qpCache[n][p][k] # h
<1>1. h \in Handle /\ obj[n][h].kind = "free" /\ h # nullptr
  BY NullAssumption DEF Fresh
<1>2. PdEntriesOK(n) /\ CqEntriesOK(n) /\ MrEntriesOK(n) /\ QpEntriesOK(n)
  BY DEF LocalInv, CachesNameLiveObjects
<1> QED
  BY <1>1, <1>2 DEF PdEntriesOK, CqEntriesOK, MrEntriesOK, QpEntriesOK

\* A process that ends creates nothing.
LEMMA EndTells ==
    ASSUME LocalTypeOK, NEW n \in Node, NEW why, End(n, why)
    PROVE  ReturnTells
<1>1. \A g \in Handle : obj'[n][g].kind \in {"free", "dead"}
  BY DEF End, LocalTypeOK, Blank
<1>2. \A m \in Node \ {n} : obj'[m] = obj[m]
  BY DEF End, LocalTypeOK
<1>3. \A m \in Node, g \in Handle :
        obj[m][g].kind = "free" => obj'[m][g].kind \notin LocalKind
  BY <1>1, <1>2 DEF LocalKind
<1> QED
  BY <1>3 DEF ReturnTells

\* Every call tells the truth of what it created.
LEMMA LocalStepTells ==
    ASSUME LocalInv, NEW n \in Node, LocalStep(n)
    PROVE  ReturnTells
<1>0. LocalTypeOK /\ LocalTypeOK'
  BY LocalStepType DEF LocalInv
<1>1. ASSUME NEW why, End(n, why) PROVE ReturnTells
  BY <1>0, <1>1, EndTells
<1>2. CASE UNCHANGED obj
  BY <1>2 DEF ReturnTells, LocalKind
<1>3. ASSUME NEW b \in BOOLEAN, Return(n, b)
      PROVE  ret'[n] = "true" <=> b
  BY <1>0, <1>3 DEF Return, LocalTypeOK
<1>4. ASSUME NEW pd_key \in PdKey, CreateLocalPd(n, pd_key)
      PROVE  ReturnTells
  <2>1. CASE Abort(n)
    BY <1>1, <2>1 DEF Abort
  <2>2. CASE ~Abort(n)
    <3>1. PICK h \in Fresh(n) :
            /\ Store(n, h, NewPd(pd_key))
            /\ pdCache' = [pdCache EXCEPT ![n] = register_resrc(@, pd_key, h)]
            /\ Return(n, ~is_registered(pdCache[n], pd_key))
      BY <1>4, <2>2 DEF CreateLocalPd
    <3>2. /\ NewPd(pd_key).kind = "pd" /\ NewPd(pd_key).name = pd_key
          /\ NewPd(pd_key).made
      BY DEF NewPd, Blank
    <3>3. EntryOf(n, h)' = register_resrc(pdCache[n], pd_key, h)[pd_key]
      BY <1>0, <3>1, <3>2, StoreFresh DEF EntryOf, LocalTypeOK
    <3>4. EntryOf(n, h)' = h <=> ~is_registered(pdCache[n], pd_key)
      <4>1. pdCache[n] \in [PdKey -> Address]
        BY <1>0 DEF LocalTypeOK
      <4> QED
        BY <3>3, <4>1, FreshUnnamed, RegisterTells
    <3>5. ret'[n] = "true" <=> ~is_registered(pdCache[n], pd_key)
      BY <1>3, <3>1 DEF is_registered
    <3> QED
      BY <1>0, <3>1, <3>2, <3>4, <3>5, StoredTells
  <2> QED
    BY <2>1, <2>2
<1>5. ASSUME NEW pd_key \in PdKey, NEW mr_key \in MrKey,
             CreateLocalMr(n, pd_key, mr_key)
      PROVE  ReturnTells
  <2> DEFINE p == local_pd(n, pd_key)
  <2>1. CASE Abort(n)
    BY <1>1, <2>1 DEF Abort
  <2>2. CASE ~Abort(n)
    <3>1. PICK h \in Fresh(n), made \in {TRUE, FALSE} :
            /\ HasPd(n, pd_key)
            /\ Store(n, h, NewMr(p, mr_key, made))
            /\ mrCache' =
                 [mrCache EXCEPT ![n][p] = register_resrc(@, mr_key, h)]
            /\ Return(n, made /\ ~HasMr(n, pd_key, mr_key))
      BY <1>5, <2>2 DEF CreateLocalMr
    <3>2. p \in Handle
      BY <1>0, <3>1 DEF HasPd, local_pd, get_resrc, LocalTypeOK, Address
    <3>3. HasMr(n, pd_key, mr_key) <=> is_registered(mrCache[n][p], mr_key)
      BY <3>1 DEF HasMr, local_mr, get_resrc, is_registered
    <3> HIDE DEF p
    <3>4. LET o == NewMr(p, mr_key, made) IN
          o.kind = "mr" /\ o.name = mr_key /\ o.pd = p /\ o.made = made
      BY DEF NewMr, Blank
    <3>5. EntryOf(n, h)' = register_resrc(mrCache[n][p], mr_key, h)[mr_key]
      BY <1>0, <3>1, <3>2, <3>4, StoreFresh DEF EntryOf, LocalTypeOK
    <3>6. EntryOf(n, h)' = h <=> ~is_registered(mrCache[n][p], mr_key)
      <4>1. mrCache[n][p] \in [MrKey -> Address]
        BY <1>0, <3>2 DEF LocalTypeOK
      <4> QED
        BY <3>2, <3>5, <4>1, FreshUnnamed, RegisterTells
    <3>7. ret'[n] = "true" <=> made /\ ~HasMr(n, pd_key, mr_key)
      BY <1>3, <3>1, <3>3 DEF is_registered
    <3> QED
      BY <1>0, <3>1, <3>3, <3>4, <3>6, <3>7, StoredTells
  <2> QED
    BY <2>1, <2>2
<1>6. ASSUME NEW cq_key \in CqKey, CreateBasicCq(n, cq_key)
      PROVE  ReturnTells
  <2>1. PICK h \in Fresh(n), made \in {TRUE, FALSE} :
          /\ Store(n, h, NewCq(cq_key, made))
          /\ cqCache' = [cqCache EXCEPT ![n] = register_resrc(@, cq_key, h)]
          /\ Return(n, ~is_registered(cqCache[n], cq_key))
    BY <1>6 DEF CreateBasicCq
  <2>2. LET o == NewCq(cq_key, made) IN o.kind = "cq" /\ o.name = cq_key
    BY DEF NewCq, Blank
  <2>3. EntryOf(n, h)' = register_resrc(cqCache[n], cq_key, h)[cq_key]
    BY <1>0, <2>1, <2>2, StoreFresh DEF EntryOf, LocalTypeOK
  <2>4. EntryOf(n, h)' = h <=> ~is_registered(cqCache[n], cq_key)
    <3>1. cqCache[n] \in [CqKey -> Address]
      BY <1>0 DEF LocalTypeOK
    <3> QED
      BY <2>3, <3>1, FreshUnnamed, RegisterTells
  <2>5. ret'[n] = "true" <=> ~is_registered(cqCache[n], cq_key)
    BY <1>3, <2>1 DEF is_registered
  <2> QED
    BY <1>0, <2>1, <2>2, <2>4, <2>5, StoredTells
<1>7. ASSUME NEW pd_key \in PdKey, NEW qp_key \in QpKey,
             NEW scq \in CqKey, NEW rcq \in CqKey,
             CreateLocalQp(n, pd_key, qp_key, scq, rcq)
      PROVE  ReturnTells
  <2> DEFINE p == local_pd(n, pd_key)
             s == get_resrc(cqCache[n], scq)
             r == get_resrc(cqCache[n], rcq)
  <2>1. CASE Abort(n)
    BY <1>1, <2>1 DEF Abort
  <2>2. CASE ~Abort(n)
    <3>1. PICK h \in Fresh(n) :
            /\ HasPd(n, pd_key)
            /\ Store(n, h, NewQp(p, qp_key, s, r))
            /\ qpCache' =
                 [qpCache EXCEPT ![n][p] = register_resrc(@, qp_key, h)]
            /\ Return(n, ~HasQp(n, pd_key, qp_key))
      BY <1>7, <2>2 DEF CreateLocalQp
    <3>2. p \in Handle
      BY <1>0, <3>1 DEF HasPd, local_pd, get_resrc, LocalTypeOK, Address
    <3>3. HasQp(n, pd_key, qp_key) <=> is_registered(qpCache[n][p], qp_key)
      BY <3>1 DEF HasQp, local_qp, get_resrc, is_registered
    <3> HIDE DEF p, s, r
    <3>4. LET o == NewQp(p, qp_key, s, r) IN
          o.kind = "qp" /\ o.name = qp_key /\ o.pd = p /\ o.made
      BY DEF NewQp, Blank
    <3>5. EntryOf(n, h)' = register_resrc(qpCache[n][p], qp_key, h)[qp_key]
      BY <1>0, <3>1, <3>2, <3>4, StoreFresh DEF EntryOf, LocalTypeOK
    <3>6. EntryOf(n, h)' = h <=> ~is_registered(qpCache[n][p], qp_key)
      <4>1. qpCache[n][p] \in [QpKey -> Address]
        BY <1>0, <3>2 DEF LocalTypeOK
      <4> QED
        BY <3>2, <3>5, <4>1, FreshUnnamed, RegisterTells
    <3>7. ret'[n] = "true" <=> ~HasQp(n, pd_key, qp_key)
      BY <1>3, <3>1, <3>3 DEF is_registered
    <3> QED
      BY <1>0, <3>1, <3>3, <3>4, <3>6, <3>7, StoredTells
  <2> QED
    BY <2>1, <2>2
<1>8. ASSUME NEW pd_key \in PdKey, NEW qp_key \in QpKey,
             InitLocalQp(n, pd_key, qp_key)
      PROVE  ReturnTells
  <2>1. CASE Abort(n)
    BY <1>1, <2>1 DEF Abort
  <2>2. CASE ~Abort(n) /\ obj' # obj
    <3> DEFINE h == local_qp(n, pd_key, qp_key)
    <3>1. HasQp(n, pd_key, qp_key) /\ CanMove(n, h, "INIT")
          /\ Store(n, h, [obj[n][h] EXCEPT !.state = "INIT"])
      BY <1>8, <2>2 DEF InitLocalQp
    <3>3. local_pd(n, pd_key) \in Handle
      BY <1>0, <3>1 DEF HasQp, HasPd, local_pd, get_resrc, LocalTypeOK, Address
    <3>4. h \in Handle /\ obj[n][h].kind = "qp"
      BY <1>0, <3>1, <3>3 DEF HasQp, local_qp, get_resrc, LocalTypeOK, Address,
         LocalInv, CachesNameLiveObjects, QpEntriesOK
    <3> HIDE DEF h
    <3>5. obj \in [Node -> [Handle -> Object]]
      BY <1>0 DEF LocalTypeOK
    <3>6. \A m \in Node, g \in Handle : m # n \/ g # h => obj'[m][g] = obj[m][g]
      BY <3>1, <3>4, <3>5 DEF Store
    <3> QED
      BY <3>4, <3>6 DEF ReturnTells, LocalKind
  <2>3. CASE obj' = obj
    BY <1>2, <2>3
  <2> QED
    BY <2>1, <2>2, <2>3
<1>9. CASE Kill(n)
  BY <1>1, <1>9 DEF Kill
<1>10. CASE Relaunch(n)
  BY <1>2, <1>10 DEF Relaunch
<1> QED
  BY <1>4, <1>5, <1>6, <1>7, <1>8, <1>9, <1>10 DEF LocalStep

\* A create call returns true exactly when its name now stands for the object
\* it allocated and, save for a completion queue, the verbs object exists.
THEOREM ReturnTellsBindingCorrect == LocalSpec => ReturnTellsBinding
<1>1. LocalInv /\ [LocalNext]_localVars =>
        [\A n \in Node, h \in Handle :
           obj[n][h].kind = "free" /\ obj'[n][h].kind \in LocalKind =>
             LET o == obj'[n][h] IN
             (ret'[n] = "true") <=> (EntryOf(n, h)' = h
                                     /\ (o.made \/ o.kind = "cq"))]_localVars
  BY LocalStepTells DEF LocalNext, ReturnTells
<1> QED
  BY <1>1, LocalInvariant, PTL DEF LocalSpec, ReturnTellsBinding

=============================================================================

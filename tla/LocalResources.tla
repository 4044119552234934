--------------------------- MODULE LocalResources ---------------------------
(***************************************************************************)
(* The RDMA resources a process owns: the wrappers Pd, Mr, BasicCq and Qp  *)
(* (hb_pds.cc, hb_mrs.cc, hb_cqs.cc, hb_qps.cc), the caches that name them *)
(* (hb_cache.hh) and the calls of HartebeestCore that create and           *)
(* initialise them (hartebeest.cc).  Each node runs one process.  The      *)
(* application is any client: it may make any call, with any of the keys,  *)
(* in any order, and it may be killed and launched again.                  *)
(*                                                                         *)
(* A wrapper lives at a Handle, an address no later object of the run      *)
(* reuses.  A failed assert and a call through a null pointer both end the *)
(* process (the build does not define NDEBUG): the system then releases    *)
(* what the process held.                                                  *)
(***************************************************************************)
EXTENDS Naturals, ResourceCache, Verbs

CONSTANTS
    Node,       \* the processes, one per machine
    Handle,     \* addresses of wrapper objects; bounds the objects of a node
    PdKey, MrKey, CqKey, QpKey,     \* the names the application uses
    Faults,     \* the external calls that may fail
    MaxLaunch   \* bounds how often a process is launched

ASSUME HandleAssumption == Handle \subseteq Nat
ASSUME NullAssumption == nullptr \notin Handle \cup (Node \X Handle)
ASSUME LaunchAssumption == MaxLaunch \in Nat

VARIABLES
    proc,       \* is the process of a node running, and if not, why
    launch,     \* how many times it has been launched
    obj,        \* the wrapper at each address
    pdCache,    \* HB_PD_CACHE
    cqCache,    \* HB_BASICCQ_CACHE
    mrCache,    \* Pd::mr_cache of the Pd at each address
    qpCache,    \* Pd::qp_cache of the Pd at each address
    ret         \* what the last call of the process returned

localVars == <<proc, launch, obj, pdCache, cqCache, mrCache, qpCache, ret>>

Address == Handle \cup {nullptr}
Name == PdKey \cup MrKey \cup CqKey \cup QpKey

\* What a process publishes of a resource: enough to tell whose it is.  It
\* stands for the (qp_num, pid, plid) or the (addr, rkey) of one object.
Info == Node \X Handle

\* A wrapper.  made: its ibv_ pointer is not null.  pd: the Pd it was created
\* in.  state: of a queue pair.  peer: the remote resource a remote wrapper
\* describes, or the destination of a connected queue pair.
Object ==
    [ kind : {"free", "dead", "pd", "mr", "cq", "qp", "rmr", "rqp"},
      name : Name \cup {nullptr},   made : BOOLEAN,
      pd : Address,   send_cq : Address,   recv_cq : Address,
      state : QpState \cup {"none"},   peer : Info \cup {nullptr} ]

Blank(kind) ==
    [ kind |-> kind, name |-> nullptr, made |-> FALSE, pd |-> nullptr,
      send_cq |-> nullptr, recv_cq |-> nullptr, state |-> "none",
      peer |-> nullptr ]

NewPd(key) == [Blank("pd") EXCEPT !.name = key, !.made = TRUE]
NewMr(p, key, made) ==
    [Blank("mr") EXCEPT !.name = key, !.made = made, !.pd = p]
NewCq(key, made) == [Blank("cq") EXCEPT !.name = key, !.made = made]
NewQp(p, key, scq, rcq) ==
    [Blank("qp") EXCEPT !.name = key, !.made = TRUE, !.pd = p,
                        !.send_cq = scq, !.recv_cq = rcq, !.state = "RESET"]

-----------------------------------------------------------------------------
NoObjects == [h \in Handle |-> Blank("free")]
NoSubcaches(Key) == [h \in Handle |-> EmptyCache(Key)]

LocalInit ==
    /\ proc = [n \in Node |-> "up"]
    /\ launch = [n \in Node |-> 1]
    /\ obj = [n \in Node |-> NoObjects]
    /\ pdCache = [n \in Node |-> EmptyCache(PdKey)]
    /\ cqCache = [n \in Node |-> EmptyCache(CqKey)]
    /\ mrCache = [n \in Node |-> NoSubcaches(MrKey)]
    /\ qpCache = [n \in Node |-> NoSubcaches(QpKey)]
    /\ ret = [n \in Node |-> "none"]

Running(n) == proc[n] = "up"

\* operator new: an address never used before.
Fresh(n) == { h \in Handle : /\ obj[n][h].kind = "free"
                             /\ \A g \in Handle :
                                  obj[n][g].kind = "free" => h <= g }

Store(n, h, o) == obj' = [obj EXCEPT ![n][h] = o]
\* Two faulty calls: the code of the cache is returned in place of a boolean,
\* and the result of the last step is not passed on.
ReturnCode(n, b) == ret' = [ret EXCEPT ![n] = IF b THEN "true" ELSE "code"]
ReturnAlwaysTrue(n, b) == ret' = [ret EXCEPT ![n] = "true"]
Return(n, b) == ret' = [ret EXCEPT ![n] = IF b THEN "true" ELSE "false"]

\* get_local_pd, get_local_mr and get_local_qp; the last two go through the
\* Pd and need it to exist.
local_pd(n, pd_key) == get_resrc(pdCache[n], pd_key)
local_mr(n, pd_key, mr_key) ==
    get_resrc(mrCache[n][local_pd(n, pd_key)], mr_key)
local_qp(n, pd_key, qp_key) ==
    get_resrc(qpCache[n][local_pd(n, pd_key)], qp_key)

HasPd(n, pd_key) == local_pd(n, pd_key) # nullptr
HasMr(n, pd_key, mr_key) ==
    HasPd(n, pd_key) /\ local_mr(n, pd_key, mr_key) # nullptr
HasQp(n, pd_key, qp_key) ==
    HasPd(n, pd_key) /\ local_qp(n, pd_key, qp_key) # nullptr

\* The end of a process: its memory and its verbs objects are gone.
End(n, why) ==
    /\ proc' = [proc EXCEPT ![n] = why]
    /\ obj' = [obj EXCEPT ![n] = [h \in Handle |->
                 IF obj[n][h].kind = "free" THEN Blank("free")
                                            ELSE Blank("dead")]]
    /\ pdCache' = [pdCache EXCEPT ![n] = EmptyCache(PdKey)]
    /\ cqCache' = [cqCache EXCEPT ![n] = EmptyCache(CqKey)]
    /\ mrCache' = [mrCache EXCEPT ![n] = NoSubcaches(MrKey)]
    /\ qpCache' = [qpCache EXCEPT ![n] = NoSubcaches(QpKey)]
    /\ ret' = [ret EXCEPT ![n] = "none"]
    /\ UNCHANGED launch

\* An assert that fails, or a member call through a null pointer.
Abort(n) == End(n, "aborted")

-----------------------------------------------------------------------------
(* HartebeestCore::create_local_pd: the Pd is allocated first and offered  *)
(* to the cache second, so a refused Pd stays allocated with no name.      *)
CreateLocalPd(n, pd_key) ==
    /\ Running(n)
    /\ \/ /\ "ibv_alloc_pd" \in Faults       \* assert in Pd::Pd
          /\ Abort(n)
       \/ \E h \in Fresh(n) :
            /\ Store(n, h, NewPd(pd_key))
            /\ pdCache' = [pdCache EXCEPT ![n] = register_resrc(@, pd_key, h)]
            /\ Return(n, ~is_registered(pdCache[n], pd_key))
            /\ UNCHANGED <<proc, launch, cqCache, mrCache, qpCache>>

(* HartebeestCore::create_local_mr and Pd::create_mr: the wrapper is       *)
(* registered before ibv_reg_mr is tried, and stays registered if it fails.*)
CreateLocalMr(n, pd_key, mr_key) ==
    /\ Running(n)
    /\ \/ /\ ~HasPd(n, pd_key) \/ "aligned_alloc" \in Faults
          /\ Abort(n)
       \/ /\ HasPd(n, pd_key)
          /\ \E h \in Fresh(n), made \in {TRUE, FALSE} :
               LET p == local_pd(n, pd_key) IN
               /\ ~made => "ibv_reg_mr" \in Faults
               /\ Store(n, h, NewMr(p, mr_key, made))
               /\ mrCache' =
                    [mrCache EXCEPT ![n][p] = register_resrc(@, mr_key, h)]
               /\ Return(n, made /\ ~HasMr(n, pd_key, mr_key))
               /\ UNCHANGED <<proc, launch, pdCache, cqCache, qpCache>>

(* HartebeestCore::create_basiccq: nothing looks at what ibv_create_cq     *)
(* returned; the assert is about the wrapper.                              *)
CreateBasicCq(n, cq_key) ==
    /\ Running(n)
    /\ \E h \in Fresh(n), made \in {TRUE, FALSE} :
         /\ ~made => "ibv_create_cq" \in Faults
         /\ Store(n, h, NewCq(cq_key, made))
         /\ cqCache' = [cqCache EXCEPT ![n] = register_resrc(@, cq_key, h)]
         /\ Return(n, ~is_registered(cqCache[n], cq_key))
         /\ UNCHANGED <<proc, launch, pdCache, mrCache, qpCache>>

\* A faulty check: the BasicCq is looked up, what it holds is not tested.
UsableCqUnchecked(n, cq_key) == is_registered(cqCache[n], cq_key)

\* The BasicCq is there and so is the struct ibv_cq it should hold.
UsableCq(n, cq_key) ==
    /\ is_registered(cqCache[n], cq_key)
    /\ obj[n][get_resrc(cqCache[n], cq_key)].made

(* HartebeestCore::create_local_qp, Pd::create_qp and Qp::Qp.              *)
CreateLocalQp(n, pd_key, qp_key, sendcq_key, recvcq_key) ==
    LET callable == /\ HasPd(n, pd_key)
                    /\ UsableCq(n, sendcq_key)
                    /\ UsableCq(n, recvcq_key)
    IN  /\ Running(n)
        /\ \/ /\ ~callable \/ "ibv_create_qp" \in Faults
              /\ Abort(n)
           \/ /\ callable
              /\ \E h \in Fresh(n) :
                   LET p == local_pd(n, pd_key) IN
                   /\ Store(n, h, NewQp(p, qp_key,
                                        get_resrc(cqCache[n], sendcq_key),
                                        get_resrc(cqCache[n], recvcq_key)))
                   /\ qpCache' =
                        [qpCache EXCEPT ![n][p] = register_resrc(@, qp_key, h)]
                   /\ Return(n, ~HasQp(n, pd_key, qp_key))
                   /\ UNCHANGED <<proc, launch, pdCache, cqCache, mrCache>>

\* A faulty transit_init: it resets the queue pair so that it can be repeated.
CanMoveAfterReset(n, h, to) ==
    to = "INIT" \/ <<obj[n][h].state, to>> \in QpMove

\* ibv_modify_qp refuses a move that is not in QpMove, changing nothing.
CanMove(n, h, to) == <<obj[n][h].state, to>> \in QpMove

(* HartebeestCore::init_local_qp and Qp::transit_init.                     *)
InitLocalQp(n, pd_key, qp_key) ==
    LET h == local_qp(n, pd_key, qp_key) IN
    /\ Running(n)
    /\ \/ /\ ~HasQp(n, pd_key, qp_key)
          /\ Abort(n)
       \/ /\ HasQp(n, pd_key, qp_key)
          /\ \/ /\ CanMove(n, h, "INIT")
                /\ Store(n, h, [obj[n][h] EXCEPT !.state = "INIT"])
                /\ Return(n, TRUE)
             \/ /\ ~CanMove(n, h, "INIT") \/ "ibv_modify_qp" \in Faults
                /\ UNCHANGED obj
                /\ Return(n, FALSE)
          /\ UNCHANGED <<proc, launch, pdCache, cqCache, mrCache, qpCache>>

(* The process is stopped from outside.                                    *)
Kill(n) == Running(n) /\ End(n, "killed")

(* The application is launched again: a new HartebeestCore, empty caches.  *)
Relaunch(n) ==
    /\ ~Running(n)
    /\ launch[n] < MaxLaunch
    /\ proc' = [proc EXCEPT ![n] = "up"]
    /\ launch' = [launch EXCEPT ![n] = @ + 1]
    /\ UNCHANGED <<obj, pdCache, cqCache, mrCache, qpCache, ret>>

LocalStep(n) ==
    \/ \E pd_key \in PdKey : CreateLocalPd(n, pd_key)
    \/ \E pd_key \in PdKey, mr_key \in MrKey : CreateLocalMr(n, pd_key, mr_key)
    \/ \E cq_key \in CqKey : CreateBasicCq(n, cq_key)
    \/ \E pd_key \in PdKey, qp_key \in QpKey, scq, rcq \in CqKey :
         CreateLocalQp(n, pd_key, qp_key, scq, rcq)
    \/ \E pd_key \in PdKey, qp_key \in QpKey : InitLocalQp(n, pd_key, qp_key)
    \/ Kill(n)
    \/ Relaunch(n)

LocalNext == \E n \in Node : LocalStep(n)

LocalSpec == LocalInit /\ [][LocalNext]_localVars

-----------------------------------------------------------------------------
\* Every variable has the type its comment says.
LocalTypeOK ==
    /\ proc \in [Node -> {"up", "aborted", "killed"}]
    /\ launch \in [Node -> Nat]
    /\ obj \in [Node -> [Handle -> Object]]
    /\ pdCache \in [Node -> [PdKey -> Address]]
    /\ cqCache \in [Node -> [CqKey -> Address]]
    /\ mrCache \in [Node -> [Handle -> [MrKey -> Address]]]
    /\ qpCache \in [Node -> [Handle -> [QpKey -> Address]]]
    /\ ret \in [Node -> {"none", "true", "false"}]

\* The cache entry that stands for the name of a local object.
EntryOf(n, h) ==
    LET o == obj[n][h] IN
    CASE o.kind = "pd" -> pdCache[n][o.name]
      [] o.kind = "cq" -> cqCache[n][o.name]
      [] o.kind = "mr" -> mrCache[n][o.pd][o.name]
      [] o.kind = "qp" -> qpCache[n][o.pd][o.name]

LocalKind == {"pd", "mr", "cq", "qp"}
LocalObjects(n) == { h \in Handle : obj[n][h].kind \in LocalKind }

\* A name stands for the first object created under it, for as long as the
\* process lives: every local object still allocated is that object or a
\* later one that lost to it, whether or not the first one is of any use (a
\* memory region whose ibv_reg_mr failed keeps its name).  Pd::create_mr,
\* Pd::create_qp, create_local_pd, create_basiccq over register_resrc.
FirstCreatedWins ==
    \A n \in Node : \A h \in LocalObjects(n) :
        /\ EntryOf(n, h) # nullptr
        /\ EntryOf(n, h) <= h

\* What a name of each cache leads to.
PdEntriesOK(n) ==
    \A k \in PdKey : pdCache[n][k] # nullptr =>
        LET o == obj[n][pdCache[n][k]] IN o.kind = "pd" /\ o.name = k
CqEntriesOK(n) ==
    \A k \in CqKey : cqCache[n][k] # nullptr =>
        LET o == obj[n][cqCache[n][k]] IN o.kind = "cq" /\ o.name = k
MrEntriesOK(n) ==
    \A p \in Handle, k \in MrKey : mrCache[n][p][k] # nullptr =>
        LET o == obj[n][mrCache[n][p][k]] IN
        o.kind = "mr" /\ o.name = k /\ o.pd = p
QpEntriesOK(n) ==
    \A p \in Handle, k \in QpKey : qpCache[n][p][k] # nullptr =>
        LET o == obj[n][qpCache[n][p][k]] IN
        o.kind = "qp" /\ o.name = k /\ o.pd = p

\* The Pd and the completion queues a resource was created with are there:
\* the queues were really created (the assert of create_local_qp) and are the
\* ones their names stand for.
ParentsOK(n, h) ==
    LET o == obj[n][h] IN
    /\ o.kind \in {"mr", "qp"} => /\ o.pd # nullptr
                                  /\ obj[n][o.pd].kind = "pd"
                                  /\ pdCache[n][obj[n][o.pd].name] = o.pd
    /\ o.kind = "qp" => \A c \in {o.send_cq, o.recv_cq} :
         /\ c # nullptr /\ obj[n][c].kind = "cq" /\ obj[n][c].made
         /\ cqCache[n][obj[n][c].name] = c

\* What a cache hands out is an object of the right class and name, in the
\* right Pd, with a Pd and completion queues that exist and can be looked up.
CachesNameLiveObjects ==
    \A n \in Node : /\ PdEntriesOK(n) /\ CqEntriesOK(n)
                    /\ MrEntriesOK(n) /\ QpEntriesOK(n)
                    /\ \A h \in Handle : ParentsOK(n, h)

\* No call of a living process rebinds or drops a name of its caches.
BindingsKept(n) ==
    /\ \A k \in PdKey : pdCache[n][k] \in {nullptr, pdCache'[n][k]}
    /\ \A k \in CqKey : cqCache[n][k] \in {nullptr, cqCache'[n][k]}
    /\ \A p \in Handle, k \in MrKey :
         mrCache[n][p][k] \in {nullptr, mrCache'[n][p][k]}
    /\ \A p \in Handle, k \in QpKey :
         qpCache[n][p][k] \in {nullptr, qpCache'[n][p][k]}

\* A pointer the application got from a cache stays the one the cache gives
\* until the process ends.
BindingsStable ==
    [][\A n \in Node : Running(n) /\ Running(n)' => BindingsKept(n)]_localVars

\* A create call returns true exactly when the object it allocated is the one
\* its name now stands for and, unless it is a completion queue, the verbs
\* object behind it exists.
ReturnTellsBinding ==
    [][\A n \in Node, h \in Handle :
         obj[n][h].kind = "free" /\ obj'[n][h].kind \in LocalKind =>
           LET o == obj'[n][h] IN
           (ret'[n] = "true") <=> (EntryOf(n, h)' = h
                                   /\ (o.made \/ o.kind = "cq"))
      ]_localVars

\* What the assert at hartebeest.cc:166 says of the completion queues that
\* create_basiccq registered: their ibv_cq is not null.
RegisteredCqIsCreated ==
    \A n \in Node, k \in CqKey :
        is_registered(cqCache[n], k) => obj[n][cqCache[n][k]].made

\* What README.md:78 says of a wrapper: it releases what it allocated.  An
\* object no name leads to can never be released by the application, so none
\* should stay allocated.
NothingLeaks == \A n \in Node : \A h \in LocalObjects(n) : EntryOf(n, h) = h

-----------------------------------------------------------------------------
(* The rest of the inductive invariant the proofs use.                     *)

\* Addresses are handed out in order, so an object allocated later has a
\* larger one.
AllocatedInOrder ==
    \A n \in Node : \A g, h \in Handle :
        obj[n][g].kind # "free" /\ obj[n][h].kind = "free" => g < h

\* An object carries a name of its own class, and a queue pair is created.
WellNamed(o) ==
    /\ o.kind = "pd" => o.name \in PdKey
    /\ o.kind = "cq" => o.name \in CqKey
    /\ o.kind = "mr" => o.name \in MrKey
    /\ o.kind = "qp" => o.name \in QpKey /\ o.made
ObjectsNamed == \A n \in Node, h \in Handle : WellNamed(obj[n][h])

LocalInv ==
    /\ LocalTypeOK
    /\ CachesNameLiveObjects
    /\ FirstCreatedWins
    /\ AllocatedInOrder
    /\ ObjectsNamed

=============================================================================

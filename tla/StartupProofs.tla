---------------------------- MODULE StartupProofs ----------------------------
(***************************************************************************)
(* The start of a process, for any environments, files and devices it may  *)
(* find: the proofs of the properties of Startup.                          *)
(***************************************************************************)
EXTENDS Startup, TLAPS

LEMMA SysVarsAre ==
    /\ Len(SysVars) = 4 /\ DOMAIN SysVars = 1..4
    /\ SysVars[1] = "PARTICIPANTS" /\ SysVars[2] = "NID"
    /\ SysVars[3] = "EXC_IP_PORT" /\ SysVars[4] = "CONF_PATH"
BY DEF SysVars

LEMMA ParamsAre ==
    /\ Len(Params) = 7 /\ DOMAIN Params = 1..7
    /\ Params[1] = [section |-> "cq_attr", type |-> "any"]
    /\ Params[2] = [section |-> "qp_init_attr", type |-> "rc"]
    /\ Params[3] = [section |-> "qp_init_attr", type |-> "uc"]
    /\ Params[4] = [section |-> "qp_init_attr", type |-> "ud"]
    /\ Params[5] = [section |-> "qp_attr", type |-> "rc"]
    /\ Params[6] = [section |-> "qp_attr", type |-> "uc"]
    /\ Params[7] = [section |-> "qp_attr", type |-> "ud"]
BY DEF Params

-----------------------------------------------------------------------------
(* The inductive invariant.                                                *)

Stages == { "init_sysvars", "open_file", "init_params", "read_nid",
            "open_device", "bind_port", "ready", "aborted" }

\* Where the process is.
StageInv ==
    /\ setup \in Setup /\ stage \in Stages
    /\ i \in 1..7 /\ (stage = "init_sysvars" => i \in 1..4)

\* The variables before the k-th are cached and set.
ReadTo(k) ==
    /\ sysvars = {SysVars[j] : j \in 1..(k - 1)}
    /\ \A j \in 1..(k - 1) : setup.env[SysVars[j]] # "unset"

\* After the loop the variables are cached up to the first that is not set.
SysvarsInv ==
    \E k \in 1..5 :
      /\ ReadTo(k)
      /\ IF stage = "init_sysvars" THEN k = i
                                   ELSE k = 5 \/ setup.env[SysVars[k]] = "unset"

\* The parameters before the k-th are cached as the file has them.
Loaded(k) ==
    \A p \in 1..7 :
      LET f == setup[FileName] IN
      /\ attrs[p] = IF p < k /\ InSection(f, p)
                    THEN IF Value(f, p) = "good" THEN FileName ELSE "predefined"
                    ELSE "none"
      /\ p < k /\ InSection(f, p) => Value(f, p) # "bad"

\* Why the loops ended at the k-th parameter.
Ended(k) ==
    LET f == setup[FileName] IN
    \/ f.is = "missing" /\ k = 1
    \/ f.is = "object" /\ k = 8
    \/ f.is = "object" /\ k # 8 /\ InSection(f, k) /\ Value(f, k) = "bad"

AttrsInv ==
    /\ attrs \in [1..7 -> {"none", "predefined", "named", "default"}]
    /\ \E k \in 1..8 :
         /\ Loaded(k)
         /\ stage \in {"init_sysvars", "open_file"} => k = 1
         /\ stage = "init_params" => k = i /\ setup[FileName].is = "object"
         /\ stage \in {"read_nid", "open_device", "bind_port", "ready"} \/ calls # {}
              => Ended(k)
         /\ stage = "aborted" => Ended(k) \/ setup[FileName].is = "malformed"

\* What the constructor needed up to its stage was there.
DeviceInv ==
    /\ stage \in {"open_device", "bind_port", "ready"} \/ calls # {} =>
         "NID" \in sysvars /\ setup.env["NID"] # "bad"
    /\ stage = "bind_port" => (setup.idx < setup.n_hca_devs => setup.opens)
    /\ stage = "ready" \/ calls # {} => setup.idx < setup.n_hca_devs /\ setup.opens

\* What the calls needed was there.
CallsInv ==
    /\ calls # {} => stage \in {"ready", "aborted"}
    /\ "exchanger" \in calls =>
         /\ {"NID", "PARTICIPANTS", "EXC_IP_PORT"} \subseteq sysvars
         /\ setup.env["EXC_IP_PORT"] # "bad"
    /\ "create_basiccq" \in calls => Found("cq_attr", "any")
    /\ "create_local_qp" \in calls =>
         "create_basiccq" \in calls /\ Found("qp_init_attr", qp_type)
    /\ "connect_local_qp" \in calls =>
         /\ {"exchanger", "create_local_qp"} \subseteq calls
         /\ Found("qp_attr", qp_type)

UsableInv == Usable(setup) => stage # "aborted"

PidInv == pid \in {"garbage", "port_num"}

StartupInv ==
    /\ StageInv /\ SysvarsInv /\ AttrsInv /\ DeviceInv /\ CallsInv /\ UsableInv
    /\ PidInv

LEMMA StartupInitially == Init => StartupInv
<1> SUFFICES ASSUME Init PROVE StartupInv
  OBVIOUS
<1> USE DEF Init
<1>1. StageInv /\ UsableInv /\ PidInv /\ DeviceInv /\ CallsInv
  BY DEF StageInv, Stages, UsableInv, PidInv, DeviceInv, CallsInv
<1>2. SysvarsInv
  <2>1. ReadTo(1)
    BY DEF ReadTo
  <2> QED
    BY <2>1 DEF SysvarsInv
<1>3. AttrsInv
  <2>1. attrs = [p \in 1..7 |-> "none"]
    BY ParamsAre
  <2>2. Loaded(1)
    BY <2>1 DEF Loaded
  <2> QED
    BY <2>1, <2>2 DEF AttrsInv
<1> QED
  BY <1>1, <1>2, <1>3 DEF StartupInv

-----------------------------------------------------------------------------
(* What the invariant says of a process that finds what it needs.          *)

\* The variables the process gets along without.
LEMMA VariablesCached ==
    ASSUME StageInv, SysvarsInv, stage # "init_sysvars"
    PROVE  /\ \A v \in sysvars : setup.env[v] # "unset"
           /\ "CONF_PATH" \in sysvars <=>
                \A v \in DOMAIN setup.env : setup.env[v] # "unset"
           /\ (/\ setup.env["PARTICIPANTS"] # "unset" /\ setup.env["NID"] # "unset"
               /\ setup.env["EXC_IP_PORT"] # "unset")
              <=> {"NID", "PARTICIPANTS", "EXC_IP_PORT"} \subseteq sysvars
           /\ setup.env["PARTICIPANTS"] # "unset" /\ setup.env["NID"] # "unset"
              => "NID" \in sysvars
<1> PICK k \in 1..5 : ReadTo(k) /\ (k = 5 \/ setup.env[SysVars[k]] = "unset")
  BY DEF SysvarsInv
<1>1. {SysVars[j] : j \in DOMAIN SysVars}
          = {"PARTICIPANTS", "NID", "EXC_IP_PORT", "CONF_PATH"}
  BY SysVarsAre
<1>2. DOMAIN setup.env = {"PARTICIPANTS", "NID", "EXC_IP_PORT", "CONF_PATH"}
  BY <1>1, SetupAssumption DEF StageInv
<1>3. k \in {1, 2, 3, 4, 5}
  OBVIOUS
<1>4. CASE k = 1
  <2>1. sysvars = {} /\ setup.env["PARTICIPANTS"] = "unset"
    BY <1>4, SysVarsAre DEF ReadTo
  <2> QED
    BY <1>2, <2>1
<1>5. CASE k = 2
  <2>1. sysvars = {"PARTICIPANTS"} /\ setup.env["NID"] = "unset"
        /\ setup.env["PARTICIPANTS"] # "unset"
    BY <1>5, SysVarsAre DEF ReadTo
  <2> QED
    BY <1>2, <2>1
<1>6. CASE k = 3
  <2>1. 1..(k - 1) = {1, 2}
    BY <1>6
  <2>2. sysvars = {"PARTICIPANTS", "NID"} /\ setup.env["EXC_IP_PORT"] = "unset"
        /\ setup.env["PARTICIPANTS"] # "unset" /\ setup.env["NID"] # "unset"
    BY <1>6, <2>1, SysVarsAre DEF ReadTo
  <2> QED
    BY <1>2, <2>2
<1>7. CASE k = 4
  <2>1. 1..(k - 1) = {1, 2, 3}
    BY <1>7
  <2>2. sysvars = {"PARTICIPANTS", "NID", "EXC_IP_PORT"}
        /\ setup.env["CONF_PATH"] = "unset" /\ setup.env["EXC_IP_PORT"] # "unset"
        /\ setup.env["PARTICIPANTS"] # "unset" /\ setup.env["NID"] # "unset"
    BY <1>7, <2>1, SysVarsAre DEF ReadTo
  <2> QED
    BY <1>2, <2>2
<1>8. CASE k = 5
  <2>1. 1..(k - 1) = {1, 2, 3, 4}
    BY <1>8
  <2>2. sysvars = {"PARTICIPANTS", "NID", "EXC_IP_PORT", "CONF_PATH"}
        /\ setup.env["CONF_PATH"] # "unset" /\ setup.env["EXC_IP_PORT"] # "unset"
        /\ setup.env["PARTICIPANTS"] # "unset" /\ setup.env["NID"] # "unset"
    BY <1>8, <2>1, SysVarsAre DEF ReadTo
  <2> QED
    BY <1>2, <2>2
<1> QED
  BY <1>3, <1>4, <1>5, <1>6, <1>7, <1>8

\* The loader reads the file the environment names.
LEMMA FileProvided ==
    ASSUME StageInv, SysvarsInv, stage # "init_sysvars",
           {"NID", "PARTICIPANTS", "EXC_IP_PORT"} \subseteq sysvars
    PROVE  setup[FileName] = Provided(setup)
<1>1. DOMAIN setup.env = {"PARTICIPANTS", "NID", "EXC_IP_PORT", "CONF_PATH"}
  <2>1. {SysVars[j] : j \in DOMAIN SysVars}
          = {"PARTICIPANTS", "NID", "EXC_IP_PORT", "CONF_PATH"}
    BY SysVarsAre
  <2> QED
    BY <2>1, SetupAssumption DEF StageInv
<1>2. \A v \in {"NID", "PARTICIPANTS", "EXC_IP_PORT"} : setup.env[v] # "unset"
  BY VariablesCached
<1>3. "CONF_PATH" \in sysvars <=> setup.env["CONF_PATH"] # "unset"
  BY <1>1, <1>2, VariablesCached
<1> QED
  BY <1>3 DEF FileName, Provided

\* What get_attr finds was read before the loops ended.
LEMMA FoundIsLoaded ==
    ASSUME NEW k \in 1..8, Loaded(k), NEW p \in 1..7
    PROVE  attrs[p] # "none" <=> p < k /\ InSection(setup[FileName], p)
BY DEF Loaded, FileName

\* A usable process reads every parameter up to the last one it needs.
LEMMA UsableReadsNeeded ==
    ASSUME StartupInv, Usable(setup),
           stage \in {"read_nid", "open_device", "bind_port", "ready"}
    PROVE  /\ Found("cq_attr", "any") /\ Found("qp_init_attr", qp_type)
           /\ Found("qp_attr", qp_type)
<1> PICK k \in 1..8 : Loaded(k) /\ Ended(k)
  BY DEF StartupInv, AttrsInv
<1> DEFINE f == setup[FileName]
           last == IF qp_type = "rc" THEN 5 ELSE 6
<1>1. stage # "init_sysvars"
  OBVIOUS
<1>2. {"NID", "PARTICIPANTS", "EXC_IP_PORT"} \subseteq sysvars
  BY <1>1, VariablesCached DEF StartupInv, Usable
<1>3. f = Provided(setup)
  BY <1>1, <1>2, FileProvided DEF StartupInv
<1>4. Params[last] = [section |-> "qp_attr", type |-> qp_type] /\ last \in {5, 6}
  BY ParamsAre, SetupAssumption
<1>5. \A p \in 1..last : Needed(p)
  BY <1>4, ParamsAre DEF Needed
<1>6. f.is = "object" /\ \A p \in 1..7 : InSection(f, p) /\ (Needed(p) => Value(f, p) # "bad")
  BY <1>3, ParamsAre DEF Usable
<1> HIDE DEF f, last
<1>7. last < k
  <2>1. CASE k = 8
    BY <2>1, <1>4
  <2>2. CASE k # 8
    <3>1. f.is # "missing"
      BY <1>6
    <3>2. Value(f, k) = "bad" /\ k \in 1..7
      BY <2>2, <3>1 DEF Ended, f
    <3>3. k \notin 1..last
      BY <1>5, <1>6, <3>2
    <3> QED
      BY <1>4, <3>2, <3>3
  <2> QED
    BY <2>1, <2>2
<1>8. \A p \in 1..last : attrs[p] # "none"
  BY <1>4, <1>6, <1>7, FoundIsLoaded DEF f
<1>9. Found("qp_attr", qp_type)
  BY <1>4, <1>8, ParamsAre DEF Found
<1>10. Found("cq_attr", "any")
  BY <1>4, <1>8, ParamsAre DEF Found
<1>11. Found("qp_init_attr", qp_type)
  BY <1>4, <1>8, ParamsAre, SetupAssumption DEF Found
<1> QED
  BY <1>9, <1>10, <1>11

-----------------------------------------------------------------------------
(* Every action keeps the invariant.                                       *)

\* What the invariant says of the variables and parameters depends on nothing
\* else.
LEMMA SameCaches ==
    ASSUME UNCHANGED <<setup, sysvars, attrs>>
    PROVE  /\ FileName' = FileName
           /\ \A k \in 1..5 : ReadTo(k) => ReadTo(k)'
           /\ \A k \in 1..8 : (Loaded(k) => Loaded(k)') /\ (Ended(k) => Ended(k)')
           /\ \A s, t : Found(s, t) => Found(s, t)'
<1>1. FileName' = FileName
  BY DEF FileName
<1>2. \A k \in 1..5 : ReadTo(k) => ReadTo(k)'
  BY DEF ReadTo
<1>3. \A k \in 1..8 : (Loaded(k) => Loaded(k)') /\ (Ended(k) => Ended(k)')
  BY <1>1 DEF Loaded, Ended
<1>4. \A s, t : Found(s, t) => Found(s, t)'
  BY DEF Found
<1> QED
  BY <1>1, <1>2, <1>3, <1>4

\* A process that aborts keeps what it has.
LEMMA DiesKeeps ==
    ASSUME StartupInv, Dies, ~Usable(setup),
           \/ stage \in {"read_nid", "open_device", "bind_port", "ready"}
           \/ stage = "open_file" /\ setup[FileName].is = "malformed"
    PROVE  StartupInv'
<1> USE DEF Dies, Goto
<1>1. StageInv' /\ UsableInv' /\ PidInv'
  BY DEF StartupInv, StageInv, Stages, UsableInv, PidInv
<1>2. SysvarsInv'
  BY SameCaches DEF StartupInv, SysvarsInv
<1>3. AttrsInv'
  <2> PICK k \in 1..8 : /\ Loaded(k) /\ (calls # {} => Ended(k))
                        /\ Ended(k) \/ setup[FileName].is = "malformed"
    BY DEF StartupInv, AttrsInv
  <2>1. /\ Loaded(k)' /\ (calls' # {} => Ended(k)')
        /\ Ended(k)' \/ setup'[FileName'].is = "malformed"
    BY SameCaches
  <2>2. stage' = "aborted" /\ attrs' = attrs
    OBVIOUS
  <2> QED
    BY <2>1, <2>2 DEF StartupInv, AttrsInv
<1>4. DeviceInv'
  BY DEF StartupInv, DeviceInv
<1>5. CallsInv'
  <2>1. calls' = calls /\ stage' = "aborted" /\ UNCHANGED <<setup, sysvars, attrs>>
    OBVIOUS
  <2> QED
    BY <2>1, SameCaches DEF StartupInv, CallsInv
<1> QED
  BY <1>1, <1>2, <1>3, <1>4, <1>5 DEF StartupInv

LEMMA GetEnvKeeps == StartupInv /\ GetEnv => StartupInv'
<1> SUFFICES ASSUME StartupInv, GetEnv PROVE StartupInv'
  OBVIOUS
<1> USE SysVarsAre DEF Goto
<1>1. i \in 1..4 /\ ReadTo(i) /\ stage = "init_sysvars" /\ calls = {}
  BY DEF StartupInv, StageInv, SysvarsInv, CallsInv, GetEnv
<1>2. UNCHANGED <<setup, attrs, pid, calls>> /\ stage' \in {"init_sysvars", "open_file"}
  BY <1>1 DEF GetEnv
<1>3. StageInv'
  BY <1>1, <1>2 DEF StartupInv, StageInv, Stages, GetEnv
<1>4. SysvarsInv'
  <2>1. CASE setup.env[SysVars[i]] = "unset"
    <3>1. sysvars' = sysvars /\ stage' = "open_file"
      BY <2>1 DEF GetEnv
    <3> PICK k \in 1..4 : k = i
      BY <1>1
    <3>2. ReadTo(k)'
      BY <1>1, <1>2, <3>1 DEF ReadTo
    <3>3. k \in 1..5 /\ setup'.env[SysVars[k]] = "unset"
      BY <1>2, <2>1
    <3> QED
      BY <3>1, <3>2, <3>3 DEF SysvarsInv
  <2>2. CASE setup.env[SysVars[i]] # "unset"
    <3>1. sysvars' = sysvars \cup {SysVars[i]} /\ setup' = setup
      BY <2>2 DEF GetEnv
    <3>2. /\ sysvars' = {SysVars[j] : j \in 1..((i + 1) - 1)}
          /\ \A j \in 1..((i + 1) - 1) : setup'.env[SysVars[j]] # "unset"
      BY <1>1, <2>2, <3>1 DEF ReadTo
    <3>3. IF stage' = "init_sysvars" THEN i' = i + 1 ELSE i + 1 = 5
      BY <1>1, <2>2 DEF GetEnv
    <3> QED
      BY <1>1, <3>2, <3>3 DEF SysvarsInv, ReadTo
  <2> QED
    BY <2>1, <2>2
<1>5. AttrsInv'
  <2>1. Loaded(1)
    BY <1>1 DEF StartupInv, AttrsInv
  <2>2. Loaded(1)'
    BY <1>2, <2>1 DEF Loaded
  <2> QED
    BY <1>1, <1>2, <2>2 DEF StartupInv, AttrsInv
<1>6. DeviceInv' /\ CallsInv' /\ UsableInv' /\ PidInv'
  BY <1>1, <1>2 DEF StartupInv, DeviceInv, CallsInv, UsableInv, PidInv
<1> QED
  BY <1>3, <1>4, <1>5, <1>6 DEF StartupInv

LEMMA OpenFileKeeps == StartupInv /\ OpenFile => StartupInv'
<1> SUFFICES ASSUME StartupInv, OpenFile PROVE StartupInv'
  OBVIOUS
<1>1. stage = "open_file" /\ calls = {} /\ setup \in Setup
  BY DEF OpenFile, StartupInv, CallsInv, StageInv
<1>2. CASE setup[FileName].is = "malformed" /\ Dies
  <2>1. ~Usable(setup)
    <3>1. Usable(setup) => setup[FileName] = Provided(setup)
      BY <1>1, VariablesCached, FileProvided DEF StartupInv, Usable
    <3> QED
      BY <1>2, <3>1 DEF Usable
  <2> QED
    BY <1>1, <1>2, <2>1, DiesKeeps
<1>3. ASSUME NEW next \in {"read_nid", "init_params"}, Goto(next),
             next = "read_nid" <=> setup[FileName].is = "missing",
             next = "init_params" <=> setup[FileName].is = "object",
             UNCHANGED <<setup, sysvars, attrs, pid, calls>>
      PROVE  StartupInv'
  <2> USE <1>1, <1>3 DEF Goto
  <2>1. StageInv' /\ DeviceInv' /\ UsableInv' /\ PidInv'
    BY DEF StartupInv, StageInv, Stages, DeviceInv, UsableInv, PidInv
  <2>2. SysvarsInv'
    BY SameCaches DEF StartupInv, SysvarsInv
  <2>3. AttrsInv'
    <3>1. Loaded(1)
      BY DEF StartupInv, AttrsInv
    <3>2. Loaded(1)' /\ FileName' = FileName
      BY <3>1, SameCaches
    <3>3. next = "read_nid" => Ended(1)'
      BY <3>2 DEF Ended
    <3> QED
      BY <3>2, <3>3 DEF StartupInv, AttrsInv
  <2>4. CallsInv'
    BY DEF StartupInv, CallsInv
  <2> QED
    BY <2>1, <2>2, <2>3, <2>4 DEF StartupInv
<1> QED
  BY <1>2, <1>3 DEF OpenFile

LEMMA LoadParamKeeps == StartupInv /\ LoadParam => StartupInv'
<1> SUFFICES ASSUME StartupInv, LoadParam PROVE StartupInv'
  OBVIOUS
<1> USE ParamsAre DEF Goto
<1> PICK k \in 1..7 : k = i
  BY DEF StartupInv, StageInv
<1> DEFINE f == setup[FileName]
           bad == InSection(f, k) /\ Value(f, k) = "bad"
<1>1. stage = "init_params" /\ calls = {} /\ Loaded(k) /\ f.is = "object"
  BY DEF LoadParam, StartupInv, AttrsInv, CallsInv
<1>2. UNCHANGED <<setup, sysvars, pid, calls>> /\ FileName' = FileName
  BY DEF LoadParam, FileName
<1>3. IF InSection(f, k) /\ ~bad THEN Cache(k) ELSE UNCHANGED attrs
  BY DEF LoadParam
<1>4. IF bad \/ k = 7 THEN stage' = "read_nid" /\ i' = 1 ELSE i' = k + 1 /\ stage' = stage
  BY DEF LoadParam
<1> HIDE DEF bad
<1>5. StageInv' /\ DeviceInv' /\ UsableInv' /\ PidInv'
  BY <1>1, <1>2, <1>4
  DEF StartupInv, StageInv, Stages, DeviceInv, UsableInv, PidInv
<1>6. SysvarsInv'
  <2>1. PICK m \in 1..5 : ReadTo(m) /\ (m = 5 \/ setup.env[SysVars[m]] = "unset")
    BY <1>1 DEF StartupInv, SysvarsInv
  <2>2. ReadTo(m)' /\ stage' # "init_sysvars"
    BY <1>1, <1>2, <1>4, <2>1 DEF ReadTo
  <2> QED
    BY <1>2, <2>1, <2>2 DEF SysvarsInv
<1>7. AttrsInv'
  <2>1. attrs' \in [1..7 -> {"none", "predefined", "named", "default"}]
    BY <1>3 DEF StartupInv, AttrsInv, Cache, FileName
  <2>2. CASE bad
    <3>1. attrs' = attrs
      BY <1>3, <2>2
    <3>2. Loaded(k)' /\ Ended(k)'
      BY <1>1, <1>2, <2>2, <3>1 DEF Loaded, Ended, bad, f
    <3> QED
      BY <1>4, <2>1, <2>2, <3>2 DEF AttrsInv
  <2>3. CASE ~bad
    <3>1. Loaded(k + 1)'
      <4>1. SUFFICES ASSUME NEW p \in 1..7
                     PROVE  /\ attrs'[p] = IF p < k + 1 /\ InSection(f, p)
                                           THEN IF Value(f, p) = "good" THEN FileName
                                                ELSE "predefined"
                                           ELSE "none"
                            /\ p < k + 1 /\ InSection(f, p) => Value(f, p) # "bad"
        BY <1>2 DEF Loaded
      <4>2. CASE p = k
        BY <1>1, <1>3, <2>3, <4>2 DEF Loaded, Cache, bad, StartupInv, AttrsInv
      <4>3. CASE p # k
        <5>1. attrs'[p] = attrs[p]
          BY <1>3, <4>3 DEF Cache, StartupInv, AttrsInv
        <5>2. p < k + 1 <=> p < k
          BY <4>3
        <5> QED
          BY <1>1, <5>1, <5>2 DEF Loaded
      <4> QED
        BY <4>2, <4>3
    <3>2. k = 7 => Ended(k + 1)'
      BY <1>1, <1>2 DEF Ended
    <3>3. f'.is = "object"
      BY <1>1, <1>2
    <3> QED
      BY <1>1, <1>2, <1>4, <2>1, <2>3, <3>1, <3>2, <3>3 DEF AttrsInv
  <2> QED
    BY <2>2, <2>3
<1>8. CallsInv'
  BY <1>1, <1>2 DEF StartupInv, CallsInv
<1> QED
  BY <1>5, <1>6, <1>7, <1>8 DEF StartupInv

\* The steps of the constructor after the loops keep what is cached.
LEMMA AdvanceKeeps ==
    ASSUME StartupInv, NEW next \in Stages, Goto(next),
           UNCHANGED <<setup, sysvars, attrs, calls>>, calls = {},
           <<stage, next>> \in { <<"read_nid", "open_device">>,
                                 <<"open_device", "bind_port">>,
                                 <<"bind_port", "ready">> }
    PROVE  StageInv' /\ SysvarsInv' /\ AttrsInv' /\ CallsInv' /\ UsableInv'
<1> USE DEF Goto
<1>1. StageInv' /\ CallsInv' /\ UsableInv'
  BY DEF StartupInv, StageInv, CallsInv, UsableInv
<1>2. SysvarsInv'
  BY SameCaches DEF StartupInv, SysvarsInv
<1>3. AttrsInv'
  <2> PICK k \in 1..8 : Loaded(k) /\ Ended(k)
    BY DEF StartupInv, AttrsInv
  <2>1. Loaded(k)' /\ Ended(k)'
    BY SameCaches
  <2> QED
    BY <2>1 DEF StartupInv, AttrsInv
<1> QED
  BY <1>1, <1>2, <1>3

LEMMA ReadNidKeeps == StartupInv /\ ReadNid => StartupInv'
<1> SUFFICES ASSUME StartupInv, ReadNid PROVE StartupInv'
  OBVIOUS
<1>1. stage = "read_nid" /\ calls = {}
  BY DEF ReadNid, StartupInv, CallsInv
<1>2. CASE ("NID" \notin sysvars \/ setup.env["NID"] = "bad") /\ Dies
  <2>1. ~Usable(setup)
    BY <1>1, <1>2, VariablesCached DEF StartupInv, Usable
  <2> QED
    BY <1>1, <1>2, <2>1, DiesKeeps
<1>3. CASE /\ "NID" \in sysvars /\ setup.env["NID"] # "bad"
           /\ Goto("open_device")
           /\ UNCHANGED <<setup, sysvars, attrs, pid, hb_rc, calls>>
  <2>1. StageInv' /\ SysvarsInv' /\ AttrsInv' /\ CallsInv' /\ UsableInv'
    BY <1>1, <1>3, AdvanceKeeps DEF Stages
  <2>2. DeviceInv' /\ PidInv'
    BY <1>1, <1>3 DEF Goto, StartupInv, DeviceInv, PidInv
  <2> QED
    BY <2>1, <2>2 DEF StartupInv
<1> QED
  BY <1>2, <1>3 DEF ReadNid

LEMMA OpenDeviceKeeps == StartupInv /\ OpenDevice => StartupInv'
<1> SUFFICES ASSUME StartupInv, OpenDevice PROVE StartupInv'
  OBVIOUS
<1>1. stage = "open_device" /\ calls = {} /\ setup \in Setup
  BY DEF OpenDevice, StartupInv, CallsInv, StageInv
<1>2. CASE /\ setup.n_hca_devs = 0 \/ (setup.idx < setup.n_hca_devs /\ ~setup.opens)
           /\ Dies
  <2>1. setup.n_hca_devs \in Nat /\ setup.idx \in Nat
    BY <1>1, SetupAssumption
  <2>2. ~Usable(setup)
    <3>1. Usable(setup) => setup.idx < setup.n_hca_devs /\ setup.opens
      BY DEF Usable
    <3> QED
      BY <1>2, <2>1, <3>1
  <2> QED
    BY <1>1, <1>2, <2>2, DiesKeeps
<1>3. CASE /\ setup.idx < setup.n_hca_devs => setup.opens
           /\ Goto("bind_port")
           /\ UNCHANGED <<setup, sysvars, attrs, pid, calls>>
  <2>1. StageInv' /\ SysvarsInv' /\ AttrsInv' /\ CallsInv' /\ UsableInv'
    BY <1>1, <1>3, AdvanceKeeps DEF Stages
  <2>2. DeviceInv' /\ PidInv'
    BY <1>1, <1>3 DEF Goto, StartupInv, DeviceInv, PidInv
  <2> QED
    BY <2>1, <2>2 DEF StartupInv
<1> QED
  BY <1>2, <1>3 DEF OpenDevice

LEMMA BindPortKeeps == StartupInv /\ BindPort => StartupInv'
<1> SUFFICES ASSUME StartupInv, BindPort PROVE StartupInv'
  OBVIOUS
<1>1. stage = "bind_port" /\ calls = {} /\ setup \in Setup
  BY DEF BindPort, StartupInv, CallsInv, StageInv
<1>2. CASE setup.idx >= setup.n_hca_devs /\ Dies
  <2>1. setup.n_hca_devs \in Nat /\ setup.idx \in Nat
    BY <1>1, SetupAssumption
  <2>2. ~Usable(setup)
    <3>1. Usable(setup) => setup.idx < setup.n_hca_devs /\ setup.opens
      BY DEF Usable
    <3> QED
      BY <1>2, <2>1, <3>1
  <2> QED
    BY <1>1, <1>2, <2>2, DiesKeeps
<1>3. CASE /\ setup.idx < setup.n_hca_devs
           /\ Goto("ready")
           /\ hb_rc' = CASE setup.port = "no_query" -> "PORT_QUERY_ERR"
                         [] setup.port = "no_ib"    -> "NO_IB"
                         [] OTHER                   -> "BIND_PORT_OK"
           /\ pid' = IF setup.port \in {"no_query", "no_ib"} THEN pid ELSE "port_num"
           /\ UNCHANGED <<setup, sysvars, attrs, calls>>
  <2>1. StageInv' /\ SysvarsInv' /\ AttrsInv' /\ CallsInv' /\ UsableInv'
    BY <1>1, <1>3, AdvanceKeeps DEF Stages
  <2>2. DeviceInv' /\ PidInv'
    BY <1>1, <1>3 DEF Goto, StartupInv, DeviceInv, PidInv
  <2> QED
    BY <2>1, <2>2 DEF StartupInv
<1> QED
  BY <1>2, <1>3 DEF BindPort

\* A call that needs what a usable process has.
LEMMA CallKeeps ==
    ASSUME StartupInv, NEW name, NEW works, Call(name, works),
           Usable(setup) => works,
           works => CASE name = "exchanger" ->
                           /\ {"NID", "PARTICIPANTS", "EXC_IP_PORT"} \subseteq sysvars
                           /\ setup.env["EXC_IP_PORT"] # "bad"
                      [] name = "create_basiccq" -> Found("cq_attr", "any")
                      [] name = "create_local_qp" ->
                           "create_basiccq" \in calls /\ Found("qp_init_attr", qp_type)
                      [] name = "connect_local_qp" ->
                           /\ {"exchanger", "create_local_qp"} \subseteq calls
                           /\ Found("qp_attr", qp_type)
    PROVE  StartupInv'
<1>1. stage = "ready"
  BY DEF Call
<1>2. CASE ~works /\ Dies
  BY <1>1, <1>2, DiesKeeps
<1>3. CASE /\ works
           /\ calls' = calls \cup {name}
           /\ UNCHANGED <<setup, stage, i, sysvars, attrs, pid, hb_rc>>
  <2>1. StageInv' /\ UsableInv' /\ PidInv' /\ DeviceInv'
    BY <1>1, <1>3
    DEF StartupInv, StageInv, UsableInv, PidInv, DeviceInv
  <2>2. SysvarsInv'
    BY <1>3, SameCaches DEF StartupInv, SysvarsInv
  <2>3. AttrsInv'
    <3> PICK k \in 1..8 : Loaded(k) /\ Ended(k)
      BY <1>1 DEF StartupInv, AttrsInv
    <3>1. Loaded(k)' /\ Ended(k)'
      BY <1>3, SameCaches
    <3> QED
      BY <1>1, <1>3, <3>1 DEF StartupInv, AttrsInv
  <2>4. CallsInv'
    <3>1. \A s, t : Found(s, t) => Found(s, t)'
      BY <1>3, SameCaches
    <3> QED
      BY <1>1, <1>3, <3>1 DEF StartupInv, CallsInv
  <2> QED
    BY <2>1, <2>2, <2>3, <2>4 DEF StartupInv
<1> QED
  BY <1>2, <1>3 DEF Call

LEMMA CallsKeep ==
    StartupInv /\ (Exchanger \/ CreateBasicCq \/ CreateLocalQp \/ ConnectLocalQp)
        => StartupInv'
<1> SUFFICES ASSUME StartupInv,
                    Exchanger \/ CreateBasicCq \/ CreateLocalQp \/ ConnectLocalQp
             PROVE  StartupInv'
  OBVIOUS
<1>1. stage = "ready"
  BY DEF Exchanger, CreateBasicCq, CreateLocalQp, ConnectLocalQp, Call
<1>2. Usable(setup) => /\ Found("cq_attr", "any") /\ Found("qp_init_attr", qp_type)
                       /\ Found("qp_attr", qp_type)
  BY <1>1, UsableReadsNeeded
<1>3. CASE Exchanger
  <2> DEFINE works == /\ {"NID", "PARTICIPANTS", "EXC_IP_PORT"} \subseteq sysvars
                      /\ setup.env["EXC_IP_PORT"] # "bad"
  <2>1. Usable(setup) => works
    BY <1>1, VariablesCached DEF StartupInv, Usable
  <2>2. Call("exchanger", works)
    BY <1>3 DEF Exchanger
  <2> QED
    BY <2>1, <2>2, CallKeeps
<1>4. CASE CreateBasicCq
  <2> DEFINE works == Found("cq_attr", "any")
  <2>1. Call("create_basiccq", works)
    BY <1>4 DEF CreateBasicCq
  <2> QED
    BY <1>2, <2>1, CallKeeps
<1>5. CASE CreateLocalQp
  <2> DEFINE works == Found("qp_init_attr", qp_type)
  <2>1. Call("create_local_qp", works) /\ "create_basiccq" \in calls
    BY <1>5 DEF CreateLocalQp
  <2> QED
    BY <1>2, <2>1, CallKeeps
<1>6. CASE ConnectLocalQp
  <2> DEFINE works == Found("qp_attr", qp_type)
  <2>1. Call("connect_local_qp", works) /\ {"exchanger", "create_local_qp"} \subseteq calls
    BY <1>6 DEF ConnectLocalQp
  <2> QED
    BY <1>2, <2>1, CallKeeps
<1> QED
  BY <1>3, <1>4, <1>5, <1>6

LEMMA StartupStutters == StartupInv /\ UNCHANGED vars => StartupInv'
<1> SUFFICES ASSUME StartupInv, UNCHANGED vars PROVE StartupInv'
  OBVIOUS
<1> USE DEF vars
<1>1. StageInv' /\ UsableInv' /\ PidInv' /\ DeviceInv'
  BY DEF StartupInv, StageInv, UsableInv, PidInv, DeviceInv
<1>2. SysvarsInv'
  BY SameCaches DEF StartupInv, SysvarsInv
<1>3. AttrsInv'
  BY SameCaches DEF StartupInv, AttrsInv
<1>4. CallsInv'
  BY SameCaches DEF StartupInv, CallsInv
<1> QED
  BY <1>1, <1>2, <1>3, <1>4 DEF StartupInv

\* StartupInv holds in every reachable state.
THEOREM StartupInvariant == Spec => []StartupInv
<1>1. StartupInv /\ [Next]_vars => StartupInv'
  BY GetEnvKeeps, OpenFileKeeps, LoadParamKeeps, ReadNidKeeps, OpenDeviceKeeps,
     BindPortKeeps, CallsKeep, StartupStutters DEF Next
<1> QED
  BY StartupInitially, <1>1, PTL DEF Spec

-----------------------------------------------------------------------------
(* What the invariant says.                                                *)

\* The constructor keeps its types, and reads its variables without a gap.
THEOREM StartupTypeCorrect == Spec => []StartupTypeOK
<1>1. StartupInv => StartupTypeOK
  <2> SUFFICES ASSUME StartupInv PROVE StartupTypeOK
    OBVIOUS
  <2>1. PICK k \in 1..5 : sysvars = {SysVars[j] : j \in 1..(k - 1)}
    BY DEF StartupInv, SysvarsInv, ReadTo
  <2>2. sysvars \in { {SysVars[j] : j \in 1..m} : m \in 0..Len(SysVars) }
    BY <2>1, SysVarsAre
  <2>3. i \in 1..Len(Params) /\ pid \in {"garbage", "port_num"}
        /\ attrs \in [DOMAIN Params -> {"none", "predefined", "named", "default"}]
    BY ParamsAre DEF StartupInv, StageInv, PidInv, AttrsInv
  <2> QED
    BY <2>2, <2>3 DEF StartupTypeOK
<1> QED
  BY <1>1, StartupInvariant, PTL

\* A process that finds what it must never aborts, and one that made all its
\* calls found it.
THEOREM StartsIffUsableCorrect == Spec => []StartsIffUsable
<1>1. StartupInv => StartsIffUsable
  <2> SUFFICES ASSUME StartupInv, "connect_local_qp" \in calls PROVE Usable(setup)
    BY DEF StartupInv, UsableInv, StartsIffUsable
  <2> DEFINE f == setup[FileName]
  <2>1. /\ {"NID", "PARTICIPANTS", "EXC_IP_PORT"} \subseteq sysvars
        /\ setup.env["EXC_IP_PORT"] # "bad" /\ setup.env["NID"] # "bad"
        /\ setup.idx < setup.n_hca_devs /\ setup.opens
        /\ Found("cq_attr", "any") /\ Found("qp_init_attr", qp_type)
        /\ Found("qp_attr", qp_type)
    BY DEF StartupInv, CallsInv, DeviceInv
  <2>2. stage # "init_sysvars" /\ setup \in Setup
    BY DEF StartupInv, CallsInv, StageInv
  <2>3. f = Provided(setup)
    BY <2>1, <2>2, FileProvided DEF StartupInv
  <2>4. /\ setup.env["PARTICIPANTS"] # "unset"
        /\ setup.env["NID"] = "good" /\ setup.env["EXC_IP_PORT"] = "good"
    <3>1. \A v \in {"PARTICIPANTS", "NID", "EXC_IP_PORT"} :
            setup.env[v] \in {"unset", "good", "bad"}
      <4>1. {SysVars[j] : j \in DOMAIN SysVars}
              = {"PARTICIPANTS", "NID", "EXC_IP_PORT", "CONF_PATH"}
        BY SysVarsAre
      <4> QED
        BY <2>2, <4>1, SetupAssumption
    <3> QED
      BY <2>1, <2>2, <3>1, VariablesCached DEF StartupInv
  <2> PICK k \in 1..8 : Loaded(k) /\ Ended(k)
    BY DEF StartupInv, AttrsInv
  <2>5. PICK p \in 1..7 : Params[p] = [section |-> "qp_attr", type |-> qp_type]
                          /\ attrs[p] # "none"
    BY <2>1, ParamsAre DEF Found
  <2>6. p < k /\ InSection(f, p)
    BY <2>5, FoundIsLoaded
  <2>7. f.is = "object"
    BY <2>6 DEF Ended
  <2>8. InSection(f, 1) /\ \E r \in 2..4 : InSection(f, r)
    BY <2>1, FoundIsLoaded, ParamsAre DEF Found
  <2>9. \A r \in 1..7 : InSection(f, r)
    <3> HIDE DEF f
    <3>1. {"cq_attr", "qp_init_attr", "qp_attr"} \subseteq DOMAIN f.has
      BY <2>5, <2>6, <2>8, ParamsAre DEF InSection
    <3>2. \A r \in 1..7 : Params[r].section \in {"cq_attr", "qp_init_attr", "qp_attr"}
      BY ParamsAre
    <3> QED
      BY <3>1, <3>2 DEF InSection
  <2>10. \A r \in 1..7 : Needed(r) => Value(f, r) # "bad"
    <3> SUFFICES ASSUME NEW r \in 1..7, Needed(r) PROVE Value(f, r) # "bad"
      OBVIOUS
    <3>1. r <= p
      BY <2>5, ParamsAre, SetupAssumption DEF Needed
    <3> QED
      BY <2>6, <2>9, <3>1 DEF Loaded
  <2> QED
    BY <2>1, <2>3, <2>4, <2>7, <2>9, <2>10, ParamsAre DEF Usable
<1> QED
  BY <1>1, StartupInvariant, PTL

\* What is cached is what the file that the environment names gives, or the
\* predefined value, and after the loops nothing else is missing than what the
\* file has no section for or a bad value kept from being read.
THEOREM AttrsAsConfiguredCorrect == Spec => []AttrsAsConfigured
<1>1. StartupInv => AttrsAsConfigured
  <2> SUFFICES ASSUME StartupInv PROVE AttrsAsConfigured
    OBVIOUS
  <2> DEFINE name == IF \E v \in DOMAIN setup.env : setup.env[v] = "unset"
                     THEN "default" ELSE "named"
  <2> DEFINE AfterLoops == stage \notin {"init_sysvars", "open_file", "init_params"}
             IsNamed(p) == attrs[p] # "none" =>
                 /\ InSection(setup[name], p)
                 /\ attrs[p] = IF Value(setup[name], p) = "good" THEN name ELSE "predefined"
             NotDropped(p) == AfterLoops /\ attrs[p] = "none" =>
                 \/ setup[name].is # "object" \/ ~InSection(setup[name], p)
                 \/ \E r \in 1..p : InSection(setup[name], r) /\ Value(setup[name], r) = "bad"
  <2> SUFFICES ASSUME NEW p \in 1..7 PROVE IsNamed(p) /\ NotDropped(p)
    BY ParamsAre DEF AttrsAsConfigured
  <2> PICK k \in 1..8 :
        /\ Loaded(k)
        /\ stage \in {"init_sysvars", "open_file"} => k = 1
        /\ AfterLoops => Ended(k) \/ setup[FileName].is = "malformed"
    BY DEF StartupInv, StageInv, Stages, AttrsInv
  <2>1. CASE stage = "init_sysvars"
    BY <2>1 DEF Loaded
  <2>2. CASE stage # "init_sysvars"
    <3>1. name = FileName
      BY <2>2, VariablesCached DEF StartupInv, FileName
    <3> HIDE DEF name
    <3>2. IsNamed(p)
      BY <3>1 DEF Loaded
    <3>3. ASSUME AfterLoops, attrs[p] = "none", setup[name].is = "object",
                 InSection(setup[name], p)
          PROVE  \E r \in 1..p : InSection(setup[name], r) /\ Value(setup[name], r) = "bad"
      <4>1. k <= p
        BY <3>1, <3>3, FoundIsLoaded
      <4>2. k # 8 /\ k \in 1..p
        BY <4>1
      <4>3. InSection(setup[name], k) /\ Value(setup[name], k) = "bad"
        BY <3>1, <3>3, <4>2 DEF Ended
      <4> QED
        BY <4>2, <4>3
    <3> QED
      BY <3>2, <3>3
  <2> QED
    BY <2>1, <2>2
<1> QED
  BY <1>1, StartupInvariant, PTL

=============================================================================

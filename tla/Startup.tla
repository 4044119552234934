-------------------------------- MODULE Startup --------------------------------
(***************************************************************************)
(* The start of a process: the constructor of HartebeestCore               *)
(* (hartebeest.cc:11-23) over ConfigLoader (hb_cfgldr.cc) and HcaInitializer*)
(* (hb_hca.cc), and the first call of each sort that uses what they cached.*)
(* The constructor drops every return code; what it did not find is missed *)
(* when it is used, by a failed assert or through a null pointer.          *)
(*                                                                         *)
(* Of the parameters one stands for all those of a section and of a queue  *)
(* pair type: the program uses them together.  A parameter of a file is    *)
(* not there, good, or bad: of a type that is no number.                   *)
(***************************************************************************)
EXTENDS Naturals, Sequences

CONSTANTS
    Setup,      \* the environments, files and devices a process may find
    qp_type     \* the type of the queue pairs, the prefix of their parameters

\* The variables and the parameters, in the order in which they are read.
SysVars == << "PARTICIPANTS", "NID", "EXC_IP_PORT", "CONF_PATH" >>
Params == << [section |-> "cq_attr", type |-> "any"],
             [section |-> "qp_init_attr", type |-> "rc"],
             [section |-> "qp_init_attr", type |-> "uc"],
             [section |-> "qp_init_attr", type |-> "ud"],
             [section |-> "qp_attr", type |-> "rc"],
             [section |-> "qp_attr", type |-> "uc"],
             [section |-> "qp_attr", type |-> "ud"] >>
Section == { Params[i].section : i \in DOMAIN Params }

\* A variable is not set, good, or bad: not what it should be.
ASSUME SetupAssumption ==
    /\ qp_type \in {"rc", "uc"}
    /\ \A s \in Setup :
         /\ s.env \in [{SysVars[j] : j \in DOMAIN SysVars} -> {"unset", "good", "bad"}]
         /\ {s.named.is, s.default.is} \subseteq {"missing", "malformed", "object"}
         /\ s.n_hca_devs \in Nat /\ s.idx \in Nat /\ s.opens \in BOOLEAN

VARIABLES
    setup,      \* what this process finds
    stage,      \* how far it got
    i,          \* the next variable or parameter
    sysvars,    \* ConfigLoader::sysvar_cache
    attrs,      \* ConfigLoader::attr_cache: where the value comes from
    pid,        \* Hca::hca_pid, and so hca_plid
    hb_rc,      \* the last return code
    calls       \* the calls that were made

vars == <<setup, stage, i, sysvars, attrs, pid, hb_rc, calls>>

Init ==
    /\ setup \in Setup
    /\ stage = "init_sysvars" /\ i = 1
    /\ sysvars = {}
    /\ attrs = [p \in DOMAIN Params |-> "none"]
    /\ pid = "garbage"
    /\ hb_rc = "none"
    /\ calls = {}

Goto(next) == stage' = next /\ i' = 1
Dies == Goto("aborted") /\ UNCHANGED <<setup, sysvars, attrs, pid, hb_rc, calls>>

\* A faulty loop: it goes on after a variable that is not set.
GetEnvGoesOn ==
    /\ stage = "init_sysvars"
    /\ sysvars' = IF setup.env[SysVars[i]] = "unset" THEN sysvars
                                                     ELSE sysvars \cup {SysVars[i]}
    /\ IF i = Len(SysVars) THEN Goto("open_file") ELSE i' = i + 1 /\ UNCHANGED stage
    /\ UNCHANGED <<setup, attrs, pid, hb_rc, calls>>

\* One round of the loop of init_sysvars, which the first variable that is not
\* set ends.
GetEnv ==
    /\ stage = "init_sysvars"
    /\ IF setup.env[SysVars[i]] = "unset"
       THEN /\ Goto("open_file")
            /\ hb_rc' = "ENVVAR_NOT_FOUND"
            /\ UNCHANGED sysvars
       ELSE /\ sysvars' = sysvars \cup {SysVars[i]}
            /\ IF i < Len(SysVars) THEN i' = i + 1 /\ UNCHANGED <<stage, hb_rc>>
                                   ELSE Goto("open_file") /\ hb_rc' = "OK"
    /\ UNCHANGED <<setup, attrs, pid, calls>>

\* A faulty loader: the variable comes too late for the name of the file.
FileNameFixed == "default"
\* The name of the file: the one of the variable if the loop got there.
FileName == IF "CONF_PATH" \in sysvars THEN "named" ELSE "default"

\* A parse error is thrown outside the try block.
OpenFile ==
    /\ stage = "open_file"
    /\ \/ setup[FileName].is = "malformed" /\ Dies
       \/ /\ setup[FileName].is = "missing"
          /\ Goto("read_nid")
          /\ hb_rc' = "FILE_NOT_FOUND"
          /\ UNCHANGED <<setup, sysvars, attrs, pid, calls>>
       \/ /\ setup[FileName].is = "object"
          /\ Goto("init_params")
          /\ UNCHANGED <<setup, sysvars, attrs, pid, hb_rc, calls>>

InSection(f, p) == Params[p].section \in DOMAIN f.has
Value(f, p) == f.has[Params[p].section][Params[p].type]

\* A faulty substitution: only parameters that are in the file are cached.
CacheFound(p) ==
    attrs' = [attrs EXCEPT ![p] =
                IF Value(setup[FileName], p) = "good" THEN FileName ELSE @]
Cache(p) ==
    attrs' = [attrs EXCEPT ![p] =
                IF Value(setup[FileName], p) = "good" THEN FileName ELSE "predefined"]

\* One round of the loops of init_params.  The parameters of a section that
\* the file does not have are not cached, not even as they are predefined; a
\* value of another type throws, and the rest is not cached either.
LoadParam ==
    /\ stage = "init_params"
    /\ LET f == setup[FileName]
           bad == InSection(f, i) /\ Value(f, i) = "bad"
       IN  /\ IF InSection(f, i) /\ ~bad THEN Cache(i) ELSE UNCHANGED attrs
           /\ IF bad \/ i = Len(Params)
              THEN /\ Goto("read_nid")
                   /\ hb_rc' = IF bad THEN "JSON_ERR" ELSE "OK"
              ELSE i' = i + 1 /\ UNCHANGED <<stage, hb_rc>>
    /\ UNCHANGED <<setup, sysvars, pid, calls>>

\* std::stoi(get_sysvar("HARTEBEEST_NID")), of a null pointer if it is not there.
ReadNid ==
    /\ stage = "read_nid"
    /\ \/ /\ "NID" \notin sysvars \/ setup.env["NID"] = "bad"
          /\ Dies
       \/ /\ "NID" \in sysvars /\ setup.env["NID"] # "bad"
          /\ Goto("open_device")
          /\ UNCHANGED <<setup, sysvars, attrs, pid, hb_rc, calls>>

\* The constructor of HcaInitializer asserts that there is a device; the
\* context of a device that does not open is not looked at before it is used.
\* The query of the attributes may fail, which stops nothing.
OpenDevice ==
    /\ stage = "open_device"
    /\ \/ /\ setup.n_hca_devs = 0 \/ (setup.idx < setup.n_hca_devs /\ ~setup.opens)
          /\ Dies
       \/ /\ setup.n_hca_devs # 0
          /\ setup.idx < setup.n_hca_devs => setup.opens
          /\ Goto("bind_port")
          /\ hb_rc' \in IF setup.idx < setup.n_hca_devs THEN {"OPEN_OK", "OPEN_ERR"}
                                                       ELSE {"RANGE_ERR"}
          /\ UNCHANGED <<setup, sysvars, attrs, pid, calls>>

\* hca_vec.at(idx) comes before the test of idx and throws.  A port that is
\* not active is bound: the code for it is made and not returned.
BindPort ==
    /\ stage = "bind_port"
    /\ \/ setup.idx >= setup.n_hca_devs /\ Dies
       \/ /\ setup.idx < setup.n_hca_devs
          /\ Goto("ready")
          /\ hb_rc' = CASE setup.port = "no_query" -> "PORT_QUERY_ERR"
                        [] setup.port = "no_ib"    -> "NO_IB"
                        [] OTHER                   -> "BIND_PORT_OK"
          /\ pid' = IF setup.port \in {"no_query", "no_ib"} THEN pid ELSE "port_num"
          /\ UNCHANGED <<setup, sysvars, attrs, calls>>

-----------------------------------------------------------------------------
(* The calls of the application that use what was cached.                  *)

Call(name, works) ==
    /\ stage = "ready" /\ name \notin calls
    /\ \/ ~works /\ Dies
       \/ /\ works
          /\ calls' = calls \cup {name}
          /\ UNCHANGED <<setup, stage, i, sysvars, attrs, pid, hb_rc>>

\* HARTEBEEST_MEMC_HDL: the constructor of Exchanger.
Exchanger ==
    Call("exchanger",
         /\ {"NID", "PARTICIPANTS", "EXC_IP_PORT"} \subseteq sysvars
         /\ setup.env["EXC_IP_PORT"] # "bad")

\* get_attr and get_pref_attr.
Found(section, type) ==
    \E p \in DOMAIN Params :
        Params[p] = [section |-> section, type |-> type] /\ attrs[p] # "none"

CreateBasicCq == Call("create_basiccq", Found("cq_attr", "any"))
CreateLocalQp ==
    /\ "create_basiccq" \in calls
    /\ Call("create_local_qp", Found("qp_init_attr", qp_type))
ConnectLocalQp ==
    /\ {"exchanger", "create_local_qp"} \subseteq calls
    /\ Call("connect_local_qp", Found("qp_attr", qp_type))

Next ==
    \/ GetEnv \/ OpenFile \/ LoadParam \/ ReadNid \/ OpenDevice \/ BindPort
    \/ Exchanger \/ CreateBasicCq \/ CreateLocalQp \/ ConnectLocalQp

Spec == Init /\ [][Next]_vars

-----------------------------------------------------------------------------
\* Every variable has the type its comment says, and the variables are cached
\* from the first one on without a gap.
StartupTypeOK ==
    /\ i \in 1..Len(Params)
    /\ sysvars \in { {SysVars[j] : j \in 1..k} : k \in 0..Len(SysVars) }
    /\ attrs \in [DOMAIN Params -> {"none", "predefined", "named", "default"}]
    /\ pid \in {"garbage", "port_num"}

\* What a process must find, said without how it looks for it.  The file is
\* the named one if there is a name, and needs no more than its sections, but
\* no bad value up to the last parameter of the type in use.  That it needs the
\* sections at all is what the code does and not what its documentation says:
\* see PredefinedSuffice.
Provided(s) == IF s.env["CONF_PATH"] # "unset" THEN s.named ELSE s.default
Needed(p) == \E q \in DOMAIN Params :
                p <= q /\ Params[q] = [section |-> "qp_attr", type |-> qp_type]
Usable(s) ==
    /\ s.env["PARTICIPANTS"] # "unset"
    /\ s.env["NID"] = "good" /\ s.env["EXC_IP_PORT"] = "good"
    /\ Provided(s).is = "object"
    /\ \A p \in DOMAIN Params :
         /\ InSection(Provided(s), p)
         /\ Needed(p) => Value(Provided(s), p) # "bad"
    /\ s.idx < s.n_hca_devs /\ s.opens

\* A process that finds what it must never aborts, and one that got through
\* all calls found it: the return codes the constructor drops hide nothing
\* else, and every one of the conditions is needed.
StartsIffUsable ==
    /\ Usable(setup) => stage # "aborted"
    /\ "connect_local_qp" \in calls => Usable(setup)

\* What is cached is the value of the file the environment names, wherever it
\* gives one, also when a later parameter ended the loops, and after the loops
\* a parameter is only missing if the file could not be read, has no section
\* for it, or a bad value at it or before it.  A variable that is not set hides
\* the name of the file: the process goes on with the file of the default name.
AttrsAsConfigured ==
    LET name == IF \E v \in DOMAIN setup.env : setup.env[v] = "unset"
                THEN "default" ELSE "named"
        bad(p) == InSection(setup[name], p) /\ Value(setup[name], p) = "bad"
    IN  \A p \in DOMAIN Params :
          /\ attrs[p] # "none" =>
               /\ InSection(setup[name], p)
               /\ attrs[p] = IF Value(setup[name], p) = "good" THEN name ELSE "predefined"
          /\ /\ stage \notin {"init_sysvars", "open_file", "init_params"}
             /\ attrs[p] = "none" /\ setup[name].is = "object" /\ InSection(setup[name], p)
             => \E r \in 1..p : bad(r)

\* src/README.md:127: the parameters are predefined, and a configuration file
\* can change them.  A process with a good environment and device whose file
\* holds no bad value should then get through its calls.
PredefinedSuffice ==
    /\ \A v \in DOMAIN setup.env : setup.env[v] = "good"
    /\ setup.idx < setup.n_hca_devs /\ setup.opens
    /\ setup.named.is = "object"
    /\ \A p \in DOMAIN Params :
         InSection(setup.named, p) => Value(setup.named, p) # "bad"
    => stage # "aborted"

=============================================================================

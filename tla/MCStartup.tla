------------------------------- MODULE MCStartup -------------------------------
(***************************************************************************)
(* Any file with one of several environments, and any devices and port     *)
(* with a good file and environment.                                       *)
(***************************************************************************)
EXTENDS Startup

Given == {"none", "good", "bad"}
MCSection == [any : Given] \cup [rc : Given, uc : Given, ud : {"good", "bad"}]
TypesOf(s) == IF s = "cq_attr" THEN {"any"} ELSE {"rc", "uc", "ud"}
File(is, has) == [is |-> is, has |-> has]
Shapes == UNION { { File("object", f) : f \in
                      { f \in [S -> MCSection] : \A s \in S : DOMAIN f[s] = TypesOf(s) } } :
                    S \in SUBSET Section }
Missing == File("missing", <<>>)
Malformed == File("malformed", <<>>)
Empty == File("object", [s \in Section |-> [t \in TypesOf(s) |-> "none"]])

AllSet == [v \in {"PARTICIPANTS", "NID", "EXC_IP_PORT", "CONF_PATH"} |-> "good"]
Envs == {AllSet}
    \cup {[AllSet EXCEPT ![v] = w] :
            v \in {"PARTICIPANTS", "NID", "EXC_IP_PORT", "CONF_PATH"}, w \in {"unset"}}
    \cup {[AllSet EXCEPT ![v] = "bad"] : v \in {"NID", "EXC_IP_PORT"}}

Setups(envs, named, default, n, idx, opens, port) ==
    [ env : envs, named : named, default : default,
      n_hca_devs : n, idx : idx, opens : opens, port : port ]

MCSetup ==
    Setups(Envs, Shapes, {Empty}, {1}, {0}, {TRUE}, {"active"})
    \cup Setups(Envs, {Empty}, Shapes, {1}, {0}, {TRUE}, {"active"})
    \cup Setups(Envs, {Missing, Malformed}, {Missing, Malformed, Empty},
                {1}, {0}, {TRUE}, {"active"})
    \cup Setups({AllSet}, {Empty}, {Missing}, 0..2, 0..2, BOOLEAN,
                {"active", "down", "no_query", "no_ib"})

=============================================================================

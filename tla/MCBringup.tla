------------------------------- MODULE MCBringup -------------------------------
(***************************************************************************)
(* The two nodes of test/core-test.cc.  A launch of the flow allocates 7   *)
(* objects, so 14 addresses are enough for two launches of a node.         *)
(***************************************************************************)
EXTENDS Bringup

CONSTANTS n0, n1

MCNode == {n0, n1}
MCMrName == {"mr-0", "mr-1"}
MCQpName == {"qp-0", "qp-1"}
MCmr_name == [n \in MCNode |-> IF n = n0 THEN "mr-0" ELSE "mr-1"]
MCqp_name == [n \in MCNode |-> IF n = n0 THEN "qp-0" ELSE "qp-1"]

OneLaunch == 1..7
TwoLaunches == 1..14

Kills == {"kill"}

=============================================================================

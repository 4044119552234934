------------------------------ MODULE MCCoreTest ------------------------------
(***************************************************************************)
(* The two nodes of test/core-test.cc: killed and launched again, or with  *)
(* everything else that can go wrong in one launch.                        *)
(***************************************************************************)
EXTENDS CoreTest, MCBringup

CallFaults == {"kill", "ibv_reg_mr", "ibv_modify_qp", "ibv_poll_cq", "link",
               "memcached_set", "memcached_get", "memcached_delete",
               "nonzero_memory"}

=============================================================================

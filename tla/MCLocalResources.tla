--------------------------- MODULE MCLocalResources ---------------------------
(***************************************************************************)
(* One process with every name of each kind it needs to use one twice, two *)
(* completion queues, and every external call of the component failing.    *)
(***************************************************************************)
EXTENDS LocalResources

MCHandle == 1..6
MCFaults == {"ibv_alloc_pd", "aligned_alloc", "ibv_reg_mr", "ibv_create_cq",
             "ibv_create_qp", "ibv_modify_qp"}

=============================================================================

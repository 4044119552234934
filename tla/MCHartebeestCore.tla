--------------------------- MODULE MCHartebeestCore ---------------------------
(***************************************************************************)
(* Two processes that make any call of the exchange with one key of each   *)
(* sort, are killed and launched again, with Memcached losing keys and     *)
(* reporting errors and ibv_modify_qp failing.                             *)
(***************************************************************************)
EXTENDS HartebeestCore, TLC

MCHandle == 1..4
MCFaults == {"ibv_modify_qp", "memcached_set", "memcached_evict"}
MCSymmetry == Permutations(Node)

=============================================================================

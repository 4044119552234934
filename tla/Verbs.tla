-------------------------------- MODULE Verbs --------------------------------
(***************************************************************************)
(* What the library relies on of libibverbs: the states of a reliable      *)
(* connected queue pair and the moves between them ibv_modify_qp accepts.  *)
(* The library is external code, modelled from the calls of hb_qps.cc.     *)
(***************************************************************************)

\* IBV_QPS_RESET, IBV_QPS_INIT, IBV_QPS_RTR and IBV_QPS_RTS.
QpState == {"RESET", "INIT", "RTR", "RTS"}

\* The (from, to) pairs the library can ask for and the device accepts.
\* RTR -> RTR, RTR -> INIT, RTS -> INIT and RTS -> RTR are refused.
QpMove == { <<"RESET", "INIT">>, <<"INIT", "INIT">>, <<"INIT", "RTR">>,
            <<"RTR", "RTS">>, <<"RTS", "RTS">> }

=============================================================================

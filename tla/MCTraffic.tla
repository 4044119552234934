------------------------------- MODULE MCTraffic -------------------------------
(***************************************************************************)
(* Two processes with two queue pairs each.  Those of the first complete on*)
(* one completion queue, which three requests in flight overrun, and which *)
(* is polled for receives too.  The second queue pair of the second is the *)
(* only one that completes on its completion queue.  The region <<b, 8>> of*)
(* the second process is gone.                                             *)
(***************************************************************************)
EXTENDS Traffic

CONSTANTS a, b

MCNode == {a, b}

qp == [n \in MCNode |-> [i \in 1..2 |-> <<n, i>>]]
MCPair == {qp[a][1], qp[a][2], qp[b][1], qp[b][2]}
MCSender == {qp[a][1], qp[a][2], qp[b][2]}
MCsend_cq == [q \in MCPair |-> IF q[1] = a THEN 3 ELSE 2 + q[2]]
MCrecv_cq == [q \in MCPair |-> 3]
MCpeer == [q \in MCPair |-> IF q[1] = a THEN <<b, q[2]>> ELSE <<a, q[2]>>]
MCpayload == [q \in MCSender |-> <<q[1], 4 + q[2]>>]
MCtarget == [q \in MCSender |-> <<IF q[1] = a THEN b ELSE a, 6 + q[2]>>]
MCGone == {<<b, 8>>}
MCInline == [q \in MCSender |-> IF q = qp[a][2] THEN {TRUE} ELSE BOOLEAN]
MCSetup == {{qp[a][1], qp[a][2]}, {qp[a][2], qp[b][2]}}
MCMaxPost == [q \in MCSender |-> IF q = qp[b][2] THEN 3 ELSE IF q = qp[a][1] THEN 2 ELSE 1]
MCMaxBlind == [q \in MCSender |-> IF q = qp[a][2] THEN 0 ELSE 1]

=============================================================================

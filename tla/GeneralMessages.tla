---------------------------- MODULE GeneralMessages ----------------------------
(***************************************************************************)
(* The general messages of HartebeestCore (hartebeest.cc:33-76): a key of  *)
(* the Memcached server that is there or not, with a value nobody reads.   *)
(* A Memcached call is atomic at the server; when libmemcached reports an  *)
(* error the server may have carried it out or not.                        *)
(***************************************************************************)
EXTENDS LocalResources

VARIABLE general    \* the message keys on the server

\* memc_push_general: no test whether the key is there.
PushGeneral(n, key) ==
    \/ general' = general \cup {key} /\ Return(n, TRUE)
    \/ /\ "memcached_set" \in Faults
       /\ general' \in {general, general \cup {key}}
       /\ Return(n, FALSE)

\* A faulty wait: the loop ends after 10000 tries with no test why it ended.
WaitGeneralUntested(n, key) ==
    /\ Return(n, TRUE)
    /\ UNCHANGED general

(* memc_wait_general: it ends when a try finds the key or with the 10000th *)
(* that does not, which may come at any time: sleep(0.5) is sleep(0).      *)
WaitGeneral(n, key) ==
    /\ \/ key \in general /\ Return(n, TRUE)
       \/ /\ key \notin general \/ "memcached_get" \in Faults
          /\ Return(n, FALSE)
    /\ UNCHANGED general

\* A faulty deletion: the key is not sent.
DelGeneralForgets(n, key) == UNCHANGED general /\ Return(n, TRUE)

\* memc_del_general: the server refuses to delete what is not there.
DelGeneral(n, key) ==
    \/ general' = general \ {key} /\ Return(n, key \in general)
    \/ /\ "memcached_delete" \in Faults
       /\ general' \in {general, general \ {key}}
       /\ Return(n, FALSE)

=============================================================================

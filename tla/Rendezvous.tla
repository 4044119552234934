------------------------------ MODULE Rendezvous ------------------------------
(***************************************************************************)
(* What the exchange of resource information promises, without the         *)
(* wrappers, the caches and the verbs: a board on which live processes     *)
(* post descriptions of their own endpoints, and processes that link their *)
(* endpoints to what they learned from it.                                 *)
(*                                                                         *)
(* The promise is weak on purpose.  The last description posted under a    *)
(* key is the one on the board, and it may outlive its process or get      *)
(* lost; a process learns a key once, from a description that is on the    *)
(* board at that moment, and never again while it lives; an endpoint is    *)
(* linked once, to what its process learned.                               *)
(***************************************************************************)
CONSTANTS
    Process, Endpoint, Key,
    LinkKey,    \* the keys whose descriptions are linked to
    none        \* no description

Description == Process \X Endpoint

VARIABLES
    alive,      \* the processes that run
    board,      \* the description posted under each key
    known,      \* what each process learned of each key
    link        \* what each endpoint of each process is linked to

vars == <<alive, board, known, link>>

Init ==
    /\ alive = Process
    /\ board = [k \in Key |-> none]
    /\ known = [p \in Process |-> [k \in Key |-> none]]
    /\ link = [p \in Process |-> [e \in Endpoint |-> none]]

\* A live process posts one of its endpoints, over what was there.
Post(p, k, e) ==
    /\ p \in alive
    /\ board' = [board EXCEPT ![k] = <<p, e>>]
    /\ UNCHANGED <<alive, known, link>>

Lose(k) ==
    /\ board' = [board EXCEPT ![k] = none]
    /\ UNCHANGED <<alive, known, link>>

Learn(p, k) ==
    /\ p \in alive
    /\ known[p][k] = none
    /\ known' = [known EXCEPT ![p][k] = board[k]]
    /\ UNCHANGED <<alive, board, link>>

Link(p, e, k) ==
    /\ p \in alive
    /\ known[p][k] # none
    /\ link[p][e] = none
    /\ link' = [link EXCEPT ![p][e] = known[p][k]]
    /\ UNCHANGED <<alive, board, known>>

\* A process ends: it forgets, but the board and the other processes do not.
End(p) ==
    /\ p \in alive
    /\ alive' = alive \ {p}
    /\ known' = [known EXCEPT ![p] = [k \in Key |-> none]]
    /\ link' = [link EXCEPT ![p] = [e \in Endpoint |-> none]]
    /\ UNCHANGED board

Begin(p) ==
    /\ p \notin alive
    /\ alive' = alive \cup {p}
    /\ UNCHANGED <<board, known, link>>

Next ==
    \/ \E p \in Process :
         \/ \E k \in Key, e \in Endpoint : Post(p, k, e)
         \/ \E k \in Key : Learn(p, k)
         \/ \E e \in Endpoint, k \in LinkKey : Link(p, e, k)
         \/ End(p)
         \/ Begin(p)
    \/ \E k \in Key : Lose(k)

Spec == Init /\ [][Next]_vars

=============================================================================

------------------------------ MODULE MCWireFormat ------------------------------
(***************************************************************************)
(* Resources with names of no word, one word and two, in fields so narrow  *)
(* that a number that is shifted may not fit.                              *)
(***************************************************************************)
EXTENDS WireFormat

MClimit == [mr |-> <<3, 3, 1, 1>>, qp |-> <<2, 3, 1, 2>>]

MCWord == {[hex |-> FALSE, n |-> 0]} \cup [hex : {TRUE}, n : {0, 2}]
Names == {<<>>} \cup {<<w>> : w \in MCWord} \cup {<<v, w>> : v, w \in MCWord}
Of(kind, fs) == { [kind |-> kind, name |-> nm, f |-> f] : nm \in Names, f \in fs }
MCPublished == Of("mr", {<<a, l, lk, rk>> : a \in {1, 3}, l \in {1, 2}, lk, rk \in 0..1})
          \cup Of("qp", {<<q, p, l, c>> : q \in 1..2, p \in 0..1, l \in 0..1, c \in {2}})

=============================================================================

------------------------------ MODULE WireFormat ------------------------------
(***************************************************************************)
(* The text a process publishes of a memory region or a queue pair, and the*)
(* wrapper a fetch reads it into: flatten_info and unflatten_info of Mr    *)
(* (hb_mrs.cc) and Qp (hb_qps.cc).  The text is the name and four numbers  *)
(* in hexadecimal with a ':' in between; the reader turns every ':' into a *)
(* blank and extracts words one after the other.                           *)
(*                                                                         *)
(* A text is the sequence of its words.  A word is a hexadecimal number or *)
(* begins with no hexadecimal digit (n is then of no meaning).  A name is a*)
(* sequence of words too: of one, unless it has a ':' or a blank in it or  *)
(* nothing else.  A word that begins with a sign, which operator>> takes   *)
(* for a part of the number, is left out: only a name could have one.      *)
(***************************************************************************)
EXTENDS Naturals, Sequences

CONSTANTS
    limit,      \* for each kind the largest number of each of its fields
    PidMod,     \* the number of port numbers, 2^8 in the program
    Published,  \* the resources that may be published
    Junk        \* what memory nobody wrote may hold

Kind == {"mr", "qp"}
Field == 1..4       \* addr length lkey rkey, and qp_num pid plid conn_type

ASSUME LimitAssumption ==
    /\ limit \in [Kind -> [Field -> Nat]]
    /\ PidMod \in Nat \ {0} /\ PidMod <= limit["qp"][2] + 1
    /\ Junk \subseteq Nat

Word == [hex : BOOLEAN, n : Nat]
Resource == [kind : Kind, name : Seq(Word), f : [Field -> Nat]]

\* The fields of a resource fit their types.
InRange(r) ==
    /\ \A j \in Field : r.f[j] <= limit[r.kind][j]
    /\ r.kind = "qp" => r.f[2] < PidMod

ASSUME PublishedAssumption ==
    Published \subseteq Resource /\ \A r \in Published : InRange(r)

\* flatten_info.
Flatten(r) == r.name \o [j \in Field |-> [hex |-> TRUE, n |-> r.f[j]]]

\* The word that is read into field j is one the field can hold.
Holds(kind, text, j) ==
    /\ j < Len(text)
    /\ text[j + 1].hex
    /\ text[j + 1].n <= limit[kind][j]

\* A faulty reader: it clears the state of the stream after each field.
StreamAlwaysGood(kind, text, j) == TRUE
\* The stream is good after the first j fields: the first extraction that
\* fails is the last that is tried.
StreamGood(kind, text, j) == \A m \in 1..j : Holds(kind, text, m)

\* What a field holds before it is read: struct ibv_mr and struct ibv_qp are
\* cleared, buf_addr, large_pid, large_conn_type and Qp::plid are not.
Before(kind, j, junk) == IF (kind = "mr") = (j = 1) THEN junk ELSE 0

\* A faulty reader: a number too large for the field wraps into what follows.
ExtractUnbounded(kind, text, j, junk) ==
    IF j < Len(text) /\ text[j + 1].hex THEN text[j + 1].n ELSE 0

\* operator>>: of a word that is no number it makes 0, of one that is too
\* large the largest number, of nothing at all nothing.
Extract(kind, text, j, junk) ==
    IF ~StreamGood(kind, text, j - 1) \/ Len(text) <= j THEN Before(kind, j, junk)
    ELSE IF ~text[j + 1].hex THEN 0
    ELSE IF Holds(kind, text, j) THEN text[j + 1].n
    ELSE limit[kind][j]

\* A faulty unflatten_info: the last two fields are read in the wrong order.
UnflattenSwapped(kind, text, junk) ==
    [j \in Field |-> Extract(kind, text, IF j = 4 THEN 3 ELSE IF j = 3 THEN 4 ELSE j, junk)]

\* unflatten_info: the fields of the wrapper.  The pid is narrowed.
Unflatten(kind, text, junk) ==
    [j \in Field |-> IF kind = "qp" /\ j = 2
                     THEN Extract(kind, text, j, junk) % PidMod
                     ELSE Extract(kind, text, j, junk)]

-----------------------------------------------------------------------------
VARIABLES
    sent,       \* the resource that was published
    server,     \* the text under its key
    as,         \* what it was fetched as, "none" before
    wrapper     \* the fields of the wrapper

vars == <<sent, server, as, wrapper>>

Init ==
    /\ sent \in Published
    /\ server = Flatten(sent)
    /\ as = "none"
    /\ wrapper = [j \in Field |-> 0]

\* A general message took the key: memc_push_general sets it to blanks.
Overwrite ==
    /\ server' = <<>>
    /\ UNCHANGED <<sent, as, wrapper>>

\* memc_fetch_remote_mr and memc_fetch_remote_qp.
Fetch(kind) ==
    /\ as' = kind
    /\ \E junk \in Junk : wrapper' = Unflatten(kind, server, junk)
    /\ UNCHANGED <<sent, server>>

Next == Overwrite \/ \E kind \in Kind : Fetch(kind)

Spec == Init /\ [][Next]_vars

-----------------------------------------------------------------------------
\* What the first extraction that fails leaves in its field.
FailedAt(kind, j) ==
    {0, IF kind = "qp" /\ j = 2 THEN limit[kind][j] % PidMod ELSE limit[kind][j]}

\* The fields of a wrapper fit their types, whatever the name or another
\* message did to the text.  What was in memory before is in no field but the
\* address of a region, if the text has no second word, and the last three of a
\* queue pair, if the text ended before or an extraction before failed, which
\* the field it was for shows.
WireTypeOK ==
    as # "none" =>
      /\ \A j \in Field :
           \/ wrapper[j] <= limit[as][j]
           \/ /\ (as = "mr") = (j = 1) /\ wrapper[j] \in Junk
              /\ Len(server) <= j \/ \E m \in 1..(j - 1) : wrapper[m] \in FailedAt(as, m)
      /\ as = "qp" => wrapper[2] < PidMod

\* A resource with a name of one word that is fetched as what it is arrives
\* with all its numbers, unless another message took its key: the reader makes
\* of the text exactly what the writer put into it.
RoundTrip ==
    as = sent.kind /\ server = Flatten(sent) /\ Len(sent.name) = 1
        => wrapper = sent.f

\* A name that goes on with a word that is no number costs every number: the
\* first is 0, and no number of the resource shows up in another field.  (When
\* it goes on with a number the wrapper has wrong ones.)
BrokenNameReadsNull ==
    as = "mr" /\ Len(server) > 1 /\ ~server[2].hex => \A j \in Field : wrapper[j] = 0

=============================================================================

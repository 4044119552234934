----------------------------- MODULE WriteChannel -----------------------------
(***************************************************************************)
(* What remote writes over one queue pair promise an application that      *)
(* waits for the answer to a request before it touches the payload again:  *)
(* requests are carried out in order, each once and with the payload it was*)
(* posted with; every request gets one answer, in order; yes is only said  *)
(* of what was written, and after the first no nothing is written and      *)
(* nothing else is said.  A request that was answered no may still have    *)
(* been written.                                                           *)
(***************************************************************************)
EXTENDS Naturals, Sequences

CONSTANT Payload

VARIABLES
    want,       \* the payloads asked to be written
    done,       \* the payloads written
    said        \* the answers

vars == <<want, done, said>>

Init == want = <<>> /\ done = <<>> /\ said = <<>>

Open == \A i \in DOMAIN said : said[i]

Ask ==
    /\ \E v \in Payload : want' = Append(want, v)
    /\ UNCHANGED <<done, said>>

Write ==
    /\ Open
    /\ Len(done) < Len(want)
    /\ done' = Append(done, want[Len(done) + 1])
    /\ UNCHANGED <<want, said>>

Yes ==
    /\ Open
    /\ Len(said) < Len(done)
    /\ said' = Append(said, TRUE)
    /\ UNCHANGED <<want, done>>

No ==
    /\ Len(said) < Len(want)
    /\ said' = Append(said, FALSE)
    /\ UNCHANGED <<want, done>>

Next == Ask \/ Write \/ Yes \/ No

Spec == Init /\ [][Next]_vars

=============================================================================

--------------------------- MODULE WireFormatProofs ---------------------------
(***************************************************************************)
(* What a fetch makes of a text, for fields of any width, any resources and*)
(* any names.                                                              *)
(***************************************************************************)
EXTENDS WireFormat, SequenceTheorems, TLAPS

\* A flattened resource is a sequence of words.
LEMMA FlattenIsText ==
    ASSUME NEW r \in Published
    PROVE  /\ Flatten(r) \in Seq(Word)
           /\ Len(Flatten(r)) = Len(r.name) + 4
           /\ \A j \in Field : Flatten(r)[Len(r.name) + j] = [hex |-> TRUE, n |-> r.f[j]]
<1> DEFINE nums == [j \in Field |-> [hex |-> TRUE, n |-> r.f[j]]]
<1>1. r.name \in Seq(Word) /\ r.f \in [Field -> Nat]
  BY PublishedAssumption DEF Resource
<1>2. nums \in Seq(Word) /\ Len(nums) = 4 /\ \A j \in Field : nums[j] = [hex |-> TRUE, n |-> r.f[j]]
  <2>1. nums \in [1..4 -> Word]
    BY <1>1 DEF Field, Word
  <2> QED
    BY <2>1 DEF Field
<1> HIDE DEF nums
<1>3. Flatten(r) = r.name \o nums
  BY DEF Flatten, nums
<1>4. r.name \o nums \in Seq(Word)
  BY <1>1, <1>2
<1>5. Len(r.name \o nums) = Len(r.name) + 4 /\ Len(r.name) \in Nat
  <2>1. r.name \in Seq(Word) /\ nums \in Seq(Word) /\ Len(nums) = 4
    BY <1>1, <1>2
  <2>2. Len(r.name \o nums) = Len(r.name) + Len(nums) /\ Len(r.name) \in Nat
    BY <2>1, ConcatProperties, LenProperties
  <2> QED
    BY <2>1, <2>2
<1>6. ASSUME NEW j \in Field
      PROVE  (r.name \o nums)[Len(r.name) + j] = nums[j]
  <2>1. j \in 1..4
    BY DEF Field
  <2> QED
    BY <1>1, <1>2, <1>5, <2>1
<1> QED
  BY <1>2, <1>3, <1>4, <1>5, <1>6

\* What is extracted from a text that was not broken is what was put into it.
LEMMA ExtractIsInverse ==
    ASSUME NEW r \in Published, Len(r.name) = 1, NEW junk, NEW j \in Field
    PROVE  Extract(r.kind, Flatten(r), j, junk) = r.f[j]
<1> DEFINE text == Flatten(r)
<1>1. Len(text) = 5 /\ \A m \in Field : text[m + 1] = [hex |-> TRUE, n |-> r.f[m]]
  <2>1. \A m \in Field : 1 + m = m + 1
    BY DEF Field
  <2>2. Len(text) = 1 + 4 /\ \A m \in Field : text[1 + m] = [hex |-> TRUE, n |-> r.f[m]]
    BY FlattenIsText
  <2> HIDE DEF text
  <2> QED
    BY <2>1, <2>2
<1>2. \A m \in Field : r.f[m] <= limit[r.kind][m]
  BY PublishedAssumption DEF InRange
<1> HIDE DEF text
<1>3. \A m \in Field : Holds(r.kind, text, m)
  BY <1>1, <1>2 DEF Holds, Field
<1>4. StreamGood(r.kind, text, j - 1)
  BY <1>3 DEF StreamGood, Field
<1>5. ~(Len(text) <= j)
  BY <1>1 DEF Field
<1>6. text[j + 1].hex /\ text[j + 1].n = r.f[j]
  <2>1. text[j + 1] = [hex |-> TRUE, n |-> r.f[j]]
    BY <1>1
  <2> QED
    BY <2>1
<1>7. Extract(r.kind, text, j, junk) = r.f[j]
  BY <1>3, <1>4, <1>5, <1>6 DEF Extract
<1> QED
  BY <1>7 DEF text

LEMMA UnflattenIsInverse ==
    ASSUME NEW r \in Published, Len(r.name) = 1, NEW junk
    PROVE  Unflatten(r.kind, Flatten(r), junk) = r.f
<1>1. r.f \in [Field -> Nat] /\ (r.kind = "qp" => r.f[2] < PidMod)
  BY PublishedAssumption DEF Resource, InRange
<1>2. PidMod \in Nat \ {0} /\ 2 \in Field
  BY LimitAssumption DEF Field
<1>3. r.kind = "qp" => r.f[2] % PidMod = r.f[2]
  BY <1>1, <1>2
<1> DEFINE e(j) == Extract(r.kind, Flatten(r), j, junk)
<1>4. \A j \in Field : e(j) = r.f[j]
  BY ExtractIsInverse
<1> HIDE DEF e
<1>5. Unflatten(r.kind, Flatten(r), junk)
        = [j \in Field |-> IF r.kind = "qp" /\ j = 2 THEN e(j) % PidMod ELSE e(j)]
  BY DEF Unflatten, e
<1>6. \A j \in Field : (IF r.kind = "qp" /\ j = 2 THEN e(j) % PidMod ELSE e(j)) = r.f[j]
  BY <1>3, <1>4
<1> QED
  BY <1>1, <1>5, <1>6

\* Some extraction is the first that fails.
LEMMA FirstFails ==
    ASSUME NEW kind \in Kind, NEW text \in Seq(Word), NEW junk, NEW j \in Field,
           ~StreamGood(kind, text, j - 1), Len(text) > j
    PROVE  \E m \in 1..(j - 1) : Extract(kind, text, m, junk) \in {0, limit[kind][m]}
<1>1. PICK m \in 1..(j - 1) : ~Holds(kind, text, m) /\ StreamGood(kind, text, m - 1)
  <2>1. PICK k \in 1..(j - 1) : ~Holds(kind, text, k)
    BY DEF StreamGood
  <2>2. j - 1 \in {0, 1, 2, 3} /\ k \in {1, 2, 3}
    BY DEF Field
  <2>3. CASE ~Holds(kind, text, 1)
    BY <2>2, <2>3 DEF StreamGood
  <2>4. CASE Holds(kind, text, 1) /\ ~Holds(kind, text, 2)
    <3>1. 2 \in 1..(j - 1) /\ 1..(2 - 1) = {1}
      BY <2>1, <2>2, <2>4
    <3> QED
      BY <2>4, <3>1 DEF StreamGood
  <2>5. CASE Holds(kind, text, 1) /\ Holds(kind, text, 2)
    <3>1. k = 3 /\ 1..(3 - 1) = {1, 2}
      BY <2>1, <2>2, <2>5
    <3> QED
      BY <2>1, <2>5, <3>1 DEF StreamGood
  <2> QED
    BY <2>3, <2>4, <2>5
<1>2. ~(Len(text) <= m) /\ m \in Field
  BY DEF Field
<1> QED
  BY <1>1, <1>2 DEF Extract

\* An extraction yields what fits the field, or what was in it before.
LEMMA ExtractFits ==
    ASSUME NEW kind \in Kind, NEW text \in Seq(Word), NEW junk \in Junk, NEW j \in Field
    PROVE  LET x == Extract(kind, text, j, junk)
           IN  /\ x \in Nat
               /\ \/ x <= limit[kind][j]
                  \/ /\ (kind = "mr") = (j = 1) /\ x = junk
                     /\ ~StreamGood(kind, text, j - 1) \/ Len(text) <= j
<1> DEFINE x == Extract(kind, text, j, junk)
<1>1. limit[kind][j] \in Nat /\ junk \in Nat
  BY LimitAssumption
<1>2. CASE ~StreamGood(kind, text, j - 1) \/ Len(text) <= j
  <2>1. x = Before(kind, j, junk)
    BY <1>2 DEF Extract
  <2> QED
    BY <1>1, <1>2, <2>1 DEF Before
<1>3. CASE ~(~StreamGood(kind, text, j - 1) \/ Len(text) <= j)
  <2>1. Len(text) \in Nat /\ j + 1 \in 1..Len(text)
    BY <1>3 DEF Field
  <2>2. text[j + 1] \in Word
    BY <2>1
  <2>3. text[j + 1].n \in Nat
    BY <2>2 DEF Word
  <2>4. x = IF ~text[j + 1].hex THEN 0
            ELSE IF Holds(kind, text, j) THEN text[j + 1].n ELSE limit[kind][j]
    BY <1>3 DEF Extract
  <2>5. Holds(kind, text, j) => text[j + 1].n <= limit[kind][j]
    BY DEF Holds
  <2> HIDE DEF x
  <2>6. x \in Nat /\ x <= limit[kind][j]
    BY <1>1, <2>3, <2>4, <2>5
  <2> QED
    BY <2>6 DEF x
<1> QED
  BY <1>2, <1>3

\* A text that goes on with a word that is no number yields zeros only.
LEMMA BrokenTextReadsNull ==
    ASSUME NEW text \in Seq(Word), Len(text) > 1, ~text[2].hex, NEW junk, NEW j \in Field
    PROVE  Extract("mr", text, j, junk) = 0
<1>1. CASE j = 1
  <2>1. StreamGood("mr", text, j - 1)
    BY <1>1 DEF StreamGood
  <2> QED
    BY <1>1, <2>1 DEF Extract
<1>2. CASE j # 1
  <2>1. 1 \in 1..(j - 1) /\ ~Holds("mr", text, 1)
    BY <1>2 DEF Field, Holds
  <2>2. ~StreamGood("mr", text, j - 1)
    BY <2>1 DEF StreamGood
  <2> QED
    BY <1>2, <2>2 DEF Extract, Before
<1> QED
  BY <1>1, <1>2

-----------------------------------------------------------------------------
\* The inductive invariant.
WireInv ==
    /\ sent \in Published
    /\ server \in {<<>>, Flatten(sent)}
    /\ as \in Kind \cup {"none"}
    /\ WireTypeOK /\ RoundTrip /\ BrokenNameReadsNull

LEMMA WireInitially == Init => WireInv
<1> SUFFICES ASSUME Init PROVE WireInv
  OBVIOUS
<1>1. sent.kind \in Kind
  BY PublishedAssumption DEF Init, Resource
<1>2. as = "none" /\ "none" \notin Kind
  BY DEF Init, Kind
<1> QED
  BY <1>1, <1>2 DEF Init, WireInv, WireTypeOK, RoundTrip, BrokenNameReadsNull, Kind

\* The server has a text.
LEMMA ServerIsText == WireInv => server \in Seq(Word)
<1>1. <<>> \in Seq(Word)
  OBVIOUS
<1> QED
  BY <1>1, FlattenIsText DEF WireInv

\* A fetch keeps the invariant, for any kind and any text.
LEMMA FetchKeeps ==
    ASSUME WireInv, NEW kind \in Kind, Fetch(kind)
    PROVE  WireInv'
<1> PICK junk \in Junk : wrapper' = Unflatten(kind, server, junk)
  BY DEF Fetch
<1>1. UNCHANGED <<sent, server>> /\ as' = kind
  BY DEF Fetch
<1> DEFINE e(j) == Extract(kind, server, j, junk)
<1>2. \A j \in Field : wrapper'[j] = IF kind = "qp" /\ j = 2 THEN e(j) % PidMod ELSE e(j)
  BY DEF Unflatten
<1>3. \A j \in Field :
        /\ e(j) \in Nat
        /\ \/ e(j) <= limit[kind][j]
           \/ /\ (kind = "mr") = (j = 1) /\ e(j) = junk
              /\ ~StreamGood(kind, server, j - 1) \/ Len(server) <= j
  BY ServerIsText, ExtractFits
<1>4. ASSUME NEW j \in Field, ~(wrapper'[j] <= limit[kind][j])
      PROVE  /\ (kind = "mr") = (j = 1) /\ wrapper'[j] \in Junk
             /\ Len(server) <= j \/ \E m \in 1..(j - 1) : wrapper'[m] \in FailedAt(kind, m)
  <2>1. ~(kind = "qp" /\ j = 2)
    <3> HIDE DEF e
    <3> SUFFICES ASSUME kind = "qp", j = 2 PROVE FALSE
      OBVIOUS
    <3>1. e(j) \in Nat
      BY <1>3
    <3>2. e(j) % PidMod <= PidMod - 1 /\ PidMod - 1 <= limit["qp"][2]
      BY <3>1, LimitAssumption DEF Kind, Field
    <3>3. e(j) % PidMod \in Nat /\ limit["qp"][2] \in Nat /\ PidMod \in Nat
      BY <3>1, LimitAssumption DEF Kind, Field
    <3> QED
      BY <1>2, <1>4, <3>2, <3>3
  <2>2. /\ wrapper'[j] = junk /\ (kind = "mr") = (j = 1)
        /\ ~StreamGood(kind, server, j - 1) \/ Len(server) <= j
    <3> HIDE DEF e
    <3> QED
      BY <1>2, <1>3, <1>4, <2>1
  <2>3. ASSUME ~(Len(server) <= j)
        PROVE  \E m \in 1..(j - 1) : wrapper'[m] \in FailedAt(kind, m)
    <3>1. Len(server) > j
      BY <2>3, ServerIsText DEF Field
    <3>2. PICK m \in 1..(j - 1) : e(m) \in {0, limit[kind][m]}
      BY <2>2, <2>3, <3>1, ServerIsText, FirstFails
    <3> HIDE DEF e
    <3>3. m \in Field /\ PidMod \in Nat \ {0} /\ 0 % PidMod = 0
      BY LimitAssumption DEF Field
    <3>4. wrapper'[m] \in FailedAt(kind, m)
      BY <1>2, <3>2, <3>3 DEF FailedAt
    <3> QED
      BY <3>4
  <2> QED
    BY <2>2, <2>3
<1>5. kind = "qp" => wrapper'[2] < PidMod
  <2> HIDE DEF e
  <2>1. 2 \in Field /\ PidMod \in Nat \ {0}
    BY LimitAssumption DEF Field
  <2> QED
    BY <1>2, <1>3, <2>1
<1>6. WireTypeOK'
  <2>1. \A k, m : FailedAt(k, m)' = FailedAt(k, m)
    BY DEF FailedAt
  <2> QED
    BY <1>1, <1>4, <1>5, <2>1 DEF WireTypeOK
<1>7. RoundTrip'
  BY <1>1, UnflattenIsInverse DEF RoundTrip, WireInv
<1>8. BrokenNameReadsNull'
  <2> SUFFICES ASSUME kind = "mr", Len(server) > 1, ~server[2].hex, NEW j \in Field
               PROVE  wrapper'[j] = 0
    BY <1>1 DEF BrokenNameReadsNull
  <2>1. e(j) = 0
    BY ServerIsText, BrokenTextReadsNull
  <2> HIDE DEF e
  <2> QED
    BY <1>2, <2>1
<1> QED
  BY <1>1, <1>6, <1>7, <1>8 DEF WireInv

LEMMA OverwriteKeeps == WireInv /\ Overwrite => WireInv'
<1> SUFFICES ASSUME WireInv, Overwrite PROVE WireInv'
  OBVIOUS
<1>1. Flatten(sent) # <<>>
  <2>1. Len(Flatten(sent)) = Len(sent.name) + 4 /\ Len(sent.name) \in Nat
    BY FlattenIsText, PublishedAssumption DEF WireInv, Resource
  <2> QED
    BY <2>1
<1>2. server' = <<>> /\ UNCHANGED <<sent, as, wrapper>>
  BY DEF Overwrite
<1>3. Flatten(sent)' = Flatten(sent)
  BY <1>2
<1>4. RoundTrip'
  BY <1>1, <1>2, <1>3 DEF RoundTrip
<1>5. BrokenNameReadsNull'
  BY <1>2 DEF BrokenNameReadsNull
<1>6. WireTypeOK'
  <2>1. \A j \in Field : Len(server') <= j
    BY <1>2 DEF Field
  <2> QED
    BY <1>2, <2>1 DEF WireTypeOK, WireInv
<1> QED
  BY <1>2, <1>4, <1>5, <1>6 DEF WireInv

LEMMA WireStutters == WireInv /\ UNCHANGED vars => WireInv'
BY DEF WireInv, vars, WireTypeOK, FailedAt, RoundTrip, BrokenNameReadsNull

\* WireInv holds in every reachable state.
THEOREM WireInvariant == Spec => []WireInv
<1>1. WireInv /\ [Next]_vars => WireInv'
  BY FetchKeeps, OverwriteKeeps, WireStutters DEF Next
<1> QED
  BY WireInitially, <1>1, PTL DEF Spec

\* The fields of a wrapper fit their types, whatever text is fetched, but for
\* the address of a region and the last three fields of a queue pair, which are
\* left as memory was when the text ended or an extraction failed before them.
THEOREM WireTypeCorrect == Spec => []WireTypeOK
BY WireInvariant, PTL DEF WireInv

\* What a process fetches of a resource with a name of one word has the
\* numbers the other process published.
THEOREM RoundTripCorrect == Spec => []RoundTrip
BY WireInvariant, PTL DEF WireInv

\* A region whose name goes on with a word that is no number is fetched with
\* zeros for all its numbers.
THEOREM BrokenNameReadsNullCorrect == Spec => []BrokenNameReadsNull
BY WireInvariant, PTL DEF WireInv

=============================================================================

---------------------------- MODULE CoreTestProofs ----------------------------
(***************************************************************************)
(* The core test as a whole: the bring-up, the write, the poll and the     *)
(* message together, for every choice of the calls that may fail and every *)
(* number of launches.                                                     *)
(***************************************************************************)
EXTENDS CoreTest, BringupProofs

-----------------------------------------------------------------------------
(* The inductive invariant.                                                *)

Posts == [from : Id, to : Id, inline : BOOLEAN, val : Nat]
Completions == [qp : Id, ok : BOOLEAN]

PathTypeOK ==
    /\ buffer \in [Id -> Nat]
    /\ req \in [Id -> Seq(Posts)]
    /\ wrote \in [Id -> Seq(Nat)]
    /\ acked \in [Id -> Nat] /\ polled \in [Id -> Nat]
    /\ cq \in [Id -> Seq(Completions)]
    /\ told \in [Id -> Seq(BOOLEAN)]
    /\ at \in [Node -> Nat] /\ clean \in BOOLEAN /\ got \in BOOLEAN

\* Only the writer posts, once in a launch, and to a queue pair of that
\* launch: no address is used twice.
PostedOnce ==
    \A q \in Id : req[q] # <<>> =>
        /\ q[1] = writer /\ Len(req[q]) = 1
        /\ Wrapper(q).kind \in {"qp", "dead"}
        /\ Wrapper(q).kind = "qp" =>
             q = QpOf(writer) /\ Finished(writer) /\ at[writer] > 2

\* A request is written at most once, has at most one completion, and that is
\* in one completion queue only until it is polled.
CompletedOnce ==
    /\ \A q \in Id : /\ polled[q] <= acked[q] /\ acked[q] <= Len(req[q])
                     /\ Len(wrote[q]) <= Len(req[q])
    /\ \A c, d \in Id : \A i \in 1..Len(cq[c]), j \in 1..Len(cq[d]) :
         /\ polled[cq[c][i].qp] < acked[cq[c][i].qp]
         /\ cq[c][i].qp = cq[d][j].qp => c = d /\ i = j

\* The payload was written by some launch of the writer.
Written == \E q \in Id : q[1] = writer /\ wrote[q] # <<>>

\* What comes after the write is only there when the write is.
AfterWrite ==
    /\ \A r \in Id : r[1] = reader /\ buffer[r] > 0 => Written
    /\ at[reader] > 1 => Written
    /\ general # {} => Written
    /\ got => Written

\* The reader has nothing more to push.
Pushed == at[reader] > 2 \/ ~Running(reader)

\* A launch of the reader pushes the message once.
MessageOnce ==
    launch[reader] = 1 =>
        /\ general # {} => Pushed
        /\ at[writer] > 4 /\ ok[writer] => Pushed
        /\ at[writer] > 5 /\ ok[writer] => general = {}

TestInv ==
    /\ FlowInv /\ TestTypeOK /\ PathTypeOK
    /\ PostedOnce /\ CompletedOnce /\ AfterWrite /\ MessageOnce

\* What has entries or overran is a completion queue of an ended launch of the
\* writer, or the one its queue pair completes on what it posted.
QueuesOwned ==
    /\ overrun \subseteq Id
    /\ \A c \in Id : c \in overrun \/ cq[c] # <<>> =>
        /\ c[1] = writer
        /\ \/ Wrapper(c).kind = "dead"
           \/ /\ Finished(writer) /\ at[writer] > 2
              /\ c = SendCq(QpOf(writer)) /\ req[QpOf(writer)] # <<>>

\* Nobody took what the device gave a writer that polls.
PollOwed ==
    Finished(writer) /\ at[writer] = 3 =>
        (acked[QpOf(writer)] > 0 \/ SendCq(QpOf(writer)) \in overrun =>
             cq[SendCq(QpOf(writer))] # <<>>)

\* A process that is in the bring-up has no call of the rest behind it.
AtFirst == \A n \in Node : Running(n) /\ ~Finished(n) => at[n] = 1

\* Inductive together with TestInv.
PendingInv == AtFirst /\ QueuesOwned /\ PollOwed

\* A writer that is past the memcpy has the payload in its region.
Filled == Finished(writer) /\ at[writer] > 1 => buffer[MrOf(writer)] > 0

\* What was posted reads a region with the payload when it is sent, is aimed at
\* a region of the reader and, once written, is there.
Aimed(q) ==
    LET r == req[q][1] IN
    /\ ~r.inline /\ buffer[r.from] > 0 /\ MrOfFlow(reader, r.to)
    /\ wrote[q] # <<>> => buffer[r.to] > 0
AimedInv == \A q \in Id : req[q] # <<>> => Aimed(q)

\* Only what was written is completed with success.
OkWritten ==
    \A c \in Id : \A i \in 1..Len(cq[c]) : cq[c][i].ok => wrote[cq[c][i].qp] # <<>>

\* A queue pair of the writer that ended, or the one it polled.
PolledOne(q) ==
    /\ q[1] = writer /\ Wrapper(q).kind \in {"qp", "dead"}
    /\ Wrapper(q).kind = "qp" =>
         q = QpOf(writer) /\ Finished(writer) /\ at[writer] > 3
ToldOnce == \A q \in Id : told[q] # <<>> => PolledOne(q)

\* The poll returned what the device found.
TrueWritten == blind = {} /\ at[writer] > 3 /\ ok[writer] => Written

\* Inductive together with TestInv and PendingInv.
ArrivalInv ==
    /\ RegionsInv /\ Filled /\ AimedInv /\ OkWritten /\ ToldOnce /\ TrueWritten

-----------------------------------------------------------------------------
(* The calls of the test and what they have.                               *)

\* The reader is the node that does not write.
LEMMA ReaderNode ==
    /\ writer \in Node /\ reader \in Node /\ reader # writer
    /\ \A n \in Node : n # writer => n = reader
  BY WriterAssumption, OtherNode DEF reader

LEMMA TailLength ==
    /\ Len(WriterTail) = 5 /\ DOMAIN WriterTail = 1..5
    /\ Len(ReaderTail) = 2 /\ DOMAIN ReaderTail = 1..2
  BY DEF WriterTail, ReaderTail

\* The place of each call in the tails of the two.
LEMMA TailPlaces ==
    ASSUME NEW n \in Node
    PROVE  /\ TestAt(n, "memcpy") => n = writer /\ at[n] = 1
           /\ TestAt(n, "rdma_post_single_fast") => n = writer /\ at[n] = 2
           /\ TestAt(n, "rdma_poll") => n = writer /\ at[n] = 3
           /\ TestAt(n, "memc_wait_general") => n = writer /\ at[n] = 4
           /\ TestAt(n, "memc_del_general") => n = writer /\ at[n] = 5
           /\ TestAt(n, "strcmp") => n = reader /\ at[n] = 1
           /\ TestAt(n, "memc_push_general") => n = reader /\ at[n] = 2
<1>1. /\ WriterTail[1] = "memcpy" /\ WriterTail[2] = "rdma_post_single_fast"
      /\ WriterTail[3] = "rdma_poll" /\ WriterTail[4] = "memc_wait_general"
      /\ WriterTail[5] = "memc_del_general"
      /\ ReaderTail[1] = "strcmp" /\ ReaderTail[2] = "memc_push_general"
  BY DEF WriterTail, ReaderTail
<1>2. CASE n = writer
  <2>1. TailOf(n) = WriterTail
    BY <1>2 DEF TailOf
  <2>2. \A i \in DOMAIN WriterTail : i = 1 \/ i = 2 \/ i = 3 \/ i = 4 \/ i = 5
    BY TailLength
  <2> QED
    BY <1>1, <1>2, <2>1, <2>2 DEF TestAt
<1>3. CASE n # writer
  <2>1. TailOf(n) = ReaderTail /\ n = reader
    BY <1>3, ReaderNode DEF TailOf
  <2>2. \A i \in DOMAIN ReaderTail : i = 1 \/ i = 2
    BY TailLength
  <2> QED
    BY <1>1, <2>1, <2>2 DEF TestAt
<1> QED
  BY <1>2, <1>3

\* A node that finished the bring-up has its queue pair, with a completion
\* queue, its region and the region of the other node.
LEMMA FinishedHas ==
    ASSUME FlowInv, NEW n \in Node, Finished(n)
    PROVE  /\ Running(n) /\ pc[n] = 12
           /\ QpOf(n) \in Id /\ Wrapper(QpOf(n)).kind = "qp"
           /\ MrOf(n) \in Id /\ RemoteMr(n) \in Id
<1>1. /\ CoreInv /\ TypeOK /\ LocalInv /\ Reached(n)
      /\ "pd" \in PdKey /\ "mr" \in MrKey /\ "qp" \in QpKey
      /\ mr_name[Other(n)] \in MrName
  BY FlowParts, FlowKeys, OtherNode
<1>2. Running(n) /\ pc[n] = 12
  BY FlowLength DEF Finished
<1>3. /\ HasQp(n, "pd", "qp") /\ HasMr(n, "pd", "mr")
      /\ is_registered(remoteMr[n], mr_name[Other(n)])
  BY <1>1, <1>2 DEF Reached
<1>4. /\ local_qp(n, "pd", "qp") \in Handle
      /\ obj[n][local_qp(n, "pd", "qp")].kind = "qp"
      /\ local_mr(n, "pd", "mr") \in Handle
  BY <1>1, <1>3, LocalLookup
<1>5. remoteMr[n][mr_name[Other(n)]] \in Handle
  BY <1>1, <1>3 DEF is_registered, TypeOK, Address
<1>6. obj[n][remoteMr[n][mr_name[Other(n)]]].kind = "rmr"
  BY <1>1, <1>3 DEF is_registered, CoreInv, RemoteCachesHoldWrappers
<1>7. RemoteMr(n) \in Info
  BY <1>1, <1>5, <1>6 DEF CoreInv, PeersSet, RemoteMr, get_resrc
<1> QED
  BY <1>2, <1>4, <1>7 DEF QpOf, MrOf, Id, Info, Wrapper

\* The completion queue of a queue pair is one.
LEMMA SendCqId ==
    ASSUME CoreInv, NEW q \in Id, Wrapper(q).kind = "qp"
    PROVE  SendCq(q) \in Id
<1>1. /\ q[1] \in Node /\ q[2] \in Handle /\ obj[q[1]][q[2]] \in Object
      /\ ParentsOK(q[1], q[2])
  BY DEF Id, CoreInv, TypeOK, LocalTypeOK, LocalInv, CachesNameLiveObjects
<1>2. Wrapper(q).send_cq # nullptr /\ Wrapper(q).send_cq \in Address
  BY <1>1 DEF ParentsOK, Wrapper, Object
<1> QED
  BY <1>1, <1>2 DEF SendCq, Id, Address

LEMMA TestParts ==
    ASSUME TestInv
    PROVE  /\ FlowInv /\ CoreInv /\ LocalTypeOK
           /\ pc \in [Node -> 1..12] /\ ok \in [Node -> BOOLEAN]
           /\ ret \in [Node -> {"none", "true", "false"}]
           /\ general \subseteq {message} /\ TestTypeOK /\ PathTypeOK
           /\ PostedOnce /\ CompletedOnce /\ AfterWrite /\ MessageOnce
  BY FlowParts DEF TestInv, TestTypeOK, LocalTypeOK

\* Sequences that grow and shrink by one.
LEMMA AppendParts ==
    ASSUME NEW S, NEW s \in Seq(S), NEW e \in S
    PROVE  /\ Append(s, e) \in Seq(S) /\ Len(Append(s, e)) = Len(s) + 1
           /\ Append(s, e)[Len(s) + 1] = e
           /\ \A i \in 1..Len(s) : Append(s, e)[i] = s[i]
  OBVIOUS
LEMMA TailParts ==
    ASSUME NEW S, NEW s \in Seq(S), s # <<>>
    PROVE  /\ Tail(s) \in Seq(S) /\ Len(Tail(s)) = Len(s) - 1
           /\ Len(s) \in Nat /\ Len(s) >= 1 /\ Head(s) = s[1] /\ Head(s) \in S
           /\ \A i \in 1..Len(Tail(s)) : Tail(s)[i] = s[i + 1] /\ i + 1 \in 1..Len(s)
  OBVIOUS

-----------------------------------------------------------------------------
(* The bring-up and the ends of processes leave the data path alone.       *)

\* What is written stays written.
LEMMA WrittenStays ==
    ASSUME \A q \in Id : wrote[q] # <<>> => wrote'[q] # <<>>, Written
    PROVE  Written'
  BY DEF Written

LEMMA CompletedSame ==
    ASSUME CompletedOnce, UNCHANGED <<req, wrote, acked, polled, cq>>
    PROVE  CompletedOnce'
  BY DEF CompletedOnce

LEMMA PathTypeSame ==
    ASSUME PathTypeOK, UNCHANGED pathVars, at' \in [Node -> Nat],
           clean' \in BOOLEAN, got' \in BOOLEAN
    PROVE  PathTypeOK'
  BY DEF PathTypeOK, pathVars

\* What TestTypeOK adds to the types of the flow and to CompletedOnce.
LEMMA TestTypeFrom ==
    ASSUME FlowInv', CompletedOnce', general' \subseteq {message},
           \A n \in Node : at'[n] \in 1..(Len(TailOf(n)) + 1)
    PROVE  TestTypeOK'
<1>1. \A n : TailOf(n)' = TailOf(n)
  BY DEF TailOf
<1> QED
  BY <1>1 DEF TestTypeOK, FlowInv, CompletedOnce, message

LEMMA AfterWriteSame ==
    ASSUME AfterWrite, UNCHANGED <<buffer, wrote, general>>,
           at'[reader] = at[reader] \/ at'[reader] = 1, got' => got
    PROVE  AfterWrite'
<1>1. Written => Written'
  BY DEF Written
<1>2. reader' = reader
  BY DEF reader, Other
<1> QED
  BY <1>1, <1>2 DEF AfterWrite

\* A step of a process in the bring-up, its end or its launch does not make a
\* queue pair of what was posted to.
LEMMA PostedProceeds ==
    ASSUME TestInv, NEW n \in Node, n # writer, Proceeds(n) \/ Ended(n),
           UNCHANGED req, pc'[writer] = pc[writer], at'[writer] = at[writer]
    PROVE  PostedOnce'
<1>1. PostedOnce /\ LocalTypeOK /\ writer \in Node
  BY TestParts, ReaderNode
<1>2. /\ obj'[writer] = obj[writer] /\ proc'[writer] = proc[writer]
      /\ pdCache'[writer] = pdCache[writer] /\ qpCache'[writer] = qpCache[writer]
  BY <1>1 DEF Proceeds, ProcessKept, Ended, End, LocalTypeOK
<1>3. QpOf(writer)' = QpOf(writer) /\ Finished(writer)' = Finished(writer)
  BY <1>2 DEF QpOf, local_qp, local_pd, get_resrc, Finished, Running
<1>4. \A q \in Id : q[1] = writer => Wrapper(q)' = Wrapper(q)
  BY <1>2 DEF Wrapper
<1> QED
  BY <1>1, <1>3, <1>4 DEF PostedOnce

\* Nor does the bring-up of the writer.
LEMMA PostedBringup ==
    ASSUME TestInv, Proceeds(writer) \/ Ended(writer),
           Proceeds(writer) => ~Finished(writer),
           UNCHANGED req
    PROVE  PostedOnce'
<1>1. PostedOnce /\ LocalTypeOK /\ writer \in Node
  BY TestParts, ReaderNode
<1>2. ASSUME NEW q \in Id, req[q] # <<>>
      PROVE  /\ Wrapper(q)'.kind \in {"qp", "dead"}
             /\ Wrapper(q)'.kind = "qp" => Wrapper(q).kind = "qp" /\ Proceeds(writer)
  <2>1. q[1] = writer /\ q[2] \in Handle /\ obj[writer][q[2]].kind \in {"qp", "dead"}
    BY <1>1, <1>2 DEF PostedOnce, Wrapper, Id
  <2>2. CASE Proceeds(writer)
    <3>1. obj'[writer][q[2]].kind = obj[writer][q[2]].kind
      BY <2>1, <2>2 DEF Proceeds, SameObject
    <3> QED
      BY <2>1, <2>2, <3>1 DEF Wrapper
  <2>3. CASE Ended(writer)
    <3>1. obj'[writer][q[2]].kind = "dead"
      BY <1>1, <2>1, <2>3 DEF Ended, End, Blank, LocalTypeOK
    <3> QED
      BY <2>1, <3>1 DEF Wrapper
  <2> QED
    BY <2>2, <2>3
<1> QED
  BY <1>1, <1>2 DEF PostedOnce

LEMMA LaunchesSame ==
    ASSUME MessageOnce, UNCHANGED <<launch, general>>,
           Running(reader)' => Running(reader),
           at'[reader] = at[reader] \/ ~Running(reader)',
           at'[writer] = at[writer] \/ at'[writer] \in 1..4, ok'[writer] => ok[writer]
    PROVE  MessageOnce'
<1>1. reader' = reader
  BY DEF reader, Other
<1>2. Pushed => Pushed'
  BY <1>1 DEF Pushed
<1> QED
  BY <1>2 DEF MessageOnce

\* What a call of the bring-up leaves alone.
LEMMA FlowStepFrame ==
    ASSUME FlowInv, NEW n \in Node, FlowStep(n)
    PROVE  /\ Running(n) /\ (Ended(n) \/ Proceeds(n)) /\ ~Finished(n)
           /\ \A m \in Node \ {n} : pc'[m] = pc[m]
           /\ \A m \in Node : ok'[m] => ok[m]
<1>1. CoreInv /\ pc \in [Node -> 1..12] /\ ok \in [Node -> BOOLEAN]
  BY FlowParts
<1>2. Call(n) /\ pc[n] # 12
  BY FlowLength DEF FlowStep, Call, At
<1>3. Running(n) /\ (Ended(n) \/ Proceeds(n)) /\ ~Finished(n)
  BY <1>1, <1>2, CallCases, FlowLength DEF Finished
<1>4. /\ pc' = [pc EXCEPT ![n] = IF Running(n)' THEN @ + 1 ELSE 1]
      /\ ok' = [ok EXCEPT ![n] = @ /\ (Running(n)' => ret'[n] = "true")]
  BY DEF FlowStep
<1>5. \A m \in Node \ {n} : pc'[m] = pc[m]
  BY <1>1, <1>4
<1>6. \A m \in Node : ok'[m] => ok[m]
  BY <1>1, <1>4
<1> QED
  BY <1>3, <1>5, <1>6

LEMMA TestFlowKeepsInv ==
    ASSUME TestInv, NEW n \in Node, TestFlow(n)
    PROVE  TestInv'
<1>1. /\ FlowInv /\ CoreInv /\ LocalTypeOK /\ PathTypeOK /\ TestTypeOK
      /\ PostedOnce /\ CompletedOnce /\ AfterWrite /\ MessageOnce
      /\ pc \in [Node -> 1..12] /\ ok \in [Node -> BOOLEAN]
      /\ writer \in Node /\ reader \in Node
  BY TestParts, ReaderNode
<1>2. /\ FlowStep(n) /\ UNCHANGED <<general, pathVars, at, got>>
      /\ clean' \in {TRUE, "nonzero_memory" \notin Faults} \/ clean' = clean
  BY DEF TestFlow
<1>3. FlowInv'
  BY <1>1, <1>2, FlowStepKeepsInv
<1>4. /\ Running(n) /\ (Ended(n) \/ Proceeds(n)) /\ ~Finished(n)
      /\ \A m \in Node \ {n} : pc'[m] = pc[m]
      /\ \A m \in Node : ok'[m] => ok[m]
  BY <1>1, <1>2, FlowStepFrame
<1>5. UNCHANGED <<req, wrote, acked, polled, cq, buffer>>
  BY <1>2 DEF pathVars
<1>6. CompletedOnce' /\ AfterWrite'
  BY <1>1, <1>2, <1>5, CompletedSame, AfterWriteSame
<1>7. PathTypeOK'
  <2>1. clean' \in BOOLEAN
    BY <1>1, <1>2 DEF PathTypeOK
  <2> QED
    BY <1>1, <1>2, <2>1, PathTypeSame DEF PathTypeOK
<1>8. TestTypeOK'
  BY <1>1, <1>2, <1>3, <1>6, TestTypeFrom DEF TestTypeOK
<1>9. PostedOnce'
  <2>1. CASE n = writer
    BY <1>4, <1>5, <2>1, PostedBringup
  <2>2. CASE n # writer
    BY <1>1, <1>2, <1>4, <1>5, <2>2, PostedProceeds
  <2> QED
    BY <2>1, <2>2
<1>10. MessageOnce'
  <2>1. launch' = launch /\ (Running(reader)' => Running(reader))
    <3>1. CASE Proceeds(n)
      BY <3>1 DEF Proceeds, Running
    <3>2. CASE Ended(n)
      BY <1>1, <1>4, <3>2 DEF Ended, End, Running, LocalTypeOK
    <3> QED
      BY <1>4, <3>1, <3>2
  <2> QED
    BY <1>1, <1>2, <1>4, <2>1, LaunchesSame
<1> QED
  BY <1>3, <1>6, <1>7, <1>8, <1>9, <1>10 DEF TestInv

\* The end of a process, from inside or outside.
LEMMA TestEndKeepsInv ==
    ASSUME TestInv, NEW n \in Node, Exit(n) \/ TestCrash(n)
    PROVE  TestInv'
<1>1. /\ FlowInv /\ CoreInv /\ LocalTypeOK /\ PathTypeOK /\ TestTypeOK
      /\ PostedOnce /\ CompletedOnce /\ AfterWrite /\ MessageOnce
      /\ pc \in [Node -> 1..12]
      /\ writer \in Node /\ reader \in Node /\ reader # writer
  BY TestParts, ReaderNode
<1>2. /\ Kill(n) /\ Carry(n) /\ pc' = [pc EXCEPT ![n] = 1]
      /\ at' = at \/ at' = [at EXCEPT ![n] = 1]
      /\ UNCHANGED <<ok, general, pathVars, clean, got>>
  BY DEF Exit, TestCrash, Crash
<1>3. FlowInv'
  BY <1>1, <1>2, KillKeepsInv
<1>4. End(n, "killed") /\ ~Running(n)' /\ launch' = launch
  BY <1>1, <1>2 DEF Kill, End, Running, LocalTypeOK
<1>5. Ended(n)
  BY <1>2, <1>4 DEF Carry, Ended
<1>6. UNCHANGED <<req, wrote, acked, polled, cq, buffer>>
  BY <1>2 DEF pathVars
<1>7. at \in [Node -> Nat]
  BY <1>1 DEF PathTypeOK
<1>8. CompletedOnce'
  BY <1>1, <1>6, CompletedSame
<1>9. AfterWrite'
  <2>1. at'[reader] = at[reader] \/ at'[reader] = 1
    BY <1>1, <1>2, <1>7
  <2> QED
    BY <1>1, <1>2, <1>6, <2>1, AfterWriteSame
<1>10. PathTypeOK'
  <2>1. at' \in [Node -> Nat]
    BY <1>2, <1>7
  <2> QED
    BY <1>1, <1>2, <2>1, PathTypeSame DEF PathTypeOK
<1>11. TestTypeOK'
  <2>1. \A m \in Node : at'[m] \in 1..(Len(TailOf(m)) + 1)
    <3>1. \A m \in Node : at'[m] = at[m] \/ at'[m] = 1
      BY <1>2, <1>7
    <3>2. \A m \in Node : at[m] \in 1..(Len(TailOf(m)) + 1)
      BY <1>1 DEF TestTypeOK
    <3>3. \A m \in Node : Len(TailOf(m)) \in Nat
      BY TailLength DEF TailOf
    <3> QED
      BY <3>1, <3>2, <3>3
  <2> QED
    BY <1>1, <1>2, <1>3, <1>8, <2>1, TestTypeFrom DEF TestTypeOK
<1>12. PostedOnce'
  <2>1. CASE n = writer
    <3>1. ~Proceeds(n)
      BY <1>2, <1>4 DEF Proceeds, Running, Kill
    <3> QED
      BY <1>5, <1>6, <2>1, <3>1, PostedBringup
  <2>2. CASE n # writer
    <3>1. pc'[writer] = pc[writer] /\ at'[writer] = at[writer]
      BY <1>1, <1>2, <1>7, <2>2
    <3> QED
      BY <1>5, <1>6, <2>2, <3>1, PostedProceeds
  <2> QED
    BY <2>1, <2>2
<1>13. MessageOnce'
  <2>1. Running(reader)' => Running(reader)
    BY <1>1, <1>4 DEF End, Running, LocalTypeOK
  <2>2. at'[reader] = at[reader] \/ ~Running(reader)'
    BY <1>1, <1>2, <1>4, <1>7
  <2>3. at'[writer] = at[writer] \/ at'[writer] \in 1..4
    <3>1. at'[writer] = at[writer] \/ at'[writer] = 1
      BY <1>1, <1>2, <1>7
    <3> QED
      BY <3>1
  <2> QED
    BY <1>1, <1>2, <1>4, <2>1, <2>2, <2>3, LaunchesSame
<1> QED
  BY <1>3, <1>8, <1>9, <1>10, <1>11, <1>12, <1>13 DEF TestInv

\* A relaunched writer has not waited yet; of a relaunched reader nothing is
\* claimed of the message any more.
LEMMA TestRestartKeepsInv ==
    ASSUME TestInv, NEW n \in Node, TestRestart(n)
    PROVE  TestInv'
<1>1. /\ FlowInv /\ CoreInv /\ LocalTypeOK /\ PathTypeOK /\ TestTypeOK
      /\ PostedOnce /\ CompletedOnce /\ AfterWrite /\ MessageOnce
      /\ LaunchedOnce /\ ReachedInv
      /\ writer \in Node /\ reader \in Node /\ reader # writer
  BY TestParts, ReaderNode DEF CoreInv, FlowInv
<1>2. /\ Restart(n) /\ at' = [at EXCEPT ![n] = 1]
      /\ got' = (got /\ n # writer)
      /\ UNCHANGED <<general, pathVars, clean>>
  BY DEF TestRestart
<1>3. FlowInv'
  BY <1>1, <1>2, RestartKeepsInv
<1>4. UNCHANGED <<req, wrote, acked, polled, cq, buffer, obj, pdCache, qpCache, pc>>
  BY <1>2 DEF pathVars, Restart, Relaunch
<1>5. at \in [Node -> Nat] /\ got \in BOOLEAN
  BY <1>1 DEF PathTypeOK
<1>6. CompletedOnce'
  BY <1>1, <1>4, CompletedSame
<1>7. AfterWrite'
  <2>1. at'[reader] = at[reader] \/ at'[reader] = 1
    BY <1>1, <1>2, <1>5
  <2> QED
    BY <1>1, <1>2, <1>4, <1>5, <2>1, AfterWriteSame
<1>8. PathTypeOK'
  <2>1. at' \in [Node -> Nat] /\ got' \in BOOLEAN
    BY <1>2, <1>5
  <2> QED
    BY <1>1, <1>2, <2>1, PathTypeSame DEF PathTypeOK
<1>9. TestTypeOK'
  <2>1. \A m \in Node : at'[m] \in 1..(Len(TailOf(m)) + 1)
    <3>1. \A m \in Node : at'[m] = at[m] \/ at'[m] = 1
      BY <1>2, <1>5
    <3>2. \A m \in Node : at[m] \in 1..(Len(TailOf(m)) + 1)
      BY <1>1 DEF TestTypeOK
    <3>3. \A m \in Node : Len(TailOf(m)) \in Nat
      BY TailLength DEF TailOf
    <3> QED
      BY <3>1, <3>2, <3>3
  <2> QED
    BY <1>1, <1>2, <1>3, <1>6, <2>1, TestTypeFrom DEF TestTypeOK
<1>10. PostedOnce'
  <2>1. /\ \A q \in Id : Wrapper(q)' = Wrapper(q)
        /\ QpOf(writer)' = QpOf(writer)
    BY <1>4 DEF Wrapper, QpOf, local_qp, local_pd, get_resrc
  <2>2. CASE n = writer
    <3>1. ~Finished(writer)
      BY <1>2, <2>2 DEF Restart, Relaunch, Finished
    <3> QED
      BY <1>1, <1>4, <2>1, <3>1 DEF PostedOnce
  <2>3. CASE n # writer
    <3>1. Finished(writer) => Finished(writer)'
      BY <1>1, <1>2, <1>4, <2>3 DEF Restart, Relaunch, Finished, Running, LocalTypeOK
    <3>2. at'[writer] = at[writer]
      BY <1>1, <1>2, <1>5, <2>3
    <3> QED
      BY <1>1, <1>4, <2>1, <3>1, <3>2 DEF PostedOnce
  <2> QED
    BY <2>2, <2>3
<1>11. MessageOnce'
  <2>1. reader' = reader
    BY DEF reader, Other
  <2>2. CASE n = reader
    <3>1. launch'[n] = launch[n] + 1 /\ launch[n] \in Nat /\ launch[n] >= 1
      BY <1>1, <1>2 DEF Restart, Relaunch, LocalTypeOK, LaunchedOnce
    <3>2. launch'[reader] # 1
      BY <2>2, <3>1
    <3> QED
      BY <2>1, <3>2 DEF MessageOnce
  <2>3. CASE n # reader
    <3>1. n = writer
      BY <2>3, ReaderNode
    <3>2. /\ launch'[reader] = launch[reader] /\ proc'[reader] = proc[reader]
          /\ at'[reader] = at[reader] /\ at'[writer] = 1 /\ UNCHANGED general
      BY <1>1, <1>2, <1>5, <2>3, <3>1 DEF Restart, Relaunch, LocalTypeOK
    <3>3. Pushed' <=> Pushed
      BY <2>1, <3>2 DEF Pushed, Running
    <3> QED
      BY <1>1, <2>1, <3>2, <3>3 DEF MessageOnce
  <2> QED
    BY <2>2, <2>3
<1> QED
  BY <1>3, <1>6, <1>7, <1>8, <1>9, <1>10, <1>11 DEF TestInv

-----------------------------------------------------------------------------
(* The data path.                                                          *)

LEMMA PathParts ==
    ASSUME TestInv, NEW q \in Id
    PROVE  /\ req[q] \in Seq(Posts) /\ wrote[q] \in Seq(Nat)
           /\ Len(req[q]) \in Nat /\ Len(wrote[q]) \in Nat
           /\ acked[q] \in Nat /\ polled[q] \in Nat
           /\ cq[q] \in Seq(Completions) /\ Len(cq[q]) \in Nat
           /\ \A i \in 1..Len(cq[q]) : cq[q][i].qp \in Id
           /\ polled[q] <= acked[q] /\ acked[q] <= Len(req[q])
           /\ Len(wrote[q]) <= Len(req[q]) /\ Len(req[q]) <= 1
<1>1. PathTypeOK /\ CompletedOnce /\ PostedOnce
  BY TestParts
<1>2. /\ req[q] \in Seq(Posts) /\ wrote[q] \in Seq(Nat)
      /\ acked[q] \in Nat /\ polled[q] \in Nat /\ cq[q] \in Seq(Completions)
  BY <1>1 DEF PathTypeOK
<1>3. \A i \in 1..Len(cq[q]) : cq[q][i] \in Completions
  BY <1>2
<1>4. \A i \in 1..Len(cq[q]) : cq[q][i].qp \in Id
  BY <1>3 DEF Completions
<1>5. Len(req[q]) <= 1
  <2>1. CASE req[q] = <<>>
    BY <2>1
  <2>2. CASE req[q] # <<>>
    <3>1. Len(req[q]) = 1
      BY <1>1, <2>2 DEF PostedOnce
    <3> QED
      BY <3>1
  <2> QED
    BY <2>1, <2>2
<1> QED
  BY <1>1, <1>2, <1>4, <1>5 DEF CompletedOnce

\* A completion of a request that had none.
LEMMA CompleteKeeps ==
    ASSUME TestInv, NEW q \in Id, Wrapper(q).kind = "qp",
           acked[q] < Len(req[q]), NEW b \in BOOLEAN, NEW down,
           Complete(q, b, down), UNCHANGED wrote
    PROVE  /\ CompletedOnce' /\ cq' \in [Id -> Seq(Completions)]
           /\ acked' \in [Id -> Nat]
<1> DEFINE c == SendCq(q)
           e == [qp |-> q, ok |-> b]
<1>1. /\ PathTypeOK /\ CompletedOnce /\ c \in Id /\ e \in Completions
      /\ UNCHANGED <<req, polled>>
  BY TestParts, SendCqId DEF Completions, Complete
<1>2. /\ acked' = [acked EXCEPT ![q] = @ + 1]
      /\ cq' = cq \/ cq' = [cq EXCEPT ![c] = Append(@, e)]
  BY DEF Complete
<1>3. acked[q] = 0 /\ polled[q] = 0 /\ Len(req[q]) = 1
  <2>1. /\ acked[q] \in Nat /\ polled[q] \in Nat /\ Len(req[q]) \in Nat
        /\ polled[q] <= acked[q] /\ Len(req[q]) <= 1
    BY PathParts
  <2>2. \A x, y, z \in Nat : y <= x /\ x < z /\ z <= 1 => x = 0 /\ y = 0 /\ z = 1
    OBVIOUS
  <2>3. acked[q] < Len(req[q])
    OBVIOUS
  <2> QED
    BY <2>1, <2>2, <2>3, Zenon
<1>4. /\ acked'[q] = 1 /\ \A p \in Id : p # q => acked'[p] = acked[p]
      /\ acked' \in [Id -> Nat]
  BY <1>1, <1>2, <1>3 DEF PathTypeOK
<1>5. \A d \in Id : \A i \in 1..Len(cq[d]) : cq[d][i].qp # q
  BY <1>1, <1>3 DEF CompletedOnce
<1>6. \A p \in Id : /\ polled'[p] <= acked'[p] /\ acked'[p] <= Len(req'[p])
                    /\ Len(wrote'[p]) <= Len(req'[p])
  BY <1>1, <1>3, <1>4, PathParts
<1>7. CASE cq' = cq
  <2> HIDE DEF c, e
  <2>1. \A d \in Id : \A i \in 1..Len(cq[d]) : acked'[cq[d][i].qp] = acked[cq[d][i].qp]
    BY <1>4, <1>5, PathParts
  <2>2. polled' = polled
    BY <1>1
  <2>3. \A d, f \in Id : \A i \in 1..Len(cq'[d]), j \in 1..Len(cq'[f]) :
          /\ polled'[cq'[d][i].qp] < acked'[cq'[d][i].qp]
          /\ cq'[d][i].qp = cq'[f][j].qp => d = f /\ i = j
    BY <1>1, <1>7, <2>1, <2>2 DEF CompletedOnce
  <2>4. cq \in [Id -> Seq(Completions)]
    BY <1>1 DEF PathTypeOK
  <2> QED
    BY <1>4, <1>6, <1>7, <2>3, <2>4 DEF CompletedOnce
<1>8. CASE cq' = [cq EXCEPT ![c] = Append(@, e)]
  <2> DEFINE last == Len(cq[c]) + 1
  <2> HIDE DEF c, e
  <2>1. /\ cq'[c] = Append(cq[c], e) /\ \A d \in Id : d # c => cq'[d] = cq[d]
        /\ cq[c] \in Seq(Completions) /\ Len(cq[c]) \in Nat
    BY <1>1, <1>8 DEF PathTypeOK
  <2>2. /\ Append(cq[c], e) \in Seq(Completions)
        /\ Len(cq'[c]) = last /\ cq'[c][last] = e
        /\ \A i \in 1..Len(cq[c]) : cq'[c][i] = cq[c][i]
    BY <1>1, <2>1, AppendParts
  <2>3. cq' \in [Id -> Seq(Completions)]
    BY <1>1, <1>8, <2>1, <2>2 DEF PathTypeOK
  <2>4. \A d \in Id : \A i \in 1..Len(cq'[d]) :
          \/ i \in 1..Len(cq[d]) /\ cq'[d][i] = cq[d][i]
          \/ d = c /\ i = last /\ cq'[d][i].qp = q
    <3>1. e.qp = q
      BY DEF e
    <3> SUFFICES ASSUME NEW d \in Id, NEW i \in 1..Len(cq'[d])
                 PROVE  \/ i \in 1..Len(cq[d]) /\ cq'[d][i] = cq[d][i]
                        \/ d = c /\ i = last /\ cq'[d][i].qp = q
      OBVIOUS
    <3>2. CASE d # c
      BY <2>1, <3>2
    <3>3. CASE d = c /\ i = last
      BY <2>2, <3>1, <3>3
    <3>4. CASE d = c /\ i # last
      <4>1. i \in 1..Len(cq[c])
        BY <2>1, <2>2, <3>4
      <4> QED
        BY <2>2, <3>4, <4>1
    <3> QED
      BY <3>2, <3>3, <3>4
  <2>5. \A d \in Id : \A i \in 1..Len(cq'[d]) : polled'[cq'[d][i].qp] < acked'[cq'[d][i].qp]
    <3> SUFFICES ASSUME NEW d \in Id, NEW i \in 1..Len(cq'[d])
                 PROVE  polled'[cq'[d][i].qp] < acked'[cq'[d][i].qp]
      OBVIOUS
    <3>1. CASE i \in 1..Len(cq[d]) /\ cq'[d][i] = cq[d][i]
      <4>1. cq[d][i].qp \in Id /\ cq[d][i].qp # q
        BY <1>5, <3>1, PathParts
      <4>2. polled[cq[d][i].qp] < acked[cq[d][i].qp]
        BY <1>1, <3>1 DEF CompletedOnce
      <4>3. polled' = polled /\ acked'[cq[d][i].qp] = acked[cq[d][i].qp]
        BY <1>1, <1>4, <4>1
      <4> QED
        BY <3>1, <4>2, <4>3
    <3>2. CASE cq'[d][i].qp = q
      BY <1>1, <1>3, <1>4, <3>2
    <3> QED
      BY <2>4, <3>1, <3>2
  <2>6. ASSUME NEW d \in Id, NEW f \in Id, NEW i \in 1..Len(cq'[d]),
               NEW j \in 1..Len(cq'[f]), cq'[d][i].qp = cq'[f][j].qp
        PROVE  d = f /\ i = j
    <3>1. CASE /\ i \in 1..Len(cq[d]) /\ cq'[d][i] = cq[d][i]
               /\ j \in 1..Len(cq[f]) /\ cq'[f][j] = cq[f][j]
      BY <1>1, <2>6, <3>1 DEF CompletedOnce
    <3>2. CASE d = c /\ i = last /\ f = c /\ j = last
      BY <3>2
    <3>3. CASE cq'[d][i].qp = q /\ j \in 1..Len(cq[f]) /\ cq'[f][j] = cq[f][j]
      BY <1>5, <2>6, <3>3
    <3>4. CASE cq'[f][j].qp = q /\ i \in 1..Len(cq[d]) /\ cq'[d][i] = cq[d][i]
      BY <1>5, <2>6, <3>4
    <3> QED
      BY <2>4, <3>1, <3>2, <3>3, <3>4
  <2> QED
    BY <1>4, <1>6, <2>3, <2>5, <2>6 DEF CompletedOnce
<1> QED
  BY <1>2, <1>7, <1>8

\* A poll takes the only completion of its request.
LEMMA ConsumeKeeps ==
    ASSUME TestInv, NEW c \in Id, Consume(c), UNCHANGED <<req, wrote, acked>>
    PROVE  /\ CompletedOnce' /\ cq' \in [Id -> Seq(Completions)]
           /\ polled' \in [Id -> Nat] /\ Head(cq[c]).ok \in BOOLEAN
<1> DEFINE p == Head(cq[c]).qp
<1>1. PathTypeOK /\ CompletedOnce /\ cq[c] \in Seq(Completions) /\ cq[c] # <<>>
  BY TestParts DEF Consume, PathTypeOK
<1>2. /\ Tail(cq[c]) \in Seq(Completions) /\ Len(Tail(cq[c])) = Len(cq[c]) - 1
      /\ Len(cq[c]) \in Nat /\ Len(cq[c]) >= 1 /\ Head(cq[c]) = cq[c][1]
      /\ Head(cq[c]) \in Completions
      /\ \A i \in 1..Len(Tail(cq[c])) : /\ Tail(cq[c])[i] = cq[c][i + 1]
                                        /\ i + 1 \in 1..Len(cq[c])
  BY <1>1, TailParts
<1>3. p \in Id /\ Head(cq[c]).ok \in BOOLEAN /\ 1 \in 1..Len(cq[c]) /\ cq[c][1].qp = p
  BY <1>2 DEF Completions
<1> HIDE DEF p
<1>4. /\ cq' = [cq EXCEPT ![c] = Tail(@)]
      /\ polled' = [polled EXCEPT ![p] = @ + 1]
  BY DEF Consume, p
<1>5. /\ cq'[c] = Tail(cq[c]) /\ \A d \in Id : d # c => cq'[d] = cq[d]
      /\ cq' \in [Id -> Seq(Completions)]
  BY <1>1, <1>2, <1>4 DEF PathTypeOK
<1>6. /\ polled'[p] = polled[p] + 1 /\ \A q \in Id : q # p => polled'[q] = polled[q]
      /\ polled' \in [Id -> Nat]
  <2>1. polled \in [Id -> Nat]
    BY <1>1 DEF PathTypeOK
  <2> QED
    BY <1>3, <1>4, <2>1
<1>7. polled[p] < acked[p]
  BY <1>1, <1>3 DEF CompletedOnce
<1>8. \A q \in Id : /\ polled'[q] <= acked'[q] /\ acked'[q] <= Len(req'[q])
                    /\ Len(wrote'[q]) <= Len(req'[q])
  BY <1>3, <1>6, <1>7, PathParts
<1>9. ASSUME NEW d \in Id, NEW i \in 1..Len(cq'[d])
      PROVE  \E j \in 1..Len(cq[d]) : /\ cq'[d][i] = cq[d][j] /\ cq[d][j].qp # p
                                      /\ IF d = c THEN j = i + 1 ELSE j = i
  <2>1. CASE d = c
    <3>1. i + 1 \in 1..Len(cq[c]) /\ cq'[c][i] = cq[c][i + 1] /\ i + 1 # 1
      BY <1>2, <1>5, <2>1
    <3>2. cq[c][i + 1].qp # p
      BY <1>1, <1>3, <3>1 DEF CompletedOnce
    <3> QED
      BY <2>1, <3>1, <3>2
  <2>2. CASE d # c
    <3>1. cq'[d] = cq[d]
      BY <1>5, <2>2
    <3>2. cq[d][i].qp # p
      BY <1>1, <1>3, <2>2, <3>1 DEF CompletedOnce
    <3> QED
      BY <2>2, <3>1, <3>2
  <2> QED
    BY <2>1, <2>2
<1>10. ASSUME NEW d \in Id, NEW i \in 1..Len(cq'[d])
       PROVE  polled'[cq'[d][i].qp] < acked'[cq'[d][i].qp]
  <2>1. PICK j \in 1..Len(cq[d]) : cq'[d][i] = cq[d][j] /\ cq[d][j].qp # p
    BY <1>9
  <2> QED
    BY <1>1, <1>6, <2>1, PathParts DEF CompletedOnce
<1>11. ASSUME NEW d \in Id, NEW f \in Id, NEW i \in 1..Len(cq'[d]),
              NEW j \in 1..Len(cq'[f]), cq'[d][i].qp = cq'[f][j].qp
       PROVE  d = f /\ i = j
  <2>1. PICK i2 \in 1..Len(cq[d]) : /\ cq'[d][i] = cq[d][i2]
                                    /\ IF d = c THEN i2 = i + 1 ELSE i2 = i
    BY <1>9
  <2>2. PICK j2 \in 1..Len(cq[f]) : /\ cq'[f][j] = cq[f][j2]
                                    /\ IF f = c THEN j2 = j + 1 ELSE j2 = j
    BY <1>9
  <2>3. d = f /\ i2 = j2
    BY <1>1, <1>11, <2>1, <2>2 DEF CompletedOnce
  <2> QED
    BY <2>1, <2>2, <2>3
<1> QED
  BY <1>3, <1>5, <1>6, <1>8, <1>10, <1>11 DEF CompletedOnce

-----------------------------------------------------------------------------
(* The calls of the test.                                                  *)

\* What every call leaves alone, and what it moves.
LEMMA CallFrame ==
    ASSUME TestInv, NEW n \in Node, TestCall(n)
    PROVE  /\ Finished(n) /\ FlowInv'
           /\ UNCHANGED <<proc, launch, obj, pdCache, qpCache, pc, clean>>
           /\ at' = [at EXCEPT ![n] = @ + 1] /\ at' \in [Node -> Nat]
           /\ \A m \in Node : at'[m] \in 1..(Len(TailOf(m)) + 1)
           /\ at'[writer] \in Nat /\ at[writer] \in Nat /\ at[writer] <= at'[writer]
           /\ \A m \in Node : ok'[m] => ok[m]
<1>1. /\ FlowInv /\ LocalTypeOK /\ PathTypeOK /\ TestTypeOK
      /\ ok \in [Node -> BOOLEAN] /\ ret \in [Node -> {"none", "true", "false"}]
      /\ writer \in Node
  BY TestParts, ReaderNode
<1>2. Finished(n) /\ n \in Node /\ at[n] \in DOMAIN TailOf(n)
  BY DEF TestCall, GeneralCall, Memcpy, TestPost, TestPoll, Strcmp, TestPush,
         TestWait, TestDel, TestAt
<1>3. /\ UNCHANGED <<proc, launch, obj, pdCache, cqCache, mrCache, qpCache,
                     memc, remoteMr, remoteQp, pc, clean>>
      /\ ret' = ret \/ \E b \in BOOLEAN : Return(n, b)
  <2>1. CASE Memcpy(n)
    BY <2>1 DEF Memcpy, coreVars, vars
  <2>2. CASE TestPost(n)
    BY <2>2 DEF TestPost, coreVars, vars
  <2>3. CASE TestPoll(n)
    BY <2>3 DEF TestPoll, coreVars, vars
  <2>4. CASE Strcmp(n)
    BY <2>4 DEF Strcmp, coreVars, vars
  <2>5. CASE GeneralCall(n)
    <3>1. \E b \in BOOLEAN : Return(n, b)
      <4>1. CASE TestPush(n)
        BY <4>1 DEF TestPush, PushGeneral
      <4>2. CASE TestWait(n)
        BY <4>2 DEF TestWait, WaitGeneral
      <4>3. CASE TestDel(n)
        <5>1. (message \in general) \in BOOLEAN
          OBVIOUS
        <5> QED
          BY <4>3, <5>1 DEF TestDel, DelGeneral
      <4> QED
        BY <2>5, <4>1, <4>2, <4>3 DEF GeneralCall
    <3> QED
      BY <2>5, <3>1 DEF GeneralCall
  <2> QED
    BY <2>1, <2>2, <2>3, <2>4, <2>5 DEF TestCall
<1>4. ret' \in [Node -> {"none", "true", "false"}]
  BY <1>1, <1>3 DEF Return
<1>5. \E b \in BOOLEAN : ok' = [ok EXCEPT ![n] = @ /\ b]
  <2>1. CASE Memcpy(n) \/ Strcmp(n)
    <3>1. ok' = ok
      BY <2>1 DEF Memcpy, Strcmp
    <3>2. ok' = [ok EXCEPT ![n] = @ /\ TRUE]
      BY <1>1, <3>1
    <3> QED
      BY <3>2
  <2>2. CASE TestPost(n)
    <3> DEFINE b == Accepts(QpOf(n))
    <3>1. ok' = [ok EXCEPT ![n] = @ /\ b] /\ b \in BOOLEAN
      BY <2>2 DEF TestPost, Accepts
    <3> QED
      BY <3>1
  <2>3. CASE TestPoll(n)
    <3>1. ok' = [ok EXCEPT ![n] = @ /\ told'[QpOf(n)][1]]
      BY <2>3 DEF TestPoll
    <3>2. \E b \in BOOLEAN : b <=> told'[QpOf(n)][1]
      OBVIOUS
    <3> QED
      BY <3>1, <3>2
  <2>4. CASE GeneralCall(n)
    BY <2>4 DEF GeneralCall
  <2> QED
    BY <2>1, <2>2, <2>3, <2>4 DEF TestCall
<1>6. ok' \in [Node -> BOOLEAN] /\ \A m \in Node : ok'[m] => ok[m]
  BY <1>1, <1>5
<1>7. FlowInv'
  BY <1>1, <1>3, <1>4, <1>6, ReturnKeepsInv
<1>8. at' = [at EXCEPT ![n] = @ + 1]
  BY DEF TestCall, Further
<1>9. at \in [Node -> Nat] /\ \A m \in Node : at[m] \in 1..(Len(TailOf(m)) + 1)
  BY <1>1 DEF PathTypeOK, TestTypeOK
<1>10. /\ at' \in [Node -> Nat] /\ at[writer] \in Nat /\ at'[writer] \in Nat
       /\ at[writer] <= at'[writer]
  BY <1>1, <1>8, <1>9
<1>11. \A m \in Node : at'[m] \in 1..(Len(TailOf(m)) + 1)
  <2>1. DOMAIN TailOf(n) = 1..Len(TailOf(n)) /\ Len(TailOf(n)) \in Nat
    BY TailLength DEF TailOf
  <2>2. at'[n] = at[n] + 1 /\ \A m \in Node : m # n => at'[m] = at[m]
    BY <1>8, <1>9
  <2>3. at'[n] \in 1..(Len(TailOf(n)) + 1)
    BY <1>2, <2>1, <2>2
  <2> QED
    BY <1>9, <2>2, <2>3
<1> QED
  BY <1>2, <1>3, <1>6, <1>7, <1>8, <1>10, <1>11

\* A call that posts nothing.
LEMMA PostedByNone ==
    ASSUME PostedOnce,
           UNCHANGED <<proc, obj, pdCache, qpCache, pc, req>>,
           at'[writer] \in Nat, at[writer] \in Nat, at[writer] <= at'[writer]
    PROVE  PostedOnce'
<1>1. /\ \A q \in Id : Wrapper(q)' = Wrapper(q)
      /\ QpOf(writer)' = QpOf(writer) /\ Finished(writer)' = Finished(writer)
  BY DEF Wrapper, QpOf, local_qp, local_pd, get_resrc, Finished, Running
<1>2. at[writer] > 2 => at'[writer] > 2
  OBVIOUS
<1> QED
  BY <1>1, <1>2 DEF PostedOnce

\* A call that does not get past the wait.
LEMMA OnceSame ==
    ASSUME MessageOnce, UNCHANGED <<proc, launch, general>>,
           at'[reader] = at[reader] \/ (at[reader] = 1 /\ at'[reader] = 2),
           at'[writer] = at[writer] \/ at'[writer] \in 1..4, ok'[writer] => ok[writer]
    PROVE  MessageOnce'
<1>1. reader' = reader /\ Running(reader)' = Running(reader)
  BY DEF reader, Other, Running
<1>2. Pushed => Pushed'
  BY <1>1 DEF Pushed
<1> QED
  BY <1>2 DEF MessageOnce

\* std::memcpy and strcmp: neither posts.
LEMMA LocalCallKeepsInv ==
    ASSUME TestInv, NEW n \in Node, Memcpy(n) \/ Strcmp(n), TestCall(n)
    PROVE  TestInv'
<1>1. /\ FlowInv /\ PathTypeOK /\ TestTypeOK
      /\ PostedOnce /\ CompletedOnce /\ AfterWrite /\ MessageOnce
      /\ writer \in Node /\ reader \in Node /\ reader # writer
  BY TestParts, ReaderNode
<1>2. /\ Finished(n) /\ FlowInv'
      /\ UNCHANGED <<proc, launch, obj, pdCache, qpCache, pc, clean>>
      /\ at' = [at EXCEPT ![n] = @ + 1] /\ at' \in [Node -> Nat]
      /\ \A m \in Node : at'[m] \in 1..(Len(TailOf(m)) + 1)
      /\ at'[writer] \in Nat /\ at[writer] \in Nat /\ at[writer] <= at'[writer]
      /\ \A m \in Node : ok'[m] => ok[m]
  BY CallFrame
<1>3. UNCHANGED <<general, got, req, wrote, acked, polled, cq, told>>
  BY DEF Memcpy, Strcmp, Fill, pathVars
<1>4. at \in [Node -> Nat]
  BY <1>1 DEF PathTypeOK
<1>5. MrOf(n) \in Id /\ MrOf(n)[1] = n
  BY <1>1, <1>2, FinishedHas DEF MrOf
<1>6. \/ n = writer /\ at[n] = 1 /\ buffer' = [buffer EXCEPT ![MrOf(n)] = @ + 1]
      \/ n = reader /\ at[n] = 1 /\ buffer' = buffer /\ buffer[MrOf(n)] > 0
  BY TailPlaces DEF Memcpy, Strcmp, Fill, pathVars
<1>7. buffer \in [Id -> Nat]
  BY <1>1 DEF PathTypeOK
<1>8. /\ buffer' \in [Id -> Nat]
      /\ \A r \in Id : r[1] = reader => buffer'[r] = buffer[r]
  BY <1>1, <1>5, <1>6, <1>7
<1>9. CompletedOnce'
  BY <1>1, <1>3, CompletedSame
<1>10. PathTypeOK'
  BY <1>1, <1>2, <1>3, <1>8 DEF PathTypeOK
<1>11. TestTypeOK'
  <2>1. general' \subseteq {message}
    BY <1>3, TestParts
  <2> QED
    BY <1>2, <1>9, <2>1, TestTypeFrom
<1>12. PostedOnce'
  BY <1>1, <1>2, <1>3, PostedByNone
<1>13. AfterWrite'
  <2>1. Written' = Written /\ reader' = reader
    BY <1>3 DEF Written, reader, Other
  <2>2. at'[reader] > 1 => Written
    <3>1. CASE n = reader /\ buffer[MrOf(n)] > 0
      BY <1>1, <1>5, <3>1 DEF AfterWrite
    <3>2. CASE n = writer
      <4>1. at'[reader] = at[reader]
        BY <1>1, <1>2, <1>4, <3>2
      <4> QED
        BY <1>1, <4>1 DEF AfterWrite
    <3> QED
      BY <1>6, <3>1, <3>2
  <2> QED
    BY <1>1, <1>3, <1>8, <2>1, <2>2 DEF AfterWrite
<1>14. MessageOnce'
  <2>1. /\ n = writer => at'[writer] = 2 /\ at'[reader] = at[reader]
        /\ n = reader => at'[reader] = 2 /\ at[reader] = 1 /\ at'[writer] = at[writer]
    BY <1>1, <1>2, <1>4, <1>6
  <2>2. /\ at'[reader] = at[reader] \/ (at[reader] = 1 /\ at'[reader] = 2)
        /\ at'[writer] = at[writer] \/ at'[writer] \in 1..4
    BY <1>6, <2>1
  <2> QED
    BY <1>1, <1>2, <1>3, <2>2, OnceSame
<1> QED
  BY <1>2, <1>9, <1>10, <1>11, <1>12, <1>13, <1>14 DEF TestInv

\* The post is the first of this launch, and its queue pair is new.
LEMMA PostKeepsInv ==
    ASSUME TestInv, NEW n \in Node, TestPost(n), TestCall(n)
    PROVE  TestInv'
<1> DEFINE q == QpOf(writer)
           r == Request(MrOf(writer), RemoteMr(writer), FALSE)
<1>1. /\ FlowInv /\ PathTypeOK /\ TestTypeOK
      /\ PostedOnce /\ CompletedOnce /\ AfterWrite /\ MessageOnce
      /\ writer \in Node /\ reader \in Node /\ reader # writer
  BY TestParts, ReaderNode
<1>2. /\ Finished(n) /\ FlowInv'
      /\ UNCHANGED <<proc, launch, obj, pdCache, qpCache, pc, clean>>
      /\ at' = [at EXCEPT ![n] = @ + 1] /\ at' \in [Node -> Nat]
      /\ \A m \in Node : at'[m] \in 1..(Len(TailOf(m)) + 1)
      /\ at'[writer] \in Nat /\ at[writer] \in Nat /\ at[writer] <= at'[writer]
      /\ \A m \in Node : ok'[m] => ok[m]
  BY CallFrame
<1>3. n = writer /\ at[writer] = 2
  BY TailPlaces DEF TestPost
<1>4. UNCHANGED <<general, got, buffer, wrote, acked, polled, cq, told>>
  BY DEF TestPost, Post
<1>5. at'[writer] = 3 /\ at'[reader] = at[reader]
  BY <1>1, <1>2, <1>3 DEF PathTypeOK
<1>6. /\ q \in Id /\ MrOf(writer) \in Id /\ RemoteMr(writer) \in Id
      /\ Wrapper(q).kind = "qp" /\ Finished(writer)
  BY <1>1, <1>2, <1>3, FinishedHas
<1>7. r \in Posts
  BY <1>1, <1>6 DEF PathTypeOK, Request, Posts
<1>8. req' = req \/ req' = [req EXCEPT ![q] = Append(@, r)]
  BY <1>3 DEF TestPost, Post
<1>9. req[q] = <<>>
  BY <1>1, <1>3, <1>6 DEF PostedOnce
<1>10. req \in [Id -> Seq(Posts)]
  BY <1>1 DEF PathTypeOK
<1> HIDE DEF r
<1>11. /\ req' \in [Id -> Seq(Posts)]
       /\ \A p \in Id : p # q => req'[p] = req[p]
       /\ \/ req'[q] = <<>>
          \/ Len(req'[q]) = 1
  <2>1. Append(req[q], r) \in Seq(Posts) /\ Len(Append(req[q], r)) = 1
    BY <1>7, <1>9
  <2> QED
    BY <1>6, <1>8, <1>9, <1>10, <2>1
<1>12. \A p \in Id : /\ polled[p] <= acked[p] /\ acked[p] <= Len(req'[p])
                     /\ Len(wrote[p]) <= Len(req'[p])
  <2> SUFFICES ASSUME NEW p \in Id
               PROVE  /\ polled[p] <= acked[p] /\ acked[p] <= Len(req'[p])
                      /\ Len(wrote[p]) <= Len(req'[p])
    OBVIOUS
  <2>1. CASE p # q
    BY <1>1, <1>11, <2>1 DEF CompletedOnce
  <2>2. CASE p = q
    <3>1. Len(req[q]) = 0 /\ (Len(req'[q]) = 0 \/ Len(req'[q]) = 1)
      BY <1>9, <1>11
    <3>2. /\ acked[q] \in Nat /\ Len(wrote[q]) \in Nat
          /\ polled[q] <= acked[q] /\ acked[q] <= Len(req[q])
          /\ Len(wrote[q]) <= Len(req[q])
      BY <1>6, PathParts
    <3> QED
      BY <2>2, <3>1, <3>2
  <2> QED
    BY <2>1, <2>2
<1>13. CompletedOnce'
  BY <1>1, <1>4, <1>12 DEF CompletedOnce
<1>14. PathTypeOK'
  BY <1>1, <1>2, <1>4, <1>11 DEF PathTypeOK
<1>15. TestTypeOK'
  <2>1. general' \subseteq {message}
    BY <1>4, TestParts
  <2> QED
    BY <1>2, <1>13, <2>1, TestTypeFrom
<1>16. PostedOnce'
  <2>1. /\ \A p \in Id : Wrapper(p)' = Wrapper(p)
        /\ q' = q /\ Finished(writer)' = Finished(writer)
    BY <1>2 DEF Wrapper, QpOf, local_qp, local_pd, get_resrc, Finished, Running
  <2>2. q[1] = writer
    BY DEF QpOf
  <2> SUFFICES ASSUME NEW p \in Id, req'[p] # <<>>
               PROVE  /\ p[1] = writer /\ Len(req'[p]) = 1
                      /\ Wrapper(p).kind \in {"qp", "dead"}
                      /\ Wrapper(p).kind = "qp" =>
                           p = q /\ Finished(writer) /\ at'[writer] > 2
    BY <2>1 DEF PostedOnce
  <2>3. CASE p = q
    BY <1>5, <1>6, <1>11, <2>2, <2>3
  <2>4. CASE p # q
    BY <1>1, <1>5, <1>6, <1>11, <2>4 DEF PostedOnce
  <2> QED
    BY <2>3, <2>4
<1>17. AfterWrite'
  BY <1>1, <1>4, <1>5, AfterWriteSame
<1>18. MessageOnce'
  <2>1. at'[writer] \in 1..4
    BY <1>5
  <2> QED
    BY <1>1, <1>2, <1>4, <1>5, <2>1, OnceSame
<1> QED
  BY <1>2, <1>13, <1>14, <1>15, <1>16, <1>17, <1>18 DEF TestInv

\* A poll that got something tells one more boolean.
LEMMA PollKeepsInv ==
    ASSUME TestInv, NEW n \in Node, TestPoll(n), TestCall(n)
    PROVE  TestInv'
<1> DEFINE q == QpOf(writer)
           c == SendCq(QpOf(writer))
<1>1. /\ FlowInv /\ CoreInv /\ PathTypeOK /\ TestTypeOK
      /\ PostedOnce /\ CompletedOnce /\ AfterWrite /\ MessageOnce
      /\ writer \in Node /\ reader \in Node /\ reader # writer
  BY TestParts, ReaderNode
<1>2. /\ Finished(n) /\ FlowInv'
      /\ UNCHANGED <<proc, launch, obj, pdCache, qpCache, pc, clean>>
      /\ at' = [at EXCEPT ![n] = @ + 1] /\ at' \in [Node -> Nat]
      /\ \A m \in Node : at'[m] \in 1..(Len(TailOf(m)) + 1)
      /\ at'[writer] \in Nat /\ at[writer] \in Nat /\ at[writer] <= at'[writer]
      /\ \A m \in Node : ok'[m] => ok[m]
  BY CallFrame
<1>3. n = writer /\ at[writer] = 3 /\ Poll(q)
  BY TailPlaces DEF TestPoll
<1>4. UNCHANGED <<general, got, buffer, req, wrote, acked>>
  BY DEF TestPoll, Poll
<1>5. at'[writer] = 4 /\ at'[reader] = at[reader]
  BY <1>1, <1>2, <1>3 DEF PathTypeOK
<1>6. q \in Id /\ c \in Id
  BY <1>1, <1>2, <1>3, FinishedHas, SendCqId
<1> HIDE DEF q, c
<1>7. /\ CompletedOnce' /\ cq' \in [Id -> Seq(Completions)]
      /\ polled' \in [Id -> Nat]
      /\ \E b \in BOOLEAN : told' = [told EXCEPT ![q] = Append(@, b)]
  <2>1. CASE Consume(c) /\ told' = [told EXCEPT ![q] = Append(@, Status(Head(cq[c])))]
    BY <1>4, <1>6, <2>1, ConsumeKeeps DEF Status
  <2>2. CASE /\ UNCHANGED <<polled, cq>>
             /\ \E b \in BOOLEAN : told' = [told EXCEPT ![q] = Append(@, b)]
    <3>1. CompletedOnce'
      BY <1>1, <1>4, <2>2, CompletedSame
    <3> QED
      BY <1>1, <2>2, <3>1 DEF PathTypeOK
  <2> QED
    BY <1>3, <2>1, <2>2 DEF Poll, q, c
<1>8. told' \in [Id -> Seq(BOOLEAN)]
  <2>1. told \in [Id -> Seq(BOOLEAN)]
    BY <1>1 DEF PathTypeOK
  <2>2. PICK b \in BOOLEAN : told' = [told EXCEPT ![q] = Append(@, b)]
    BY <1>7
  <2>3. Append(told[q], b) \in Seq(BOOLEAN)
    BY <1>6, <2>1, <2>2, AppendParts
  <2> QED
    BY <1>6, <2>1, <2>2, <2>3
<1>9. PathTypeOK'
  BY <1>1, <1>2, <1>4, <1>7, <1>8 DEF PathTypeOK
<1>10. TestTypeOK'
  <2>1. general' \subseteq {message}
    BY <1>4, TestParts
  <2> QED
    BY <1>2, <1>7, <2>1, TestTypeFrom
<1>11. PostedOnce'
  BY <1>1, <1>2, <1>4, PostedByNone
<1>12. AfterWrite'
  BY <1>1, <1>4, <1>5, AfterWriteSame
<1>13. MessageOnce'
  <2>1. at'[writer] \in 1..4
    BY <1>5
  <2> QED
    BY <1>1, <1>2, <1>4, <1>5, <2>1, OnceSame
<1> QED
  BY <1>2, <1>7, <1>9, <1>10, <1>11, <1>12, <1>13 DEF TestInv

\* The reader pushes the message after it saw the payload; the writer waits
\* for it and deletes it.
LEMMA GeneralKeepsInv ==
    ASSUME TestInv, NEW n \in Node, GeneralCall(n), TestCall(n)
    PROVE  TestInv'
<1>1. /\ FlowInv /\ LocalTypeOK /\ PathTypeOK /\ TestTypeOK
      /\ PostedOnce /\ CompletedOnce /\ AfterWrite /\ MessageOnce
      /\ general \subseteq {message} /\ got \in BOOLEAN
      /\ ok \in [Node -> BOOLEAN]
      /\ writer \in Node /\ reader \in Node /\ reader # writer
  BY TestParts, ReaderNode DEF PathTypeOK
<1>2. /\ Finished(n) /\ FlowInv'
      /\ UNCHANGED <<proc, launch, obj, pdCache, qpCache, pc, clean>>
      /\ at' = [at EXCEPT ![n] = @ + 1] /\ at' \in [Node -> Nat]
      /\ \A m \in Node : at'[m] \in 1..(Len(TailOf(m)) + 1)
      /\ at'[writer] \in Nat /\ at[writer] \in Nat /\ at[writer] <= at'[writer]
      /\ \A m \in Node : ok'[m] => ok[m]
  BY CallFrame
<1>3. UNCHANGED pathVars /\ UNCHANGED <<buffer, req, wrote, acked, polled, cq, told>>
  BY DEF GeneralCall, pathVars
<1>4. Written' = Written /\ reader' = reader /\ (Pushed' <=> at'[reader] > 2 \/ ~Running(reader))
  BY <1>2, <1>3 DEF Written, Pushed, reader, Other, Running
<1>5. Running(n) /\ at \in [Node -> Nat]
  BY <1>1, <1>2, FinishedHas DEF PathTypeOK
<1>6. ok'[n] => ret'[n] = "true"
  BY <1>1 DEF GeneralCall
<1>7. CompletedOnce' /\ PostedOnce'
  BY <1>1, <1>2, <1>3, CompletedSame, PostedByNone
<1>8. /\ general' \subseteq {message} /\ got' \in BOOLEAN
      /\ AfterWrite' /\ MessageOnce'
  <2>1. CASE TestPush(n)
    <3>1. n = reader /\ at[reader] = 2
      BY <2>1, TailPlaces DEF TestPush
    <3>2. at'[reader] = 3 /\ at'[writer] = at[writer]
      BY <1>1, <1>2, <1>5, <3>1
    <3>3. general' \subseteq {message} /\ got' = got
      BY <1>1, <2>1 DEF TestPush, PushGeneral
    <3>4. Written /\ ~Pushed /\ Pushed'
      BY <1>1, <1>4, <1>5, <3>1, <3>2 DEF AfterWrite, Pushed
    <3>5. AfterWrite'
      BY <1>1, <1>3, <1>4, <3>3, <3>4 DEF AfterWrite
    <3>6. MessageOnce'
      <4>1. at[writer] > 5 => at[writer] > 4
        BY <1>2
      <4>2. launch[reader] = 1 /\ at'[writer] > 5 /\ ok'[writer] => FALSE
        BY <1>1, <1>2, <3>2, <3>4, <4>1 DEF MessageOnce
      <4> QED
        BY <1>2, <3>4, <4>2 DEF MessageOnce
    <3> QED
      BY <1>1, <3>3, <3>5, <3>6
  <2>2. CASE TestWait(n)
    <3>1. n = writer /\ at[writer] = 4
      BY <2>2, TailPlaces DEF TestWait
    <3>2. at'[writer] = 5 /\ at'[reader] = at[reader]
      BY <1>1, <1>2, <1>5, <3>1
    <3>3. /\ general' = general /\ got' = (ret'[n] = "true")
          /\ ret'[n] = "true" => message \in general
      BY <1>1, <2>2, Returned DEF TestWait, WaitGeneral
    <3>4. AfterWrite'
      BY <1>1, <1>3, <1>4, <3>2, <3>3 DEF AfterWrite
    <3>5. MessageOnce'
      <4>1. ~(at'[writer] > 5) /\ Pushed' = Pushed
        BY <1>4, <3>2 DEF Pushed
      <4>2. ok'[writer] => general # {}
        BY <1>6, <3>1, <3>3
      <4> QED
        BY <1>1, <1>2, <3>3, <4>1, <4>2 DEF MessageOnce
    <3> QED
      BY <1>1, <3>3, <3>4, <3>5
  <2>3. CASE TestDel(n)
    <3>1. n = writer /\ at[writer] = 5
      BY <2>3, TailPlaces DEF TestDel
    <3>2. at'[writer] = 6 /\ at'[reader] = at[reader]
      BY <1>1, <1>2, <1>5, <3>1
    <3>3. /\ general' \subseteq general /\ got' = got
          /\ ret'[n] = "true" => general' = {}
      <4>1. CASE general' = general \ {message} /\ Return(n, message \in general)
        BY <1>1, <2>3, <4>1 DEF TestDel
      <4>2. CASE general' \in {general, general \ {message}} /\ Return(n, FALSE)
        BY <1>1, <2>3, <4>2, Returned DEF TestDel
      <4> QED
        BY <2>3, <4>1, <4>2 DEF TestDel, DelGeneral
    <3>4. AfterWrite'
      BY <1>1, <1>3, <1>4, <3>2, <3>3 DEF AfterWrite
    <3>5. MessageOnce'
      <4>1. Pushed' = Pushed /\ at[writer] > 4
        BY <1>4, <3>1, <3>2 DEF Pushed
      <4>2. ok'[writer] => ok[writer] /\ general' = {}
        BY <1>1, <1>2, <1>6, <3>1, <3>3
      <4> QED
        BY <1>1, <1>2, <3>3, <4>1, <4>2 DEF MessageOnce
    <3> QED
      BY <1>1, <3>3, <3>4, <3>5
  <2> QED
    BY <2>1, <2>2, <2>3 DEF GeneralCall
<1>9. PathTypeOK'
  <2>1. clean' \in BOOLEAN
    BY <1>1, <1>2 DEF PathTypeOK
  <2> QED
    BY <1>1, <1>2, <1>3, <1>8, <2>1, PathTypeSame
<1>10. TestTypeOK'
  BY <1>2, <1>7, <1>8, TestTypeFrom
<1> QED
  BY <1>2, <1>7, <1>8, <1>9, <1>10 DEF TestInv

LEMMA TestCallKeepsInv ==
    ASSUME TestInv, NEW n \in Node, TestCall(n)
    PROVE  TestInv'
  BY LocalCallKeepsInv, PostKeepsInv, PollKeepsInv, GeneralKeepsInv DEF TestCall

-----------------------------------------------------------------------------
(* The device and the whole test.                                          *)

LEMMA DeviceKeepsInv ==
    ASSUME TestInv, NEW q \in Id, TestDevice(q)
    PROVE  TestInv'
<1>1. /\ FlowInv /\ CoreInv /\ LocalTypeOK /\ PathTypeOK /\ TestTypeOK
      /\ PostedOnce /\ CompletedOnce /\ AfterWrite /\ MessageOnce
  BY TestParts
<1>2. /\ UNCHANGED <<flowVars, general, at, clean, got>>
      /\ UNCHANGED <<proc, launch, obj, pdCache, qpCache, pc, ok>>
      /\ req[q] # <<>> /\ Device(q)
  BY DEF TestDevice, flowVars
<1>3. FlowInv'
  BY <1>1, <1>2, FlowNextKeepsInv
<1>4. q[1] = writer /\ UNCHANGED <<req, told>>
  BY <1>1, <1>2 DEF PostedOnce, Device, Land, Ack, Refuse, GiveUp, Flush, Complete
<1>5. /\ CompletedOnce' /\ cq' \in [Id -> Seq(Completions)]
      /\ acked' \in [Id -> Nat] /\ polled' \in [Id -> Nat]
      /\ wrote' \in [Id -> Seq(Nat)] /\ buffer' \in [Id -> Nat]
      /\ \A p \in Id : wrote[p] # <<>> => wrote'[p] # <<>>
      /\ buffer' = buffer \/ Written'
  <2>1. CASE Land(q)
    <3> DEFINE k == Len(wrote[q]) + 1
               v == Carried(req[q][k])
    <3>1. /\ req[q] \in Seq(Posts) /\ wrote[q] \in Seq(Nat)
          /\ Len(wrote[q]) \in Nat /\ Len(req[q]) \in Nat
      BY PathParts
    <3>2. Len(wrote[q]) < Len(req[q])
      BY <2>1 DEF Land
    <3>3. k \in 1..Len(req[q])
      BY <3>1, <3>2
    <3>4. req[q][k] \in Posts
      BY <3>1, <3>3
    <3>5. v \in Nat
      BY <1>1, <3>4 DEF Carried, PathTypeOK, Posts
    <3> HIDE DEF k
    <3>6. /\ wrote' = [wrote EXCEPT ![q] = Append(@, v)]
          /\ buffer' = [buffer EXCEPT ![req[q][k].to] = v]
          /\ UNCHANGED <<acked, polled, cq>>
      BY <2>1 DEF Land, NextWrite, k
    <3> HIDE DEF v
    <3>7. /\ Append(wrote[q], v) \in Seq(Nat)
          /\ Len(Append(wrote[q], v)) = Len(wrote[q]) + 1
          /\ Append(wrote[q], v) # <<>>
      BY <3>1, <3>5
    <3>8. wrote \in [Id -> Seq(Nat)] /\ buffer \in [Id -> Nat]
      BY <1>1 DEF PathTypeOK
    <3>9. /\ wrote' \in [Id -> Seq(Nat)]
          /\ wrote'[q] = Append(wrote[q], v)
          /\ \A p \in Id : p # q => wrote'[p] = wrote[p]
      BY <3>6, <3>7, <3>8
    <3>10. buffer' \in [Id -> Nat]
      BY <3>4, <3>5, <3>6, <3>8 DEF Posts
    <3>11. Written'
      BY <1>4, <3>7, <3>9 DEF Written
    <3>12. \A p \in Id : Len(wrote'[p]) <= Len(req[p])
      <4>1. Len(wrote'[q]) <= Len(req[q])
        BY <3>1, <3>2, <3>7, <3>9
      <4> QED
        BY <1>1, <3>9, <4>1 DEF CompletedOnce
    <3>13. CompletedOnce'
      BY <1>1, <1>4, <3>6, <3>12 DEF CompletedOnce
    <3>14. /\ cq \in [Id -> Seq(Completions)]
           /\ acked \in [Id -> Nat] /\ polled \in [Id -> Nat]
      BY <1>1 DEF PathTypeOK
    <3> QED
      BY <3>6, <3>7, <3>9, <3>10, <3>11, <3>13, <3>14
  <2>2. CASE Ack(q) \/ Refuse(q) \/ GiveUp(q) \/ Flush(q)
    <3>1. /\ Wrapper(q).kind = "qp" /\ UNCHANGED <<buffer, wrote, polled>>
          /\ \E b \in BOOLEAN : \E down : Complete(q, b, down)
      BY <2>2 DEF Ack, Refuse, GiveUp, Flush, Active, Complete
    <3>2. acked[q] < Len(req[q])
      <4>1. /\ acked[q] \in Nat /\ Len(req[q]) \in Nat /\ Len(wrote[q]) \in Nat
            /\ Len(wrote[q]) <= Len(req[q])
        BY PathParts
      <4>2. CASE Ack(q)
        <5>1. acked[q] < Len(wrote[q])
          BY <4>2 DEF Ack
        <5> QED
          BY <4>1, <5>1
      <4>3. CASE Refuse(q)
        BY <4>3 DEF Refuse
      <4>4. CASE GiveUp(q) \/ Flush(q)
        BY <4>4 DEF GiveUp, Flush
      <4> QED
        BY <2>2, <4>2, <4>3, <4>4
    <3>3. PICK b \in BOOLEAN : \E down : Complete(q, b, down)
      BY <3>1
    <3>4. /\ CompletedOnce' /\ cq' \in [Id -> Seq(Completions)]
          /\ acked' \in [Id -> Nat]
      BY <3>1, <3>2, <3>3, CompleteKeeps
    <3> QED
      BY <1>1, <3>1, <3>4 DEF PathTypeOK
  <2> QED
    BY <1>2, <2>1, <2>2 DEF Device
<1>6. PathTypeOK'
  BY <1>1, <1>2, <1>4, <1>5 DEF PathTypeOK
<1>7. TestTypeOK'
  BY <1>1, <1>2, <1>3, <1>5, TestTypeFrom DEF TestTypeOK
<1>8. PostedOnce'
  <2>1. at[writer] \in Nat /\ at'[writer] = at[writer]
    BY <1>1, <1>2, ReaderNode DEF PathTypeOK
  <2> QED
    BY <1>1, <1>2, <1>4, <2>1, PostedByNone
<1>9. AfterWrite'
  <2>1. reader' = reader /\ (Written => Written')
    BY <1>5, WrittenStays DEF reader, Other
  <2> QED
    BY <1>1, <1>2, <1>5, <2>1 DEF AfterWrite
<1>10. MessageOnce'
  BY <1>1, <1>2, OnceSame
<1> QED
  BY <1>3, <1>5, <1>6, <1>7, <1>8, <1>9, <1>10 DEF TestInv

LEMMA TestInitially == TestInit => TestInv
<1> SUFFICES ASSUME TestInit PROVE TestInv
  OBVIOUS
<1>1. FlowInv
  BY FlowInitially DEF TestInit
<1>2. /\ buffer = [r \in Id |-> 0] /\ req = [q \in Id |-> <<>>]
      /\ wrote = [q \in Id |-> <<>>] /\ acked = [q \in Id |-> 0]
      /\ polled = [q \in Id |-> 0] /\ cq = [c \in Id |-> <<>>]
      /\ told = [q \in Id |-> <<>>]
      /\ general = {} /\ at = [n \in Node |-> 1] /\ clean = TRUE /\ got = FALSE
  BY DEF TestInit, DataInit
<1>3. PathTypeOK
  <2>1. /\ <<>> \in Seq(Posts) /\ <<>> \in Seq(Nat)
        /\ <<>> \in Seq(Completions) /\ <<>> \in Seq(BOOLEAN)
    OBVIOUS
  <2>2. /\ buffer \in [Id -> Nat] /\ acked \in [Id -> Nat] /\ polled \in [Id -> Nat]
        /\ at \in [Node -> Nat] /\ clean \in BOOLEAN /\ got \in BOOLEAN
    BY <1>2
  <2>3. /\ req \in [Id -> Seq(Posts)] /\ wrote \in [Id -> Seq(Nat)]
        /\ cq \in [Id -> Seq(Completions)] /\ told \in [Id -> Seq(BOOLEAN)]
    BY <1>2, <2>1
  <2> QED
    BY <2>2, <2>3 DEF PathTypeOK
<1>4. PostedOnce
  BY <1>2 DEF PostedOnce
<1>5. CompletedOnce
  BY <1>2 DEF CompletedOnce
<1>6. AfterWrite
  BY <1>2, ReaderNode DEF AfterWrite
<1>7. MessageOnce
  BY <1>2, ReaderNode DEF MessageOnce
<1>8. TestTypeOK
  <2>1. \A n \in Node : at[n] \in 1..(Len(TailOf(n)) + 1)
    BY <1>2, TailLength DEF TailOf
  <2> QED
    BY <1>1, <1>2, <1>5, <2>1 DEF TestTypeOK, FlowInv, CompletedOnce
<1> QED
  BY <1>1, <1>3, <1>4, <1>5, <1>6, <1>7, <1>8 DEF TestInv

LEMMA TestNextKeepsInv == TestInv /\ [TestNext]_testVars => TestInv'
<1> SUFFICES ASSUME TestInv, [TestNext]_testVars PROVE TestInv'
  OBVIOUS
<1>1. ASSUME NEW n \in Node, TestFlow(n) PROVE TestInv'
  BY <1>1, TestFlowKeepsInv
<1>2. ASSUME NEW n \in Node, TestCall(n) PROVE TestInv'
  BY <1>2, TestCallKeepsInv
<1>3. ASSUME NEW n \in Node, Exit(n) \/ TestCrash(n) PROVE TestInv'
  BY <1>3, TestEndKeepsInv
<1>4. ASSUME NEW n \in Node, TestRestart(n) PROVE TestInv'
  BY <1>4, TestRestartKeepsInv
<1>5. ASSUME NEW q \in Id, TestDevice(q) PROVE TestInv'
  BY <1>5, DeviceKeepsInv
<1>6. CASE UNCHANGED testVars
  <2>1. /\ FlowInv /\ PathTypeOK /\ TestTypeOK
        /\ PostedOnce /\ CompletedOnce /\ AfterWrite /\ MessageOnce
        /\ writer \in Node
    BY TestParts, ReaderNode
  <2>2. /\ UNCHANGED flowVars /\ UNCHANGED pathVars
        /\ UNCHANGED <<proc, launch, obj, pdCache, qpCache, pc, ok, general, at,
                       clean, got, buffer, req, wrote, acked, polled, cq>>
    BY <1>6 DEF testVars, flowVars, pathVars
  <2>3. FlowInv'
    BY <2>1, <2>2, FlowNextKeepsInv
  <2>4. CompletedOnce' /\ AfterWrite' /\ MessageOnce'
    BY <2>1, <2>2, CompletedSame, AfterWriteSame, OnceSame
  <2>5. PathTypeOK'
    BY <2>1, <2>2, PathTypeSame DEF PathTypeOK
  <2>6. TestTypeOK'
    BY <2>1, <2>2, <2>3, <2>4, TestTypeFrom DEF TestTypeOK
  <2>7. PostedOnce'
    <3>1. at[writer] \in Nat
      BY <2>1 DEF PathTypeOK
    <3> QED
      BY <2>1, <2>2, <3>1, PostedByNone
  <2> QED
    BY <2>3, <2>4, <2>5, <2>6, <2>7 DEF TestInv
<1> QED
  BY <1>1, <1>2, <1>3, <1>4, <1>5, <1>6 DEF TestNext

-----------------------------------------------------------------------------
(* What holds of every behaviour of the test.                              *)

\* The inductive invariant holds in every reachable state of the test.
THEOREM TestInvariant == TestSpec => []TestInv
  BY TestInitially, TestNextKeepsInv, PTL DEF TestSpec

\* The bring-up, the data path and the place in the test keep their types, and
\* of each queue pair no more completions are polled than made and no more
\* made than requests were accepted.
THEOREM TestTypeCorrect == TestSpec => []TestTypeOK
<1>1. TestInv => TestTypeOK
  BY DEF TestInv
<1> QED
  BY <1>1, TestInvariant, PTL

\* What the invariant of the bring-up tells holds in the whole test as well,
\* whatever the data path does and after every relaunch.
LEMMA BringupInTest ==
    TestInv => /\ NeverAborts /\ AbortsOnlyAfterFalse
               /\ TrueMeansLinked /\ EndsMeet
  BY FlowInvTells DEF TestInv, FlowInv

\* No call of the test reaches an assert or a null pointer when no external
\* call fails, wherever the other process is killed.
THEOREM NeverAbortsCorrect == TestSpec => []NeverAborts
  BY BringupInTest, TestInvariant, PTL

\* A process that aborts had a call that returned false before, unless the
\* domain, a completion queue, a queue pair or memory could not be allocated.
THEOREM AbortsOnlyAfterFalseCorrect == TestSpec => []AbortsOnlyAfterFalse
  BY BringupInTest, TestInvariant, PTL

\* A node that is done and whose calls all returned true has a queue pair in
\* RTS whose destination is one of the other node, of this or an earlier launch.
THEOREM TrueMeansLinkedCorrect == TestSpec => []TrueMeansLinked
  BY BringupInTest, TestInvariant, PTL

\* Of two nodes that are done and whose calls all returned true each names the
\* queue pair of the other, or a dead one of an earlier launch of it, and not
\* both a dead one, although no connect_local_qp looks at the other end.
THEOREM EndsMeetCorrect == TestSpec => []EndsMeet
  BY BringupInTest, TestInvariant, PTL

\* A queue pair or region of a node that the other node knows of is there, or
\* the process it belonged to has ended: the device never meets a destination
\* that nobody owned.
THEOREM StaleInTest == TestSpec => []StaleOnlyIfOwnerEnded
<1>1. TestInv => StaleOnlyIfOwnerEnded
  BY DEF TestInv, FlowInv, CoreInv
<1> QED
  BY <1>1, TestInvariant, PTL

\* The message means that some launch of the writer wrote the payload, in
\* whatever order the device, the reader and the server answered and whoever
\* crashed or was launched again.
THEOREM GotMeansWrittenCorrect == TestSpec => []GotMeansWritten
<1>1. TestInv => GotMeansWritten
  BY DEF TestInv, AfterWrite, Written, GotMeansWritten
<1> QED
  BY <1>1, TestInvariant, PTL

\* One launch of the reader pushes the message once, so a writer all of whose
\* calls returned true leaves none behind, whatever its earlier launches did.
THEOREM LeftOverCorrect == TestSpec => []LeftOverOnlyAfterTimeout
<1>1. TestInv => LeftOverOnlyAfterTimeout
  <2>1. AtEnd(writer) => at[writer] = 6
    <3>1. TailOf(writer) = WriterTail
      BY DEF TailOf
    <3>2. Len(TailOf(writer)) = 5
      BY <3>1, TailLength, Zenon
    <3>3. AtEnd(writer) => at[writer] = 5 + 1
      BY <3>2, Zenon DEF AtEnd
    <3> QED
      BY <3>3
  <2>2. AtEnd(writer) => at[writer] > 5
    BY <2>1
  <2> QED
    BY <2>2 DEF TestInv, MessageOnce, LeftOverOnlyAfterTimeout
<1> QED
  BY <1>1, TestInvariant, PTL

-----------------------------------------------------------------------------
(* No completion is lost.                                                  *)

LEMMA AtFirstKeeps ==
    ASSUME AtFirst, NEW n \in Node,
           \A m \in Node \ {n} : proc'[m] = proc[m] /\ pc'[m] = pc[m] /\ at'[m] = at[m],
           at'[n] = 1 \/ ~Running(n)' \/ Finished(n)'
    PROVE  AtFirst'
  BY DEF AtFirst, Running, Finished

LEMMA AppendNotEmpty ==
    ASSUME NEW S, NEW s \in Seq(S), NEW e \in S
    PROVE  Append(s, e) # <<>>
<1>1. Len(Append(s, e)) = Len(s) + 1 /\ Len(s) \in Nat
  BY AppendParts
<1>2. Len(<<>>) = 0
  OBVIOUS
<1>3. Len(s) \in Nat => Len(s) + 1 # 0
  OBVIOUS
<1> QED
  BY <1>1, <1>2, <1>3

\* A step that leaves the writer and the two queues alone.
LEMMA PendingSame ==
    ASSUME QueuesOwned, PollOwed,
           obj'[writer] = obj[writer], proc'[writer] = proc[writer],
           pdCache'[writer] = pdCache[writer], qpCache'[writer] = qpCache[writer],
           pc'[writer] = pc[writer], UNCHANGED <<req, acked, cq, overrun>>,
           at[writer] > 2 => at'[writer] > 2, at'[writer] = 3 => at[writer] = 3
    PROVE  QueuesOwned' /\ PollOwed'
<1>1. QpOf(writer)' = QpOf(writer) /\ Finished(writer)' = Finished(writer)
  BY DEF QpOf, local_qp, local_pd, get_resrc, Finished, Running
<1>2. \A q : q[1] = writer => Wrapper(q)' = Wrapper(q)
  BY DEF Wrapper
<1>3. QpOf(writer)[1] = writer
  BY DEF QpOf
<1>4. SendCq(QpOf(writer))' = SendCq(QpOf(writer))
  BY <1>1, <1>2, <1>3 DEF SendCq
<1>5. QueuesOwned'
  BY <1>1, <1>2, <1>4 DEF QueuesOwned
<1>6. PollOwed'
  BY <1>1, <1>4 DEF PollOwed
<1> QED
  BY <1>5, <1>6

\* The completion queue of a queue pair that is there is there as well.
LEMMA SendCqKind ==
    ASSUME CoreInv, NEW q \in Id, Wrapper(q).kind = "qp"
    PROVE  SendCq(q) \in Id /\ SendCq(q)[1] = q[1] /\ Wrapper(SendCq(q)).kind = "cq"
<1>1. q[1] \in Node /\ q[2] \in Handle /\ ParentsOK(q[1], q[2])
  BY DEF Id, CoreInv, LocalInv, CachesNameLiveObjects
<1>2. obj[q[1]][Wrapper(q).send_cq].kind = "cq"
  BY <1>1 DEF ParentsOK, Wrapper
<1>3. SendCq(q)[1] = q[1] /\ SendCq(q)[2] = Wrapper(q).send_cq
  BY DEF SendCq
<1> QED
  BY <1>2, <1>3, SendCqId DEF Wrapper

\* The writer in the bring-up, at its end or at its launch: what has entries or
\* overran belongs to an ended launch.
LEMMA QueuesBringup ==
    ASSUME TestInv, QueuesOwned, UNCHANGED <<overrun, cq>>,
           \/ Ended(writer)
           \/ ~Finished(writer) /\ (Proceeds(writer) \/ UNCHANGED obj)
    PROVE  QueuesOwned'
<1>1. CoreInv /\ LocalTypeOK /\ FlowInv /\ writer \in Node
  BY TestParts, ReaderNode
<1> SUFFICES ASSUME NEW c \in Id, c \in overrun \/ cq[c] # <<>>
             PROVE  c[1] = writer /\ Wrapper(c)'.kind = "dead"
  BY DEF QueuesOwned
<1>2. c[1] = writer /\ c[2] \in Handle
  BY DEF QueuesOwned, Id
<1>3. Wrapper(c).kind \in {"dead", "cq"}
  <2>1. CASE c = SendCq(QpOf(writer)) /\ Finished(writer)
    BY <1>1, <2>1, FinishedHas, SendCqKind
  <2> QED
    BY <2>1 DEF QueuesOwned
<1>4. CASE Ended(writer)
  <2>1. obj[writer][c[2]].kind # "free"
    BY <1>2, <1>3 DEF Wrapper
  <2>2. obj'[writer][c[2]].kind = "dead"
    BY <1>1, <1>2, <1>4, <2>1 DEF Ended, End, Blank, LocalTypeOK
  <2> QED
    BY <1>2, <2>2 DEF Wrapper
<1>5. CASE ~Finished(writer) /\ Proceeds(writer)
  <2>1. obj[writer][c[2]].kind = "dead"
    BY <1>2, <1>5 DEF QueuesOwned, Wrapper
  <2>2. obj'[writer][c[2]].kind = "dead"
    BY <1>2, <1>5, <2>1 DEF Proceeds, SameObject
  <2> QED
    BY <1>2, <2>2 DEF Wrapper
<1>6. CASE ~Finished(writer) /\ UNCHANGED obj
  BY <1>2, <1>6 DEF QueuesOwned, Wrapper
<1> QED
  BY <1>4, <1>5, <1>6

LEMMA FlowKeepsPending ==
    ASSUME TestInv, PendingInv, NEW n \in Node, TestFlow(n)
    PROVE  PendingInv'
<1>1. /\ AtFirst /\ QueuesOwned /\ PollOwed
      /\ FlowInv /\ LocalTypeOK /\ writer \in Node
  BY TestParts, ReaderNode DEF PendingInv
<1>2. FlowStep(n) /\ UNCHANGED <<at, req, acked, cq, overrun>>
  BY DEF TestFlow, pathVars
<1>3. /\ Running(n) /\ (Ended(n) \/ Proceeds(n)) /\ ~Finished(n) /\ at[n] = 1
      /\ \A m \in Node \ {n} : pc'[m] = pc[m]
  BY <1>1, <1>2, FlowStepFrame DEF AtFirst
<1>4. \A m \in Node \ {n} :
        proc'[m] = proc[m] /\ obj'[m] = obj[m]
        /\ pdCache'[m] = pdCache[m] /\ qpCache'[m] = qpCache[m]
  BY <1>1, <1>3 DEF Proceeds, ProcessKept, Ended, End, LocalTypeOK
<1>5. AtFirst'
  BY <1>1, <1>2, <1>3, <1>4, AtFirstKeeps
<1>6. CASE n = writer
  <2>1. at'[writer] = 1
    BY <1>2, <1>3, <1>6
  <2>2. PollOwed'
    BY <2>1 DEF PollOwed
  <2> QED
    BY <1>1, <1>2, <1>3, <1>5, <1>6, <2>2, QueuesBringup DEF PendingInv
<1>7. CASE n # writer
  BY <1>1, <1>2, <1>3, <1>4, <1>5, <1>7, PendingSame DEF PendingInv
<1> QED
  BY <1>6, <1>7

LEMMA EndKeepsPending ==
    ASSUME TestInv, PendingInv, NEW n \in Node, Exit(n) \/ TestCrash(n)
    PROVE  PendingInv'
<1>1. /\ AtFirst /\ QueuesOwned /\ PollOwed
      /\ FlowInv /\ LocalTypeOK /\ writer \in Node
      /\ pc \in [Node -> 1..12] /\ at \in [Node -> Nat]
  BY TestParts, ReaderNode DEF PendingInv, PathTypeOK
<1>2. /\ Kill(n) /\ Carry(n) /\ pc' = [pc EXCEPT ![n] = 1]
      /\ at' = at \/ at' = [at EXCEPT ![n] = 1]
      /\ UNCHANGED <<ok, req, acked, cq, overrun>>
  BY DEF Exit, TestCrash, Crash, pathVars
<1>3. End(n, "killed") /\ ~Running(n)'
  BY <1>1, <1>2 DEF Kill, End, Running, LocalTypeOK
<1>4. Ended(n)
  BY <1>2, <1>3 DEF Carry, Ended
<1>5. \A m \in Node \ {n} :
        /\ proc'[m] = proc[m] /\ obj'[m] = obj[m]
        /\ pdCache'[m] = pdCache[m] /\ qpCache'[m] = qpCache[m]
        /\ pc'[m] = pc[m] /\ at'[m] = at[m]
  BY <1>1, <1>2, <1>3 DEF End, LocalTypeOK
<1>6. AtFirst'
  BY <1>1, <1>3, <1>5, AtFirstKeeps
<1>7. CASE n = writer
  <2>1. PollOwed'
    BY <1>3, <1>7 DEF PollOwed, Finished
  <2> QED
    BY <1>1, <1>2, <1>4, <1>6, <1>7, <2>1, QueuesBringup DEF PendingInv
<1>8. CASE n # writer
  BY <1>1, <1>2, <1>5, <1>6, <1>8, PendingSame DEF PendingInv
<1> QED
  BY <1>7, <1>8

LEMMA RestartKeepsPending ==
    ASSUME TestInv, PendingInv, NEW n \in Node, TestRestart(n)
    PROVE  PendingInv'
<1>1. /\ AtFirst /\ QueuesOwned /\ PollOwed
      /\ FlowInv /\ LocalTypeOK /\ writer \in Node /\ at \in [Node -> Nat]
  BY TestParts, ReaderNode DEF PendingInv, PathTypeOK
<1>2. /\ Relaunch(n) /\ at' = [at EXCEPT ![n] = 1]
      /\ UNCHANGED <<req, acked, cq, overrun, pc, obj, pdCache, qpCache>>
  BY DEF TestRestart, Restart, Relaunch, pathVars
<1>3. ~Running(n) /\ at'[n] = 1
      /\ \A m \in Node \ {n} : proc'[m] = proc[m] /\ at'[m] = at[m]
  BY <1>1, <1>2 DEF Relaunch, LocalTypeOK
<1>4. AtFirst'
  BY <1>1, <1>2, <1>3, AtFirstKeeps
<1>5. CASE n = writer
  <2>1. PollOwed' /\ ~Finished(writer)
    BY <1>3, <1>5 DEF PollOwed, Finished
  <2> QED
    BY <1>1, <1>2, <1>4, <1>5, <2>1, QueuesBringup DEF PendingInv
<1>6. CASE n # writer
  BY <1>1, <1>2, <1>3, <1>4, <1>6, PendingSame DEF PendingInv
<1> QED
  BY <1>5, <1>6

\* The post enters the poll with its completion queue empty or not, but never
\* with one that overran; the poll leaves it.
LEMMA CallKeepsPending ==
    ASSUME TestInv, PendingInv, NEW n \in Node, TestCall(n)
    PROVE  PendingInv'
<1> DEFINE q == QpOf(writer)
<1>1. /\ AtFirst /\ QueuesOwned /\ PollOwed /\ PostedOnce /\ CompletedOnce
      /\ FlowInv /\ CoreInv /\ LocalTypeOK /\ at \in [Node -> Nat]
      /\ writer \in Node /\ reader \in Node /\ reader # writer
  BY TestParts, ReaderNode DEF PendingInv, PathTypeOK
<1>2. /\ Finished(n)
      /\ UNCHANGED <<proc, obj, pdCache, qpCache, pc>>
      /\ at' = [at EXCEPT ![n] = @ + 1]
      /\ at'[writer] \in Nat /\ at[writer] \in Nat /\ at[writer] <= at'[writer]
      /\ \A m \in Node : ok'[m] => ok[m]
  BY CallFrame
<1>3. AtFirst'
  <2>1. Finished(n)'
    BY <1>2 DEF Finished, Running
  <2>2. \A m \in Node \ {n} : at'[m] = at[m]
    BY <1>1, <1>2
  <2> QED
    BY <1>1, <1>2, <2>1, <2>2, AtFirstKeeps
<1>4. /\ q' = q /\ Finished(writer)' = Finished(writer)
      /\ \A p : Wrapper(p)' = Wrapper(p)
      /\ SendCq(q)' = SendCq(q)
  BY <1>2 DEF QpOf, local_qp, local_pd, get_resrc, Finished, Running, Wrapper, SendCq
<1>5. at[writer] > 2 => at'[writer] > 2
  BY <1>2
<1>7. CASE Memcpy(n) \/ Strcmp(n) \/ GeneralCall(n)
  <2>1. UNCHANGED <<req, acked, cq, overrun>>
    BY <1>7 DEF Memcpy, Fill, Strcmp, GeneralCall, pathVars
  <2>2. at'[writer] = 3 => at[writer] = 3
    <3>1. n = writer => at[writer] \in {1, 4, 5}
      BY <1>1, <1>7, TailPlaces DEF Memcpy, Strcmp, GeneralCall, TestPush, TestWait, TestDel
    <3>2. n # writer => at'[writer] = at[writer]
      BY <1>1, <1>2
    <3>3. n = writer => at'[writer] = at[writer] + 1
      BY <1>1, <1>2
    <3> QED
      BY <3>1, <3>2, <3>3
  <2> QED
    BY <1>1, <1>2, <1>3, <1>5, <2>1, <2>2, PendingSame DEF PendingInv
<1>8. CASE TestPost(n)
  <2>1. n = writer /\ at[writer] = 2 /\ UNCHANGED <<acked, cq, overrun>>
    BY <1>8, TailPlaces DEF TestPost, Post
  <2>2. q \in Id /\ Wrapper(q).kind = "qp" /\ req[q] = <<>>
    BY <1>1, <1>2, <2>1, FinishedHas DEF PostedOnce
  <2>3. acked[q] = 0
    <3>1. acked[q] \in Nat /\ acked[q] <= Len(req[q]) /\ Len(req[q]) = 0
      BY <2>2, PathParts
    <3> QED
      BY <3>1
  <2>4. \A c \in Id : c \in overrun \/ cq[c] # <<>> =>
          c[1] = writer /\ Wrapper(c).kind = "dead"
    BY <1>1, <2>1 DEF QueuesOwned
  <2>5. QueuesOwned'
    BY <1>1, <1>4, <2>1, <2>4 DEF QueuesOwned
  <2>6. SendCq(q) \notin overrun
    BY <1>1, <2>2, <2>4, SendCqKind
  <2>7. PollOwed'
    BY <1>4, <2>1, <2>3, <2>6 DEF PollOwed
  <2> QED
    BY <1>3, <2>5, <2>7 DEF PendingInv
<1>9. CASE TestPoll(n)
  <2>1. /\ at[writer] = 3 /\ n = writer /\ UNCHANGED <<overrun, req>>
        /\ \A c \in Id : cq'[c] # <<>> => cq[c] # <<>>
    <3>1. n = writer /\ at[writer] = 3 /\ Poll(q)
      BY <1>9, TailPlaces DEF TestPoll
    <3>2. cq \in [Id -> Seq(Completions)]
      BY TestParts DEF PathTypeOK
    <3>3. UNCHANGED cq \/ Consume(SendCq(q))
      BY <3>1 DEF Poll
    <3>4. \A c \in Id : cq'[c] # <<>> => cq[c] # <<>>
      <4> HIDE DEF q
      <4>1. CASE Consume(SendCq(q))
        BY <3>2, <4>1 DEF Consume
      <4> QED
        BY <3>3, <4>1
    <3> QED
      BY <3>1, <3>4 DEF Poll, Consume
  <2>2. at'[writer] # 3
    BY <1>1, <1>2, <2>1
  <2>3. QueuesOwned'
    BY <1>1, <1>4, <1>5, <2>1 DEF QueuesOwned
  <2> QED
    BY <1>3, <2>2, <2>3 DEF PendingInv, PollOwed
<1> QED
  BY <1>7, <1>8, <1>9 DEF TestCall

\* What completes a request leaves an entry: there is room, or the queue had
\* entries before.
LEMMA DeviceKeepsPending ==
    ASSUME TestInv, PendingInv, NEW q \in Id, TestDevice(q)
    PROVE  PendingInv'
<1>1. /\ AtFirst /\ QueuesOwned /\ PollOwed /\ PostedOnce /\ PathTypeOK
      /\ FlowInv /\ CoreInv
  BY TestParts DEF PendingInv
<1>2. /\ UNCHANGED <<proc, obj, pdCache, qpCache, pc, at, ok>>
      /\ req[q] # <<>> /\ Device(q)
  BY DEF TestDevice, flowVars
<1>3. UNCHANGED req
  BY <1>2 DEF Device, Land, Ack, Refuse, GiveUp, Flush, Complete
<1>4. AtFirst'
  BY <1>1, <1>2 DEF AtFirst, Running, Finished
<1>5. CASE UNCHANGED <<acked, cq, overrun>>
  BY <1>1, <1>2, <1>3, <1>4, <1>5, PendingSame DEF PendingInv
<1>6. ASSUME Wrapper(q).kind = "qp", NEW b \in BOOLEAN, NEW down, Complete(q, b, down)
      PROVE  PendingInv'
  <2> DEFINE c == SendCq(q)
  <2>1. /\ q = QpOf(writer) /\ q[1] = writer /\ Finished(writer) /\ at[writer] > 2
        /\ c \in Id /\ c[1] = writer
    BY <1>1, <1>2, <1>6, SendCqKind DEF PostedOnce
  <2>2. /\ QpOf(writer)' = QpOf(writer) /\ Finished(writer)' = Finished(writer)
        /\ \A p : Wrapper(p)' = Wrapper(p)
        /\ SendCq(QpOf(writer))' = SendCq(QpOf(writer))
    BY <1>2 DEF QpOf, local_qp, local_pd, get_resrc, Finished, Running, Wrapper, SendCq
  <2>3. QueuesOwned'
    <3>1. overrun' \subseteq overrun \cup {c}
      BY <1>6 DEF Complete
    <3>2. \A d \in Id : cq'[d] # <<>> => cq[d] # <<>> \/ d = c
      BY <1>1, <1>6, <2>1 DEF Complete, PathTypeOK
    <3> HIDE DEF c
    <3>3. ASSUME NEW d \in Id, d \in overrun' \/ cq'[d] # <<>>
          PROVE  d \in overrun \/ cq[d] # <<>> \/ d = c
      BY <3>1, <3>2, <3>3
    <3>4. c = SendCq(QpOf(writer)) /\ req'[QpOf(writer)] # <<>> /\ overrun' \subseteq Id
      BY <1>1, <1>2, <1>3, <2>1, <3>1 DEF c, QueuesOwned
    <3> QED
      BY <1>1, <1>2, <1>3, <2>1, <2>2, <3>3, <3>4 DEF QueuesOwned
  <2>4. at[writer] = 3 => cq'[c] # <<>>
    <3> HIDE DEF c
    <3> SUFFICES ASSUME at[writer] = 3 PROVE cq'[c] # <<>>
      OBVIOUS
    <3>1. cq \in [Id -> Seq(Completions)] /\ cq[c] \in Seq(Completions)
      BY <1>1, <2>1 DEF PathTypeOK
    <3>2. CASE cq' = [cq EXCEPT ![c] = Append(@, [qp |-> q, ok |-> b])]
      <4>1. Append(cq[c], [qp |-> q, ok |-> b]) # <<>>
        <5>1. [qp |-> q, ok |-> b] \in Completions
          BY DEF Completions
        <5> QED
          BY <3>1, <5>1, AppendNotEmpty
      <4> QED
        BY <2>1, <3>1, <3>2, <4>1
    <3>3. CASE cq' = cq /\ c \in overrun
      BY <1>1, <2>1, <3>3 DEF PollOwed, c
    <3>4. CASE cq' = cq /\ Len(cq[c]) = cq_depth
      <4>1. cq_depth # 0
        BY QueueAssumption
      <4>2. Len(<<>>) = 0
        OBVIOUS
      <4> QED
        BY <3>4, <4>1, <4>2
    <3> QED
      BY <1>6, <3>2, <3>3, <3>4 DEF Complete, c
  <2>5. PollOwed'
    BY <1>1, <1>2, <1>3, <2>1, <2>2, <2>4 DEF PollOwed
  <2> QED
    BY <1>4, <2>3, <2>5 DEF PendingInv
<1>7. CASE Land(q)
  BY <1>5, <1>7 DEF Land
<1>8. CASE Ack(q) \/ Refuse(q) \/ GiveUp(q) \/ Flush(q)
  BY <1>6, <1>8 DEF Ack, Refuse, GiveUp, Flush, Active
<1> QED
  BY <1>2, <1>7, <1>8 DEF Device

LEMMA NextKeepsPending == TestInv /\ PendingInv /\ [TestNext]_testVars => PendingInv'
<1> SUFFICES ASSUME TestInv, PendingInv, [TestNext]_testVars PROVE PendingInv'
  OBVIOUS
<1>1. CASE UNCHANGED testVars
  <2>1. UNCHANGED <<proc, obj, pdCache, qpCache, pc, ok, at, req, acked, cq, overrun>>
    BY <1>1 DEF testVars, flowVars, pathVars
  <2>2. AtFirst'
    BY <2>1 DEF PendingInv, AtFirst, Running, Finished
  <2> QED
    BY <2>1, <2>2, PendingSame DEF PendingInv
<1> QED
  BY <1>1, FlowKeepsPending, CallKeepsPending, EndKeepsPending,
     RestartKeepsPending, DeviceKeepsPending DEF TestNext

LEMMA PendingInvariant == TestSpec => []PendingInv
<1>1. TestInit => PendingInv
  <2> SUFFICES ASSUME TestInit PROVE PendingInv
    OBVIOUS
  <2>1. /\ at = [n \in Node |-> 1] /\ overrun = {} /\ writer \in Node
        /\ cq = [q \in Id |-> <<>>]
    BY ReaderNode DEF TestInit, DataInit
  <2>2. at[writer] = 1 /\ \A c \in Id : cq[c] = <<>>
    BY <2>1
  <2> QED
    BY <2>1, <2>2 DEF PendingInv, AtFirst, QueuesOwned, PollOwed
<1> QED
  BY <1>1, TestInvariant, NextKeepsPending, PTL DEF TestSpec

\* A writer in rdma_poll finds its completion there or is still owed it by the
\* device exactly when its post was accepted, for any depth of the queues, any
\* failing calls and any number of launches: the completion queue of a launch
\* never overruns before its only completion was polled.
THEOREM NoLostCompletionCorrect == TestSpec => []NoLostCompletion
<1> DEFINE q == QpOf(writer)
           c == SendCq(q)
<1>1. TestInv /\ PendingInv => NoLostCompletion
  <2> SUFFICES ASSUME TestInv, PendingInv, TestAt(writer, "rdma_poll")
               PROVE  req[q] # <<>> <=> cq[c] # <<>> \/ acked[q] < Len(req[q])
    BY DEF NoLostCompletion
  <2>1. /\ Finished(writer) /\ at[writer] = 3 /\ FlowInv /\ CoreInv /\ PostedOnce
        /\ QueuesOwned /\ PollOwed
    BY TailPlaces, ReaderNode, TestParts DEF TestAt, PendingInv
  <2>2. q \in Id /\ Wrapper(q).kind = "qp"
    BY <2>1, FinishedHas, ReaderNode
  <2>3. c \in Id /\ Wrapper(c).kind = "cq"
    BY <2>1, <2>2, SendCqKind
  <2>4. acked[q] \in Nat /\ (req[q] # <<>> => Len(req[q]) = 1)
    BY <2>1, <2>2, PathParts DEF PostedOnce
  <2>5. ASSUME req[q] # <<>>, cq[c] = <<>> PROVE acked[q] < Len(req[q])
    <3>1. ~(acked[q] > 0)
      BY <2>1, <2>5 DEF PollOwed
    <3> QED
      BY <2>4, <2>5, <3>1
  <2>6. cq[c] # <<>> => req[q] # <<>>
    BY <2>1, <2>3 DEF QueuesOwned
  <2>7. acked[q] < Len(req[q]) => req[q] # <<>>
    BY <2>4
  <2> QED
    BY <2>5, <2>6, <2>7
<1> QED
  BY <1>1, TestInvariant, PendingInvariant, PTL

-----------------------------------------------------------------------------
(* The payload arrives.                                                    *)

\* A region that is of m before a step is one after it.
StillOf(m, info) ==
    /\ info[1] = m
    /\ launch'[m] = 1 /\ Running(m)' =>
         HasMr(m, "pd", "mr")' /\ info[2] = local_mr(m, "pd", "mr")'

LEMMA RegionSame ==
    ASSUME NEW m \in Node, NEW info, MrOfFlow(m, info),
           UNCHANGED <<launch, proc, pdCache, mrCache>>
    PROVE  StillOf(m, info)
  BY DEF MrOfFlow, StillOf, Running, HasMr, HasPd, local_mr, local_pd, get_resrc

LEMMA AimedSame ==
    ASSUME AimedInv, UNCHANGED <<req, wrote, buffer>>,
           \A info : MrOfFlow(reader, info) => StillOf(reader, info)
    PROVE  AimedInv'
<1>1. reader' = reader
  BY DEF reader, Other
<1> SUFFICES ASSUME NEW q \in Id, req[q] # <<>>
             PROVE  Aimed(q)'
  BY DEF AimedInv
<1>2. Aimed(q)
  BY DEF AimedInv
<1>3. MrOfFlow(reader, req[q][1].to)'
  BY <1>1, <1>2 DEF Aimed, StillOf, MrOfFlow
<1> QED
  BY <1>2, <1>3 DEF Aimed

\* What the bring-up, the end or the launch of a process leaves of it all.
LEMMA ProcessKeepsArrival ==
    ASSUME TestInv, ArrivalInv, NEW n \in Node,
           Ended(n) \/ Begun(n) \/ Proceeds(n), RegionsInv',
           UNCHANGED pathVars, at \in [Node -> Nat],
           at' = at \/ at' = [at EXCEPT ![n] = 1],
           Proceeds(n) => ~Finished(n) /\ at[n] = 1,
           Begun(n) => at'[n] = 1,
           \A m \in Node \ {n} : pc'[m] = pc[m],
           \A m \in Node : ok'[m] => ok[m] \/ at'[m] = 1
    PROVE  ArrivalInv'
<1>1. /\ CoreInv /\ LocalTypeOK /\ writer \in Node /\ reader \in Node
      /\ Filled /\ AimedInv /\ OkWritten /\ ToldOnce /\ TrueWritten
  BY TestParts, ReaderNode DEF ArrivalInv
<1>2. UNCHANGED <<req, wrote, buffer, cq, told, blind>>
  BY DEF pathVars
<1>3. AimedInv'
  <2>1. \A info : MrOfFlow(reader, info) => StillOf(reader, info)
    BY <1>1, RegionKept DEF StillOf
  <2> QED
    BY <1>1, <1>2, <2>1, AimedSame
<1>4. OkWritten'
  BY <1>1, <1>2 DEF OkWritten
<1>5. TrueWritten'
  <2>1. Written' <=> Written
    BY <1>2 DEF Written
  <2>2. at'[writer] > 3 => at[writer] > 3 /\ at'[writer] # 1
    BY <1>1
  <2> QED
    BY <1>1, <1>2, <2>1, <2>2 DEF TrueWritten
<1>6. CASE n # writer
  <2>1. /\ obj'[writer] = obj[writer] /\ proc'[writer] = proc[writer]
        /\ pdCache'[writer] = pdCache[writer] /\ qpCache'[writer] = qpCache[writer]
        /\ mrCache'[writer] = mrCache[writer]
    BY <1>1, <1>6 DEF Proceeds, ProcessKept, Ended, End, Begun, Relaunch, LocalTypeOK
  <2>2. pc'[writer] = pc[writer] /\ at'[writer] = at[writer]
    BY <1>1, <1>6
  <2>3. /\ QpOf(writer)' = QpOf(writer) /\ MrOf(writer)' = MrOf(writer)
        /\ Finished(writer)' = Finished(writer)
    BY <2>1, <2>2 DEF QpOf, MrOf, local_qp, local_mr, local_pd, get_resrc, Finished, Running
  <2>4. \A q \in Id : q[1] = writer => Wrapper(q)' = Wrapper(q)
    BY <2>1 DEF Wrapper
  <2>5. Filled'
    BY <1>1, <1>2, <2>2, <2>3 DEF Filled
  <2>6. ToldOnce'
    BY <1>1, <1>2, <2>2, <2>3, <2>4 DEF ToldOnce, PolledOne
  <2> QED
    BY <1>3, <1>4, <1>5, <2>5, <2>6 DEF ArrivalInv
<1>7. CASE n = writer
  <2>1. Finished(writer)' => at'[writer] = 1
    <3>1. Ended(writer) => ~Running(writer)'
      BY <1>1 DEF Ended, End, Running, LocalTypeOK
    <3>2. Proceeds(writer) => at'[writer] = 1
      BY <1>7
    <3> QED
      BY <1>7, <3>1, <3>2 DEF Finished
  <2>2. Filled'
    BY <2>1 DEF Filled
  <2>3. ASSUME NEW q \in Id, told[q] # <<>>
        PROVE  q[1] = writer /\ Wrapper(q)'.kind = "dead"
    <3>1. /\ q[1] = writer /\ q[2] \in Handle
          /\ obj[writer][q[2]].kind \in {"qp", "dead"}
          /\ obj[writer][q[2]].kind = "qp" => Finished(writer) /\ at[writer] > 3
      BY <1>1, <2>3 DEF ToldOnce, PolledOne, Wrapper, Id
    <3>2. CASE Ended(writer)
      <4>1. obj'[writer][q[2]].kind = "dead"
        BY <1>1, <3>1, <3>2 DEF Ended, End, Blank, LocalTypeOK
      <4> QED
        BY <3>1, <4>1 DEF Wrapper
    <3>3. CASE Begun(writer) \/ Proceeds(writer)
      <4>1. obj[writer][q[2]].kind = "dead"
        BY <1>7, <3>1, <3>3 DEF Begun, Relaunch, Finished
      <4>2. obj'[writer][q[2]].kind = "dead"
        BY <3>1, <3>3, <4>1 DEF Begun, Relaunch, Proceeds, SameObject
      <4> QED
        BY <3>1, <4>2 DEF Wrapper
    <3> QED
      BY <1>7, <3>2, <3>3
  <2>4. ToldOnce'
    BY <1>2, <2>3 DEF ToldOnce, PolledOne
  <2> QED
    BY <1>3, <1>4, <1>5, <2>2, <2>4 DEF ArrivalInv
<1> QED
  BY <1>6, <1>7

LEMMA FlowKeepsArrival ==
    ASSUME TestInv, PendingInv, ArrivalInv, NEW n \in Node, TestFlow(n)
    PROVE  ArrivalInv'
<1>1. FlowInv /\ AtFirst /\ at \in [Node -> Nat]
  BY TestParts DEF PendingInv, PathTypeOK
<1>2. FlowStep(n) /\ UNCHANGED <<pathVars, at>>
  BY DEF TestFlow
<1>3. /\ Running(n) /\ (Ended(n) \/ Proceeds(n)) /\ ~Finished(n) /\ at[n] = 1
      /\ \A m \in Node \ {n} : pc'[m] = pc[m]
      /\ \A m \in Node : ok'[m] => ok[m]
  BY <1>1, <1>2, FlowStepFrame DEF AtFirst
<1>4. ~Begun(n)
  BY <1>3 DEF Begun, Relaunch
<1>5. RegionsInv'
  BY <1>1, <1>2, RegionsFlow DEF ArrivalInv
<1> QED
  BY <1>1, <1>2, <1>3, <1>4, <1>5, ProcessKeepsArrival

LEMMA EndKeepsArrival ==
    ASSUME TestInv, ArrivalInv, NEW n \in Node, Exit(n) \/ TestCrash(n)
    PROVE  ArrivalInv'
<1>1. FlowInv /\ LocalTypeOK /\ pc \in [Node -> 1..12] /\ at \in [Node -> Nat]
  BY TestParts DEF PathTypeOK
<1>2. /\ Kill(n) /\ Carry(n) /\ pc' = [pc EXCEPT ![n] = 1]
      /\ at' = at \/ at' = [at EXCEPT ![n] = 1]
      /\ UNCHANGED <<ok, pathVars>>
  BY DEF Exit, TestCrash, Crash
<1>3. End(n, "killed") /\ Running(n) /\ ~Running(n)'
  BY <1>1, <1>2 DEF Kill, End, Running, LocalTypeOK
<1>4. Ended(n)
  BY <1>2, <1>3 DEF Carry, Ended
<1>5. ~Begun(n) /\ ~Proceeds(n)
  BY <1>3 DEF Begun, Relaunch, Proceeds, Running
<1>6. RegionsInv'
  BY <1>1, <1>4, RegionsEnd DEF ArrivalInv
<1>7. \A m \in Node \ {n} : pc'[m] = pc[m]
  BY <1>1, <1>2
<1> QED
  BY <1>1, <1>2, <1>4, <1>5, <1>6, <1>7, ProcessKeepsArrival

LEMMA RestartKeepsArrival ==
    ASSUME TestInv, ArrivalInv, NEW n \in Node, TestRestart(n)
    PROVE  ArrivalInv'
<1>1. FlowInv /\ at \in [Node -> Nat] /\ ok \in [Node -> BOOLEAN]
  BY TestParts DEF PathTypeOK
<1>2. /\ Restart(n) /\ at' = [at EXCEPT ![n] = 1]
      /\ UNCHANGED <<pathVars, pc>> /\ ok' = [ok EXCEPT ![n] = TRUE]
  BY DEF TestRestart, Restart
<1>3. Begun(n) /\ ~Running(n) /\ at'[n] = 1
  BY <1>1, <1>2 DEF Restart, Begun, Relaunch, exchangeVars
<1>4. ~Proceeds(n)
  BY <1>3 DEF Proceeds
<1>5. RegionsInv'
  BY <1>1, <1>2, RegionsRestart DEF ArrivalInv
<1>6. \A m \in Node : ok'[m] => ok[m] \/ at'[m] = 1
  BY <1>1, <1>2, <1>3
<1> QED
  BY <1>1, <1>2, <1>3, <1>4, <1>5, <1>6, ProcessKeepsArrival

\* Nothing is written that was not posted.
LEMMA WroteWasPosted ==
    ASSUME TestInv, NEW q \in Id, wrote[q] # <<>>
    PROVE  req[q] # <<>> /\ q[1] = writer
<1>1. /\ wrote[q] \in Seq(Nat) /\ Len(wrote[q]) \in Nat
      /\ Len(wrote[q]) <= Len(req[q]) /\ PostedOnce
  BY PathParts, TestParts
<1>2. Len(wrote[q]) # 0 /\ Len(<<>>) = 0
  BY <1>1
<1>3. req[q] # <<>>
  BY <1>1, <1>2
<1> QED
  BY <1>1, <1>3 DEF PostedOnce

\* What no call of the test after the bring-up touches.
LEMMA CallLeaves ==
    ASSUME NEW n \in Node, TestCall(n)
    PROVE  UNCHANGED <<launch, proc, obj, pdCache, mrCache, qpCache, memc, remoteMr, pc>>
  BY DEF TestCall, GeneralCall, Memcpy, TestPost, TestPoll, Strcmp, coreVars, vars

\* A step that leaves the processes alone and what was posted and written.
LEMMA RestSame ==
    ASSUME ArrivalInv,
           UNCHANGED <<launch, proc, obj, pdCache, mrCache, qpCache, memc, remoteMr, pc>>
    PROVE  /\ RegionsInv'
           /\ \A info : MrOfFlow(reader, info) => StillOf(reader, info)
           /\ QpOf(writer)' = QpOf(writer) /\ MrOf(writer)' = MrOf(writer)
           /\ Finished(writer)' = Finished(writer)
           /\ \A q : Wrapper(q)' = Wrapper(q)
<1>1. /\ \A m : /\ HasMr(m, "pd", "mr")' = HasMr(m, "pd", "mr")
                /\ local_mr(m, "pd", "mr")' = local_mr(m, "pd", "mr")
                /\ Running(m)' = Running(m)
      /\ QpOf(writer)' = QpOf(writer) /\ MrOf(writer)' = MrOf(writer)
      /\ Finished(writer)' = Finished(writer)
      /\ \A q : Wrapper(q)' = Wrapper(q)
  BY DEF HasMr, HasPd, local_mr, local_pd, local_qp, get_resrc, Running,
         QpOf, MrOf, Finished, Wrapper
<1>2. RegionsInv'
  BY <1>1 DEF ArrivalInv, RegionsInv, MrOfFlow
<1>3. \A info : MrOfFlow(reader, info) => StillOf(reader, info)
  BY <1>1 DEF MrOfFlow, StillOf
<1> QED
  BY <1>1, <1>2, <1>3

\* A region with something in it is never emptied, so what was aimed stays
\* aimed.
LEMMA AimedGrows ==
    ASSUME TestInv, ArrivalInv, UNCHANGED <<req, wrote>>,
           \A info : MrOfFlow(reader, info) => StillOf(reader, info),
           \A r \in Id : buffer[r] > 0 => buffer'[r] > 0
    PROVE  AimedInv'
<1>1. reader' = reader
  BY DEF reader, Other
<1> SUFFICES ASSUME NEW q \in Id, req[q] # <<>>
             PROVE  Aimed(q)'
  BY DEF AimedInv
<1>2. Aimed(q) /\ PathTypeOK /\ PostedOnce
  BY TestParts DEF ArrivalInv, AimedInv
<1>3. req[q][1] \in Posts
  <2>1. req[q] \in Seq(Posts) /\ Len(req[q]) = 1
    BY <1>2 DEF PathTypeOK, PostedOnce
  <2> QED
    BY <2>1
<1>4. MrOfFlow(reader, req[q][1].to)'
  BY <1>1, <1>2 DEF Aimed, StillOf, MrOfFlow
<1> QED
  BY <1>2, <1>3, <1>4 DEF Aimed, Posts

LEMMA MemcpyKeepsArrival ==
    ASSUME TestInv, ArrivalInv, NEW n \in Node, TestCall(n), Memcpy(n) \/ Strcmp(n)
    PROVE  ArrivalInv'
<1>1. /\ FlowInv /\ PathTypeOK /\ writer \in Node /\ reader \in Node /\ reader # writer
      /\ Filled /\ OkWritten /\ ToldOnce /\ TrueWritten
  BY TestParts, ReaderNode DEF ArrivalInv
<1>2. /\ Finished(n) /\ at' = [at EXCEPT ![n] = @ + 1]
      /\ at'[writer] \in Nat /\ at[writer] \in Nat /\ at[writer] <= at'[writer]
      /\ \A m \in Node : ok'[m] => ok[m]
  BY CallFrame
<1>3. UNCHANGED <<launch, proc, obj, pdCache, mrCache, qpCache, memc, remoteMr, pc>>
  BY CallLeaves
<1>4. UNCHANGED <<req, wrote, cq, told, blind>>
  BY DEF Memcpy, Strcmp, Fill, pathVars
<1>5. MrOf(n) \in Id
  BY <1>1, <1>2, FinishedHas
<1>6. \/ n = writer /\ at[n] = 1 /\ buffer' = [buffer EXCEPT ![MrOf(n)] = @ + 1]
      \/ n = reader /\ buffer' = buffer
  BY TailPlaces DEF Memcpy, Strcmp, Fill, pathVars
<1>7. buffer \in [Id -> Nat] /\ at \in [Node -> Nat]
  BY <1>1 DEF PathTypeOK
<1>8. /\ \A r \in Id : buffer[r] > 0 => buffer'[r] > 0
      /\ n = writer => buffer'[MrOf(writer)] > 0
  <2>1. CASE buffer' = [buffer EXCEPT ![MrOf(n)] = @ + 1]
    <3> DEFINE b == MrOf(n)
    <3>1. buffer'[b] = buffer[b] + 1 /\ buffer[b] \in Nat
      BY <1>5, <1>7, <2>1
    <3>2. \A r \in Id : r # b => buffer'[r] = buffer[r]
      BY <1>5, <1>7, <2>1
    <3> HIDE DEF b
    <3>3. buffer'[b] > 0
      BY <3>1
    <3>4. \A r \in Id : buffer[r] > 0 => buffer'[r] > 0
      BY <3>2, <3>3
    <3> QED
      BY <3>3, <3>4 DEF b
  <2>2. CASE n = reader /\ buffer' = buffer
    BY <1>1, <2>2
  <2> QED
    BY <1>6, <2>1, <2>2
<1>9. at'[writer] > 3 => at[writer] > 3
  <2>1. CASE n = writer
    BY <1>1, <1>2, <1>6, <1>7, <2>1
  <2>2. CASE n # writer
    BY <1>1, <1>2, <1>7, <2>2
  <2> QED
    BY <2>1, <2>2
<1>10. Filled'
  <2>1. CASE n = writer
    BY <1>3, <1>8, <2>1, RestSame DEF Filled
  <2>2. CASE n # writer
    <3>1. at'[writer] = at[writer] /\ buffer' = buffer
      BY <1>1, <1>2, <1>6, <1>7, <2>2
    <3> QED
      BY <1>1, <1>3, <3>1, RestSame DEF Filled
  <2> QED
    BY <2>1, <2>2
<1>11. ToldOnce'
  <2>1. at[writer] > 3 => at'[writer] > 3
    BY <1>2
  <2> QED
    BY <1>1, <1>3, <1>4, <2>1, RestSame DEF ToldOnce, PolledOne
<1>12. TrueWritten'
  <2>1. Written' <=> Written
    BY <1>4 DEF Written
  <2> QED
    BY <1>1, <1>2, <1>4, <1>9, <2>1 DEF TrueWritten
<1>13. AimedInv' /\ RegionsInv'
  BY <1>3, <1>4, <1>8, RestSame, AimedGrows
<1>14. OkWritten'
  BY <1>1, <1>4 DEF OkWritten
<1> QED
  BY <1>10, <1>11, <1>12, <1>13, <1>14 DEF ArrivalInv

\* The general messages leave the data path alone.
LEMMA GeneralKeepsArrival ==
    ASSUME TestInv, ArrivalInv, NEW n \in Node, TestCall(n), GeneralCall(n)
    PROVE  ArrivalInv'
<1>1. /\ PathTypeOK /\ writer \in Node /\ reader \in Node /\ reader # writer
      /\ Filled /\ AimedInv /\ OkWritten /\ ToldOnce /\ TrueWritten
  BY TestParts, ReaderNode DEF ArrivalInv
<1>2. /\ at' = [at EXCEPT ![n] = @ + 1] /\ at \in [Node -> Nat]
      /\ at'[writer] \in Nat /\ at[writer] \in Nat /\ at[writer] <= at'[writer]
      /\ \A m \in Node : ok'[m] => ok[m]
  BY <1>1, CallFrame DEF PathTypeOK
<1>3. UNCHANGED <<launch, proc, obj, pdCache, mrCache, qpCache, memc, remoteMr, pc>>
  BY CallLeaves
<1>4. UNCHANGED <<buffer, req, wrote, cq, told, blind>>
  BY DEF GeneralCall, pathVars
<1>5. n = writer => at[writer] > 3
  BY <1>1, TailPlaces DEF GeneralCall, TestPush, TestWait, TestDel
<1>6. /\ at'[writer] > 3 <=> at[writer] > 3
      /\ at'[writer] > 1 => at[writer] > 1
  <2>1. CASE n = writer
    BY <1>2, <1>5, <2>1
  <2>2. CASE n # writer
    BY <1>1, <1>2, <2>2
  <2> QED
    BY <2>1, <2>2
<1>7. Filled'
  BY <1>1, <1>3, <1>4, <1>6, RestSame DEF Filled
<1>8. ToldOnce'
  BY <1>1, <1>3, <1>4, <1>6, RestSame DEF ToldOnce, PolledOne
<1>9. TrueWritten'
  <2>1. Written' <=> Written
    BY <1>4 DEF Written
  <2> QED
    BY <1>1, <1>2, <1>4, <1>6, <2>1 DEF TrueWritten
<1>10. AimedInv' /\ RegionsInv'
  BY <1>1, <1>3, <1>4, RestSame, AimedSame
<1>11. OkWritten'
  BY <1>1, <1>4 DEF OkWritten
<1> QED
  BY <1>7, <1>8, <1>9, <1>10, <1>11 DEF ArrivalInv

\* The post is aimed at the region that was fetched under the name of the
\* reader, and reads the region that was filled.
LEMMA PostKeepsArrival ==
    ASSUME TestInv, ArrivalInv, NEW n \in Node, TestCall(n), TestPost(n)
    PROVE  ArrivalInv'
<1> DEFINE q == QpOf(writer)
           r == Request(MrOf(writer), RemoteMr(writer), FALSE)
<1>1. /\ FlowInv /\ PathTypeOK /\ PostedOnce
      /\ writer \in Node /\ reader \in Node /\ reader # writer
      /\ RegionsInv /\ Filled /\ AimedInv /\ OkWritten /\ ToldOnce /\ TrueWritten
  BY TestParts, ReaderNode DEF ArrivalInv
<1>2. Finished(n) /\ at' = [at EXCEPT ![n] = @ + 1] /\ at \in [Node -> Nat]
  BY <1>1, CallFrame DEF PathTypeOK
<1>3. n = writer /\ at[writer] = 2 /\ at'[writer] = 3
  BY <1>1, <1>2, TailPlaces DEF TestPost
<1>4. UNCHANGED <<launch, proc, obj, pdCache, mrCache, qpCache, memc, remoteMr, pc>>
  BY CallLeaves
<1>5. UNCHANGED <<buffer, wrote, cq, told, blind>>
  BY DEF TestPost, Post
<1>6. q \in Id /\ Wrapper(q).kind = "qp" /\ req[q] = <<>>
  BY <1>1, <1>2, <1>3, FinishedHas DEF PostedOnce
<1>7. wrote[q] = <<>>
  <2>1. wrote[q] \in Seq(Nat) /\ Len(wrote[q]) <= Len(req[q]) /\ Len(req[q]) = 0
    BY <1>6, PathParts
  <2> QED
    BY <2>1
<1>8. req' = req \/ req' = [req EXCEPT ![q] = Append(@, r)]
  BY <1>3 DEF TestPost, Post
<1>9. MrOfFlow(reader, RemoteMr(writer))
  <2>1. pc[writer] = 12 /\ Reached(writer) /\ Other(writer) = reader
    BY <1>1, <1>2, <1>3, FinishedHas, FlowParts DEF reader
  <2>2. remoteMr[writer][mr_name[reader]] # nullptr
    BY <2>1 DEF Reached, is_registered
  <2> QED
    BY <1>1, <2>1, <2>2 DEF RegionsInv, RemoteMr, get_resrc
<1>10. /\ ~r.inline /\ r.from = MrOf(writer) /\ r.to = RemoteMr(writer)
       /\ buffer[MrOf(writer)] > 0
  BY <1>1, <1>2, <1>3 DEF Request, Filled
<1> HIDE DEF r, q
<1>11. AimedInv'
  <2>1. reader' = reader /\ req \in [Id -> Seq(Posts)]
    BY <1>1 DEF reader, Other, PathTypeOK
  <2> SUFFICES ASSUME NEW p \in Id, req'[p] # <<>>
               PROVE  Aimed(p)'
    BY DEF AimedInv
  <2>2. CASE req'[p] = req[p]
    <3>1. Aimed(p)
      BY <1>1, <2>2 DEF AimedInv
    <3>2. StillOf(reader, req[p][1].to)
      BY <1>4, <3>1, RestSame DEF Aimed
    <3>3. MrOfFlow(reader, req[p][1].to)'
      BY <2>1, <2>2, <3>2 DEF StillOf, MrOfFlow
    <3> QED
      BY <1>5, <2>2, <3>1, <3>3 DEF Aimed
  <2>3. CASE p = q /\ req'[q] = Append(req[q], r)
    <3>1. req'[q][1] = r
      BY <1>6, <2>3
    <3>2. StillOf(reader, r.to)
      BY <1>4, <1>9, <1>10, RestSame
    <3>3. MrOfFlow(reader, req[p][1].to)'
      BY <2>1, <2>3, <3>1, <3>2 DEF StillOf, MrOfFlow
    <3> QED
      BY <1>5, <1>7, <1>10, <2>3, <3>1, <3>3 DEF Aimed
  <2> QED
    BY <1>6, <1>8, <2>1, <2>2, <2>3
<1>12. Filled'
  BY <1>4, <1>5, <1>10, RestSame DEF Filled
<1>13. ToldOnce'
  BY <1>1, <1>3, <1>4, <1>5, RestSame DEF ToldOnce, PolledOne
<1>14. TrueWritten'
  BY <1>3 DEF TrueWritten
<1>15. OkWritten' /\ RegionsInv'
  BY <1>1, <1>4, <1>5, RestSame DEF OkWritten
<1> QED
  BY <1>11, <1>12, <1>13, <1>14, <1>15 DEF ArrivalInv

\* A poll that does not fail returns the status of a completion, and one with
\* success is of something written by the writer.
LEMMA PollKeepsArrival ==
    ASSUME TestInv, ArrivalInv, NEW n \in Node, TestCall(n), TestPoll(n)
    PROVE  ArrivalInv'
<1> DEFINE q == QpOf(writer)
           c == SendCq(QpOf(writer))
<1>1. /\ FlowInv /\ CoreInv /\ PathTypeOK /\ PostedOnce /\ CompletedOnce
      /\ writer \in Node /\ reader \in Node /\ reader # writer
      /\ Filled /\ AimedInv /\ OkWritten /\ ToldOnce /\ TrueWritten
      /\ ok \in [Node -> BOOLEAN]
  BY TestParts, ReaderNode DEF ArrivalInv
<1>2. Finished(n) /\ at' = [at EXCEPT ![n] = @ + 1] /\ at \in [Node -> Nat]
  BY <1>1, CallFrame DEF PathTypeOK
<1>3. n = writer /\ at[writer] = 3 /\ at'[writer] = 4 /\ Poll(q)
  BY <1>1, <1>2, TailPlaces DEF TestPoll
<1>4. UNCHANGED <<launch, proc, obj, pdCache, mrCache, qpCache, memc, remoteMr, pc>>
  BY CallLeaves
<1>5. UNCHANGED <<buffer, req, wrote>>
  BY DEF TestPoll, Poll
<1>6. /\ q \in Id /\ c \in Id /\ Wrapper(q).kind = "qp" /\ q[1] = writer
      /\ Finished(writer)
  BY <1>1, <1>2, <1>3, FinishedHas, SendCqId DEF QpOf
<1>7. told[q] = <<>>
  BY <1>1, <1>3, <1>6 DEF ToldOnce, PolledOne
<1>8. told \in [Id -> Seq(BOOLEAN)] /\ cq \in [Id -> Seq(Completions)]
  BY <1>1 DEF PathTypeOK
<1>9. /\ ok'[writer] => told'[q][1]
      /\ \A p \in Id : p # q => told'[p] = told[p]
  <2>1. ok'[writer] => told'[q][1]
    BY <1>1, <1>3 DEF TestPoll
  <2>2. \E b : told' = [told EXCEPT ![q] = Append(@, b)]
    BY <1>3 DEF Poll
  <2> QED
    BY <1>8, <2>1, <2>2
<1>10. \/ blind' # {}
       \/ /\ Consume(c)
          /\ told' = [told EXCEPT ![q] = Append(@, Head(cq[c]).ok)]
  BY <1>3 DEF Poll, Status
<1> HIDE DEF q, c
<1>11. OkWritten'
  <2>1. CASE cq' = cq
    BY <1>1, <1>5, <2>1 DEF OkWritten
  <2>2. CASE cq' = [cq EXCEPT ![c] = Tail(@)] /\ cq[c] # <<>>
    <3>1. cq[c] \in Seq(Completions)
      BY <1>6, <1>8
    <3>2. /\ \A i \in 1..Len(Tail(cq[c])) : /\ Tail(cq[c])[i] = cq[c][i + 1]
                                            /\ i + 1 \in 1..Len(cq[c])
      BY <2>2, <3>1, TailParts
    <3>3. cq'[c] = Tail(cq[c]) /\ \A d \in Id : d # c => cq'[d] = cq[d]
      BY <1>6, <1>8, <2>2
    <3> SUFFICES ASSUME NEW d \in Id, NEW i \in 1..Len(cq'[d]), cq'[d][i].ok
                 PROVE  wrote[cq'[d][i].qp] # <<>>
      BY <1>5 DEF OkWritten
    <3>4. CASE d # c
      BY <1>1, <3>3, <3>4 DEF OkWritten
    <3>5. CASE d = c
      <4>1. i \in 1..Len(Tail(cq[c])) /\ cq'[d][i] = Tail(cq[c])[i]
        BY <3>3, <3>5
      <4>2. i + 1 \in 1..Len(cq[c]) /\ cq'[d][i] = cq[c][i + 1]
        BY <3>2, <4>1
      <4>3. cq[c][i + 1].ok => wrote[cq[c][i + 1].qp] # <<>>
        BY <1>1, <1>6, <4>2 DEF OkWritten
      <4> QED
        BY <4>2, <4>3
    <3> QED
      BY <3>4, <3>5
  <2> QED
    BY <1>3, <2>1, <2>2 DEF Poll, Consume, c, q
<1>12. TrueWritten'
  <2> SUFFICES ASSUME blind' = {}, ok'[writer] PROVE Written'
    BY DEF TrueWritten
  <2>1. Consume(c) /\ told' = [told EXCEPT ![q] = Append(@, Head(cq[c]).ok)]
    BY <1>10
  <2>2. told'[q][1] = Head(cq[c]).ok
    BY <1>6, <1>7, <1>8, <2>1
  <2>3. /\ cq[c] \in Seq(Completions) /\ cq[c] # <<>>
        /\ Head(cq[c]) = cq[c][1] /\ 1 \in 1..Len(cq[c])
    BY <1>6, <1>8, <2>1, TailParts DEF Consume
  <2> DEFINE p == cq[c][1].qp
  <2>4. wrote[p] # <<>> /\ p \in Id
    BY <1>1, <1>6, <1>9, <2>2, <2>3, PathParts DEF OkWritten
  <2>5. p[1] = writer
    BY <2>4, WroteWasPosted
  <2> QED
    BY <1>5, <2>4, <2>5 DEF Written
<1>13. ToldOnce'
  <2> SUFFICES ASSUME NEW p \in Id, told'[p] # <<>>
               PROVE  PolledOne(p)'
    BY DEF ToldOnce
  <2>1. /\ QpOf(writer)' = QpOf(writer) /\ Finished(writer)' = Finished(writer)
        /\ Wrapper(p)' = Wrapper(p)
    BY <1>4, RestSame
  <2>2. CASE p = q
    BY <1>3, <1>6, <2>1, <2>2 DEF PolledOne, q
  <2>3. CASE p # q
    BY <1>1, <1>3, <1>9, <2>1, <2>3 DEF ToldOnce, PolledOne
  <2> QED
    BY <2>2, <2>3
<1>14. Filled'
  <2>1. at[writer] > 1
    BY <1>3
  <2> QED
    BY <1>1, <1>4, <1>5, <2>1, RestSame DEF Filled
<1>15. AimedInv' /\ RegionsInv'
  BY <1>1, <1>4, <1>5, RestSame, AimedSame
<1> QED
  BY <1>11, <1>12, <1>13, <1>14, <1>15 DEF ArrivalInv

LEMMA CallKeepsArrival ==
    ASSUME TestInv, ArrivalInv, NEW n \in Node, TestCall(n)
    PROVE  ArrivalInv'
  BY MemcpyKeepsArrival, GeneralKeepsArrival, PostKeepsArrival, PollKeepsArrival
     DEF TestCall

\* A write puts what it carries where it was aimed.
LEMMA LandKeepsArrival ==
    ASSUME TestInv, ArrivalInv, NEW q \in Id, req[q] # <<>>, Land(q),
           UNCHANGED <<flowVars, at>>
    PROVE  ArrivalInv'
<1>1. /\ PostedOnce /\ Filled /\ AimedInv /\ OkWritten /\ ToldOnce /\ TrueWritten
      /\ buffer \in [Id -> Nat] /\ wrote \in [Id -> Seq(Nat)]
      /\ req \in [Id -> Seq(Posts)]
  BY TestParts DEF ArrivalInv, PathTypeOK
<1>2. UNCHANGED <<launch, proc, obj, pdCache, mrCache, qpCache, memc, remoteMr, pc, ok>>
  BY DEF flowVars
<1>3. UNCHANGED <<req, cq, told, blind>>
  BY DEF Land
<1> DEFINE r == req[q][1]
           v == buffer[r.from]
<1>4. /\ Len(wrote[q]) = 0 /\ wrote[q] \in Seq(Nat)
      /\ r \in Posts
  <2>1. /\ wrote[q] \in Seq(Nat) /\ Len(wrote[q]) \in Nat
        /\ Len(req[q]) = 1 /\ req[q] \in Seq(Posts)
    BY <1>1 DEF PostedOnce
  <2>2. Len(wrote[q]) < Len(req[q])
    BY DEF Land
  <2> QED
    BY <2>1, <2>2
<1>5. Aimed(q) /\ ~r.inline /\ v > 0 /\ v \in Nat /\ r.to \in Id
  BY <1>1, <1>4 DEF AimedInv, Aimed, Posts
<1>6. NextWrite(q) = r /\ Carried(NextWrite(q)) = v
  BY <1>4, <1>5 DEF NextWrite, Carried
<1>7. /\ wrote' = [wrote EXCEPT ![q] = Append(@, v)]
      /\ buffer' = [buffer EXCEPT ![r.to] = v]
  BY <1>6 DEF Land
<1> HIDE DEF r, v
<1>8. /\ buffer'[r.to] > 0
      /\ \A b \in Id : buffer[b] > 0 => buffer'[b] > 0
  BY <1>1, <1>5, <1>7
<1>9. \A p \in Id : /\ p # q => wrote'[p] = wrote[p]
                    /\ wrote[p] # <<>> => wrote'[p] # <<>>
  <2>1. Append(wrote[q], v) # <<>>
    BY <1>4, <1>5, AppendNotEmpty
  <2> QED
    BY <1>1, <1>7, <2>1
<1>10. AimedInv'
  <2>1. reader' = reader
    BY DEF reader, Other
  <2> SUFFICES ASSUME NEW p \in Id, req'[p] # <<>>
               PROVE  Aimed(p)'
    BY DEF AimedInv
  <2>2. Aimed(p) /\ req[p] \in Seq(Posts) /\ Len(req[p]) = 1
    BY <1>1, <1>3 DEF AimedInv, PostedOnce
  <2>3. req[p][1] \in Posts
    BY <2>2
  <2>4. MrOfFlow(reader, req[p][1].to)'
    BY <1>2, <1>3, <2>1, <2>2, RegionSame, ReaderNode DEF Aimed, StillOf, MrOfFlow
  <2>5. buffer'[req[p][1].from] > 0
    BY <1>8, <2>2, <2>3 DEF Aimed, Posts
  <2>6. wrote'[p] # <<>> => buffer'[req[p][1].to] > 0
    <3>1. CASE p = q
      BY <1>8, <3>1 DEF r
    <3>2. CASE p # q
      BY <1>8, <1>9, <2>2, <2>3, <3>2 DEF Aimed, Posts
    <3> QED
      BY <3>1, <3>2
  <2> QED
    BY <1>3, <2>2, <2>4, <2>5, <2>6 DEF Aimed
<1>11. Filled'
  <2>1. Finished(writer) /\ TestInv => MrOf(writer) \in Id
    BY FinishedHas, ReaderNode, TestParts
  <2> QED
    BY <1>1, <1>2, <1>8, <2>1, RestSame DEF Filled
<1>12. ToldOnce' /\ RegionsInv'
  BY <1>1, <1>2, <1>3, RestSame DEF ToldOnce, PolledOne
<1>13. OkWritten'
  <2>1. \A c \in Id : \A i \in 1..Len(cq[c]) : cq[c][i].qp \in Id
    BY PathParts
  <2> QED
    BY <1>1, <1>3, <1>9, <2>1 DEF OkWritten
<1>14. TrueWritten'
  <2>1. Written => Written'
    BY <1>9, WrittenStays
  <2> QED
    BY <1>1, <1>2, <1>3, <2>1 DEF TrueWritten
<1> QED
  BY <1>10, <1>11, <1>12, <1>13, <1>14 DEF ArrivalInv

\* A completion of success is one of something that was written.
LEMMA CompleteKeepsArrival ==
    ASSUME TestInv, ArrivalInv, NEW q \in Id, Wrapper(q).kind = "qp",
           NEW b \in BOOLEAN, NEW down, Complete(q, b, down), b => wrote[q] # <<>>,
           UNCHANGED <<flowVars, at, buffer, wrote>>
    PROVE  ArrivalInv'
<1>1. /\ CoreInv /\ Filled /\ AimedInv /\ OkWritten /\ ToldOnce /\ TrueWritten
      /\ cq \in [Id -> Seq(Completions)]
  BY TestParts DEF ArrivalInv, PathTypeOK
<1>2. UNCHANGED <<launch, proc, obj, pdCache, mrCache, qpCache, memc, remoteMr, pc, ok>>
  BY DEF flowVars
<1>3. UNCHANGED <<req, told, blind>>
  BY DEF Complete
<1>4. AimedInv' /\ RegionsInv'
  BY <1>1, <1>2, <1>3, RestSame, AimedSame
<1>5. Filled' /\ ToldOnce'
  BY <1>1, <1>2, <1>3, RestSame DEF Filled, ToldOnce, PolledOne
<1>6. TrueWritten'
  <2>1. Written => Written'
    BY DEF Written
  <2> QED
    BY <1>1, <1>2, <1>3, <2>1 DEF TrueWritten
<1>7. OkWritten'
  <2> DEFINE c == SendCq(q)
             e == [qp |-> q, ok |-> b]
  <2>1. c \in Id /\ e \in Completions /\ e.qp = q /\ e.ok = b
    BY <1>1, SendCqId DEF Completions
  <2>2. cq' = cq \/ cq' = [cq EXCEPT ![c] = Append(@, e)]
    BY DEF Complete
  <2> HIDE DEF c, e
  <2>3. CASE cq' = cq
    BY <1>1, <2>3 DEF OkWritten
  <2>4. CASE cq' = [cq EXCEPT ![c] = Append(@, e)]
    <3>1. /\ cq'[c] = Append(cq[c], e) /\ \A d \in Id : d # c => cq'[d] = cq[d]
          /\ cq[c] \in Seq(Completions) /\ Len(cq[c]) \in Nat
      BY <1>1, <2>1, <2>4
    <3>2. /\ Len(cq'[c]) = Len(cq[c]) + 1 /\ cq'[c][Len(cq[c]) + 1] = e
          /\ \A i \in 1..Len(cq[c]) : cq'[c][i] = cq[c][i]
      BY <2>1, <3>1, AppendParts
    <3> SUFFICES ASSUME NEW d \in Id, NEW i \in 1..Len(cq'[d]), cq'[d][i].ok
                 PROVE  wrote[cq'[d][i].qp] # <<>>
      BY DEF OkWritten
    <3>3. CASE d # c
      BY <1>1, <3>1, <3>3 DEF OkWritten
    <3>4. CASE d = c /\ i = Len(cq[c]) + 1
      BY <2>1, <3>2, <3>4
    <3>5. CASE d = c /\ i # Len(cq[c]) + 1
      <4>1. i \in 1..Len(cq[c])
        BY <3>1, <3>2, <3>5
      <4> QED
        BY <1>1, <2>1, <3>2, <3>5, <4>1 DEF OkWritten
    <3> QED
      BY <3>3, <3>4, <3>5
  <2> QED
    BY <2>2, <2>3, <2>4
<1> QED
  BY <1>4, <1>5, <1>6, <1>7 DEF ArrivalInv

LEMMA DeviceKeepsArrival ==
    ASSUME TestInv, ArrivalInv, NEW q \in Id, TestDevice(q)
    PROVE  ArrivalInv'
<1>1. UNCHANGED <<flowVars, at>> /\ req[q] # <<>> /\ Device(q)
  BY DEF TestDevice
<1>2. CASE Land(q)
  BY <1>1, <1>2, LandKeepsArrival
<1>3. CASE Ack(q)
  <2>1. acked[q] < Len(wrote[q]) /\ Complete(q, TRUE, {})
    BY <1>3 DEF Ack
  <2>2. wrote[q] # <<>>
    <3>1. acked[q] \in Nat /\ Len(wrote[q]) \in Nat
      BY PathParts
    <3>2. Len(wrote[q]) # 0 /\ Len(<<>>) = 0
      BY <2>1, <3>1
    <3> QED
      BY <3>2
  <2> QED
    BY <1>1, <1>3, <2>1, <2>2, CompleteKeepsArrival DEF Ack, Active
<1>4. CASE Refuse(q) \/ GiveUp(q) \/ Flush(q)
  <2>1. /\ Wrapper(q).kind = "qp" /\ UNCHANGED <<buffer, wrote>>
        /\ \E down : Complete(q, FALSE, down)
    BY <1>4 DEF Refuse, GiveUp, Flush, Active
  <2> QED
    BY <1>1, <2>1, CompleteKeepsArrival
<1> QED
  BY <1>1, <1>2, <1>3, <1>4 DEF Device

LEMMA NextKeepsArrival ==
    TestInv /\ PendingInv /\ ArrivalInv /\ [TestNext]_testVars => ArrivalInv'
<1> SUFFICES ASSUME TestInv, PendingInv, ArrivalInv, [TestNext]_testVars
             PROVE  ArrivalInv'
  OBVIOUS
<1>1. CASE UNCHANGED testVars
  <2>1. UNCHANGED <<launch, proc, obj, pdCache, mrCache, qpCache, memc, remoteMr, pc,
                    ok, at, req, wrote, buffer, cq, told, blind>>
    BY <1>1 DEF testVars, flowVars, pathVars
  <2>2. /\ Filled /\ AimedInv /\ OkWritten /\ ToldOnce /\ TrueWritten
    BY DEF ArrivalInv
  <2>3. AimedInv' /\ RegionsInv'
    BY <2>1, <2>2, RestSame, AimedSame
  <2>4. Filled' /\ ToldOnce' /\ OkWritten'
    BY <2>1, <2>2, RestSame DEF Filled, ToldOnce, PolledOne, OkWritten
  <2>5. TrueWritten'
    BY <2>1, <2>2 DEF TrueWritten, Written
  <2> QED
    BY <2>3, <2>4, <2>5 DEF ArrivalInv
<1> QED
  BY <1>1, FlowKeepsArrival, CallKeepsArrival, EndKeepsArrival,
     RestartKeepsArrival, DeviceKeepsArrival DEF TestNext

LEMMA ArrivalInitially == TestInit => ArrivalInv
<1> SUFFICES ASSUME TestInit PROVE ArrivalInv
  OBVIOUS
<1>1. /\ at = [n \in Node |-> 1] /\ writer \in Node
      /\ req = [q \in Id |-> <<>>] /\ told = [q \in Id |-> <<>>]
      /\ cq = [c \in Id |-> <<>>]
  BY ReaderNode DEF TestInit, DataInit
<1>2. /\ \A k \in MrName \cup QpName : memc[k] = nullptr
      /\ \A n \in Node : \A k \in MrName : remoteMr[n][k] = nullptr
  BY DEF TestInit, FlowInit, Init, EmptyCache
<1>3. RegionsInv
  BY <1>2, FlowKeys DEF RegionsInv
<1>4. at[writer] = 1
  BY <1>1
<1>5. Filled /\ AimedInv /\ ToldOnce /\ TrueWritten
  BY <1>1, <1>4 DEF Filled, AimedInv, ToldOnce, TrueWritten
<1>6. OkWritten
  BY <1>1 DEF OkWritten
<1> QED
  BY <1>3, <1>5, <1>6 DEF ArrivalInv

LEMMA ArrivalTells == TestInv /\ ArrivalInv => PayloadArrives
<1> SUFFICES ASSUME TestInv, ArrivalInv, blind = {}, launch[reader] = 1,
                    Running(reader), at[writer] > 3, ok[writer]
             PROVE  buffer[MrOf(reader)] > 0
  BY DEF PayloadArrives
<1>1. PICK q \in Id : wrote[q] # <<>>
  BY DEF ArrivalInv, TrueWritten, Written
<1>2. req[q] # <<>>
  BY <1>1, WroteWasPosted
<1>3. Aimed(q)
  BY <1>2 DEF ArrivalInv, AimedInv
<1>4. req[q][1].to \in Id
  <2>1. req[q] \in Seq(Posts) /\ Len(req[q]) = 1
    BY <1>2, TestParts DEF PathTypeOK, PostedOnce
  <2>2. req[q][1] \in Posts
    BY <2>1
  <2> QED
    BY <2>2 DEF Posts
<1>5. req[q][1].to[1] = reader /\ req[q][1].to[2] = local_mr(reader, "pd", "mr")
  BY <1>3 DEF Aimed, MrOfFlow
<1>6. req[q][1].to = MrOf(reader)
  BY <1>4, <1>5 DEF MrOf, Id
<1> QED
  BY <1>1, <1>3, <1>6 DEF Aimed

\* A writer whose poll returned true, and none of whose calls returned false,
\* wrote the payload into the region its peer looks at, for every choice of
\* the calls that may fail, every loss of packets and every launch of the
\* writer, as long as the reader was not launched again.
THEOREM PayloadArrivesCorrect == TestSpec => []PayloadArrives
  BY TestInvariant, PendingInvariant, ArrivalInitially, NextKeepsArrival,
     ArrivalTells, PTL DEF TestSpec

=============================================================================

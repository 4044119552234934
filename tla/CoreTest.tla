-------------------------------- MODULE CoreTest --------------------------------
(***************************************************************************)
(* test/core-test.cc as a whole: after the bring-up node 0 writes a payload*)
(* into the region of node 1, polls for the completion, waits for the      *)
(* message that node 1 got it and deletes the message; node 1 spins on its *)
(* region until the payload is there and pushes the message.  The          *)
(* bring-up, the data path and the general messages run together here: a   *)
(* write meets the queue pair and the region that the other node has at    *)
(* that time, if it has any.                                               *)
(***************************************************************************)
EXTENDS Bringup, GeneralMessages

CONSTANTS
    writer,                     \* node 0
    max_send_wr, cq_depth       \* as in DataPath

ASSUME WriterAssumption == writer \in Node

\* DepthAssumption of DataPath: ibv_create_cq and ibv_create_qp refuse 0.
ASSUME QueueAssumption == max_send_wr \in Nat \ {0} /\ cq_depth \in Nat \ {0}

VARIABLES
    buffer, req, wrote, acked, polled, cq, broken, overrun, told, blind,
    at,     \* the next call of the test each process makes after the bring-up
    clean,  \* does the reader's region hold a zero after the payload
    got     \* did the last memc_wait_general return true

INSTANCE DataPath

pathVars == <<buffer, req, wrote, acked, polled, cq, broken, overrun, told, blind>>
testVars == <<flowVars, general, pathVars, at, clean, got>>

reader == Other(writer)
message == "general-memc-got"

WriterTail == << "memcpy", "rdma_post_single_fast", "rdma_poll",
                 "memc_wait_general", "memc_del_general" >>
ReaderTail == << "strcmp", "memc_push_general" >>
TailOf(n) == IF n = writer THEN WriterTail ELSE ReaderTail

TestAt(n, call) ==
    Finished(n) /\ at[n] \in DOMAIN TailOf(n) /\ TailOf(n)[at[n]] = call
AtEnd(n) == at[n] = Len(TailOf(n)) + 1
Further(n) == at' = [at EXCEPT ![n] = @ + 1]

TestInit ==
    /\ FlowInit /\ DataInit
    /\ general = {}
    /\ at = [n \in Node |-> 1]
    /\ clean = TRUE
    /\ got = FALSE

\* The local queue pair and region, and the region of the other node.
QpOf(n) == <<n, local_qp(n, "pd", "qp")>>
MrOf(n) == <<n, local_mr(n, "pd", "mr")>>
RemoteMr(n) == obj[n][get_resrc(remoteMr[n], mr_name[Other(n)])].peer

coreVars == <<vars, pc>>

\* std::memcpy of the payload into the own region.
Memcpy(n) ==
    /\ TestAt(n, "memcpy")
    /\ Fill(MrOf(n))
    /\ UNCHANGED <<coreVars, ok, general, clean, got>>

TestPost(n) ==
    /\ TestAt(n, "rdma_post_single_fast")
    /\ Post(QpOf(n), MrOf(n), RemoteMr(n), FALSE)
    /\ ok' = [ok EXCEPT ![n] = @ /\ Accepts(QpOf(n))]
    /\ UNCHANGED <<coreVars, general, clean, got>>

\* rdma_poll("newcons-basiccq-1"), the send queue of the queue pair.
TestPoll(n) ==
    /\ TestAt(n, "rdma_poll")
    /\ Poll(QpOf(n))
    /\ ok' = [ok EXCEPT ![n] = @ /\ told'[QpOf(n)][1]]
    /\ UNCHANGED <<coreVars, general, clean, got>>

\* The memory of a new region is what aligned_alloc returned, and the payload
\* is sent without its terminating zero.
Strcmp(n) ==
    /\ TestAt(n, "strcmp")
    /\ buffer[MrOf(n)] > 0 /\ clean
    /\ UNCHANGED <<coreVars, ok, general, pathVars, clean, got>>

TestPush(n) ==
    /\ TestAt(n, "memc_push_general")
    /\ PushGeneral(n, message)
    /\ UNCHANGED got

TestWait(n) ==
    /\ TestAt(n, "memc_wait_general")
    /\ WaitGeneral(n, message)
    /\ got' = (ret'[n] = "true")

TestDel(n) ==
    /\ TestAt(n, "memc_del_general")
    /\ DelGeneral(n, message)
    /\ UNCHANGED got

GeneralCall(n) ==
    /\ TestPush(n) \/ TestWait(n) \/ TestDel(n)
    /\ ok' = [ok EXCEPT ![n] = @ /\ ret'[n] = "true"]
    /\ UNCHANGED <<proc, launch, obj, pdCache, cqCache, mrCache, qpCache,
                   memc, remoteMr, remoteQp, pc, pathVars, clean>>

TestCall(n) ==
    /\ Memcpy(n) \/ TestPost(n) \/ TestPoll(n) \/ Strcmp(n) \/ GeneralCall(n)
    /\ Further(n)

\* The bring-up.
TestFlow(n) ==
    /\ FlowStep(n)
    /\ IF n = reader /\ At(n, "create_local_mr")
       THEN clean' \in {TRUE, "nonzero_memory" \notin Faults}
       ELSE UNCHANGED clean
    /\ UNCHANGED <<general, pathVars, at, got>>

\* main returns: to the other node that is like any other end.
Exit(n) ==
    /\ Finished(n) /\ AtEnd(n)
    /\ Kill(n) /\ Carry(n)
    /\ pc' = [pc EXCEPT ![n] = 1]
    /\ UNCHANGED <<ok, general, pathVars, at, clean, got>>

TestCrash(n) ==
    /\ Crash(n)
    /\ at' = [at EXCEPT ![n] = 1]
    /\ UNCHANGED <<general, pathVars, clean, got>>

TestRestart(n) ==
    /\ Restart(n)
    /\ at' = [at EXCEPT ![n] = 1]
    /\ got' = (got /\ n # writer)
    /\ UNCHANGED <<general, pathVars, clean>>

\* The device has nothing to do for a queue pair nothing was posted to.
TestDevice(q) ==
    /\ req[q] # <<>>
    /\ Device(q)
    /\ UNCHANGED <<flowVars, general, at, clean, got>>

TestNext ==
    \/ \E n \in Node : \/ TestFlow(n) \/ TestCall(n) \/ Exit(n)
                       \/ TestCrash(n) \/ TestRestart(n)
    \/ \E q \in Id : TestDevice(q)

\* A process that runs makes its next call, and the devices execute,
\* acknowledge or give up.
TestSpec ==
    /\ TestInit /\ [][TestNext]_testVars
    /\ \A n \in Node : WF_testVars(TestFlow(n) \/ TestCall(n) \/ Exit(n))
    /\ WF_testVars(\E q \in Id : TestDevice(q))

-----------------------------------------------------------------------------
\* The bring-up, the data path and the test have their types.
TestTypeOK ==
    /\ FlowTypeOK
    /\ general \subseteq {message}
    /\ \A n \in Node : at[n] \in 1..(Len(TailOf(n)) + 1)
    /\ \A q \in Id : polled[q] <= acked[q] /\ acked[q] <= Len(req[q])

\* What the test takes the message for: a wait that returned true means that
\* the writer wrote a payload, in this launch or in an earlier one that left
\* its message behind, whatever became of the processes and of the answer of
\* the device.
GotMeansWritten == got => \E q \in Id : q[1] = writer /\ wrote[q] # <<>>

\* What the test takes a completion for: a writer whose poll returned true, and
\* none of whose calls returned false, has put the payload into the region the
\* reader looks at, as long as the reader was not launched again.  The address
\* went through two processes and the server, and the status through a queue.
\* A failed poll returns a status nobody wrote.
PayloadArrives ==
    blind = {} /\ launch[reader] = 1 /\ Running(reader) /\ at[writer] > 3 /\ ok[writer]
        => buffer[MrOf(reader)] > 0

\* One launch of the reader pushes one message, and a writer that got it and
\* whose deletion returned true leaves none on the server, also when an earlier
\* launch of the writer had waited for the same message: what is left over is
\* left by a wait that timed out, a crash or a failed deletion.
LeftOverOnlyAfterTimeout ==
    launch[reader] = 1 /\ AtEnd(writer) /\ ok[writer] => general = {}

\* rdma_poll has no other exit than an entry of its completion queue.  A writer
\* that is in it finds its completion there, or the device still owes it,
\* exactly when the post was accepted: no completion is lost to a queue that
\* was full, to another poll or to an end of the reader.
NoLostCompletion ==
    TestAt(writer, "rdma_poll") =>
        (req[QpOf(writer)] # <<>> <=> \/ cq[SendCq(QpOf(writer))] # <<>>
                                      \/ acked[QpOf(writer)] < Len(req[QpOf(writer)]))

\* The one hang of the writer is the poll after a post that was refused, whose
\* result the test does not look at: it hangs for no reader that is not ready
\* to receive yet, and for none that ended.
WriterHangsOnlyAfterRefusal ==
    []<>~(Finished(writer) /\ (TestAt(writer, "rdma_poll") => req[QpOf(writer)] # <<>>))

\* When both sides stay up, no call of theirs returned false before the post,
\* no device gave up and no poll failed, they end exactly when the memory
\* behind the payload in the reader's region was zero: otherwise strcmp never
\* finds the payload, and the reader spins after every call returned true.
EndsIffClean ==
    ( /\ [](broken = {} /\ blind = {} /\ \A n \in Node : launch[n] = 1 /\ (Running(n) \/ AtEnd(n)))
      /\ []((\A n \in Node : ok[n]) \/ at[writer] > 3) )
    => /\ <>[]clean => <>(\A n \in Node : AtEnd(n))
       /\ []<>~clean => [](~\A n \in Node : AtEnd(n))

\* hartebeest.cc:329: rdma_poll expects the status of a success.  A writer none
\* of whose calls returned false should have written once its poll returned.
TrueMeansWritten ==
    Running(writer) /\ at[writer] = 4 /\ ok[writer] => wrote[QpOf(writer)] # <<>>

=============================================================================

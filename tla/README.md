# A TLA+ development of hartebeest

hartebeest is a C++ library that manages the RDMA resources of a process and
lets the processes of a cluster tell each other, through a Memcached server,
what they need to reach each other's memory. This directory holds TLA+ modules
translated from its source (`src/src`, `src/test`), TLC configurations that check
them on small instances and TLAPS proofs for every value of the constants.
`PROJECT.json` maps every definition to the lines it stands for.

## 1. Inventory

### Components

| component | source | state | operations | modelled in |
|---|---|---|---|---|
| resource cache | `includes/hb_cache.hh` | a `std::map` from a name to the address of a wrapper | `register_resrc`, `is_registered`, `get_resrc`; `deregister_resrc` has no caller | `ResourceCache` |
| local resources | `hb_pds.cc`, `hb_mrs.cc`, `hb_cqs.cc`, `hb_qps.cc`, part of `hartebeest.cc` | the wrappers `Pd`, `Mr`, `BasicCq`, `Qp` and the verbs object behind each; `HB_PD_CACHE`, `HB_BASICCQ_CACHE`, and in each `Pd` its `mr_cache` and `qp_cache` | `create_local_pd`, `create_local_mr`, `create_basiccq`, `create_local_qp`, `init_local_qp`, `get_local_*` | `LocalResources` |
| exchange and connection | part of `hartebeest.cc`, `hb_memc.cc` | the Memcached server, `remote_mr_cache` and `remote_qp_cache` of each process | `memc_push_local_mr`, `memc_push_local_qp`, `memc_fetch_remote_mr`, `memc_fetch_remote_qp`, `connect_local_qp`, `get_remote_*` | `HartebeestCore` |
| data path | `hartebeest.cc:239-369` | the send queue of a queue pair, the completion queues, the buffers | `rdma_post_single_fast`, `rdma_post_single_signaled_inline`, `rdma_poll`, `rdma_send_poll`, `rdma_recv_poll` | `DataPath`, `Traffic` |
| general messages | `hartebeest.cc:33-76` | keys of the same Memcached server | `memc_push_general`, `memc_wait_general`, `memc_del_general` | `GeneralMessages` |
| application | `README.md:151`, `test/core-test.cc` | the program counter of each of two nodes | the eleven calls of the bring-up, then a write, a poll and a message | `Bringup`, `CoreTest` |
| configuration loader | `hb_cfgldr.cc` | `system_vars`, `sysvar_cache`, the default attributes, `attr_cache` | `init_sysvars`, `init_params`, `get_sysvar`, `get_attr` | `Startup` |
| HCA initialiser | `hb_hca.cc` | the device list, the open context, port and LID of each device | `open_device`, `bind_port`, `get_hca` | `Startup` |
| wire format | `hb_mrs.cc`, `hb_qps.cc` | the text under a key | `flatten_info`, `unflatten_info` | `WireFormat` |
| device (external) | libibverbs | queue pair states, the work and the completions in flight | `ibv_modify_qp`, `ibv_post_send`, `ibv_poll_cq` | `Verbs`, `DataPath` |
| return codes, logger, aligned allocation, C bindings, vendored code | `hb_retcode.cc`, `hb_logger.cc`, `hb_alloc.cc`, `hartebeest-c.cc`, `extern/` | none that a property is about | | |

### How they interact

An application calls the singleton `HartebeestCore`, whose constructor runs the
configuration loader and the HCA initialiser and drops their return codes. A
create call allocates a wrapper, whose constructor calls libibverbs with what the
configuration says, and offers it to a cache: the process-wide cache for a `Pd`
or a `BasicCq`, the cache inside the named `Pd` for an `Mr` or a `Qp`. A push call
turns a wrapper into a text and sets it under a Memcached key. A fetch call polls
the server until a key is there, turns the text into a wrapper that has no verbs
object of its own and offers it to `remote_mr_cache` or `remote_qp_cache`.
`connect_local_qp` takes the destination from such a wrapper and moves a local
queue pair from INIT over RTR to RTS. A post hands a request to the device, which
executes it against whatever is at the destination then; a poll spins on a
completion queue and takes its next entry. A general message is a key whose value
nobody reads. Processes share nothing but the server and the fabric; the library
starts no threads, and its caches have no locks.

### What is hard about it

* **Names that are taken.** Every create call allocates first and registers
  second, and the cache refuses the second object under a name. What the
  application holds, what the cache gives and what the call returned must fit
  together after any sequence of repeated and failed calls.
* **Failing in the middle.** `Pd::create_mr` registers a wrapper before the
  memory region exists, `create_basiccq` one whose completion queue may not
  exist, and `connect_local_qp` stops between two moves of a queue pair.
* **Information that outlives its owner.** The library never deletes a key it
  pushed. A fetch takes whatever is there, and a second fetch of the key is
  dropped by the cache although it reports success.
* **Two nodes and no agreement.** Each end connects on its own with what it
  fetched, and posts when its own end is ready; nothing checks the other end.
* **Completions without a name.** `wr_id` is always 0, so what a poll is about is
  known by order alone, and a completion queue that queue pairs share gives one
  what another one asked for. A payload posted by `rdma_post_single_fast` is read
  after the call returned.
* **Queues of unrelated depth.** `cq_depth` and `cap.max_send_wr` are configured
  one by one; a completion queue that overruns breaks all that complete on it.
* **A bounded wait with no pause.** `memc_wait_general` gives up after 10000 polls
  with `sleep(0.5)`, which is `sleep(0)`; what comes later stays on the server.
* **A server that loses and lies.** A set that reports an error may have been
  done; a key may be evicted.
* **Aborts as error handling.** A missing name or attribute is an `assert` or a
  null pointer, so what one call left behind decides whether a later one ends
  the process.
* **A start that reports nothing.** The loader stops at the first variable that is
  not set and drops the predefined values of sections a file lacks.
* **A text that is cut at blanks.** A name with a `:` or a blank in it shifts every
  number behind it.

`PROJECT.json`, "hazards", lists each with its line and the properties about it.

## 2. The modules

| module | what it is |
|---|---|
| `ResourceCache` | the cache as a total function to addresses, `nullptr` for a missing key |
| `Verbs` | the queue pair states and the moves `ibv_modify_qp` accepts (external) |
| `LocalResources` | the processes and what they own; `LocalSpec` |
| `HartebeestCore` | extends it with the server, the remote caches and connecting; `Spec` |
| `Rendezvous` | what the exchange promises, without wrappers, caches and verbs |
| `GeneralMessages` | extends `LocalResources` with the message keys and their three calls |
| `DataPath` | the posts, the polls and the device, over the heap of the processes |
| `WriteChannel` | what writes over one queue pair promise, without queues and devices |
| `Traffic` | `DataPath` alone: applications on queue pairs wired in any way; `Spec` |
| `Bringup` | two nodes that make the eleven calls of the flow, on `HartebeestCore` |
| `CoreTest` | the whole of `test/core-test.cc`: `Bringup`, `DataPath` and `GeneralMessages` together; `TestSpec` |
| `Startup` | the constructor of `HartebeestCore`, the loader, the HCA and the first call of each sort; `Spec` |
| `WireFormat` | `flatten_info` and `unflatten_info` on sequences of words; `Spec` |
| `MC*` | instances for TLC |
| `LocalResourcesProofs`, `HartebeestCoreProofs`, `RendezvousProofs`, `BringupProofs`, `CoreTestProofs`, `TrafficProofs`, `StartupProofs`, `WireFormatProofs` | the theorems about each, `BringupProofs` resting on those of the core and `CoreTestProofs` on both |

### How state corresponds to code

* `obj[n][h]` is the wrapper of process `n` at address `h`: its class (`kind`),
  its name, whether its `ibv_` pointer is set (`made`), the `Pd` and completion
  queues it was created with, the state of a queue pair, and `peer`. The peer of
  a remote wrapper is what `unflatten_info` read; the peer of a local queue pair
  is the destination `transit_rtr` gave the device. An address is never used
  twice in a behaviour: `"free"` is an address not used yet and `"dead"` one
  whose process has ended. So a stale information can be told from a fresh one.
* `pdCache`, `cqCache`, `mrCache`, `qpCache`, `remoteMr`, `remoteQp` are the six
  kinds of `ResourceCache`; `mrCache[n][p]` is the cache inside the `Pd` at `p`.
* `ret[n]` is what the last call returned, `proc[n]` whether the process runs,
  was aborted by an assert or a null pointer, or was killed; `launch[n]` counts
  launches.
* `memc` is the server. The text of an information is abstracted to the pair
  `<<n, h>>` of the process and the object it denotes. This is right as long as
  the text determines the object, which is what `RoundTrip` of `WireFormat` says,
  and under which condition on names.
* `general` holds the message keys that are on the server.
* `req[q]` are the requests the device accepted of queue pair `q`, in order,
  `wrote[q]` the values written for them, `acked[q]` how many are completed and
  `polled[q]` how many completions were taken from the completion queue, `cq[c]`
  its entries. `Len(req[q]) - polled[q]` is then the number of slots in use of
  the send queue. `broken` are the queue pairs in the error state, `overrun` the
  completion queues that had no room. `told[q]` are the return values of the
  polls the application made for `q`, and `blind` names those that failed. `buffer[r]` is what is in a region, a number that a write copies.
* In `CoreTest`, `pc` and `at` are the program counters of the bring-up and of
  what follows; `clean` says whether the memory behind the payload is zero, which
  decides whether the reader's `strcmp` can ever be true.
* In `Startup`, `setup` is what the process finds: environment, both files,
  devices, port. `attrs` says of each parameter where its cached value came
  from. One parameter stands for those of a section and a queue pair type, which
  the program reads together.
* In `WireFormat` a text is the sequence of its words, each a hexadecimal number or
  not; a name is a sequence of words, of one unless it has a blank or a `:`.

### How actions correspond to code

There is one action per call, and it takes the whole call, because no call
shares memory with another process: in a call at most one step, the Memcached
request, is visible outside. A disjunct stands for each way out. Where the code
asserts or calls a member through a null pointer, the disjunct is `Abort`: the
build does not define `NDEBUG`, and the process ends. A failing external call is
a disjunct guarded by membership of its name in the constant `Faults`, so a
configuration says what may fail. A fetch is enabled when the key is there and a
poll when its completion queue has an entry: their loops have no other exit,
save that a poll also ends when `ibv_poll_cq` fails, with a status read from a
completion nobody wrote, so with any answer. The models poll the completion
queue of a queue pair; `rdma_poll` by a name that is not registered, which ends
the process, is not in them, nor is an inline payload that is longer than
`max_inline_data` and so refused. `memc_wait_general` also ends with
the 10000th try, which may come at any time.

`Return` records the value even though the test ignores it; properties of
return values relate it to the state, and `ok` of `Bringup` keeps whether every
call of the process so far returned true.

`Kill` stops a process between any two calls and `Relaunch` starts it with
empty caches. The server keeps its keys. `Evict` is the server dropping one.

The device is five actions of a queue pair: `Land`, a write arrives; `Ack`, its
acknowledgement arrives; `Refuse`, the region is not registered any more; `GiveUp`,
the retransmissions got no answer, because nobody could answer or a packet was
lost; `Flush`, what was posted to a broken queue pair fails. In `CoreTest` it
works on the heap as it is then: a peer that has not connected yet, one that
ended, one that was launched again with other queue pairs.

`Bringup` binds the names of `test/core-test.cc`: the local names are local to a
process, so both nodes use the same; the Memcached keys carry the node.
`CoreTest` reads the queue pair, the region and the remote region through the
caches, as the test does.

`Traffic` sets `DataPath` free from the bring-up: any queue pairs on any
completion queues, each connected when its process gets to it, and an
application that polls once for every request the post took and refills a payload
only when it has all answers for it. That is the discipline of the test and of the
README, and without the last part `ImplementsChannel` is false: a write that is
not inline would carry what was filled in later.

In `Startup` the loops of the loader take one action per variable and per
parameter, since where a loop ends is what its properties are about; the rest is one action per
call. The calls of the application that use what was cached come after it.

## 3. Runs

| run | bounds | states | what it shows |
|---|---|---|---|
| `local` | 1 process, one `Pd`, `Mr` and `Qp` name, 2 completion queue names, 6 addresses, 2 launches, all six verbs and allocation failures | 263 k | any order of create and init calls keeps names, objects and return values together |
| `core` | 2 processes, one queue pair name and key, 4 addresses each, 2 launches, failing moves and sets, evictions | 227 k | `HartebeestCore` implements `Rendezvous`, what is shared between processes describes what it should, and a connection is made once |
| `coretest_kills` | the two nodes of the test, 2 launches each, kills at any point, queues of depth 1 | 131 k | the nodes meet, never abort, never wait for each other or for a completion for ever, the message means what the test takes it for, and the payload of a write that was completed is where the reader looks |
| `coretest_faults` | the two nodes, 1 launch, kills, failing `ibv_reg_mr`, `ibv_modify_qp`, `ibv_poll_cq` and Memcached calls, lost packets, memory that is not zero | 9 k | what the return values of the calls and the poll tell when calls fail, and when the test ends |
| `datapath` | 2 processes, 4 queue pairs, 3 senders, two sharing a completion queue of depth 2 with send queues of depth 2, 1 to 3 requests each, up to 1 failed poll for a sender, lost packets, a region that is gone | 141 k | a queue pair keeps the promises of a write channel, and what is left of them when completion queues are shared or overrun |
| `startup` | 7 environments, every file over the three sections, up to 2 devices and 4 sorts of port | 314 k | which environments, files and devices let a process start, and with which attributes |
| `wire` | names of none, one and two words, every field of a region and of a queue pair at its limits, any kind fetched as any | 3 k | what a fetch makes of the text of a resource or of another message |
| `null_cq` | as `local` | | **violated**: a registered completion queue has an `ibv_cq` |
| `leak` | as `local` | | **violated**: every allocated object can be reached by its name |
| `refetch` | 2 processes, 2 queue pair names and one key, 4 addresses, 1 launch, no faults | | **violated**: a fetch registers what it fetched |
| `blind_poll` | the core test, 1 launch, failing `ibv_poll_cq` | | **violated**: a poll that returned true tells of a write |
| `predefined` | as `startup` | | **violated**: the predefined parameters are enough for a process whose file gives none |

### Why the bounds are enough

* Six addresses let one process create a `Pd`, both completion queues, a queue
  pair and two duplicates, or a failed region and its retry beside them; the
  caches treat every name alike, so one name used twice shows what any does.
  Two completion queue names are needed since a queue pair takes two.
* Four addresses let a process create the `Pd`, the queue and the queue pair and
  fetch once, and, in a second launch, use what is left. The interesting case
  of `core`, a relaunched owner and a peer that is connected to what is gone,
  needs one relaunch. Both processes publish under the one key, in every launch,
  so it changes its meaning up to four times, between two fetches as well, and
  a fetch may find the own queue pair. In `core` memory regions are left out (their key sets are
  empty): `memc_push_local_mr` and `memc_fetch_remote_mr` run in the two runs of
  the core test, and the proofs cover them with everything else.
* In `refetch` two queue pair names of each process can be pushed under the one
  key, so a process changes its meaning without an end.
* A launch of the flow allocates seven objects, so fourteen addresses never run
  out in two launches. Two launches of two nodes contain every case in which one
  node is ahead of the other by a launch. The test posts one request a launch and
  polls for it, so queues of depth 1 are never full there; `datapath` fills them.
* In `datapath` the two senders that share a completion queue can have three
  completions in a queue of two, and the one that does not share posts three
  requests to a send queue of two, so both limits are met and passed. `MaxBlind`
  lets one poll of a sender fail, none of the second sender; a failed poll answers
  anything, so a second one has nothing to add. The two setups keep apart what is independent: senders that share, and senders that
  write to each other's machine, one to a region that is gone.
* In `startup` every file, both as the one the environment names and as the
  default one, is combined with every environment, and every device and port with
  a good file; the two halves meet in no guard of the code but the order of the
  stages.
* In `wire` the fields have limits of 1 to 3, so a number that is shifted into
  another field may or may not fit; the proofs have any limits.
* Symmetry over processes is used in `core`, whose processes all make the same
  calls; the run checks no liveness.

In all runs the system may stop: when launches, addresses or requests run out,
when both nodes are done, or when a process waits for a peer that is not coming.
So deadlock is not checked; that nothing waits for ever that should not is
checked as liveness.

### Disagreements between the code and what is said of it

* `null_cq`: `create_basiccq` asserts that `new` did not return null
  (`hartebeest.cc:145`), and the `BasicCq` constructor does not look at what
  `ibv_create_cq` returned (`hb_cqs.cc:26`). The failed queue is registered and
  reported as created; the assert at `hartebeest.cc:166` ends the process later.
* `leak`: a create call under a name that is taken drops the pointer to what it
  allocated, while the README (line 78) says a wrapper class releases its
  resource.
* `refetch`: a fetch ignores that the remote cache refused the key. The README
  (line 117) says a fetched resource is registered to the local cache.
* `blind_poll`: the loops of the polls end when `ibv_poll_cq` returns a negative
  value as well (`hartebeest.cc:326`, 343, 360), and read the status of a
  completion that was not filled in. The warning at line 329 says what is
  expected, `IBV_WC_SUCCESS`; the run ends with a poll that returned true for a
  write that was never made.
* `predefined`: `init_params` caches a parameter only in a section the file has
  (`hb_cfgldr.cc:164`), also when the value is the predefined one. The README (line
  127) says the parameters are predefined and a file can change them; with a file
  that is an object without sections, the first `create_basiccq` of a process
  that started without an error dereferences a null pointer. `Usable` says what a
  process needs instead.

Four more are in the models, or beside them, with no run of their own. Keys
outlive their process, so after a relaunch of one node the other one may hold, or
fetch, the queue pair of the launch before, with every call of both returning true:
`EndsMeet` says that no more than one of the two ends can be left so, and the
README promises the sharing for the first launch only (line 25). `bind_port` makes
the code for a port that is not active and does not return it (`BindPort`).
`transit_rtr` takes the number of the own port from the peer's information
(`hb_qps.cc:169`; every process uses port 1, so the two are equal). And
`test/config-test.cc` asks for parameters without their `rc:`.

### Fairness

* `FlowSpec` and `TestSpec`: weak fairness of the next call of each node that is
  up. The operating system runs it; a call other than a fetch or a poll returns;
  and the loop of a fetch or a poll ends once the key or the entry is there (no
  run with fairness lets the server lose keys, and nobody else takes the entries
  of the queue). Nothing is assumed of `Crash` and `Restart`: a process may stay
  down for ever. `StayingUpFinishes` and `WriterHangsOnlyAfterRefusal` are stated
  accordingly. Where `ibv_poll_cq` may fail, weak fairness of the writer counts
  the failing poll as progress, so that hangs of the writer are looked at in
  `coretest_kills`, where it does not fail, and `EndsIffClean` in `coretest_faults`
  is about behaviours without a failed poll.
* `TestSpec` and `Spec` of `Traffic`: weak fairness of the devices, taken together:
  a device goes on as long as it has work, and one that gets no answer gives up
  after `retry_cnt` retransmissions. Only finitely many requests are posted, so
  fairness of all devices together and of each one are the same.
* `Spec` of `Traffic`: weak fairness of polls that find an entry; none has to
  fail. Connecting and posting are not
  fair: nothing makes an application post, and a peer may never connect.
  `EveryPostAnswered` holds all the same, since the device gives up on a peer that
  is not ready. Its two exceptions are the model's and the code's: after an overrun
  a completion never comes, and a poll of a receive queue may take one that is
  waited for. Both leave `rdma_poll` spinning.

`EndsIffClean` says when the test ends: with both nodes up, no call that returned
false before the post, no broken link and no failed poll, exactly when the memory
behind the payload in the reader's region is zero. The other direction is a
hang of the code as it is, since the payload is sent without its terminating zero
and `strcmp` then never finds it (`test/core-test.cc:107` and 125).

## 4. Proofs

All theorems hold for every value of the constants that satisfies the
assumptions: any processes, addresses, names, keys and failing calls.

* `HandleAssumption`: addresses are natural numbers (they stand for the order of
  allocation);
* `NullAssumption`: `nullptr` is neither an address nor an information;
* `LaunchAssumption`: the bound on launches is a natural number;
* `KeyAssumption`: an application does not use one Memcached key for a region
  and for a queue pair;
* `DepthAssumption`: the queues have at least one slot;
* `WiringAssumption`: the queue pairs are finitely many and their wiring is made
  of addresses; no two senders share a payload, and none writes into one;
* `SetupAssumption`, `LimitAssumption`, `PublishedAssumption`: what a process finds
  and what is published is well formed, and a resource's fields fit their types.

The bring-up and the core test add:

* `NameAssumption`: there are two nodes, and each publishes under keys of its own;
* `FlowKeyAssumption`: the local names of the test are names of the core;
* `WriterAssumption`: the node that writes is one of the two;
* `QueueAssumption`: `DepthAssumption` for the queues of the test.

**Local resources.** `LocalInv` is the inductive invariant. That a name stands
for the first object created under it (`FirstCreatedWins`) is not inductive: the
step needs that a new object has the largest address so far
(`AllocatedInOrder`), that an object has a name of its own class
(`ObjectsNamed`), and that a cache entry leads to an object of its name and `Pd`
(`CachesNameLiveObjects`), for otherwise the entry of an object is not defined.
`LocalResourcesProofs` proves that the initial states satisfy it, that every
action preserves each part, and so `LocalTypeCorrect`, `FirstCreatedWinsCorrect`,
`CachesNameLiveObjectsCorrect` and `BindingsStableCorrect`.
`ReturnTellsBindingCorrect` is an action property: at the one step at which an
object comes to be, what its call returns is compared with the entry its name has
afterwards. It needs of the invariant that a new address is in no cache yet
(`FreshUnnamed`): a name that was taken then still leads to another object.

**The core.** `CoreInv` adds to it `RemoteCachesHoldWrappers` (a remote cache leads
to remote wrappers of its class), `PeersSet` (remote
wrappers and connected queue pairs carry an information), `LaunchedOnce`, and
`StaleOnlyIfOwnerEnded`. The last is the property that matters: the server, the
remote caches and the destinations of queue pairs form a chain along which an
information is copied by different processes, and the end of one process changes
what all copies denote at once. The proof rests on one fact, that a step keeps
`Describes` of every information (an object leaves its class only by the end of
its process); each link of the chain then copies from one that described its
class. `ConnectedOnceCorrect` follows from the same invariant.

**The rendezvous.** `RendezvousCorrect` proves that `Spec` implies
`Rendezvous!Spec` under the mapping at the end of `HartebeestCore`: a process
knows of a key what the wrapper in its remote cache says, and an endpoint is
linked to the peer of its queue pair. A push is `Post`, the first fetch of a key
`Learn`, a later one a stutter, a connect that passes `transit_rtr` is `Link`
whether or not `transit_rts` follows, and the end of a process is `End` with its
knowledge gone. `Rendezvous` promises what the code gives: it lets a board hold
a description whose process has ended.

**The data path.** An entry of a completion queue says of which queue pair it is
and not of which request. `QueuesInv` of `TrafficInv` gives the numbers back: the
entries of each completion queue can be numbered with the requests they complete
so that the numbers of one queue pair increase, lie between what was polled and
what was completed, and are of written requests where the entry is ok. From
there:

* `SizedNeverOverrunsCorrect`: were a queue of sufficient depth full, its entries
  and the one that does not fit would be distinct pairs of a queue pair that
  completes there and a slot of it, more of them than there are (lemma `Slots`,
  by an injection);
* `ImplementsChannelCorrect` adds `ChannelInv` for a queue pair that shares its
  completion queue with no other, sends or receives: the polls made for it are as
  many as its completions taken, as long as it is not broken all of them said
  yes, an ok entry is only behind ok answers, and what is not yet written still is
  in the payload. A post is `Ask`, `Land` is `Write`, a poll is `Yes` or `No`, and
  every other step a stutter. It ends for a queue pair with the first poll of its
  own that fails, which answers anything; polls of others may fail.
* `YesIsBackedCorrect` and `AllYesMeansAllWrittenCorrect` are about queue pairs
  that share a completion queue, whose polls take each other's completions, so that
  no answer belongs to one of them. `AnswersInv` keeps an injection instead of a
  sum: each answer a sharer got from a poll that did not fail belongs to a
  completion of its own, a queue pair and the number of a request of it, and that
  request was written when the answer is yes. So there are never more yes than
  writes (a finite set is no smaller than one that is mapped into it one by one).
  When all sharers are settled and no poll of theirs failed there are as many
  answers as requests, so the injection is onto, and when all answers are yes the
  last request of each queue pair was written, and all before it.

**The start.** `StartupInv` says at each stage what the loops have read so far in
terms of the setup alone: the variables up to the first that is not set, the
parameters up to the first bad value. `StartsIffUsableCorrect` then follows stage
by stage in both directions; `AttrsAsConfiguredCorrect` is read off the same
invariant, in both directions as well: what is cached is right, and what is not
cached has a reason.

**The wire format.** `WireInv` says that the text is the one published or none and
that the wrapper is what a fetch makes of it for some content of the memory; the
rest is about `Unflatten` alone. `WireTypeCorrect` says which fields may be left as
memory was, the address of a region and the last three of a queue pair, and when. `RoundTripCorrect` is the fact the other modules
rest on where they take an information for the object it denotes.

**The bring-up.** `BringupProofs` proves `FlowInv` of the eleven calls. That two
nodes end connected to each other is not inductive, and neither is that they
never abort. `FlowInv` says what each call can rely on:

* `ReachedInv`: what the calls before the next one left behind, whatever they
  returned, and what more they left when all of them returned true. The flow
  looks at no return value, so the two are different: a region whose
  `ibv_reg_mr` failed is registered and pushing it aborts, which is why
  `AbortsOnlyAfterFalse` holds and not more.
* `MadeInv`: a region or completion queue without its verbs object had a failing
  call.
* `LinksInv`: what is on the server under the key of a node, what was fetched
  under it and where the other node connected to is about a queue pair of that
  node and, while the node is in its first launch, about the one the flow made.
  This ties the two ends together, which never look at each other; it is kept
  because a refused duplicate cannot change the binding of a name (`LooksKept`).
* `MeetInv`: a node past its push is the last that published under its name, and a
  node past its fetch connects to what it fetched. The second of the two to fetch
  therefore finds what the first published before it fetched, in whatever launch
  either is: of two nodes past their fetches one at least knows the other. That is
  the second half of `EndsMeet`; the first is `LinksInv`.

Each action of the flow either ends the process (`Ended`), launches it (`Begun`) or
goes on without losing anything (`Proceeds`); each part of the invariant is
preserved by these three, and what each of the eleven calls adds (`Gains`) is a
lemma of its own. `FlowIsClient` proves that the bring-up is a behaviour of
`HartebeestCore`'s `Spec`: every step of it is one, so `CoreInv` holds in it and what
was proved of the exchange need not be proved again. `BringupCorrect` reads
`NeverAborts`, `AbortsOnlyAfterFalse`, `TrueMeansLinked` and `EndsMeet` off the
invariant.

**The core test.** `TestInv` of `CoreTestProofs` adds to `FlowInv` what relates the
write, the poll and the message of two processes:

* `PostedOnce`: only the writer posts, once in a launch and to the queue pair of
  that launch. A queue pair that was posted to is never used again, since an address is
  not, and after a crash or an exit it is dead.
* `CompletedOnce`: a request is written at most once and has at most one
  completion, which is in one completion queue until it is polled. So a poll
  cannot take a completion twice, and `TestTypeOK` follows.
* `AfterWrite`: a payload in the reader's region, a reader past `strcmp`, a message
  and a wait that returned true each have a write behind them, by some launch of
  the writer. `GotMeansWrittenCorrect` is its last part.
* `MessageOnce`: while the reader is in its first launch, a message on the server,
  or a writer of any launch past a wait that returned true, means that the reader
  has nothing more to push. Without it a deletion could come before a second push, and
  `LeftOverCorrect` would not follow.

`PendingInv`, inductive together with `TestInv`, is about what a poll waits for: a
completion queue that has entries or is in `overrun` is the writer's own of this
launch, past a post that was accepted, or belongs to an ended launch
(`QueuesOwned`), and while the writer polls, what was completed or did not fit
left an entry in its queue (`PollOwed`). So `NoLostCompletionCorrect`: the poll has
its entry or the device still owes it exactly when the post was accepted. That
is the half of `WriterHangsOnlyAfterRefusal` that is safety, and holds for every
depth of the queues; the other half is that the device does what it owes.

`ArrivalInv`, inductive together with both, follows the payload and the two things
it depends on, an address and a status:

* `RegionsInv` (of `BringupProofs`, the region's counterpart of `LinksInv`): what
  is on the server and in the remote caches under the name of a node's region is a
  region of that node and, in its first launch, the one the flow created.
* `Filled` and `AimedInv`: a writer past the `memcpy` has the payload in its
  region, so what it posted carries it, is aimed at a region of the reader and,
  once written, is there; nothing empties a region again.
* `OkWritten`, `ToldOnce` and `TrueWritten`: only what was written is completed with
  success, a launch polls its queue pair once, and so a poll that returned true
  tells of a write. Nobody wrote the status that a failed poll returns: that is why
  `PayloadArrives` asks that none failed.

`PayloadArrivesCorrect` puts them together: the write that a true poll tells of is in
the region the reader looks at, also when the writer is in a later launch.

The properties of the bring-up hold in the whole test, since the data path changes
nothing that `FlowInv` is about. TLC checked `FlowInv` and `TestInv` on both
instances of the core test before they were proved, and `PendingInv` and `ArrivalInv` as well.

**Only model-checked.** All that is liveness under fairness, which with ENABLED is
out of the prover's reach: `StayingUpFinishes`, `WriterHangsOnlyAfterRefusal`,
`EndsIffClean` and `EveryPostAnswered`. Every invariant, every action property
and both refinements that the passing runs check are proved. The five properties that runs refute are false of the code, so there is nothing to prove.

## 5. What is left out

* The values of the attributes, of a payload and of the flags of a region: no
  property tells them apart. Sends, receives, reads and atomics, which the posts
  would pass on as an opcode: no call of the library or its tests uses them, and
  no call posts a receive.
* The destructors of the wrappers. `Pd`'s is the only one that would destroy
  others, nothing in the library deletes a `Pd`, and the caches own nothing.
  `device_reset` runs when the process ends.
* `deregister_resrc`, `prefix_set`, `prefix_get` and the listings of a cache: no
  call of the library uses the first three, the others only print.
* A word of a name that begins with hexadecimal digits and goes on with something
  else, inside which the extraction would stop, or with a sign, which the
  extraction reads as part of a number; no field of a resource is written so.
* Threads of an application. The library takes no lock, so concurrent calls of
  one process are races on `std::map`; the README asks only that every call goes
  through the singleton, and the tests have one thread.
* Return codes, logger, aligned allocation and C bindings: texts, output and
  one-line forwards. Vendored code is not this project's.

## 6. Plan

1. `CoreTest` with the abstract specifications: that the writer's queue pair
   implements `WriteChannel` in the test as well, where its peer may end and be
   launched again, and that the bring-up of the test implements `Rendezvous`.
2. `ConnectedOnce` of the whole test, from `TestInv`.

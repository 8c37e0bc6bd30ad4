# Verification of mlt_byteps

`src/` is a fork of ps-lite, the parameter server library of BytePS, extended
with MLT: a loss-tolerant transport that sends gradients over UDP and stops a
transfer as soon as the receiver has as many bytes as it asked for.  This
directory holds TLA+ models of it, the TLC configurations that check them and
the proofs that TLAPS checks.

Paths below are relative to the repository; `mlt/x` stands for `src/src/mlt/x`.

## 1. The system

### Inventory

| Part | Code | Concurrency, failures | Module |
|---|---|---|---|
| MLT flow: post, send, retransmit, stop, complete | `mlt/mlt_communicator.cc`, `priority_channel.cc`, `receiving_channel.cc`, `rd_endpoint.cc`, `udp_endpoint.cc`, `ltmessage.h` | four threads per process; UDP loses, repeats and reorders; TCP keeps order | `MltFlow` |
| What a transfer promises | the same | | `LossTolerantTransfer` |
| Packetizer | `mlt/packetizer.cc` | none (pure) | `Packetizer` |
| Block manager, ordered set of free blocks | `mlt/tree_block_mgr.h`, `block_mgr.h` | one thread, long histories | `TreeBlockMgr`, `BlockMgr` |
| Retransmit request and its cursor | `receiving_channel.cc`, `priority_channel.cc` | receiver's tree changes while the request is walked | `RetransmitBlocks` |
| Block manager, bitmap | `mlt/bitmap_block_mgr.h` | one thread | `BitmapBlockMgr`, `BlockManagers` |
| MLT connections, framing over TCP | `mlt_communicator.cc`, `reliable_channel.cc`, `rd_endpoint.cc`, `buffer.h` | several processes and threads; partial reads and writes | `MltSession` |
| Meta messages, test application and its barrier | `mlt_communicator.cc`, `test_mlt.cc` | bounded queue, several processes | `MltSession` |
| Priority channel: its table of connections, its rate | `priority_channel.cc`, `packetizer.cc`, `mlt/meter.h`, `rd_endpoint.cc` | requests and notifications on two queues; time | `PriorityChannel` |
| Single-producer ring | `mlt/spsc_queue.h` | two threads, memory orders | a bounded FIFO in `MltFlow` |
| Van: start, registration, recovery, heartbeat, barrier, stop | `src/src/van.cc`, `postoffice.cc`, `zmq_van.h` | several processes and customers; crash and replacement | `Cluster` |
| Resender | `src/src/resender.h`, `van.cc` | lost and repeated messages; timeouts | `Resender` |
| What the resender promises | the same | | `Delivery` |
| Customers and KV application | `customer.cc`, `include/ps/kv_app.h`, `simple_app.h` | several servers, callbacks, reordered messages | `KvApp`, `KvSlicing` |
| RDMA van, RDMA and IPC transports | `rdma_van.h`, `rdma_transport.h`, `rdma_utils.h` | completion threads, finite pools, reused buffers | `RdmaVan` |
| MLT van | `mlt_van.h` | an unfinished copy of the test application that does not compile as a van | no |
| Tracker, sockets, containers | `tracker/`, `network_utils.h`, `mlt/socket.h`, `sarray.h`, ... | wrappers and sequential containers | no |

`PROJECT.json` lists the hazards of every part, with the property that covers
each or the reason why none does.

### How the MLT parts interact

An application thread calls `PostSend`; it announces the flow to the peer over
TCP (`FlowStart`, with the last sequence number) and hands the message to the
*priority channel* thread through a bounded single-producer queue.  That thread
serves the message with the least id, one packet per poll, into the queue of a
UDP endpoint, and sends `FlowFinish` over TCP after the last packet.

At the peer, the *receiving channel* thread takes posted receives from another
bounded queue and copies arriving packets into the message; a *block manager*
remembers which sequence numbers have arrived.  When the bytes received reach
`AlignUp(4, size * (1 - loss_ratio))`, it sends `StopRequest` once.  When
`FlowFinish` arrives first, it answers with a `RetransmitRequest` that lists the
missing blocks (all of them, if no receive has been posted yet), and the sender
starts another round.

The sender answers `StopRequest` by forgetting the message, sending
`StopConfirm` and then completing the send; `StopConfirm` completes the receive,
perhaps before the sender's thread has come to its own completion.
The *reliable channel* thread of each process moves signals between the TCP
connection and the other two threads.

### How the parameter server's parts interact

A process has one *Van* and one *Postoffice*.  `Van::Start` registers with the
scheduler, which hands out node ids once everybody has called, and again when a
process takes the place of a dead one; `Postoffice::Barrier` is a request to the
scheduler and a release from it.  Data messages go from a *KVWorker* through its
*Customer*, which counts responses, to `Van::Send`; the *Resender*, when it is
on, buffers them until they are acknowledged.  The Van underneath is `ZMQVan`
(one FIFO connection per pair of processes) or `RDMAVan`.

## 2. How the models are composed

`Delivery` is the interface between the two levels: messages that are handed
over are delivered exactly once, in any order.  `Resender` implements it over
connections that lose messages (checked and proved); `KvApp` is built on it.
`LossTolerantTransfer` plays the same part for MLT, and `BlockMgr` for the block
managers.  `MltFlow` is one connection in one direction; `PriorityChannel` is
the thread that serves several connections, at their rates; `MltSession` is the
life of the connections themselves, over several processes.

## 3. Modules

### `Packetizer`

Pure operators.  A message of `size` bytes is cut into packets of `Segment`
payload bytes, either at the send cursor (`PartitionOne`) or from a sequence
number (`PartitionOneBySeq`).

### `BlockMgr`, `TreeBlockMgr`, `RetransmitBlocks`, `BitmapBlockMgr`, `BlockManagers`

`TreeBlockMgr` keeps the `std::set<Block>` as a set of records and models
`Resize`, `Check` and `Take` branch by branch, the in-place changes of the
elements included.  `Resize` is called with a larger size and `Take` after a
negative `Check`, as `CopyGradients` and `FinishFlow` do.  `BlockMgr` is the
abstract manager: a size and a set of taken numbers.

`RetransmitBlocks` adds one retransmission round: `FinishFlow` serializes the
tree, and `PollRetransmitRequest` walks the blocks with the cursor
`(block_num, seq_num)` while more packets change the tree.

`BitmapBlockMgr` is the alternative manager, with one bit per number and a word
by word walk.  `BlockManagers` gives it the same calls as the tree of
`RetransmitBlocks` and compares them after every step.  `Resize` of the bitmap looks at the bit of the new last
number where the old one is meant, so its count of segments is wrong once it has
grown past a taken number (`cut`); no code in the repository resizes a bitmap.

### `MltFlow`

One connection, one direction.  State and code:

| Variable | Code |
|---|---|
| `posting` | a `PostSend` between its two calls |
| `sr_queue`, `rr_queue` | the `SpscQueue`s of the two channels, bounded by `Capacity` |
| `sending_msgs`, `bytes_sent`, `retransmitting_msgs`, `retransmit_reqs` | the maps of the sender's `ConnMeta` |
| `prio_notif` | `PriorityChannel::notification_queue_`, unbounded |
| `recv_notif` | `ReceivingChannel`'s notification queue, bounded |
| `udp_tx`, `net` | packets in `UdpEndpoint::tx_queue`, packets on the wire |
| `to_receiver`, `to_sender` | signals over TCP, from `ReliableChannel::Enqueue` to `HandleReceivedData` |
| `msg_max_seq` | the map of `RdEndpoint` |
| `recv_msgs`, `block_size`, `taken`, `bytes_received`, `stopped` | the receiver's `LtMessageExt`s |
| `confirmed` | how many `StopConfirm`s the sender has enqueued |
| `send_posts`, `send_completions`, `recv_posts`, `recv_completions` | what the applications have posted and polled |

Actions carry the names of the functions they model.  `PostSend` is two actions
(`PostSend`, `EnqueueSend`), because the two threads it feeds run in between and
its second half may have to wait.  `PriorityChannel::StopFlow` is two actions
(`StopFlow`, `CompleteSend`) too: the confirmation leaves before the completion
is pushed, and the peer may complete in between; the thread does nothing else
there (`Stopping`).  `RdEndpoint::HandleReceivedData` is one
action per signal type, `PollNotification` one per notification type; each is
the whole handler.  A `CHECK` of the code is a guard of the action, and
`NoCheckFails` says that the guard never blocks the head of a queue.

What is abstracted: a block manager is its abstract view (`block_size`,
`taken`), and a retransmit request is the set of numbers still to be sent, which
`RetransmitBlocks` justifies; payloads are byte counts; the rate throttle and
the backlog of the socket only delay a poll, and delay is left to the scheduler.
The packets in `udp_tx` and `net` are sets: UDP may deliver in any order and any
number of times, so the multiplicity adds nothing.

`OnSendWouldBlock` is not a network fault: `UdpEndpoint::OnSendReady` pops a
packet before it tries to send it, and does not put it back when the socket
would block.

### `LossTolerantTransfer`

What the applications see: every post completes at most once; a send completes
only when the receiver is content; a receive completes only after the sender has
stopped and with the bytes it asked for; no byte beyond the size is counted.
Which side completes first is open: `Stop` is the step of the sender after which
either may.  `MltFlow` implements it through `SentState`, `ReceivedState` and
`bytes_received`.

### `PriorityChannel`

The thread of a priority channel with several connections.  The user adds
connections, posts messages and removes connections; the thread learns of them
from `sr_queue_` and `notification_queue_`, which it empties at different points
of its loop.  `conn_metas` and `conn_meta_map` are the vector and the index map
of the code, with what they do on `erase` and on an unknown id.  `tx_meter` and
`rx_meter` are `RateMeter`s, time is `Tick`, and `RateAdjustment` signals of the
peer move the sending rate.  `NewChannel`, `AddEndpoint`, `PktPrioFunc` and
`Routable` are the table of UDP endpoints by type of service, with the default
priority function.  A retransmitted packet is charged to the meter by its header
only, as the code does: `GetBytes` is computed from the end of the message.

### `MltSession`

The communicators of several processes, as the test application drives them:
start up, connect everybody to everybody, exchange meta messages, finalize.
Each process has a user thread and the thread of its `ReliableChannel`; two
processes share a TCP stream, on which a message is a length and its payload,
sent and received in pieces (`tx`, `stream`, `rx`), the length included: it has
`LengthUnits` units, and a receiver that reads a part of it fails the `CHECK` of
`rd_endpoint.cc:119`.  The connections of a process that failed are reset, and
`failed` keeps who ended and why.  The session is one of three
tests of `test_mlt.cc`: greetings (`connection`), a window of meta messages
(`rc_speed`), or the barriers of the UDP test (`udp_simple`).

### `Cluster`

Processes with a `Van` over `ZMQVan` and a `Postoffice`.  `pc[p][c]` is where
customer `c` of process `p` is between `Start` and the end of `Finalize`; the
other variables are members of `Van`, `Postoffice` and `ZMQVan`, and `nodes`,
`recovery`, `barrier_count` and `silent` are the scheduler's.  `Receiving` is
`Van::Receiving` for one message, with the handler of its command.  A server may
crash between its barriers; what it had not transmitted is lost; after
`heartbeat_timeout_` a spare process may take its id.  `polled` holds
the sockets that the receiving threads of a `ZMQVan` poll: connecting to a replacement closes
the socket to the dead process under the thread that polls it, whose `CHECK` then
fails (`RecvThreadFails`).  `PackMeta` and
`UnpackMeta` keep what travels of a message: the sender is read from the name of
the socket, which a process without an id does not have.

### `Delivery`, `Resender`

`Resender` is `Van::Send`, `Van::Receiving` and the resender of both ends.
`Van::Send` is two actions, because an acknowledgement may arrive between
`SendMsg` and `AddOutgoing`.  `Drop` is the receiver's `PS_DROP_MSG`.  A
buffered message may time out at any moment (`Monitoring`); timeouts of messages
that are neither lost nor acknowledged are bounded by `MaxEarly`.  `Delivery` is
implemented with `transit <- {m \in sent : ~Accepted(m)}`.

### `KvApp`, `KvSlicing`

`KvSlicing` is `GetServerKeyRanges` and `DefaultSlicer` as pure operators.
`KvApp` is a worker's user thread and the receiving threads of all `Customer`s,
over `Delivery`: `Push`, `Pull`, `SimpleRequest`, `WaitRequest`, the handlers of
`KVWorker`, `KVServer` (with its default handle) and `SimpleApp`, and the
creation and deletion of applications.  A message of `KVWorker::Send` leaves in
a step of its own (`SendNext`), in the order of the servers, so that answers
arrive between two of them; `outbox` is what is left of the loop, by the index of
the server.

### `RdmaVan`

A worker and a server, on one host (IPC) or two (RDMA): the events of the
connection manager on both sides, the rendezvous, buffers that are used again
for the following messages of a key, completion queues, the copying thread of the
IPC transport, and `Stop` after the barrier of `Finalize`.  A push and a pull of
the key may be under way together.  Lengths are numbers of bytes; what a buffer
holds is kept, so that an early reuse shows.

The pools are finite.  `free_start[c]` is the queue of the START contexts of a
connection, which `InitSendContextHelper` fills again when the connection is
tried again after a rejection, so that each context is in it twice; `start_ctx`
is what their memory holds, which the NIC reads when it executes the work
request and not when it is posted.  `free_reply` counts the REPLY contexts,
`pool` the indices of `AddressPool`.  Receives posted on a queue are derived
(`PostRecv`): a START or REPLY that finds none is retried by the NIC for ever
(`rnr_retry_count = 7`).  A process that fails a `CHECK` is in `failed`, with the
reason, and the writes of its peer then complete with an error.

### `Queues`

`Count` and `Precedes`: how many elements of a queue are in a set, and whether
those of one set stand before those of another.

### Proof modules

| Module | Content |
|---|---|
| `RetransmitProofs` | the shape of the block tree, the walk over a request, the theorems on both |
| `MltFlowInvariant` | how packets tile a message; the inductive invariant `IInv`; it holds initially and after every step of the sending side, of the network and of the receiving side while it receives |
| `MltFlowProofs` | counts and sizes of sets; the end of a round and of a stop; what `IInv` implies; the theorems |
| `PriorityChannelSteps` | what each action does to each connection; types; connections are added and removed once |
| `PriorityChannelProofs` | the invariant `IInv` of the table and the messages: a message is in one place, the signals about it come in order, it is filed with its connection; the endpoints; the theorems on both |
| `PriorityChannelRates` | the invariant `RateInv` of the meters and the rates; counts and doublings; the theorems on pacing and on rates |
| `KvAppProofs` | how messages move from place to place; the inductive invariant of the counts and callbacks, one lemma per action, the theorems |
| `ResenderProofs` | the inductive invariant of `Resender`, one lemma per action, the theorems |

## 4. What TLC checks

| Run | Instance | Checks | Result |
|---|---|---|---|
| `retransmit_blocks` | `MaxSize = 7`, words of 3 bits | `Canonical`, `CheckIsExact`, `CursorInBlock`, `RefinesBlockMgr`, `WalkIsExact`, `BitmapAgrees` | hold, 29 thousand states |
| `mlt_flow` | two messages: one of 8 + 4 bytes wanting 5 (aligned to 8), one of 4 bytes wanting all; `Capacity = 2` | `TypeOK`, `NoCheckFails`, `OneRoundAtATime`, `NeverStranded`, `EndsClean`, `ReceivedBytesExact`, `ImplementsTransfer` | hold, 502 thousand states |
| `mlt_flow_live` | two messages of one packet; `Capacity = 1` | `EventuallyCompletes` | holds, 41 thousand states |
| `mlt_flow_buffer` | one message of 8 + 8 + 4 bytes wanting 12 | `BufferReleased` | violated |
| `mlt_flow_reuse` | one message used twice | `NoCheckFails` | violated |
| `priority_channel` | one connection and a paced message of three packets; or three connections that come and go | `FiledRight`, `PacedToRate`, `RateFollowsReceiver`, `EveryMessageIsSent` | hold, 262 thousand states |
| `mlt_session` | two processes with greetings or a window of meta messages, three with barriers; a meta queue of one entry | `OnlySplitLengthsFail`, `MetaInOrder`, `BarrierHolds`, `EverybodyRuns` | hold, 248 thousand states |
| `mlt_session_hello` | two processes that greet each other | `GreetingsArrive` | violated |
| `ps_cluster` | scheduler, server, worker with two customers, one crash and one replacement | `OnlyClosedSocketsFail`, `IdsAgree`, `BarrierHolds`, `EveryoneStarts`, `ReplacementIsReached` | hold, 134 thousand states |
| `resender` | two nodes, two applications, three messages, two threads per node, one drop, one early timeout | `TypeOK`, `SenderRemembers`, `RetriesCountLosses`, `ImplementsDelivery`, `EveryMessageArrives` | hold, 91 thousand states |
| `kv_app` | one worker, two servers, two applications, two requests, of none, one or both servers' keys | `PushedExactlyOnce`, `CallbackBeforeWait`, `PullComplete`, `EveryRequestCompletes` | hold, 85 thousand states |
| `rdma_van` | a worker and a server, local or not, two rounds, two requests at a time, one simple request, one rejected connection; two receives, two buffer indices, one context of each kind | `DeliveredIntact`, `PulledIsPushed`, `OnlyTheseChecksFail`, `EveryRequestAnswered` | hold, 128 thousand states |

**Bounds.**  Seven sequence numbers allow every shape of the tree that `Take` and
`Resize` tell apart: blocks cut at either end, cut in two and emptied, four
blocks at once, and growth next to a free and next to a taken number; the bitmap
has two full words and a third that is not.  In
`mlt_flow` the first message needs its long packet (the short one is below the
bound), so both "stop after the first packet" and "retransmit" happen, and the
second message makes the priority order, the shared signal queues and full
queues matter.  Rounds are not bounded: a message may be retransmitted for ever.
With `Capacity = 1` in the liveness run every queue fills up.

In `priority_channel` the rate lets a packet pass every other tick, so the
throttle holds packets back, a window of the meter ends late, and reports double
the rate; the clock stops at a horizon by which everything could have been sent.
Three connections are the least of which one can be removed so that another
moves and a third stays where it is.  In `mlt_session` a gap of one fills a meta queue
of one entry, and three processes make the order of the barrier's messages
matter; a length of two units can arrive in pieces.  (In `mlt_session_hello` it
has one unit, so that the greeting is lost for another reason.)  In `ps_cluster` the two customers of the worker share a process and so
the flag `barrier_done_`, and both request and heartbeat race the registration;
a second crash would add nothing, because the code ends the scheduler on a
second recovery (`van.cc:151`).  In `resender` the two requests have the same
timestamp and differ in the application only.  In `kv_app` an empty list is a
request that no server sees, the keys 1 and 2 are the last of the first server's
range and the first of the second's, and each server makes one of its
applications late.
In `rdma_van` the first round makes a rendezvous for each of the four kinds of
message and the second uses their buffers again; the pools are small enough to
run out, and the rejected connection puts the START context into its queue twice.

**Deadlock** is checked for the flow: the only state in which it may stop is
`Quiescent`, where both applications have all their completions.
`BlockManagers` may stop when every number is taken and no request is active,
and `mlt_flow_reuse` stops where a `CHECK` has failed.  The other runs do not
check it: their systems stop when the user has nothing left to ask, or when all
processes have finished.  That nobody waits for ever is what their liveness
properties say.

**Fairness** (`mlt_flow_live`).  Each thread of the code runs a loop that polls
all its sources in turn, so every handler that stays enabled is run: weak
fairness of each.  `PollRetransmitRequest` serves only the least id with a
request; a lower message whose receive is not posted is requested again and
again, but between two of its rounds there is no request of it, and the loop
comes by: strong fairness.  Losing the same packet for ever would stop any
protocol: strong fairness of sending and of receiving each packet.  The
applications need not post anything.  A receiver must want at least one byte
(see the note on loss ratio 1 below).

In the other runs every thread of the code loops and every message on a TCP
connection arrives: weak fairness of each thread.  In `resender` it is strong
for the timeout of each message, which goes off again and again while its entry
stays in the buffer; drops are finite (`MaxDrops`).  In `priority_channel` time
passes.  In `rdma_van` the connection manager, the NICs and the threads run on.
Users need not ask for anything, processes need not stop, and the replacement
need not be started; in `mlt_session` the user is the test, which does run on.

### The three disagreements

`mlt_flow_buffer`: `PriorityChannel::StopFlow` completes the send although
packets that point into the message's buffer may still wait in a UDP queue; the
test application frees the buffer after the completion
(`mlt/test_mlt.cc:450`).

`mlt_flow_reuse`: the tables of both ends are keyed by `msg_id` alone.  When the
applications use an id again, each after its own completion, a copy of a packet
of the first use can satisfy the second receive.  Its `StopRequest` then
overtakes the second transmission, and the `CHECK` on `FlowFinish`
(`mlt/rd_endpoint.cc:185`) fails.

`mlt_session_hello`: the connection test says that it "check[s] the correctness
of this procedure", but the greeting may never be sent.  `ReliableChannel::Run`
empties `notification_queue_` before `tx_queue_`; when a user adds an endpoint and
sends its greeting between the two, the thread finds no endpoint for the greeting
and drops it.  A greeting is also lost when its sender, having received the
others', finalizes before the thread has sent it.  The peer waits for ever.

### What the properties leave out on purpose

`FiledRight` has two exceptions, both of which TLC reaches.  `raced`: a message
taken from `sr_queue_` before the notification that adds its connection is
looked up in vain, and `FindConnMetaById` gives it index 0.  `gap`: after a
connection is removed from before another, `conn_meta_map_` keeps the old place
of the later one.  Nothing in the repository promises otherwise; the test
application puts its barriers between connecting and sending, and removes
connections only at its end.  `EveryMessageIsSent` has the same exceptions.

`OnlySplitLengthsFail`, `OnlyClosedSocketsFail` and `OnlyTheseChecksFail` say
which `CHECK`s can end a process, and that no other can; TLC reaches every reason
that they name.

* `MltSession`: a read that returns a part of the four bytes of a length fails
  `CHECK_EQ(sizeof(length), ret)`.  The peers of such a process may then fail on
  the reset connection.  `EverybodyRuns` is about the other executions.
* `Cluster`: a worker that connects to a replacement closes the socket to the dead
  server while a thread still polls it; the poll fails with an error that
  `RecvMsg` does not accept and ends the worker.  `ReplacementIsReached` therefore
  says that the scheduler and the worker come to have a socket to the replacement
  and that the worker ends after it: recovery of a server works only as far as
  that.  A replacement that receives a request before its list of nodes cannot
  answer and ends, too.
* `RdmaVan`: an event of the connection manager that `OnEvent` does not know
  (`CHECK(0)`); more receive buffers than `AddressPool` has indices; the
  uninitialised key of a simple message, when it is one in use; a worker that
  pushes a key from other memory than before; after a rejected connection, two
  rendezvous that shared one START context, so that one is answered twice and the
  other message, perhaps a push before its pull, is never sent; and the end of
  the peer.  `EveryRequestAnswered` excepts these and one that is no `CHECK`:
  `PollCQ`, with a rendezvous to answer and no REPLY context left, waits for one
  that only `PollCQ` itself could give back (`WaitsForItself`).

`EveryRequestCompletes` excepts behaviours in which a process has failed a
`CHECK`: a request that comes before its application's handler is set, or more
than five seconds before its application exists.

A loss ratio of 1 makes the bound 0.  The first `FINISH_FLOW` then finds the
message finished and sends nothing, so the transfer ends only if some packet
arrives.  `Kept[m] > 0` is a hypothesis of `NeverStranded` and of
`EventuallyCompletes` for this reason.

## 5. What is proved

### The flow

These theorems hold for any set of message ids, any sizes, any loss ratios, any
segment size and any queue capacity, from the assumptions named in `Packetizer`
and `MltFlow` (a segment has at least one byte, a message is a non-empty array
of floats, no more bytes are wanted than there are) and the hypothesis
`MaxPosts = 1`: every id is used once.  `mlt_flow_reuse` shows that it cannot be
dropped.

| Theorem | Statement |
|---|---|
| `TypeCorrect` | `Spec => []TypeOK` |
| `Invariance` | `Spec => []IInv` |
| `ChecksHold` | `Spec => []NoCheckFails` |
| `OneRound` | `Spec => []OneRoundAtATime` |
| `NoneStranded` | `Spec => []NeverStranded` |
| `CleanEnd` | `Spec => []EndsClean` |
| `BytesExact` | `Spec => []ReceivedBytesExact` |
| `FlowImplementsTransfer` | `Spec => ImplementsTransfer` |
| `CursorAgreesWithSeq` | the packet cut at the cursor is the one cut from its number |

**The argument.**  None of the properties is inductive.  Whether `FlowFinish`
finds its flow announced depends on what stands before it in the TCP queue and
on whether a `StopConfirm` can have overtaken it; whether a second `StopRequest`
can exist depends on every place where the first may be.  `IInv` therefore says,
for each message,

* `LawsOf`: conservation laws.  A posted message is in exactly one place at the
  sender (posting, queued, being sent, kept, completed), in exactly one at the
  receiver, its announcement and its stop handshake are each in exactly one
  place, and it is in at most one round, exactly one until the receiver is
  content.  Places in a queue are counted (`Count`), so each action moves a unit
  from one counter to another, and the laws are linear arithmetic;
* `Ordered`: `FlowStart` stands before `FlowFinish` and both before
  `StopConfirm`; retransmit requests stand before `StopRequest`, in the signal
  queues and in the notification queues behind them;
* `Flying`: a packet exists only after its message has left `sr_queue`;
* `Received`, `Sent`: the byte counters are the payload of the packets taken,
  the cursor is at a packet boundary, and `stopped` means that the bound is
  reached;
* `Contents`: signals carry the last sequence number of their message, and
  requests are non-empty sets of its sequence numbers.

Beside `IInv`, `Acked` says that no send completes before its `StopConfirm` is
sent.  The laws speak of confirmations, which are what the rest of the protocol
depends on; the refinement needs `Acked` to know that a send that is stopped now
has not completed yet.

Each step lemma names the message `k` the action is about, shows that nothing
changes for the others (`Elsewhere`) and follows the unit of `k`.
The lemmas about counts are used through the hypothesis `CountingFacts`, a
formula of `Queues` that `MltFlowProofs` proves; this keeps the theory of finite
sets, which would make every step slow, out of the long module.  The theorems
do not have that hypothesis.  `LeastElements` and `RateFacts` of the priority
channel and `SetFacts` of the key-value application have the same purpose: each
is proved, from the library, at the end of the modules that use it.

### The resender

For any sets of nodes, applications, threads and messages, any number of drops
and of early timeouts, from `ResenderAssumption`: no two messages have the same
key, and messages travel between nodes.

| Theorem | Statement |
|---|---|
| `TypeCorrect` | `Spec => []TypeOK` |
| `Invariance` | `Spec => []IInv` |
| `SenderKeepsUnaccepted` | `Spec => []SenderRemembers` |
| `RetriesAreLosses` | `Spec => []RetriesCountLosses` |
| `ResenderImplementsDelivery` | `Spec => ImplementsDelivery` |

`SenderRemembers` alone is not inductive: an acknowledgement removes a message
from the buffer, and one must know that it is only ever on a connection when its
message was accepted.  `IInv` adds

* `WireOK`: what is on a connection was sent over it, and an acknowledgement
  there names an accepted message; `AcceptedWasSent`;
* `OwnMessages`: a thread inside `Van::Send` and the buffer of a node hold
  messages of that node only;
* `RetriesCovered`: a retry has a loss or an early timeout of its own, except
  that one more may have been made whose message, or its acknowledgement, is in
  transit.  Without the second part the bound on the counter does not survive
  another resend.

The step lemmas describe a connection only by what it holds (`Holds`), so that
no proof depends on places in a queue.  For the refinement, the first copy of a
message that is accepted is the step `Deliver`, sending is `Send`, and later
copies, acknowledgements, drops and resends leave `transit` and the queues as
they are.

### The block tree and the retransmit request

For every size of a message (`MaxSize`), from `MaxSizeAssumption` alone.

| Theorem | Statement |
|---|---|
| `TreeIsCanonical` | `RSpec => []Canonical` |
| `CheckNeverErrs` | `RSpec => []CheckIsExact` |
| `CursorNeverLeaves` | `RSpec => []CursorInBlock` |
| `WalkNeverErrs` | `RSpec => WalkIsExact` |
| `TreeImplementsBlockMgr` | `RSpec => RefinesBlockMgr` |

The invariant `RInv` has two parts.  `Shape`: the blocks are finitely many, lie
below the size and are separated by at least one taken number.  `Check` and
`Take` look only at the last block that starts at or before their number, and
`Resize` only at the last block, so it is the order and the separation that make
them right.  `Walk`: an active request is a
sequence of non-empty blocks, each ending before the next begins, with the
cursor in the current one.  The request is a copy, so it says nothing of the
tree; `WalkNeverErrs` relates the two in the step that makes the copy.  That
`SerializeToBuffer` finds an order at all is a counting argument: the place of a
block is the number of blocks that start no later.  The run `retransmit_blocks` checks the same properties of `BSpec`,
whose steps are those of `RSpec` with the bitmap's beside them.

### The priority channel: rates

For any peers, messages and sizes, any initial rate and any monitoring
interval, from `ChannelAssumption` and `SetupsAssumption` (which types the
constants).

| Theorem | Statement |
|---|---|
| `PacingHolds` | `Spec => []PacedToRate` |
| `RateIsReported` | `Spec => []RateFollowsReceiver` |

`PacedToRate` compares all that was sent with all the time that passed, but the
throttle sees one window of the meter.  `Paced` therefore keeps the account of
the windows that are over: what was sent before the current one fits the highest
rate and the time before it.  `RateBound` says where the doublings come from.
There is an `n`, the reports that were used, such that the rate is at most the
initial one doubled `n` times, and the `n` reports, those on the way and the
window the peer is measuring took no more than the age of the connection and one
interval.  A report on the way is a unit that moves from the peer's meter to
`n`; without counting those on the way, a burst of late reports could not be
excluded.

### The priority channel: the table and the messages

| Theorem | Statement |
|---|---|
| `EightPriorities` | `Channel.ok /\ Routable <=> NumPriorities = 8`, if `NumPriorities \in Nat` |
| `MessagesAreFiledRight` | `Spec => []FiledRight`, if `Channel.ok /\ Routable` |

`NumPriorities` is the lesser of `MLT_NUM_PRIO` and `MLT_NUM_QUEUES`, both of
which are eight by default.  The hypothesis of the second theorem is that no
`CHECK` of `AddEndpoint` failed in `Start` and that every packet has an
endpoint, and `EightPriorities` shows when this is so: with fewer priorities some packets
have no endpoint, and `RoutePacket` would index `prio_endpoints_` with -1 (it
does not look); with more, `AddEndpoint` fails its `CHECK`.

`FiledRight` is far from inductive.  `IInv` adds

* `Connected`: each connection has at most one `ADD_CONNECTION` and one
  `REMOVE_CONNECTION` on the way, in that order, and is in the table at most
  once, between the two;
* `Unique`: a message is in `sr_queue_`, in `sending` or in `retransmitting`, in
  one place and of one connection;
* `Ordered`: in the peer's signals and behind them in `notification_queue_`, no
  request for a message comes after the signal that stops it;
* `Filed`, as long as nothing raced and no gap was left: the map gives every
  place in the table, and whoever asks for a packet of a message asks for one
  that has been sent and not stopped.  This is what keeps the `CHECK`s of
  `StopFlow` and `REQUEST_RETRANSMIT` from failing.

### The key-value application

For any workers, servers, key lists, number of requests and set of servers that
make their applications late, from `KvAppAssumption` (the servers have different
ids, a node is a worker or a server, there are two applications and only servers
are late).

| Theorem | Statement |
|---|---|
| `MailIsCounted` | `Spec => []IInv` |
| `CallbacksBeforeWait` | `Spec => []CallbackBeforeWait` |

The callback is run by the response that finds all but one counted, and counted
itself only after the callback has returned.  That it runs once, and that no
response comes after it, needs to know that no two responses to a request come
from the same server.  `IInv` says so by following *exchanges*, a request and a
server:

* `Mail`, `OnePlace`: what is in a place belongs there, and an exchange is in one
  place: still to be sent, on the way, or in the queue of one customer, as a
  request and then as its response;
* `Counted`: for each request, the responses counted, the one handled and not
  yet counted, and the servers whose exchange is open (`Awaited`) are together at
  most the servers.  They are not always all of them, for a server that fails a
  `CHECK` loses what it was answering.  Servers without a slice are counted when
  the request is made and have no exchange;
* `Called`: the callback has run exactly when the counted and the handled
  responses are all the servers;
* `Left`: a worker that deletes an application has counted every response of
  both, so nothing is open.

`IInv` says nothing of keys and values: it holds whatever `DefaultSlicer` returns.

### Induction

The provers cannot instantiate the library's induction theorems, which take a
predicate as a parameter.  `SetInduction` in `PriorityChannelProofs` and
`PriorityChannelRates` is the same principle about a set (one that has 0, and `n + 1` with every `n`, has every number); it
follows from the well-foundedness of `<`, and proofs use it with
`{n \in Nat : P(n)}`.  The recursive functions of `PriorityChannel` (`Doubled`,
`Started`) are treated with it.

### Only model-checked

Liveness, because it rests on fairness.  `BitmapAgrees`, because the word-by-word
walk of the bitmap is a `RECURSIVE` operator, which the provers do not take.
`PushedExactlyOnce` and `PullComplete` of `KvApp`: they are about sums over
servers and workers (`MapThenSumSet`) and about the sorted slices of a key list
(`SelectSeq`, `SortSeq`), whose laws need induction over the data.  The
properties of `MltSession`, `Cluster` and `RdmaVan`, on the instances above: the
inductive invariants they need have not been worked out.

## 6. What is not modelled

* Of MLT: the receive backlog, which is off by default
  (`MLT_DISABLE_FLOW_BACKLOG`); the use of a `ConnMeta` by the receiving thread
  after `REMOVE_CONNECTION` freed it, a race the code marks with a TODO; the
  memory orders of the single-producer ring; the reverse direction of a
  connection, which uses separate tables; sizes beyond 32 bits; the contents of
  gradients.  `PartitionAndRoute` has no caller.
* Of the parameter server: a second recovery, which ends the scheduler; the
  crash of a worker or of the scheduler, which the code does not handle;
  profiling; the copying of message parts into ZeroMQ messages.
* Of the RDMA van: a second push, or a second pull, of a key while the first is
  under way, which the reuse of buffers excludes; more than one worker.
* `mlt_van.h` does not compile as a van; its functions are those of the test
  application.  `parallel_kv_match.h`, `parallel_sort.h` and `assign_op.h` are
  not used by anything that is built.  `mlt/client.cc` and `mlt/server.cc` are
  stand-alone UDP benchmarks.
* The tracker scripts start processes; the ring they can also serve is for jobs
  without servers.  Headers of other projects (dmlc, prism), sockets, epoll and
  containers are modelled by what they do where they are used.

------------------------------ MODULE MltFlow ------------------------------
(***************************************************************************)
(* The loss-tolerant transfer of messages from one MLT communicator to     *)
(* another over an established connection (src/mlt).                       *)
(*                                                                         *)
(* Sender threads: the application (PostSend), the priority channel        *)
(* (PollSendingMessages, PollRetransmitRequest, PollNotification) and the  *)
(* reliable channel, which hands TCP signals to the priority channel.      *)
(* Receiver threads: the application (PostRecv), the receiving channel     *)
(* (HandleReceive, PollReceiveRequest, PollNotification) and the reliable  *)
(* channel, which hands TCP signals to the receiving channel.              *)
(*                                                                         *)
(* Gradient packets travel over UDP and may be lost, duplicated and        *)
(* reordered; signals travel over TCP, one FIFO per direction (the         *)
(* tx_queue_ of the reliable channel, the endpoint's queue and the socket  *)
(* are one queue here).                                                    *)
(***************************************************************************)
EXTENDS Integers, Sequences, FiniteSets, Packetizer, Queues

CONSTANTS
  MsgIds,       \* message ids; the std::maps keyed by them serve the least first
  Size,         \* Size[m]: bytes of message m, on both sides
  Kept,         \* Kept[m]: size * (1 - loss_ratio), truncated
  Capacity,     \* capacity of the single-producer queues (32 in the code)
  MaxPosts      \* how many times the applications use the same id (a bound)

ASSUME MsgIdsAssumption == MsgIds \subseteq Nat
\* A message is a non-empty array of floats.
ASSUME SizeAssumption == /\ Size \in [MsgIds -> Nat \ {0}]
                         /\ \A m \in MsgIds : Size[m] % 4 = 0
ASSUME KeptAssumption == /\ Kept \in [MsgIds -> Nat]
                         /\ \A m \in MsgIds : Kept[m] <= Size[m]
ASSUME CapacityAssumption == Capacity \in Nat \ {0}
ASSUME MaxPostsAssumption == MaxPosts \in Nat

NoMsg == -1     \* the application thread is not inside PostSend

VARIABLES
  \* the sender
  posting,              \* message whose PostSend has sent FlowStart only
  send_posts,           \* number of PostSend calls per message
  sr_queue,             \* send requests, application -> priority channel
  sending_msgs,         \* messages in their first transmission
  bytes_sent,           \* send cursor of each message
  retransmitting_msgs,  \* messages kept for retransmission
  retransmit_reqs,      \* sequence numbers still to resend; {}: no request
  prio_notif,           \* notifications, reliable -> priority channel
  confirmed,            \* StopConfirms sent per message
  send_completions,     \* kSend completions pushed per message
  \* between the two
  udp_tx,               \* packets in the tx_queues of the UDP endpoints
  net,                  \* packets on the wire
  to_receiver,          \* signals sent to the receiver and not handled yet
  to_sender,            \* signals sent to the sender and not handled yet
  \* the receiver
  recv_posts,           \* number of PostRecv calls per message
  rr_queue,             \* receive requests, application -> receiving channel
  msg_max_seq,          \* last sequence number announced by FlowStart; -1: none
  recv_notif,           \* notifications, reliable -> receiving channel
  recv_msgs,            \* messages being received
  block_size,           \* size of the message's block manager
  taken,                \* sequence numbers its block manager has taken
  bytes_received,       \* payload bytes copied into the message's buffer
  stopped,              \* the StopRequest of the message has been sent
  recv_completions      \* kRecv completions pushed per message

sender_vars == <<posting, send_posts, sr_queue, sending_msgs, bytes_sent,
                 retransmitting_msgs, retransmit_reqs, prio_notif,
                 confirmed, send_completions>>

recv_state == <<recv_msgs, block_size, taken, bytes_received, stopped>>

receiver_vars == <<recv_posts, rr_queue, msg_max_seq, recv_notif, recv_state,
                   recv_completions>>

vars == <<sender_vars, udp_tx, net, to_receiver, to_sender, receiver_vars>>

-----------------------------------------------------------------------------
IsLeast(x, S) == x \in S /\ \A y \in S : x <= y

MaxSeq(m) == GetMaxSeqNum(Size[m])

Packet(m, pkt) == [msg_id |-> m, seq |-> pkt.seq, offset |-> pkt.offset,
                   bytes |-> pkt.bytes]

\* Every packet of message m, as its retransmission cuts it.
Packets(m) == {Packet(m, PartitionOneBySeq(Size[m], s)) : s \in 0 .. MaxSeq(m)}

AllPackets == UNION {Packets(m) : m \in MsgIds}

Seqs == UNION {0 .. MaxSeq(m) : m \in MsgIds}

ToReceiver == [type : {"kFlowStart"}, msg_id : MsgIds, max_seq_num : Seqs]
                \cup [type : {"kFlowFinish", "kStopConfirm"}, msg_id : MsgIds]

RecvNotification ==
  [type : {"FINISH_FLOW"}, msg_id : MsgIds, max_seq_num : Seqs]
    \cup [type : {"CONFIRM_STOP"}, msg_id : MsgIds]

ToSender == [type : {"kRetransmitRequest"}, msg_id : MsgIds, blocks : SUBSET Seqs]
              \cup [type : {"kStopRequest"}, msg_id : MsgIds]

PrioNotification ==
  [type : {"REQUEST_RETRANSMIT"}, msg_id : MsgIds, blocks : SUBSET Seqs]
    \cup [type : {"STOP_FLOW"}, msg_id : MsgIds]

TypeOK ==
  /\ posting \in MsgIds \cup {NoMsg}
  /\ send_posts \in [MsgIds -> Nat]
  /\ sr_queue \in Seq(MsgIds)
  /\ sending_msgs \in SUBSET MsgIds
  /\ bytes_sent \in [MsgIds -> Nat]
  /\ retransmitting_msgs \in SUBSET MsgIds
  /\ retransmit_reqs \in [MsgIds -> SUBSET Seqs]
  /\ prio_notif \in Seq(PrioNotification)
  /\ confirmed \in [MsgIds -> Nat]
  /\ send_completions \in [MsgIds -> Nat]
  /\ udp_tx \in SUBSET AllPackets
  /\ net \in SUBSET AllPackets
  /\ to_receiver \in Seq(ToReceiver)
  /\ to_sender \in Seq(ToSender)
  /\ recv_posts \in [MsgIds -> Nat]
  /\ rr_queue \in Seq(MsgIds)
  /\ msg_max_seq \in [MsgIds -> Seqs \cup {-1}]
  /\ recv_notif \in Seq(RecvNotification)
  /\ recv_msgs \in SUBSET MsgIds
  /\ block_size \in [MsgIds -> Nat]
  /\ taken \in [MsgIds -> SUBSET Seqs]
  /\ bytes_received \in [MsgIds -> Nat]
  /\ stopped \in [MsgIds -> BOOLEAN]
  /\ recv_completions \in [MsgIds -> Nat]

Init ==
  /\ posting = NoMsg
  /\ send_posts = [m \in MsgIds |-> 0]
  /\ sr_queue = <<>>
  /\ sending_msgs = {}
  /\ bytes_sent = [m \in MsgIds |-> 0]
  /\ retransmitting_msgs = {}
  /\ retransmit_reqs = [m \in MsgIds |-> {}]
  /\ prio_notif = <<>>
  /\ confirmed = [m \in MsgIds |-> 0]
  /\ send_completions = [m \in MsgIds |-> 0]
  /\ udp_tx = {}
  /\ net = {}
  /\ to_receiver = <<>>
  /\ to_sender = <<>>
  /\ recv_posts = [m \in MsgIds |-> 0]
  /\ rr_queue = <<>>
  /\ msg_max_seq = [m \in MsgIds |-> -1]
  /\ recv_notif = <<>>
  /\ recv_msgs = {}
  /\ block_size = [m \in MsgIds |-> 0]
  /\ taken = [m \in MsgIds |-> {}]
  /\ bytes_received = [m \in MsgIds |-> 0]
  /\ stopped = [m \in MsgIds |-> FALSE]
  /\ recv_completions = [m \in MsgIds |-> 0]

-----------------------------------------------------------------------------
\* The sender's application thread.

\* PostSend, first half: announce the flow over TCP.
PostSend(m) ==
  /\ posting = NoMsg
  /\ send_posts[m] < MaxPosts
  /\ send_completions[m] >= send_posts[m]
  /\ posting' = m
  /\ send_posts' = [send_posts EXCEPT ![m] = @ + 1]
  /\ to_receiver' = Append(to_receiver, [type |-> "kFlowStart", msg_id |-> m,
                                         max_seq_num |-> MaxSeq(m)])
  /\ UNCHANGED <<sr_queue, sending_msgs, bytes_sent, retransmitting_msgs,
                 retransmit_reqs, prio_notif, confirmed, send_completions,
                 udp_tx, net, to_sender, receiver_vars>>

\* PostSend, second half: PriorityChannel::Enqueue, which waits for a free slot.
EnqueueSend ==
  /\ posting # NoMsg
  /\ Len(sr_queue) < Capacity
  /\ sr_queue' = Append(sr_queue, posting)
  /\ posting' = NoMsg
  /\ UNCHANGED <<send_posts, sending_msgs, bytes_sent, retransmitting_msgs,
                 retransmit_reqs, prio_notif, confirmed, send_completions,
                 udp_tx, net, to_receiver, to_sender, receiver_vars>>

-----------------------------------------------------------------------------
\* The priority channel thread (the sender's packets and their repetition).

\* The thread is in StopFlow, and has not pushed the completion yet.
Stopping == \E m \in MsgIds : send_completions[m] < confirmed[m]

PopSendRequest ==
  /\ ~Stopping
  /\ sr_queue # <<>>
  /\ LET m == Head(sr_queue)
     IN /\ m \notin sending_msgs
        /\ sending_msgs' = sending_msgs \cup {m}
        /\ bytes_sent' = [bytes_sent EXCEPT ![m] = 0]
  /\ sr_queue' = Tail(sr_queue)
  /\ UNCHANGED <<posting, send_posts, retransmitting_msgs, retransmit_reqs,
                 prio_notif, confirmed, send_completions,
                 udp_tx, net, to_receiver, to_sender, receiver_vars>>

\* Mutant: FlowFinish follows every packet.
RoutePacket_AlwaysFinishes(pkt, is_finished) ==
  /\ udp_tx' = udp_tx \cup {pkt}
  /\ to_receiver' = Append(to_receiver, [type |-> "kFlowFinish", msg_id |-> pkt.msg_id])

\* Packetizer::RoutePacket: queue the packet and, after the last one, FlowFinish.
RoutePacket(pkt, is_finished) ==
  /\ udp_tx' = udp_tx \cup {pkt}
  /\ to_receiver' = IF is_finished
                      THEN Append(to_receiver, [type |-> "kFlowFinish",
                                                msg_id |-> pkt.msg_id])
                      ELSE to_receiver

\* One packet of the least message in its first transmission.
PollSendingMessages(m) ==
  /\ ~Stopping
  /\ IsLeast(m, sending_msgs)
  /\ LET pkt  == PartitionOne(Size[m], bytes_sent[m])
         sent == bytes_sent[m] + pkt.bytes
     IN /\ RoutePacket(Packet(m, pkt), IsLast(Size[m], pkt))
        /\ bytes_sent' = [bytes_sent EXCEPT ![m] = sent]
        /\ IF sent >= Size[m]
             THEN /\ sending_msgs' = sending_msgs \ {m}
                  /\ retransmitting_msgs' = retransmitting_msgs \cup {m}
             ELSE UNCHANGED <<sending_msgs, retransmitting_msgs>>
  /\ UNCHANGED <<posting, send_posts, sr_queue, retransmit_reqs, prio_notif,
                 confirmed, send_completions, net, to_sender, receiver_vars>>

\* One packet of the least message with a retransmit request; the request is
\* walked in ascending order and erased after its last packet (RetransmitBlocks).
PollRetransmitRequest(m) ==
  /\ ~Stopping
  /\ IsLeast(m, {k \in MsgIds : retransmit_reqs[k] # {}})
  /\ m \in retransmitting_msgs
  /\ \E seq \in retransmit_reqs[m] :
       /\ IsLeast(seq, retransmit_reqs[m])
       /\ RoutePacket(Packet(m, PartitionOneBySeq(Size[m], seq)),
                      retransmit_reqs[m] = {seq})
       /\ retransmit_reqs' = [retransmit_reqs EXCEPT ![m] = @ \ {seq}]
  /\ UNCHANGED <<posting, send_posts, sr_queue, sending_msgs, bytes_sent,
                 retransmitting_msgs, prio_notif, confirmed, send_completions,
                 net, to_sender, receiver_vars>>

\* PollNotification, REQUEST_RETRANSMIT.
RequestRetransmit ==
  /\ ~Stopping
  /\ prio_notif # <<>>
  /\ Head(prio_notif).type = "REQUEST_RETRANSMIT"
  /\ Head(prio_notif).blocks # {}
  /\ retransmit_reqs' = [retransmit_reqs EXCEPT ![Head(prio_notif).msg_id] =
                           Head(prio_notif).blocks]
  /\ prio_notif' = Tail(prio_notif)
  /\ UNCHANGED <<posting, send_posts, sr_queue, sending_msgs, bytes_sent,
                 retransmitting_msgs, confirmed, send_completions,
                 udp_tx, net, to_receiver, to_sender, receiver_vars>>

\* PollNotification, STOP_FLOW, first part: forget the message and confirm.
StopFlow ==
  /\ ~Stopping
  /\ prio_notif # <<>>
  /\ Head(prio_notif).type = "STOP_FLOW"
  /\ LET m == Head(prio_notif).msg_id
     IN /\ IF m \in sending_msgs
             THEN /\ sending_msgs' = sending_msgs \ {m}
                  /\ UNCHANGED <<retransmit_reqs, retransmitting_msgs>>
             ELSE /\ retransmit_reqs' = [retransmit_reqs EXCEPT ![m] = {}]
                  /\ retransmitting_msgs' = retransmitting_msgs \ {m}
                  /\ UNCHANGED sending_msgs
        /\ to_receiver' = Append(to_receiver, [type |-> "kStopConfirm",
                                               msg_id |-> m])
        /\ confirmed' = [confirmed EXCEPT ![m] = @ + 1]
  /\ prio_notif' = Tail(prio_notif)
  /\ UNCHANGED <<posting, send_posts, sr_queue, bytes_sent, send_completions,
                 udp_tx, net, to_sender, receiver_vars>>

\* The second part: complete the send.  The receiver may have got the
\* confirmation, and completed, before.
CompleteSend(m) ==
  /\ send_completions[m] < confirmed[m]
  /\ send_completions' = [send_completions EXCEPT ![m] = @ + 1]
  /\ UNCHANGED <<posting, send_posts, sr_queue, sending_msgs, bytes_sent,
                 retransmitting_msgs, retransmit_reqs, prio_notif, confirmed,
                 udp_tx, net, to_receiver, to_sender, receiver_vars>>

\* UdpEndpoint::OnSendReady takes a packet from the queue before it tries to
\* send it: when the socket would block, that packet is gone.
OnSendReady(p) ==
  /\ p \in udp_tx
  /\ udp_tx' = udp_tx \ {p}
  /\ net' = net \cup {p}
  /\ UNCHANGED <<sender_vars, to_receiver, to_sender, receiver_vars>>

OnSendWouldBlock(p) ==
  /\ p \in udp_tx
  /\ udp_tx' = udp_tx \ {p}
  /\ UNCHANGED <<sender_vars, net, to_receiver, to_sender, receiver_vars>>

\* UDP loses packets.
Lose(p) ==
  /\ p \in net
  /\ net' = net \ {p}
  /\ UNCHANGED <<sender_vars, udp_tx, to_receiver, to_sender, receiver_vars>>

-----------------------------------------------------------------------------
\* The reliable channel threads: RdEndpoint::HandleReceivedData.

\* At the sender both signals become notifications of the priority channel.
HandleRetransmitRequest ==
  /\ to_sender # <<>>
  /\ Head(to_sender).type = "kRetransmitRequest"
  /\ prio_notif' = Append(prio_notif, [type   |-> "REQUEST_RETRANSMIT",
                                       msg_id |-> Head(to_sender).msg_id,
                                       blocks |-> Head(to_sender).blocks])
  /\ to_sender' = Tail(to_sender)
  /\ UNCHANGED <<posting, send_posts, sr_queue, sending_msgs, bytes_sent,
                 retransmitting_msgs, retransmit_reqs, confirmed, send_completions,
                 udp_tx, net, to_receiver, receiver_vars>>

HandleStopRequest ==
  /\ to_sender # <<>>
  /\ Head(to_sender).type = "kStopRequest"
  /\ prio_notif' = Append(prio_notif, [type   |-> "STOP_FLOW",
                                       msg_id |-> Head(to_sender).msg_id])
  /\ to_sender' = Tail(to_sender)
  /\ UNCHANGED <<posting, send_posts, sr_queue, sending_msgs, bytes_sent,
                 retransmitting_msgs, retransmit_reqs, confirmed, send_completions,
                 udp_tx, net, to_receiver, receiver_vars>>

HandleFlowStart ==
  /\ to_receiver # <<>>
  /\ Head(to_receiver).type = "kFlowStart"
  /\ msg_max_seq' = [msg_max_seq EXCEPT ![Head(to_receiver).msg_id] =
                       Head(to_receiver).max_seq_num]
  /\ to_receiver' = Tail(to_receiver)
  /\ UNCHANGED <<sender_vars, udp_tx, net, to_sender, recv_posts, rr_queue,
                 recv_notif, recv_state, recv_completions>>

\* ReceivingChannel::Notify waits for a free slot of the notification queue.
HandleFlowFinish ==
  /\ to_receiver # <<>>
  /\ Head(to_receiver).type = "kFlowFinish"
  /\ Len(recv_notif) < Capacity
  /\ LET m == Head(to_receiver).msg_id
     IN /\ msg_max_seq[m] # -1
        /\ recv_notif' = Append(recv_notif, [type        |-> "FINISH_FLOW",
                                             msg_id      |-> m,
                                             max_seq_num |-> msg_max_seq[m]])
  /\ to_receiver' = Tail(to_receiver)
  /\ UNCHANGED <<sender_vars, udp_tx, net, to_sender, recv_posts, rr_queue,
                 msg_max_seq, recv_state, recv_completions>>

\* Mutant: the flow stays announced after its end.
HandleStopConfirm_KeepsFlow ==
  /\ to_receiver # <<>>
  /\ Head(to_receiver).type = "kStopConfirm"
  /\ Len(recv_notif) < Capacity
  /\ recv_notif' = Append(recv_notif, [type   |-> "CONFIRM_STOP",
                                       msg_id |-> Head(to_receiver).msg_id])
  /\ to_receiver' = Tail(to_receiver)
  /\ UNCHANGED <<sender_vars, udp_tx, net, to_sender, recv_posts, rr_queue,
                 msg_max_seq, recv_state, recv_completions>>

HandleStopConfirm ==
  /\ to_receiver # <<>>
  /\ Head(to_receiver).type = "kStopConfirm"
  /\ Len(recv_notif) < Capacity
  /\ LET m == Head(to_receiver).msg_id
     IN /\ recv_notif' = Append(recv_notif, [type   |-> "CONFIRM_STOP",
                                             msg_id |-> m])
        /\ msg_max_seq' = [msg_max_seq EXCEPT ![m] = -1]
  /\ to_receiver' = Tail(to_receiver)
  /\ UNCHANGED <<sender_vars, udp_tx, net, to_sender, recv_posts, rr_queue,
                 recv_state, recv_completions>>

\* The signals of a flow; user data and rates are in MltSession and PriorityChannel.
HandleReceivedData == \/ HandleRetransmitRequest
                      \/ HandleStopRequest
                      \/ HandleFlowStart
                      \/ HandleFlowFinish
                      \/ HandleStopConfirm

-----------------------------------------------------------------------------
\* The receiver's application thread.

PostRecv(m) ==
  /\ recv_posts[m] < MaxPosts
  /\ recv_completions[m] >= recv_posts[m]
  /\ Len(rr_queue) < Capacity
  /\ recv_posts' = [recv_posts EXCEPT ![m] = @ + 1]
  /\ rr_queue' = Append(rr_queue, m)
  /\ UNCHANGED <<sender_vars, udp_tx, net, to_receiver, to_sender,
                 msg_max_seq, recv_notif, recv_state, recv_completions>>

-----------------------------------------------------------------------------
\* The receiving channel thread.

AlignUp(alignment, value) == ((value + alignment - 1) \div alignment) * alignment

\* Bytes after which the receiver is content; 4 is sizeof(float).
Bound(m) == AlignUp(4, Kept[m])

\* Mutant: the bound itself is not enough.
FinishReceiving_Strict(m) == bytes_received[m] > Bound(m)

FinishReceiving(m) == bytes_received[m] >= Bound(m)

PollReceiveRequest ==
  /\ rr_queue # <<>>
  /\ LET m == Head(rr_queue)
     IN /\ m \notin recv_msgs
        /\ recv_msgs' = recv_msgs \cup {m}
        /\ block_size' = [block_size EXCEPT ![m] = 0]
        /\ taken' = [taken EXCEPT ![m] = {}]
        /\ bytes_received' = [bytes_received EXCEPT ![m] = 0]
        /\ stopped' = [stopped EXCEPT ![m] = FALSE]
  /\ rr_queue' = Tail(rr_queue)
  /\ UNCHANGED <<sender_vars, udp_tx, net, to_receiver, to_sender, recv_posts,
                 msg_max_seq, recv_notif, recv_completions>>

Larger(a, b) == IF a >= b THEN a ELSE b

\* Mutant: the first packet stops the sender.
CopyNewPacket_StopsAtOnce(p) ==
  LET m == p.msg_id
  IN /\ block_size' = [block_size EXCEPT ![m] = Larger(@, p.seq + 1)]
     /\ taken' = [taken EXCEPT ![m] = @ \cup {p.seq}]
     /\ bytes_received' = [bytes_received EXCEPT ![m] = @ + p.bytes]
     /\ stopped' = [stopped EXCEPT ![m] = TRUE]
     /\ to_sender' = IF stopped[m]
                       THEN to_sender
                       ELSE Append(to_sender, [type |-> "kStopRequest", msg_id |-> m])

\* A new packet: CopyGradients takes its number and copies its bytes, and the
\* first packet that reaches the bound sends StopRequest.
CopyNewPacket(p) ==
  LET m    == p.msg_id
      got  == bytes_received[m] + p.bytes
      stop == got >= Bound(m) /\ ~stopped[m]
  IN /\ p.offset + p.bytes <= Size[m]
     /\ block_size' = [block_size EXCEPT ![m] = Larger(@, p.seq + 1)]
     /\ taken' = [taken EXCEPT ![m] = @ \cup {p.seq}]
     /\ bytes_received' = [bytes_received EXCEPT ![m] = got]
     /\ stopped' = [stopped EXCEPT ![m] = @ \/ stop]
     /\ to_sender' = IF stop
                       THEN Append(to_sender, [type |-> "kStopRequest", msg_id |-> m])
                       ELSE to_sender

\* Mutant: the number of a packet is not looked up before it is copied.
HandleReceive_CountsTwice(p) ==
  /\ p \in net
  /\ net' \in {net, net \ {p}}
  /\ IF p.msg_id \in recv_msgs
       THEN CopyNewPacket(p)
       ELSE UNCHANGED <<block_size, taken, bytes_received, stopped, to_sender>>
  /\ UNCHANGED <<sender_vars, udp_tx, to_receiver, recv_posts, rr_queue,
                 msg_max_seq, recv_notif, recv_msgs, recv_completions>>

\* A packet arrives.  A copy of it may stay on the wire (UDP duplicates).
\* It is dropped when no receive is posted for it or when it was seen before.
HandleReceive(p) ==
  /\ p \in net
  /\ net' \in {net, net \ {p}}
  /\ IF p.msg_id \in recv_msgs /\ p.seq \notin taken[p.msg_id]
       THEN CopyNewPacket(p)
       ELSE UNCHANGED <<block_size, taken, bytes_received, stopped, to_sender>>
  /\ UNCHANGED <<sender_vars, udp_tx, to_receiver, recv_posts, rr_queue,
                 msg_max_seq, recv_notif, recv_msgs, recv_completions>>

\* Mutant: nothing is asked for while no receive is posted.
Missing_OnlyIfPosted(m, max_seq_num) ==
  IF m \in recv_msgs
    THEN (0 .. Larger(block_size[m], max_seq_num + 1) - 1) \ taken[m]
    ELSE {}

\* Mutant: max_seq_num is taken for the number of packets.
Missing_PastEnd(m, max_seq_num) == (0 .. max_seq_num + 1) \ taken[m]

\* The packets FinishFlow asks for again: all of them when no receive is posted.
Missing(m, max_seq_num) ==
  IF m \in recv_msgs
    THEN (0 .. Larger(block_size[m], max_seq_num + 1) - 1) \ taken[m]
    ELSE 0 .. max_seq_num

\* PollNotification, FINISH_FLOW.  Nothing is sent when the bound is reached
\* (a StopRequest is on its way) or when no packet is missing.
FinishFlow ==
  /\ recv_notif # <<>>
  /\ Head(recv_notif).type = "FINISH_FLOW"
  /\ LET m       == Head(recv_notif).msg_id
         max_seq == Head(recv_notif).max_seq_num
         blocks  == Missing(m, max_seq)
     IN IF m \in recv_msgs /\ FinishReceiving(m)
          THEN UNCHANGED <<block_size, to_sender>>
          ELSE /\ block_size' = IF m \in recv_msgs
                                  THEN [block_size EXCEPT ![m] = Larger(@, max_seq + 1)]
                                  ELSE block_size
               /\ to_sender' = IF blocks # {}
                                 THEN Append(to_sender,
                                             [type |-> "kRetransmitRequest",
                                              msg_id |-> m, blocks |-> blocks])
                                 ELSE to_sender
  /\ recv_notif' = Tail(recv_notif)
  /\ UNCHANGED <<sender_vars, udp_tx, net, to_receiver, recv_posts, rr_queue,
                 msg_max_seq, recv_msgs, taken, bytes_received, stopped,
                 recv_completions>>

\* PollNotification, CONFIRM_STOP: complete the receive.
ConfirmStop ==
  /\ recv_notif # <<>>
  /\ Head(recv_notif).type = "CONFIRM_STOP"
  /\ LET m == Head(recv_notif).msg_id
     IN /\ m \in recv_msgs
        /\ recv_msgs' = recv_msgs \ {m}
        /\ recv_completions' = [recv_completions EXCEPT ![m] = @ + 1]
  /\ recv_notif' = Tail(recv_notif)
  /\ UNCHANGED <<sender_vars, udp_tx, net, to_receiver, to_sender, recv_posts,
                 rr_queue, msg_max_seq, block_size, taken, bytes_received, stopped>>

PollRecvNotification == FinishFlow \/ ConfirmStop

\* The thread's loop: a packet, the receive requests, the notifications.
ReceivingChannelRun == \/ \E p \in AllPackets : HandleReceive(p)
                       \/ PollReceiveRequest
                       \/ PollRecvNotification

-----------------------------------------------------------------------------
\* Both applications have got the completions of all their posts.
Quiescent == /\ posting = NoMsg
             /\ \A m \in MsgIds : /\ send_posts[m] = MaxPosts
                                  /\ send_completions[m] = MaxPosts
                                  /\ recv_completions[m] = MaxPosts
             /\ UNCHANGED vars

Next ==
  \/ \E m \in MsgIds : PostSend(m)
  \/ EnqueueSend
  \/ PopSendRequest
  \/ \E m \in MsgIds : PollSendingMessages(m)
  \/ \E m \in MsgIds : PollRetransmitRequest(m)
  \/ RequestRetransmit
  \/ StopFlow
  \/ \E m \in MsgIds : CompleteSend(m)
  \/ \E p \in AllPackets : OnSendReady(p)
  \/ \E p \in AllPackets : OnSendWouldBlock(p)
  \/ \E p \in AllPackets : Lose(p)
  \/ HandleReceivedData
  \/ \E m \in MsgIds : PostRecv(m)
  \/ ReceivingChannelRun
  \/ Quiescent

Spec == Init /\ [][Next]_vars

-----------------------------------------------------------------------------
(***************************************************************************)
(* Properties.                                                             *)
(***************************************************************************)
\* The signals and notifications about message m.
FlowStarts(m) == [type : {"kFlowStart"}, msg_id : {m}, max_seq_num : Seqs]
FlowFinishes(m) == [type : {"kFlowFinish"}, msg_id : {m}]
StopConfirms(m) == [type : {"kStopConfirm"}, msg_id : {m}]
FinishFlows(m) == [type : {"FINISH_FLOW"}, msg_id : {m}, max_seq_num : Seqs]
ConfirmStops(m) == [type : {"CONFIRM_STOP"}, msg_id : {m}]
RetransmitRequests(m) ==
  [type : {"kRetransmitRequest"}, msg_id : {m}, blocks : SUBSET Seqs]
StopRequests(m) == [type : {"kStopRequest"}, msg_id : {m}]
RequestRetransmits(m) ==
  [type : {"REQUEST_RETRANSMIT"}, msg_id : {m}, blocks : SUBSET Seqs]
StopFlows(m) == [type : {"STOP_FLOW"}, msg_id : {m}]

\* 1 when message m is where the sender's variable says.
Posting(m) == One(posting = m)
Sending(m) == One(m \in sending_msgs)
Resending(m) == One(retransmit_reqs[m] # {})

\* How many signals of m are under way.
nSend(m) == Count(sr_queue, {m})
nRecv(m) == Count(rr_queue, {m})
nFlowStart(m) == Count(to_receiver, FlowStarts(m))
nFlowFinish(m) == Count(to_receiver, FlowFinishes(m))
nStopConfirm(m) == Count(to_receiver, StopConfirms(m))
nFinishFlow(m) == Count(recv_notif, FinishFlows(m))
nConfirmStop(m) == Count(recv_notif, ConfirmStops(m))
nRetransmitRequest(m) == Count(to_sender, RetransmitRequests(m))
nStopRequest(m) == Count(to_sender, StopRequests(m))
nRequestRetransmit(m) == Count(prio_notif, RequestRetransmits(m))
nStopFlow(m) == Count(prio_notif, StopFlows(m))

(***************************************************************************)
(* In how many places the current round of message m is: its first         *)
(* transmission (about to be queued, queued, being sent), the FlowFinish   *)
(* that ends the round, and the RetransmitRequest that starts the next.    *)
(***************************************************************************)
Rounds(m) ==
  Posting(m) + nSend(m) + Sending(m) + nFlowFinish(m) + nFinishFlow(m)
    + nRetransmitRequest(m) + nRequestRetransmit(m) + Resending(m)

\* In how many places the stop handshake of message m is.
Stops(m) == nStopRequest(m) + nStopFlow(m) + nStopConfirm(m) + nConfirmStop(m)

(***************************************************************************)
(* No CHECK of the flow code aborts the process, whatever the network      *)
(* does: a send request finds no message under its id, a retransmit        *)
(* request finds the message it is for and is not empty, FlowFinish finds  *)
(* the flow announced, a receive request finds its slot free, StopConfirm  *)
(* finds the message being received, and no packet reaches past the        *)
(* buffer.                                                                 *)
(***************************************************************************)
NoCheckFails ==
  /\ sr_queue # <<>> => Head(sr_queue) \notin sending_msgs
  /\ \A m \in MsgIds : retransmit_reqs[m] # {} => m \in retransmitting_msgs
  /\ prio_notif # <<>> /\ Head(prio_notif).type = "REQUEST_RETRANSMIT"
       => Head(prio_notif).blocks # {}
  /\ to_receiver # <<>> /\ Head(to_receiver).type = "kFlowFinish"
       => msg_max_seq[Head(to_receiver).msg_id] # -1
  /\ rr_queue # <<>> => Head(rr_queue) \notin recv_msgs
  /\ recv_notif # <<>> /\ Head(recv_notif).type = "CONFIRM_STOP"
       => Head(recv_notif).msg_id \in recv_msgs
  /\ \A p \in net : p.offset + p.bytes <= Size[p.msg_id]

(***************************************************************************)
(* A message is never in two rounds at once, and is stopped once: no two   *)
(* FlowFinish, retransmit requests or StopRequests of it exist together,   *)
(* so packets are not asked for twice and no completion is duplicated.     *)
(***************************************************************************)
OneRoundAtATime == \A m \in MsgIds : Rounds(m) <= 1 /\ Stops(m) <= 1

(***************************************************************************)
(* A message that was posted, and whose receiver is not yet content, is    *)
(* always in some round (although FinishFlow returns without a request in  *)
(* two cases), and from the moment the receiver is content until it        *)
(* completes, the stop handshake is in progress: no message is stranded.   *)
(* The receiver must want at least one byte.                               *)
(***************************************************************************)
NeverStranded ==
  \A m \in MsgIds :
    /\ send_posts[m] > 0 /\ ~stopped[m] /\ Kept[m] > 0 => Rounds(m) > 0
    /\ stopped[m] /\ recv_completions[m] = 0 => Stops(m) > 0

(***************************************************************************)
(* When the receiver has completed, nothing of the message is left in any  *)
(* queue or table: a FlowFinish arriving later would be answered with a    *)
(* request for the whole message, which the sender has released.           *)
(***************************************************************************)
EndsClean ==
  \A m \in MsgIds :
    recv_completions[m] > 0 =>
      /\ Rounds(m) = 0 /\ Stops(m) = 0
      /\ m \notin retransmitting_msgs \cup recv_msgs
      /\ msg_max_seq[m] = -1

\* The bytes of the packets of message m with the given sequence numbers.
PayloadOf(m, seqs) ==
  Segment * Cardinality(seqs \ {MaxSeq(m)})
    + (IF MaxSeq(m) \in seqs THEN Size[m] - Segment * MaxSeq(m) ELSE 0)

(***************************************************************************)
(* bytes_received is the number of bytes of the distinct packets received, *)
(* duplicates and retransmissions included once, so a receive that         *)
(* completes has at least the bytes it asked for.                          *)
(***************************************************************************)
ReceivedBytesExact ==
  \A m \in MsgIds : bytes_received[m] = PayloadOf(m, taken[m])

(***************************************************************************)
(* Once a send has completed, no queued packet refers to its buffer.       *)
(***************************************************************************)
BufferReleased ==
  \A p \in udp_tx : send_completions[p.msg_id] < send_posts[p.msg_id]

(***************************************************************************)
(* What the two applications see of the flow is a loss-tolerant transfer:  *)
(* each post completes at most once, a send only after the receiver has    *)
(* the bytes it asked for, a receive only after its sender has forgotten   *)
(* the message, and no byte is counted beyond the message's size.  Which   *)
(* of the two completes first is open.  (Every id is used once.)           *)
(***************************************************************************)
SentState == [m \in MsgIds |-> IF send_completions[m] > 0 THEN "complete"
                               ELSE IF confirmed[m] > 0 THEN "stopped"
                               ELSE IF send_posts[m] > 0 THEN "posted" ELSE "idle"]

ReceivedState == [m \in MsgIds |-> IF recv_completions[m] > 0 THEN "complete"
                                   ELSE IF stopped[m] THEN "content"
                                   ELSE IF recv_posts[m] > 0 THEN "posted" ELSE "idle"]

Transfer == INSTANCE LossTolerantTransfer WITH sent <- SentState,
                                               received <- ReceivedState,
                                               bytes <- bytes_received

ImplementsTransfer == Transfer!Spec

(***************************************************************************)
(* Fairness.  Every thread keeps running its loop: weak fairness of each   *)
(* of its handlers.  The retransmission of a message that is not the least *)
(* one with a request is served whenever the lower requests are exhausted: *)
(* strong fairness, because a lower message whose receive is never posted  *)
(* is retransmitted for ever.  The socket and the network do not lose one  *)
(* and the same packet for ever: strong fairness of sending and receiving. *)
(***************************************************************************)
Fairness ==
  /\ WF_vars(EnqueueSend) /\ WF_vars(PopSendRequest)
  /\ WF_vars(RequestRetransmit) /\ WF_vars(StopFlow)
  /\ WF_vars(HandleRetransmitRequest) /\ WF_vars(HandleStopRequest)
  /\ WF_vars(HandleFlowStart) /\ WF_vars(HandleFlowFinish)
  /\ WF_vars(HandleStopConfirm)
  /\ WF_vars(PollReceiveRequest) /\ WF_vars(FinishFlow) /\ WF_vars(ConfirmStop)
  /\ \A m \in MsgIds : /\ WF_vars(CompleteSend(m)) /\ WF_vars(PollSendingMessages(m))
                       /\ SF_vars(PollRetransmitRequest(m))
  /\ \A p \in AllPackets : SF_vars(OnSendReady(p)) /\ SF_vars(HandleReceive(p))

FairSpec == Spec /\ Fairness

(***************************************************************************)
(* A message that both applications have posted completes on both sides,   *)
(* whatever is lost on the way and whatever other messages are posted, if  *)
(* the receiver wants at least one byte.                                   *)
(***************************************************************************)
EventuallyCompletes ==
  \A m \in MsgIds :
    (send_posts[m] > 0 /\ recv_posts[m] > 0 /\ Kept[m] > 0)
      ~> (send_completions[m] > 0 /\ recv_completions[m] > 0)

=============================================================================

-------------------------- MODULE MltFlowInvariant --------------------------
(***************************************************************************)
(* The inductive invariant of MltFlow, what a step of a queue does to the  *)
(* counters and the orders it speaks of, and that the invariant holds      *)
(* initially and after every step of the sending side, of the network and  *)
(* of the receiving side while it receives.                                *)
(*                                                                         *)
(* The invariant is mostly a set of conservation laws: what a message is at*)
(* the sender, what it is at the receiver, its round, its stop handshake and*)
(* its announcement are each in exactly one place, so every action moves a *)
(* unit from one counter to another.  The rest is the order in which signals*)
(* stand in the queues, and what the counters of bytes mean.               *)
(***************************************************************************)
EXTENDS MltFlow, TLAPS

(***************************************************************************)
(* The packets of a message tile it: proved for every segment size and     *)
(* every message size.                                                     *)
(***************************************************************************)
\* What integer division returns.
LEMMA DivBounds ==
  ASSUME NEW a \in Nat, NEW b \in Nat \ {0}
  PROVE  /\ a \div b \in Nat
         /\ b * (a \div b) <= a
         /\ a < b * (a \div b) + b
  OBVIOUS

\* Multiplication by a positive number is monotone.
LEMMA MulMonotone ==
  ASSUME NEW b \in Nat \ {0}, NEW i \in Int, NEW j \in Int
  PROVE  /\ i <= j => b * i <= b * j
         /\ b * i < b * j => i < j
         /\ b * (i + 1) = b * i + b
         /\ b * i \in Int
  OBVIOUS

\* GetMaxSeqNum is the number of the packet that holds the last byte.
LEMMA MaxSeqBounds ==
  ASSUME NEW size \in Nat \ {0}
  PROVE  /\ GetMaxSeqNum(size) \in Nat
         /\ Segment * GetMaxSeqNum(size) < size
         /\ size <= Segment * GetMaxSeqNum(size) + Segment
<1> DEFINE q == (size + Segment - 1) \div Segment
<1>1. Segment \in Nat \ {0}
  BY SegmentAssumption, Zenon
<1>2. /\ q \in Nat
      /\ Segment * q <= size + Segment - 1
      /\ size + Segment - 1 < Segment * q + Segment
  BY <1>1, DivBounds
<1>3. q # 0
  BY <1>1, <1>2
<1>4. Segment * q = Segment * (q - 1) + Segment
  BY <1>1, <1>2, MulMonotone
<1>5. Segment * (q - 1) \in Int
  BY <1>1, <1>2, MulMonotone
<1> HIDE DEF q
<1>6. GetMaxSeqNum(size) = q - 1
  BY Zenon DEF GetMaxSeqNum, q
<1> QED
  BY <1>1, <1>2, <1>3, <1>4, <1>5, <1>6

\* A full segment for every packet but the last, which carries the rest; the
\* packet stays inside the message, and only the last one ends it.
LEMMA PacketBySeq ==
  ASSUME NEW size \in Nat \ {0}, NEW k \in 0 .. GetMaxSeqNum(size)
  PROVE  LET pkt == PartitionOneBySeq(size, k)
             n   == GetMaxSeqNum(size)
         IN /\ pkt.seq = k /\ pkt.offset = Segment * k /\ pkt.offset \in Nat
            /\ pkt.bytes = IF k = n THEN size - Segment * n ELSE Segment
            /\ pkt.bytes \in Nat \ {0}
            /\ pkt.offset + pkt.bytes <= size
            /\ IsLast(size, pkt) <=> k = n
            /\ k # n => pkt.offset + pkt.bytes = Segment * (k + 1)
<1> DEFINE n == GetMaxSeqNum(size)
           pkt == PartitionOneBySeq(size, k)
<1>1. /\ Segment \in Nat \ {0}
      /\ n \in Nat /\ k \in Nat /\ k <= n
      /\ Segment * n < size /\ size <= Segment * n + Segment
  BY SegmentAssumption, MaxSeqBounds
<1>2. /\ Segment * k \in Nat /\ Segment * n \in Nat
      /\ Segment * (k + 1) = Segment * k + Segment
      /\ k # n => Segment * (k + 1) <= Segment * n
  BY <1>1, MulMonotone
<1>3. /\ pkt.seq = k
      /\ pkt.offset = Segment * k
      /\ pkt.bytes = PayloadAt(size, Segment * k)
  BY Zenon DEF PartitionOneBySeq
<1> HIDE DEF n, pkt
<1>4. CASE k = n
  <2>1. PayloadAt(size, Segment * k) = size - Segment * n
    BY <1>1, <1>2, <1>4 DEF PayloadAt
  <2> QED
    BY <1>1, <1>2, <1>3, <1>4, <2>1 DEF IsLast, n, pkt
<1>5. CASE k # n
  <2>1. Segment * k + Segment < size
    BY <1>1, <1>2, <1>5
  <2>2. PayloadAt(size, Segment * k) = Segment
    BY <1>1, <1>2, <2>1 DEF PayloadAt
  <2> QED
    BY <1>1, <1>2, <1>3, <1>5, <2>1, <2>2 DEF IsLast, n, pkt
<1> QED
  BY <1>4, <1>5, Zenon

\* The first transmission cuts the same packets as the retransmission: a cursor
\* that stands at a multiple of the segment yields the packet of that number.
THEOREM CursorAgreesWithSeq ==
  ASSUME NEW size \in Nat \ {0}, NEW k \in 0 .. GetMaxSeqNum(size)
  PROVE  PartitionOne(size, Segment * k) = PartitionOneBySeq(size, k)
<1>1. Segment \in Nat \ {0} /\ k \in Nat /\ Segment * k \in Nat
  BY SegmentAssumption, MaxSeqBounds, MulMonotone
<1> DEFINE q == (Segment * k) \div Segment
<1>2. q \in Nat /\ Segment * q <= Segment * k /\ Segment * k < Segment * q + Segment
  BY <1>1, DivBounds, Zenon
<1>3. q = k
  <2> HIDE DEF q
  <2>1. Segment * k < Segment * (q + 1)
    BY <1>1, <1>2, MulMonotone
  <2>2. k < q + 1
    BY <1>1, <1>2, <2>1, MulMonotone
  <2>3. ~(k < q)
    <3> SUFFICES ASSUME k < q PROVE FALSE
      BY Zenon
    <3>1. Segment * (k + 1) <= Segment * q /\ Segment * (k + 1) = Segment * k + Segment
      BY <1>1, <1>2, MulMonotone
    <3> QED
      BY <1>1, <1>2, <3>1
  <2> QED
    BY <1>1, <1>2, <2>2, <2>3
<1> QED
  BY <1>3, Zenon DEF PartitionOne, PartitionOneBySeq

-----------------------------------------------------------------------------
\* 1 when message m is in the sender's or the receiver's table.
Keeping(m) == One(m \in retransmitting_msgs)
Announced(m) == One(msg_max_seq[m] # -1)
Receiving(m) == One(m \in recv_msgs)
Stopped(m) == One(stopped[m])

(***************************************************************************)
(* The conservation laws, over the numbers of one message: its posts and   *)
(* completions (sp, sc at the sender, rp, rc at the receiver), where it is *)
(* at the sender (po, qs, se, ke) and at the receiver (qr, rv), its        *)
(* announcement (fs, an), its round (also ff, nf, rr, rn, re), its stop    *)
(* handshake (st; sr, sf, cf, cs), and the bytes wanted (w).               *)
(***************************************************************************)
Laws(sp, sc, rp, rc, po, qs, se, ke, qr, rv, fs, an,
     ff, nf, rr, rn, re, st, sr, sf, cf, cs, w) ==
  /\ sp \in Nat /\ sc \in Nat /\ rp \in Nat /\ rc \in Nat /\ po \in Nat /\ qs \in Nat /\ se \in Nat /\ ke \in Nat
  /\ qr \in Nat /\ rv \in Nat /\ fs \in Nat /\ an \in Nat /\ ff \in Nat /\ nf \in Nat /\ rr \in Nat /\ rn \in Nat
  /\ re \in Nat /\ st \in Nat /\ sr \in Nat /\ sf \in Nat /\ cf \in Nat /\ cs \in Nat /\ w \in Nat
  \* posted once, and then in one place
  /\ sp <= 1 /\ sp = po + qs + se + ke + sc
  /\ rp <= 1 /\ rp = qr + rv + rc
  /\ sp = fs + an + cs + rc
  \* one stop handshake, which completes the send on its way
  /\ st <= 1 /\ st = sr + sf + sc
  /\ sc = cf + cs + rc
  \* at most one round, and exactly one until the receiver is content
  /\ po + qs + se + ff + nf + rr + rn + re <= sp
  /\ sp > 0 /\ st = 0 /\ w > 0 => po + qs + se + ff + nf + rr + rn + re > 0
  \* a stage that the stop has passed has no round behind it
  /\ sf > 0 => rr = 0
  /\ sc > 0 => rr = 0 /\ rn = 0 /\ re = 0
  /\ cs > 0 => ff = 0
  /\ rc > 0 => ff = 0 /\ nf = 0

LawsOf(m) ==
  Laws(send_posts[m], confirmed[m], recv_posts[m], recv_completions[m],
       Posting(m), nSend(m), Sending(m), Keeping(m), nRecv(m), Receiving(m),
       nFlowStart(m), Announced(m), nFlowFinish(m), nFinishFlow(m),
       nRetransmitRequest(m), nRequestRetransmit(m), Resending(m), Stopped(m),
       nStopRequest(m), nStopFlow(m), nStopConfirm(m), nConfirmStop(m), Kept[m])

\* The signals of m stand in the queues in the order in which they matter.
OrderedToReceiver(m) ==
  /\ Precedes(to_receiver, FlowStarts(m), FlowFinishes(m))
  /\ Precedes(to_receiver, FlowStarts(m), StopConfirms(m))
  /\ Precedes(to_receiver, FlowFinishes(m), StopConfirms(m))

OrderedRecvNotif(m) == Precedes(recv_notif, FinishFlows(m), ConfirmStops(m))

OrderedToSender(m) == Precedes(to_sender, RetransmitRequests(m), StopRequests(m))

OrderedPrioNotif(m) == Precedes(prio_notif, RequestRetransmits(m), StopFlows(m))

Ordered(m) == /\ OrderedToReceiver(m) /\ OrderedRecvNotif(m)
              /\ OrderedToSender(m) /\ OrderedPrioNotif(m)

\* A packet of m exists only after m has left the application's hands.
OnTheWay(m) == taken[m] # {} \/ \E p \in udp_tx \cup net : p.msg_id = m

Flying(m) == OnTheWay(m) => send_posts[m] = 1 /\ Posting(m) = 0 /\ nSend(m) = 0

\* The bytes of the distinct packets received.
BytesOf(m) == bytes_received[m] = PayloadOf(m, taken[m])

Received(m) ==
  /\ taken[m] # {} => Receiving(m) = 1 \/ recv_completions[m] > 0
  /\ taken[m] \subseteq 0 .. MaxSeq(m)
  /\ block_size[m] <= MaxSeq(m) + 1
  /\ BytesOf(m)
  /\ stopped[m] => taken[m] # {} /\ bytes_received[m] >= Bound(m)
  /\ ~stopped[m] /\ taken[m] # {} => bytes_received[m] < Bound(m)

Sent(m) ==
  /\ m \in sending_msgs => \E i \in 0 .. MaxSeq(m) : bytes_sent[m] = Segment * i
  /\ retransmit_reqs[m] \subseteq 0 .. MaxSeq(m)
  /\ msg_max_seq[m] \in {-1, MaxSeq(m)}

\* Signals carry what their sender computed: FlowStart and FINISH_FLOW the last
\* sequence number, a retransmit request some packets of its message.
Announcements ==
  {e \in ToReceiver : e.type = "kFlowStart" => e.max_seq_num = MaxSeq(e.msg_id)}

Finishes ==
  {e \in RecvNotification :
     e.type = "FINISH_FLOW" => e.max_seq_num = MaxSeq(e.msg_id)}

Requests ==
  {e \in ToSender : e.type = "kRetransmitRequest"
                      => e.blocks # {} /\ e.blocks \subseteq 0 .. MaxSeq(e.msg_id)}

Orders ==
  {e \in PrioNotification :
     e.type = "REQUEST_RETRANSMIT"
       => e.blocks # {} /\ e.blocks \subseteq 0 .. MaxSeq(e.msg_id)}

Contents == /\ to_receiver \in Seq(Announcements)
            /\ recv_notif \in Seq(Finishes)
            /\ to_sender \in Seq(Requests)
            /\ prio_notif \in Seq(Orders)

Good(m) == LawsOf(m) /\ Ordered(m) /\ Flying(m) /\ Received(m) /\ Sent(m)

IInv == TypeOK /\ Contents /\ \A m \in MsgIds : Good(m)

-----------------------------------------------------------------------------
\* Counting and ordering the elements of a queue.  CountingFacts is what
\* MltFlowProofs proves of Count; as a hypothesis it keeps the theory of finite
\* sets, which makes every proof slow, out of this module and its users.

\* Pop and push keep what a queue holds.
LEMMA QueueTypes ==
  ASSUME NEW S, NEW q \in Seq(S)
  PROVE  /\ q # <<>> => Tail(q) \in Seq(S)
         /\ \A e \in S : Append(q, e) \in Seq(S)
  OBVIOUS

\* What a queue's head is.
LEMMA HeadType ==
  ASSUME NEW S, NEW q \in Seq(S), q # <<>>
  PROVE  Head(q) \in S
  OBVIOUS

\* A counter that nothing enters or leaves, and one that something leaves.
LEMMA CounterSteps ==
  \A n \in Nat : n + 0 = n /\ n - 0 = n /\ (n - 1 \in Nat => n >= 1)
  OBVIOUS

\* A counter that something enters.
LEMMA CounterGrows ==
  \A n \in Nat : n + 1 \in Nat
  OBVIOUS

\* A count is a natural number, and zero when no element is in E.
LEMMA CountNat ==
  ASSUME CountingFacts, NEW S, NEW q \in Seq(S), NEW E
  PROVE  /\ Count(q, E) \in Nat
         /\ Count(q, E) = 0 <=> \A i \in 1 .. Len(q) : q[i] \notin E
  BY Zenon DEF CountingFacts, CountIsNat

\* Appending an element adds it to the count of the sets it is in.
LEMMA CountAppend ==
  ASSUME CountingFacts, NEW S, NEW q \in Seq(S), NEW e \in S, NEW E
  PROVE  Count(Append(q, e), E) = Count(q, E) + One(e \in E)
  BY Zenon DEF CountingFacts, CountOfAppend

\* Removing the head takes it from the count of the sets it is in.
LEMMA CountTail ==
  ASSUME CountingFacts, NEW S, NEW q \in Seq(S), q # <<>>, NEW E
  PROVE  Count(Tail(q), E) = Count(q, E) - One(Head(q) \in E)
  BY Zenon DEF CountingFacts, CountOfTail

\* The packets of a message below sequence number n: how many a set of them
\* has, and what one more adds.
LEMMA SomePackets ==
  ASSUME CountingFacts, NEW n \in Int, NEW T, T \subseteq 0 .. n
  PROVE  /\ Cardinality(T) \in Nat
         /\ n >= -1 => Cardinality(T) <= n + 1
         /\ \A i : i \notin T => Cardinality(T \cup {i}) = Cardinality(T) + 1
  BY Zenon DEF CountingFacts, SizeOfSubset

\* No packet, and all packets below sequence number n.
LEMMA NoneOrAllPackets ==
  ASSUME CountingFacts
  PROVE  /\ Cardinality({}) = 0
         /\ \A n \in Nat : Cardinality(0 .. (n - 1)) = n
  BY Zenon DEF CountingFacts, SizeOfInterval

\* An order between two kinds of elements survives appending an element of
\* neither kind, one of the later kind, or one of the earlier kind when there
\* is none of the later.
LEMMA PrecedesAppend ==
  ASSUME CountingFacts, NEW S, NEW q \in Seq(S), NEW e \in S, NEW E, NEW F,
         Precedes(q, E, F),
         e \notin E \/ (e \notin F /\ Count(q, F) = 0)
  PROVE  Precedes(Append(q, e), E, F)
<1>1. Count(q, F) = 0 => \A i \in 1 .. Len(q) : q[i] \notin F
  BY CountNat, Zenon
<1> QED
  BY <1>1 DEF Precedes

\* Removing the head keeps every order.
LEMMA PrecedesTail ==
  ASSUME NEW S, NEW q \in Seq(S), q # <<>>, NEW E, NEW F, Precedes(q, E, F)
  PROVE  Precedes(Tail(q), E, F)
<1>1. Len(Tail(q)) = Len(q) - 1 /\ Len(q) \in Nat
  OBVIOUS
<1>2. \A i \in 1 .. Len(Tail(q)) : Tail(q)[i] = q[i + 1] /\ i + 1 \in 1 .. Len(q)
  BY <1>1
<1> QED
  BY <1>1, <1>2 DEF Precedes

\* When an element of the later kind is at the head, none of the earlier is left.
LEMMA PrecedesHead ==
  ASSUME CountingFacts, NEW S, NEW q \in Seq(S), q # <<>>, NEW E, NEW F,
         Precedes(q, E, F), Head(q) \in F
  PROVE  Count(q, E) = 0
<1>1. 1 \in 1 .. Len(q) /\ Head(q) = q[1]
  BY SMTT(30)
<1>2. \A i \in 1 .. Len(q) : q[i] \notin E
  BY <1>1 DEF Precedes
<1> QED
  BY <1>2, CountNat, Zenon

\* The head is counted.
LEMMA HeadCounts ==
  ASSUME CountingFacts, NEW S, NEW q \in Seq(S), q # <<>>, NEW E, Head(q) \in E
  PROVE  Count(q, E) >= 1
<1>1. 1 \in 1 .. Len(q) /\ Head(q) = q[1]
  OBVIOUS
<1>2. Count(q, E) # 0 /\ Count(q, E) \in Nat
  BY <1>1, CountNat
<1> QED
  BY <1>2

\* An empty queue counts nothing and is ordered.
LEMMA EmptyQueue ==
  ASSUME CountingFacts, NEW E, NEW F
  PROVE  Count(<<>>, E) = 0 /\ Precedes(<<>>, E, F)
<1>1. 1 .. Len(<<>>) = {}
  OBVIOUS
<1>2. {i \in 1 .. Len(<<>>) : <<>>[i] \in E} = {}
  BY <1>1, Zenon
<1>3. Count(<<>>, E) = 0
  BY <1>2, NoneOrAllPackets, Zenon DEF Count
<1>4. Precedes(<<>>, E, F)
  BY <1>1, Zenon DEF Precedes
<1> QED
  BY <1>3, <1>4, Zenon

-----------------------------------------------------------------------------
\* What a step does to the counters of the queues.

\* e is of the given type and about message m.
Is(e, type, m) == e.type = type /\ e.msg_id = m

\* Which of the sets a signal or notification is in.
LEMMA SignalKinds ==
  ASSUME NEW m \in MsgIds
  PROVE  /\ \A e \in ToReceiver : /\ e \in FlowStarts(m) <=> Is(e, "kFlowStart", m)
                                  /\ e \in FlowFinishes(m) <=> Is(e, "kFlowFinish", m)
                                  /\ e \in StopConfirms(m) <=> Is(e, "kStopConfirm", m)
         /\ \A e \in RecvNotification :
              /\ e \in FinishFlows(m) <=> Is(e, "FINISH_FLOW", m)
              /\ e \in ConfirmStops(m) <=> Is(e, "CONFIRM_STOP", m)
         /\ \A e \in ToSender :
              /\ e \in RetransmitRequests(m) <=> Is(e, "kRetransmitRequest", m)
              /\ e \in StopRequests(m) <=> Is(e, "kStopRequest", m)
         /\ \A e \in PrioNotification :
              /\ e \in RequestRetransmits(m) <=> Is(e, "REQUEST_RETRANSMIT", m)
              /\ e \in StopFlows(m) <=> Is(e, "STOP_FLOW", m)
<1>1. \A e \in ToReceiver : /\ e \in FlowStarts(m) <=> Is(e, "kFlowStart", m)
                            /\ e \in FlowFinishes(m) <=> Is(e, "kFlowFinish", m)
                            /\ e \in StopConfirms(m) <=> Is(e, "kStopConfirm", m)
  BY Zenon DEF ToReceiver, FlowStarts, FlowFinishes, StopConfirms, Is
<1>2. \A e \in RecvNotification : /\ e \in FinishFlows(m) <=> Is(e, "FINISH_FLOW", m)
                                  /\ e \in ConfirmStops(m) <=> Is(e, "CONFIRM_STOP", m)
  BY Zenon DEF RecvNotification, FinishFlows, ConfirmStops, Is
<1>3. \A e \in ToSender : /\ e \in RetransmitRequests(m) <=> Is(e, "kRetransmitRequest", m)
                          /\ e \in StopRequests(m) <=> Is(e, "kStopRequest", m)
  BY Zenon DEF ToSender, RetransmitRequests, StopRequests, Is
<1>4. \A e \in PrioNotification :
        /\ e \in RequestRetransmits(m) <=> Is(e, "REQUEST_RETRANSMIT", m)
        /\ e \in StopFlows(m) <=> Is(e, "STOP_FLOW", m)
  BY Zenon DEF PrioNotification, RequestRetransmits, StopFlows, Is
<1> QED
  BY <1>1, <1>2, <1>3, <1>4, Zenon

\* Appending to the signals to the receiver.
LEMMA ToReceiverAppend ==
  ASSUME CountingFacts, TypeOK, NEW m \in MsgIds, NEW e \in ToReceiver, to_receiver' = Append(to_receiver, e)
  PROVE  /\ nFlowStart(m)' = nFlowStart(m) + One(Is(e, "kFlowStart", m))
         /\ nFlowFinish(m)' = nFlowFinish(m) + One(Is(e, "kFlowFinish", m))
         /\ nStopConfirm(m)' = nStopConfirm(m) + One(Is(e, "kStopConfirm", m))
         /\ nFlowStart(m)' \in Nat
         /\ nFlowFinish(m)' \in Nat
         /\ nStopConfirm(m)' \in Nat
         /\ ( /\ OrderedToReceiver(m)
              /\ Is(e, "kFlowStart", m) => nFlowFinish(m) = 0
              /\ Is(e, "kFlowStart", m) => nStopConfirm(m) = 0
              /\ Is(e, "kFlowFinish", m) => nStopConfirm(m) = 0 ) => OrderedToReceiver(m)'
<1>1. to_receiver \in Seq(ToReceiver)
  BY Zenon DEF TypeOK
<1>2. nFlowStart(m)' = nFlowStart(m) + One(Is(e, "kFlowStart", m))
  <2>1. nFlowStart(m)' = Count(Append(to_receiver, e), FlowStarts(m))
    BY Zenon DEF nFlowStart, FlowStarts, Seqs
  <2>2. @ = nFlowStart(m) + One(e \in FlowStarts(m))
    BY <1>1, CountAppend, Zenon DEF nFlowStart
  <2>3. e \in FlowStarts(m) <=> Is(e, "kFlowStart", m)
    BY SignalKinds, Zenon
  <2> QED
    BY <2>1, <2>2, <2>3, Zenon DEF One
<1>3. nFlowFinish(m)' = nFlowFinish(m) + One(Is(e, "kFlowFinish", m))
  <2>1. nFlowFinish(m)' = Count(Append(to_receiver, e), FlowFinishes(m))
    BY Zenon DEF nFlowFinish, FlowFinishes, Seqs
  <2>2. @ = nFlowFinish(m) + One(e \in FlowFinishes(m))
    BY <1>1, CountAppend, Zenon DEF nFlowFinish
  <2>3. e \in FlowFinishes(m) <=> Is(e, "kFlowFinish", m)
    BY SignalKinds, Zenon
  <2> QED
    BY <2>1, <2>2, <2>3, Zenon DEF One
<1>4. nStopConfirm(m)' = nStopConfirm(m) + One(Is(e, "kStopConfirm", m))
  <2>1. nStopConfirm(m)' = Count(Append(to_receiver, e), StopConfirms(m))
    BY Zenon DEF nStopConfirm, StopConfirms, Seqs
  <2>2. @ = nStopConfirm(m) + One(e \in StopConfirms(m))
    BY <1>1, CountAppend, Zenon DEF nStopConfirm
  <2>3. e \in StopConfirms(m) <=> Is(e, "kStopConfirm", m)
    BY SignalKinds, Zenon
  <2> QED
    BY <2>1, <2>2, <2>3, Zenon DEF One
<1>5. ASSUME OrderedToReceiver(m),
            Is(e, "kFlowStart", m) => nFlowFinish(m) = 0,
            Is(e, "kFlowStart", m) => nStopConfirm(m) = 0,
            Is(e, "kFlowFinish", m) => nStopConfirm(m) = 0
      PROVE  OrderedToReceiver(m)'
  <2>1. Precedes(Append(to_receiver, e), FlowStarts(m), FlowFinishes(m))
    <3>1. /\ e \in FlowStarts(m) <=> Is(e, "kFlowStart", m)
          /\ e \in FlowFinishes(m) <=> Is(e, "kFlowFinish", m)
      BY SignalKinds, Zenon
    <3>2. ~(Is(e, "kFlowStart", m) /\ Is(e, "kFlowFinish", m))
      BY Zenon DEF Is
    <3>3. Precedes(to_receiver, FlowStarts(m), FlowFinishes(m))
      BY <1>5, Zenon DEF OrderedToReceiver
    <3>4. e \notin FlowStarts(m) \/ (e \notin FlowFinishes(m) /\ Count(to_receiver, FlowFinishes(m)) = 0)
      BY <1>5, <3>1, <3>2, Zenon DEF nFlowFinish
    <3> QED
      BY <1>1, <3>3, <3>4, PrecedesAppend, Zenon
  <2>2. Precedes(Append(to_receiver, e), FlowStarts(m), StopConfirms(m))
    <3>1. /\ e \in FlowStarts(m) <=> Is(e, "kFlowStart", m)
          /\ e \in StopConfirms(m) <=> Is(e, "kStopConfirm", m)
      BY SignalKinds, Zenon
    <3>2. ~(Is(e, "kFlowStart", m) /\ Is(e, "kStopConfirm", m))
      BY Zenon DEF Is
    <3>3. Precedes(to_receiver, FlowStarts(m), StopConfirms(m))
      BY <1>5, Zenon DEF OrderedToReceiver
    <3>4. e \notin FlowStarts(m) \/ (e \notin StopConfirms(m) /\ Count(to_receiver, StopConfirms(m)) = 0)
      BY <1>5, <3>1, <3>2, Zenon DEF nStopConfirm
    <3> QED
      BY <1>1, <3>3, <3>4, PrecedesAppend, Zenon
  <2>3. Precedes(Append(to_receiver, e), FlowFinishes(m), StopConfirms(m))
    <3>1. /\ e \in FlowFinishes(m) <=> Is(e, "kFlowFinish", m)
          /\ e \in StopConfirms(m) <=> Is(e, "kStopConfirm", m)
      BY SignalKinds, Zenon
    <3>2. ~(Is(e, "kFlowFinish", m) /\ Is(e, "kStopConfirm", m))
      BY Zenon DEF Is
    <3>3. Precedes(to_receiver, FlowFinishes(m), StopConfirms(m))
      BY <1>5, Zenon DEF OrderedToReceiver
    <3>4. e \notin FlowFinishes(m) \/ (e \notin StopConfirms(m) /\ Count(to_receiver, StopConfirms(m)) = 0)
      BY <1>5, <3>1, <3>2, Zenon DEF nStopConfirm
    <3> QED
      BY <1>1, <3>3, <3>4, PrecedesAppend, Zenon
  <2> QED
    BY <2>1, <2>2, <2>3, Zenon DEF OrderedToReceiver, FlowStarts, FlowFinishes, StopConfirms, Seqs
<1>6. Append(to_receiver, e) \in Seq(ToReceiver)
  BY <1>1
<1>7. nFlowStart(m)' \in Nat /\ nFlowFinish(m)' \in Nat /\ nStopConfirm(m)' \in Nat
  BY <1>6, CountNat, Zenon DEF nFlowStart, nFlowFinish, nStopConfirm
<1> QED
  BY <1>2, <1>3, <1>4, <1>5, <1>6, <1>7, Zenon

\* Taking the head of the signals to the receiver.
LEMMA ToReceiverTail ==
  ASSUME CountingFacts, TypeOK, NEW m \in MsgIds, to_receiver # <<>>, to_receiver' = Tail(to_receiver)
  PROVE  /\ Head(to_receiver) \in ToReceiver
         /\ nFlowStart(m)' = nFlowStart(m) - One(Is(Head(to_receiver), "kFlowStart", m))
         /\ nFlowFinish(m)' = nFlowFinish(m) - One(Is(Head(to_receiver), "kFlowFinish", m))
         /\ nStopConfirm(m)' = nStopConfirm(m) - One(Is(Head(to_receiver), "kStopConfirm", m))
         /\ nFlowStart(m)' \in Nat
         /\ nFlowFinish(m)' \in Nat
         /\ nStopConfirm(m)' \in Nat
         /\ OrderedToReceiver(m) => OrderedToReceiver(m)'
         /\ OrderedToReceiver(m) /\ Is(Head(to_receiver), "kFlowFinish", m) => nFlowStart(m) = 0
         /\ OrderedToReceiver(m) /\ Is(Head(to_receiver), "kStopConfirm", m) => nFlowStart(m) = 0
         /\ OrderedToReceiver(m) /\ Is(Head(to_receiver), "kStopConfirm", m) => nFlowFinish(m) = 0
<1>1. to_receiver \in Seq(ToReceiver) /\ Head(to_receiver) \in ToReceiver
  BY HeadType, Zenon DEF TypeOK
<1>2. nFlowStart(m)' = nFlowStart(m) - One(Is(Head(to_receiver), "kFlowStart", m))
  <2>1. nFlowStart(m)' = Count(Tail(to_receiver), FlowStarts(m))
    BY Zenon DEF nFlowStart, FlowStarts, Seqs
  <2>2. @ = nFlowStart(m) - One(Head(to_receiver) \in FlowStarts(m))
    BY <1>1, CountTail, Zenon DEF nFlowStart
  <2>3. Head(to_receiver) \in FlowStarts(m) <=> Is(Head(to_receiver), "kFlowStart", m)
    BY <1>1, SignalKinds, Zenon
  <2> QED
    BY <2>1, <2>2, <2>3, Zenon DEF One
<1>3. nFlowFinish(m)' = nFlowFinish(m) - One(Is(Head(to_receiver), "kFlowFinish", m))
  <2>1. nFlowFinish(m)' = Count(Tail(to_receiver), FlowFinishes(m))
    BY Zenon DEF nFlowFinish, FlowFinishes, Seqs
  <2>2. @ = nFlowFinish(m) - One(Head(to_receiver) \in FlowFinishes(m))
    BY <1>1, CountTail, Zenon DEF nFlowFinish
  <2>3. Head(to_receiver) \in FlowFinishes(m) <=> Is(Head(to_receiver), "kFlowFinish", m)
    BY <1>1, SignalKinds, Zenon
  <2> QED
    BY <2>1, <2>2, <2>3, Zenon DEF One
<1>4. nStopConfirm(m)' = nStopConfirm(m) - One(Is(Head(to_receiver), "kStopConfirm", m))
  <2>1. nStopConfirm(m)' = Count(Tail(to_receiver), StopConfirms(m))
    BY Zenon DEF nStopConfirm, StopConfirms, Seqs
  <2>2. @ = nStopConfirm(m) - One(Head(to_receiver) \in StopConfirms(m))
    BY <1>1, CountTail, Zenon DEF nStopConfirm
  <2>3. Head(to_receiver) \in StopConfirms(m) <=> Is(Head(to_receiver), "kStopConfirm", m)
    BY <1>1, SignalKinds, Zenon
  <2> QED
    BY <2>1, <2>2, <2>3, Zenon DEF One
<1>5. ASSUME OrderedToReceiver(m) PROVE OrderedToReceiver(m)'
  BY <1>1, <1>5, PrecedesTail, Zenon DEF OrderedToReceiver, FlowStarts, FlowFinishes, StopConfirms,
     Seqs
<1>6. ASSUME OrderedToReceiver(m), Is(Head(to_receiver), "kFlowFinish", m) PROVE nFlowStart(m) = 0
  <2>1. Head(to_receiver) \in FlowFinishes(m)
    BY <1>1, <1>6, SignalKinds, Zenon
  <2>2. Precedes(to_receiver, FlowStarts(m), FlowFinishes(m))
    BY <1>6, Zenon DEF OrderedToReceiver
  <2> QED
    BY <1>1, <2>1, <2>2, PrecedesHead, Zenon DEF nFlowStart
<1>7. ASSUME OrderedToReceiver(m), Is(Head(to_receiver), "kStopConfirm", m) PROVE nFlowStart(m) = 0
  <2>1. Head(to_receiver) \in StopConfirms(m)
    BY <1>1, <1>7, SignalKinds, Zenon
  <2>2. Precedes(to_receiver, FlowStarts(m), StopConfirms(m))
    BY <1>7, Zenon DEF OrderedToReceiver
  <2> QED
    BY <1>1, <2>1, <2>2, PrecedesHead, Zenon DEF nFlowStart
<1>8. ASSUME OrderedToReceiver(m), Is(Head(to_receiver), "kStopConfirm", m) PROVE nFlowFinish(m) = 0
  <2>1. Head(to_receiver) \in StopConfirms(m)
    BY <1>1, <1>8, SignalKinds, Zenon
  <2>2. Precedes(to_receiver, FlowFinishes(m), StopConfirms(m))
    BY <1>8, Zenon DEF OrderedToReceiver
  <2> QED
    BY <1>1, <2>1, <2>2, PrecedesHead, Zenon DEF nFlowFinish
<1>9. Tail(to_receiver) \in Seq(ToReceiver)
  BY <1>1
<1>10. nFlowStart(m)' \in Nat /\ nFlowFinish(m)' \in Nat /\ nStopConfirm(m)' \in Nat
  BY <1>9, CountNat, Zenon DEF nFlowStart, nFlowFinish, nStopConfirm
<1> QED
  BY <1>1, <1>2, <1>3, <1>4, <1>5, <1>6, <1>7, <1>8, <1>9, <1>10, Zenon

\* A step that leaves what is on the way to the receiver alone.
LEMMA ToReceiverSame ==
  ASSUME UNCHANGED to_receiver, NEW m \in MsgIds
  PROVE  /\ nFlowStart(m)' = nFlowStart(m)
         /\ nFlowFinish(m)' = nFlowFinish(m)
         /\ nStopConfirm(m)' = nStopConfirm(m)
         /\ OrderedToReceiver(m)' = OrderedToReceiver(m)
  BY Zenon DEF nFlowStart, nFlowFinish, nStopConfirm, OrderedToReceiver, FlowStarts, FlowFinishes,
     StopConfirms, Seqs

\* Appending to the receiving channel's notifications.
LEMMA RecvNotifAppend ==
  ASSUME CountingFacts, TypeOK, NEW m \in MsgIds, NEW e \in RecvNotification, recv_notif' = Append(recv_notif, e)
  PROVE  /\ nFinishFlow(m)' = nFinishFlow(m) + One(Is(e, "FINISH_FLOW", m))
         /\ nConfirmStop(m)' = nConfirmStop(m) + One(Is(e, "CONFIRM_STOP", m))
         /\ nFinishFlow(m)' \in Nat
         /\ nConfirmStop(m)' \in Nat
         /\ ( /\ OrderedRecvNotif(m)
              /\ Is(e, "FINISH_FLOW", m) => nConfirmStop(m) = 0 ) => OrderedRecvNotif(m)'
<1>1. recv_notif \in Seq(RecvNotification)
  BY Zenon DEF TypeOK
<1>2. nFinishFlow(m)' = nFinishFlow(m) + One(Is(e, "FINISH_FLOW", m))
  <2>1. nFinishFlow(m)' = Count(Append(recv_notif, e), FinishFlows(m))
    BY Zenon DEF nFinishFlow, FinishFlows, Seqs
  <2>2. @ = nFinishFlow(m) + One(e \in FinishFlows(m))
    BY <1>1, CountAppend, Zenon DEF nFinishFlow
  <2>3. e \in FinishFlows(m) <=> Is(e, "FINISH_FLOW", m)
    BY SignalKinds, Zenon
  <2> QED
    BY <2>1, <2>2, <2>3, Zenon DEF One
<1>3. nConfirmStop(m)' = nConfirmStop(m) + One(Is(e, "CONFIRM_STOP", m))
  <2>1. nConfirmStop(m)' = Count(Append(recv_notif, e), ConfirmStops(m))
    BY Zenon DEF nConfirmStop, ConfirmStops, Seqs
  <2>2. @ = nConfirmStop(m) + One(e \in ConfirmStops(m))
    BY <1>1, CountAppend, Zenon DEF nConfirmStop
  <2>3. e \in ConfirmStops(m) <=> Is(e, "CONFIRM_STOP", m)
    BY SignalKinds, Zenon
  <2> QED
    BY <2>1, <2>2, <2>3, Zenon DEF One
<1>4. ASSUME OrderedRecvNotif(m),
            Is(e, "FINISH_FLOW", m) => nConfirmStop(m) = 0
      PROVE  OrderedRecvNotif(m)'
  <2>1. Precedes(Append(recv_notif, e), FinishFlows(m), ConfirmStops(m))
    <3>1. /\ e \in FinishFlows(m) <=> Is(e, "FINISH_FLOW", m)
          /\ e \in ConfirmStops(m) <=> Is(e, "CONFIRM_STOP", m)
      BY SignalKinds, Zenon
    <3>2. ~(Is(e, "FINISH_FLOW", m) /\ Is(e, "CONFIRM_STOP", m))
      BY Zenon DEF Is
    <3>3. Precedes(recv_notif, FinishFlows(m), ConfirmStops(m))
      BY <1>4, Zenon DEF OrderedRecvNotif
    <3>4. e \notin FinishFlows(m) \/ (e \notin ConfirmStops(m) /\ Count(recv_notif, ConfirmStops(m)) = 0)
      BY <1>4, <3>1, <3>2, Zenon DEF nConfirmStop
    <3> QED
      BY <1>1, <3>3, <3>4, PrecedesAppend, Zenon
  <2> QED
    BY <2>1, Zenon DEF OrderedRecvNotif, FinishFlows, ConfirmStops, Seqs
<1>5. Append(recv_notif, e) \in Seq(RecvNotification)
  BY <1>1
<1>6. nFinishFlow(m)' \in Nat /\ nConfirmStop(m)' \in Nat
  BY <1>5, CountNat, Zenon DEF nFinishFlow, nConfirmStop
<1> QED
  BY <1>2, <1>3, <1>4, <1>5, <1>6, Zenon

\* Taking the head of the receiving channel's notifications.
LEMMA RecvNotifTail ==
  ASSUME CountingFacts, TypeOK, NEW m \in MsgIds, recv_notif # <<>>, recv_notif' = Tail(recv_notif)
  PROVE  /\ Head(recv_notif) \in RecvNotification
         /\ nFinishFlow(m)' = nFinishFlow(m) - One(Is(Head(recv_notif), "FINISH_FLOW", m))
         /\ nConfirmStop(m)' = nConfirmStop(m) - One(Is(Head(recv_notif), "CONFIRM_STOP", m))
         /\ nFinishFlow(m)' \in Nat
         /\ nConfirmStop(m)' \in Nat
         /\ OrderedRecvNotif(m) => OrderedRecvNotif(m)'
         /\ OrderedRecvNotif(m) /\ Is(Head(recv_notif), "CONFIRM_STOP", m) => nFinishFlow(m) = 0
<1>1. recv_notif \in Seq(RecvNotification) /\ Head(recv_notif) \in RecvNotification
  BY HeadType, Zenon DEF TypeOK
<1>2. nFinishFlow(m)' = nFinishFlow(m) - One(Is(Head(recv_notif), "FINISH_FLOW", m))
  <2>1. nFinishFlow(m)' = Count(Tail(recv_notif), FinishFlows(m))
    BY Zenon DEF nFinishFlow, FinishFlows, Seqs
  <2>2. @ = nFinishFlow(m) - One(Head(recv_notif) \in FinishFlows(m))
    BY <1>1, CountTail, Zenon DEF nFinishFlow
  <2>3. Head(recv_notif) \in FinishFlows(m) <=> Is(Head(recv_notif), "FINISH_FLOW", m)
    BY <1>1, SignalKinds, Zenon
  <2> QED
    BY <2>1, <2>2, <2>3, Zenon DEF One
<1>3. nConfirmStop(m)' = nConfirmStop(m) - One(Is(Head(recv_notif), "CONFIRM_STOP", m))
  <2>1. nConfirmStop(m)' = Count(Tail(recv_notif), ConfirmStops(m))
    BY Zenon DEF nConfirmStop, ConfirmStops, Seqs
  <2>2. @ = nConfirmStop(m) - One(Head(recv_notif) \in ConfirmStops(m))
    BY <1>1, CountTail, Zenon DEF nConfirmStop
  <2>3. Head(recv_notif) \in ConfirmStops(m) <=> Is(Head(recv_notif), "CONFIRM_STOP", m)
    BY <1>1, SignalKinds, Zenon
  <2> QED
    BY <2>1, <2>2, <2>3, Zenon DEF One
<1>4. ASSUME OrderedRecvNotif(m) PROVE OrderedRecvNotif(m)'
  BY <1>1, <1>4, PrecedesTail, Zenon DEF OrderedRecvNotif, FinishFlows, ConfirmStops, Seqs
<1>5. ASSUME OrderedRecvNotif(m), Is(Head(recv_notif), "CONFIRM_STOP", m) PROVE nFinishFlow(m) = 0
  <2>1. Head(recv_notif) \in ConfirmStops(m)
    BY <1>1, <1>5, SignalKinds, Zenon
  <2>2. Precedes(recv_notif, FinishFlows(m), ConfirmStops(m))
    BY <1>5, Zenon DEF OrderedRecvNotif
  <2> QED
    BY <1>1, <2>1, <2>2, PrecedesHead, Zenon DEF nFinishFlow
<1>6. Tail(recv_notif) \in Seq(RecvNotification)
  BY <1>1
<1>7. nFinishFlow(m)' \in Nat /\ nConfirmStop(m)' \in Nat
  BY <1>6, CountNat, Zenon DEF nFinishFlow, nConfirmStop
<1> QED
  BY <1>1, <1>2, <1>3, <1>4, <1>5, <1>6, <1>7, Zenon

\* A step that leaves the notifications of the receiver's thread alone.
LEMMA RecvNotifSame ==
  ASSUME UNCHANGED recv_notif, NEW m \in MsgIds
  PROVE  /\ nFinishFlow(m)' = nFinishFlow(m)
         /\ nConfirmStop(m)' = nConfirmStop(m)
         /\ OrderedRecvNotif(m)' = OrderedRecvNotif(m)
  BY Zenon DEF nFinishFlow, nConfirmStop, OrderedRecvNotif, FinishFlows, ConfirmStops, Seqs

\* Appending to the signals to the sender.
LEMMA ToSenderAppend ==
  ASSUME CountingFacts, TypeOK, NEW m \in MsgIds, NEW e \in ToSender, to_sender' = Append(to_sender, e)
  PROVE  /\ nRetransmitRequest(m)' = nRetransmitRequest(m) + One(Is(e, "kRetransmitRequest", m))
         /\ nStopRequest(m)' = nStopRequest(m) + One(Is(e, "kStopRequest", m))
         /\ nRetransmitRequest(m)' \in Nat
         /\ nStopRequest(m)' \in Nat
         /\ ( /\ OrderedToSender(m)
              /\ Is(e, "kRetransmitRequest", m) => nStopRequest(m) = 0 ) => OrderedToSender(m)'
<1>1. to_sender \in Seq(ToSender)
  BY Zenon DEF TypeOK
<1>2. nRetransmitRequest(m)' = nRetransmitRequest(m) + One(Is(e, "kRetransmitRequest", m))
  <2>1. nRetransmitRequest(m)' = Count(Append(to_sender, e), RetransmitRequests(m))
    BY Zenon DEF nRetransmitRequest, RetransmitRequests, Seqs
  <2>2. @ = nRetransmitRequest(m) + One(e \in RetransmitRequests(m))
    BY <1>1, CountAppend, Zenon DEF nRetransmitRequest
  <2>3. e \in RetransmitRequests(m) <=> Is(e, "kRetransmitRequest", m)
    BY SignalKinds, Zenon
  <2> QED
    BY <2>1, <2>2, <2>3, Zenon DEF One
<1>3. nStopRequest(m)' = nStopRequest(m) + One(Is(e, "kStopRequest", m))
  <2>1. nStopRequest(m)' = Count(Append(to_sender, e), StopRequests(m))
    BY Zenon DEF nStopRequest, StopRequests, Seqs
  <2>2. @ = nStopRequest(m) + One(e \in StopRequests(m))
    BY <1>1, CountAppend, Zenon DEF nStopRequest
  <2>3. e \in StopRequests(m) <=> Is(e, "kStopRequest", m)
    BY SignalKinds, Zenon
  <2> QED
    BY <2>1, <2>2, <2>3, Zenon DEF One
<1>4. ASSUME OrderedToSender(m),
            Is(e, "kRetransmitRequest", m) => nStopRequest(m) = 0
      PROVE  OrderedToSender(m)'
  <2>1. Precedes(Append(to_sender, e), RetransmitRequests(m), StopRequests(m))
    <3>1. /\ e \in RetransmitRequests(m) <=> Is(e, "kRetransmitRequest", m)
          /\ e \in StopRequests(m) <=> Is(e, "kStopRequest", m)
      BY SignalKinds, Zenon
    <3>2. ~(Is(e, "kRetransmitRequest", m) /\ Is(e, "kStopRequest", m))
      BY Zenon DEF Is
    <3>3. Precedes(to_sender, RetransmitRequests(m), StopRequests(m))
      BY <1>4, Zenon DEF OrderedToSender
    <3>4. e \notin RetransmitRequests(m) \/ (e \notin StopRequests(m) /\ Count(to_sender, StopRequests(m)) = 0)
      BY <1>4, <3>1, <3>2, Zenon DEF nStopRequest
    <3> QED
      BY <1>1, <3>3, <3>4, PrecedesAppend, Zenon
  <2> QED
    BY <2>1, Zenon DEF OrderedToSender, RetransmitRequests, StopRequests, Seqs
<1>5. Append(to_sender, e) \in Seq(ToSender)
  BY <1>1
<1>6. nRetransmitRequest(m)' \in Nat /\ nStopRequest(m)' \in Nat
  BY <1>5, CountNat, Zenon DEF nRetransmitRequest, nStopRequest
<1> QED
  BY <1>2, <1>3, <1>4, <1>5, <1>6, Zenon

\* Taking the head of the signals to the sender.
LEMMA ToSenderTail ==
  ASSUME CountingFacts, TypeOK, NEW m \in MsgIds, to_sender # <<>>, to_sender' = Tail(to_sender)
  PROVE  /\ Head(to_sender) \in ToSender
         /\ nRetransmitRequest(m)' = nRetransmitRequest(m) - One(Is(Head(to_sender), "kRetransmitRequest", m))
         /\ nStopRequest(m)' = nStopRequest(m) - One(Is(Head(to_sender), "kStopRequest", m))
         /\ nRetransmitRequest(m)' \in Nat
         /\ nStopRequest(m)' \in Nat
         /\ OrderedToSender(m) => OrderedToSender(m)'
         /\ OrderedToSender(m) /\ Is(Head(to_sender), "kStopRequest", m) => nRetransmitRequest(m) = 0
<1>1. to_sender \in Seq(ToSender) /\ Head(to_sender) \in ToSender
  BY HeadType, Zenon DEF TypeOK
<1>2. nRetransmitRequest(m)' = nRetransmitRequest(m) - One(Is(Head(to_sender), "kRetransmitRequest", m))
  <2>1. nRetransmitRequest(m)' = Count(Tail(to_sender), RetransmitRequests(m))
    BY Zenon DEF nRetransmitRequest, RetransmitRequests, Seqs
  <2>2. @ = nRetransmitRequest(m) - One(Head(to_sender) \in RetransmitRequests(m))
    BY <1>1, CountTail, Zenon DEF nRetransmitRequest
  <2>3. Head(to_sender) \in RetransmitRequests(m) <=> Is(Head(to_sender), "kRetransmitRequest", m)
    BY <1>1, SignalKinds, Zenon
  <2> QED
    BY <2>1, <2>2, <2>3, Zenon DEF One
<1>3. nStopRequest(m)' = nStopRequest(m) - One(Is(Head(to_sender), "kStopRequest", m))
  <2>1. nStopRequest(m)' = Count(Tail(to_sender), StopRequests(m))
    BY Zenon DEF nStopRequest, StopRequests, Seqs
  <2>2. @ = nStopRequest(m) - One(Head(to_sender) \in StopRequests(m))
    BY <1>1, CountTail, Zenon DEF nStopRequest
  <2>3. Head(to_sender) \in StopRequests(m) <=> Is(Head(to_sender), "kStopRequest", m)
    BY <1>1, SignalKinds, Zenon
  <2> QED
    BY <2>1, <2>2, <2>3, Zenon DEF One
<1>4. ASSUME OrderedToSender(m) PROVE OrderedToSender(m)'
  BY <1>1, <1>4, PrecedesTail, Zenon DEF OrderedToSender, RetransmitRequests, StopRequests,
     Seqs
<1>5. ASSUME OrderedToSender(m), Is(Head(to_sender), "kStopRequest", m) PROVE nRetransmitRequest(m) = 0
  <2>1. Head(to_sender) \in StopRequests(m)
    BY <1>1, <1>5, SignalKinds, Zenon
  <2>2. Precedes(to_sender, RetransmitRequests(m), StopRequests(m))
    BY <1>5, Zenon DEF OrderedToSender
  <2> QED
    BY <1>1, <2>1, <2>2, PrecedesHead, Zenon DEF nRetransmitRequest
<1>6. Tail(to_sender) \in Seq(ToSender)
  BY <1>1
<1>7. nRetransmitRequest(m)' \in Nat /\ nStopRequest(m)' \in Nat
  BY <1>6, CountNat, Zenon DEF nRetransmitRequest, nStopRequest
<1> QED
  BY <1>1, <1>2, <1>3, <1>4, <1>5, <1>6, <1>7, Zenon

\* A step that leaves what is on the way to the sender alone.
LEMMA ToSenderSame ==
  ASSUME UNCHANGED to_sender, NEW m \in MsgIds
  PROVE  /\ nRetransmitRequest(m)' = nRetransmitRequest(m)
         /\ nStopRequest(m)' = nStopRequest(m)
         /\ OrderedToSender(m)' = OrderedToSender(m)
  BY Zenon DEF nRetransmitRequest, nStopRequest, OrderedToSender, RetransmitRequests,
     StopRequests, Seqs

\* Appending to the priority channel's notifications.
LEMMA PrioNotifAppend ==
  ASSUME CountingFacts, TypeOK, NEW m \in MsgIds, NEW e \in PrioNotification, prio_notif' = Append(prio_notif, e)
  PROVE  /\ nRequestRetransmit(m)' = nRequestRetransmit(m) + One(Is(e, "REQUEST_RETRANSMIT", m))
         /\ nStopFlow(m)' = nStopFlow(m) + One(Is(e, "STOP_FLOW", m))
         /\ nRequestRetransmit(m)' \in Nat
         /\ nStopFlow(m)' \in Nat
         /\ ( /\ OrderedPrioNotif(m)
              /\ Is(e, "REQUEST_RETRANSMIT", m) => nStopFlow(m) = 0 ) => OrderedPrioNotif(m)'
<1>1. prio_notif \in Seq(PrioNotification)
  BY Zenon DEF TypeOK
<1>2. nRequestRetransmit(m)' = nRequestRetransmit(m) + One(Is(e, "REQUEST_RETRANSMIT", m))
  <2>1. nRequestRetransmit(m)' = Count(Append(prio_notif, e), RequestRetransmits(m))
    BY Zenon DEF nRequestRetransmit, RequestRetransmits, Seqs
  <2>2. @ = nRequestRetransmit(m) + One(e \in RequestRetransmits(m))
    BY <1>1, CountAppend, Zenon DEF nRequestRetransmit
  <2>3. e \in RequestRetransmits(m) <=> Is(e, "REQUEST_RETRANSMIT", m)
    BY SignalKinds, Zenon
  <2> QED
    BY <2>1, <2>2, <2>3, Zenon DEF One
<1>3. nStopFlow(m)' = nStopFlow(m) + One(Is(e, "STOP_FLOW", m))
  <2>1. nStopFlow(m)' = Count(Append(prio_notif, e), StopFlows(m))
    BY Zenon DEF nStopFlow, StopFlows, Seqs
  <2>2. @ = nStopFlow(m) + One(e \in StopFlows(m))
    BY <1>1, CountAppend, Zenon DEF nStopFlow
  <2>3. e \in StopFlows(m) <=> Is(e, "STOP_FLOW", m)
    BY SignalKinds, Zenon
  <2> QED
    BY <2>1, <2>2, <2>3, Zenon DEF One
<1>4. ASSUME OrderedPrioNotif(m),
            Is(e, "REQUEST_RETRANSMIT", m) => nStopFlow(m) = 0
      PROVE  OrderedPrioNotif(m)'
  <2>1. Precedes(Append(prio_notif, e), RequestRetransmits(m), StopFlows(m))
    <3>1. /\ e \in RequestRetransmits(m) <=> Is(e, "REQUEST_RETRANSMIT", m)
          /\ e \in StopFlows(m) <=> Is(e, "STOP_FLOW", m)
      BY SignalKinds, Zenon
    <3>2. ~(Is(e, "REQUEST_RETRANSMIT", m) /\ Is(e, "STOP_FLOW", m))
      BY Zenon DEF Is
    <3>3. Precedes(prio_notif, RequestRetransmits(m), StopFlows(m))
      BY <1>4, Zenon DEF OrderedPrioNotif
    <3>4. e \notin RequestRetransmits(m) \/ (e \notin StopFlows(m) /\ Count(prio_notif, StopFlows(m)) = 0)
      BY <1>4, <3>1, <3>2, Zenon DEF nStopFlow
    <3> QED
      BY <1>1, <3>3, <3>4, PrecedesAppend, Zenon
  <2> QED
    BY <2>1, Zenon DEF OrderedPrioNotif, RequestRetransmits, StopFlows, Seqs
<1>5. Append(prio_notif, e) \in Seq(PrioNotification)
  BY <1>1
<1>6. nRequestRetransmit(m)' \in Nat /\ nStopFlow(m)' \in Nat
  BY <1>5, CountNat, Zenon DEF nRequestRetransmit, nStopFlow
<1> QED
  BY <1>2, <1>3, <1>4, <1>5, <1>6, Zenon

\* Taking the head of the priority channel's notifications.
LEMMA PrioNotifTail ==
  ASSUME CountingFacts, TypeOK, NEW m \in MsgIds, prio_notif # <<>>, prio_notif' = Tail(prio_notif)
  PROVE  /\ Head(prio_notif) \in PrioNotification
         /\ nRequestRetransmit(m)' = nRequestRetransmit(m) - One(Is(Head(prio_notif), "REQUEST_RETRANSMIT", m))
         /\ nStopFlow(m)' = nStopFlow(m) - One(Is(Head(prio_notif), "STOP_FLOW", m))
         /\ nRequestRetransmit(m)' \in Nat
         /\ nStopFlow(m)' \in Nat
         /\ OrderedPrioNotif(m) => OrderedPrioNotif(m)'
         /\ OrderedPrioNotif(m) /\ Is(Head(prio_notif), "STOP_FLOW", m) => nRequestRetransmit(m) = 0
<1>1. prio_notif \in Seq(PrioNotification) /\ Head(prio_notif) \in PrioNotification
  BY HeadType, Zenon DEF TypeOK
<1>2. nRequestRetransmit(m)' = nRequestRetransmit(m) - One(Is(Head(prio_notif), "REQUEST_RETRANSMIT", m))
  <2>1. nRequestRetransmit(m)' = Count(Tail(prio_notif), RequestRetransmits(m))
    BY Zenon DEF nRequestRetransmit, RequestRetransmits, Seqs
  <2>2. @ = nRequestRetransmit(m) - One(Head(prio_notif) \in RequestRetransmits(m))
    BY <1>1, CountTail, Zenon DEF nRequestRetransmit
  <2>3. Head(prio_notif) \in RequestRetransmits(m) <=> Is(Head(prio_notif), "REQUEST_RETRANSMIT", m)
    BY <1>1, SignalKinds, Zenon
  <2> QED
    BY <2>1, <2>2, <2>3, Zenon DEF One
<1>3. nStopFlow(m)' = nStopFlow(m) - One(Is(Head(prio_notif), "STOP_FLOW", m))
  <2>1. nStopFlow(m)' = Count(Tail(prio_notif), StopFlows(m))
    BY Zenon DEF nStopFlow, StopFlows, Seqs
  <2>2. @ = nStopFlow(m) - One(Head(prio_notif) \in StopFlows(m))
    BY <1>1, CountTail, Zenon DEF nStopFlow
  <2>3. Head(prio_notif) \in StopFlows(m) <=> Is(Head(prio_notif), "STOP_FLOW", m)
    BY <1>1, SignalKinds, Zenon
  <2> QED
    BY <2>1, <2>2, <2>3, Zenon DEF One
<1>4. ASSUME OrderedPrioNotif(m) PROVE OrderedPrioNotif(m)'
  BY <1>1, <1>4, PrecedesTail, Zenon DEF OrderedPrioNotif, RequestRetransmits, StopFlows, Seqs
<1>5. ASSUME OrderedPrioNotif(m), Is(Head(prio_notif), "STOP_FLOW", m) PROVE nRequestRetransmit(m) = 0
  <2>1. Head(prio_notif) \in StopFlows(m)
    BY <1>1, <1>5, SignalKinds, Zenon
  <2>2. Precedes(prio_notif, RequestRetransmits(m), StopFlows(m))
    BY <1>5, Zenon DEF OrderedPrioNotif
  <2> QED
    BY <1>1, <2>1, <2>2, PrecedesHead, Zenon DEF nRequestRetransmit
<1>6. Tail(prio_notif) \in Seq(PrioNotification)
  BY <1>1
<1>7. nRequestRetransmit(m)' \in Nat /\ nStopFlow(m)' \in Nat
  BY <1>6, CountNat, Zenon DEF nRequestRetransmit, nStopFlow
<1> QED
  BY <1>1, <1>2, <1>3, <1>4, <1>5, <1>6, <1>7, Zenon

\* A step that leaves the notifications of the sender's thread alone.
LEMMA PrioNotifSame ==
  ASSUME UNCHANGED prio_notif, NEW m \in MsgIds
  PROVE  /\ nRequestRetransmit(m)' = nRequestRetransmit(m)
         /\ nStopFlow(m)' = nStopFlow(m)
         /\ OrderedPrioNotif(m)' = OrderedPrioNotif(m)
  BY Zenon DEF nRequestRetransmit, nStopFlow, OrderedPrioNotif, RequestRetransmits, StopFlows, Seqs

\* What happens to a request queue.
LEMMA SrQueueSteps ==
  ASSUME CountingFacts, TypeOK, NEW m \in MsgIds
  PROVE  /\ \A k \in MsgIds : sr_queue' = Append(sr_queue, k) 
              => nSend(m)' = nSend(m) + One(k = m) /\ nSend(m)' \in Nat
         /\ sr_queue # <<>> /\ sr_queue' = Tail(sr_queue)
              => Head(sr_queue) \in MsgIds /\ nSend(m)' = nSend(m) - One(Head(sr_queue) = m)
                   /\ nSend(m)' \in Nat
         /\ UNCHANGED sr_queue => nSend(m)' = nSend(m)
<1>1. sr_queue \in Seq(MsgIds)
  BY Zenon DEF TypeOK
<1>2. \A k \in MsgIds : Count(Append(sr_queue, k), {m}) = Count(sr_queue, {m}) + One(k = m)
  BY <1>1, CountAppend DEF One
<1>3. sr_queue # <<>> => Head(sr_queue) \in MsgIds /\ Count(Tail(sr_queue), {m}) = Count(sr_queue, {m}) - One(Head(sr_queue) = m)
  BY <1>1, CountTail DEF One
<1>4. \A q \in Seq(MsgIds) : Count(q, {m}) \in Nat
  BY CountNat, Zenon
<1>5. /\ \A k \in MsgIds : Append(sr_queue, k) \in Seq(MsgIds)
      /\ sr_queue # <<>> => Tail(sr_queue) \in Seq(MsgIds)
  BY <1>1
<1> QED
  BY <1>2, <1>3, <1>4, <1>5, Zenon DEF nSend

\* What happens to a request queue.
LEMMA RrQueueSteps ==
  ASSUME CountingFacts, TypeOK, NEW m \in MsgIds
  PROVE  /\ \A k \in MsgIds : rr_queue' = Append(rr_queue, k) 
              => nRecv(m)' = nRecv(m) + One(k = m) /\ nRecv(m)' \in Nat
         /\ rr_queue # <<>> /\ rr_queue' = Tail(rr_queue)
              => Head(rr_queue) \in MsgIds /\ nRecv(m)' = nRecv(m) - One(Head(rr_queue) = m)
                   /\ nRecv(m)' \in Nat
         /\ UNCHANGED rr_queue => nRecv(m)' = nRecv(m)
<1>1. rr_queue \in Seq(MsgIds)
  BY Zenon DEF TypeOK
<1>2. \A k \in MsgIds : Count(Append(rr_queue, k), {m}) = Count(rr_queue, {m}) + One(k = m)
  BY <1>1, CountAppend DEF One
<1>3. rr_queue # <<>> => Head(rr_queue) \in MsgIds /\ Count(Tail(rr_queue), {m}) = Count(rr_queue, {m}) - One(Head(rr_queue) = m)
  BY <1>1, CountTail DEF One
<1>4. \A q \in Seq(MsgIds) : Count(q, {m}) \in Nat
  BY CountNat, Zenon
<1>5. /\ \A k \in MsgIds : Append(rr_queue, k) \in Seq(MsgIds)
      /\ rr_queue # <<>> => Tail(rr_queue) \in Seq(MsgIds)
  BY <1>1
<1> QED
  BY <1>2, <1>3, <1>4, <1>5, Zenon DEF nRecv

-----------------------------------------------------------------------------
\* The constants of a message, its packets and its bytes.

\* The constants of a message; the bound is within the message because a
\* message is made of floats.
LEMMA MsgFacts ==
  ASSUME NEW m \in MsgIds
  PROVE  /\ MaxSeq(m) \in Nat /\ MaxSeq(m) \in Seqs /\ 0 .. MaxSeq(m) \subseteq Seqs
         /\ Size[m] \in Nat \ {0} /\ Kept[m] \in Nat
         /\ Bound(m) \in Nat /\ Kept[m] <= Bound(m) /\ Bound(m) <= Size[m]
         /\ m # NoMsg
<1>1. Size[m] \in Nat \ {0} /\ Size[m] % 4 = 0 /\ Kept[m] \in Nat /\ Kept[m] <= Size[m]
  BY SizeAssumption, KeptAssumption, Zenon
<1>2. MaxSeq(m) \in Nat
  BY <1>1, MaxSeqBounds, Zenon DEF MaxSeq
<1>3. MaxSeq(m) \in Seqs /\ 0 .. MaxSeq(m) \subseteq Seqs
  BY <1>2 DEF Seqs
<1>4. Bound(m) \in Nat /\ Kept[m] <= Bound(m) /\ Bound(m) <= Size[m]
  BY <1>1 DEF Bound, AlignUp
<1>5. m # NoMsg
  BY MsgIdsAssumption DEF NoMsg
<1> QED
  BY <1>1, <1>2, <1>3, <1>4, <1>5, Zenon

\* The packets of a message, cut at the cursor or by sequence number.
LEMMA PacketFacts ==
  ASSUME NEW m \in MsgIds, NEW i \in 0 .. MaxSeq(m)
  PROVE  LET pkt == PartitionOneBySeq(Size[m], i)
         IN /\ PartitionOne(Size[m], Segment * i) = pkt
            /\ pkt.seq = i
            /\ pkt.bytes = IF i = MaxSeq(m) THEN Size[m] - Segment * MaxSeq(m) ELSE Segment
            /\ pkt.bytes \in Nat \ {0}
            /\ Segment * i + pkt.bytes \in Nat
            /\ Segment * i + pkt.bytes <= Size[m]
            /\ pkt.offset = Segment * i
            /\ IsLast(Size[m], pkt) <=> i = MaxSeq(m)
            /\ Segment * i + pkt.bytes >= Size[m] <=> i = MaxSeq(m)
            /\ i # MaxSeq(m) => Segment * i + pkt.bytes = Segment * (i + 1)
            /\ Packet(m, pkt) \in AllPackets /\ Packet(m, pkt).msg_id = m
<1> DEFINE pkt == PartitionOneBySeq(Size[m], i)
           n == MaxSeq(m)
<1>1. /\ Size[m] \in Nat \ {0} /\ n \in Nat /\ i \in 0 .. GetMaxSeqNum(Size[m])
      /\ n = GetMaxSeqNum(Size[m]) /\ Segment \in Nat \ {0} /\ i \in Nat /\ i <= n
  BY MsgFacts, SegmentAssumption DEF MaxSeq
<1>2. PartitionOne(Size[m], Segment * i) = pkt
  BY <1>1, CursorAgreesWithSeq, Zenon
<1>3. /\ pkt.seq = i /\ pkt.offset = Segment * i /\ pkt.offset \in Nat
      /\ pkt.bytes = IF i = n THEN Size[m] - Segment * n ELSE Segment
      /\ pkt.bytes \in Nat \ {0}
  BY <1>1, PacketBySeq
<1>4. Packet(m, pkt) \in AllPackets /\ Packet(m, pkt).msg_id = m
  BY DEF Packet, AllPackets, Packets
<1>5. Segment * n < Size[m] /\ Segment * n \in Nat
  BY <1>1, MaxSeqBounds, MulMonotone
<1> HIDE DEF pkt, n
<1>6. /\ Segment * i + pkt.bytes \in Nat /\ Segment * i + pkt.bytes <= Size[m]
      /\ IsLast(Size[m], pkt) <=> i = n
      /\ Segment * i + pkt.bytes >= Size[m] <=> i = n
      /\ i # n => Segment * i + pkt.bytes = Segment * (i + 1)
  <2>1. CASE i = n
    <3>1. Segment * i + pkt.bytes = Size[m]
      BY <1>1, <1>3, <1>5, <2>1
    <3>2. IsLast(Size[m], pkt)
      BY <1>3, <3>1, Zenon DEF IsLast
    <3> QED
      BY <1>1, <2>1, <3>1, <3>2
  <2>2. CASE i # n
    <3>1. i + 1 <= n /\ i \in Int /\ i + 1 \in Int /\ n \in Int
      BY <1>1, <2>2
    <3>2. Segment * (i + 1) <= Segment * n /\ Segment * (i + 1) = Segment * i + Segment
      BY <1>1, <3>1, MulMonotone, Zenon
    <3>3. Segment * i \in Nat /\ pkt.bytes = Segment /\ pkt.offset = Segment * i
      BY <1>3, <2>2, Zenon
    <3>4. /\ Segment * i + pkt.bytes = Segment * (i + 1)
          /\ Segment * i + pkt.bytes < Size[m] /\ Segment * i + pkt.bytes \in Nat
      BY <1>1, <1>5, <3>2, <3>3
    <3>5. ~IsLast(Size[m], pkt)
      BY <1>1, <3>3, <3>4 DEF IsLast
    <3> QED
      BY <1>1, <2>2, <3>4, <3>5
  <2> QED
    BY <2>1, <2>2, Zenon
<1> QED
  BY <1>2, <1>3, <1>4, <1>6, Zenon DEF pkt, n

\* A new packet adds its bytes to the bytes received.
LEMMA BytesStep ==
  ASSUME CountingFacts, NEW m \in MsgIds, NEW T, T \subseteq 0 .. MaxSeq(m),
         NEW i \in 0 .. MaxSeq(m), i \notin T
  PROVE  PayloadOf(m, T \cup {i}) = PayloadOf(m, T) + PartitionOneBySeq(Size[m], i).bytes
<1> DEFINE n == MaxSeq(m)
           U == T \ {n}
           c == Cardinality(U)
           last == Size[m] - Segment * n
           bytes == PartitionOneBySeq(Size[m], i).bytes
           b == PayloadOf(m, T)
<1>1. n \in Nat /\ Size[m] \in Nat /\ Segment \in Nat \ {0} /\ Segment * n \in Nat
  BY MsgFacts, SegmentAssumption
<1>2. bytes = IF i = n THEN last ELSE Segment
  BY PacketFacts
<1>3. U \subseteq 0 .. n
  BY Zenon
<1>4. c \in Nat /\ \A j : j \notin U => Cardinality(U \cup {j}) = c + 1
  <2>1. n \in Int /\ U \subseteq 0 .. n
    BY <1>1, <1>3
  <2> HIDE DEF n, U
  <2> QED
    BY <2>1, SomePackets, Zenon
<1>5. b = Segment * c + (IF n \in T THEN last ELSE 0)
  BY Zenon DEF PayloadOf
<1>6. last \in Int /\ Segment * c \in Int
  BY <1>1, <1>4
<1> SUFFICES b + bytes = Segment * Cardinality((T \cup {i}) \ {n})
                           + (IF n \in T \cup {i} THEN last ELSE 0)
  BY Zenon DEF PayloadOf
<1> HIDE DEF n, c, last, bytes, b
<1>7. CASE i = n
  <2>1. (T \cup {i}) \ {n} = U /\ n \notin T /\ n \in T \cup {i}
    BY <1>7, Zenon
  <2>2. b + bytes = Segment * c + last
    BY <1>2, <1>5, <1>6, <1>7, <2>1
  <2> QED
    BY <2>1, <2>2, Zenon DEF c
<1>8. CASE i # n
  <2>1. (T \cup {i}) \ {n} = U \cup {i} /\ (n \in T \cup {i} <=> n \in T)
    BY <1>8, Zenon
  <2>2. Cardinality(U \cup {i}) = c + 1
    BY <1>4, Zenon
  <2>3. Segment * (c + 1) = Segment * c + Segment
    BY <1>1, <1>4, MulMonotone
  <2>4. b + bytes = Segment * (c + 1) + (IF n \in T THEN last ELSE 0)
    BY <1>1, <1>2, <1>5, <1>6, <1>8, <2>3
  <2> QED
    BY <2>1, <2>2, <2>4, Zenon
<1> QED
  BY <1>7, <1>8, Zenon

\* When every packet has been taken, every byte has been received; when none
\* has, none.
LEMMA BytesBounds ==
  ASSUME CountingFacts, NEW m \in MsgIds, BytesOf(m)
  PROVE  /\ taken[m] = {} => bytes_received[m] = 0
         /\ taken[m] = 0 .. MaxSeq(m) => bytes_received[m] = Size[m]
<1>1. /\ MaxSeq(m) \in Nat /\ Size[m] \in Nat /\ Segment \in Nat \ {0}
      /\ Segment * MaxSeq(m) \in Nat
  BY MsgFacts, SegmentAssumption
<1>2. CASE taken[m] = {}
  <2>1. Cardinality(taken[m] \ {MaxSeq(m)}) = 0
    <3>1. taken[m] \ {MaxSeq(m)} = {}
      BY <1>2, Zenon
    <3> QED
      BY <3>1, NoneOrAllPackets, Zenon
  <2>2. bytes_received[m] = 0
    BY <1>1, <1>2, <2>1 DEF BytesOf, PayloadOf
  <2>3. taken[m] # 0 .. MaxSeq(m)
    BY <1>1, <1>2
  <2> QED
    BY <2>2, <2>3, Zenon
<1>3. CASE taken[m] = 0 .. MaxSeq(m)
  <2>1. taken[m] \ {MaxSeq(m)} = 0 .. (MaxSeq(m) - 1)
    BY <1>1, <1>3
  <2>2. Cardinality(taken[m] \ {MaxSeq(m)}) = MaxSeq(m)
    BY <1>1, <2>1, NoneOrAllPackets, Zenon
  <2>3. MaxSeq(m) \in taken[m] /\ taken[m] # {}
    BY <1>1, <1>3
  <2>4. bytes_received[m] = Segment * MaxSeq(m) + (Size[m] - Segment * MaxSeq(m))
    BY <2>2, <2>3, Zenon DEF BytesOf, PayloadOf
  <2>5. bytes_received[m] = Size[m]
    BY <1>1, <2>4
  <2> QED
    BY <2>3, <2>5, Zenon
<1> QED
  BY <1>2, <1>3, Zenon

\* The types of what the invariant says of message m.
Typed(m) ==
  /\ send_posts[m] \in Nat /\ confirmed[m] \in Nat
  /\ recv_posts[m] \in Nat /\ recv_completions[m] \in Nat
  /\ bytes_sent[m] \in Nat /\ bytes_received[m] \in Nat /\ block_size[m] \in Nat
  /\ stopped[m] \in BOOLEAN
  /\ Posting(m) \in 0 .. 1 /\ Sending(m) \in 0 .. 1 /\ Keeping(m) \in 0 .. 1
  /\ Resending(m) \in 0 .. 1 /\ Announced(m) \in 0 .. 1 /\ Receiving(m) \in 0 .. 1
  /\ Stopped(m) \in 0 .. 1
  /\ nSend(m) \in Nat /\ nRecv(m) \in Nat
  /\ nFlowStart(m) \in Nat /\ nFlowFinish(m) \in Nat /\ nStopConfirm(m) \in Nat
  /\ nFinishFlow(m) \in Nat /\ nConfirmStop(m) \in Nat
  /\ nRetransmitRequest(m) \in Nat /\ nStopRequest(m) \in Nat
  /\ nRequestRetransmit(m) \in Nat /\ nStopFlow(m) \in Nat

\* The types that the invariant gives.
LEMMA Types ==
  ASSUME CountingFacts, TypeOK, NEW m \in MsgIds
  PROVE  Typed(m)
\* Every counter is a natural number.
<1>counters. /\ nSend(m) \in Nat /\ nRecv(m) \in Nat
             /\ nFlowStart(m) \in Nat /\ nFlowFinish(m) \in Nat /\ nStopConfirm(m) \in Nat
             /\ nFinishFlow(m) \in Nat /\ nConfirmStop(m) \in Nat
             /\ nRetransmitRequest(m) \in Nat /\ nStopRequest(m) \in Nat
             /\ nRequestRetransmit(m) \in Nat /\ nStopFlow(m) \in Nat
  <2>1. /\ sr_queue \in Seq(MsgIds) /\ rr_queue \in Seq(MsgIds)
        /\ to_receiver \in Seq(ToReceiver) /\ recv_notif \in Seq(RecvNotification)
        /\ to_sender \in Seq(ToSender) /\ prio_notif \in Seq(PrioNotification)
    BY Zenon DEF TypeOK
  <2> QED
    BY <2>1, CountNat, Zenon DEF nSend, nRecv, nFlowStart, nFlowFinish, nStopConfirm,
       nFinishFlow, nConfirmStop, nRetransmitRequest, nStopRequest,
       nRequestRetransmit, nStopFlow
<1>1. /\ send_posts[m] \in Nat /\ confirmed[m] \in Nat
      /\ recv_posts[m] \in Nat /\ recv_completions[m] \in Nat
      /\ bytes_sent[m] \in Nat /\ bytes_received[m] \in Nat /\ block_size[m] \in Nat
      /\ stopped[m] \in BOOLEAN
  BY Zenon DEF TypeOK
<1>2. /\ Posting(m) \in 0 .. 1 /\ Sending(m) \in 0 .. 1 /\ Keeping(m) \in 0 .. 1
      /\ Resending(m) \in 0 .. 1 /\ Announced(m) \in 0 .. 1 /\ Receiving(m) \in 0 .. 1
      /\ Stopped(m) \in 0 .. 1
  BY DEF One, Posting, Sending, Keeping, Resending, Announced, Receiving, Stopped
<1> QED
  BY <1>1, <1>2, <1>counters, Zenon DEF Typed

-----------------------------------------------------------------------------
\* What a step that is not about message m leaves alone.

\* Queue q becomes qn by a step that is not about m.
OtherStep(q, qn, S, m) ==
  \/ qn = q
  \/ \E e \in S : e.msg_id # m /\ qn = Append(q, e)
  \/ q # <<>> /\ Head(q).msg_id # m /\ qn = Tail(q)

OtherPost(q, qn, m) ==
  \/ qn = q
  \/ \E k \in MsgIds : k # m /\ qn = Append(q, k)
  \/ q # <<>> /\ Head(q) # m /\ qn = Tail(q)

QueuesElsewhere(m) ==
  /\ OtherPost(sr_queue, sr_queue', m)
  /\ OtherPost(rr_queue, rr_queue', m)
  /\ OtherStep(to_receiver, to_receiver', ToReceiver, m)
  /\ OtherStep(recv_notif, recv_notif', RecvNotification, m)
  /\ OtherStep(to_sender, to_sender', ToSender, m)
  /\ OtherStep(prio_notif, prio_notif', PrioNotification, m)

\* What the variables say of m is unchanged; its packets may only become fewer.
SenderSame(m) ==
  /\ posting' = m <=> posting = m
  /\ send_posts'[m] = send_posts[m]
  /\ m \in sending_msgs' <=> m \in sending_msgs
  /\ bytes_sent'[m] = bytes_sent[m]
  /\ m \in retransmitting_msgs' <=> m \in retransmitting_msgs
  /\ retransmit_reqs'[m] = retransmit_reqs[m]
  /\ confirmed'[m] = confirmed[m]
  /\ \A p \in (udp_tx \cup net)' : p.msg_id = m => p \in udp_tx \cup net

ReceiverSame(m) ==
  /\ recv_posts'[m] = recv_posts[m]
  /\ msg_max_seq'[m] = msg_max_seq[m]
  /\ m \in recv_msgs' <=> m \in recv_msgs
  /\ block_size'[m] = block_size[m]
  /\ taken'[m] = taken[m]
  /\ bytes_received'[m] = bytes_received[m]
  /\ stopped'[m] = stopped[m]
  /\ recv_completions'[m] = recv_completions[m]

CountersSame(m) ==
  /\ nSend(m)' = nSend(m) /\ nRecv(m)' = nRecv(m)
  /\ nFlowStart(m)' = nFlowStart(m) /\ nFlowFinish(m)' = nFlowFinish(m)
  /\ nStopConfirm(m)' = nStopConfirm(m)
  /\ nFinishFlow(m)' = nFinishFlow(m) /\ nConfirmStop(m)' = nConfirmStop(m)
  /\ nRetransmitRequest(m)' = nRetransmitRequest(m)
  /\ nStopRequest(m)' = nStopRequest(m)
  /\ nRequestRetransmit(m)' = nRequestRetransmit(m)
  /\ nStopFlow(m)' = nStopFlow(m)

\* Counters in a step that touches other queues.
LEMMA QueuesElsewhereCounters ==
  ASSUME CountingFacts, TypeOK, NEW m \in MsgIds, Ordered(m), QueuesElsewhere(m)
  PROVE  CountersSame(m) /\ Ordered(m)'
<1>1. Typed(m)
  BY Types, Zenon
<1>2. nSend(m)' = nSend(m)
  <2>1. CASE UNCHANGED sr_queue
    BY <2>1, SrQueueSteps, Zenon
  <2>2. ASSUME NEW k \in MsgIds, k # m, sr_queue' = Append(sr_queue, k)
        PROVE  nSend(m)' = nSend(m)
    <3>1. nSend(m)' = nSend(m) + One(k = m) /\ One(k = m) = 0
      BY <2>2, SrQueueSteps, Zenon DEF One
    <3> QED
      BY <1>1, <3>1 DEF Typed
  <2>3. CASE sr_queue # <<>> /\ Head(sr_queue) # m /\ sr_queue' = Tail(sr_queue)
    <3>1. nSend(m)' = nSend(m) - One(Head(sr_queue) = m) /\ One(Head(sr_queue) = m) = 0
      BY <2>3, SrQueueSteps, Zenon DEF One
    <3> QED
      BY <1>1, <3>1 DEF Typed
  <2> QED
    BY <2>1, <2>2, <2>3, Zenon DEF QueuesElsewhere, OtherPost
<1>3. nRecv(m)' = nRecv(m)
  <2>1. CASE UNCHANGED rr_queue
    BY <2>1, RrQueueSteps, Zenon
  <2>2. ASSUME NEW k \in MsgIds, k # m, rr_queue' = Append(rr_queue, k)
        PROVE  nRecv(m)' = nRecv(m)
    <3>1. nRecv(m)' = nRecv(m) + One(k = m) /\ One(k = m) = 0
      BY <2>2, RrQueueSteps, Zenon DEF One
    <3> QED
      BY <1>1, <3>1 DEF Typed
  <2>3. CASE rr_queue # <<>> /\ Head(rr_queue) # m /\ rr_queue' = Tail(rr_queue)
    <3>1. nRecv(m)' = nRecv(m) - One(Head(rr_queue) = m) /\ One(Head(rr_queue) = m) = 0
      BY <2>3, RrQueueSteps, Zenon DEF One
    <3> QED
      BY <1>1, <3>1 DEF Typed
  <2> QED
    BY <2>1, <2>2, <2>3, Zenon DEF QueuesElsewhere, OtherPost
<1>4. /\ nFlowStart(m)' = nFlowStart(m)
      /\ nFlowFinish(m)' = nFlowFinish(m)
      /\ nStopConfirm(m)' = nStopConfirm(m)
      /\ OrderedToReceiver(m)'
  <2>1. OrderedToReceiver(m)
    BY Zenon DEF Ordered
  <2>2. CASE UNCHANGED to_receiver
    BY <2>1, <2>2, ToReceiverSame, Zenon
  <2>3. ASSUME NEW e \in ToReceiver, e.msg_id # m, to_receiver' = Append(to_receiver, e)
        PROVE  <1>4!:
    <3>1. /\ ~Is(e, "kFlowStart", m) /\ One(Is(e, "kFlowStart", m)) = 0
          /\ ~Is(e, "kFlowFinish", m) /\ One(Is(e, "kFlowFinish", m)) = 0
          /\ ~Is(e, "kStopConfirm", m) /\ One(Is(e, "kStopConfirm", m)) = 0
      BY <2>3, Zenon DEF Is, One
    <3>2. /\ nFlowStart(m)' = nFlowStart(m) + One(Is(e, "kFlowStart", m))
          /\ nFlowFinish(m)' = nFlowFinish(m) + One(Is(e, "kFlowFinish", m))
          /\ nStopConfirm(m)' = nStopConfirm(m) + One(Is(e, "kStopConfirm", m))
          /\ OrderedToReceiver(m)'
      BY <2>1, <2>3, <3>1, ToReceiverAppend, Zenon
    <3> QED
      BY <1>1, <3>1, <3>2, CounterSteps, Zenon DEF Typed
  <2>4. CASE to_receiver # <<>> /\ Head(to_receiver).msg_id # m /\ to_receiver' = Tail(to_receiver)
    <3>1. /\ ~Is(Head(to_receiver), "kFlowStart", m) /\ One(Is(Head(to_receiver), "kFlowStart", m)) = 0
          /\ ~Is(Head(to_receiver), "kFlowFinish", m) /\ One(Is(Head(to_receiver), "kFlowFinish", m)) = 0
          /\ ~Is(Head(to_receiver), "kStopConfirm", m) /\ One(Is(Head(to_receiver), "kStopConfirm", m)) = 0
      BY <2>4, Zenon DEF Is, One
    <3>2. /\ nFlowStart(m)' = nFlowStart(m) - One(Is(Head(to_receiver), "kFlowStart", m))
          /\ nFlowFinish(m)' = nFlowFinish(m) - One(Is(Head(to_receiver), "kFlowFinish", m))
          /\ nStopConfirm(m)' = nStopConfirm(m) - One(Is(Head(to_receiver), "kStopConfirm", m))
          /\ OrderedToReceiver(m)'
      BY <2>1, <2>4, <3>1, ToReceiverTail, Zenon
    <3> QED
      BY <1>1, <3>1, <3>2, CounterSteps, Zenon DEF Typed
  <2> QED
    BY <2>2, <2>3, <2>4, Zenon DEF QueuesElsewhere, OtherStep
<1>5. /\ nFinishFlow(m)' = nFinishFlow(m)
      /\ nConfirmStop(m)' = nConfirmStop(m)
      /\ OrderedRecvNotif(m)'
  <2>1. OrderedRecvNotif(m)
    BY Zenon DEF Ordered
  <2>2. CASE UNCHANGED recv_notif
    BY <2>1, <2>2, RecvNotifSame, Zenon
  <2>3. ASSUME NEW e \in RecvNotification, e.msg_id # m, recv_notif' = Append(recv_notif, e)
        PROVE  <1>5!:
    <3>1. /\ ~Is(e, "FINISH_FLOW", m) /\ One(Is(e, "FINISH_FLOW", m)) = 0
          /\ ~Is(e, "CONFIRM_STOP", m) /\ One(Is(e, "CONFIRM_STOP", m)) = 0
      BY <2>3, Zenon DEF Is, One
    <3>2. /\ nFinishFlow(m)' = nFinishFlow(m) + One(Is(e, "FINISH_FLOW", m))
          /\ nConfirmStop(m)' = nConfirmStop(m) + One(Is(e, "CONFIRM_STOP", m))
          /\ OrderedRecvNotif(m)'
      BY <2>1, <2>3, <3>1, RecvNotifAppend, Zenon
    <3> QED
      BY <1>1, <3>1, <3>2, CounterSteps, Zenon DEF Typed
  <2>4. CASE recv_notif # <<>> /\ Head(recv_notif).msg_id # m /\ recv_notif' = Tail(recv_notif)
    <3>1. /\ ~Is(Head(recv_notif), "FINISH_FLOW", m) /\ One(Is(Head(recv_notif), "FINISH_FLOW", m)) = 0
          /\ ~Is(Head(recv_notif), "CONFIRM_STOP", m) /\ One(Is(Head(recv_notif), "CONFIRM_STOP", m)) = 0
      BY <2>4, Zenon DEF Is, One
    <3>2. /\ nFinishFlow(m)' = nFinishFlow(m) - One(Is(Head(recv_notif), "FINISH_FLOW", m))
          /\ nConfirmStop(m)' = nConfirmStop(m) - One(Is(Head(recv_notif), "CONFIRM_STOP", m))
          /\ OrderedRecvNotif(m)'
      BY <2>1, <2>4, <3>1, RecvNotifTail, Zenon
    <3> QED
      BY <1>1, <3>1, <3>2, CounterSteps, Zenon DEF Typed
  <2> QED
    BY <2>2, <2>3, <2>4, Zenon DEF QueuesElsewhere, OtherStep
<1>6. /\ nRetransmitRequest(m)' = nRetransmitRequest(m)
      /\ nStopRequest(m)' = nStopRequest(m)
      /\ OrderedToSender(m)'
  <2>1. OrderedToSender(m)
    BY Zenon DEF Ordered
  <2>2. CASE UNCHANGED to_sender
    BY <2>1, <2>2, ToSenderSame, Zenon
  <2>3. ASSUME NEW e \in ToSender, e.msg_id # m, to_sender' = Append(to_sender, e)
        PROVE  <1>6!:
    <3>1. /\ ~Is(e, "kRetransmitRequest", m) /\ One(Is(e, "kRetransmitRequest", m)) = 0
          /\ ~Is(e, "kStopRequest", m) /\ One(Is(e, "kStopRequest", m)) = 0
      BY <2>3, Zenon DEF Is, One
    <3>2. /\ nRetransmitRequest(m)' = nRetransmitRequest(m) + One(Is(e, "kRetransmitRequest", m))
          /\ nStopRequest(m)' = nStopRequest(m) + One(Is(e, "kStopRequest", m))
          /\ OrderedToSender(m)'
      BY <2>1, <2>3, <3>1, ToSenderAppend, Zenon
    <3> QED
      BY <1>1, <3>1, <3>2, CounterSteps, Zenon DEF Typed
  <2>4. CASE to_sender # <<>> /\ Head(to_sender).msg_id # m /\ to_sender' = Tail(to_sender)
    <3>1. /\ ~Is(Head(to_sender), "kRetransmitRequest", m) /\ One(Is(Head(to_sender), "kRetransmitRequest", m)) = 0
          /\ ~Is(Head(to_sender), "kStopRequest", m) /\ One(Is(Head(to_sender), "kStopRequest", m)) = 0
      BY <2>4, Zenon DEF Is, One
    <3>2. /\ nRetransmitRequest(m)' = nRetransmitRequest(m) - One(Is(Head(to_sender), "kRetransmitRequest", m))
          /\ nStopRequest(m)' = nStopRequest(m) - One(Is(Head(to_sender), "kStopRequest", m))
          /\ OrderedToSender(m)'
      BY <2>1, <2>4, <3>1, ToSenderTail, Zenon
    <3> QED
      BY <1>1, <3>1, <3>2, CounterSteps, Zenon DEF Typed
  <2> QED
    BY <2>2, <2>3, <2>4, Zenon DEF QueuesElsewhere, OtherStep
<1>7. /\ nRequestRetransmit(m)' = nRequestRetransmit(m)
      /\ nStopFlow(m)' = nStopFlow(m)
      /\ OrderedPrioNotif(m)'
  <2>1. OrderedPrioNotif(m)
    BY Zenon DEF Ordered
  <2>2. CASE UNCHANGED prio_notif
    BY <2>1, <2>2, PrioNotifSame, Zenon
  <2>3. ASSUME NEW e \in PrioNotification, e.msg_id # m, prio_notif' = Append(prio_notif, e)
        PROVE  <1>7!:
    <3>1. /\ ~Is(e, "REQUEST_RETRANSMIT", m) /\ One(Is(e, "REQUEST_RETRANSMIT", m)) = 0
          /\ ~Is(e, "STOP_FLOW", m) /\ One(Is(e, "STOP_FLOW", m)) = 0
      BY <2>3, Zenon DEF Is, One
    <3>2. /\ nRequestRetransmit(m)' = nRequestRetransmit(m) + One(Is(e, "REQUEST_RETRANSMIT", m))
          /\ nStopFlow(m)' = nStopFlow(m) + One(Is(e, "STOP_FLOW", m))
          /\ OrderedPrioNotif(m)'
      BY <2>1, <2>3, <3>1, PrioNotifAppend, Zenon
    <3> QED
      BY <1>1, <3>1, <3>2, CounterSteps, Zenon DEF Typed
  <2>4. CASE prio_notif # <<>> /\ Head(prio_notif).msg_id # m /\ prio_notif' = Tail(prio_notif)
    <3>1. /\ ~Is(Head(prio_notif), "REQUEST_RETRANSMIT", m) /\ One(Is(Head(prio_notif), "REQUEST_RETRANSMIT", m)) = 0
          /\ ~Is(Head(prio_notif), "STOP_FLOW", m) /\ One(Is(Head(prio_notif), "STOP_FLOW", m)) = 0
      BY <2>4, Zenon DEF Is, One
    <3>2. /\ nRequestRetransmit(m)' = nRequestRetransmit(m) - One(Is(Head(prio_notif), "REQUEST_RETRANSMIT", m))
          /\ nStopFlow(m)' = nStopFlow(m) - One(Is(Head(prio_notif), "STOP_FLOW", m))
          /\ OrderedPrioNotif(m)'
      BY <2>1, <2>4, <3>1, PrioNotifTail, Zenon
    <3> QED
      BY <1>1, <3>1, <3>2, CounterSteps, Zenon DEF Typed
  <2> QED
    BY <2>2, <2>3, <2>4, Zenon DEF QueuesElsewhere, OtherStep
<1> QED
  BY <1>2, <1>3, <1>4, <1>5, <1>6, <1>7, Zenon DEF CountersSame, Ordered

\* A step that is not about m preserves what the invariant says of m.
LEMMA Elsewhere ==
  ASSUME CountingFacts, TypeOK, NEW m \in MsgIds, Good(m),
         QueuesElsewhere(m), SenderSame(m), ReceiverSame(m)
  PROVE  Good(m)'
<1>1. LawsOf(m) /\ Ordered(m) /\ Flying(m) /\ Received(m) /\ Sent(m)
  BY Zenon DEF Good
<1>2. CountersSame(m) /\ Ordered(m)'
  BY <1>1, QueuesElsewhereCounters, Zenon
<1>3. /\ Posting(m)' = Posting(m) /\ Sending(m)' = Sending(m) /\ Keeping(m)' = Keeping(m)
      /\ Resending(m)' = Resending(m)
  BY DEF SenderSame, Posting, Sending, Keeping, Resending
<1>4. /\ Announced(m)' = Announced(m) /\ Receiving(m)' = Receiving(m)
      /\ Stopped(m)' = Stopped(m)
  BY DEF ReceiverSame, Announced, Receiving, Stopped
<1>5. LawsOf(m)'
  BY <1>1, <1>2, <1>3, <1>4, Zenon DEF LawsOf, CountersSame, SenderSame, ReceiverSame
<1>6. Flying(m)'
  <2>1. OnTheWay(m)' => OnTheWay(m)
    BY Zenon DEF OnTheWay, SenderSame, ReceiverSame
  <2> QED
    BY <1>1, <1>2, <1>3, <2>1, Zenon DEF Flying, CountersSame, SenderSame
<1>7. Received(m)'
  BY <1>1, <1>4, Zenon DEF Received, BytesOf, PayloadOf, Bound, AlignUp, MaxSeq,
     GetMaxSeqNum, ReceiverSame
<1>8. Sent(m)'
  BY <1>1, Zenon DEF Sent, MaxSeq, GetMaxSeqNum, SenderSame, ReceiverSame
<1> QED
  BY <1>2, <1>5, <1>6, <1>7, <1>8, Zenon DEF Good

-----------------------------------------------------------------------------
(***************************************************************************)
(* The invariant holds initially, and every action of the sending side (the*)
(* applications' posts, the priority channel, the sender's signals)        *)
(* preserves it: for each action, what it does to the conservation laws of *)
(* the message k it is about, and then that it preserves IInv.  What IInv  *)
(* says of the other messages is untouched (Elsewhere); for k, the unit of *)
(* each law moves from the counter it leaves to the counter it enters.     *)
(***************************************************************************)
\* The invariant holds initially.
LEMMA InitInv ==
  ASSUME CountingFacts, Init
  PROVE  IInv
<1>1. TypeOK
  <2>1. /\ posting \in MsgIds \cup {NoMsg}
        /\ udp_tx \in SUBSET AllPackets /\ net \in SUBSET AllPackets
        /\ sending_msgs \in SUBSET MsgIds /\ retransmitting_msgs \in SUBSET MsgIds
        /\ recv_msgs \in SUBSET MsgIds
    BY Zenon DEF Init
  <2>2. /\ send_posts \in [MsgIds -> Nat] /\ bytes_sent \in [MsgIds -> Nat]
        /\ confirmed \in [MsgIds -> Nat] /\ send_completions \in [MsgIds -> Nat]
        /\ recv_posts \in [MsgIds -> Nat]
        /\ block_size \in [MsgIds -> Nat] /\ bytes_received \in [MsgIds -> Nat]
        /\ recv_completions \in [MsgIds -> Nat] /\ stopped \in [MsgIds -> BOOLEAN]
        /\ retransmit_reqs \in [MsgIds -> SUBSET Seqs] /\ taken \in [MsgIds -> SUBSET Seqs]
        /\ msg_max_seq \in [MsgIds -> Seqs \cup {-1}]
    BY Zenon DEF Init
  <2>3. /\ sr_queue \in Seq(MsgIds) /\ rr_queue \in Seq(MsgIds)
        /\ prio_notif \in Seq(PrioNotification) /\ to_receiver \in Seq(ToReceiver)
        /\ to_sender \in Seq(ToSender) /\ recv_notif \in Seq(RecvNotification)
    BY DEF Init
  <2> QED
    BY <2>1, <2>2, <2>3, Zenon DEF TypeOK
<1>2. Contents
  BY DEF Init, Contents
<1>3. ASSUME NEW m \in MsgIds PROVE Good(m)
  <2>1. /\ sr_queue = <<>> /\ rr_queue = <<>> /\ to_receiver = <<>> /\ to_sender = <<>>
        /\ recv_notif = <<>> /\ prio_notif = <<>>
    BY Zenon DEF Init
  <2>2. /\ nSend(m) = 0 /\ nRecv(m) = 0 /\ nFlowStart(m) = 0 /\ nFlowFinish(m) = 0
        /\ nStopConfirm(m) = 0 /\ nFinishFlow(m) = 0 /\ nConfirmStop(m) = 0
        /\ nRetransmitRequest(m) = 0 /\ nStopRequest(m) = 0
        /\ nRequestRetransmit(m) = 0 /\ nStopFlow(m) = 0
    BY <2>1, EmptyQueue, Zenon DEF nSend, nRecv, nFlowStart, nFlowFinish, nStopConfirm,
       nFinishFlow, nConfirmStop, nRetransmitRequest, nStopRequest,
       nRequestRetransmit, nStopFlow
  <2>3. Ordered(m)
    BY <2>1, EmptyQueue, Zenon DEF Ordered, OrderedToReceiver, OrderedRecvNotif,
       OrderedToSender, OrderedPrioNotif
  <2>4. /\ Posting(m) = 0 /\ Sending(m) = 0 /\ Keeping(m) = 0 /\ Resending(m) = 0
        /\ Announced(m) = 0 /\ Receiving(m) = 0 /\ Stopped(m) = 0
    BY MsgFacts, Zenon DEF Init, One, Posting, Sending, Keeping, Resending, Announced,
       Receiving, Stopped
  <2>5. /\ send_posts[m] = 0 /\ confirmed[m] = 0 /\ recv_posts[m] = 0
        /\ recv_completions[m] = 0 /\ taken[m] = {} /\ block_size[m] = 0
        /\ bytes_received[m] = 0 /\ stopped[m] = FALSE /\ retransmit_reqs[m] = {}
        /\ msg_max_seq[m] = -1 /\ m \notin sending_msgs /\ udp_tx = {} /\ net = {}
    BY Zenon DEF Init
  <2>6. LawsOf(m)
    <3>1. \A w \in Nat : Laws(0, 0, 0, 0, 0, 0, 0, 0, 0, 0, 0, 0,
                              0, 0, 0, 0, 0, 0, 0, 0, 0, 0, w)
      BY DEF Laws
    <3>2. Kept[m] \in Nat
      BY MsgFacts, Zenon
    <3> QED
      BY <2>2, <2>4, <2>5, <3>1, <3>2, Zenon DEF LawsOf
  <2>7. Flying(m)
    BY <2>5, Zenon DEF Flying, OnTheWay
  <2>8. Received(m)
    <3>1. taken[m] \ {MaxSeq(m)} = {} /\ MaxSeq(m) \notin taken[m]
      BY <2>5, Zenon
    <3>2. Cardinality(taken[m] \ {MaxSeq(m)}) = 0
      BY <3>1, NoneOrAllPackets, Zenon
    <3>3. BytesOf(m)
      BY <2>5, <3>1, <3>2, SegmentAssumption DEF BytesOf, PayloadOf
    <3>4. 0 <= MaxSeq(m) + 1
      BY MsgFacts
    <3> QED
      BY <2>5, <3>3, <3>4, Zenon DEF Received
  <2>9. Sent(m)
    BY <2>5, Zenon DEF Sent
  <2> QED
    BY <2>3, <2>6, <2>7, <2>8, <2>9, Zenon DEF Good
<1> QED
  BY <1>1, <1>2, <1>3, Zenon DEF IInv

\* PostSend moves the message into the application thread and announces it.
LEMMA PostSendInv ==
  ASSUME CountingFacts, MaxPosts = 1, IInv, NEW k \in MsgIds, PostSend(k)
  PROVE  IInv'
\* PostSend: posts and announces the message.
<1>laws. ASSUME NEW m, LawsOf(m), send_posts[m] < 1
         PROVE  /\ nFlowFinish(m) = 0
                /\ nStopConfirm(m) = 0
                /\ Laws(1, confirmed[m], recv_posts[m], recv_completions[m], 1,
                        nSend(m), Sending(m), Keeping(m), nRecv(m), Receiving(m),
                        nFlowStart(m) + 1, Announced(m), nFlowFinish(m),
                        nFinishFlow(m), nRetransmitRequest(m), nRequestRetransmit(m),
                        Resending(m), Stopped(m), nStopRequest(m), nStopFlow(m),
                        nStopConfirm(m), nConfirmStop(m), Kept[m])
  <2>1. \A sp, sc, rp, rc, po, qs, se, ke, qr, rv, fs, an,
           ff, nf, rr, rn, re, st, sr, sf, cf, cs, w :
          /\ Laws(sp, sc, rp, rc, po, qs, se, ke, qr, rv, fs, an,
                  ff, nf, rr, rn, re, st, sr, sf, cf, cs, w)
          /\ sp < 1
          => /\ ff = 0
             /\ cf = 0
             /\ Laws(1, sc, rp, rc, 1, qs, se, ke, qr, rv, fs + 1, an,
                     ff, nf, rr, rn, re, st, sr, sf, cf, cs, w)
    BY DEF Laws
  <2> QED
    BY <1>laws, <2>1, Zenon DEF LawsOf
<1> DEFINE e == [type |-> "kFlowStart", msg_id |-> k, max_seq_num |-> MaxSeq(k)]
<1>1. TypeOK /\ Contents /\ e \in Announcements /\ e \in ToReceiver
  BY MsgFacts, Zenon DEF IInv, Announcements, ToReceiver
<1>2. to_receiver' = Append(to_receiver, e) /\ e.type = "kFlowStart" /\ e.msg_id = k
  BY Zenon DEF PostSend
<1> HIDE DEF e
<1>3. TypeOK'
  <2>1. send_posts' \in [MsgIds -> Nat]
    BY <1>1, CounterGrows, Zenon DEF TypeOK, PostSend
  <2>2. to_receiver' \in Seq(ToReceiver)
    BY <1>1, <1>2, QueueTypes, Zenon DEF TypeOK
  <2> QED
    BY <1>1, <2>1, <2>2, Zenon DEF TypeOK, PostSend, receiver_vars, recv_state
<1>4. Contents'
  BY <1>1, <1>2, QueueTypes, Zenon DEF Contents, PostSend, receiver_vars
<1>5. ASSUME NEW m \in MsgIds, m # k PROVE Good(m)'
  <2>1. QueuesElsewhere(m)
    BY <1>1, <1>2, <1>5, Zenon DEF QueuesElsewhere, OtherPost, OtherStep, PostSend,
       receiver_vars
  <2>2. SenderSame(m) /\ ReceiverSame(m)
    BY <1>1, <1>5, MsgFacts, Zenon DEF SenderSame, ReceiverSame, PostSend, receiver_vars,
       recv_state, TypeOK
  <2> QED
    BY <1>1, <2>1, <2>2, Elsewhere, Zenon DEF IInv
<1>6. Good(k)'
  <2>1. LawsOf(k) /\ Ordered(k) /\ Flying(k) /\ Received(k) /\ Sent(k) /\ Typed(k)
    BY <1>1, Types, Zenon DEF IInv, Good
  <2>2. /\ nFlowStart(k)' = nFlowStart(k) + 1
        /\ nFlowFinish(k)' = nFlowFinish(k)
        /\ nStopConfirm(k)' = nStopConfirm(k)
        /\ OrderedToReceiver(k) /\ nFlowFinish(k) = 0 /\ nStopConfirm(k) = 0
             => OrderedToReceiver(k)'
    <3>1. /\ One(Is(e, "kFlowStart", k)) = 1
          /\ One(Is(e, "kFlowFinish", k)) = 0
          /\ One(Is(e, "kStopConfirm", k)) = 0
      BY <1>2, Zenon DEF Is, One
    <3>2. /\ nFlowStart(k)' = nFlowStart(k) + One(Is(e, "kFlowStart", k))
          /\ nFlowFinish(k)' = nFlowFinish(k) + One(Is(e, "kFlowFinish", k))
          /\ nStopConfirm(k)' = nStopConfirm(k) + One(Is(e, "kStopConfirm", k))
          /\ OrderedToReceiver(k) /\ nFlowFinish(k) = 0 /\ nStopConfirm(k) = 0
               => OrderedToReceiver(k)'
      BY <1>1, <1>2, ToReceiverAppend, Zenon DEF Is
    <3> QED
      BY <2>1, <3>1, <3>2, CounterSteps, Zenon DEF Typed
  <2>3. /\ nSend(k)' = nSend(k) /\ nRecv(k)' = nRecv(k)
        /\ nFinishFlow(k)' = nFinishFlow(k) /\ nConfirmStop(k)' = nConfirmStop(k)
        /\ nRetransmitRequest(k)' = nRetransmitRequest(k)
        /\ nStopRequest(k)' = nStopRequest(k)
        /\ nRequestRetransmit(k)' = nRequestRetransmit(k)
        /\ nStopFlow(k)' = nStopFlow(k)
        /\ OrderedRecvNotif(k)' /\ OrderedToSender(k)' /\ OrderedPrioNotif(k)'
    BY <1>1, <2>1, SrQueueSteps, RrQueueSteps, RecvNotifSame, ToSenderSame, PrioNotifSame,
       Zenon
       DEF PostSend, receiver_vars, Ordered
  <2>4. /\ Posting(k)' = 1
        /\ Sending(k)' = Sending(k) /\ Keeping(k)' = Keeping(k)
        /\ Resending(k)' = Resending(k) /\ Announced(k)' = Announced(k)
        /\ Receiving(k)' = Receiving(k) /\ Stopped(k)' = Stopped(k)
    BY MsgFacts, Zenon DEF PostSend, receiver_vars, recv_state, One, Posting, Sending, Keeping,
       Resending, Announced, Receiving, Stopped
  <2>5. /\ send_posts[k] = 0 /\ send_posts'[k] = 1
        /\ confirmed'[k] = confirmed[k] /\ recv_posts'[k] = recv_posts[k]
        /\ recv_completions'[k] = recv_completions[k]
    <3>1. send_posts[k] \in Nat /\ send_posts[k] < MaxPosts /\ send_posts'[k] = send_posts[k] + 1
      BY <1>1, Zenon DEF TypeOK, PostSend
    <3>2. send_posts[k] = 0 /\ send_posts'[k] = 1
      BY <3>1
    <3> QED
      BY <3>2, Zenon DEF PostSend, receiver_vars
  <2>6. LawsOf(k)' /\ nFlowFinish(k) = 0 /\ nStopConfirm(k) = 0
    <3>1. LawsOf(k) /\ send_posts[k] < 1
      BY <2>1, <2>5
    <3> QED
      BY <2>2, <2>3, <2>4, <2>5, <3>1, <1>laws, Zenon DEF LawsOf
  <2>7. Ordered(k)'
    BY <2>1, <2>2, <2>3, <2>6, Zenon DEF Ordered
  <2>8. Flying(k)'
    <3>1. ~OnTheWay(k)
      BY <2>1, <2>5 DEF Flying
    <3>2. OnTheWay(k)' <=> OnTheWay(k)
      BY Zenon DEF OnTheWay, PostSend, receiver_vars, recv_state
    <3> QED
      BY <3>1, <3>2, Zenon DEF Flying
  <2>9. Received(k)' /\ Sent(k)'
    BY <2>1, <2>4, Zenon DEF Received, BytesOf, PayloadOf, Sent, Bound, AlignUp, MaxSeq,
       GetMaxSeqNum,
       PostSend, receiver_vars, recv_state
  <2> QED
    BY <2>6, <2>7, <2>8, <2>9, Zenon DEF Good
<1> QED
  BY <1>3, <1>4, <1>5, <1>6, Zenon DEF IInv

\* EnqueueSend moves the message from the application thread to the queue.
LEMMA EnqueueSendInv ==
  ASSUME CountingFacts, IInv, EnqueueSend
  PROVE  IInv'
\* EnqueueSend: the message passes to the send queue.
<1>laws. ASSUME NEW m, LawsOf(m), Posting(m) = 1
         PROVE  /\ Laws(send_posts[m], confirmed[m], recv_posts[m],
                        recv_completions[m], 0, nSend(m) + 1, Sending(m), Keeping(m),
                        nRecv(m), Receiving(m), nFlowStart(m), Announced(m),
                        nFlowFinish(m), nFinishFlow(m), nRetransmitRequest(m),
                        nRequestRetransmit(m), Resending(m), Stopped(m),
                        nStopRequest(m), nStopFlow(m), nStopConfirm(m),
                        nConfirmStop(m), Kept[m])
  <2>1. \A sp, sc, rp, rc, po, qs, se, ke, qr, rv, fs, an,
           ff, nf, rr, rn, re, st, sr, sf, cf, cs, w :
          /\ Laws(sp, sc, rp, rc, po, qs, se, ke, qr, rv, fs, an,
                  ff, nf, rr, rn, re, st, sr, sf, cf, cs, w)
          /\ po = 1
          => /\ Laws(sp, sc, rp, rc, 0, qs + 1, se, ke, qr, rv, fs, an,
                     ff, nf, rr, rn, re, st, sr, sf, cf, cs, w)
    BY DEF Laws
  <2> QED
    BY <1>laws, <2>1, Zenon DEF LawsOf
<1>1. TypeOK /\ Contents
  BY Zenon DEF IInv
<1>2. PICK k \in MsgIds : sr_queue' = Append(sr_queue, k) /\ posting = k /\ posting' = NoMsg
  BY <1>1, Zenon DEF EnqueueSend, TypeOK
<1>3. TypeOK'
  <2>1. sr_queue' \in Seq(MsgIds) /\ posting' \in MsgIds \cup {NoMsg}
    BY <1>1, <1>2 DEF TypeOK
  <2> QED
    BY <1>1, <2>1, Zenon DEF TypeOK, EnqueueSend, receiver_vars, recv_state
<1>4. Contents'
  BY <1>1, QueueTypes, Zenon DEF Contents, EnqueueSend, receiver_vars
<1>5. ASSUME NEW m \in MsgIds, m # k PROVE Good(m)'
  <2>1. QueuesElsewhere(m)
    BY <1>1, <1>2, <1>5, Zenon DEF QueuesElsewhere, OtherPost, OtherStep, EnqueueSend,
       receiver_vars
  <2>2. SenderSame(m) /\ ReceiverSame(m)
    BY <1>1, <1>2, <1>5, MsgFacts, Zenon DEF SenderSame, ReceiverSame, EnqueueSend,
       receiver_vars, recv_state
  <2> QED
    BY <1>1, <2>1, <2>2, Elsewhere, Zenon DEF IInv
<1>6. Good(k)'
  <2>1. LawsOf(k) /\ Ordered(k) /\ Flying(k) /\ Received(k) /\ Sent(k) /\ Typed(k)
    BY <1>1, Types, Zenon DEF IInv, Good
  <2>2. nSend(k)' = nSend(k) + 1
    <3>1. nSend(k)' = nSend(k) + One(k = k)
      BY <1>1, <1>2, SrQueueSteps, Zenon
    <3> QED
      BY <3>1, Zenon DEF One
  <2>3. /\ nRecv(k)' = nRecv(k) /\ nFlowStart(k)' = nFlowStart(k)
        /\ nFlowFinish(k)' = nFlowFinish(k)
        /\ nStopConfirm(k)' = nStopConfirm(k)
        /\ nFinishFlow(k)' = nFinishFlow(k)
        /\ nConfirmStop(k)' = nConfirmStop(k)
        /\ nRetransmitRequest(k)' = nRetransmitRequest(k)
        /\ nStopRequest(k)' = nStopRequest(k)
        /\ nRequestRetransmit(k)' = nRequestRetransmit(k)
        /\ nStopFlow(k)' = nStopFlow(k) /\ OrderedToReceiver(k)'
        /\ OrderedRecvNotif(k)' /\ OrderedToSender(k)'
        /\ OrderedPrioNotif(k)'
    BY <1>1, <1>2, <2>1, RrQueueSteps, ToReceiverSame, RecvNotifSame, ToSenderSame,
       PrioNotifSame, Zenon
       DEF EnqueueSend, receiver_vars, Ordered
  <2>4. /\ Posting(k)' = 0 /\ Sending(k)' = Sending(k)
        /\ Keeping(k)' = Keeping(k) /\ Resending(k)' = Resending(k)
        /\ Announced(k)' = Announced(k) /\ Receiving(k)' = Receiving(k)
        /\ Stopped(k)' = Stopped(k)
    BY <1>1, <1>2, MsgFacts, Zenon DEF EnqueueSend, receiver_vars, recv_state, One, Posting,
       Sending, Keeping,
       Resending, Announced, Receiving, Stopped
  <2>5. /\ send_posts'[k] = send_posts[k]
        /\ confirmed'[k] = confirmed[k]
        /\ recv_posts'[k] = recv_posts[k]
        /\ recv_completions'[k] = recv_completions[k]
    BY <1>1, Zenon DEF TypeOK, EnqueueSend, receiver_vars
  <2>6. LawsOf(k)'
    <3>1. Posting(k) = 1
      BY <1>2, Zenon DEF Posting, One
    <3> QED
      BY <2>1, <2>2, <2>3, <2>4, <2>5, <3>1, <1>laws, Zenon DEF LawsOf
  <2>7. Ordered(k)'
    BY <2>3, Zenon DEF Ordered
  <2>8. Flying(k)'
    <3>1. UNCHANGED <<udp_tx, net, taken>>
      BY Zenon DEF EnqueueSend, receiver_vars, recv_state
    <3>2. Posting(k) = 1
      BY <1>2, Zenon DEF Posting, One
    <3>3. ~OnTheWay(k)
      BY <2>1, <3>2 DEF Flying
    <3> QED
      BY <3>1, <3>3, Zenon DEF Flying, OnTheWay
  <2>9. Received(k)' /\ Sent(k)'
    BY <2>1, <2>4, Zenon DEF Received, BytesOf, Sent, Bound, AlignUp, MaxSeq, GetMaxSeqNum,
       EnqueueSend, receiver_vars, recv_state
  <2> QED
    BY <2>6, <2>7, <2>8, <2>9, Zenon DEF Good
<1> QED
  BY <1>3, <1>4, <1>5, <1>6, Zenon DEF IInv

\* PopSendRequest begins the first transmission.
LEMMA PopSendRequestInv ==
  ASSUME CountingFacts, IInv, PopSendRequest
  PROVE  IInv'
\* PopSendRequest: and from there to the sending messages.
<1>laws. ASSUME NEW m, LawsOf(m), nSend(m) >= 1
         PROVE  /\ Sending(m) = 0
                /\ Laws(send_posts[m], confirmed[m], recv_posts[m],
                        recv_completions[m], Posting(m), nSend(m) - 1, 1, Keeping(m),
                        nRecv(m), Receiving(m), nFlowStart(m), Announced(m),
                        nFlowFinish(m), nFinishFlow(m), nRetransmitRequest(m),
                        nRequestRetransmit(m), Resending(m), Stopped(m),
                        nStopRequest(m), nStopFlow(m), nStopConfirm(m),
                        nConfirmStop(m), Kept[m])
  <2>1. \A sp, sc, rp, rc, po, qs, se, ke, qr, rv, fs, an,
           ff, nf, rr, rn, re, st, sr, sf, cf, cs, w :
          /\ Laws(sp, sc, rp, rc, po, qs, se, ke, qr, rv, fs, an,
                  ff, nf, rr, rn, re, st, sr, sf, cf, cs, w)
          /\ qs >= 1
          => /\ se = 0
             /\ Laws(sp, sc, rp, rc, po, qs - 1, 1, ke, qr, rv, fs, an,
                     ff, nf, rr, rn, re, st, sr, sf, cf, cs, w)
    BY DEF Laws
  <2> QED
    BY <1>laws, <2>1, Zenon DEF LawsOf
<1>1. TypeOK /\ Contents
  BY Zenon DEF IInv
<1>0. PICK k \in MsgIds : sr_queue # <<>> /\ Head(sr_queue) = k
  <2>1. sr_queue # <<>> /\ sr_queue \in Seq(MsgIds)
    BY <1>1, Zenon DEF PopSendRequest, TypeOK
  <2> QED
    BY <2>1
<1>2. /\ sr_queue # <<>> /\ Head(sr_queue) = k /\ sr_queue' = Tail(sr_queue)
      /\ sending_msgs' = sending_msgs \cup {k}
      /\ bytes_sent' = [bytes_sent EXCEPT ![k] = 0]
  BY <1>0, Zenon DEF PopSendRequest
<1>3. TypeOK'
  <2>0. sr_queue' \in Seq(MsgIds)
    BY <1>1, <1>2, QueueTypes, Zenon DEF TypeOK
  <2>1. sending_msgs' \in SUBSET MsgIds /\ bytes_sent' \in [MsgIds -> Nat]
    BY <1>1, <1>2, Zenon DEF TypeOK
  <2> QED
    BY <1>1, <2>0, <2>1, Zenon DEF TypeOK, PopSendRequest, receiver_vars, recv_state,
       sender_vars
<1>4. Contents'
  BY <1>1, QueueTypes, Zenon DEF Contents, PopSendRequest, receiver_vars, recv_state,
     sender_vars
<1>5. ASSUME NEW m \in MsgIds, m # k PROVE Good(m)'
  <2>1. QueuesElsewhere(m)
    BY <1>1, <1>2, <1>5, Zenon DEF QueuesElsewhere, OtherPost, OtherStep, PopSendRequest,
       receiver_vars, sender_vars
  <2>2. SenderSame(m) /\ ReceiverSame(m)
    BY <1>1, <1>2, <1>5, MsgFacts, Zenon DEF SenderSame, ReceiverSame, PopSendRequest,
       receiver_vars, recv_state,
       sender_vars, TypeOK
  <2> QED
    BY <1>1, <2>1, <2>2, Elsewhere, Zenon DEF IInv
<1>6. Good(k)'
  <2>1. LawsOf(k) /\ Ordered(k) /\ Flying(k) /\ Received(k) /\ Sent(k) /\ Typed(k)
    BY <1>1, Types, Zenon DEF IInv, Good
  <2>2. nSend(k) >= 1 /\ nSend(k)' = nSend(k) - 1
    <3>1. nSend(k)' = nSend(k) - One(Head(sr_queue) = k) /\ nSend(k)' \in Nat /\ One(Head(sr_queue) = k) = 1
      BY <1>1, <1>2, SrQueueSteps, Zenon DEF One
    <3> QED
      BY <2>1, <3>1, CounterSteps, Zenon DEF Typed
  <2>3. /\ nRecv(k)' = nRecv(k) /\ nFlowStart(k)' = nFlowStart(k)
        /\ nFlowFinish(k)' = nFlowFinish(k)
        /\ nStopConfirm(k)' = nStopConfirm(k)
        /\ nFinishFlow(k)' = nFinishFlow(k)
        /\ nConfirmStop(k)' = nConfirmStop(k)
        /\ nRetransmitRequest(k)' = nRetransmitRequest(k)
        /\ nStopRequest(k)' = nStopRequest(k)
        /\ nRequestRetransmit(k)' = nRequestRetransmit(k)
        /\ nStopFlow(k)' = nStopFlow(k) /\ OrderedToReceiver(k)'
        /\ OrderedRecvNotif(k)' /\ OrderedToSender(k)'
        /\ OrderedPrioNotif(k)'
    BY <1>1, <1>2, <2>1, RrQueueSteps, ToReceiverSame, RecvNotifSame, ToSenderSame,
       PrioNotifSame, Zenon
       DEF PopSendRequest, receiver_vars, sender_vars, Ordered
  <2>4. /\ Sending(k)' = 1 /\ Posting(k)' = Posting(k)
        /\ Keeping(k)' = Keeping(k) /\ Resending(k)' = Resending(k)
        /\ Announced(k)' = Announced(k) /\ Receiving(k)' = Receiving(k)
        /\ Stopped(k)' = Stopped(k)
    BY <1>2, Zenon DEF PopSendRequest, receiver_vars, recv_state, sender_vars, One, Posting,
       Sending, Keeping,
       Resending, Announced, Receiving, Stopped
  <2>5. /\ send_posts'[k] = send_posts[k]
        /\ confirmed'[k] = confirmed[k]
        /\ recv_posts'[k] = recv_posts[k]
        /\ recv_completions'[k] = recv_completions[k]
    BY <1>1, <1>2, Zenon DEF TypeOK, PopSendRequest, receiver_vars, sender_vars
  <2>6. LawsOf(k)'
    BY <2>1, <2>2, <2>3, <2>4, <2>5, <1>laws, Zenon DEF LawsOf
  <2>7. Ordered(k)'
    BY <2>3, Zenon DEF Ordered
  <2>8. Flying(k)'
    <3>1. ~OnTheWay(k)
      BY <2>1, <2>2 DEF Flying
    <3> QED
      BY <3>1, Zenon DEF Flying, OnTheWay, PopSendRequest, receiver_vars, recv_state
  <2>9. Received(k)' /\ Sent(k)'
    <3>1. bytes_sent'[k] = Segment * 0 /\ 0 \in 0 .. MaxSeq(k)
      BY <1>1, <1>2, MsgFacts, SegmentAssumption DEF TypeOK
    <3> QED
      BY <2>1, <2>4, <3>1, Zenon DEF Received, BytesOf, PayloadOf, Sent, Bound, AlignUp,
         MaxSeq, GetMaxSeqNum,
         PopSendRequest, receiver_vars, recv_state
  <2> QED
    BY <2>6, <2>7, <2>8, <2>9, Zenon DEF Good
<1> QED
  BY <1>3, <1>4, <1>5, <1>6, Zenon DEF IInv

\* PollSendingMessages sends a packet; after the last one, FlowFinish.
LEMMA PollSendingMessagesInv ==
  ASSUME CountingFacts, IInv, NEW k \in MsgIds, PollSendingMessages(k)
  PROVE  IInv'
\* A message being sent has been posted and is nowhere else.
<1>sending. ASSUME NEW m, LawsOf(m), Sending(m) = 1
            PROVE  /\ send_posts[m] = 1
                   /\ Posting(m) = 0
                   /\ nSend(m) = 0
  <2>1. \A sp, sc, rp, rc, po, qs, se, ke, qr, rv, fs, an,
           ff, nf, rr, rn, re, st, sr, sf, cf, cs, w :
          /\ Laws(sp, sc, rp, rc, po, qs, se, ke, qr, rv, fs, an,
                  ff, nf, rr, rn, re, st, sr, sf, cf, cs, w)
          /\ se = 1
          => /\ sp = 1
             /\ po = 0
             /\ qs = 0
    BY DEF Laws
  <2> QED
    BY <1>sending, <2>1, Zenon DEF LawsOf
\* PollSendingMessages, last packet: the round goes into FlowFinish.
<1>laws. ASSUME NEW m, LawsOf(m), Sending(m) = 1
         PROVE  /\ nStopConfirm(m) = 0
                /\ Laws(send_posts[m], confirmed[m], recv_posts[m],
                        recv_completions[m], Posting(m), nSend(m), 0, 1, nRecv(m),
                        Receiving(m), nFlowStart(m), Announced(m), nFlowFinish(m) + 1,
                        nFinishFlow(m), nRetransmitRequest(m), nRequestRetransmit(m),
                        Resending(m), Stopped(m), nStopRequest(m), nStopFlow(m),
                        nStopConfirm(m), nConfirmStop(m), Kept[m])
  <2>1. \A sp, sc, rp, rc, po, qs, se, ke, qr, rv, fs, an,
           ff, nf, rr, rn, re, st, sr, sf, cf, cs, w :
          /\ Laws(sp, sc, rp, rc, po, qs, se, ke, qr, rv, fs, an,
                  ff, nf, rr, rn, re, st, sr, sf, cf, cs, w)
          /\ se = 1
          => /\ cf = 0
             /\ Laws(sp, sc, rp, rc, po, qs, 0, 1, qr, rv, fs, an,
                     ff + 1, nf, rr, rn, re, st, sr, sf, cf, cs, w)
    BY DEF Laws
  <2> QED
    BY <1>laws, <2>1, ZenonT(40) DEF LawsOf
<1> DEFINE e == [type |-> "kFlowFinish", msg_id |-> k]
<1>1. TypeOK /\ Contents /\ k \in sending_msgs
  BY Zenon DEF IInv, PollSendingMessages, IsLeast
<1>7. PICK i \in 0 .. MaxSeq(k) : bytes_sent[k] = Segment * i
  BY <1>1, Zenon DEF IInv, Good, Sent
<1>8. e \in Announcements /\ e \in ToReceiver
  BY Zenon DEF Announcements, ToReceiver
<1> DEFINE pkt == PartitionOneBySeq(Size[k], i)
           next == Segment * i + pkt.bytes
<1>12. PartitionOne(Size[k], bytes_sent[k]) = pkt
  BY <1>7, PacketFacts
<1>13. /\ IsLast(Size[k], pkt) <=> i = MaxSeq(k)
       /\ next \in Nat /\ (next >= Size[k] <=> i = MaxSeq(k))
       /\ i # MaxSeq(k) => next = Segment * (i + 1)
       /\ Packet(k, pkt) \in AllPackets /\ Packet(k, pkt).msg_id = k
  BY PacketFacts, Zenon
<1>14. /\ RoutePacket(Packet(k, pkt), IsLast(Size[k], pkt))
       /\ bytes_sent' = [bytes_sent EXCEPT ![k] = next]
       /\ IF next >= Size[k]
            THEN /\ sending_msgs' = sending_msgs \ {k}
                 /\ retransmitting_msgs' = retransmitting_msgs \cup {k}
            ELSE UNCHANGED <<sending_msgs, retransmitting_msgs>>
  BY <1>7, <1>12, ZenonT(40) DEF PollSendingMessages
<1> HIDE DEF pkt, next
<1>2. /\ e.type = "kFlowFinish" /\ e.msg_id = k
      /\ to_receiver' = IF i = MaxSeq(k) THEN Append(to_receiver, e) ELSE to_receiver
  BY <1>13, <1>14, Zenon DEF RoutePacket
<1>9. PICK p \in AllPackets : p.msg_id = k /\ udp_tx' = udp_tx \cup {p}
  BY <1>13, <1>14, Zenon DEF RoutePacket
<1>10. PICK sent \in Nat : /\ bytes_sent' = [bytes_sent EXCEPT ![k] = sent]
                           /\ i # MaxSeq(k) => sent = Segment * (i + 1)
  BY <1>13, <1>14, ZenonT(40)
<1>11. IF i = MaxSeq(k)
         THEN /\ sending_msgs' = sending_msgs \ {k}
              /\ retransmitting_msgs' = retransmitting_msgs \cup {k}
         ELSE UNCHANGED <<sending_msgs, retransmitting_msgs>>
  BY <1>13, <1>14, Zenon
<1> HIDE DEF e
<1>3. TypeOK'
  <2>1. to_receiver' \in Seq(ToReceiver)
    BY <1>1, <1>2, <1>8, QueueTypes, Zenon DEF TypeOK
  <2>2. bytes_sent' \in [MsgIds -> Nat]
    BY <1>1, <1>10, Zenon DEF TypeOK
  <2>3. /\ sending_msgs' \in SUBSET MsgIds /\ retransmitting_msgs' \in SUBSET MsgIds
        /\ udp_tx' \in SUBSET AllPackets
    BY <1>1, <1>9, <1>11, ZenonT(40) DEF TypeOK
  <2> QED
    BY <1>1, <2>1, <2>2, <2>3, ZenonT(40)
       DEF TypeOK, PollSendingMessages, receiver_vars, recv_state
<1>4. Contents'
  BY <1>1, <1>2, <1>8, QueueTypes, Zenon DEF Contents, PollSendingMessages, receiver_vars,
     recv_state
<1>5. ASSUME NEW m \in MsgIds, m # k PROVE Good(m)'
  <2>1. QueuesElsewhere(m)
    BY <1>1, <1>2, <1>5, <1>8, Zenon DEF QueuesElsewhere, OtherPost, OtherStep,
       PollSendingMessages, receiver_vars
  <2>2. ReceiverSame(m)
    BY ZenonT(40) DEF ReceiverSame, PollSendingMessages, receiver_vars, recv_state
  <2>3. SenderSame(m)
    <3>1. bytes_sent'[m] = bytes_sent[m]
      BY <1>1, <1>5, <1>10, Zenon DEF TypeOK
    <3>2. /\ m \in sending_msgs' <=> m \in sending_msgs
          /\ m \in retransmitting_msgs' <=> m \in retransmitting_msgs
      BY <1>5, <1>11, Zenon
    <3>3. UNCHANGED <<posting, send_posts, retransmit_reqs, confirmed, net>>
      BY Zenon DEF PollSendingMessages
    <3>4. \A r \in (udp_tx \cup net)' : r.msg_id = m => r \in udp_tx \cup net
      BY <1>5, <1>9, <3>3, Zenon
    <3> QED
      BY <3>1, <3>2, <3>3, <3>4, Zenon DEF SenderSame
  <2> QED
    BY <1>1, <2>1, <2>2, <2>3, Elsewhere, Zenon DEF IInv
<1>6. Good(k)'
  <2>1. LawsOf(k) /\ Ordered(k) /\ Flying(k) /\ Received(k) /\ Sent(k) /\ Typed(k)
    BY <1>1, Types, Zenon DEF IInv, Good
  <2>2. Sending(k) = 1 /\ send_posts[k] = 1 /\ Posting(k) = 0 /\ nSend(k) = 0
    <3>1. Sending(k) = 1
      BY <1>1, Zenon DEF Sending, One
    <3> QED
      BY <2>1, <3>1, <1>sending, Zenon
  <2>3. /\ nSend(k)' = nSend(k) /\ nRecv(k)' = nRecv(k)
        /\ nFinishFlow(k)' = nFinishFlow(k)
        /\ nConfirmStop(k)' = nConfirmStop(k)
        /\ nRetransmitRequest(k)' = nRetransmitRequest(k)
        /\ nStopRequest(k)' = nStopRequest(k)
        /\ nRequestRetransmit(k)' = nRequestRetransmit(k)
        /\ nStopFlow(k)' = nStopFlow(k) /\ OrderedRecvNotif(k)'
        /\ OrderedToSender(k)' /\ OrderedPrioNotif(k)'
    BY <1>1, <1>2, <2>1, SrQueueSteps, RrQueueSteps, RecvNotifSame, ToSenderSame,
       PrioNotifSame, ZenonT(40)
       DEF PollSendingMessages, receiver_vars, Ordered
  <2>5. /\ send_posts'[k] = send_posts[k]
        /\ confirmed'[k] = confirmed[k]
        /\ recv_posts'[k] = recv_posts[k]
        /\ recv_completions'[k] = recv_completions[k]
    BY <1>1, Zenon DEF TypeOK, PollSendingMessages, receiver_vars
  <2>6. Received(k)'
    BY <2>1, Zenon DEF Received, BytesOf, PayloadOf, Bound, AlignUp, MaxSeq, GetMaxSeqNum,
       Receiving,
       PollSendingMessages, receiver_vars, recv_state
  <2>7. CASE i = MaxSeq(k)
    <3>1. /\ nFlowStart(k)' = nFlowStart(k)
          /\ nFlowFinish(k)' = nFlowFinish(k) + 1
          /\ nStopConfirm(k)' = nStopConfirm(k)
          /\ OrderedToReceiver(k) /\ nStopConfirm(k) = 0 => OrderedToReceiver(k)'
      <4>1. /\ One(Is(e, "kFlowStart", k)) = 0
            /\ One(Is(e, "kFlowFinish", k)) = 1
            /\ One(Is(e, "kStopConfirm", k)) = 0
        BY <1>2, Zenon DEF Is, One
      <4>2. /\ nFlowStart(k)' = nFlowStart(k) + One(Is(e, "kFlowStart", k))
            /\ nFlowFinish(k)' = nFlowFinish(k) + One(Is(e, "kFlowFinish", k))
            /\ nStopConfirm(k)' = nStopConfirm(k) + One(Is(e, "kStopConfirm", k))
            /\ OrderedToReceiver(k) /\ nStopConfirm(k) = 0 => OrderedToReceiver(k)'
        BY <1>1, <1>2, <1>8, <2>7, ToReceiverAppend, Zenon DEF Is
      <4> QED
        BY <2>1, <4>1, <4>2, CounterSteps, Zenon DEF Typed
    <3>2. /\ Sending(k)' = 0 /\ Keeping(k)' = 1 /\ Posting(k)' = Posting(k)
            /\ Resending(k)' = Resending(k) /\ Announced(k)' = Announced(k)
            /\ Receiving(k)' = Receiving(k) /\ Stopped(k)' = Stopped(k)
      BY <1>11, <2>7, Zenon DEF PollSendingMessages, receiver_vars, recv_state, One,
         Posting, Sending, Keeping,
           Resending, Announced, Receiving, Stopped
    <3>3. LawsOf(k)' /\ nStopConfirm(k) = 0
      BY <2>1, <2>2, <2>3, <2>5, <3>1, <3>2, <1>laws, ZenonT(40) DEF LawsOf
    <3>4. Ordered(k)'
      BY <2>1, <2>3, <3>1, <3>3, Zenon DEF Ordered
    <3>5. Flying(k)'
      BY <2>2, <2>3, <2>5, <3>2, ZenonT(40) DEF Flying
    <3>6. Sent(k)'
      BY <1>11, <2>1, <2>7, Zenon DEF Sent, MaxSeq, GetMaxSeqNum, PollSendingMessages,
         receiver_vars
    <3> QED
      BY <2>6, <3>3, <3>4, <3>5, <3>6, Zenon DEF Good
  <2>8. CASE ~(i = MaxSeq(k))
    <3>1. UNCHANGED to_receiver
      BY <1>2, <2>8, Zenon
    <3>2. /\ nFlowStart(k)' = nFlowStart(k) /\ nFlowFinish(k)' = nFlowFinish(k)
          /\ nStopConfirm(k)' = nStopConfirm(k) /\ OrderedToReceiver(k)'
      BY <2>1, <3>1, ToReceiverSame, Zenon DEF Ordered
    <3>3. /\ Posting(k)' = Posting(k) /\ Sending(k)' = Sending(k)
            /\ Keeping(k)' = Keeping(k) /\ Resending(k)' = Resending(k)
            /\ Announced(k)' = Announced(k) /\ Receiving(k)' = Receiving(k)
            /\ Stopped(k)' = Stopped(k)
      BY <1>11, <2>8, Zenon DEF PollSendingMessages, receiver_vars, recv_state, One,
         Posting, Sending, Keeping,
           Resending, Announced, Receiving, Stopped
    <3>4. LawsOf(k)'
      BY <2>1, <2>3, <2>5, <3>2, <3>3, Zenon DEF LawsOf
    <3>5. Ordered(k)'
      BY <2>3, <3>2, Zenon DEF Ordered
    <3>6. Flying(k)'
      BY <2>2, <2>3, <2>5, <3>3, Zenon DEF Flying
    <3>7. Sent(k)'
      <4>1. i + 1 \in 0 .. MaxSeq(k) /\ bytes_sent'[k] = Segment * (i + 1)
        <5>1. MaxSeq(k) \in Nat
          BY MsgFacts, Zenon
        <5>2. i + 1 \in 0 .. MaxSeq(k)
          BY <2>8, <5>1
        <5> QED
          BY <1>1, <1>10, <2>8, <5>2, Zenon DEF TypeOK
      <4> QED
        BY <2>1, <4>1, Zenon DEF Sent, MaxSeq, GetMaxSeqNum, PollSendingMessages, receiver_vars
    <3> QED
      BY <2>6, <3>4, <3>5, <3>6, <3>7, Zenon DEF Good
  <2> QED
    BY <2>7, <2>8, Zenon
<1> QED
  BY <1>3, <1>4, <1>5, <1>6, Zenon DEF IInv

\* PollRetransmitRequest sends a packet again; after the last one, FlowFinish.
LEMMA PollRetransmitRequestInv ==
  ASSUME CountingFacts, IInv, NEW k \in MsgIds, PollRetransmitRequest(k)
  PROVE  IInv'
\* A message being retransmitted is kept.
<1>resending. ASSUME NEW m, LawsOf(m), Resending(m) = 1
              PROVE  /\ send_posts[m] = 1
                     /\ Posting(m) = 0
                     /\ nSend(m) = 0
                     /\ Keeping(m) = 1
  <2>1. \A sp, sc, rp, rc, po, qs, se, ke, qr, rv, fs, an,
           ff, nf, rr, rn, re, st, sr, sf, cf, cs, w :
          /\ Laws(sp, sc, rp, rc, po, qs, se, ke, qr, rv, fs, an,
                  ff, nf, rr, rn, re, st, sr, sf, cf, cs, w)
          /\ re = 1
          => /\ sp = 1
             /\ po = 0
             /\ qs = 0
             /\ ke = 1
    BY DEF Laws
  <2> QED
    BY <1>resending, <2>1, Zenon DEF LawsOf
\* PollRetransmitRequest, last packet: the round goes into FlowFinish.
<1>laws. ASSUME NEW m, LawsOf(m), Resending(m) = 1
         PROVE  /\ nStopConfirm(m) = 0
                /\ Laws(send_posts[m], confirmed[m], recv_posts[m],
                        recv_completions[m], Posting(m), nSend(m), Sending(m),
                        Keeping(m), nRecv(m), Receiving(m), nFlowStart(m),
                        Announced(m), nFlowFinish(m) + 1, nFinishFlow(m),
                        nRetransmitRequest(m), nRequestRetransmit(m), 0, Stopped(m),
                        nStopRequest(m), nStopFlow(m), nStopConfirm(m),
                        nConfirmStop(m), Kept[m])
  <2>1. \A sp, sc, rp, rc, po, qs, se, ke, qr, rv, fs, an,
           ff, nf, rr, rn, re, st, sr, sf, cf, cs, w :
          /\ Laws(sp, sc, rp, rc, po, qs, se, ke, qr, rv, fs, an,
                  ff, nf, rr, rn, re, st, sr, sf, cf, cs, w)
          /\ re = 1
          => /\ cf = 0
             /\ Laws(sp, sc, rp, rc, po, qs, se, ke, qr, rv, fs, an,
                     ff + 1, nf, rr, rn, 0, st, sr, sf, cf, cs, w)
    BY DEF Laws
  <2> QED
    BY <1>laws, <2>1, Zenon DEF LawsOf
<1> DEFINE e == [type |-> "kFlowFinish", msg_id |-> k]
<1>1. TypeOK /\ Contents /\ retransmit_reqs[k] # {} /\ retransmit_reqs[k] \subseteq 0 .. MaxSeq(k)
  BY Zenon DEF IInv, PollRetransmitRequest, IsLeast, Good, Sent
<1>7. PICK i \in retransmit_reqs[k] :
        /\ RoutePacket(Packet(k, PartitionOneBySeq(Size[k], i)), retransmit_reqs[k] = {i})
        /\ retransmit_reqs' = [retransmit_reqs EXCEPT ![k] = @ \ {i}]
  BY Zenon DEF PollRetransmitRequest
<1>10. i \in 0 .. MaxSeq(k)
  BY <1>1, Zenon
<1>8. e \in Announcements /\ e \in ToReceiver
  BY Zenon DEF Announcements, ToReceiver
<1>2. /\ e.type = "kFlowFinish" /\ e.msg_id = k
      /\ to_receiver' = IF retransmit_reqs[k] = {i} THEN Append(to_receiver, e) ELSE to_receiver
  BY <1>7, <1>10, PacketFacts, ZenonT(40) DEF RoutePacket
<1>9. PICK p \in AllPackets : p.msg_id = k /\ udp_tx' = udp_tx \cup {p}
  <2> DEFINE p == Packet(k, PartitionOneBySeq(Size[k], i))
  <2>1. p \in AllPackets /\ p.msg_id = k
    BY <1>10, PacketFacts, Zenon
  <2>2. udp_tx' = udp_tx \cup {p}
    BY <1>7, Zenon DEF RoutePacket
  <2> QED
    BY <2>1, <2>2, Zenon
<1>11. retransmit_reqs'[k] = retransmit_reqs[k] \ {i}
  BY <1>1, <1>7, Zenon DEF TypeOK
<1> HIDE DEF e
<1>3. TypeOK'
  <2>1. to_receiver' \in Seq(ToReceiver)
    BY <1>1, <1>2, <1>8, QueueTypes, Zenon DEF TypeOK
  <2>2. retransmit_reqs' \in [MsgIds -> SUBSET Seqs]
    BY <1>1, <1>7, Zenon DEF TypeOK
  <2>3. udp_tx' \in SUBSET AllPackets
    BY <1>1, <1>9, Zenon DEF TypeOK
  <2> QED
    BY <1>1, <2>1, <2>2, <2>3, ZenonT(40)
       DEF TypeOK, PollRetransmitRequest, receiver_vars, recv_state
<1>4. Contents'
  BY <1>1, <1>2, <1>8, QueueTypes, Zenon DEF Contents, PollRetransmitRequest, receiver_vars,
     recv_state
<1>5. ASSUME NEW m \in MsgIds, m # k PROVE Good(m)'
  <2>1. QueuesElsewhere(m)
    BY <1>1, <1>2, <1>5, <1>8, Zenon DEF QueuesElsewhere, OtherPost, OtherStep,
       PollRetransmitRequest, receiver_vars
  <2>2. ReceiverSame(m)
    BY ZenonT(40) DEF ReceiverSame, PollRetransmitRequest, receiver_vars, recv_state
  <2>3. SenderSame(m)
    BY <1>1, <1>5, <1>7, <1>9, Zenon DEF SenderSame, PollRetransmitRequest, TypeOK
  <2> QED
    BY <1>1, <2>1, <2>2, <2>3, Elsewhere, Zenon DEF IInv
<1>6. Good(k)'
  <2>1. LawsOf(k) /\ Ordered(k) /\ Flying(k) /\ Received(k) /\ Sent(k) /\ Typed(k)
    BY <1>1, Types, Zenon DEF IInv, Good
  <2>2. Resending(k) = 1 /\ send_posts[k] = 1 /\ Posting(k) = 0 /\ nSend(k) = 0
    <3>1. Resending(k) = 1
      BY <1>1, Zenon DEF Resending, One
    <3> QED
      BY <2>1, <3>1, <1>resending, Zenon
  <2>3. /\ nSend(k)' = nSend(k) /\ nRecv(k)' = nRecv(k)
        /\ nFinishFlow(k)' = nFinishFlow(k)
        /\ nConfirmStop(k)' = nConfirmStop(k)
        /\ nRetransmitRequest(k)' = nRetransmitRequest(k)
        /\ nStopRequest(k)' = nStopRequest(k)
        /\ nRequestRetransmit(k)' = nRequestRetransmit(k)
        /\ nStopFlow(k)' = nStopFlow(k) /\ OrderedRecvNotif(k)'
        /\ OrderedToSender(k)' /\ OrderedPrioNotif(k)'
    BY <1>1, <1>2, <2>1, SrQueueSteps, RrQueueSteps, RecvNotifSame, ToSenderSame,
       PrioNotifSame, Zenon
       DEF PollRetransmitRequest, receiver_vars, Ordered
  <2>5. /\ send_posts'[k] = send_posts[k]
        /\ confirmed'[k] = confirmed[k]
        /\ recv_posts'[k] = recv_posts[k]
        /\ recv_completions'[k] = recv_completions[k]
    BY <1>1, Zenon DEF TypeOK, PollRetransmitRequest, receiver_vars
  <2>6. Received(k)'
    BY <2>1, ZenonT(40) DEF Received, BytesOf, PayloadOf, Bound, AlignUp, MaxSeq,
       GetMaxSeqNum, Receiving,
       PollRetransmitRequest, receiver_vars, recv_state
  <2>7. CASE retransmit_reqs[k] = {i}
    <3>1. /\ nFlowStart(k)' = nFlowStart(k)
          /\ nFlowFinish(k)' = nFlowFinish(k) + 1
          /\ nStopConfirm(k)' = nStopConfirm(k)
          /\ OrderedToReceiver(k) /\ nStopConfirm(k) = 0 => OrderedToReceiver(k)'
      <4>1. /\ One(Is(e, "kFlowStart", k)) = 0
            /\ One(Is(e, "kFlowFinish", k)) = 1
            /\ One(Is(e, "kStopConfirm", k)) = 0
        BY <1>2, Zenon DEF Is, One
      <4>2. /\ nFlowStart(k)' = nFlowStart(k) + One(Is(e, "kFlowStart", k))
            /\ nFlowFinish(k)' = nFlowFinish(k) + One(Is(e, "kFlowFinish", k))
            /\ nStopConfirm(k)' = nStopConfirm(k) + One(Is(e, "kStopConfirm", k))
            /\ OrderedToReceiver(k) /\ nStopConfirm(k) = 0 => OrderedToReceiver(k)'
        BY <1>1, <1>2, <1>8, <2>7, ToReceiverAppend, ZenonT(40) DEF Is
      <4> QED
        BY <2>1, <4>1, <4>2, CounterSteps, Zenon DEF Typed
    <3>2. /\ Resending(k)' = 0 /\ Posting(k)' = Posting(k)
            /\ Sending(k)' = Sending(k) /\ Keeping(k)' = Keeping(k)
            /\ Announced(k)' = Announced(k) /\ Receiving(k)' = Receiving(k)
            /\ Stopped(k)' = Stopped(k)
      BY <1>1, <1>11, <2>7, Zenon DEF PollRetransmitRequest, receiver_vars, recv_state, One,
         Posting, Sending, Keeping,
           Resending, Announced, Receiving, Stopped
    <3>3. LawsOf(k)' /\ nStopConfirm(k) = 0
      BY <2>1, <2>2, <2>3, <2>5, <3>1, <3>2, <1>laws, Zenon DEF LawsOf
    <3>4. Ordered(k)'
      BY <2>1, <2>3, <3>1, <3>3, Zenon DEF Ordered
    <3>5. Flying(k)'
      BY <2>2, <2>3, <2>5, <3>2, ZenonT(40) DEF Flying
    <3>6. Sent(k)'
      BY <1>11, <2>1, Zenon DEF Sent, MaxSeq, GetMaxSeqNum, PollRetransmitRequest,
         receiver_vars
    <3> QED
      BY <2>6, <3>3, <3>4, <3>5, <3>6, ZenonT(40) DEF Good
  <2>8. CASE ~(retransmit_reqs[k] = {i})
    <3>1. UNCHANGED to_receiver
      BY <1>2, <2>8, ZenonT(40)
    <3>2. /\ nFlowStart(k)' = nFlowStart(k) /\ nFlowFinish(k)' = nFlowFinish(k)
          /\ nStopConfirm(k)' = nStopConfirm(k) /\ OrderedToReceiver(k)'
      BY <2>1, <3>1, ToReceiverSame, ZenonT(40) DEF Ordered
    <3>3. /\ Posting(k)' = Posting(k) /\ Sending(k)' = Sending(k)
            /\ Keeping(k)' = Keeping(k) /\ Resending(k)' = Resending(k)
            /\ Announced(k)' = Announced(k) /\ Receiving(k)' = Receiving(k)
            /\ Stopped(k)' = Stopped(k)
      BY <1>1, <1>11, <2>8, Zenon DEF PollRetransmitRequest, receiver_vars, recv_state, One,
         Posting, Sending, Keeping,
           Resending, Announced, Receiving, Stopped
    <3>4. LawsOf(k)'
      BY <2>1, <2>3, <2>5, <3>2, <3>3, Zenon DEF LawsOf
    <3>5. Ordered(k)'
      BY <2>3, <3>2, Zenon DEF Ordered
    <3>6. Flying(k)'
      BY <2>2, <2>3, <2>5, <3>3, Zenon DEF Flying
    <3>7. Sent(k)'
      BY <1>11, <2>1, Zenon DEF Sent, MaxSeq, GetMaxSeqNum, PollRetransmitRequest, receiver_vars
    <3> QED
      BY <2>6, <3>4, <3>5, <3>6, <3>7, Zenon DEF Good
  <2> QED
    BY <2>7, <2>8, Zenon
<1> QED
  BY <1>3, <1>4, <1>5, <1>6, Zenon DEF IInv

\* RequestRetransmit hands the round to the retransmission.
LEMMA RequestRetransmitInv ==
  ASSUME CountingFacts, IInv, RequestRetransmit
  PROVE  IInv'
\* RequestRetransmit: the round becomes a request being served.
<1>laws. ASSUME NEW m, LawsOf(m), nRequestRetransmit(m) >= 1
         PROVE  /\ Laws(send_posts[m], confirmed[m], recv_posts[m],
                        recv_completions[m], Posting(m), nSend(m), Sending(m),
                        Keeping(m), nRecv(m), Receiving(m), nFlowStart(m),
                        Announced(m), nFlowFinish(m), nFinishFlow(m),
                        nRetransmitRequest(m), nRequestRetransmit(m) - 1, 1,
                        Stopped(m), nStopRequest(m), nStopFlow(m), nStopConfirm(m),
                        nConfirmStop(m), Kept[m])
  <2>1. \A sp, sc, rp, rc, po, qs, se, ke, qr, rv, fs, an,
           ff, nf, rr, rn, re, st, sr, sf, cf, cs, w :
          /\ Laws(sp, sc, rp, rc, po, qs, se, ke, qr, rv, fs, an,
                  ff, nf, rr, rn, re, st, sr, sf, cf, cs, w)
          /\ rn >= 1
          => /\ Laws(sp, sc, rp, rc, po, qs, se, ke, qr, rv, fs, an,
                     ff, nf, rr, rn - 1, 1, st, sr, sf, cf, cs, w)
    BY DEF Laws
  <2> QED
    BY <1>laws, <2>1, ZenonT(40) DEF LawsOf
<1>1. TypeOK /\ Contents
  BY Zenon DEF IInv
<1>7. prio_notif # <<>> /\ prio_notif \in Seq(Orders) /\ Head(prio_notif) \in Orders
  <2>1. prio_notif # <<>> /\ prio_notif \in Seq(Orders)
    BY <1>1, Zenon DEF RequestRetransmit, Contents
  <2> QED
    BY <2>1
<1>0. PICK k \in MsgIds : Head(prio_notif).msg_id = k
  BY <1>7, Zenon DEF Orders, PrioNotification
<1>2. /\ prio_notif # <<>> /\ Head(prio_notif).type = "REQUEST_RETRANSMIT" /\ Head(prio_notif).msg_id = k
      /\ prio_notif' = Tail(prio_notif)
      /\ Head(prio_notif).blocks # {} /\ Head(prio_notif).blocks \subseteq 0 .. MaxSeq(k)
      /\ retransmit_reqs' = [retransmit_reqs EXCEPT ![k] = Head(prio_notif).blocks]
  BY <1>0, <1>7, Zenon DEF RequestRetransmit, Orders
<1>3. TypeOK'
  <2>0. prio_notif' \in Seq(PrioNotification)
    BY <1>1, <1>2, QueueTypes, Zenon DEF TypeOK
  <2>1. retransmit_reqs' \in [MsgIds -> SUBSET Seqs]
    BY <1>1, <1>2, MsgFacts, ZenonT(40) DEF TypeOK
  <2> QED
    BY <1>1, <2>0, <2>1, ZenonT(40) DEF TypeOK, RequestRetransmit, receiver_vars,
       recv_state, sender_vars
<1>4. Contents'
  <2>1. prio_notif' \in Seq(Orders)
    BY <1>2, <1>7, QueueTypes, Zenon
  <2> QED
    BY <1>1, <2>1, Zenon DEF Contents, RequestRetransmit, receiver_vars, recv_state,
       sender_vars
<1>5. ASSUME NEW m \in MsgIds, m # k PROVE Good(m)'
  <2>1. QueuesElsewhere(m)
    BY <1>1, <1>2, <1>5, Zenon DEF QueuesElsewhere, OtherPost, OtherStep, RequestRetransmit,
       receiver_vars, sender_vars
  <2>2. SenderSame(m) /\ ReceiverSame(m)
    BY <1>1, <1>2, <1>5, MsgFacts, Zenon DEF SenderSame, ReceiverSame, RequestRetransmit,
       receiver_vars, recv_state,
       sender_vars, TypeOK
  <2> QED
    BY <1>1, <2>1, <2>2, Elsewhere, Zenon DEF IInv
<1>6. Good(k)'
  <2>1. LawsOf(k) /\ Ordered(k) /\ Flying(k) /\ Received(k) /\ Sent(k) /\ Typed(k)
    BY <1>1, Types, Zenon DEF IInv, Good
  <2>2. /\ nRequestRetransmit(k) >= 1
        /\ nRequestRetransmit(k)' = nRequestRetransmit(k) - 1
        /\ nStopFlow(k)' = nStopFlow(k)
        /\ OrderedPrioNotif(k)'
    <3>1. /\ One(Is(Head(prio_notif), "REQUEST_RETRANSMIT", k)) = 1
          /\ One(Is(Head(prio_notif), "STOP_FLOW", k)) = 0
          /\ Is(Head(prio_notif), "REQUEST_RETRANSMIT", k)
      BY <1>2, Zenon DEF Is, One
    <3>2. /\ nRequestRetransmit(k)' = nRequestRetransmit(k) - One(Is(Head(prio_notif), "REQUEST_RETRANSMIT", k))
          /\ nStopFlow(k)' = nStopFlow(k) - One(Is(Head(prio_notif), "STOP_FLOW", k))
          /\ nRequestRetransmit(k)' \in Nat
          /\ OrderedPrioNotif(k)'
      BY <1>1, <1>2, <2>1, <3>1, PrioNotifTail, Zenon DEF Ordered
    <3>3. nRequestRetransmit(k) \in Nat /\ nStopFlow(k) \in Nat
      BY <2>1, Zenon DEF Typed
    <3> QED
      BY <3>1, <3>2, <3>3, CounterSteps, Zenon
  <2>3. /\ nSend(k)' = nSend(k) /\ nRecv(k)' = nRecv(k)
        /\ nFlowStart(k)' = nFlowStart(k) /\ nFlowFinish(k)' = nFlowFinish(k)
        /\ nStopConfirm(k)' = nStopConfirm(k)
        /\ nFinishFlow(k)' = nFinishFlow(k)
        /\ nConfirmStop(k)' = nConfirmStop(k)
        /\ nRetransmitRequest(k)' = nRetransmitRequest(k)
        /\ nStopRequest(k)' = nStopRequest(k) /\ OrderedToReceiver(k)'
        /\ OrderedRecvNotif(k)' /\ OrderedToSender(k)'
    BY <1>1, <1>2, <2>1, SrQueueSteps, RrQueueSteps, ToReceiverSame, RecvNotifSame,
       ToSenderSame, ZenonT(40)
       DEF RequestRetransmit, receiver_vars, sender_vars, Ordered
  <2>10. retransmit_reqs'[k] # {} /\ retransmit_reqs'[k] \subseteq 0 .. MaxSeq(k)
    BY <1>1, <1>2, ZenonT(40) DEF TypeOK
  <2>4. /\ Resending(k)' = 1 /\ Posting(k)' = Posting(k)
        /\ Sending(k)' = Sending(k) /\ Keeping(k)' = Keeping(k)
        /\ Announced(k)' = Announced(k) /\ Receiving(k)' = Receiving(k)
        /\ Stopped(k)' = Stopped(k)
    BY <1>1, <1>2, <2>10, ZenonT(40) DEF RequestRetransmit, receiver_vars, recv_state,
       sender_vars, One, Posting, Sending, Keeping,
       Resending, Announced, Receiving, Stopped
  <2>5. /\ send_posts'[k] = send_posts[k]
        /\ confirmed'[k] = confirmed[k]
        /\ recv_posts'[k] = recv_posts[k]
        /\ recv_completions'[k] = recv_completions[k]
    BY <1>1, <1>2, Zenon DEF TypeOK, RequestRetransmit, receiver_vars, sender_vars
  <2>6. LawsOf(k)'
    BY <2>1, <2>2, <2>3, <2>4, <2>5, <1>laws, ZenonT(40) DEF LawsOf
  <2>7. Ordered(k)'
    BY <2>1, <2>2, <2>3, Zenon DEF Ordered
  <2>8. Flying(k)'
    BY <2>1, <2>2, <2>3, <2>4, <2>5, Zenon
       DEF Flying, OnTheWay, RequestRetransmit, receiver_vars, recv_state, sender_vars
  <2>9. Received(k)' /\ Sent(k)'
    BY <2>1, <2>4, <2>5, <2>10, Zenon DEF Received, BytesOf, PayloadOf, Sent, Bound,
       AlignUp, MaxSeq, GetMaxSeqNum,
       RequestRetransmit, receiver_vars, recv_state, sender_vars
  <2> QED
    BY <2>6, <2>7, <2>8, <2>9, Zenon DEF Good
<1> QED
  BY <1>3, <1>4, <1>5, <1>6, Zenon DEF IInv

\* StopFlow forgets the message and confirms the stop.
LEMMA StopFlowInv ==
  ASSUME CountingFacts, IInv, StopFlow
  PROVE  IInv'
\* A stop under way was asked for.
<1>asked. ASSUME NEW m, LawsOf(m), nStopFlow(m) >= 1
          PROVE  /\ Stopped(m) = 1
  <2>1. \A sp, sc, rp, rc, po, qs, se, ke, qr, rv, fs, an,
           ff, nf, rr, rn, re, st, sr, sf, cf, cs, w :
          /\ Laws(sp, sc, rp, rc, po, qs, se, ke, qr, rv, fs, an,
                  ff, nf, rr, rn, re, st, sr, sf, cf, cs, w)
          /\ sf >= 1
          => /\ st = 1
    BY DEF Laws
  <2> QED
    BY <1>asked, <2>1, Zenon DEF LawsOf
\* StopFlow: the message is removed wherever it is, and the stop confirmed.
<1>laws. ASSUME NEW m, LawsOf(m), nStopFlow(m) >= 1, nRequestRetransmit(m) <= 0, send_posts[m] >= 1, Posting(m) <= 0, nSend(m) <= 0
         PROVE  /\ confirmed[m] = 0
                /\ Sending(m) = 1 => Keeping(m) = 0 /\ Resending(m) = 0
                /\ Laws(send_posts[m], 1, recv_posts[m], recv_completions[m],
                        Posting(m), nSend(m), 0, 0, nRecv(m), Receiving(m),
                        nFlowStart(m), Announced(m), nFlowFinish(m), nFinishFlow(m),
                        nRetransmitRequest(m), nRequestRetransmit(m), 0, Stopped(m),
                        nStopRequest(m), nStopFlow(m) - 1, nStopConfirm(m) + 1,
                        nConfirmStop(m), Kept[m])
  <2>1. \A sp, sc, rp, rc, po, qs, se, ke, qr, rv, fs, an,
           ff, nf, rr, rn, re, st, sr, sf, cf, cs, w :
          /\ Laws(sp, sc, rp, rc, po, qs, se, ke, qr, rv, fs, an,
                  ff, nf, rr, rn, re, st, sr, sf, cf, cs, w)
          /\ sf >= 1 /\ rn <= 0 /\ sp >= 1 /\ po <= 0 /\ qs <= 0
          => /\ sc = 0
             /\ se = 1 => ke = 0 /\ re = 0
             /\ Laws(sp, 1, rp, rc, po, qs, 0, 0, qr, rv, fs, an,
                     ff, nf, rr, rn, 0, st, sr, sf - 1, cf + 1, cs, w)
    BY DEF Laws
  <2> QED
    BY <1>laws, <2>1, ZenonT(40) DEF LawsOf
<1>1. TypeOK /\ Contents
  BY Zenon DEF IInv
<1>7. prio_notif # <<>> /\ prio_notif \in Seq(Orders) /\ Head(prio_notif) \in Orders
  <2>1. prio_notif # <<>> /\ prio_notif \in Seq(Orders)
    BY <1>1, ZenonT(40) DEF StopFlow, Contents
  <2> QED
    BY <2>1
<1>0. PICK k \in MsgIds : Head(prio_notif).msg_id = k
  BY <1>7, Zenon DEF Orders, PrioNotification
<1> DEFINE e == [type |-> "kStopConfirm", msg_id |-> Head(prio_notif).msg_id]
<1>8. e \in Announcements /\ e \in ToReceiver
  BY <1>0, <1>7, ZenonT(40) DEF Orders, PrioNotification, Announcements, ToReceiver, StopFlow
<1>2. /\ prio_notif # <<>> /\ Head(prio_notif).type = "STOP_FLOW" /\ Head(prio_notif).msg_id = k
      /\ prio_notif' = Tail(prio_notif)
      /\ to_receiver' = Append(to_receiver, e) /\ e.type = "kStopConfirm" /\ e.msg_id = k
      /\ IF k \in sending_msgs
           THEN /\ sending_msgs' = sending_msgs \ {k}
                /\ UNCHANGED <<retransmit_reqs, retransmitting_msgs>>
           ELSE /\ retransmit_reqs' = [retransmit_reqs EXCEPT ![k] = {}]
                /\ retransmitting_msgs' = retransmitting_msgs \ {k}
                /\ UNCHANGED sending_msgs
  BY <1>0, <1>7, Zenon DEF StopFlow
<1> HIDE DEF e
<1>9. confirmed' = [confirmed EXCEPT ![k] = @ + 1]
  BY <1>0, Zenon DEF StopFlow
<1>3. TypeOK'
  <2>0. prio_notif' \in Seq(PrioNotification)
    BY <1>1, <1>2, QueueTypes, Zenon DEF TypeOK
  <2>1. to_receiver' \in Seq(ToReceiver)
    BY <1>1, <1>2, <1>8, QueueTypes, Zenon DEF TypeOK
  <2>2. confirmed' \in [MsgIds -> Nat]
    BY <1>1, <1>9, CounterGrows, Zenon DEF TypeOK
  <2>3. sending_msgs' \in SUBSET MsgIds /\ retransmitting_msgs' \in SUBSET MsgIds
    BY <1>1, <1>2, Zenon DEF TypeOK
  <2>4. retransmit_reqs' \in [MsgIds -> SUBSET Seqs]
    BY <1>1, <1>2, ZenonT(40) DEF TypeOK
  <2> QED
    BY <1>1, <2>0, <2>2, <2>3, <2>4, <2>1, ZenonT(40)
       DEF TypeOK, StopFlow, receiver_vars, recv_state, sender_vars
<1>4. Contents'
  <2>1. prio_notif' \in Seq(Orders)
    BY <1>2, <1>7, QueueTypes, Zenon
  <2>2. to_receiver' \in Seq(Announcements)
    BY <1>1, <1>2, <1>8, QueueTypes, Zenon DEF Contents
  <2> QED
    BY <1>1, <2>1, <2>2, Zenon DEF Contents, StopFlow, receiver_vars, recv_state, sender_vars
<1>5. ASSUME NEW m \in MsgIds, m # k PROVE Good(m)'
  <2>1. QueuesElsewhere(m)
    BY <1>1, <1>2, <1>5, <1>8, <1>9, Zenon
       DEF QueuesElsewhere, OtherPost, OtherStep, StopFlow, receiver_vars, sender_vars
  <2>2. SenderSame(m) /\ ReceiverSame(m)
    BY <1>1, <1>2, <1>5, <1>8, <1>9, MsgFacts, ZenonT(40)
       DEF SenderSame, ReceiverSame, StopFlow, receiver_vars, recv_state,
       sender_vars, TypeOK
  <2> QED
    BY <1>1, <2>1, <2>2, Elsewhere, Zenon DEF IInv
<1>6. Good(k)'
  <2>1. LawsOf(k) /\ Ordered(k) /\ Flying(k) /\ Received(k) /\ Sent(k) /\ Typed(k)
    BY <1>1, Types, Zenon DEF IInv, Good
  <2>2. /\ nStopFlow(k) >= 1
        /\ nRequestRetransmit(k)' = nRequestRetransmit(k)
        /\ nStopFlow(k)' = nStopFlow(k) - 1
        /\ nRequestRetransmit(k) = 0 /\ OrderedPrioNotif(k)'
    <3>1. /\ One(Is(Head(prio_notif), "REQUEST_RETRANSMIT", k)) = 0
          /\ One(Is(Head(prio_notif), "STOP_FLOW", k)) = 1
          /\ Is(Head(prio_notif), "STOP_FLOW", k)
      BY <1>2, Zenon DEF Is, One
    <3>2. /\ nRequestRetransmit(k)' = nRequestRetransmit(k) - One(Is(Head(prio_notif), "REQUEST_RETRANSMIT", k))
          /\ nStopFlow(k)' = nStopFlow(k) - One(Is(Head(prio_notif), "STOP_FLOW", k))
          /\ nStopFlow(k)' \in Nat
          /\ nRequestRetransmit(k) = 0
          /\ OrderedPrioNotif(k)'
      BY <1>1, <1>2, <2>1, <3>1, PrioNotifTail, ZenonT(40) DEF Ordered
    <3> QED
      BY <2>1, <3>1, <3>2, CounterSteps, Zenon DEF Typed
  <2>12. /\ nFlowStart(k)' = nFlowStart(k)
         /\ nFlowFinish(k)' = nFlowFinish(k)
         /\ nStopConfirm(k)' = nStopConfirm(k) + 1
         /\ OrderedToReceiver(k) => OrderedToReceiver(k)'
    <3>1. /\ One(Is(e, "kFlowStart", k)) = 0
          /\ One(Is(e, "kFlowFinish", k)) = 0
          /\ One(Is(e, "kStopConfirm", k)) = 1
      BY <1>2, ZenonT(40) DEF Is, One
    <3>2. /\ nFlowStart(k)' = nFlowStart(k) + One(Is(e, "kFlowStart", k))
          /\ nFlowFinish(k)' = nFlowFinish(k) + One(Is(e, "kFlowFinish", k))
          /\ nStopConfirm(k)' = nStopConfirm(k) + One(Is(e, "kStopConfirm", k))
          /\ OrderedToReceiver(k) => OrderedToReceiver(k)'
      BY <1>1, <1>2, <1>8, ToReceiverAppend, Zenon DEF Is
    <3> QED
      BY <2>1, <3>1, <3>2, CounterSteps, Zenon DEF Typed
  <2>3. /\ nSend(k)' = nSend(k) /\ nRecv(k)' = nRecv(k)
        /\ nFinishFlow(k)' = nFinishFlow(k)
        /\ nConfirmStop(k)' = nConfirmStop(k)
        /\ nRetransmitRequest(k)' = nRetransmitRequest(k)
        /\ nStopRequest(k)' = nStopRequest(k) /\ OrderedRecvNotif(k)'
        /\ OrderedToSender(k)'
    BY <1>1, <1>2, <2>1, SrQueueSteps, RrQueueSteps, RecvNotifSame, ToSenderSame, ZenonT(40)
       DEF StopFlow, receiver_vars, sender_vars, Ordered
  <2>10. /\ send_posts[k] = 1 /\ Posting(k) = 0 /\ nSend(k) = 0 /\ confirmed[k] = 0
         /\ nRequestRetransmit(k) <= 0 /\ send_posts[k] >= 1
         /\ Posting(k) <= 0 /\ nSend(k) <= 0
         /\ Sending(k) = 1 => Keeping(k) = 0 /\ Resending(k) = 0
    <3>1. Stopped(k) = 1
      BY <2>1, <2>2, <1>asked, Zenon
    <3>2. taken[k] # {}
      <4>1. stopped[k]
        BY <3>1 DEF Stopped, One
      <4> QED
        BY <2>1, <4>1, Zenon DEF Received
    <3>3. send_posts[k] = 1 /\ Posting(k) = 0 /\ nSend(k) = 0
      BY <2>1, <3>2, Zenon DEF Flying, OnTheWay
    <3>4. /\ nRequestRetransmit(k) <= 0 /\ send_posts[k] >= 1
          /\ Posting(k) <= 0 /\ nSend(k) <= 0
      BY <2>2, <3>3
    <3> QED
      BY <2>1, <2>2, <3>3, <3>4, <1>laws, Zenon
  <2>11. k \notin sending_msgs' /\ k \notin retransmitting_msgs' /\ retransmit_reqs'[k] = {}
    <3>1. CASE k \in sending_msgs
      <4>1. Keeping(k) = 0 /\ Resending(k) = 0
        BY <2>10, <3>1, Zenon DEF Sending, One
      <4> QED
        BY <1>2, <3>1, <4>1 DEF Keeping, Resending, One
    <3>2. CASE k \notin sending_msgs
      BY <1>1, <1>2, <3>2, Zenon DEF TypeOK
    <3> QED
      BY <3>1, <3>2, Zenon
  <2>4. /\ Sending(k)' = 0 /\ Keeping(k)' = 0 /\ Resending(k)' = 0
        /\ Posting(k)' = Posting(k) /\ Announced(k)' = Announced(k)
        /\ Receiving(k)' = Receiving(k) /\ Stopped(k)' = Stopped(k)
    BY <1>1, <1>2, <2>1, <2>10, <2>11, Zenon
       DEF StopFlow, receiver_vars, recv_state, sender_vars, One, Posting, Sending, Keeping,
       Resending, Announced, Receiving, Stopped
  <2>5. /\ confirmed'[k] = 1 /\ send_posts'[k] = send_posts[k]
        /\ recv_posts'[k] = recv_posts[k]
        /\ recv_completions'[k] = recv_completions[k]
    <3>1. confirmed'[k] = 0 + 1
      BY <1>1, <1>9, <2>10, Zenon DEF TypeOK
    <3>2. confirmed'[k] = 1
      BY <3>1
    <3> QED
      BY <3>2, Zenon DEF StopFlow, receiver_vars, sender_vars
  <2>6. LawsOf(k)'
    BY <2>1, <2>2, <2>12, <2>3, <2>4, <2>5, <2>10, <1>laws, Zenon DEF LawsOf
  <2>7. Ordered(k)'
    BY <2>1, <2>2, <2>12, <2>3, Zenon DEF Ordered
  <2>8. Flying(k)'
    BY <2>3, <2>4, <2>5, <2>10, Zenon DEF Flying
  <2>9. Received(k)' /\ Sent(k)'
    <3>1. Sent(k)'
      BY <1>2, <2>1, <2>11, Zenon DEF Sent, MaxSeq, GetMaxSeqNum, StopFlow, receiver_vars
    <3> QED
      BY <2>1, <2>4, <3>1, Zenon DEF Received, BytesOf, PayloadOf, Bound, AlignUp, MaxSeq,
         GetMaxSeqNum,
         StopFlow, receiver_vars, recv_state
  <2> QED
    BY <2>6, <2>7, <2>8, <2>9, Zenon DEF Good
<1> QED
  BY <1>3, <1>4, <1>5, <1>6, Zenon DEF IInv

\* HandleRetransmitRequest passes the signal on to the priority channel.
LEMMA HandleRetransmitRequestInv ==
  ASSUME CountingFacts, IInv, HandleRetransmitRequest
  PROVE  IInv'
\* HandleRetransmitRequest: the round moves on; no stop is ahead of it.
<1>laws. ASSUME NEW m, LawsOf(m), nRetransmitRequest(m) >= 1
         PROVE  /\ nStopFlow(m) = 0
                /\ Laws(send_posts[m], confirmed[m], recv_posts[m],
                        recv_completions[m], Posting(m), nSend(m), Sending(m),
                        Keeping(m), nRecv(m), Receiving(m), nFlowStart(m),
                        Announced(m), nFlowFinish(m), nFinishFlow(m),
                        nRetransmitRequest(m) - 1, nRequestRetransmit(m) + 1,
                        Resending(m), Stopped(m), nStopRequest(m), nStopFlow(m),
                        nStopConfirm(m), nConfirmStop(m), Kept[m])
  <2>1. \A sp, sc, rp, rc, po, qs, se, ke, qr, rv, fs, an,
           ff, nf, rr, rn, re, st, sr, sf, cf, cs, w :
          /\ Laws(sp, sc, rp, rc, po, qs, se, ke, qr, rv, fs, an,
                  ff, nf, rr, rn, re, st, sr, sf, cf, cs, w)
          /\ rr >= 1
          => /\ sf = 0
             /\ Laws(sp, sc, rp, rc, po, qs, se, ke, qr, rv, fs, an,
                     ff, nf, rr - 1, rn + 1, re, st, sr, sf, cf, cs, w)
    BY DEF Laws
  <2> QED
    BY <1>laws, <2>1, ZenonT(40) DEF LawsOf
<1>1. TypeOK /\ Contents
  BY Zenon DEF IInv
<1>7. to_sender # <<>> /\ to_sender \in Seq(Requests) /\ Head(to_sender) \in Requests
  <2>1. to_sender # <<>> /\ to_sender \in Seq(Requests)
    BY <1>1, Zenon DEF HandleRetransmitRequest, Contents
  <2> QED
    BY <2>1
<1>0. PICK k \in MsgIds : Head(to_sender).msg_id = k
  BY <1>7, Zenon DEF Requests, ToSender
<1> DEFINE e == [type |-> "REQUEST_RETRANSMIT", msg_id |-> Head(to_sender).msg_id,
                 blocks |-> Head(to_sender).blocks]
<1>8. e \in Orders /\ e \in PrioNotification
  BY <1>0, <1>7, ZenonT(40) DEF Requests, ToSender, Orders, PrioNotification,
     HandleRetransmitRequest
<1>2. /\ to_sender # <<>> /\ Head(to_sender).type = "kRetransmitRequest" /\ Head(to_sender).msg_id = k
      /\ to_sender' = Tail(to_sender)
      /\ prio_notif' = Append(prio_notif, e) /\ e.type = "REQUEST_RETRANSMIT" /\ e.msg_id = k
  BY <1>0, <1>7, Zenon DEF HandleRetransmitRequest
<1> HIDE DEF e
<1>3. TypeOK'
  <2>0. to_sender' \in Seq(ToSender)
    BY <1>1, <1>2, QueueTypes, Zenon DEF TypeOK
  <2>1. prio_notif' \in Seq(PrioNotification)
    BY <1>1, <1>2, <1>8, QueueTypes, Zenon DEF TypeOK
  <2> QED
    BY <1>1, <2>0, <2>1, ZenonT(40) DEF TypeOK, HandleRetransmitRequest, receiver_vars,
       recv_state, sender_vars
<1>4. Contents'
  BY <1>1, <1>2, <1>7, <1>8, QueueTypes, Zenon
     DEF Contents, HandleRetransmitRequest, receiver_vars, recv_state, sender_vars
<1>5. ASSUME NEW m \in MsgIds, m # k PROVE Good(m)'
  <2>1. QueuesElsewhere(m)
    BY <1>1, <1>2, <1>5, <1>8, Zenon DEF QueuesElsewhere, OtherPost, OtherStep,
       HandleRetransmitRequest, receiver_vars, sender_vars
  <2>2. SenderSame(m) /\ ReceiverSame(m)
    BY <1>1, <1>2, <1>5, <1>8, MsgFacts, ZenonT(40)
       DEF SenderSame, ReceiverSame, HandleRetransmitRequest, receiver_vars, recv_state,
       sender_vars, TypeOK
  <2> QED
    BY <1>1, <2>1, <2>2, Elsewhere, Zenon DEF IInv
<1>6. Good(k)'
  <2>1. LawsOf(k) /\ Ordered(k) /\ Flying(k) /\ Received(k) /\ Sent(k) /\ Typed(k)
    BY <1>1, Types, Zenon DEF IInv, Good
  <2>2. /\ nRetransmitRequest(k) >= 1
        /\ nRetransmitRequest(k)' = nRetransmitRequest(k) - 1
        /\ nStopRequest(k)' = nStopRequest(k)
        /\ OrderedToSender(k)'
    <3>1. /\ One(Is(Head(to_sender), "kRetransmitRequest", k)) = 1
          /\ One(Is(Head(to_sender), "kStopRequest", k)) = 0
          /\ Is(Head(to_sender), "kRetransmitRequest", k)
      BY <1>2, Zenon DEF Is, One
    <3>2. /\ nRetransmitRequest(k)' = nRetransmitRequest(k) - One(Is(Head(to_sender), "kRetransmitRequest", k))
          /\ nStopRequest(k)' = nStopRequest(k) - One(Is(Head(to_sender), "kStopRequest", k))
          /\ nRetransmitRequest(k)' \in Nat
          /\ OrderedToSender(k)'
      BY <1>1, <1>2, <2>1, <3>1, ToSenderTail, ZenonT(40) DEF Ordered
    <3>3. nRetransmitRequest(k) \in Nat /\ nStopRequest(k) \in Nat
      BY <2>1, Zenon DEF Typed
    <3> QED
      BY <3>1, <3>2, <3>3, CounterSteps, Zenon
  <2>12. /\ nRequestRetransmit(k)' = nRequestRetransmit(k) + 1
         /\ nStopFlow(k)' = nStopFlow(k)
         /\ OrderedPrioNotif(k) /\ nStopFlow(k) = 0 => OrderedPrioNotif(k)'
    <3>1. /\ One(Is(e, "REQUEST_RETRANSMIT", k)) = 1
          /\ One(Is(e, "STOP_FLOW", k)) = 0
      BY <1>2, Zenon DEF Is, One
    <3>2. /\ nRequestRetransmit(k)' = nRequestRetransmit(k) + One(Is(e, "REQUEST_RETRANSMIT", k))
          /\ nStopFlow(k)' = nStopFlow(k) + One(Is(e, "STOP_FLOW", k))
          /\ OrderedPrioNotif(k) /\ nStopFlow(k) = 0 => OrderedPrioNotif(k)'
      BY <1>1, <1>2, <1>8, PrioNotifAppend, Zenon DEF Is
    <3> QED
      BY <2>1, <3>1, <3>2, CounterSteps, Zenon DEF Typed
  <2>3. /\ nSend(k)' = nSend(k) /\ nRecv(k)' = nRecv(k)
        /\ nFlowStart(k)' = nFlowStart(k) /\ nFlowFinish(k)' = nFlowFinish(k)
        /\ nStopConfirm(k)' = nStopConfirm(k)
        /\ nFinishFlow(k)' = nFinishFlow(k)
        /\ nConfirmStop(k)' = nConfirmStop(k) /\ OrderedToReceiver(k)'
        /\ OrderedRecvNotif(k)'
    BY <1>1, <1>2, <2>1, SrQueueSteps, RrQueueSteps, ToReceiverSame, RecvNotifSame, ZenonT(40)
       DEF HandleRetransmitRequest, receiver_vars, sender_vars, Ordered
  <2>4. /\ Posting(k)' = Posting(k) /\ Sending(k)' = Sending(k)
        /\ Keeping(k)' = Keeping(k) /\ Resending(k)' = Resending(k)
        /\ Announced(k)' = Announced(k) /\ Receiving(k)' = Receiving(k)
        /\ Stopped(k)' = Stopped(k)
    BY <1>2, Zenon DEF HandleRetransmitRequest, receiver_vars, recv_state, sender_vars, One,
       Posting, Sending, Keeping,
       Resending, Announced, Receiving, Stopped
  <2>5. /\ send_posts'[k] = send_posts[k]
        /\ confirmed'[k] = confirmed[k]
        /\ recv_posts'[k] = recv_posts[k]
        /\ recv_completions'[k] = recv_completions[k]
    BY <1>1, <1>2, Zenon DEF TypeOK, HandleRetransmitRequest, receiver_vars, sender_vars
  <2>6. LawsOf(k)'
    BY <2>1, <2>2, <2>12, <2>3, <2>4, <2>5, <1>laws, ZenonT(40) DEF LawsOf
  <2>7. Ordered(k)'
    BY <2>1, <2>2, <2>12, <2>3, <1>laws, Zenon DEF Ordered
  <2>8. Flying(k)'
    BY <2>1, <2>2, <2>3, <2>4, <2>5, Zenon
       DEF Flying, OnTheWay, HandleRetransmitRequest, receiver_vars, recv_state, sender_vars
  <2>9. Received(k)' /\ Sent(k)'
    BY <2>1, <2>4, <2>5, ZenonT(40) DEF Received, BytesOf, PayloadOf, Sent, Bound, AlignUp,
       MaxSeq, GetMaxSeqNum,
       HandleRetransmitRequest, receiver_vars, recv_state, sender_vars
  <2> QED
    BY <2>6, <2>7, <2>8, <2>9, Zenon DEF Good
<1> QED
  BY <1>3, <1>4, <1>5, <1>6, Zenon DEF IInv

\* HandleStopRequest passes the signal on to the priority channel.
LEMMA HandleStopRequestInv ==
  ASSUME CountingFacts, IInv, HandleStopRequest
  PROVE  IInv'
\* HandleStopRequest: the stop moves on; no round is behind it.
<1>laws. ASSUME NEW m, LawsOf(m), nStopRequest(m) >= 1, nRetransmitRequest(m) = 0
         PROVE  /\ Laws(send_posts[m], confirmed[m], recv_posts[m],
                        recv_completions[m], Posting(m), nSend(m), Sending(m),
                        Keeping(m), nRecv(m), Receiving(m), nFlowStart(m),
                        Announced(m), nFlowFinish(m), nFinishFlow(m),
                        nRetransmitRequest(m), nRequestRetransmit(m), Resending(m),
                        Stopped(m), nStopRequest(m) - 1, nStopFlow(m) + 1,
                        nStopConfirm(m), nConfirmStop(m), Kept[m])
  <2>1. \A sp, sc, rp, rc, po, qs, se, ke, qr, rv, fs, an,
           ff, nf, rr, rn, re, st, sr, sf, cf, cs, w :
          /\ Laws(sp, sc, rp, rc, po, qs, se, ke, qr, rv, fs, an,
                  ff, nf, rr, rn, re, st, sr, sf, cf, cs, w)
          /\ sr >= 1 /\ rr = 0
          => /\ Laws(sp, sc, rp, rc, po, qs, se, ke, qr, rv, fs, an,
                     ff, nf, rr, rn, re, st, sr - 1, sf + 1, cf, cs, w)
    BY DEF Laws
  <2> QED
    BY <1>laws, <2>1, ZenonT(40) DEF LawsOf
<1>1. TypeOK /\ Contents
  BY Zenon DEF IInv
<1>7. to_sender # <<>> /\ to_sender \in Seq(Requests) /\ Head(to_sender) \in Requests
  <2>1. to_sender # <<>> /\ to_sender \in Seq(Requests)
    BY <1>1, Zenon DEF HandleStopRequest, Contents
  <2> QED
    BY <2>1
<1>0. PICK k \in MsgIds : Head(to_sender).msg_id = k
  BY <1>7, Zenon DEF Requests, ToSender
<1> DEFINE e == [type |-> "STOP_FLOW", msg_id |-> Head(to_sender).msg_id]
<1>8. e \in Orders /\ e \in PrioNotification
  BY <1>0, <1>7, Zenon DEF Requests, ToSender, Orders, PrioNotification, HandleStopRequest
<1>2. /\ to_sender # <<>> /\ Head(to_sender).type = "kStopRequest" /\ Head(to_sender).msg_id = k
      /\ to_sender' = Tail(to_sender)
      /\ prio_notif' = Append(prio_notif, e) /\ e.type = "STOP_FLOW" /\ e.msg_id = k
  BY <1>0, <1>7, Zenon DEF HandleStopRequest
<1> HIDE DEF e
<1>3. TypeOK'
  <2>0. to_sender' \in Seq(ToSender)
    BY <1>1, <1>2, QueueTypes, Zenon DEF TypeOK
  <2>1. prio_notif' \in Seq(PrioNotification)
    BY <1>1, <1>2, <1>8, QueueTypes, Zenon DEF TypeOK
  <2> QED
    BY <1>1, <2>0, <2>1, ZenonT(40) DEF TypeOK, HandleStopRequest, receiver_vars,
       recv_state, sender_vars
<1>4. Contents'
  BY <1>1, <1>2, <1>7, <1>8, QueueTypes, Zenon
     DEF Contents, HandleStopRequest, receiver_vars, recv_state, sender_vars
<1>5. ASSUME NEW m \in MsgIds, m # k PROVE Good(m)'
  <2>1. QueuesElsewhere(m)
    BY <1>1, <1>2, <1>5, <1>8, Zenon DEF QueuesElsewhere, OtherPost, OtherStep,
       HandleStopRequest, receiver_vars, sender_vars
  <2>2. SenderSame(m) /\ ReceiverSame(m)
    BY <1>1, <1>2, <1>5, <1>8, MsgFacts, ZenonT(40)
       DEF SenderSame, ReceiverSame, HandleStopRequest, receiver_vars, recv_state,
       sender_vars, TypeOK
  <2> QED
    BY <1>1, <2>1, <2>2, Elsewhere, Zenon DEF IInv
<1>6. Good(k)'
  <2>1. LawsOf(k) /\ Ordered(k) /\ Flying(k) /\ Received(k) /\ Sent(k) /\ Typed(k)
    BY <1>1, Types, Zenon DEF IInv, Good
  <2>2. /\ nStopRequest(k) >= 1
        /\ nRetransmitRequest(k)' = nRetransmitRequest(k)
        /\ nStopRequest(k)' = nStopRequest(k) - 1
        /\ nRetransmitRequest(k) = 0 /\ OrderedToSender(k)'
    <3>1. /\ One(Is(Head(to_sender), "kRetransmitRequest", k)) = 0
          /\ One(Is(Head(to_sender), "kStopRequest", k)) = 1
          /\ Is(Head(to_sender), "kStopRequest", k)
      BY <1>2, Zenon DEF Is, One
    <3>2. /\ nRetransmitRequest(k)' = nRetransmitRequest(k) - One(Is(Head(to_sender), "kRetransmitRequest", k))
          /\ nStopRequest(k)' = nStopRequest(k) - One(Is(Head(to_sender), "kStopRequest", k))
          /\ nStopRequest(k)' \in Nat
          /\ nRetransmitRequest(k) = 0
          /\ OrderedToSender(k)'
      BY <1>1, <1>2, <2>1, <3>1, ToSenderTail, ZenonT(40) DEF Ordered
    <3> QED
      BY <2>1, <3>1, <3>2, CounterSteps, Zenon DEF Typed
  <2>12. /\ nRequestRetransmit(k)' = nRequestRetransmit(k)
         /\ nStopFlow(k)' = nStopFlow(k) + 1
         /\ OrderedPrioNotif(k) => OrderedPrioNotif(k)'
    <3>1. /\ One(Is(e, "REQUEST_RETRANSMIT", k)) = 0
          /\ One(Is(e, "STOP_FLOW", k)) = 1
      BY <1>2, Zenon DEF Is, One
    <3>2. /\ nRequestRetransmit(k)' = nRequestRetransmit(k) + One(Is(e, "REQUEST_RETRANSMIT", k))
          /\ nStopFlow(k)' = nStopFlow(k) + One(Is(e, "STOP_FLOW", k))
          /\ OrderedPrioNotif(k) => OrderedPrioNotif(k)'
      BY <1>1, <1>2, <1>8, PrioNotifAppend, Zenon DEF Is
    <3> QED
      BY <2>1, <3>1, <3>2, CounterSteps, Zenon DEF Typed
  <2>3. /\ nSend(k)' = nSend(k) /\ nRecv(k)' = nRecv(k)
        /\ nFlowStart(k)' = nFlowStart(k) /\ nFlowFinish(k)' = nFlowFinish(k)
        /\ nStopConfirm(k)' = nStopConfirm(k)
        /\ nFinishFlow(k)' = nFinishFlow(k)
        /\ nConfirmStop(k)' = nConfirmStop(k) /\ OrderedToReceiver(k)'
        /\ OrderedRecvNotif(k)'
    BY <1>1, <1>2, <2>1, SrQueueSteps, RrQueueSteps, ToReceiverSame, RecvNotifSame, ZenonT(40)
       DEF HandleStopRequest, receiver_vars, sender_vars, Ordered
  <2>4. /\ Posting(k)' = Posting(k) /\ Sending(k)' = Sending(k)
        /\ Keeping(k)' = Keeping(k) /\ Resending(k)' = Resending(k)
        /\ Announced(k)' = Announced(k) /\ Receiving(k)' = Receiving(k)
        /\ Stopped(k)' = Stopped(k)
    BY <1>2, ZenonT(40) DEF HandleStopRequest, receiver_vars, recv_state, sender_vars, One,
       Posting, Sending, Keeping,
       Resending, Announced, Receiving, Stopped
  <2>5. /\ send_posts'[k] = send_posts[k]
        /\ confirmed'[k] = confirmed[k]
        /\ recv_posts'[k] = recv_posts[k]
        /\ recv_completions'[k] = recv_completions[k]
    BY <1>1, <1>2, Zenon DEF TypeOK, HandleStopRequest, receiver_vars, sender_vars
  <2>6. LawsOf(k)'
    BY <2>1, <2>2, <2>12, <2>3, <2>4, <2>5, <1>laws, ZenonT(40) DEF LawsOf
  <2>7. Ordered(k)'
    BY <2>1, <2>2, <2>12, <2>3, Zenon DEF Ordered
  <2>8. Flying(k)'
    BY <2>1, <2>2, <2>3, <2>4, <2>5, Zenon
       DEF Flying, OnTheWay, HandleStopRequest, receiver_vars, recv_state, sender_vars
  <2>9. Received(k)' /\ Sent(k)'
    BY <2>1, <2>4, <2>5, Zenon DEF Received, BytesOf, PayloadOf, Sent, Bound, AlignUp,
       MaxSeq, GetMaxSeqNum,
       HandleStopRequest, receiver_vars, recv_state, sender_vars
  <2> QED
    BY <2>6, <2>7, <2>8, <2>9, Zenon DEF Good
<1> QED
  BY <1>3, <1>4, <1>5, <1>6, Zenon DEF IInv

(***************************************************************************)
(* Every action of the network, of the receiver's signals and of the       *)
(* receiving channel, up to the end of a round, preserves the invariant.   *)
(***************************************************************************)
\* The steps of the UDP endpoints and of the network only move or lose packets.
LEMMA UdpInv ==
  ASSUME CountingFacts, IInv, NEW p \in AllPackets, OnSendReady(p) \/ OnSendWouldBlock(p) \/ Lose(p)
  PROVE  IInv'
<1>1. TypeOK /\ Contents
  BY Zenon DEF IInv
<1>2. /\ (udp_tx \cup net)' \subseteq udp_tx \cup net
      /\ UNCHANGED <<sender_vars, to_receiver, to_sender, receiver_vars>>
  BY Zenon DEF OnSendReady, OnSendWouldBlock, Lose
<1>3. TypeOK'
  BY <1>1, <1>2, Zenon DEF TypeOK, sender_vars, receiver_vars, recv_state
<1>4. Contents'
  BY <1>1, <1>2, QueueTypes, Zenon DEF Contents, sender_vars, receiver_vars
<1>5. ASSUME NEW m \in MsgIds PROVE Good(m)'
  <2>1. QueuesElsewhere(m)
    BY <1>2, Zenon DEF QueuesElsewhere, OtherPost, OtherStep, sender_vars, receiver_vars
  <2>2. SenderSame(m) /\ ReceiverSame(m)
    BY <1>2, Zenon DEF SenderSame, ReceiverSame, sender_vars, receiver_vars, recv_state
  <2> QED
    BY <1>1, <2>1, <2>2, Elsewhere, Zenon DEF IInv
<1> QED
  BY <1>3, <1>4, <1>5, Zenon DEF IInv

\* HandleFlowStart notes the announcement.
LEMMA HandleFlowStartInv ==
  ASSUME CountingFacts, IInv, HandleFlowStart
  PROVE  IInv'
\* HandleFlowStart: the announcement is noted.
<1>laws. ASSUME NEW m, LawsOf(m), nFlowStart(m) >= 1
         PROVE  /\ Laws(send_posts[m], confirmed[m], recv_posts[m],
                        recv_completions[m], Posting(m), nSend(m), Sending(m),
                        Keeping(m), nRecv(m), Receiving(m), nFlowStart(m) - 1, 1,
                        nFlowFinish(m), nFinishFlow(m), nRetransmitRequest(m),
                        nRequestRetransmit(m), Resending(m), Stopped(m),
                        nStopRequest(m), nStopFlow(m), nStopConfirm(m),
                        nConfirmStop(m), Kept[m])
  <2>1. \A sp, sc, rp, rc, po, qs, se, ke, qr, rv, fs, an,
           ff, nf, rr, rn, re, st, sr, sf, cf, cs, w :
          /\ Laws(sp, sc, rp, rc, po, qs, se, ke, qr, rv, fs, an,
                  ff, nf, rr, rn, re, st, sr, sf, cf, cs, w)
          /\ fs >= 1
          => /\ Laws(sp, sc, rp, rc, po, qs, se, ke, qr, rv, fs - 1, 1,
                     ff, nf, rr, rn, re, st, sr, sf, cf, cs, w)
    BY DEF Laws
  <2> QED
    BY <1>laws, <2>1, Zenon DEF LawsOf
<1>1. TypeOK /\ Contents
  BY Zenon DEF IInv
<1>7. to_receiver # <<>> /\ to_receiver \in Seq(Announcements) /\ Head(to_receiver) \in Announcements
  <2>1. to_receiver # <<>> /\ to_receiver \in Seq(Announcements)
    BY <1>1, Zenon DEF HandleFlowStart, Contents
  <2> QED
    BY <2>1
<1>0. PICK k \in MsgIds : Head(to_receiver).msg_id = k
  BY <1>7, Zenon DEF Announcements, ToReceiver
<1>2. /\ to_receiver # <<>> /\ Head(to_receiver).type = "kFlowStart" /\ Head(to_receiver).msg_id = k
      /\ to_receiver' = Tail(to_receiver)
      /\ msg_max_seq' = [msg_max_seq EXCEPT ![k] = MaxSeq(k)]
  BY <1>0, <1>7, Zenon DEF HandleFlowStart, Announcements
<1>3. TypeOK'
  <2>0. to_receiver' \in Seq(ToReceiver)
    BY <1>1, <1>2, QueueTypes, Zenon DEF TypeOK
  <2>1. msg_max_seq' \in [MsgIds -> Seqs \cup {-1}]
    BY <1>1, <1>2, MsgFacts, Zenon DEF TypeOK
  <2> QED
    BY <1>1, <2>0, <2>1, Zenon DEF TypeOK, HandleFlowStart, receiver_vars, recv_state,
       sender_vars
<1>4. Contents'
  <2>1. to_receiver' \in Seq(Announcements)
    BY <1>2, <1>7, QueueTypes, Zenon
  <2> QED
    BY <1>1, <2>1, Zenon DEF Contents, HandleFlowStart, receiver_vars, recv_state, sender_vars
<1>5. ASSUME NEW m \in MsgIds, m # k PROVE Good(m)'
  <2>1. QueuesElsewhere(m)
    BY <1>1, <1>2, <1>5, Zenon DEF QueuesElsewhere, OtherPost, OtherStep, HandleFlowStart,
       receiver_vars, sender_vars
  <2>2. SenderSame(m) /\ ReceiverSame(m)
    BY <1>1, <1>2, <1>5, MsgFacts, Zenon DEF SenderSame, ReceiverSame, HandleFlowStart,
       receiver_vars, recv_state,
       sender_vars, TypeOK
  <2> QED
    BY <1>1, <2>1, <2>2, Elsewhere, Zenon DEF IInv
<1>6. Good(k)'
  <2>1. LawsOf(k) /\ Ordered(k) /\ Flying(k) /\ Received(k) /\ Sent(k) /\ Typed(k)
    BY <1>1, Types, Zenon DEF IInv, Good
  <2>2. /\ nFlowStart(k) >= 1
        /\ nFlowStart(k)' = nFlowStart(k) - 1
        /\ nFlowFinish(k)' = nFlowFinish(k)
        /\ nStopConfirm(k)' = nStopConfirm(k)
        /\ OrderedToReceiver(k)'
    <3>1. /\ One(Is(Head(to_receiver), "kFlowStart", k)) = 1
          /\ One(Is(Head(to_receiver), "kFlowFinish", k)) = 0
          /\ One(Is(Head(to_receiver), "kStopConfirm", k)) = 0
          /\ Is(Head(to_receiver), "kFlowStart", k)
      BY <1>2, Zenon DEF Is, One
    <3>2. /\ nFlowStart(k)' = nFlowStart(k) - One(Is(Head(to_receiver), "kFlowStart", k))
          /\ nFlowFinish(k)' = nFlowFinish(k) - One(Is(Head(to_receiver), "kFlowFinish", k))
          /\ nStopConfirm(k)' = nStopConfirm(k) - One(Is(Head(to_receiver), "kStopConfirm", k))
          /\ nFlowStart(k)' \in Nat
          /\ OrderedToReceiver(k)'
      BY <1>1, <1>2, <2>1, <3>1, ToReceiverTail, Zenon DEF Ordered
    <3> QED
      BY <2>1, <3>1, <3>2, CounterSteps, Zenon DEF Typed
  <2>3. /\ nSend(k)' = nSend(k) /\ nRecv(k)' = nRecv(k)
        /\ nFinishFlow(k)' = nFinishFlow(k)
        /\ nConfirmStop(k)' = nConfirmStop(k)
        /\ nRetransmitRequest(k)' = nRetransmitRequest(k)
        /\ nStopRequest(k)' = nStopRequest(k)
        /\ nRequestRetransmit(k)' = nRequestRetransmit(k)
        /\ nStopFlow(k)' = nStopFlow(k) /\ OrderedRecvNotif(k)'
        /\ OrderedToSender(k)' /\ OrderedPrioNotif(k)'
    BY <1>1, <1>2, <2>1, SrQueueSteps, RrQueueSteps, RecvNotifSame, ToSenderSame,
       PrioNotifSame, ZenonT(40)
       DEF HandleFlowStart, receiver_vars, sender_vars, Ordered
  <2>10. msg_max_seq'[k] = MaxSeq(k)
    BY <1>1, <1>2, Zenon DEF TypeOK
  <2>4. /\ Announced(k)' = 1 /\ Posting(k)' = Posting(k)
        /\ Sending(k)' = Sending(k) /\ Keeping(k)' = Keeping(k)
        /\ Resending(k)' = Resending(k) /\ Receiving(k)' = Receiving(k)
        /\ Stopped(k)' = Stopped(k)
    <3>1. UNCHANGED <<posting, sending_msgs, retransmitting_msgs, retransmit_reqs, recv_msgs, stopped>>
      BY Zenon DEF HandleFlowStart, receiver_vars, recv_state, sender_vars
    <3>2. Announced(k)' = 1
      BY <1>1, <2>10, MsgFacts DEF Announced, One
    <3> QED
      BY <3>1, <3>2, Zenon DEF Posting, Sending, Keeping, Resending, Receiving, Stopped, One
  <2>5. /\ send_posts'[k] = send_posts[k]
        /\ confirmed'[k] = confirmed[k]
        /\ recv_posts'[k] = recv_posts[k]
        /\ recv_completions'[k] = recv_completions[k]
    BY <1>1, <1>2, Zenon DEF TypeOK, HandleFlowStart, receiver_vars, sender_vars
  <2>6. LawsOf(k)'
    BY <2>1, <2>2, <2>3, <2>4, <2>5, <1>laws, ZenonT(40) DEF LawsOf
  <2>7. Ordered(k)'
    BY <2>1, <2>2, <2>3, Zenon DEF Ordered
  <2>8. Flying(k)'
    BY <2>1, <2>2, <2>3, <2>4, <2>5, Zenon
       DEF Flying, OnTheWay, HandleFlowStart, receiver_vars, recv_state, sender_vars
  <2>9. Received(k)' /\ Sent(k)'
    BY <2>1, <2>4, <2>5, <2>10, Zenon DEF Received, BytesOf, PayloadOf, Sent, Bound,
       AlignUp, MaxSeq, GetMaxSeqNum,
       HandleFlowStart, receiver_vars, recv_state, sender_vars
  <2> QED
    BY <2>6, <2>7, <2>8, <2>9, Zenon DEF Good
<1> QED
  BY <1>3, <1>4, <1>5, <1>6, Zenon DEF IInv

\* HandleFlowFinish passes the signal on to the receiving channel.
LEMMA HandleFlowFinishInv ==
  ASSUME CountingFacts, IInv, HandleFlowFinish
  PROVE  IInv'
\* HandleFlowFinish: the round moves on; no stop is ahead of it.
<1>laws. ASSUME NEW m, LawsOf(m), nFlowFinish(m) >= 1
         PROVE  /\ nConfirmStop(m) = 0
                /\ Laws(send_posts[m], confirmed[m], recv_posts[m],
                        recv_completions[m], Posting(m), nSend(m), Sending(m),
                        Keeping(m), nRecv(m), Receiving(m), nFlowStart(m),
                        Announced(m), nFlowFinish(m) - 1, nFinishFlow(m) + 1,
                        nRetransmitRequest(m), nRequestRetransmit(m), Resending(m),
                        Stopped(m), nStopRequest(m), nStopFlow(m), nStopConfirm(m),
                        nConfirmStop(m), Kept[m])
  <2>1. \A sp, sc, rp, rc, po, qs, se, ke, qr, rv, fs, an,
           ff, nf, rr, rn, re, st, sr, sf, cf, cs, w :
          /\ Laws(sp, sc, rp, rc, po, qs, se, ke, qr, rv, fs, an,
                  ff, nf, rr, rn, re, st, sr, sf, cf, cs, w)
          /\ ff >= 1
          => /\ cs = 0
             /\ Laws(sp, sc, rp, rc, po, qs, se, ke, qr, rv, fs, an,
                     ff - 1, nf + 1, rr, rn, re, st, sr, sf, cf, cs, w)
    BY DEF Laws
  <2> QED
    BY <1>laws, <2>1, Zenon DEF LawsOf
<1>1. TypeOK /\ Contents
  BY Zenon DEF IInv
<1>7. to_receiver # <<>> /\ to_receiver \in Seq(Announcements) /\ Head(to_receiver) \in Announcements
  <2>1. to_receiver # <<>> /\ to_receiver \in Seq(Announcements)
    BY <1>1, Zenon DEF HandleFlowFinish, Contents
  <2> QED
    BY <2>1
<1>0. PICK k \in MsgIds : Head(to_receiver).msg_id = k
  BY <1>7, Zenon DEF Announcements, ToReceiver
<1>9. msg_max_seq[k] = MaxSeq(k)
  BY <1>0, <1>7, Zenon DEF IInv, Good, Sent, HandleFlowFinish
<1> DEFINE e == [type |-> "FINISH_FLOW", msg_id |-> Head(to_receiver).msg_id,
                 max_seq_num |-> msg_max_seq[Head(to_receiver).msg_id]]
<1>8. e \in Finishes /\ e \in RecvNotification
  BY <1>0, <1>7, <1>9, MsgFacts, Zenon DEF Announcements, ToReceiver, Finishes,
     RecvNotification, HandleFlowFinish
<1>2. /\ to_receiver # <<>> /\ Head(to_receiver).type = "kFlowFinish" /\ Head(to_receiver).msg_id = k
      /\ to_receiver' = Tail(to_receiver)
      /\ recv_notif' = Append(recv_notif, e) /\ e.type = "FINISH_FLOW" /\ e.msg_id = k
  BY <1>0, <1>7, Zenon DEF HandleFlowFinish
<1> HIDE DEF e
<1>3. TypeOK'
  <2>0. to_receiver' \in Seq(ToReceiver)
    BY <1>1, <1>2, QueueTypes, Zenon DEF TypeOK
  <2>1. recv_notif' \in Seq(RecvNotification)
    BY <1>1, <1>2, <1>8, QueueTypes, Zenon DEF TypeOK
  <2> QED
    BY <1>1, <2>0, <2>1, ZenonT(40) DEF TypeOK, HandleFlowFinish, receiver_vars, recv_state,
       sender_vars
<1>4. Contents'
  BY <1>1, <1>2, <1>7, <1>8, QueueTypes, Zenon
     DEF Contents, HandleFlowFinish, receiver_vars, recv_state, sender_vars
<1>5. ASSUME NEW m \in MsgIds, m # k PROVE Good(m)'
  <2>1. QueuesElsewhere(m)
    BY <1>1, <1>2, <1>5, <1>8, Zenon DEF QueuesElsewhere, OtherPost, OtherStep,
       HandleFlowFinish, receiver_vars, sender_vars
  <2>2. SenderSame(m) /\ ReceiverSame(m)
    BY <1>1, <1>2, <1>5, <1>8, MsgFacts, ZenonT(40)
       DEF SenderSame, ReceiverSame, HandleFlowFinish, receiver_vars, recv_state,
       sender_vars, TypeOK
  <2> QED
    BY <1>1, <2>1, <2>2, Elsewhere, Zenon DEF IInv
<1>6. Good(k)'
  <2>1. LawsOf(k) /\ Ordered(k) /\ Flying(k) /\ Received(k) /\ Sent(k) /\ Typed(k)
    BY <1>1, Types, Zenon DEF IInv, Good
  <2>2. /\ nFlowFinish(k) >= 1
        /\ nFlowStart(k)' = nFlowStart(k)
        /\ nFlowFinish(k)' = nFlowFinish(k) - 1
        /\ nStopConfirm(k)' = nStopConfirm(k)
        /\ nFlowStart(k) = 0 /\ OrderedToReceiver(k)'
    <3>1. /\ One(Is(Head(to_receiver), "kFlowStart", k)) = 0
          /\ One(Is(Head(to_receiver), "kFlowFinish", k)) = 1
          /\ One(Is(Head(to_receiver), "kStopConfirm", k)) = 0
          /\ Is(Head(to_receiver), "kFlowFinish", k)
      BY <1>2, Zenon DEF Is, One
    <3>2. /\ nFlowStart(k)' = nFlowStart(k) - One(Is(Head(to_receiver), "kFlowStart", k))
          /\ nFlowFinish(k)' = nFlowFinish(k) - One(Is(Head(to_receiver), "kFlowFinish", k))
          /\ nStopConfirm(k)' = nStopConfirm(k) - One(Is(Head(to_receiver), "kStopConfirm", k))
          /\ nFlowFinish(k)' \in Nat
          /\ nFlowStart(k) = 0
          /\ OrderedToReceiver(k)'
      BY <1>1, <1>2, <2>1, <3>1, ToReceiverTail, ZenonT(40) DEF Ordered
    <3> QED
      BY <2>1, <3>1, <3>2, CounterSteps, Zenon DEF Typed
  <2>12. /\ nFinishFlow(k)' = nFinishFlow(k) + 1
         /\ nConfirmStop(k)' = nConfirmStop(k)
         /\ OrderedRecvNotif(k) /\ nConfirmStop(k) = 0 => OrderedRecvNotif(k)'
    <3>1. /\ One(Is(e, "FINISH_FLOW", k)) = 1
          /\ One(Is(e, "CONFIRM_STOP", k)) = 0
      BY <1>2, Zenon DEF Is, One
    <3>2. /\ nFinishFlow(k)' = nFinishFlow(k) + One(Is(e, "FINISH_FLOW", k))
          /\ nConfirmStop(k)' = nConfirmStop(k) + One(Is(e, "CONFIRM_STOP", k))
          /\ OrderedRecvNotif(k) /\ nConfirmStop(k) = 0 => OrderedRecvNotif(k)'
      BY <1>1, <1>2, <1>8, RecvNotifAppend, Zenon DEF Is
    <3> QED
      BY <2>1, <3>1, <3>2, CounterSteps, Zenon DEF Typed
  <2>3. /\ nSend(k)' = nSend(k) /\ nRecv(k)' = nRecv(k)
        /\ nRetransmitRequest(k)' = nRetransmitRequest(k)
        /\ nStopRequest(k)' = nStopRequest(k)
        /\ nRequestRetransmit(k)' = nRequestRetransmit(k)
        /\ nStopFlow(k)' = nStopFlow(k) /\ OrderedToSender(k)'
        /\ OrderedPrioNotif(k)'
    BY <1>1, <1>2, <2>1, SrQueueSteps, RrQueueSteps, ToSenderSame, PrioNotifSame, Zenon
       DEF HandleFlowFinish, receiver_vars, sender_vars, Ordered
  <2>4. /\ Posting(k)' = Posting(k) /\ Sending(k)' = Sending(k)
        /\ Keeping(k)' = Keeping(k) /\ Resending(k)' = Resending(k)
        /\ Announced(k)' = Announced(k) /\ Receiving(k)' = Receiving(k)
        /\ Stopped(k)' = Stopped(k)
    BY <1>2, Zenon DEF HandleFlowFinish, receiver_vars, recv_state, sender_vars, One,
       Posting, Sending, Keeping,
       Resending, Announced, Receiving, Stopped
  <2>5. /\ send_posts'[k] = send_posts[k]
        /\ confirmed'[k] = confirmed[k]
        /\ recv_posts'[k] = recv_posts[k]
        /\ recv_completions'[k] = recv_completions[k]
    BY <1>1, <1>2, Zenon DEF TypeOK, HandleFlowFinish, receiver_vars, sender_vars
  <2>6. LawsOf(k)'
    BY <2>1, <2>2, <2>12, <2>3, <2>4, <2>5, <1>laws, Zenon DEF LawsOf
  <2>7. Ordered(k)'
    BY <2>1, <2>2, <2>12, <2>3, <1>laws, Zenon DEF Ordered
  <2>8. Flying(k)'
    BY <2>1, <2>2, <2>3, <2>4, <2>5, Zenon
       DEF Flying, OnTheWay, HandleFlowFinish, receiver_vars, recv_state, sender_vars
  <2>9. Received(k)' /\ Sent(k)'
    BY <2>1, <2>4, <2>5, Zenon DEF Received, BytesOf, PayloadOf, Sent, Bound, AlignUp,
       MaxSeq, GetMaxSeqNum,
       HandleFlowFinish, receiver_vars, recv_state, sender_vars
  <2> QED
    BY <2>6, <2>7, <2>8, <2>9, Zenon DEF Good
<1> QED
  BY <1>3, <1>4, <1>5, <1>6, Zenon DEF IInv

\* HandleStopConfirm ends the announcement and passes the signal on.
LEMMA HandleStopConfirmInv ==
  ASSUME CountingFacts, IInv, HandleStopConfirm
  PROVE  IInv'
\* HandleStopConfirm: the stop moves on and takes the announcement back.
<1>laws. ASSUME NEW m, LawsOf(m), nStopConfirm(m) >= 1, nFlowStart(m) = 0, nFlowFinish(m) = 0
         PROVE  /\ Laws(send_posts[m], confirmed[m], recv_posts[m],
                        recv_completions[m], Posting(m), nSend(m), Sending(m),
                        Keeping(m), nRecv(m), Receiving(m), nFlowStart(m), 0,
                        nFlowFinish(m), nFinishFlow(m), nRetransmitRequest(m),
                        nRequestRetransmit(m), Resending(m), Stopped(m),
                        nStopRequest(m), nStopFlow(m), nStopConfirm(m) - 1,
                        nConfirmStop(m) + 1, Kept[m])
  <2>1. \A sp, sc, rp, rc, po, qs, se, ke, qr, rv, fs, an,
           ff, nf, rr, rn, re, st, sr, sf, cf, cs, w :
          /\ Laws(sp, sc, rp, rc, po, qs, se, ke, qr, rv, fs, an,
                  ff, nf, rr, rn, re, st, sr, sf, cf, cs, w)
          /\ cf >= 1 /\ fs = 0 /\ ff = 0
          => /\ Laws(sp, sc, rp, rc, po, qs, se, ke, qr, rv, fs, 0,
                     ff, nf, rr, rn, re, st, sr, sf, cf - 1, cs + 1, w)
    BY DEF Laws
  <2> QED
    BY <1>laws, <2>1, Zenon DEF LawsOf
<1>1. TypeOK /\ Contents
  BY Zenon DEF IInv
<1>7. to_receiver # <<>> /\ to_receiver \in Seq(Announcements) /\ Head(to_receiver) \in Announcements
  <2>1. to_receiver # <<>> /\ to_receiver \in Seq(Announcements)
    BY <1>1, Zenon DEF HandleStopConfirm, Contents
  <2> QED
    BY <2>1
<1>0. PICK k \in MsgIds : Head(to_receiver).msg_id = k
  BY <1>7, Zenon DEF Announcements, ToReceiver
<1> DEFINE e == [type |-> "CONFIRM_STOP", msg_id |-> Head(to_receiver).msg_id]
<1>8. e \in Finishes /\ e \in RecvNotification
  BY <1>0, <1>7, Zenon DEF Announcements, ToReceiver, Finishes, RecvNotification,
     HandleStopConfirm
<1>2. /\ to_receiver # <<>> /\ Head(to_receiver).type = "kStopConfirm" /\ Head(to_receiver).msg_id = k
      /\ to_receiver' = Tail(to_receiver)
      /\ recv_notif' = Append(recv_notif, e) /\ e.type = "CONFIRM_STOP" /\ e.msg_id = k
      /\ msg_max_seq' = [msg_max_seq EXCEPT ![k] = -1]
  BY <1>0, <1>7, Zenon DEF HandleStopConfirm
<1> HIDE DEF e
<1>3. TypeOK'
  <2>0. to_receiver' \in Seq(ToReceiver)
    BY <1>1, <1>2, QueueTypes, Zenon DEF TypeOK
  <2>1. recv_notif' \in Seq(RecvNotification)
    BY <1>1, <1>2, <1>8, QueueTypes, Zenon DEF TypeOK
  <2>2. msg_max_seq' \in [MsgIds -> Seqs \cup {-1}]
    BY <1>1, <1>2, Zenon DEF TypeOK
  <2> QED
    BY <1>1, <2>0, <2>2, <2>1, Zenon DEF TypeOK, HandleStopConfirm, receiver_vars,
       recv_state, sender_vars
<1>4. Contents'
  <2>1. to_receiver' \in Seq(Announcements)
    BY <1>2, <1>7, QueueTypes, Zenon
  <2>2. recv_notif' \in Seq(Finishes)
    BY <1>1, <1>2, <1>8, QueueTypes, Zenon DEF Contents
  <2> QED
    BY <1>1, <2>1, <2>2, Zenon DEF Contents, HandleStopConfirm, receiver_vars, recv_state,
       sender_vars
<1>5. ASSUME NEW m \in MsgIds, m # k PROVE Good(m)'
  <2>1. QueuesElsewhere(m)
    BY <1>1, <1>2, <1>5, <1>8, Zenon DEF QueuesElsewhere, OtherPost, OtherStep,
       HandleStopConfirm, receiver_vars, sender_vars
  <2>2. SenderSame(m) /\ ReceiverSame(m)
    BY <1>1, <1>2, <1>5, <1>8, MsgFacts, Zenon
       DEF SenderSame, ReceiverSame, HandleStopConfirm, receiver_vars, recv_state,
       sender_vars, TypeOK
  <2> QED
    BY <1>1, <2>1, <2>2, Elsewhere, Zenon DEF IInv
<1>6. Good(k)'
  <2>1. LawsOf(k) /\ Ordered(k) /\ Flying(k) /\ Received(k) /\ Sent(k) /\ Typed(k)
    BY <1>1, Types, Zenon DEF IInv, Good
  <2>2. /\ nStopConfirm(k) >= 1
        /\ nFlowStart(k)' = nFlowStart(k)
        /\ nFlowFinish(k)' = nFlowFinish(k)
        /\ nStopConfirm(k)' = nStopConfirm(k) - 1
        /\ nFlowStart(k) = 0 /\ nFlowFinish(k) = 0 /\ OrderedToReceiver(k)'
    <3>1. /\ One(Is(Head(to_receiver), "kFlowStart", k)) = 0
          /\ One(Is(Head(to_receiver), "kFlowFinish", k)) = 0
          /\ One(Is(Head(to_receiver), "kStopConfirm", k)) = 1
          /\ Is(Head(to_receiver), "kStopConfirm", k)
      BY <1>2, Zenon DEF Is, One
    <3>2. /\ nFlowStart(k)' = nFlowStart(k) - One(Is(Head(to_receiver), "kFlowStart", k))
          /\ nFlowFinish(k)' = nFlowFinish(k) - One(Is(Head(to_receiver), "kFlowFinish", k))
          /\ nStopConfirm(k)' = nStopConfirm(k) - One(Is(Head(to_receiver), "kStopConfirm", k))
          /\ nStopConfirm(k)' \in Nat
          /\ nFlowStart(k) = 0
          /\ nFlowFinish(k) = 0
          /\ OrderedToReceiver(k)'
      BY <1>1, <1>2, <2>1, <3>1, ToReceiverTail, ZenonT(40) DEF Ordered
    <3> QED
      BY <2>1, <3>1, <3>2, CounterSteps, Zenon DEF Typed
  <2>12. /\ nFinishFlow(k)' = nFinishFlow(k)
         /\ nConfirmStop(k)' = nConfirmStop(k) + 1
         /\ OrderedRecvNotif(k) => OrderedRecvNotif(k)'
    <3>1. /\ One(Is(e, "FINISH_FLOW", k)) = 0
          /\ One(Is(e, "CONFIRM_STOP", k)) = 1
      BY <1>2, Zenon DEF Is, One
    <3>2. /\ nFinishFlow(k)' = nFinishFlow(k) + One(Is(e, "FINISH_FLOW", k))
          /\ nConfirmStop(k)' = nConfirmStop(k) + One(Is(e, "CONFIRM_STOP", k))
          /\ OrderedRecvNotif(k) => OrderedRecvNotif(k)'
      BY <1>1, <1>2, <1>8, RecvNotifAppend, Zenon DEF Is
    <3> QED
      BY <2>1, <3>1, <3>2, CounterSteps, Zenon DEF Typed
  <2>3. /\ nSend(k)' = nSend(k) /\ nRecv(k)' = nRecv(k)
        /\ nRetransmitRequest(k)' = nRetransmitRequest(k)
        /\ nStopRequest(k)' = nStopRequest(k)
        /\ nRequestRetransmit(k)' = nRequestRetransmit(k)
        /\ nStopFlow(k)' = nStopFlow(k) /\ OrderedToSender(k)'
        /\ OrderedPrioNotif(k)'
    BY <1>1, <1>2, <2>1, SrQueueSteps, RrQueueSteps, ToSenderSame, PrioNotifSame, Zenon
       DEF HandleStopConfirm, receiver_vars, sender_vars, Ordered
  <2>10. msg_max_seq'[k] = -1
    BY <1>1, <1>2, Zenon DEF TypeOK
  <2>4. /\ Announced(k)' = 0 /\ Posting(k)' = Posting(k)
        /\ Sending(k)' = Sending(k) /\ Keeping(k)' = Keeping(k)
        /\ Resending(k)' = Resending(k) /\ Receiving(k)' = Receiving(k)
        /\ Stopped(k)' = Stopped(k)
    BY <1>1, <1>2, <2>10, Zenon DEF HandleStopConfirm, receiver_vars, recv_state,
       sender_vars, One, Posting, Sending, Keeping,
       Resending, Announced, Receiving, Stopped
  <2>5. /\ send_posts'[k] = send_posts[k]
        /\ confirmed'[k] = confirmed[k]
        /\ recv_posts'[k] = recv_posts[k]
        /\ recv_completions'[k] = recv_completions[k]
    BY <1>1, <1>2, Zenon DEF TypeOK, HandleStopConfirm, receiver_vars, sender_vars
  <2>6. LawsOf(k)'
    BY <2>1, <2>2, <2>12, <2>3, <2>4, <2>5, <1>laws, ZenonT(40) DEF LawsOf
  <2>7. Ordered(k)'
    BY <2>1, <2>2, <2>12, <2>3, Zenon DEF Ordered
  <2>8. Flying(k)'
    BY <2>1, <2>2, <2>3, <2>4, <2>5, Zenon
       DEF Flying, OnTheWay, HandleStopConfirm, receiver_vars, recv_state, sender_vars
  <2>9. Received(k)' /\ Sent(k)'
    BY <2>1, <2>4, <2>5, <2>10, Zenon DEF Received, BytesOf, PayloadOf, Sent, Bound,
       AlignUp, MaxSeq, GetMaxSeqNum,
       HandleStopConfirm, receiver_vars, recv_state, sender_vars
  <2> QED
    BY <2>6, <2>7, <2>8, <2>9, Zenon DEF Good
<1> QED
  BY <1>3, <1>4, <1>5, <1>6, Zenon DEF IInv

\* PostRecv queues the receive.
LEMMA PostRecvInv ==
  ASSUME CountingFacts, MaxPosts = 1, IInv, NEW k \in MsgIds, PostRecv(k)
  PROVE  IInv'
\* PostRecv: posts the receive.
<1>laws. ASSUME NEW m, LawsOf(m), recv_posts[m] = 0
         PROVE  /\ Laws(send_posts[m], confirmed[m], 1, recv_completions[m],
                        Posting(m), nSend(m), Sending(m), Keeping(m), nRecv(m) + 1,
                        Receiving(m), nFlowStart(m), Announced(m), nFlowFinish(m),
                        nFinishFlow(m), nRetransmitRequest(m), nRequestRetransmit(m),
                        Resending(m), Stopped(m), nStopRequest(m), nStopFlow(m),
                        nStopConfirm(m), nConfirmStop(m), Kept[m])
  <2>1. \A sp, sc, rp, rc, po, qs, se, ke, qr, rv, fs, an,
           ff, nf, rr, rn, re, st, sr, sf, cf, cs, w :
          /\ Laws(sp, sc, rp, rc, po, qs, se, ke, qr, rv, fs, an,
                  ff, nf, rr, rn, re, st, sr, sf, cf, cs, w)
          /\ rp = 0
          => /\ Laws(sp, sc, 1, rc, po, qs, se, ke, qr + 1, rv, fs, an,
                     ff, nf, rr, rn, re, st, sr, sf, cf, cs, w)
    BY DEF Laws
  <2> QED
    BY <1>laws, <2>1, ZenonT(40) DEF LawsOf
<1>1. TypeOK /\ Contents
  BY Zenon DEF IInv
<1>2. rr_queue' = Append(rr_queue, k) /\ recv_posts' = [recv_posts EXCEPT ![k] = @ + 1]
  BY Zenon DEF PostRecv
<1>3. TypeOK'
  <2>0. rr_queue' \in Seq(MsgIds)
    BY <1>1, <1>2, QueueTypes, Zenon DEF TypeOK
  <2>1. recv_posts' \in [MsgIds -> Nat]
    BY <1>1, <1>2, CounterGrows, Zenon DEF TypeOK
  <2> QED
    BY <1>1, <2>0, <2>1, ZenonT(40) DEF TypeOK, PostRecv, receiver_vars, recv_state,
       sender_vars
<1>4. Contents'
  BY <1>1, Zenon DEF Contents, PostRecv, receiver_vars, recv_state, sender_vars
<1>5. ASSUME NEW m \in MsgIds, m # k PROVE Good(m)'
  <2>1. QueuesElsewhere(m)
    BY <1>1, <1>2, <1>5, Zenon DEF QueuesElsewhere, OtherPost, OtherStep, PostRecv,
       receiver_vars, sender_vars
  <2>2. SenderSame(m) /\ ReceiverSame(m)
    BY <1>1, <1>2, <1>5, MsgFacts, ZenonT(40)
       DEF SenderSame, ReceiverSame, PostRecv, receiver_vars, recv_state,
       sender_vars, TypeOK
  <2> QED
    BY <1>1, <2>1, <2>2, Elsewhere, Zenon DEF IInv
<1>6. Good(k)'
  <2>1. LawsOf(k) /\ Ordered(k) /\ Flying(k) /\ Received(k) /\ Sent(k) /\ Typed(k)
    BY <1>1, Types, Zenon DEF IInv, Good
  <2>2. nRecv(k)' = nRecv(k) + 1
    <3>1. nRecv(k)' = nRecv(k) + One(k = k)
      BY <1>1, <1>2, RrQueueSteps, Zenon
    <3> QED
      BY <3>1, Zenon DEF One
  <2>3. /\ nSend(k)' = nSend(k) /\ nFlowStart(k)' = nFlowStart(k)
        /\ nFlowFinish(k)' = nFlowFinish(k)
        /\ nStopConfirm(k)' = nStopConfirm(k)
        /\ nFinishFlow(k)' = nFinishFlow(k)
        /\ nConfirmStop(k)' = nConfirmStop(k)
        /\ nRetransmitRequest(k)' = nRetransmitRequest(k)
        /\ nStopRequest(k)' = nStopRequest(k)
        /\ nRequestRetransmit(k)' = nRequestRetransmit(k)
        /\ nStopFlow(k)' = nStopFlow(k) /\ OrderedToReceiver(k)'
        /\ OrderedRecvNotif(k)' /\ OrderedToSender(k)'
        /\ OrderedPrioNotif(k)'
    BY <1>1, <1>2, <2>1, SrQueueSteps, ToReceiverSame, RecvNotifSame, ToSenderSame,
       PrioNotifSame, ZenonT(40)
       DEF PostRecv, receiver_vars, sender_vars, Ordered
  <2>4. /\ Posting(k)' = Posting(k) /\ Sending(k)' = Sending(k)
        /\ Keeping(k)' = Keeping(k) /\ Resending(k)' = Resending(k)
        /\ Announced(k)' = Announced(k) /\ Receiving(k)' = Receiving(k)
        /\ Stopped(k)' = Stopped(k)
    BY <1>2, Zenon DEF PostRecv, receiver_vars, recv_state, sender_vars, One, Posting,
       Sending, Keeping,
       Resending, Announced, Receiving, Stopped
  <2>5. /\ recv_posts[k] = 0 /\ recv_posts'[k] = 1
        /\ send_posts'[k] = send_posts[k]
        /\ confirmed'[k] = confirmed[k]
        /\ recv_completions'[k] = recv_completions[k]
    <3>1. recv_posts[k] \in Nat /\ recv_posts[k] < MaxPosts /\ recv_posts'[k] = recv_posts[k] + 1
      BY <1>1, <1>2, Zenon DEF TypeOK, PostRecv
    <3>2. recv_posts[k] = 0 /\ recv_posts'[k] = 1
      BY <3>1
    <3> QED
      BY <3>2, Zenon DEF PostRecv, receiver_vars, sender_vars
  <2>6. LawsOf(k)'
    BY <2>1, <2>2, <2>3, <2>4, <2>5, <1>laws, Zenon DEF LawsOf
  <2>7. Ordered(k)'
    BY <2>3, Zenon DEF Ordered
  <2>8. Flying(k)'
    BY <2>1, <2>2, <2>3, <2>4, <2>5, Zenon
       DEF Flying, OnTheWay, PostRecv, receiver_vars, recv_state, sender_vars
  <2>9. Received(k)' /\ Sent(k)'
    BY <2>1, <2>4, <2>5, Zenon DEF Received, BytesOf, PayloadOf, Sent, Bound, AlignUp,
       MaxSeq, GetMaxSeqNum,
       PostRecv, receiver_vars, recv_state, sender_vars
  <2> QED
    BY <2>6, <2>7, <2>8, <2>9, Zenon DEF Good
<1> QED
  BY <1>3, <1>4, <1>5, <1>6, Zenon DEF IInv

\* PollReceiveRequest begins the receive, with nothing received.
LEMMA PollReceiveRequestInv ==
  ASSUME CountingFacts, IInv, PollReceiveRequest
  PROVE  IInv'
\* PollReceiveRequest: the receive begins.
<1>laws. ASSUME NEW m, LawsOf(m), nRecv(m) >= 1
         PROVE  /\ Receiving(m) = 0
                /\ recv_completions[m] = 0
                /\ Laws(send_posts[m], confirmed[m], recv_posts[m],
                        recv_completions[m], Posting(m), nSend(m), Sending(m),
                        Keeping(m), nRecv(m) - 1, 1, nFlowStart(m), Announced(m),
                        nFlowFinish(m), nFinishFlow(m), nRetransmitRequest(m),
                        nRequestRetransmit(m), Resending(m), Stopped(m),
                        nStopRequest(m), nStopFlow(m), nStopConfirm(m),
                        nConfirmStop(m), Kept[m])
  <2>1. \A sp, sc, rp, rc, po, qs, se, ke, qr, rv, fs, an,
           ff, nf, rr, rn, re, st, sr, sf, cf, cs, w :
          /\ Laws(sp, sc, rp, rc, po, qs, se, ke, qr, rv, fs, an,
                  ff, nf, rr, rn, re, st, sr, sf, cf, cs, w)
          /\ qr >= 1
          => /\ rv = 0
             /\ rc = 0
             /\ Laws(sp, sc, rp, rc, po, qs, se, ke, qr - 1, 1, fs, an,
                     ff, nf, rr, rn, re, st, sr, sf, cf, cs, w)
    BY DEF Laws
  <2> QED
    BY <1>laws, <2>1, Zenon DEF LawsOf
<1>1. TypeOK /\ Contents
  BY Zenon DEF IInv
<1>0. PICK k \in MsgIds : rr_queue # <<>> /\ Head(rr_queue) = k
  <2>1. rr_queue # <<>> /\ rr_queue \in Seq(MsgIds)
    BY <1>1, Zenon DEF PollReceiveRequest, TypeOK
  <2> QED
    BY <2>1
<1>2. /\ rr_queue # <<>> /\ Head(rr_queue) = k /\ rr_queue' = Tail(rr_queue)
      /\ recv_msgs' = recv_msgs \cup {k}
      /\ block_size' = [block_size EXCEPT ![k] = 0]
      /\ taken' = [taken EXCEPT ![k] = {}]
      /\ bytes_received' = [bytes_received EXCEPT ![k] = 0]
      /\ stopped' = [stopped EXCEPT ![k] = FALSE]
  BY <1>0, Zenon DEF PollReceiveRequest
<1>3. TypeOK'
  <2>0. rr_queue' \in Seq(MsgIds)
    BY <1>1, <1>2, QueueTypes, Zenon DEF TypeOK
  <2>1. /\ recv_msgs' \in SUBSET MsgIds
        /\ block_size' \in [MsgIds -> Nat] /\ bytes_received' \in [MsgIds -> Nat]
        /\ taken' \in [MsgIds -> SUBSET Seqs] /\ stopped' \in [MsgIds -> BOOLEAN]
    BY <1>1, <1>2, Zenon DEF TypeOK
  <2> QED
    BY <1>1, <2>0, <2>1, ZenonT(40) DEF TypeOK, PollReceiveRequest, receiver_vars,
       recv_state, sender_vars
<1>4. Contents'
  BY <1>1, QueueTypes, Zenon DEF Contents, PollReceiveRequest, receiver_vars, recv_state,
     sender_vars
<1>5. ASSUME NEW m \in MsgIds, m # k PROVE Good(m)'
  <2>1. QueuesElsewhere(m)
    BY <1>1, <1>2, <1>5, Zenon DEF QueuesElsewhere, OtherPost, OtherStep,
       PollReceiveRequest, receiver_vars, sender_vars
  <2>2. SenderSame(m) /\ ReceiverSame(m)
    BY <1>1, <1>2, <1>5, MsgFacts, ZenonT(40)
       DEF SenderSame, ReceiverSame, PollReceiveRequest, receiver_vars, recv_state,
       sender_vars, TypeOK
  <2> QED
    BY <1>1, <2>1, <2>2, Elsewhere, Zenon DEF IInv
<1>6. Good(k)'
  <2>1. LawsOf(k) /\ Ordered(k) /\ Flying(k) /\ Received(k) /\ Sent(k) /\ Typed(k)
    BY <1>1, Types, Zenon DEF IInv, Good
  <2>2. nRecv(k) >= 1 /\ nRecv(k)' = nRecv(k) - 1
    <3>1. nRecv(k)' = nRecv(k) - One(Head(rr_queue) = k) /\ nRecv(k)' \in Nat /\ One(Head(rr_queue) = k) = 1
      BY <1>1, <1>2, RrQueueSteps, Zenon DEF One
    <3> QED
      BY <2>1, <3>1, CounterSteps, Zenon DEF Typed
  <2>3. /\ nSend(k)' = nSend(k) /\ nFlowStart(k)' = nFlowStart(k)
        /\ nFlowFinish(k)' = nFlowFinish(k)
        /\ nStopConfirm(k)' = nStopConfirm(k)
        /\ nFinishFlow(k)' = nFinishFlow(k)
        /\ nConfirmStop(k)' = nConfirmStop(k)
        /\ nRetransmitRequest(k)' = nRetransmitRequest(k)
        /\ nStopRequest(k)' = nStopRequest(k)
        /\ nRequestRetransmit(k)' = nRequestRetransmit(k)
        /\ nStopFlow(k)' = nStopFlow(k) /\ OrderedToReceiver(k)'
        /\ OrderedRecvNotif(k)' /\ OrderedToSender(k)'
        /\ OrderedPrioNotif(k)'
    BY <1>1, <1>2, <2>1, SrQueueSteps, ToReceiverSame, RecvNotifSame, ToSenderSame,
       PrioNotifSame, ZenonT(40)
       DEF PollReceiveRequest, receiver_vars, sender_vars, Ordered
  <2>10. taken[k] = {} /\ ~stopped[k]
    <3>1. Receiving(k) = 0 /\ recv_completions[k] = 0
      BY <2>1, <2>2, <1>laws, ZenonT(40)
    <3>2. ~(Receiving(k) = 1 \/ recv_completions[k] > 0)
      BY <3>1
    <3> QED
      BY <2>1, <3>2, Zenon DEF Received
  <2>11. /\ block_size'[k] = 0 /\ taken'[k] = {} /\ bytes_received'[k] = 0
         /\ stopped'[k] = FALSE
    BY <1>1, <1>2, Zenon DEF TypeOK
  <2>4. /\ Receiving(k)' = 1 /\ Posting(k)' = Posting(k)
        /\ Sending(k)' = Sending(k) /\ Keeping(k)' = Keeping(k)
        /\ Resending(k)' = Resending(k) /\ Announced(k)' = Announced(k)
        /\ Stopped(k)' = Stopped(k)
    BY <1>1, <1>2, <2>10 DEF PollReceiveRequest, receiver_vars, recv_state, sender_vars,
       One, Posting, Sending, Keeping,
       Resending, Announced, Receiving, Stopped
  <2>5. /\ send_posts'[k] = send_posts[k]
        /\ confirmed'[k] = confirmed[k]
        /\ recv_posts'[k] = recv_posts[k]
        /\ recv_completions'[k] = recv_completions[k]
    BY <1>1, <1>2, Zenon DEF TypeOK, PollReceiveRequest, receiver_vars, sender_vars
  <2>6. LawsOf(k)'
    BY <2>1, <2>2, <2>3, <2>4, <2>5, <1>laws, ZenonT(40) DEF LawsOf
  <2>7. Ordered(k)'
    BY <2>3, Zenon DEF Ordered
  <2>8. Flying(k)'
    BY <2>1, <2>3, <2>4, <2>5, <2>11, ZenonT(40)
       DEF Flying, OnTheWay, PollReceiveRequest, sender_vars
  <2>9. Received(k)' /\ Sent(k)'
    <3>1. Sent(k)'
      BY <2>1, Zenon DEF Sent, MaxSeq, GetMaxSeqNum, PollReceiveRequest, sender_vars
    <3>2. MaxSeq(k)' = MaxSeq(k) /\ Bound(k)' = Bound(k)
      BY Zenon DEF MaxSeq, GetMaxSeqNum, Bound, AlignUp
    <3>3. BytesOf(k)'
      <4>1. Cardinality({} \ {MaxSeq(k)}) = 0
        BY NoneOrAllPackets, Zenon
      <4> QED
        BY <2>11, <3>2, <4>1, SegmentAssumption DEF BytesOf, PayloadOf
    <3> QED
      BY <2>4, <2>11, <3>1, <3>2, <3>3, MsgFacts DEF Received
  <2> QED
    BY <2>6, <2>7, <2>8, <2>9, Zenon DEF Good
<1> QED
  BY <1>3, <1>4, <1>5, <1>6, Zenon DEF IInv

\* HandleReceive copies a new packet and, at the bound, begins the stop.
LEMMA HandleReceiveInv ==
  ASSUME CountingFacts, IInv, NEW p \in AllPackets, HandleReceive(p)
  PROVE  IInv'
\* HandleReceive, bound reached: the stop begins.
<1>laws. ASSUME NEW m, LawsOf(m), Stopped(m) = 0
         PROVE  /\ Laws(send_posts[m], confirmed[m], recv_posts[m],
                        recv_completions[m], Posting(m), nSend(m), Sending(m),
                        Keeping(m), nRecv(m), Receiving(m), nFlowStart(m),
                        Announced(m), nFlowFinish(m), nFinishFlow(m),
                        nRetransmitRequest(m), nRequestRetransmit(m), Resending(m), 1,
                        nStopRequest(m) + 1, nStopFlow(m), nStopConfirm(m),
                        nConfirmStop(m), Kept[m])
  <2>1. \A sp, sc, rp, rc, po, qs, se, ke, qr, rv, fs, an,
           ff, nf, rr, rn, re, st, sr, sf, cf, cs, w :
          /\ Laws(sp, sc, rp, rc, po, qs, se, ke, qr, rv, fs, an,
                  ff, nf, rr, rn, re, st, sr, sf, cf, cs, w)
          /\ st = 0
          => /\ Laws(sp, sc, rp, rc, po, qs, se, ke, qr, rv, fs, an,
                     ff, nf, rr, rn, re, 1, sr + 1, sf, cf, cs, w)
    BY DEF Laws
  <2> QED
    BY <1>laws, <2>1, ZenonT(40) DEF LawsOf
<1> DEFINE fresh == p.msg_id \in recv_msgs /\ p.seq \notin taken[p.msg_id]
<1>1. TypeOK /\ Contents
  BY Zenon DEF IInv
<1>0. PICK k \in MsgIds : p \in Packets(k)
  BY Zenon DEF AllPackets
<1>11. PICK i \in 0 .. MaxSeq(k) : p = Packet(k, PartitionOneBySeq(Size[k], i))
  BY <1>0, Zenon DEF Packets
<1>7. /\ p.msg_id = k /\ p.seq = i /\ p.bytes = PartitionOneBySeq(Size[k], i).bytes
      /\ p.bytes \in Nat \ {0} /\ i \in Nat /\ i <= MaxSeq(k) /\ i \in Seqs
  <2>1. /\ p.msg_id = k /\ p.seq = PartitionOneBySeq(Size[k], i).seq
        /\ p.bytes = PartitionOneBySeq(Size[k], i).bytes
    BY <1>11, Zenon DEF Packet
  <2>2. /\ PartitionOneBySeq(Size[k], i).seq = i
        /\ PartitionOneBySeq(Size[k], i).bytes \in Nat \ {0}
    BY PacketFacts, Zenon
  <2>3. MaxSeq(k) \in Nat /\ i \in Seqs
    BY MsgFacts, Zenon
  <2>4. i \in Nat /\ i <= MaxSeq(k)
    BY <2>3
  <2> QED
    BY <2>1, <2>2, <2>3, <2>4, Zenon
<1> DEFINE e == [type |-> "kStopRequest", msg_id |-> k]
           got == bytes_received[k] + p.bytes
           stop == got >= Bound(k) /\ ~stopped[k]
<1>8. e \in Requests /\ e \in ToSender /\ e.type = "kStopRequest" /\ e.msg_id = k
  BY Zenon DEF Requests, ToSender
<1>2. net' \subseteq net /\ p \in net
  BY Zenon DEF HandleReceive
<1>9. CASE ~fresh
  <2>1. UNCHANGED <<block_size, taken, bytes_received, stopped, to_sender>>
    BY <1>9, Zenon DEF HandleReceive
  <2>2. TypeOK'
    BY <1>1, <1>2, <2>1, ZenonT(40) DEF TypeOK, HandleReceive, sender_vars
  <2>3. Contents'
    BY <1>1, <2>1, Zenon DEF Contents, HandleReceive, sender_vars
  <2>4. ASSUME NEW m \in MsgIds PROVE Good(m)'
    <3>1. QueuesElsewhere(m)
      BY <2>1, Zenon DEF QueuesElsewhere, OtherPost, OtherStep, HandleReceive, sender_vars
    <3>2. SenderSame(m) /\ ReceiverSame(m)
      BY <1>2, <2>1, Zenon DEF SenderSame, ReceiverSame, HandleReceive, sender_vars
    <3> QED
      BY <1>1, <3>1, <3>2, Elsewhere, Zenon DEF IInv
  <2> QED
    BY <2>2, <2>3, <2>4, Zenon DEF IInv
<1>10. CASE fresh
  <2>1. /\ k \in recv_msgs /\ i \notin taken[k]
        /\ block_size' = [block_size EXCEPT ![k] = Larger(@, i + 1)]
        /\ taken' = [taken EXCEPT ![k] = @ \cup {i}]
        /\ bytes_received' = [bytes_received EXCEPT ![k] = got]
        /\ stopped' = [stopped EXCEPT ![k] = @ \/ stop]
        /\ to_sender' = IF stop THEN Append(to_sender, e) ELSE to_sender
    BY <1>7, <1>10, Zenon DEF HandleReceive, CopyNewPacket
  <2>2. bytes_received[k] \in Nat /\ got \in Nat
    <3>1. bytes_received[k] \in Nat
      BY <1>1, Zenon DEF TypeOK
    <3> QED
      BY <1>7, <3>1
  <2> HIDE DEF e, got, stop, fresh
  <2>3. TypeOK'
    <3>1. to_sender' \in Seq(ToSender)
      BY <1>1, <1>8, <2>1, QueueTypes, Zenon DEF TypeOK
    <3>2. block_size' \in [MsgIds -> Nat]
      <4>1. block_size[k] \in Nat
        BY <1>1, Zenon DEF TypeOK
      <4>2. Larger(block_size[k], i + 1) \in Nat
        BY <1>7, <4>1 DEF Larger
      <4> QED
        BY <1>1, <2>1, <4>2, Zenon DEF TypeOK
    <3>3. taken' \in [MsgIds -> SUBSET Seqs]
      BY <1>1, <1>7, <2>1, ZenonT(40) DEF TypeOK
    <3>4. bytes_received' \in [MsgIds -> Nat] /\ stopped' \in [MsgIds -> BOOLEAN]
      BY <1>1, <2>1, <2>2, Zenon DEF TypeOK
    <3>5. net' \in SUBSET AllPackets
      BY <1>1, <1>2, Zenon DEF TypeOK
    <3> QED
      BY <1>1, <3>1, <3>2, <3>3, <3>4, <3>5, ZenonT(40) DEF TypeOK, HandleReceive, sender_vars
  <2>4. Contents'
    BY <1>1, <1>8, <2>1, QueueTypes, Zenon DEF Contents, HandleReceive, sender_vars
  <2>5. ASSUME NEW m \in MsgIds, m # k PROVE Good(m)'
    <3>1. QueuesElsewhere(m)
      BY <1>8, <2>1, <2>5, Zenon DEF QueuesElsewhere, OtherPost, OtherStep, HandleReceive,
         sender_vars
    <3>2. SenderSame(m)
      BY <1>2, Zenon DEF SenderSame, HandleReceive, sender_vars
    <3>3. ReceiverSame(m)
      BY <1>1, <2>1, <2>5, Zenon DEF ReceiverSame, HandleReceive, TypeOK
    <3> QED
      BY <1>1, <3>1, <3>2, <3>3, Elsewhere, Zenon DEF IInv
  <2>6. Good(k)'
    <3>1. LawsOf(k) /\ Ordered(k) /\ Flying(k) /\ Received(k) /\ Sent(k) /\ Typed(k)
      BY <1>1, Types, Zenon DEF IInv, Good
    <3>2. /\ block_size'[k] = Larger(block_size[k], i + 1)
          /\ taken'[k] = taken[k] \cup {i} /\ bytes_received'[k] = got
          /\ stopped'[k] = (stopped[k] \/ stop)
      BY <1>1, <2>1, Zenon DEF TypeOK
    <3>3. OnTheWay(k)
      BY <1>2, <1>7, Zenon DEF OnTheWay
    <3>4. /\ nSend(k)' = nSend(k) /\ nRecv(k)' = nRecv(k)
          /\ nFlowStart(k)' = nFlowStart(k) /\ nFlowFinish(k)' = nFlowFinish(k)
          /\ nStopConfirm(k)' = nStopConfirm(k)
          /\ nFinishFlow(k)' = nFinishFlow(k)
          /\ nConfirmStop(k)' = nConfirmStop(k)
          /\ nRequestRetransmit(k)' = nRequestRetransmit(k)
          /\ nStopFlow(k)' = nStopFlow(k) /\ OrderedToReceiver(k)'
          /\ OrderedRecvNotif(k)' /\ OrderedPrioNotif(k)'
      BY <1>1, <3>1, SrQueueSteps, RrQueueSteps, ToReceiverSame, RecvNotifSame,
         PrioNotifSame, ZenonT(40)
         DEF HandleReceive, sender_vars, Ordered
    <3>5. /\ Stopped(k)' = One(stopped[k] \/ stop) /\ Posting(k)' = Posting(k)
          /\ Sending(k)' = Sending(k) /\ Keeping(k)' = Keeping(k)
          /\ Resending(k)' = Resending(k) /\ Announced(k)' = Announced(k)
          /\ Receiving(k)' = Receiving(k)
      BY <3>2, ZenonT(40) DEF HandleReceive, sender_vars, One, Posting, Sending, Keeping,
         Resending, Announced, Receiving, Stopped
    <3>6. /\ send_posts'[k] = send_posts[k]
          /\ confirmed'[k] = confirmed[k]
          /\ recv_posts'[k] = recv_posts[k]
          /\ recv_completions'[k] = recv_completions[k]
      BY <1>1, Zenon DEF TypeOK, HandleReceive, sender_vars
    <3>7. LawsOf(k)' /\ OrderedToSender(k)'
      <4>1. CASE stop
        <5>1. /\ nRetransmitRequest(k)' = nRetransmitRequest(k)
              /\ nStopRequest(k)' = nStopRequest(k) + 1
              /\ OrderedToSender(k) => OrderedToSender(k)'
          <6>1. /\ One(Is(e, "kRetransmitRequest", k)) = 0
                /\ One(Is(e, "kStopRequest", k)) = 1
            BY <1>8, Zenon DEF Is, One
          <6>2. /\ nRetransmitRequest(k)' = nRetransmitRequest(k) + One(Is(e, "kRetransmitRequest", k))
                /\ nStopRequest(k)' = nStopRequest(k) + One(Is(e, "kStopRequest", k))
                /\ OrderedToSender(k) => OrderedToSender(k)'
            BY <1>1, <1>8, <2>1, <4>1, ToSenderAppend, Zenon DEF Is
          <6> QED
            BY <3>1, <6>1, <6>2, CounterSteps, Zenon DEF Typed
        <5>2. Stopped(k) = 0 /\ Stopped(k)' = 1
          BY <3>5, <4>1, ZenonT(40) DEF stop, Stopped, One
        <5>3. LawsOf(k)'
          BY <3>1, <3>4, <3>5, <3>6, <5>1, <5>2, <1>laws, ZenonT(40) DEF LawsOf
        <5> QED
          BY <3>1, <5>1, <5>3, Zenon DEF Ordered
      <4>2. CASE ~stop
        <5>1. Stopped(k)' = Stopped(k)
          BY <3>5, <4>2, ZenonT(40) DEF Stopped, One
        <5>2. UNCHANGED to_sender
          BY <2>1, <4>2, Zenon
        <5>3. /\ nRetransmitRequest(k)' = nRetransmitRequest(k)
              /\ nStopRequest(k)' = nStopRequest(k) /\ OrderedToSender(k)'
          BY <3>1, <5>2, ToSenderSame, Zenon DEF Ordered
        <5> QED
          BY <3>1, <3>4, <3>5, <3>6, <5>1, <5>3, ZenonT(40) DEF LawsOf
      <4> QED
        BY <4>1, <4>2, Zenon
    <3>8. Ordered(k)'
      BY <3>4, <3>7, Zenon DEF Ordered
    <3>9. Flying(k)'
      BY <3>1, <3>3, <3>4, <3>5, <3>6, ZenonT(40) DEF Flying
    <3>10. Sent(k)'
      BY <3>1, ZenonT(40) DEF Sent, MaxSeq, GetMaxSeqNum, HandleReceive, sender_vars
    <3>11. MaxSeq(k)' = MaxSeq(k) /\ Bound(k)' = Bound(k)
      BY Zenon DEF MaxSeq, GetMaxSeqNum, Bound, AlignUp
    <3>12. Received(k)'
      <4>1. Receiving(k)' = 1
        BY <2>1, <3>5, Zenon DEF Receiving, One
      <4>2. taken'[k] \subseteq 0 .. MaxSeq(k) /\ taken'[k] # {}
        BY <3>1, <3>2, ZenonT(40) DEF Received
      <4>3. block_size'[k] <= MaxSeq(k) + 1
        <5>1. block_size[k] \in Nat /\ block_size[k] <= MaxSeq(k) + 1 /\ MaxSeq(k) \in Nat
          BY <3>1, MsgFacts, Zenon DEF Received, Typed
        <5>2. block_size'[k] = Larger(block_size[k], i + 1)
          BY <3>2, Zenon
        <5> QED
          BY <1>7, <5>1, <5>2 DEF Larger
      <4>4. BytesOf(k)'
        <5>1. taken[k] \subseteq 0 .. MaxSeq(k) /\ bytes_received[k] = PayloadOf(k, taken[k])
          BY <3>1, Zenon DEF Received, BytesOf
        <5>2. PayloadOf(k, taken[k] \cup {i})
                = PayloadOf(k, taken[k]) + PartitionOneBySeq(Size[k], i).bytes
          BY <2>1, <5>1, BytesStep, Zenon
        <5>3. got = PayloadOf(k, taken[k] \cup {i})
          BY <1>7, <5>1, <5>2, Zenon DEF got
        <5> QED
          BY <3>2, <5>3, Zenon DEF BytesOf, PayloadOf, MaxSeq, GetMaxSeqNum
      <4>5. got >= bytes_received[k] /\ Bound(k) \in Nat
        BY <1>7, <2>2, MsgFacts DEF got
      <4>6. stopped'[k] => bytes_received'[k] >= Bound(k)
        <5>1. CASE stopped[k]
          <6>1. bytes_received[k] >= Bound(k)
            BY <3>1, <5>1, Zenon DEF Received
          <6>2. bytes_received'[k] = got /\ bytes_received[k] \in Nat
            BY <2>2, <3>2, Zenon
          <6>3. got >= Bound(k)
            <7> HIDE DEF got
            <7>1. got \in Nat
              BY <2>2, Zenon DEF got
            <7> QED
              BY <4>5, <6>1, <6>2, <7>1
          <6> QED
            BY <6>2, <6>3, Zenon
        <5>2. CASE ~stopped[k]
          BY <3>2, <5>2, ZenonT(40) DEF stop
        <5> QED
          BY <5>1, <5>2, Zenon
      <4>7. ~stopped'[k] => bytes_received'[k] < Bound(k)
        <5>1. ~stopped'[k] => ~(got >= Bound(k))
          BY <3>2, Zenon DEF stop
        <5> QED
          BY <2>2, <3>2, <4>5, <5>1
      <4> QED
        BY <3>11, <4>1, <4>2, <4>3, <4>4, <4>6, <4>7, ZenonT(40) DEF Received
    <3> QED
      BY <3>7, <3>8, <3>9, <3>10, <3>12, Zenon DEF Good
  <2> QED
    BY <2>3, <2>4, <2>5, <2>6, Zenon DEF IInv
<1> QED
  BY <1>9, <1>10, Zenon
=============================================================================

--------------------------- MODULE MltFlowProofs ----------------------------
(***************************************************************************)
(* The safety properties of MltFlow, proved for any number of messages of any*)
(* sizes, any loss ratios and any queue capacity, under the assumption that*)
(* the applications use every message id once (MaxPosts = 1; with a larger *)
(* value the properties fail), and that MltFlow implements the transfer its*)
(* applications see.  MltFlowInvariant shows that the other steps preserve *)
(* the invariant IInv; this module shows it of the end of a round and of a *)
(* stop, shows what the invariant implies, and draws the conclusions with  *)
(* what it proves of counting (CountingFacts).                             *)
(***************************************************************************)
EXTENDS MltFlowInvariant

-----------------------------------------------------------------------------

(***************************************************************************)
(* The actions of the receiving channel that end a round, or confirm a     *)
(* stop, preserve the invariant.                                           *)
(***************************************************************************)
\* FinishFlow asks for the missing packets, or ends the last round.
LEMMA FinishFlowInv ==
  ASSUME CountingFacts, IInv, FinishFlow
  PROVE  IInv'
\* A round that ends belongs to a receive that has not completed.
<1>finished. ASSUME NEW m, LawsOf(m), nFinishFlow(m) >= 1
             PROVE  /\ recv_completions[m] = 0
  <2>1. \A sp, sc, rp, rc, po, qs, se, ke, qr, rv, fs, an,
           ff, nf, rr, rn, re, st, sr, sf, cf, cs, w :
          /\ Laws(sp, sc, rp, rc, po, qs, se, ke, qr, rv, fs, an,
                  ff, nf, rr, rn, re, st, sr, sf, cf, cs, w)
          /\ nf >= 1
          => /\ rc = 0
    BY DEF Laws
  <2> QED
    BY <1>finished, <2>1, ZenonT(40) DEF LawsOf
\* FinishFlow: the round ends, if the receiver is content.
<1>content. ASSUME NEW m, LawsOf(m), nFinishFlow(m) >= 1, (Stopped(m) = 1 \/ Kept[m] = 0)
            PROVE  /\ Laws(send_posts[m], confirmed[m], recv_posts[m],
                           recv_completions[m], Posting(m), nSend(m), Sending(m),
                           Keeping(m), nRecv(m), Receiving(m), nFlowStart(m),
                           Announced(m), nFlowFinish(m), nFinishFlow(m) - 1,
                           nRetransmitRequest(m), nRequestRetransmit(m), Resending(m),
                           Stopped(m), nStopRequest(m), nStopFlow(m), nStopConfirm(m),
                           nConfirmStop(m), Kept[m])
  <2>1. \A sp, sc, rp, rc, po, qs, se, ke, qr, rv, fs, an,
           ff, nf, rr, rn, re, st, sr, sf, cf, cs, w :
          /\ Laws(sp, sc, rp, rc, po, qs, se, ke, qr, rv, fs, an,
                  ff, nf, rr, rn, re, st, sr, sf, cf, cs, w)
          /\ nf >= 1 /\ (st = 1 \/ w = 0)
          => /\ Laws(sp, sc, rp, rc, po, qs, se, ke, qr, rv, fs, an,
                     ff, nf - 1, rr, rn, re, st, sr, sf, cf, cs, w)
    BY DEF Laws
  <2> QED
    BY <1>content, <2>1, ZenonT(40) DEF LawsOf
\* FinishFlow: the round becomes a request, if the receiver is not content.
<1>laws. ASSUME NEW m, LawsOf(m), nFinishFlow(m) >= 1, Stopped(m) = 0
         PROVE  /\ nStopRequest(m) = 0
                /\ Laws(send_posts[m], confirmed[m], recv_posts[m],
                        recv_completions[m], Posting(m), nSend(m), Sending(m),
                        Keeping(m), nRecv(m), Receiving(m), nFlowStart(m),
                        Announced(m), nFlowFinish(m), nFinishFlow(m) - 1,
                        nRetransmitRequest(m) + 1, nRequestRetransmit(m),
                        Resending(m), Stopped(m), nStopRequest(m), nStopFlow(m),
                        nStopConfirm(m), nConfirmStop(m), Kept[m])
  <2>1. \A sp, sc, rp, rc, po, qs, se, ke, qr, rv, fs, an,
           ff, nf, rr, rn, re, st, sr, sf, cf, cs, w :
          /\ Laws(sp, sc, rp, rc, po, qs, se, ke, qr, rv, fs, an,
                  ff, nf, rr, rn, re, st, sr, sf, cf, cs, w)
          /\ nf >= 1 /\ st = 0
          => /\ sr = 0
             /\ Laws(sp, sc, rp, rc, po, qs, se, ke, qr, rv, fs, an,
                     ff, nf - 1, rr + 1, rn, re, st, sr, sf, cf, cs, w)
    BY DEF Laws
  <2> QED
    BY <1>laws, <2>1, ZenonT(40) DEF LawsOf
<1>1. TypeOK /\ Contents
  BY DEF IInv
<1>7. recv_notif # <<>> /\ recv_notif \in Seq(Finishes) /\ Head(recv_notif) \in Finishes
  <2>1. recv_notif # <<>> /\ recv_notif \in Seq(Finishes)
    BY <1>1, ZenonT(40) DEF FinishFlow, Contents
  <2> QED
    BY <2>1
<1>0. PICK k \in MsgIds : Head(recv_notif).msg_id = k
  BY <1>7, Zenon DEF Finishes, RecvNotification
<1> DEFINE blocks == Missing(k, MaxSeq(k))
           e == [type |-> "kRetransmitRequest", msg_id |-> k, blocks |-> blocks]
           content == k \in recv_msgs /\ FinishReceiving(k)
<1>2. /\ recv_notif # <<>> /\ Head(recv_notif).type = "FINISH_FLOW"
      /\ Head(recv_notif).msg_id = k /\ recv_notif' = Tail(recv_notif)
      /\ Head(recv_notif).max_seq_num = MaxSeq(k)
  BY <1>0, <1>7, ZenonT(40) DEF FinishFlow, Finishes
<1>3. LawsOf(k) /\ Ordered(k) /\ Flying(k) /\ Received(k) /\ Sent(k) /\ Typed(k)
  BY <1>1, Types DEF IInv, Good
<1>4. recv_notif' \in Seq(RecvNotification) /\ recv_notif' \in Seq(Finishes)
  BY <1>1, <1>2, <1>7, QueueTypes, Zenon DEF TypeOK, Contents
<1>5. MaxSeq(k) \in Nat /\ Bound(k) \in Nat /\ bytes_received[k] \in Nat
  BY <1>3, MsgFacts, ZenonT(40) DEF Typed
<1>6. /\ nFinishFlow(k) >= 1
      /\ nFinishFlow(k)' = nFinishFlow(k) - 1 /\ nConfirmStop(k)' = nConfirmStop(k)
      /\ OrderedRecvNotif(k)' /\ recv_completions[k] = 0
  <2>1. /\ nFinishFlow(k) >= 1
        /\ nFinishFlow(k)' = nFinishFlow(k) - 1
        /\ nConfirmStop(k)' = nConfirmStop(k)
        /\ OrderedRecvNotif(k)'
    <3>1. /\ One(Is(Head(recv_notif), "FINISH_FLOW", k)) = 1
          /\ One(Is(Head(recv_notif), "CONFIRM_STOP", k)) = 0
          /\ Is(Head(recv_notif), "FINISH_FLOW", k)
      BY <1>2, Zenon DEF Is, One
    <3>2. /\ nFinishFlow(k)' = nFinishFlow(k) - One(Is(Head(recv_notif), "FINISH_FLOW", k))
          /\ nConfirmStop(k)' = nConfirmStop(k) - One(Is(Head(recv_notif), "CONFIRM_STOP", k))
          /\ nFinishFlow(k)' \in Nat
          /\ OrderedRecvNotif(k)'
      BY <1>1, <1>2, <1>3, <3>1, RecvNotifTail, Zenon DEF Ordered
    <3>3. nFinishFlow(k) \in Nat /\ nConfirmStop(k) \in Nat
      BY <1>3, Zenon DEF Typed
    <3> QED
      BY <3>1, <3>2, <3>3, CounterSteps, Zenon
  <2>2. nFinishFlow(k) >= 1
    BY <2>1, Zenon
  <2> QED
    BY <1>3, <2>1, <2>2, <1>finished, Zenon
<1>8. MaxSeq(k)' = MaxSeq(k) /\ Bound(k)' = Bound(k)
  BY DEF MaxSeq, GetMaxSeqNum, Bound, AlignUp
<1>9. /\ nSend(k)' = nSend(k) /\ nRecv(k)' = nRecv(k)
      /\ nFlowStart(k)' = nFlowStart(k) /\ nFlowFinish(k)' = nFlowFinish(k)
      /\ nStopConfirm(k)' = nStopConfirm(k)
      /\ nRequestRetransmit(k)' = nRequestRetransmit(k) /\ nStopFlow(k)' = nStopFlow(k)
      /\ OrderedToReceiver(k)' /\ OrderedPrioNotif(k)'
  BY <1>1, <1>3, SrQueueSteps, RrQueueSteps, ToReceiverSame, PrioNotifSame, ZenonT(40)
     DEF FinishFlow, sender_vars, Ordered
<1>10. /\ Posting(k)' = Posting(k) /\ Sending(k)' = Sending(k) /\ Keeping(k)' = Keeping(k)
       /\ Resending(k)' = Resending(k) /\ Announced(k)' = Announced(k)
       /\ Receiving(k)' = Receiving(k) /\ Stopped(k)' = Stopped(k)
       /\ send_posts'[k] = send_posts[k] /\ confirmed'[k] = confirmed[k]
       /\ recv_posts'[k] = recv_posts[k] /\ recv_completions'[k] = recv_completions[k]
  BY Zenon DEF FinishFlow, sender_vars, Posting, Sending, Keeping, Resending, Announced,
     Receiving, Stopped
<1>11. Flying(k)' /\ Sent(k)'
  <2>1. OnTheWay(k)' = OnTheWay(k)
    BY Zenon DEF OnTheWay, FinishFlow
  <2>2. Sent(k)'
    BY <1>3, Zenon DEF Sent, MaxSeq, GetMaxSeqNum, FinishFlow, sender_vars
  <2> QED
    BY <1>3, <1>9, <1>10, <2>1, <2>2, Zenon DEF Flying
<1>12. ASSUME block_size'[k] <= MaxSeq(k) + 1 PROVE Received(k)'
  <2>1. /\ taken'[k] = taken[k] /\ bytes_received'[k] = bytes_received[k]
        /\ stopped'[k] = stopped[k]
    BY Zenon DEF FinishFlow
  <2>2. BytesOf(k)'
    BY <1>3, <2>1, Zenon DEF Received, BytesOf, PayloadOf, MaxSeq, GetMaxSeqNum
  <2> QED
    BY <1>3, <1>8, <1>10, <1>12, <2>1, <2>2, ZenonT(40) DEF Received
<1>13. CASE content
  <2>1. UNCHANGED <<block_size, to_sender>>
    BY <1>2, <1>13, Zenon DEF FinishFlow
  <2>2. Stopped(k) = 1 \/ Kept[k] = 0
    <3>1. CASE stopped[k]
      BY <3>1, Zenon DEF Stopped, One
    <3>2. CASE ~stopped[k]
      <4>1. bytes_received[k] >= Bound(k)
        BY <1>13, Zenon DEF FinishReceiving
      <4>2. taken[k] = {}
        BY <1>3, <1>5, <3>2, <4>1 DEF Received
      <4>3. bytes_received[k] = 0
        BY <1>3, <4>2, BytesBounds, ZenonT(40) DEF Received
      <4>4. Kept[k] \in Nat /\ Kept[k] <= Bound(k)
        BY MsgFacts, Zenon
      <4> QED
        BY <1>5, <4>1, <4>3, <4>4
    <3> QED
      BY <3>1, <3>2, Zenon
  <2>3. /\ nRetransmitRequest(k)' = nRetransmitRequest(k)
        /\ nStopRequest(k)' = nStopRequest(k) /\ OrderedToSender(k)'
    BY <1>3, <2>1, ToSenderSame, Zenon DEF Ordered
  <2>4. LawsOf(k)'
    BY <1>3, <1>6, <1>9, <1>10, <2>2, <2>3, <1>content, ZenonT(40) DEF LawsOf
  <2>5. block_size'[k] <= MaxSeq(k) + 1
    BY <1>3, <2>1, ZenonT(40) DEF Received
  <2>6. Good(k)'
    BY <1>6, <1>9, <1>11, <1>12, <2>3, <2>4, <2>5, ZenonT(40) DEF Good, Ordered
  <2>7. TypeOK'
    BY <1>1, <1>4, <2>1, Zenon DEF TypeOK, FinishFlow, sender_vars
  <2>8. Contents'
    BY <1>1, <1>4, <2>1, ZenonT(40) DEF Contents, FinishFlow, sender_vars
  <2>9. ASSUME NEW m \in MsgIds, m # k PROVE Good(m)'
    <3>1. QueuesElsewhere(m)
      BY <1>2, <2>1, <2>9, ZenonT(40) DEF QueuesElsewhere, OtherPost, OtherStep, FinishFlow,
         sender_vars
    <3>2. SenderSame(m) /\ ReceiverSame(m)
      BY <2>1, ZenonT(40) DEF SenderSame, ReceiverSame, FinishFlow, sender_vars
    <3> QED
      BY <1>1, <3>1, <3>2, Elsewhere DEF IInv
  <2> QED
    BY <2>6, <2>7, <2>8, <2>9, Zenon DEF IInv
<1>14. CASE ~content
  <2>1. ~stopped[k]
    <3>1. SUFFICES ASSUME stopped[k] PROVE FALSE
      OBVIOUS
    <3>2. bytes_received[k] >= Bound(k) /\ taken[k] # {}
      BY <1>3, <3>1, Zenon DEF Received
    <3>3. k \notin recv_msgs
      BY <1>14, <3>2, Zenon DEF FinishReceiving
    <3>4. Receiving(k) = 0
      BY <3>3, Zenon DEF Receiving, One
    <3> QED
      BY <1>3, <1>6, <3>2, <3>4 DEF Received
  <2>2. block_size[k] \in Nat /\ block_size[k] <= MaxSeq(k) + 1
    BY <1>3, ZenonT(40) DEF Received, Typed
  <2>3. Larger(block_size[k], MaxSeq(k) + 1) = MaxSeq(k) + 1
    BY <1>5, <2>2 DEF Larger
  <2>4. blocks = IF k \in recv_msgs THEN (0 .. MaxSeq(k)) \ taken[k] ELSE 0 .. MaxSeq(k)
    <3>1. (MaxSeq(k) + 1) - 1 = MaxSeq(k)
      BY <1>5
    <3> QED
      BY <2>3, <3>1, ZenonT(40) DEF Missing
  <2>5. blocks # {} /\ blocks \subseteq 0 .. MaxSeq(k)
    <3>1. CASE k \notin recv_msgs
      BY <1>5, <2>4, <3>1
    <3>2. CASE k \in recv_msgs
      <4>1. bytes_received[k] < Bound(k)
        BY <1>5, <1>14, <3>2 DEF FinishReceiving
      <4>2. taken[k] # 0 .. MaxSeq(k)
        <5>1. SUFFICES ASSUME taken[k] = 0 .. MaxSeq(k) PROVE FALSE
          OBVIOUS
        <5>2. bytes_received[k] = Size[k]
          BY <1>3, <5>1, BytesBounds, ZenonT(40) DEF Received
        <5>3. Bound(k) <= Size[k] /\ Size[k] \in Nat
          BY MsgFacts, Zenon
        <5> QED
          BY <1>5, <4>1, <5>2, <5>3
      <4>3. taken[k] \subseteq 0 .. MaxSeq(k)
        BY <1>3, Zenon DEF Received
      <4> QED
        BY <2>4, <3>2, <4>2, <4>3, ZenonT(40)
    <3> QED
      BY <3>1, <3>2, Zenon
  <2> HIDE DEF blocks
  <2>6. e \in Requests /\ e \in ToSender /\ e.type = "kRetransmitRequest" /\ e.msg_id = k
    <3>1. blocks \in SUBSET Seqs
      BY <2>5, MsgFacts, Zenon
    <3> QED
      BY <2>5, <3>1, ZenonT(40) DEF Requests, ToSender
  <2>7. /\ to_sender' = Append(to_sender, e)
        /\ block_size' = IF k \in recv_msgs
                           THEN [block_size EXCEPT ![k] = MaxSeq(k) + 1] ELSE block_size
    BY <1>2, <1>14, <2>3, <2>5, ZenonT(40) DEF FinishFlow, blocks
  <2> HIDE DEF e
  <2>8. /\ nRetransmitRequest(k)' = nRetransmitRequest(k) + 1
        /\ nStopRequest(k)' = nStopRequest(k)
        /\ OrderedToSender(k) /\ nStopRequest(k) = 0 => OrderedToSender(k)'
    <3>1. /\ One(Is(e, "kRetransmitRequest", k)) = 1
          /\ One(Is(e, "kStopRequest", k)) = 0
      BY <2>6, Zenon DEF Is, One
    <3>2. /\ nRetransmitRequest(k)' = nRetransmitRequest(k) + One(Is(e, "kRetransmitRequest", k))
          /\ nStopRequest(k)' = nStopRequest(k) + One(Is(e, "kStopRequest", k))
          /\ OrderedToSender(k) /\ nStopRequest(k) = 0 => OrderedToSender(k)'
      BY <1>1, <2>6, <2>7, ToSenderAppend, Zenon DEF Is
    <3> QED
      BY <1>3, <3>1, <3>2, CounterSteps, Zenon DEF Typed
  <2>9. Stopped(k) = 0
    BY <2>1, Zenon DEF Stopped, One
  <2>10. LawsOf(k)' /\ nStopRequest(k) = 0
    BY <1>3, <1>6, <1>9, <1>10, <2>8, <2>9, <1>laws, ZenonT(40) DEF LawsOf
  <2>11. Ordered(k)'
    BY <1>3, <1>6, <1>9, <2>8, <2>10, Zenon DEF Ordered
  <2>12. block_size'[k] <= MaxSeq(k) + 1 /\ block_size' \in [MsgIds -> Nat]
    <3>1. block_size \in [MsgIds -> Nat]
      BY <1>1, Zenon DEF TypeOK
    <3>2. MaxSeq(k) + 1 \in Nat
      BY <1>5
    <3> QED
      BY <1>5, <2>2, <2>7, <3>1, <3>2
  <2>13. Good(k)'
    BY <1>11, <1>12, <2>10, <2>11, <2>12, Zenon DEF Good
  <2>14. TypeOK'
    <3>1. to_sender' \in Seq(ToSender)
      BY <1>1, <2>6, <2>7, QueueTypes, Zenon DEF TypeOK
    <3> QED
      BY <1>1, <1>4, <2>12, <3>1, ZenonT(40) DEF TypeOK, FinishFlow, sender_vars
  <2>15. Contents'
    <3>1. to_sender' \in Seq(Requests)
      BY <1>1, <2>6, <2>7 DEF Contents
    <3> QED
      BY <1>1, <1>4, <3>1, ZenonT(40) DEF Contents, FinishFlow, sender_vars
  <2>16. ASSUME NEW m \in MsgIds, m # k PROVE Good(m)'
    <3>1. QueuesElsewhere(m)
      BY <1>2, <2>6, <2>7, <2>16, Zenon DEF QueuesElsewhere, OtherPost, OtherStep,
         FinishFlow, sender_vars
    <3>2. SenderSame(m)
      BY Zenon DEF SenderSame, FinishFlow, sender_vars
    <3>3. block_size'[m] = block_size[m]
      BY <1>1, <2>7, <2>16, Zenon DEF TypeOK
    <3>4. ReceiverSame(m)
      BY <3>3, Zenon DEF ReceiverSame, FinishFlow
    <3> QED
      BY <1>1, <3>1, <3>2, <3>4, Elsewhere, Zenon DEF IInv
  <2> QED
    BY <2>13, <2>14, <2>15, <2>16 DEF IInv
<1> QED
  BY <1>13, <1>14, Zenon

\* ConfirmStop completes the receive.
LEMMA ConfirmStopInv ==
  ASSUME CountingFacts, IInv, ConfirmStop
  PROVE  IInv'
\* A receive in progress has not completed.
<1>receiving. ASSUME NEW m, LawsOf(m), Receiving(m) = 1
              PROVE  /\ recv_completions[m] = 0
  <2>1. \A sp, sc, rp, rc, po, qs, se, ke, qr, rv, fs, an,
           ff, nf, rr, rn, re, st, sr, sf, cf, cs, w :
          /\ Laws(sp, sc, rp, rc, po, qs, se, ke, qr, rv, fs, an,
                  ff, nf, rr, rn, re, st, sr, sf, cf, cs, w)
          /\ rv = 1
          => /\ rc = 0
    BY DEF Laws
  <2> QED
    BY <1>receiving, <2>1, Zenon DEF LawsOf
\* ConfirmStop: the receive completes.
<1>laws. ASSUME NEW m, LawsOf(m), nConfirmStop(m) >= 1, nFinishFlow(m) = 0, Receiving(m) = 1
         PROVE  /\ Laws(send_posts[m], confirmed[m], recv_posts[m], 1,
                        Posting(m), nSend(m), Sending(m), Keeping(m), nRecv(m), 0,
                        nFlowStart(m), Announced(m), nFlowFinish(m), nFinishFlow(m),
                        nRetransmitRequest(m), nRequestRetransmit(m), Resending(m),
                        Stopped(m), nStopRequest(m), nStopFlow(m), nStopConfirm(m),
                        nConfirmStop(m) - 1, Kept[m])
  <2>1. \A sp, sc, rp, rc, po, qs, se, ke, qr, rv, fs, an,
           ff, nf, rr, rn, re, st, sr, sf, cf, cs, w :
          /\ Laws(sp, sc, rp, rc, po, qs, se, ke, qr, rv, fs, an,
                  ff, nf, rr, rn, re, st, sr, sf, cf, cs, w)
          /\ cs >= 1 /\ nf = 0 /\ rv = 1
          => /\ Laws(sp, sc, rp, 1, po, qs, se, ke, qr, 0, fs, an,
                     ff, nf, rr, rn, re, st, sr, sf, cf, cs - 1, w)
    BY DEF Laws
  <2> QED
    BY <1>laws, <2>1, ZenonT(40) DEF LawsOf
<1>1. TypeOK /\ Contents
  BY DEF IInv
<1>7. recv_notif # <<>> /\ recv_notif \in Seq(Finishes) /\ Head(recv_notif) \in Finishes
  <2>1. recv_notif # <<>> /\ recv_notif \in Seq(Finishes)
    BY <1>1, Zenon DEF ConfirmStop, Contents
  <2> QED
    BY <2>1
<1>0. PICK k \in MsgIds : Head(recv_notif).msg_id = k
  BY <1>7 DEF Finishes, RecvNotification
<1>2. /\ recv_notif # <<>> /\ Head(recv_notif).type = "CONFIRM_STOP" /\ Head(recv_notif).msg_id = k
      /\ recv_notif' = Tail(recv_notif)
      /\ k \in recv_msgs /\ recv_msgs' = recv_msgs \ {k}
  BY <1>0, <1>7, Zenon DEF ConfirmStop
<1>9. recv_completions' = [recv_completions EXCEPT ![k] = @ + 1]
  BY <1>0, Zenon DEF ConfirmStop
<1>3. TypeOK'
  <2>0. recv_notif' \in Seq(RecvNotification)
    BY <1>1, <1>2, QueueTypes, Zenon DEF TypeOK
  <2>1. recv_msgs' \in SUBSET MsgIds
    BY <1>1, <1>2, Zenon DEF TypeOK
  <2>2. recv_completions' \in [MsgIds -> Nat]
    BY <1>1, <1>9, CounterGrows, Zenon DEF TypeOK
  <2> QED
    BY <1>1, <2>0, <2>2, <2>1, ZenonT(40)
       DEF TypeOK, ConfirmStop, receiver_vars, recv_state, sender_vars
<1>4. Contents'
  BY <1>1, <1>2, <1>7, QueueTypes, Zenon DEF Contents, ConfirmStop, receiver_vars,
     recv_state, sender_vars
<1>5. ASSUME NEW m \in MsgIds, m # k PROVE Good(m)'
  <2>1. QueuesElsewhere(m)
    BY <1>1, <1>2, <1>5, <1>9, Zenon DEF QueuesElsewhere, OtherPost, OtherStep, ConfirmStop,
       receiver_vars, sender_vars
  <2>2. SenderSame(m) /\ ReceiverSame(m)
    BY <1>1, <1>2, <1>5, <1>9, MsgFacts, Zenon
       DEF SenderSame, ReceiverSame, ConfirmStop, receiver_vars, recv_state,
       sender_vars, TypeOK
  <2> QED
    BY <1>1, <2>1, <2>2, Elsewhere DEF IInv
<1>6. Good(k)'
  <2>1. LawsOf(k) /\ Ordered(k) /\ Flying(k) /\ Received(k) /\ Sent(k) /\ Typed(k)
    BY <1>1, Types DEF IInv, Good
  <2>2. /\ nConfirmStop(k) >= 1
        /\ nFinishFlow(k)' = nFinishFlow(k)
        /\ nConfirmStop(k)' = nConfirmStop(k) - 1
        /\ nFinishFlow(k) = 0 /\ OrderedRecvNotif(k)'
    <3>1. /\ One(Is(Head(recv_notif), "FINISH_FLOW", k)) = 0
          /\ One(Is(Head(recv_notif), "CONFIRM_STOP", k)) = 1
          /\ Is(Head(recv_notif), "CONFIRM_STOP", k)
      BY <1>2, Zenon DEF Is, One
    <3>2. /\ nFinishFlow(k)' = nFinishFlow(k) - One(Is(Head(recv_notif), "FINISH_FLOW", k))
          /\ nConfirmStop(k)' = nConfirmStop(k) - One(Is(Head(recv_notif), "CONFIRM_STOP", k))
          /\ nConfirmStop(k)' \in Nat
          /\ nFinishFlow(k) = 0
          /\ OrderedRecvNotif(k)'
      BY <1>1, <1>2, <2>1, <3>1, RecvNotifTail, Zenon DEF Ordered
    <3> QED
      BY <2>1, <3>1, <3>2, CounterSteps, ZenonT(40) DEF Typed
  <2>3. /\ nSend(k)' = nSend(k) /\ nRecv(k)' = nRecv(k)
        /\ nFlowStart(k)' = nFlowStart(k) /\ nFlowFinish(k)' = nFlowFinish(k)
        /\ nStopConfirm(k)' = nStopConfirm(k)
        /\ nRetransmitRequest(k)' = nRetransmitRequest(k)
        /\ nStopRequest(k)' = nStopRequest(k)
        /\ nRequestRetransmit(k)' = nRequestRetransmit(k)
        /\ nStopFlow(k)' = nStopFlow(k) /\ OrderedToReceiver(k)'
        /\ OrderedToSender(k)' /\ OrderedPrioNotif(k)'
    BY <1>1, <1>2, <2>1, SrQueueSteps, RrQueueSteps, ToReceiverSame, ToSenderSame,
       PrioNotifSame, ZenonT(40)
       DEF ConfirmStop, receiver_vars, sender_vars, Ordered
  <2>10. Receiving(k) = 1 /\ recv_completions[k] = 0
    <3>1. Receiving(k) = 1
      BY <1>2, Zenon DEF Receiving, One
    <3> QED
      BY <2>1, <3>1, <1>receiving, Zenon
  <2>11. recv_completions'[k] = 1
    BY <1>1, <1>9, <2>10 DEF TypeOK
  <2>4. /\ Receiving(k)' = 0 /\ Posting(k)' = Posting(k)
        /\ Sending(k)' = Sending(k) /\ Keeping(k)' = Keeping(k)
        /\ Resending(k)' = Resending(k) /\ Announced(k)' = Announced(k)
        /\ Stopped(k)' = Stopped(k)
    BY <1>1, <1>2, Zenon DEF ConfirmStop, receiver_vars, recv_state, sender_vars, One,
       Posting, Sending, Keeping,
       Resending, Announced, Receiving, Stopped
  <2>5. /\ recv_completions'[k] = 1 /\ send_posts'[k] = send_posts[k]
        /\ confirmed'[k] = confirmed[k]
        /\ recv_posts'[k] = recv_posts[k]
    BY <2>11, Zenon DEF TypeOK, ConfirmStop, receiver_vars, sender_vars
  <2>6. LawsOf(k)'
    BY <2>1, <2>2, <2>3, <2>4, <2>5, <2>10, <1>laws, ZenonT(40) DEF LawsOf
  <2>7. Ordered(k)'
    BY <2>1, <2>2, <2>3, Zenon DEF Ordered
  <2>8. Flying(k)'
    BY <2>1, <2>2, <2>3, <2>4, <2>5, ZenonT(40)
       DEF Flying, OnTheWay, ConfirmStop, receiver_vars, recv_state, sender_vars
  <2>9. Received(k)' /\ Sent(k)'
    <3>1. Sent(k)'
      BY <2>1, Zenon DEF Sent, MaxSeq, GetMaxSeqNum, ConfirmStop, sender_vars
    <3>2. recv_completions'[k] > 0
      BY <2>5
    <3>3. /\ taken'[k] = taken[k] /\ block_size'[k] = block_size[k]
          /\ bytes_received'[k] = bytes_received[k] /\ stopped'[k] = stopped[k]
      BY Zenon DEF ConfirmStop
    <3> QED
      BY <2>1, <3>1, <3>2, <3>3, Zenon DEF Received, BytesOf, PayloadOf, Bound, AlignUp,
         MaxSeq, GetMaxSeqNum
  <2> QED
    BY <2>6, <2>7, <2>8, <2>9 DEF Good
<1> QED
  BY <1>3, <1>4, <1>5, <1>6 DEF IInv

-----------------------------------------------------------------------------
(***************************************************************************)
(* What the invariant IInv implies: the safety properties, and that every  *)
(* step is a step of the transfer the applications see, or none of theirs. *)
(***************************************************************************)
\* What the laws imply.
LEMMA LawsImply ==
  ASSUME NEW m, LawsOf(m)
  PROVE  /\ Posting(m) + nSend(m) + Sending(m) + nFlowFinish(m) + nFinishFlow(m) + nRetransmitRequest(m) + nRequestRetransmit(m) + Resending(m) <= 1
         /\ nStopRequest(m) + nStopFlow(m) + nStopConfirm(m) + nConfirmStop(m) <= 1
         /\ send_posts[m] > 0 /\ Stopped(m) = 0 /\ Kept[m] > 0 => Posting(m) + nSend(m) + Sending(m) + nFlowFinish(m) + nFinishFlow(m) + nRetransmitRequest(m) + nRequestRetransmit(m) + Resending(m) > 0
         /\ Stopped(m) = 1 /\ recv_completions[m] = 0 => nStopRequest(m) + nStopFlow(m) + nStopConfirm(m) + nConfirmStop(m) > 0
         /\ recv_completions[m] > 0 => Posting(m) + nSend(m) + Sending(m) + nFlowFinish(m) + nFinishFlow(m) + nRetransmitRequest(m) + nRequestRetransmit(m) + Resending(m) = 0
         /\ recv_completions[m] > 0 => nStopRequest(m) + nStopFlow(m) + nStopConfirm(m) + nConfirmStop(m) = 0
         /\ recv_completions[m] > 0 => Keeping(m) = 0 /\ Receiving(m) = 0 /\ Announced(m) = 0
         /\ nSend(m) >= 1 => Sending(m) = 0
         /\ Resending(m) = 1 => Keeping(m) = 1
         /\ nFlowFinish(m) >= 1 /\ nFlowStart(m) = 0 => Announced(m) = 1
         /\ nRecv(m) >= 1 => Receiving(m) = 0 /\ recv_completions[m] = 0
         /\ nConfirmStop(m) >= 1 => recv_completions[m] = 0 /\ Stopped(m) = 1
         /\ send_posts[m] >= confirmed[m] /\ confirmed[m] >= recv_completions[m] /\ confirmed[m] <= 1
         /\ confirmed[m] > 0 => Stopped(m) = 1
         /\ recv_posts[m] = 0 => Receiving(m) = 0 /\ recv_completions[m] = 0
         /\ Receiving(m) = 1 => recv_completions[m] = 0 /\ recv_posts[m] > 0
         /\ nStopFlow(m) >= 1 => confirmed[m] = 0 /\ recv_completions[m] = 0 /\ Stopped(m) = 1
         /\ nConfirmStop(m) >= 1 => confirmed[m] > 0
<1> DEFINE Facts(sp, sc, rp, rc, po, qs, se, ke, qr, rv, fs, an,
                 ff, nf, rr, rn, re, st, sr, sf, cf, cs, w) ==
             /\ po + qs + se + ff + nf + rr + rn + re <= 1
             /\ sr + sf + cf + cs <= 1
             /\ sp > 0 /\ st = 0 /\ w > 0 => po + qs + se + ff + nf + rr + rn + re > 0
             /\ st = 1 /\ rc = 0 => sr + sf + cf + cs > 0
             /\ rc > 0 => po + qs + se + ff + nf + rr + rn + re = 0
             /\ rc > 0 => sr + sf + cf + cs = 0
             /\ rc > 0 => ke = 0 /\ rv = 0 /\ an = 0
             /\ qs >= 1 => se = 0
             /\ re = 1 => ke = 1
             /\ ff >= 1 /\ fs = 0 => an = 1
             /\ qr >= 1 => rv = 0 /\ rc = 0
             /\ cs >= 1 => rc = 0 /\ st = 1
             /\ sp >= sc /\ sc >= rc /\ sc <= 1
             /\ sc > 0 => st = 1
             /\ rp = 0 => rv = 0 /\ rc = 0
             /\ rv = 1 => rc = 0 /\ rp > 0
             /\ sf >= 1 => sc = 0 /\ rc = 0 /\ st = 1
             /\ cs >= 1 => sc > 0
<1>1. \A sp, sc, rp, rc, po, qs, se, ke, qr, rv, fs, an,
         ff, nf, rr, rn, re, st, sr, sf, cf, cs, w :
        Laws(sp, sc, rp, rc, po, qs, se, ke, qr, rv, fs, an,
             ff, nf, rr, rn, re, st, sr, sf, cf, cs, w)
        => Facts(sp, sc, rp, rc, po, qs, se, ke, qr, rv, fs, an,
                 ff, nf, rr, rn, re, st, sr, sf, cf, cs, w)
  BY DEF Laws
<1>2. Facts(send_posts[m], confirmed[m], recv_posts[m],
            recv_completions[m], Posting(m), nSend(m), Sending(m), Keeping(m),
            nRecv(m), Receiving(m), nFlowStart(m), Announced(m),
            nFlowFinish(m), nFinishFlow(m), nRetransmitRequest(m),
            nRequestRetransmit(m), Resending(m), Stopped(m), nStopRequest(m),
            nStopFlow(m), nStopConfirm(m), nConfirmStop(m), Kept[m])
  <2> HIDE DEF Facts
  <2> QED
    BY <1>1, Zenon DEF LawsOf
<1> QED
  BY <1>2, Zenon

\* IInv implies OneRoundAtATime.
LEMMA OneRoundInv ==
  ASSUME IInv
  PROVE  OneRoundAtATime
<1>1. ASSUME NEW m \in MsgIds, Good(m) PROVE Rounds(m) <= 1 /\ Stops(m) <= 1
  BY <1>1, LawsImply DEF Good, Rounds, Stops
<1> QED
  BY <1>1, Zenon DEF IInv, OneRoundAtATime

\* IInv implies NeverStranded.
LEMMA NoneStrandedInv ==
  ASSUME IInv
  PROVE  NeverStranded
<1>1. ASSUME NEW m \in MsgIds, Good(m)
      PROVE  /\ send_posts[m] > 0 /\ ~stopped[m] /\ Kept[m] > 0 => Rounds(m) > 0
             /\ stopped[m] /\ recv_completions[m] = 0 => Stops(m) > 0
  <2>1. (~stopped[m] => Stopped(m) = 0) /\ (stopped[m] => Stopped(m) = 1)
    BY DEF Stopped, One
  <2>2. LawsOf(m)
    BY <1>1 DEF Good
  <2>3. /\ send_posts[m] > 0 /\ Stopped(m) = 0 /\ Kept[m] > 0 => Rounds(m) > 0
        /\ Stopped(m) = 1 /\ recv_completions[m] = 0 => Stops(m) > 0
    BY <2>2, LawsImply DEF Rounds, Stops
  <2> QED
    BY <2>1, <2>3
<1> QED
  BY <1>1 DEF IInv, NeverStranded

\* IInv implies EndsClean.
LEMMA CleanEndInv ==
  ASSUME IInv
  PROVE  EndsClean
<1>1. ASSUME NEW m \in MsgIds, Good(m), recv_completions[m] > 0
      PROVE  /\ Rounds(m) = 0 /\ Stops(m) = 0
             /\ m \notin retransmitting_msgs \cup recv_msgs
             /\ msg_max_seq[m] = -1
  <2>1. LawsOf(m)
    BY <1>1 DEF Good
  <2>2. Rounds(m) = 0 /\ Stops(m) = 0
    BY <1>1, <2>1, LawsImply, Zenon DEF Rounds, Stops
  <2>3. Keeping(m) = 0 /\ Receiving(m) = 0 /\ Announced(m) = 0
    BY <1>1, <2>1, LawsImply
  <2>4. m \notin retransmitting_msgs \cup recv_msgs /\ msg_max_seq[m] = -1
    BY <2>3 DEF Keeping, Receiving, Announced, One
  <2> QED
    BY <2>2, <2>4
<1> QED
  BY <1>1 DEF IInv, EndsClean

\* IInv implies ReceivedBytesExact.
LEMMA BytesExactInv ==
  ASSUME IInv
  PROVE  ReceivedBytesExact
  BY DEF IInv, Good, Received, BytesOf, ReceivedBytesExact

\* IInv implies NoCheckFails.
LEMMA ChecksHoldInv ==
  ASSUME CountingFacts, IInv
  PROVE  NoCheckFails
<1>1. TypeOK /\ Contents /\ \A m \in MsgIds : Good(m) /\ LawsOf(m)
  BY DEF IInv, Good
<1>2. ASSUME sr_queue # <<>> PROVE Head(sr_queue) \notin sending_msgs
  <2>1. sr_queue \in Seq(MsgIds)
    BY <1>1 DEF TypeOK
  <2>2. PICK k \in MsgIds : Head(sr_queue) = k
    BY <1>2, <2>1
  <2>3. nSend(k) >= 1
    BY <1>2, <2>1, <2>2, HeadCounts, Zenon DEF nSend
  <2>4. Sending(k) = 0
    BY <1>1, <2>3, LawsImply
  <2> QED
    BY <2>2, <2>4 DEF Sending, One
<1>3. ASSUME NEW m \in MsgIds, retransmit_reqs[m] # {} PROVE m \in retransmitting_msgs
  <2>1. Resending(m) = 1
    BY <1>3 DEF Resending, One
  <2>2. Keeping(m) = 1
    BY <1>1, <2>1, LawsImply
  <2> QED
    BY <2>2 DEF Keeping, One
<1>4. ASSUME prio_notif # <<>>, Head(prio_notif).type = "REQUEST_RETRANSMIT"
      PROVE  Head(prio_notif).blocks # {}
  <2>1. prio_notif \in Seq(Orders)
    BY <1>1 DEF Contents
  <2>2. Head(prio_notif) \in Orders
    BY <1>4, <2>1
  <2> QED
    BY <1>4, <2>2 DEF Orders
<1>5. ASSUME to_receiver # <<>>, Head(to_receiver).type = "kFlowFinish"
      PROVE  msg_max_seq[Head(to_receiver).msg_id] # -1
  <2>1. to_receiver \in Seq(ToReceiver)
    BY <1>1 DEF TypeOK
  <2>2. Head(to_receiver) \in ToReceiver
    BY <1>5, <2>1
  <2>3. PICK k \in MsgIds : Head(to_receiver).msg_id = k
    BY <2>2 DEF ToReceiver
  <2>4. Head(to_receiver) \in FlowFinishes(k)
    BY <1>5, <2>2, <2>3, SignalKinds, Zenon DEF Is
  <2>5. nFlowFinish(k) >= 1
    BY <1>5, <2>1, <2>4, HeadCounts, Zenon DEF nFlowFinish
  <2>6. Precedes(to_receiver, FlowStarts(k), FlowFinishes(k))
    BY <1>1 DEF Good, Ordered, OrderedToReceiver
  <2>7. nFlowStart(k) = 0
    BY <1>5, <2>1, <2>4, <2>6, PrecedesHead, Zenon DEF nFlowStart
  <2>8. Announced(k) = 1
    BY <1>1, <2>5, <2>7, LawsImply, Zenon
  <2> QED
    BY <2>3, <2>8 DEF Announced, One
<1>6. ASSUME rr_queue # <<>> PROVE Head(rr_queue) \notin recv_msgs
  <2>1. rr_queue \in Seq(MsgIds)
    BY <1>1, Zenon DEF TypeOK
  <2>2. PICK k \in MsgIds : Head(rr_queue) = k
    BY <1>6, <2>1
  <2>3. nRecv(k) >= 1
    BY <1>6, <2>1, <2>2, HeadCounts DEF nRecv
  <2>4. Receiving(k) = 0
    BY <1>1, <2>3, LawsImply
  <2> QED
    BY <2>2, <2>4 DEF Receiving, One
<1>7. ASSUME recv_notif # <<>>, Head(recv_notif).type = "CONFIRM_STOP"
      PROVE  Head(recv_notif).msg_id \in recv_msgs
  <2>1. recv_notif \in Seq(RecvNotification)
    BY <1>1 DEF TypeOK
  <2>2. Head(recv_notif) \in RecvNotification
    BY <1>7, <2>1
  <2>3. PICK k \in MsgIds : Head(recv_notif).msg_id = k
    BY <2>2 DEF RecvNotification
  <2>4. Head(recv_notif) \in ConfirmStops(k)
    BY <1>7, <2>2, <2>3, SignalKinds, Zenon DEF Is
  <2>5. nConfirmStop(k) >= 1
    BY <1>7, <2>1, <2>4, HeadCounts, Zenon DEF nConfirmStop
  <2>6. recv_completions[k] = 0 /\ Stopped(k) = 1
    BY <1>1, <2>5, LawsImply
  <2>7. stopped[k]
    BY <2>6 DEF Stopped, One
  <2>8. taken[k] # {}
    BY <1>1, <2>7 DEF Good, Received
  <2>9. Receiving(k) = 1
    BY <1>1, <2>6, <2>8 DEF Good, Received
  <2> QED
    BY <2>3, <2>9 DEF Receiving, One
<1>8. ASSUME NEW p \in net PROVE p.offset + p.bytes <= Size[p.msg_id]
  <2>1. p \in AllPackets
    BY <1>1 DEF TypeOK
  <2>2. PICK k \in MsgIds : p \in Packets(k)
    BY <2>1 DEF AllPackets
  <2>3. PICK i \in 0 .. MaxSeq(k) : p = Packet(k, PartitionOneBySeq(Size[k], i))
    BY <2>2 DEF Packets
  <2>4. /\ p.msg_id = k /\ p.offset = PartitionOneBySeq(Size[k], i).offset
        /\ p.bytes = PartitionOneBySeq(Size[k], i).bytes
    BY <2>3 DEF Packet
  <2> QED
    BY <2>4, PacketFacts
<1> QED
  BY <1>2, <1>3, <1>4, <1>5, <1>6, <1>7, <1>8, Zenon DEF NoCheckFails

\* No set of packets of a message holds more bytes than the message.
LEMMA PayloadBound ==
  ASSUME CountingFacts, NEW m \in MsgIds, NEW T, T \subseteq 0 .. MaxSeq(m)
  PROVE  PayloadOf(m, T) <= Size[m]
<1> DEFINE n == MaxSeq(m)
           U == T \ {n}
           c == Cardinality(U)
<1>1. /\ n \in Nat /\ Size[m] \in Nat /\ Segment \in Nat \ {0} /\ Segment * n \in Nat
      /\ Segment * n < Size[m]
  <2>1. n \in Nat /\ Size[m] \in Nat \ {0} /\ Segment \in Nat \ {0}
    BY MsgFacts, SegmentAssumption
  <2>2. Segment * n < Size[m]
    BY <2>1, MaxSeqBounds DEF MaxSeq
  <2> HIDE DEF n
  <2> QED
    BY <2>1, <2>2
<1>2. U \subseteq 0 .. (n - 1)
  <2>1. n \in Nat /\ U \subseteq (0 .. n) \ {n}
    BY <1>1, Zenon
  <2> HIDE DEF n, U
  <2>2. (0 .. n) \ {n} \subseteq 0 .. (n - 1)
    BY <2>1
  <2> QED
    BY <2>1, <2>2
<1>3. n - 1 \in Int /\ n - 1 >= -1 /\ (n - 1) + 1 = n
  <2>1. n \in Nat
    BY <1>1
  <2> HIDE DEF n
  <2> QED
    BY <2>1
<1>4. c \in Nat /\ c <= n
  BY <1>2, <1>3, SomePackets, Zenon
<1>5. PayloadOf(m, T) = Segment * c + (IF n \in T THEN Size[m] - Segment * n ELSE 0)
  BY DEF PayloadOf
<1> HIDE DEF n, c
<1>6. Segment * c \in Nat /\ Segment * c <= Segment * n
  BY <1>1, <1>4, MulMonotone
<1>7. CASE n \in T
  <2>1. Segment * c + (Size[m] - Segment * n) <= Size[m]
    BY <1>1, <1>6
  <2> QED
    BY <1>5, <1>7, <2>1, Zenon
<1>8. CASE n \notin T
  <2>1. Segment * c + 0 <= Size[m]
    BY <1>1, <1>6
  <2> QED
    BY <1>5, <1>8, <2>1, Zenon
<1> QED
  BY <1>7, <1>8

\* What the applications see of a message depends on these variables only.
LEMMA TransferSame ==
  ASSUME UNCHANGED <<send_posts, confirmed, send_completions, recv_posts,
                     recv_completions, stopped, bytes_received>>
  PROVE  UNCHANGED Transfer!vars
BY DEF Transfer!vars, SentState, ReceivedState

\* No send completes before its stop is confirmed.
Acked == \A m \in MsgIds : send_completions[m] <= confirmed[m]

\* A send is posted.
LEMMA PostSendTransfer ==
  ASSUME MaxPosts = 1, IInv, Acked, NEW k \in MsgIds, PostSend(k)
  PROVE  Transfer!PostSend(k)
<1>1. TypeOK /\ LawsOf(k)
  BY DEF IInv, Good
<1>2. /\ send_posts \in [MsgIds -> Nat] /\ send_posts[k] \in Nat
      /\ confirmed[k] \in Nat /\ send_completions[k] \in Nat
  BY <1>1, Zenon DEF TypeOK
<1>3. send_posts[k] >= confirmed[k] /\ send_completions[k] <= confirmed[k]
  BY <1>1, LawsImply, Zenon DEF Acked
<1>4. send_posts[k] < 1 /\ send_posts' = [send_posts EXCEPT ![k] = @ + 1]
  BY DEF PostSend
<1>5. /\ send_posts[k] = 0 /\ confirmed[k] = 0 /\ send_completions[k] = 0
      /\ send_posts'[k] = 1
  BY <1>2, <1>3, <1>4
<1>6. \A m \in MsgIds : m # k => send_posts'[m] = send_posts[m]
  BY <1>2, <1>4, Zenon
<1>7. UNCHANGED <<confirmed, send_completions, recv_posts, recv_completions, stopped,
                   bytes_received>>
  BY DEF PostSend, receiver_vars, recv_state
<1>8. SentState[k] = "idle" /\ SentState'[k] = "posted"
  BY <1>5, <1>7 DEF SentState
<1>9. SentState' = [SentState EXCEPT ![k] = "posted"]
  BY <1>6, <1>7, <1>8, Zenon DEF SentState
<1>10. ReceivedState' = ReceivedState
  BY <1>7, Zenon DEF ReceivedState
<1> QED
  BY <1>7, <1>8, <1>9, <1>10, Zenon DEF Transfer!PostSend

\* A receive is posted.
LEMMA PostRecvTransfer ==
  ASSUME CountingFacts, MaxPosts = 1, IInv, NEW k \in MsgIds, PostRecv(k)
  PROVE  Transfer!PostRecv(k)
<1>1. TypeOK /\ LawsOf(k) /\ Received(k) /\ Typed(k)
  BY Types, Zenon DEF IInv, Good
<1>2. recv_posts \in [MsgIds -> Nat] /\ recv_posts[k] \in Nat
  BY <1>1, Zenon DEF TypeOK
<1>3. recv_posts[k] < 1 /\ recv_posts' = [recv_posts EXCEPT ![k] = @ + 1]
  BY DEF PostRecv
<1>4. recv_posts[k] = 0 /\ recv_posts'[k] = 1
  BY <1>2, <1>3
<1>5. Receiving(k) = 0 /\ recv_completions[k] = 0
  BY <1>1, <1>4, LawsImply, Zenon
<1>6. ~stopped[k]
  BY <1>1, <1>5 DEF Received
<1>7. \A m \in MsgIds : m # k => recv_posts'[m] = recv_posts[m]
  BY <1>2, <1>3, Zenon
<1>8. UNCHANGED <<send_posts, confirmed, send_completions, recv_completions, stopped,
                   bytes_received>>
  BY DEF PostRecv, sender_vars, recv_state
<1>9. ReceivedState[k] = "idle" /\ ReceivedState'[k] = "posted"
  BY <1>4, <1>5, <1>6, <1>8 DEF ReceivedState
<1>10. ReceivedState' = [ReceivedState EXCEPT ![k] = "posted"]
  BY <1>7, <1>8, <1>9, Zenon DEF ReceivedState
<1>11. SentState' = SentState
  BY <1>8 DEF SentState
<1> QED
  BY <1>8, <1>9, <1>10, <1>11, Zenon DEF Transfer!PostRecv

\* The message of the notification at the head of a queue.
LEMMA HeadStopFlow ==
  ASSUME CountingFacts, IInv, StopFlow
  PROVE  \E k \in MsgIds : /\ Head(prio_notif).msg_id = k
                           /\ nStopFlow(k) >= 1
<1>1. prio_notif \in Seq(PrioNotification) /\ prio_notif # <<>>
  BY Zenon DEF IInv, TypeOK, StopFlow
<1>2. Head(prio_notif) \in PrioNotification /\ Head(prio_notif).type = "STOP_FLOW"
  BY <1>1 DEF StopFlow
<1>3. PICK k \in MsgIds : Head(prio_notif).msg_id = k
  BY <1>2, Zenon DEF PrioNotification
<1>4. Head(prio_notif) \in StopFlows(k)
  BY <1>2, <1>3, SignalKinds, Zenon DEF Is
<1>5. nStopFlow(k) >= 1
  BY <1>1, <1>4, HeadCounts, Zenon DEF nStopFlow
<1> QED
  BY <1>3, <1>5, Zenon

\* StopFlow confirms the stop of a receiver that is content.
LEMMA StopFlowTransfer ==
  ASSUME CountingFacts, IInv, Acked, StopFlow
  PROVE  \E k \in MsgIds : Transfer!Stop(k)
<1>0. PICK k \in MsgIds : Head(prio_notif).msg_id = k /\ nStopFlow(k) >= 1
  BY HeadStopFlow
<1>1. TypeOK /\ LawsOf(k) /\ Received(k) /\ Flying(k)
  BY Zenon DEF IInv, Good
<1>2. confirmed \in [MsgIds -> Nat] /\ send_completions[k] \in Nat
  BY <1>1, Zenon DEF TypeOK
<1>3. confirmed' = [confirmed EXCEPT ![k] = @ + 1]
  BY <1>0, Zenon DEF StopFlow
<1>4. confirmed[k] = 0 /\ recv_completions[k] = 0 /\ Stopped(k) = 1
  BY <1>0, <1>1, LawsImply, Zenon
<1>5. stopped[k] /\ send_posts[k] > 0
  <2>1. stopped[k]
    BY <1>4 DEF Stopped, One
  <2> QED
    BY <1>1, <2>1 DEF Received, Flying, OnTheWay
<1>6. confirmed'[k] = 1 /\ send_completions[k] = 0
  BY <1>2, <1>3, <1>4 DEF Acked
<1>7. \A m \in MsgIds : m # k => confirmed'[m] = confirmed[m]
  BY <1>2, <1>3, Zenon
<1>8. UNCHANGED <<send_posts, send_completions, recv_posts, recv_completions, stopped,
                   bytes_received>>
  BY DEF StopFlow, receiver_vars, recv_state
<1>9. SentState[k] = "posted" /\ SentState'[k] = "stopped"
  BY <1>4, <1>5, <1>6, <1>8 DEF SentState
<1>10. SentState' = [SentState EXCEPT ![k] = "stopped"]
  BY <1>7, <1>8, <1>9, Zenon DEF SentState
<1>11. ReceivedState[k] = "content" /\ ReceivedState' = ReceivedState
  BY <1>4, <1>5, <1>8 DEF ReceivedState
<1> QED
  BY <1>8, <1>9, <1>10, <1>11, Zenon DEF Transfer!Stop

\* The completion StopFlow pushes after the confirmation.
LEMMA CompleteSendTransfer ==
  ASSUME CountingFacts, IInv, NEW k \in MsgIds, CompleteSend(k)
  PROVE  Transfer!CompleteSend(k)
<1>1. TypeOK /\ LawsOf(k)
  BY Zenon DEF IInv, Good
<1>2. /\ send_completions \in [MsgIds -> Nat] /\ send_completions[k] \in Nat
      /\ confirmed[k] \in Nat
  BY <1>1, Zenon DEF TypeOK
<1>3. /\ send_completions[k] < confirmed[k]
      /\ send_completions' = [send_completions EXCEPT ![k] = @ + 1]
  BY Zenon DEF CompleteSend
<1>4. confirmed[k] <= 1
  BY <1>1, LawsImply, Zenon
<1>5. confirmed[k] > 0 /\ send_completions[k] = 0 /\ send_completions'[k] = 1
  BY <1>2, <1>3, <1>4
<1>6. \A m \in MsgIds : m # k => send_completions'[m] = send_completions[m]
  BY <1>2, <1>3, Zenon
<1>7. UNCHANGED <<send_posts, confirmed, recv_posts, recv_completions, stopped,
                   bytes_received>>
  BY DEF CompleteSend, receiver_vars, recv_state
<1>8. SentState[k] = "stopped" /\ SentState'[k] = "complete"
  BY <1>5, <1>7 DEF SentState
<1>9. SentState' = [SentState EXCEPT ![k] = "complete"]
  BY <1>6, <1>7, <1>8, Zenon DEF SentState
<1>10. ReceivedState' = ReceivedState
  BY <1>7, Zenon DEF ReceivedState
<1> QED
  BY <1>7, <1>8, <1>9, <1>10, Zenon DEF Transfer!CompleteSend

\* ConfirmStop completes the receive after the stop is confirmed.
LEMMA ConfirmStopTransfer ==
  ASSUME CountingFacts, IInv, ConfirmStop
  PROVE  \E k \in MsgIds : Transfer!CompleteRecv(k)
<1>1. recv_notif \in Seq(RecvNotification) /\ recv_notif # <<>>
  BY Zenon DEF IInv, TypeOK, ConfirmStop
<1>2. Head(recv_notif) \in RecvNotification /\ Head(recv_notif).type = "CONFIRM_STOP"
  BY <1>1 DEF ConfirmStop
<1>3. PICK k \in MsgIds : Head(recv_notif).msg_id = k
  BY <1>2, Zenon DEF RecvNotification
<1>4. Head(recv_notif) \in ConfirmStops(k)
  BY <1>2, <1>3, SignalKinds, Zenon DEF Is
<1>5. nConfirmStop(k) >= 1
  BY <1>1, <1>4, HeadCounts DEF nConfirmStop
<1>6. TypeOK /\ LawsOf(k) /\ Received(k)
  BY DEF IInv, Good
<1>7. recv_completions \in [MsgIds -> Nat]
  BY <1>6 DEF TypeOK
<1>8. recv_completions' = [recv_completions EXCEPT ![k] = @ + 1]
  BY <1>3, Zenon DEF ConfirmStop
<1>9. recv_completions[k] = 0 /\ Stopped(k) = 1 /\ confirmed[k] > 0
  BY <1>5, <1>6, LawsImply, Zenon
<1>10. stopped[k]
  BY <1>9 DEF Stopped, One
<1>11. bytes_received[k] >= Bound(k)
  BY <1>6, <1>10, Zenon DEF Received
<1>12. recv_completions'[k] = 1
  BY <1>7, <1>8, <1>9
<1>13. \A m \in MsgIds : m # k => recv_completions'[m] = recv_completions[m]
  BY <1>7, <1>8
<1>14. UNCHANGED <<send_posts, confirmed, send_completions, recv_posts, stopped,
                    bytes_received>>
  BY DEF ConfirmStop, sender_vars
<1>15. ReceivedState[k] = "content" /\ ReceivedState'[k] = "complete"
  BY <1>9, <1>10, <1>12 DEF ReceivedState
<1>16. ReceivedState' = [ReceivedState EXCEPT ![k] = "complete"]
  BY <1>13, <1>14, <1>15, Zenon DEF ReceivedState
<1>17. SentState[k] \in {"stopped", "complete"} /\ SentState' = SentState
  BY <1>9, <1>14, Zenon DEF SentState
<1> QED
  BY <1>11, <1>14, <1>15, <1>16, <1>17, Zenon DEF Transfer!CompleteRecv

\* A receive that begins has received nothing before.
LEMMA PollReceiveRequestTransfer ==
  ASSUME CountingFacts, IInv, PollReceiveRequest
  PROVE  UNCHANGED Transfer!vars
<1>1. rr_queue \in Seq(MsgIds) /\ rr_queue # <<>>
  BY DEF IInv, TypeOK, PollReceiveRequest
<1>2. PICK k \in MsgIds : Head(rr_queue) = k
  BY <1>1
<1>3. nRecv(k) >= 1
  BY <1>1, <1>2, HeadCounts, Zenon DEF nRecv
<1>4. TypeOK /\ LawsOf(k) /\ Received(k) /\ Typed(k)
  BY Types, Zenon DEF IInv, Good
<1>5. Receiving(k) = 0 /\ recv_completions[k] = 0
  BY <1>3, <1>4, LawsImply, Zenon
<1>6. taken[k] = {}
  BY <1>4, <1>5 DEF Received
<1>7. ~stopped[k] /\ stopped[k] \in BOOLEAN /\ bytes_received[k] = 0
  BY <1>4, <1>6, BytesBounds, Zenon DEF Received, Typed
<1>8. /\ stopped' = [stopped EXCEPT ![k] = FALSE]
      /\ bytes_received' = [bytes_received EXCEPT ![k] = 0]
  BY <1>2, Zenon DEF PollReceiveRequest
<1>9. stopped \in [MsgIds -> BOOLEAN] /\ bytes_received \in [MsgIds -> Nat]
  BY <1>4, Zenon DEF TypeOK
<1>10. UNCHANGED <<stopped, bytes_received>>
  BY <1>7, <1>8, <1>9, Zenon
<1> QED
  BY <1>10, TransferSame, Zenon DEF PollReceiveRequest, sender_vars

\* A packet is dropped, or brings the receiver nearer to being content.
LEMMA HandleReceiveTransfer ==
  ASSUME CountingFacts, IInv, IInv', NEW p \in AllPackets, HandleReceive(p)
  PROVE  UNCHANGED Transfer!vars \/ \E m \in MsgIds : Transfer!Receive(m)
<1> DEFINE fresh == p.msg_id \in recv_msgs /\ p.seq \notin taken[p.msg_id]
<1>0. PICK k \in MsgIds : p \in Packets(k)
  BY DEF AllPackets
<1>1. PICK i \in 0 .. MaxSeq(k) : p = Packet(k, PartitionOneBySeq(Size[k], i))
  BY <1>0, Zenon DEF Packets
<1>2. p.msg_id = k /\ p.bytes \in Nat \ {0}
  BY <1>1, PacketFacts DEF Packet
<1>3. /\ LawsOf(k) /\ Received(k) /\ Flying(k) /\ Typed(k) /\ TypeOK /\ TypeOK'
      /\ taken'[k] \subseteq (0 .. MaxSeq(k))' /\ BytesOf(k)'
  BY Types, Zenon DEF IInv, Good, Received
<1>4. CASE ~fresh
  <2>1. UNCHANGED <<stopped, bytes_received>>
    BY <1>4, Zenon DEF HandleReceive
  <2> QED
    BY <2>1, TransferSame, Zenon DEF HandleReceive, sender_vars
<1>5. CASE fresh
  <2> DEFINE got == bytes_received[k] + p.bytes
             stop == got >= Bound(k) /\ ~stopped[k]
  <2>1. /\ k \in recv_msgs
        /\ bytes_received' = [bytes_received EXCEPT ![k] = got]
        /\ stopped' = [stopped EXCEPT ![k] = @ \/ stop]
    BY <1>2, <1>5, Zenon DEF HandleReceive, CopyNewPacket
  <2>2. /\ bytes_received \in [MsgIds -> Nat] /\ stopped \in [MsgIds -> BOOLEAN]
    BY <1>3, Zenon DEF TypeOK
  <2>3. bytes_received[k] \in Nat /\ Bound(k) \in Nat /\ Size[k] \in Nat
    BY <2>2, MsgFacts, Zenon
  <2>4. got \in Nat /\ got >= bytes_received[k] + 1
    BY <1>2, <2>3
  <2>5. got <= Size[k]
    <3>1. bytes_received'[k] = PayloadOf(k, taken'[k])
      BY <1>3, Zenon DEF BytesOf, PayloadOf, MaxSeq, GetMaxSeqNum
    <3>2. taken'[k] \subseteq 0 .. MaxSeq(k)
      BY <1>3 DEF MaxSeq, GetMaxSeqNum
    <3>3. bytes_received'[k] = got
      BY <2>1, <2>2, Zenon
    <3> QED
      BY <3>1, <3>2, <3>3, PayloadBound, Zenon
  <2>6. Receiving(k) = 1
    BY <2>1, Zenon DEF Receiving, One
  <2>7. recv_completions[k] = 0 /\ recv_posts[k] > 0
    BY <1>3, <2>6, LawsImply, Zenon
  <2>8. send_posts[k] > 0
    <3>1. OnTheWay(k)
      BY <1>2, Zenon DEF OnTheWay, HandleReceive
    <3> QED
      BY <1>3, <3>1 DEF Flying
  <2>9. /\ \A m \in MsgIds : m # k => stopped'[m] = stopped[m]
        /\ stopped'[k] = (stopped[k] \/ stop)
    BY <2>1, <2>2, Zenon
  <2>10. UNCHANGED <<send_posts, confirmed, send_completions, recv_posts,
                      recv_completions>>
    BY DEF HandleReceive, sender_vars
  <2>11. stopped'[k] <=> got >= Bound(k)
    <3>1. stopped[k] => bytes_received[k] >= Bound(k)
      BY <1>3, Zenon DEF Received
    <3>2. stopped[k] => got >= Bound(k)
      BY <2>3, <2>4, <3>1
    <3> QED
      BY <2>9, <3>2, Zenon
  <2> HIDE DEF got, stop, fresh
  <2>12. SentState[k] # "idle" /\ SentState' = SentState
    BY <2>8, <2>10, Zenon DEF SentState
  <2>13. ReceivedState[k] = IF stopped[k] THEN "content" ELSE "posted"
    BY <2>7 DEF ReceivedState
  <2>14. ReceivedState'[k] = IF got >= Bound(k) THEN "content" ELSE ReceivedState[k]
    <3>1. ReceivedState'[k] = IF stopped'[k] THEN "content" ELSE "posted"
      BY <2>7, <2>10 DEF ReceivedState
    <3> QED
      BY <2>9, <2>11, <2>13, <3>1, Zenon
  <2>15. ReceivedState' = [ReceivedState EXCEPT ![k] = IF got >= Bound(k) THEN "content" ELSE @]
    BY <2>9, <2>10, <2>14, Zenon DEF ReceivedState
  <2>16. got \in bytes_received[k] + 1 .. Size[k]
    BY <2>3, <2>4, <2>5
  <2>17. Transfer!Receive(k)
    BY <2>1, <2>12, <2>13, <2>15, <2>16, Zenon DEF Transfer!Receive
  <2> QED
    BY <2>17, Zenon
<1> QED
  BY <1>4, <1>5, Zenon

\* Every step is a step of the transfer, or none.
LEMMA NextTransfer ==
  ASSUME CountingFacts, MaxPosts = 1, IInv, IInv', Acked, [Next]_vars
  PROVE  [Transfer!Next]_(Transfer!vars)
<1> DEFINE Seen == <<send_posts, confirmed, send_completions, recv_posts,
                     recv_completions, stopped, bytes_received>>
           Goal == UNCHANGED Transfer!vars \/ Transfer!Next
<1>1. UNCHANGED Seen => Goal
  BY TransferSame, Zenon
<1>2. CASE UNCHANGED vars
  BY <1>1, <1>2, Zenon DEF vars, sender_vars, receiver_vars, recv_state
<1>3. ASSUME NEW m \in MsgIds, PostSend(m) PROVE Goal
  BY <1>3, PostSendTransfer, Zenon DEF Transfer!Next
<1>4. CASE EnqueueSend
  BY <1>1, <1>4, Zenon DEF EnqueueSend, sender_vars, receiver_vars, recv_state
<1>5. CASE PopSendRequest
  BY <1>1, <1>5, Zenon DEF PopSendRequest, sender_vars, receiver_vars, recv_state
<1>6. ASSUME NEW m \in MsgIds, PollSendingMessages(m) PROVE Goal
  BY <1>1, <1>6, Zenon DEF PollSendingMessages, sender_vars, receiver_vars, recv_state
<1>7. ASSUME NEW m \in MsgIds, PollRetransmitRequest(m) PROVE Goal
  BY <1>1, <1>7, Zenon DEF PollRetransmitRequest, sender_vars, receiver_vars, recv_state
<1>8. CASE RequestRetransmit
  BY <1>1, <1>8, Zenon DEF RequestRetransmit, sender_vars, receiver_vars, recv_state
<1>9. CASE StopFlow
  BY <1>9, StopFlowTransfer, Zenon DEF Transfer!Next
<1>completed. ASSUME NEW m \in MsgIds, CompleteSend(m) PROVE Goal
  BY <1>completed, CompleteSendTransfer, Zenon DEF Transfer!Next
<1>10. ASSUME NEW p \in AllPackets, OnSendReady(p) PROVE Goal
  BY <1>1, <1>10, Zenon DEF OnSendReady, sender_vars, receiver_vars, recv_state
<1>11. ASSUME NEW p \in AllPackets, OnSendWouldBlock(p) PROVE Goal
  BY <1>1, <1>11, Zenon DEF OnSendWouldBlock, sender_vars, receiver_vars, recv_state
<1>12. ASSUME NEW p \in AllPackets, Lose(p) PROVE Goal
  BY <1>1, <1>12, Zenon DEF Lose, sender_vars, receiver_vars, recv_state
<1>13. CASE HandleRetransmitRequest
  BY <1>1, <1>13, Zenon DEF HandleRetransmitRequest, sender_vars, receiver_vars, recv_state
<1>14. CASE HandleStopRequest
  BY <1>1, <1>14, Zenon DEF HandleStopRequest, sender_vars, receiver_vars, recv_state
<1>15. CASE HandleFlowStart
  BY <1>1, <1>15, Zenon DEF HandleFlowStart, sender_vars, receiver_vars, recv_state
<1>16. CASE HandleFlowFinish
  BY <1>1, <1>16, Zenon DEF HandleFlowFinish, sender_vars, receiver_vars, recv_state
<1>17. CASE HandleStopConfirm
  BY <1>1, <1>17, Zenon DEF HandleStopConfirm, sender_vars, receiver_vars, recv_state
<1>18. ASSUME NEW m \in MsgIds, PostRecv(m) PROVE Goal
  BY <1>18, PostRecvTransfer DEF Transfer!Next
<1>19. CASE PollReceiveRequest
  BY <1>19, PollReceiveRequestTransfer, Zenon
<1>20. ASSUME NEW p \in AllPackets, HandleReceive(p) PROVE Goal
  BY <1>20, HandleReceiveTransfer, Zenon DEF Transfer!Next
<1>21. CASE FinishFlow
  BY <1>1, <1>21, Zenon DEF FinishFlow, sender_vars, receiver_vars, recv_state
<1>22. CASE ConfirmStop
  BY <1>22, ConfirmStopTransfer, Zenon DEF Transfer!Next
<1>23. CASE Quiescent
  BY <1>2, <1>23 DEF Quiescent
<1> QED
  BY <1>2, <1>3, <1>4, <1>5, <1>6, <1>7, <1>8, <1>9, <1>10, <1>11, <1>12,
     <1>13, <1>14, <1>15, <1>16, <1>17, <1>18, <1>19, <1>20, <1>21, <1>22, <1>23, <1>completed DEF Next, HandleReceivedData,
                 ReceivingChannelRun, PollRecvNotification

-----------------------------------------------------------------------------
\* CompleteSend counts a completion, of which the invariant says its type only.
LEMMA CompleteSendInv ==
  ASSUME CountingFacts, IInv, NEW k \in MsgIds, CompleteSend(k)
  PROVE  IInv'
<1>1. TypeOK /\ Contents
  BY Zenon DEF IInv
<1>2. send_completions' = [send_completions EXCEPT ![k] = @ + 1]
  BY Zenon DEF CompleteSend
<1>3. TypeOK'
  <2>1. send_completions' \in [MsgIds -> Nat]
    BY <1>1, <1>2, CounterGrows, Zenon DEF TypeOK
  <2> QED
    BY <1>1, <2>1, ZenonT(40) DEF TypeOK, CompleteSend, receiver_vars, recv_state
<1>4. Contents'
  BY <1>1, Zenon DEF Contents, CompleteSend, receiver_vars
<1>5. ASSUME NEW m \in MsgIds PROVE Good(m)'
  <2>1. QueuesElsewhere(m)
    BY Zenon DEF QueuesElsewhere, OtherPost, OtherStep, CompleteSend, receiver_vars
  <2>2. SenderSame(m) /\ ReceiverSame(m)
    BY Zenon DEF SenderSame, ReceiverSame, CompleteSend, receiver_vars, recv_state
  <2> QED
    BY <1>1, <2>1, <2>2, Elsewhere, Zenon DEF IInv
<1> QED
  BY <1>3, <1>4, <1>5, Zenon DEF IInv

\* Every step preserves the invariant.
LEMMA NextInv ==
  ASSUME CountingFacts, MaxPosts = 1, IInv, [Next]_vars
  PROVE  IInv'
<1>1. CASE UNCHANGED vars
  <2>1. UNCHANGED <<sender_vars, udp_tx, net, to_receiver, to_sender, receiver_vars>>
    BY <1>1 DEF vars
  <2>2. TypeOK /\ Contents
    BY DEF IInv
  <2>3. TypeOK'
    BY <2>1, <2>2, Zenon DEF TypeOK, sender_vars, receiver_vars, recv_state
  <2>4. Contents'
    BY <2>1, <2>2 DEF Contents, sender_vars, receiver_vars
  <2>5. ASSUME NEW m \in MsgIds PROVE Good(m)'
    <3>1. QueuesElsewhere(m)
      BY <2>1, Zenon DEF QueuesElsewhere, OtherPost, OtherStep, sender_vars, receiver_vars
    <3>2. SenderSame(m) /\ ReceiverSame(m)
      BY <2>1, Zenon DEF SenderSame, ReceiverSame, sender_vars, receiver_vars, recv_state
    <3> QED
      BY <2>2, <3>1, <3>2, Elsewhere DEF IInv
  <2> QED
    BY <2>3, <2>4, <2>5 DEF IInv
<1>2. ASSUME NEW m \in MsgIds, PostSend(m) PROVE IInv'
  BY <1>2, PostSendInv
<1>3. CASE EnqueueSend
  BY <1>3, EnqueueSendInv
<1>4. CASE PopSendRequest
  BY <1>4, PopSendRequestInv
<1>5. ASSUME NEW m \in MsgIds, PollSendingMessages(m) PROVE IInv'
  BY <1>5, PollSendingMessagesInv
<1>6. ASSUME NEW m \in MsgIds, PollRetransmitRequest(m) PROVE IInv'
  BY <1>6, PollRetransmitRequestInv
<1>7. CASE RequestRetransmit
  BY <1>7, RequestRetransmitInv
<1>8. CASE StopFlow
  BY <1>8, StopFlowInv
<1>completed. ASSUME NEW m \in MsgIds, CompleteSend(m) PROVE IInv'
  BY <1>completed, CompleteSendInv
<1>9. ASSUME NEW p \in AllPackets, OnSendReady(p) PROVE IInv'
  BY <1>9, UdpInv
<1>10. ASSUME NEW p \in AllPackets, OnSendWouldBlock(p) PROVE IInv'
  BY <1>10, UdpInv
<1>11. ASSUME NEW p \in AllPackets, Lose(p) PROVE IInv'
  BY <1>11, UdpInv
<1>12. CASE HandleRetransmitRequest
  BY <1>12, HandleRetransmitRequestInv
<1>13. CASE HandleStopRequest
  BY <1>13, HandleStopRequestInv
<1>14. CASE HandleFlowStart
  BY <1>14, HandleFlowStartInv
<1>15. CASE HandleFlowFinish
  BY <1>15, HandleFlowFinishInv
<1>16. CASE HandleStopConfirm
  BY <1>16, HandleStopConfirmInv
<1>17. ASSUME NEW m \in MsgIds, PostRecv(m) PROVE IInv'
  BY <1>17, PostRecvInv
<1>18. CASE PollReceiveRequest
  BY <1>18, PollReceiveRequestInv
<1>19. ASSUME NEW p \in AllPackets, HandleReceive(p) PROVE IInv'
  BY <1>19, HandleReceiveInv
<1>20. CASE FinishFlow
  BY <1>20, FinishFlowInv
<1>21. CASE ConfirmStop
  BY <1>21, ConfirmStopInv
<1>22. CASE Quiescent
  BY <1>1, <1>22 DEF Quiescent
<1> QED
  BY <1>1, <1>2, <1>3, <1>4, <1>5, <1>6, <1>7, <1>8, <1>9, <1>10, <1>11,
     <1>12, <1>13, <1>14, <1>15, <1>16, <1>17, <1>18, <1>19, <1>20, <1>21, <1>22, <1>completed DEF Next, HandleReceivedData,
                 ReceivingChannelRun, PollRecvNotification

\* StopFlow alone counts confirmations, before CompleteSend counts completions.
LEMMA NextAcked ==
  ASSUME TypeOK, Contents, Acked, [Next]_vars
  PROVE  Acked'
<1> DEFINE Same == UNCHANGED <<confirmed, send_completions>>
<1>1. Same => Acked'
  BY DEF Acked
<1>2. \A m \in MsgIds : confirmed[m] \in Nat /\ send_completions[m] \in Nat
  BY Zenon DEF TypeOK
<1>3. CASE StopFlow
  <2>1. prio_notif # <<>> /\ prio_notif \in Seq(Orders)
    BY <1>3, Zenon DEF StopFlow, Contents
  <2>2. Head(prio_notif) \in Orders
    BY <2>1, HeadType, Zenon
  <2>3. PICK k \in MsgIds : Head(prio_notif).msg_id = k
    BY <2>2, Zenon DEF Orders, PrioNotification
  <2>4. confirmed' = [confirmed EXCEPT ![k] = @ + 1] /\ UNCHANGED send_completions
    BY <1>3, <2>3, Zenon DEF StopFlow
  <2>5. confirmed \in [MsgIds -> Nat]
    BY Zenon DEF TypeOK
  <2>6. /\ confirmed'[k] = confirmed[k] + 1
        /\ \A m \in MsgIds : m # k => confirmed'[m] = confirmed[m]
    BY <2>4, <2>5, Zenon
  <2> QED
    BY <1>2, <2>4, <2>6 DEF Acked
<1>4. ASSUME NEW k \in MsgIds, CompleteSend(k) PROVE Acked'
  <2>1. /\ send_completions[k] < confirmed[k] /\ UNCHANGED confirmed
        /\ send_completions' = [send_completions EXCEPT ![k] = @ + 1]
    BY <1>4, Zenon DEF CompleteSend
  <2>2. send_completions \in [MsgIds -> Nat]
    BY Zenon DEF TypeOK
  <2>3. /\ send_completions'[k] = send_completions[k] + 1
        /\ \A m \in MsgIds : m # k => send_completions'[m] = send_completions[m]
    BY <2>1, <2>2, Zenon
  <2> QED
    BY <1>2, <2>1, <2>3 DEF Acked
<1>5. ASSUME NEW m \in MsgIds,
             PostSend(m) \/ PollSendingMessages(m) \/ PollRetransmitRequest(m) \/ PostRecv(m)
      PROVE  Same
  BY <1>5, Zenon DEF PostSend, PollSendingMessages, PollRetransmitRequest, PostRecv,
     sender_vars
<1>6. ASSUME NEW p \in AllPackets,
             OnSendReady(p) \/ OnSendWouldBlock(p) \/ Lose(p) \/ HandleReceive(p)
      PROVE  Same
  BY <1>6, Zenon DEF OnSendReady, OnSendWouldBlock, Lose, HandleReceive, sender_vars
<1>7. ASSUME EnqueueSend \/ PopSendRequest \/ RequestRetransmit
      PROVE  Same
  BY <1>7, Zenon DEF EnqueueSend, PopSendRequest, RequestRetransmit
<1>8. ASSUME HandleRetransmitRequest \/ HandleStopRequest \/ HandleFlowStart
               \/ HandleFlowFinish \/ HandleStopConfirm
      PROVE  Same
  BY <1>8, Zenon DEF HandleRetransmitRequest, HandleStopRequest, HandleFlowStart,
     HandleFlowFinish, HandleStopConfirm, sender_vars
<1>9. ASSUME PollReceiveRequest \/ FinishFlow \/ ConfirmStop PROVE Same
  BY <1>9, Zenon DEF PollReceiveRequest, FinishFlow, ConfirmStop, sender_vars
<1>10. ASSUME Quiescent \/ UNCHANGED vars PROVE Same
  BY <1>10, Zenon DEF Quiescent, vars, sender_vars
<1> HIDE DEF Same
<1> QED
  BY <1>1, <1>3, <1>4, <1>5, <1>6, <1>7, <1>8, <1>9, <1>10
     DEF Next, HandleReceivedData, ReceivingChannelRun, PollRecvNotification

-----------------------------------------------------------------------------
\* What Append and Tail do to a count, and how many sequence numbers a set holds.

INSTANCE FiniteSetTheorems

\* A count is a natural number, and zero when no element is in E.
LEMMA CountNatural ==
  ASSUME NEW S, NEW q \in Seq(S), NEW E
  PROVE  /\ Count(q, E) \in Nat
         /\ Count(q, E) = 0 <=> \A i \in 1 .. Len(q) : q[i] \notin E
<1> DEFINE P == {i \in 1 .. Len(q) : q[i] \in E}
<1>1. IsFiniteSet(P)
  BY FS_Interval, FS_Subset
<1>2. Cardinality(P) \in Nat
  BY <1>1, FS_CardinalityType
<1>3. Cardinality(P) = 0 <=> P = {}
  BY <1>1, FS_EmptySet, Zenon
<1> QED
  BY <1>2, <1>3 DEF Count

\* Appending an element adds it to the count of the sets it is in.
LEMMA CountAppended ==
  ASSUME NEW S, NEW q \in Seq(S), NEW e \in S, NEW E
  PROVE  Count(Append(q, e), E) = Count(q, E) + One(e \in E)
<1> DEFINE P == {i \in 1 .. Len(q) : q[i] \in E}
           Q == {i \in 1 .. Len(Append(q, e)) : Append(q, e)[i] \in E}
<1>1. IsFiniteSet(P)
  BY FS_Interval, FS_Subset
<1>2. Q = IF e \in E THEN P \cup {Len(q) + 1} ELSE P
  OBVIOUS
<1>3. Len(q) + 1 \notin P
  OBVIOUS
<1>4. Cardinality(P \cup {Len(q) + 1}) = Cardinality(P) + 1
  BY <1>1, <1>3, FS_AddElement, Zenon
<1>5. Cardinality(P) \in Nat
  BY <1>1, FS_CardinalityType
<1>6. Count(q, E) = Cardinality(P) /\ Count(Append(q, e), E) = Cardinality(Q)
  BY DEF Count
<1> HIDE DEF P, Q
<1>7. CASE e \in E
  BY <1>2, <1>4, <1>6, <1>7 DEF One
<1>8. CASE e \notin E
  BY <1>2, <1>5, <1>6, <1>8 DEF One
<1> QED
  BY <1>7, <1>8

\* Removing the head takes it from the count of the sets it is in.
LEMMA CountWithoutHead ==
  ASSUME NEW S, NEW q \in Seq(S), q # <<>>, NEW E
  PROVE  Count(Tail(q), E) = Count(q, E) - One(Head(q) \in E)
<1> DEFINE P == {i \in 1 .. Len(q) : q[i] \in E}
           R == P \ {1}
           Q == {i \in 1 .. Len(Tail(q)) : Tail(q)[i] \in E}
           f == [i \in R |-> i - 1]
<1>1. IsFiniteSet(P)
  BY FS_Interval, FS_Subset
<1>2. 1 \in 1 .. Len(q) /\ Head(q) = q[1]
  OBVIOUS
<1>3. Cardinality(R) = Cardinality(P) - One(Head(q) \in E)
  <2>1. CASE 1 \in P
    BY <2>1, <1>1, <1>2, FS_RemoveElement, Zenon DEF One
  <2>2. CASE 1 \notin P
    <3>1. R = P /\ Head(q) \notin E
      BY <2>2, <1>2
    <3>2. Cardinality(P) \in Nat
      BY <1>1, FS_CardinalityType
    <3> HIDE DEF P, R
    <3> QED
      BY <3>1, <3>2 DEF One
  <2> QED
    BY <2>1, <2>2
<1>4. IsFiniteSet(R)
  BY <1>1, FS_Subset
<1>5. f \in Bijection(R, Q)
  <2>1. Len(Tail(q)) = Len(q) - 1 /\ Len(q) \in Nat
    OBVIOUS
  <2>2. \A i \in 1 .. Len(Tail(q)) : Tail(q)[i] = q[i + 1]
    OBVIOUS
  <2>3. \A i \in R : i - 1 \in Q
    BY <2>1, <2>2
  <2>4. \A j \in Q : j + 1 \in R /\ (j + 1) - 1 = j
    BY <2>1, <2>2
  <2>5. f \in [R -> Q]
    BY <2>3
  <2>6. \A i, j \in R : f[i] = f[j] => i = j
    OBVIOUS
  <2>7. \A j \in Q : \E i \in R : f[i] = j
    BY <2>4
  <2> HIDE DEF R, Q, f
  <2> QED
    BY <2>5, <2>6, <2>7 DEF Bijection, Injection, IsInjective, Surjection
<1>6. Count(q, E) = Cardinality(P) /\ Count(Tail(q), E) = Cardinality(Q)
  BY DEF Count
<1> HIDE DEF P, Q, R, f
<1>7. Cardinality(Q) = Cardinality(R)
  BY <1>4, <1>5, FS_Bijection DEF ExistsBijection
<1> QED
  BY <1>3, <1>6, <1>7

\* A set of sequence numbers up to n is finite, has at most n + 1 elements, and
\* one more with every element added.
LEMMA SubsetSize ==
  ASSUME NEW T, NEW n \in Int, T \subseteq 0 .. n
  PROVE  /\ Cardinality(T) \in Nat
         /\ n >= -1 => Cardinality(T) <= n + 1
         /\ \A i : i \notin T => Cardinality(T \cup {i}) = Cardinality(T) + 1
<1>1. /\ IsFiniteSet(0 .. n)
      /\ Cardinality(0 .. n) = IF 0 > n THEN 0 ELSE n - 0 + 1
  BY FS_Interval
<1>2. IsFiniteSet(T) /\ Cardinality(T) <= Cardinality(0 .. n)
  BY <1>1, FS_Subset, Zenon
<1>3. Cardinality(T) \in Nat
  BY <1>2, FS_CardinalityType
<1>4. \A i : i \notin T => Cardinality(T \cup {i}) = Cardinality(T) + 1
  BY <1>2, FS_AddElement
<1> DEFINE c == Cardinality(T)
           d == Cardinality(0 .. n)
<1>5. c <= d /\ d = (IF 0 > n THEN 0 ELSE n - 0 + 1) /\ c \in Nat
  BY <1>1, <1>2, <1>3
<1> HIDE DEF c, d
<1>6. n >= -1 => c <= n + 1
  BY <1>5
<1> QED
  BY <1>3, <1>4, <1>6 DEF c

\* There are n sequence numbers below n.
LEMMA IntervalSize ==
  ASSUME NEW n \in Nat
  PROVE  Cardinality(0 .. (n - 1)) = n
<1> DEFINE d == Cardinality(0 .. (n - 1))
<1>1. 0 \in Int /\ n - 1 \in Int
  OBVIOUS
<1>2. d = IF 0 > n - 1 THEN 0 ELSE (n - 1) - 0 + 1
  BY <1>1, FS_Interval
<1> HIDE DEF d
<1>3. d = n
  BY <1>2
<1> QED
  BY <1>3 DEF d

\* The hypothesis of the lemmas about MltFlow's queues holds.
LEMMA CountingHolds == CountingFacts
<1>1. CountIsNat
  BY CountNatural DEF CountIsNat
<1>2. CountOfAppend
  BY CountAppended DEF CountOfAppend
<1>3. CountOfTail
  BY CountWithoutHead DEF CountOfTail
<1>4. SizeOfSubset
  BY SubsetSize, Zenon DEF SizeOfSubset
<1>5. SizeOfInterval
  BY IntervalSize, FS_EmptySet DEF SizeOfInterval
<1> QED
  BY <1>1, <1>2, <1>3, <1>4, <1>5 DEF CountingFacts

-----------------------------------------------------------------------------
\* The invariant of every execution in which each id is used once.
THEOREM Invariance ==
  ASSUME MaxPosts = 1
  PROVE  Spec => []IInv
<1>1. Init => IInv
  BY InitInv, CountingHolds
<1>2. IInv /\ [Next]_vars => IInv'
  BY NextInv, CountingHolds
<1> QED
  BY <1>1, <1>2, PTL DEF Spec

\* A send completes only after its StopConfirm is sent (StopFlow, then
\* CompleteSend).
LEMMA AckedFirst ==
  ASSUME MaxPosts = 1
  PROVE  Spec => []Acked
<1>1. Init => Acked
  BY DEF Init, Acked
<1>2. IInv /\ Acked /\ [Next]_vars => Acked'
  BY NextAcked, Zenon DEF IInv
<1> QED
  BY <1>1, <1>2, Invariance, PTL DEF Spec

\* Every variable keeps its type.
THEOREM TypeCorrect ==
  ASSUME MaxPosts = 1
  PROVE  Spec => []TypeOK
<1>1. IInv => TypeOK
  BY DEF IInv
<1> QED
  BY <1>1, Invariance, PTL

\* At no time are two rounds, or two stop handshakes, of a message under way
\* (FlowFinish, FINISH_FLOW, retransmit requests; StopRequest to StopConfirm).
THEOREM OneRound ==
  ASSUME MaxPosts = 1
  PROVE  Spec => []OneRoundAtATime
<1>1. IInv => OneRoundAtATime
  BY OneRoundInv
<1> QED
  BY <1>1, Invariance, PTL

\* FinishFlow's early returns strand no message: it is in a round until its
\* receiver is content, and then in the stop handshake until it completes.
THEOREM NoneStranded ==
  ASSUME MaxPosts = 1
  PROVE  Spec => []NeverStranded
<1>1. IInv => NeverStranded
  BY NoneStrandedInv
<1> QED
  BY <1>1, Invariance, PTL

\* ConfirmStop leaves nothing of the message in any queue or table.
THEOREM CleanEnd ==
  ASSUME MaxPosts = 1
  PROVE  Spec => []EndsClean
<1>1. IInv => EndsClean
  BY CleanEndInv
<1> QED
  BY <1>1, Invariance, PTL

\* HandleReceive counts the bytes of every packet once.
THEOREM BytesExact ==
  ASSUME MaxPosts = 1
  PROVE  Spec => []ReceivedBytesExact
<1>1. IInv => ReceivedBytesExact
  BY BytesExactInv
<1> QED
  BY <1>1, Invariance, PTL

\* No CHECK of the flow code fails: the queues hand every request and signal to
\* a thread whose tables are ready for it.
THEOREM ChecksHold ==
  ASSUME MaxPosts = 1
  PROVE  Spec => []NoCheckFails
<1>1. IInv => NoCheckFails
  BY ChecksHoldInv, CountingHolds
<1> QED
  BY <1>1, Invariance, PTL

\* The flow implements the loss-tolerant transfer: a send completes once, after
\* its receiver is content, a receive completes once, after the sender stopped
\* and with the bytes it asked for, and no byte is counted beyond the message's
\* size.  Which of the two completions is first is open.
THEOREM FlowImplementsTransfer ==
  ASSUME MaxPosts = 1
  PROVE  Spec => ImplementsTransfer
<1>1. Init => Transfer!Init
  BY DEF Init, Transfer!Init, SentState, ReceivedState
<1>2. IInv /\ IInv' /\ Acked /\ [Next]_vars => [Transfer!Next]_(Transfer!vars)
  BY NextTransfer, CountingHolds
<1> QED
  BY <1>1, <1>2, Invariance, AckedFirst, PTL DEF Spec, ImplementsTransfer, Transfer!Spec

=============================================================================

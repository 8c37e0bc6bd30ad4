--------------------------- MODULE ResenderProofs ---------------------------
(***************************************************************************)
(* The Resender delivers every message exactly once, never forgets one     *)
(* that may be lost, and retries only for a reason: proved for every set   *)
(* of nodes, apps, threads and messages, and every number of drops and of  *)
(* early timeouts.                                                         *)
(***************************************************************************)
EXTENDS Resender, TLAPS

Links == Nodes \X Nodes

\* What is on a connection was sent over it; an acknowledgement on it names a
\* message that was accepted.
WireOK == \A c \in Links, m \in Messages :
  /\ Holds(net[c], m) => m \in sent /\ c = <<m.sender, m.recver>>
  /\ Holds(net[c], Ack(m)) => Accepted(m) /\ c = <<m.recver, m.sender>>

AcceptedWasSent == \A m \in Messages : Accepted(m) => m \in sent

\* A thread inside Van::Send, and the buffer, hold messages of their node only.
OwnMessages ==
  /\ \A n \in Nodes, t \in Threads : sending[n][t] # None =>
        sending[n][t] \in sent /\ sending[n][t].sender = n
  /\ \A n \in Nodes : \A e \in send_buff[n] : e.msg \in sent /\ e.msg.sender = n

\* A retry has a lost message or an early timeout of its own, except that one
\* more may have been made whose message, or its acknowledgement, is in transit.
RetriesCovered == \A n \in Nodes : \A e \in send_buff[n] :
  /\ e.num_retry <= drops + early + 1
  /\ ~InTransit(e.msg) => e.num_retry <= drops + early

IInv == /\ TypeOK
        /\ WireOK
        /\ AcceptedWasSent
        /\ OwnMessages
        /\ SenderRemembers
        /\ RetriesCovered
-----------------------------------------------------------------------------
(***************************************************************************)
(* Keys and acknowledgements name one message (Resender::GetKey).          *)
(***************************************************************************)
LEMMA KeyNames ==
  ASSUME NEW m1 \in Messages, NEW m2 \in Messages, GetKey(m1) = GetKey(m2)
  PROVE  m1 = m2
  BY ResenderAssumption, Zenon

\* What AddIncomming puts in an acknowledgement.
LEMMA AckFields ==
  ASSUME NEW m
  PROVE  /\ Ack(m).cmd = "ACK" /\ Ack(m).sender = m.recver
         /\ Ack(m).recver = m.sender /\ Ack(m).msg_sig = GetKey(m)
  BY Zenon DEF Ack

\* An acknowledgement names one message.
LEMMA AckNames ==
  ASSUME NEW m1 \in Messages, NEW m2 \in Messages, Ack(m1) = Ack(m2)
  PROVE  m1 = m2
<1>1. GetKey(m1) = GetKey(m2)
  BY AckFields, Zenon
<1> QED
  BY <1>1, KeyNames, Zenon

\* AddIncomming tells an acknowledgement from a data message.
LEMMA AckIsNoData ==
  ASSUME NEW m1 \in Messages, NEW m2 \in Messages
  PROVE  m1 # Ack(m2)
<1>1. m1.cmd = "DATA"
  BY ResenderAssumption, Zenon
<1>2. Ack(m2).cmd = "ACK"
  BY AckFields, Zenon
<1> QED
  BY <1>1, <1>2, Zenon

\* A message travels between two nodes, to a Customer of an app.
LEMMA Ends ==
  ASSUME NEW m \in Messages
  PROVE  /\ m.sender \in Nodes /\ m.recver \in Nodes /\ m.app_id \in Apps
         /\ <<m.sender, m.recver>> \in Links /\ <<m.recver, m.sender>> \in Links
         /\ m.cmd = "DATA" /\ m # None
  BY ResenderAssumption, Zenon DEF Links
-----------------------------------------------------------------------------
(***************************************************************************)
(* What the operations on a connection leave there.                        *)
(***************************************************************************)
Wire == Messages \cup {Ack(m) : m \in Messages}

\* Sending puts one message at the end of a connection.
LEMMA AppendHolds ==
  ASSUME NEW s \in Seq(Wire), NEW y \in Wire, NEW x
  PROVE  /\ Append(s, y) \in Seq(Wire)
         /\ Holds(Append(s, y), x) <=> Holds(s, x) \/ x = y
<1>1. Append(s, y) \in Seq(Wire)
  OBVIOUS
<1>2. /\ Len(s) + 1 \in DOMAIN Append(s, y) /\ Append(s, y)[Len(s) + 1] = y
      /\ \A i \in DOMAIN s : i \in DOMAIN Append(s, y) /\ Append(s, y)[i] = s[i]
      /\ \A i \in DOMAIN Append(s, y) : i \in DOMAIN s \/ i = Len(s) + 1
  OBVIOUS
<1>3. Holds(s, x) \/ x = y => Holds(Append(s, y), x)
  BY <1>2, Zenon DEF Holds
<1>4. Holds(Append(s, y), x) => Holds(s, x) \/ x = y
  BY <1>2, Zenon DEF Holds
<1> QED
  BY <1>1, <1>3, <1>4, Zenon

\* Receiving takes the oldest message off a connection.
LEMMA TailHolds ==
  ASSUME NEW s \in Seq(Wire), s # <<>>, NEW x
  PROVE  /\ Tail(s) \in Seq(Wire)
         /\ Head(s) \in Wire /\ Holds(s, Head(s))
         /\ Holds(Tail(s), x) => Holds(s, x)
         /\ Holds(s, x) => Holds(Tail(s), x) \/ x = Head(s)
<1>1. /\ Tail(s) \in Seq(Wire) /\ Head(s) \in Wire
      /\ 1 \in DOMAIN s /\ Head(s) = s[1]
  OBVIOUS
<1>2. ASSUME NEW i \in DOMAIN Tail(s)
      PROVE  i + 1 \in DOMAIN s /\ Tail(s)[i] = s[i + 1]
  OBVIOUS
<1>3. ASSUME NEW i \in DOMAIN s, i # 1
      PROVE  i - 1 \in DOMAIN Tail(s) /\ Tail(s)[i - 1] = s[i]
  <2>1. i \in 1 .. Len(s) /\ Len(s) \in Nat
    OBVIOUS
  <2>2. i - 1 \in 1 .. Len(s) - 1 /\ i - 1 + 1 = i
    BY <1>3, <2>1
  <2>3. DOMAIN Tail(s) = 1 .. Len(s) - 1
    OBVIOUS
  <2>4. i - 1 \in DOMAIN Tail(s)
    BY <2>2, <2>3, Zenon
  <2> QED
    BY <2>2, <2>4, <1>2, Zenon
<1>4. Holds(s, Head(s))
  BY <1>1, Zenon DEF Holds
<1>5. Holds(Tail(s), x) => Holds(s, x)
  BY <1>2, Zenon DEF Holds
<1>6. Holds(s, x) => Holds(Tail(s), x) \/ x = Head(s)
  BY <1>1, <1>3, Zenon DEF Holds
<1> QED
  BY <1>1, <1>4, <1>5, <1>6, Zenon

\* Links that carry wire messages.
Carries(links) == links \in [Links -> Seq(Wire)]

\* SendMsg puts one message on one connection.
LEMMA PostHolds ==
  ASSUME NEW links, Carries(links), NEW m \in Wire,
         <<m.sender, m.recver>> \in Links
  PROVE  /\ Carries(Post(links, m))
         /\ \A c \in Links : \A x : Holds(Post(links, m)[c], x)
              <=> Holds(links[c], x) \/ (c = <<m.sender, m.recver>> /\ x = m)
<1> DEFINE l == <<m.sender, m.recver>>
<1> HIDE DEF l
<1>1. Post(links, m) = [links EXCEPT ![l] = Append(@, m)]
  BY Zenon DEF Post, l
<1>2. links[l] \in Seq(Wire) /\ l \in Links
  BY Zenon DEF Carries, l
<1>3. Append(links[l], m) \in Seq(Wire)
  BY <1>2, AppendHolds, Zenon
<1>4. Carries(Post(links, m))
  BY <1>1, <1>3, Zenon DEF Carries
<1>5. ASSUME NEW c \in Links
      PROVE  Post(links, m)[c] = IF c = l THEN Append(links[l], m) ELSE links[c]
  BY <1>1, <1>2, Zenon DEF Carries
<1>6. ASSUME NEW x
      PROVE  Holds(Append(links[l], m), x) <=> Holds(links[l], x) \/ x = m
  BY <1>2, AppendHolds, Zenon
<1>7. \A c \in Links : \A x : Holds(Post(links, m)[c], x)
              <=> Holds(links[c], x) \/ (c = l /\ x = m)
  BY <1>5, <1>6, Zenon
<1> QED
  BY <1>4, <1>7, Zenon DEF l

\* Receiving takes one message off one connection.
LEMMA TakenHolds ==
  ASSUME Carries(net), NEW m \in Wire, <<m.sender, m.recver>> \in Links,
         net[<<m.sender, m.recver>>] # <<>>, m = Head(net[<<m.sender, m.recver>>])
  PROVE  /\ Carries(Taken(m))
         /\ \A c \in Links : \A x :
              /\ Holds(Taken(m)[c], x) => Holds(net[c], x)
              /\ Holds(net[c], x) =>
                   Holds(Taken(m)[c], x) \/ (c = <<m.sender, m.recver>> /\ x = m)
<1> DEFINE l == <<m.sender, m.recver>>
<1> HIDE DEF l
<1>1. Taken(m) = [net EXCEPT ![l] = Tail(@)]
  BY Zenon DEF Taken, l
<1>2. net[l] \in Seq(Wire) /\ l \in Links /\ net[l] # <<>> /\ m = Head(net[l])
  BY Zenon DEF Carries, l
<1>3. Tail(net[l]) \in Seq(Wire)
  BY <1>2, TailHolds, Zenon
<1>4. Carries(Taken(m))
  BY <1>1, <1>3, Zenon DEF Carries
<1>5. ASSUME NEW c \in Links
      PROVE  Taken(m)[c] = IF c = l THEN Tail(net[l]) ELSE net[c]
  BY <1>1, <1>2, Zenon DEF Carries
<1>6. ASSUME NEW x
      PROVE  /\ Holds(Tail(net[l]), x) => Holds(net[l], x)
             /\ Holds(net[l], x) => Holds(Tail(net[l]), x) \/ x = m
  BY <1>2, TailHolds, Zenon
<1>7. \A c \in Links : \A x :
              /\ Holds(Taken(m)[c], x) => Holds(net[c], x)
              /\ Holds(net[c], x) => Holds(Taken(m)[c], x) \/ (c = l /\ x = m)
  BY <1>5, <1>6, Zenon
<1> QED
  BY <1>4, <1>7, Zenon DEF l
-----------------------------------------------------------------------------
\* The type of the connections.
LEMMA TypeCarries ==
  ASSUME TypeOK
  PROVE  Carries(net)
  BY Zenon DEF TypeOK, Carries, Links, Wire

\* What Van::Send does to the connections.
LEMMA SendMsgHolds ==
  ASSUME TypeOK, NEW n, NEW t, NEW m \in Messages, SendMsg(n, t, m)
  PROVE  /\ Carries(net')
         /\ \A c \in Links : \A x : Holds(net'[c], x)
              <=> Holds(net[c], x) \/ (c = <<m.sender, m.recver>> /\ x = m)
<1>1. Carries(net) /\ m \in Wire /\ <<m.sender, m.recver>> \in Links
  BY TypeCarries, Ends, Zenon DEF Wire
<1>2. /\ Carries(Post(net, m))
      /\ \A c \in Links : \A x : Holds(Post(net, m)[c], x)
           <=> Holds(net[c], x) \/ (c = <<m.sender, m.recver>> /\ x = m)
  BY <1>1, PostHolds, Zenon
<1>3. net' = Post(net, m)
  BY Zenon DEF SendMsg
<1> QED
  BY <1>2, <1>3, Zenon

\* The Vans start with empty connections and buffers.
LEMMA InitIInv ==
  ASSUME Init
  PROVE  IInv
<1>1. TypeOK
  BY DEF Init, TypeOK
<1>2. \A c \in Links : \A x : ~Holds(net[c], x)
  BY DEF Init, Holds, Links
<1>3. \A m \in Messages : ~Accepted(m)
  BY Ends, Zenon DEF Init, Accepted
<1>4. WireOK
  BY <1>2, Zenon DEF WireOK
<1>5. OwnMessages /\ RetriesCovered
  BY Zenon DEF Init, OwnMessages, RetriesCovered
<1>6. SenderRemembers
  BY Zenon DEF Init, SenderRemembers
<1> QED
  BY <1>1, <1>3, <1>4, <1>5, <1>6, Zenon DEF IInv, AcceptedWasSent

\* A Customer hands m to Van::Send.
LEMMA SendStep ==
  ASSUME IInv, NEW n \in Nodes, NEW t \in Threads, NEW m \in Messages, Send(n, t, m)
  PROVE  IInv'
<1>1. /\ Carries(net')
      /\ \A c \in Links : \A x : Holds(net'[c], x)
           <=> Holds(net[c], x) \/ (c = <<m.sender, m.recver>> /\ x = m)
  BY SendMsgHolds DEF IInv, Send
<1>2. TypeOK'
  BY <1>1, Zenon DEF IInv, TypeOK, Carries, Links, Wire, Send, SendMsg
<1>3. \A q : Accepted(q)' <=> Accepted(q)
  BY Zenon DEF Send, Accepted
<1>4. sent' = sent \cup {m} /\ send_buff' = send_buff /\ n = m.sender
  BY Zenon DEF Send
<1>5. \A k \in Nodes, u \in Threads : \/ sending'[k][u] = sending[k][u]
                                      \/ k = n /\ u = t /\ sending'[k][u] = m /\ sending[k][u] = None
  BY Zenon DEF IInv, TypeOK, Send, SendMsg
<1>6. WireOK'
  BY <1>1, <1>3, <1>4, AckIsNoData, Zenon DEF IInv, WireOK
<1>7. AcceptedWasSent'
  BY <1>3, <1>4, Zenon DEF IInv, AcceptedWasSent
<1>8. OwnMessages'
  BY <1>4, <1>5 DEF IInv, OwnMessages
<1>9. sending'[n][t] = m
  BY Zenon DEF IInv, TypeOK, Send, SendMsg
<1>10. ASSUME NEW q \in sent', ~Accepted(q)'
       PROVE  \/ \E e \in send_buff'[q.sender] : e.msg = q
              \/ \E u \in Threads : sending'[q.sender][u] = q
  <2>1. CASE q = m
    BY <1>4, <1>9, <2>1, Zenon
  <2>2. CASE q \in sent
    <3>1. q \in Messages /\ q # None /\ q.sender \in Nodes
      BY <2>2, Ends, Zenon DEF IInv, TypeOK
    <3> QED
      BY <1>3, <1>4, <1>5, <1>10, <2>2, <3>1 DEF IInv, SenderRemembers
  <2> QED
    BY <1>4, <2>1, <2>2, Zenon
<1>11. SenderRemembers'
  BY <1>10, Zenon DEF SenderRemembers
<1>12. \A q \in Messages : InTransit(q) => InTransit(q)'
  BY <1>1, Ends, Zenon DEF InTransit
<1>13. RetriesCovered'
  BY <1>4, <1>12 DEF IInv, RetriesCovered, TypeOK, Entry, Send
<1> QED
  BY <1>2, <1>6, <1>7, <1>8, <1>11, <1>13, Zenon DEF IInv

\* A thread inside Van::Send puts its message in the buffer.
LEMMA AddOutgoingStep ==
  ASSUME IInv, NEW n \in Nodes, NEW t \in Threads, AddOutgoing(n, t)
  PROVE  IInv'
<1> DEFINE m == sending[n][t]
           fresh == [msg |-> m, num_retry |-> 0]
<1>1. m \in Messages /\ m \in sent /\ m.sender = n
  BY Zenon DEF IInv, TypeOK, OwnMessages, AddOutgoing
<1>2. fresh \in Entry /\ fresh.msg = m /\ fresh.num_retry = 0
  BY <1>1, Zenon DEF Entry
<1>3. send_buff' = [send_buff EXCEPT ![n] =
                      IF Buffered(n, GetKey(m)) THEN @ ELSE @ \cup {fresh}]
  BY Zenon DEF AddOutgoing
<1>4. /\ net' = net /\ acked' = acked /\ recv_queue' = recv_queue /\ sent' = sent
      /\ drops' = drops /\ early' = early
      /\ sending' = [sending EXCEPT ![n][t] = None]
  BY Zenon DEF AddOutgoing
<1> HIDE DEF m, fresh
<1>5. TypeOK'
  <2>1. send_buff' \in [Nodes -> SUBSET Entry]
    BY <1>2, <1>3, Zenon DEF IInv, TypeOK
  <2>2. sending' \in [Nodes -> [Threads -> Messages \cup {None}]]
    BY <1>4, Zenon DEF IInv, TypeOK
  <2> QED
    BY <1>4, <2>1, <2>2, Zenon DEF IInv, TypeOK
<1>6. \A q : Accepted(q)' <=> Accepted(q)
  BY <1>4, Zenon DEF Accepted
<1>7. WireOK' /\ AcceptedWasSent'
  BY <1>4, <1>6, Zenon DEF IInv, WireOK, AcceptedWasSent
<1>8. \A k \in Nodes : \A e \in send_buff'[k] : e \in send_buff[k] \/ (k = n /\ e = fresh)
  BY <1>3, Zenon DEF IInv, TypeOK
<1>9. \A k \in Nodes : send_buff[k] \subseteq send_buff'[k]
  BY <1>3, Zenon DEF IInv, TypeOK
<1>10. \A k \in Nodes, u \in Threads :
         sending'[k][u] = IF k = n /\ u = t THEN None ELSE sending[k][u]
  BY <1>4, Zenon DEF IInv, TypeOK
<1>11. OwnMessages'
  BY <1>1, <1>2, <1>4, <1>8, <1>10 DEF IInv, OwnMessages
<1>12. \E e \in send_buff'[n] : e.msg = m
  <2>1. CASE Buffered(n, GetKey(m))
    <3>1. PICK e \in send_buff[n] : GetKey(e.msg) = GetKey(m)
      BY <2>1, Zenon DEF Buffered
    <3>2. e.msg \in Messages
      BY DEF IInv, TypeOK, Entry
    <3> QED
      BY <1>1, <1>9, <3>1, <3>2, KeyNames, Zenon
  <2>2. CASE ~Buffered(n, GetKey(m))
    <3>1. fresh \in send_buff'[n]
      BY <1>3, <2>2, Zenon DEF IInv, TypeOK
    <3> QED
      BY <1>2, <3>1, Zenon
  <2> QED
    BY <2>1, <2>2, Zenon
<1>13. ASSUME NEW q \in sent, ~Accepted(q)
       PROVE  \/ \E e \in send_buff'[q.sender] : e.msg = q
              \/ \E u \in Threads : sending'[q.sender][u] = q
  <2>1. q.sender \in Nodes
    BY Ends, Zenon DEF IInv, TypeOK
  <2>2. CASE \E e \in send_buff[q.sender] : e.msg = q
    BY <1>9, <2>1, <2>2, Zenon
  <2>3. CASE \E u \in Threads : sending[q.sender][u] = q
    <3>1. PICK u \in Threads : sending[q.sender][u] = q
      BY <2>3, Zenon
    <3>2. CASE q.sender = n /\ u = t
      BY <1>1, <1>12, <3>1, <3>2, Zenon DEF m
    <3>3. CASE ~(q.sender = n /\ u = t)
      BY <1>10, <2>1, <3>1, <3>3, Zenon
    <3> QED
      BY <3>2, <3>3, Zenon
  <2> QED
    BY <1>13, <2>2, <2>3, Zenon DEF IInv, SenderRemembers
<1>14. SenderRemembers'
  BY <1>4, <1>6, <1>13, Zenon DEF SenderRemembers
<1>15. \A q \in Messages : InTransit(q)' <=> InTransit(q)
  BY <1>4, Zenon DEF InTransit
<1>16. RetriesCovered'
  BY <1>2, <1>4, <1>8, <1>15 DEF IInv, RetriesCovered, TypeOK, Entry
<1> QED
  BY <1>5, <1>7, <1>11, <1>14, <1>16, Zenon DEF IInv

\* The message Van::Receiving takes.
LEMMA HeadOfLink ==
  ASSUME IInv, NEW from \in Nodes, NEW n \in Nodes, net[<<from, n>>] # <<>>
  PROVE  LET w == Head(net[<<from, n>>]) IN
         /\ \E m \in Messages :
              \/ w = m /\ m \in sent /\ from = m.sender /\ n = m.recver
              \/ w = Ack(m) /\ Accepted(m) /\ from = m.recver /\ n = m.sender
         /\ Carries(Taken(w))
         /\ \A c \in Links : \A x :
              /\ Holds(Taken(w)[c], x) => Holds(net[c], x)
              /\ Holds(net[c], x) => Holds(Taken(w)[c], x) \/ (c = <<from, n>> /\ x = w)
<1> DEFINE l == <<from, n>>
           w == Head(net[l])
<1>1. Carries(net) /\ l \in Links
  BY TypeCarries, Zenon DEF IInv, Links
<1>2. net[l] \in Seq(Wire) /\ net[l] # <<>>
  BY <1>1, Zenon DEF Carries
<1>3. w \in Wire /\ Holds(net[l], w)
  BY <1>2, TailHolds, Zenon
<1>4. PICK m \in Messages : w = m \/ w = Ack(m)
  BY <1>3, Zenon DEF Wire
<1>5. CASE w = m
  <2>1. m \in sent /\ l = <<m.sender, m.recver>>
    BY <1>1, <1>3, <1>5, Zenon DEF IInv, WireOK
  <2>2. /\ Carries(Taken(w))
        /\ \A c \in Links : \A x :
              /\ Holds(Taken(w)[c], x) => Holds(net[c], x)
              /\ Holds(net[c], x) => Holds(Taken(w)[c], x) \/ (c = l /\ x = w)
    BY <1>1, <1>2, <1>3, <1>5, <2>1, TakenHolds, Zenon
  <2> QED
    BY <1>5, <2>1, <2>2, Zenon
<1>6. CASE w = Ack(m)
  <2>1. Accepted(m) /\ l = <<m.recver, m.sender>>
    BY <1>1, <1>3, <1>6, Zenon DEF IInv, WireOK
  <2>2. w.sender = m.recver /\ w.recver = m.sender
    BY <1>6, AckFields, Zenon
  <2>3. l = <<w.sender, w.recver>>
    BY <2>1, <2>2, Zenon
  <2>4. /\ Carries(Taken(w))
        /\ \A c \in Links : \A x :
              /\ Holds(Taken(w)[c], x) => Holds(net[c], x)
              /\ Holds(net[c], x) => Holds(Taken(w)[c], x) \/ (c = l /\ x = w)
    BY <1>1, <1>2, <1>3, <2>3, TakenHolds, Zenon
  <2> QED
    BY <1>6, <2>1, <2>4, Zenon
<1> QED
  BY <1>4, <1>5, <1>6, Zenon

\* A message is lost: PS_DROP_MSG.
LEMMA DropStep ==
  ASSUME IInv, NEW from \in Nodes, NEW n \in Nodes, Drop(from, n)
  PROVE  IInv'
<1>1. /\ Carries(net')
      /\ \A c \in Links : \A x : Holds(net'[c], x) => Holds(net[c], x)
  BY HeadOfLink, Zenon DEF Drop
<1>2. /\ sending' = sending /\ send_buff' = send_buff /\ acked' = acked
      /\ recv_queue' = recv_queue /\ sent' = sent /\ early' = early
      /\ drops' = drops + 1
  BY Zenon DEF Drop
<1>3. TypeOK'
  <2>1. net' \in [Nodes \X Nodes -> Seq(Messages \cup {Ack(m) : m \in Messages})]
    BY <1>1, Zenon DEF Carries, Links, Wire
  <2>2. drops' \in Nat
    BY <1>2 DEF IInv, TypeOK
  <2> QED
    BY <1>2, <2>1, <2>2, Zenon DEF IInv, TypeOK
<1>4. \A q : Accepted(q)' <=> Accepted(q)
  BY <1>2, Zenon DEF Accepted
<1>5. WireOK'
  BY <1>1, <1>2, <1>4, Zenon DEF IInv, WireOK
<1>6. AcceptedWasSent' /\ OwnMessages' /\ SenderRemembers'
  BY <1>2, <1>4, Zenon DEF IInv, AcceptedWasSent, OwnMessages, SenderRemembers
<1>7. RetriesCovered'
  BY <1>2 DEF IInv, RetriesCovered, TypeOK, Entry
<1> QED
  BY <1>3, <1>5, <1>6, <1>7, Zenon DEF IInv

\* The monitor resends a buffered message: every retry is paid for by an early
\* timeout, or by the loss of the copies and acknowledgements before it.
LEMMA MonitoringStep ==
  ASSUME IInv, NEW n \in Nodes, NEW m \in Messages, Monitoring(n, m)
  PROVE  IInv'
<1>1. PICK e \in send_buff[n] :
        /\ e.msg = m
        /\ IF InTransit(m) THEN early < MaxEarly /\ early' = early + 1
                           ELSE early' = early
        /\ send_buff' = [send_buff EXCEPT ![n] =
                           (@ \ {e}) \cup {[msg |-> m, num_retry |-> e.num_retry + 1]}]
        /\ SendMsg(n, Monitor, m)
        /\ UNCHANGED <<acked, recv_queue, sent, drops>>
  BY Zenon DEF Monitoring
<1> DEFINE again == [msg |-> m, num_retry |-> e.num_retry + 1]
<1>2. /\ Carries(net')
      /\ \A c \in Links : \A x : Holds(net'[c], x)
           <=> Holds(net[c], x) \/ (c = <<m.sender, m.recver>> /\ x = m)
  BY <1>1, SendMsgHolds DEF IInv
<1>3. /\ e.num_retry \in Nat /\ m \in sent /\ m.sender = n
      /\ drops \in Nat /\ early \in Nat /\ Monitor \in Threads
  BY <1>1, ResenderAssumption DEF IInv, TypeOK, Entry, OwnMessages
<1>4. /\ again \in Entry /\ again.msg = m /\ again.num_retry = e.num_retry + 1
  BY <1>3 DEF Entry
<1>5. /\ acked' = acked /\ recv_queue' = recv_queue /\ sent' = sent /\ drops' = drops
      /\ send_buff' = [send_buff EXCEPT ![n] = (@ \ {e}) \cup {again}]
      /\ sending' = [sending EXCEPT ![n][Monitor] = m]
      /\ sending[n][Monitor] = None
  BY <1>1, Zenon DEF SendMsg
<1>6. early' \in Nat /\ early <= early' /\ (InTransit(m) => early' = early + 1)
  BY <1>1, <1>3
<1> HIDE DEF again
<1>7. TypeOK'
  <2>1. send_buff' \in [Nodes -> SUBSET Entry]
    BY <1>4, <1>5, Zenon DEF IInv, TypeOK
  <2>2. sending' \in [Nodes -> [Threads -> Messages \cup {None}]]
    BY <1>5, Zenon DEF IInv, TypeOK
  <2> QED
    BY <1>2, <1>5, <1>6, <2>1, <2>2, Zenon DEF IInv, TypeOK, Carries, Links, Wire
<1>8. \A q : Accepted(q)' <=> Accepted(q)
  BY <1>5, Zenon DEF Accepted
<1>9. WireOK'
  BY <1>2, <1>3, <1>5, <1>8, AckIsNoData, Zenon DEF IInv, WireOK
<1>10. AcceptedWasSent'
  BY <1>5, <1>8, Zenon DEF IInv, AcceptedWasSent
<1>11. \A k \in Nodes : \A d \in send_buff'[k] : d \in send_buff[k] \/ (k = n /\ d = again)
  BY <1>5, Zenon DEF IInv, TypeOK
<1>12. again \in send_buff'[n] /\ \A k \in Nodes : \A d \in send_buff[k] : d # e => d \in send_buff'[k]
  BY <1>5, Zenon DEF IInv, TypeOK
<1>13. \A k \in Nodes, u \in Threads :
         sending'[k][u] = IF k = n /\ u = Monitor THEN m ELSE sending[k][u]
  BY <1>5, Zenon DEF IInv, TypeOK
<1>14. OwnMessages'
  BY <1>3, <1>4, <1>5, <1>11, <1>13 DEF IInv, OwnMessages
<1>15. ASSUME NEW q \in sent, ~Accepted(q)
       PROVE  \/ \E d \in send_buff'[q.sender] : d.msg = q
              \/ \E u \in Threads : sending'[q.sender][u] = q
  <2>1. q.sender \in Nodes /\ q # None
    BY Ends, Zenon DEF IInv, TypeOK
  <2>2. CASE \E d \in send_buff[q.sender] : d.msg = q
    BY <1>1, <1>3, <1>4, <1>12, <2>1, <2>2, Zenon
  <2>3. CASE \E u \in Threads : sending[q.sender][u] = q
    BY <1>5, <1>13, <2>1, <2>3
  <2> QED
    BY <1>15, <2>2, <2>3, Zenon DEF IInv, SenderRemembers
<1>16. SenderRemembers'
  BY <1>5, <1>8, <1>15, Zenon DEF SenderRemembers
<1>17. InTransit(m)' /\ \A q \in Messages : InTransit(q) => InTransit(q)'
  BY <1>2, Ends, Zenon DEF InTransit
<1>18. again.num_retry <= drops' + early' + 1
  <2>1. e.num_retry <= drops + early + 1
    BY Zenon DEF IInv, RetriesCovered
  <2>2. ~InTransit(m) => e.num_retry <= drops + early
    BY <1>1, Zenon DEF IInv, RetriesCovered
  <2> QED
    BY <1>3, <1>4, <1>5, <1>6, <2>1, <2>2
<1>19. RetriesCovered'
  <2> SUFFICES ASSUME NEW k \in Nodes, NEW d \in send_buff'[k]
               PROVE  /\ d.num_retry <= drops' + early' + 1
                      /\ ~InTransit(d.msg)' => d.num_retry <= drops' + early'
    BY Zenon DEF RetriesCovered
  <2>1. CASE d = again
    BY <1>4, <1>17, <1>18, <2>1, Zenon
  <2>2. CASE d \in send_buff[k]
    <3>1. d.num_retry \in Nat /\ d.msg \in Messages
      BY <2>2 DEF IInv, TypeOK, Entry
    <3>2. /\ d.num_retry <= drops + early + 1
          /\ ~InTransit(d.msg) => d.num_retry <= drops + early
      BY <2>2, Zenon DEF IInv, RetriesCovered
    <3>3. ~InTransit(d.msg)' => ~InTransit(d.msg)
      BY <1>17, <3>1, Zenon
    <3> QED
      BY <1>3, <1>5, <1>6, <3>1, <3>2, <3>3
  <2> QED
    BY <1>11, <2>1, <2>2, Zenon
<1> QED
  BY <1>7, <1>9, <1>10, <1>14, <1>16, <1>19, Zenon DEF IInv

\* An acknowledgement of m erases the entry of m, and no other.
LEMMA AckStep ==
  ASSUME IInv, NEW from \in Nodes, NEW n \in Nodes, net[<<from, n>>] # <<>>,
         AddIncommingAck(Head(net[<<from, n>>])),
         UNCHANGED <<sending, sent, drops, early>>
  PROVE  IInv'
<1> DEFINE w == Head(net[<<from, n>>])
<1>1. PICK m \in Messages : w = Ack(m) /\ Accepted(m) /\ from = m.recver /\ n = m.sender
  <2>1. PICK m \in Messages :
          \/ w = m /\ m \in sent /\ from = m.sender /\ n = m.recver
          \/ w = Ack(m) /\ Accepted(m) /\ from = m.recver /\ n = m.sender
    BY HeadOfLink, Zenon
  <2>2. w.cmd = "ACK"
    BY Zenon DEF AddIncommingAck
  <2>3. m.cmd = "DATA"
    BY Ends, Zenon
  <2> QED
    BY <2>1, <2>2, <2>3, Zenon
<1>2. /\ Carries(net')
      /\ \A c \in Links : \A x :
           /\ Holds(net'[c], x) => Holds(net[c], x)
           /\ Holds(net[c], x) => Holds(net'[c], x) \/ x = Ack(m)
  BY <1>1, HeadOfLink, Zenon DEF AddIncommingAck
<1>3. w.recver = n /\ w.msg_sig = GetKey(m)
  BY <1>1, AckFields, Zenon
<1>4. /\ acked' = acked /\ recv_queue' = recv_queue /\ sent' = sent
      /\ sending' = sending /\ drops' = drops /\ early' = early
      /\ send_buff' = [send_buff EXCEPT ![n] = {e \in @ : GetKey(e.msg) # GetKey(m)}]
  BY <1>3, Zenon DEF AddIncommingAck
<1> HIDE DEF w
<1>5. TypeOK'
  <2>1. net' \in [Nodes \X Nodes -> Seq(Messages \cup {Ack(q) : q \in Messages})]
    BY <1>2, Zenon DEF Carries, Links, Wire
  <2>2. send_buff' \in [Nodes -> SUBSET Entry]
    BY <1>4, Zenon DEF IInv, TypeOK
  <2> QED
    BY <1>4, <2>1, <2>2, Zenon DEF IInv, TypeOK
<1>6. \A q : Accepted(q)' <=> Accepted(q)
  BY <1>4, Zenon DEF Accepted
<1>7. WireOK'
  BY <1>2, <1>4, <1>6, Zenon DEF IInv, WireOK
<1>8. AcceptedWasSent'
  BY <1>4, <1>6, Zenon DEF IInv, AcceptedWasSent
<1>9. \A k \in Nodes : \A e \in send_buff'[k] :
         e \in send_buff[k] /\ (k = n => GetKey(e.msg) # GetKey(m))
  BY <1>4, Zenon DEF IInv, TypeOK
<1>10. \A k \in Nodes : \A e \in send_buff[k] :
         e \in send_buff'[k] \/ GetKey(e.msg) = GetKey(m)
  BY <1>4, Zenon DEF IInv, TypeOK
<1>11. OwnMessages'
  BY <1>4, <1>9 DEF IInv, OwnMessages
<1>12. ASSUME NEW q \in sent, ~Accepted(q)
       PROVE  \/ \E e \in send_buff'[q.sender] : e.msg = q
              \/ \E u \in Threads : sending'[q.sender][u] = q
  <2>1. q \in Messages /\ q.sender \in Nodes /\ GetKey(q) # GetKey(m)
    BY <1>1, <1>12, Ends, KeyNames, Zenon DEF IInv, TypeOK
  <2> QED
    BY <1>4, <1>10, <1>12, <2>1 DEF IInv, SenderRemembers
<1>13. SenderRemembers'
  BY <1>4, <1>6, <1>12, Zenon DEF SenderRemembers
<1>14. \A q \in Messages : InTransit(q) /\ q # m => InTransit(q)'
  BY <1>2, Ends, AckNames, AckIsNoData, Zenon DEF InTransit
<1>15. RetriesCovered'
  <2> SUFFICES ASSUME NEW k \in Nodes, NEW e \in send_buff'[k]
               PROVE  /\ e.num_retry <= drops + early + 1
                      /\ ~InTransit(e.msg)' => e.num_retry <= drops + early
    BY <1>4, Zenon DEF RetriesCovered
  <2>1. e \in send_buff[k] /\ e.msg \in Messages /\ e.msg.sender = k
    BY <1>9, Zenon DEF IInv, TypeOK, Entry, OwnMessages
  <2>2. e.msg # m
    BY <1>1, <1>9, <2>1, Zenon
  <2> QED
    BY <1>14, <2>1, <2>2, Zenon DEF IInv, RetriesCovered
<1> QED
  BY <1>5, <1>7, <1>8, <1>11, <1>13, <1>15, Zenon DEF IInv

\* What the arrival of a data message m changes.
LEMMA DataEffect ==
  ASSUME IInv, NEW from \in Nodes, NEW n \in Nodes, net[<<from, n>>] # <<>>,
         AddIncommingData(Head(net[<<from, n>>]))
  PROVE  \E m \in Messages :
         /\ m = Head(net[<<from, n>>]) /\ m \in sent
         /\ Carries(net')
         /\ \A c \in Links : \A x :
              /\ Holds(net'[c], x) =>
                   Holds(net[c], x) \/ (c = <<m.recver, m.sender>> /\ x = Ack(m))
              /\ Holds(net[c], x) => Holds(net'[c], x) \/ x = m
         /\ Holds(net'[<<m.recver, m.sender>>], Ack(m))
<1> DEFINE w == Head(net[<<from, n>>])
<1>1. PICK m \in Messages : w = m /\ m \in sent /\ from = m.sender /\ n = m.recver
  <2>1. PICK m \in Messages :
          \/ w = m /\ m \in sent /\ from = m.sender /\ n = m.recver
          \/ w = Ack(m) /\ Accepted(m) /\ from = m.recver /\ n = m.sender
    BY HeadOfLink, Zenon
  <2>2. w.cmd = "DATA"
    BY Zenon DEF AddIncommingData
  <2>3. Ack(m).cmd = "ACK"
    BY AckFields, Zenon
  <2> QED
    BY <2>1, <2>2, <2>3, Zenon
<1>2. net' = Post(Taken(m), Ack(m))
  BY <1>1, Zenon DEF AddIncommingData
<1>3. /\ Carries(Taken(m))
      /\ \A c \in Links : \A x :
           /\ Holds(Taken(m)[c], x) => Holds(net[c], x)
           /\ Holds(net[c], x) => Holds(Taken(m)[c], x) \/ x = m
  BY <1>1, HeadOfLink, ZenonT(40)
<1>4. /\ Ack(m) \in Wire /\ Ack(m).sender = m.recver /\ Ack(m).recver = m.sender
      /\ <<m.recver, m.sender>> \in Links
  BY AckFields, Ends, Zenon DEF Wire
<1>5. /\ Carries(Post(Taken(m), Ack(m)))
      /\ \A c \in Links : \A x : Holds(Post(Taken(m), Ack(m))[c], x)
           <=> Holds(Taken(m)[c], x) \/ (c = <<m.recver, m.sender>> /\ x = Ack(m))
  BY <1>3, <1>4, PostHolds
<1>6. /\ Carries(net')
      /\ \A c \in Links : \A x : Holds(net'[c], x)
           <=> Holds(Taken(m)[c], x) \/ (c = <<m.recver, m.sender>> /\ x = Ack(m))
  BY <1>2, <1>5, Zenon
<1>7. /\ \A c \in Links : \A x :
           /\ Holds(net'[c], x) =>
                Holds(net[c], x) \/ (c = <<m.recver, m.sender>> /\ x = Ack(m))
           /\ Holds(net[c], x) => Holds(net'[c], x) \/ x = m
      /\ Holds(net'[<<m.recver, m.sender>>], Ack(m))
  BY <1>3, <1>4, <1>6, Zenon
<1> QED
  BY <1>1, <1>6, <1>7, Zenon

\* A data message m is acknowledged, and accepted when it is new.
LEMMA DataStep ==
  ASSUME IInv, NEW from \in Nodes, NEW n \in Nodes, net[<<from, n>>] # <<>>,
         AddIncommingData(Head(net[<<from, n>>])),
         UNCHANGED <<sending, sent, drops, early>>
  PROVE  IInv'
<1>1. PICK m \in Messages :
        /\ m = Head(net[<<from, n>>]) /\ m \in sent
        /\ Carries(net')
        /\ \A c \in Links : \A x :
             /\ Holds(net'[c], x) =>
                  Holds(net[c], x) \/ (c = <<m.recver, m.sender>> /\ x = Ack(m))
             /\ Holds(net[c], x) => Holds(net'[c], x) \/ x = m
        /\ Holds(net'[<<m.recver, m.sender>>], Ack(m))
  BY DataEffect, Zenon
<1>2. /\ acked' = [acked EXCEPT ![m.recver] = @ \cup {GetKey(m)}]
      /\ recv_queue' = IF GetKey(m) \in acked[m.recver] THEN recv_queue
                       ELSE [recv_queue EXCEPT ![m.recver][m.app_id] = Append(@, m)]
      /\ send_buff' = send_buff /\ sending' = sending /\ sent' = sent
      /\ drops' = drops /\ early' = early
  BY <1>1, Zenon DEF AddIncommingData
<1>3. m.recver \in Nodes /\ m.app_id \in Apps
  BY Ends, Zenon
<1>4. TypeOK'
  <2>1. net' \in [Nodes \X Nodes -> Seq(Messages \cup {Ack(q) : q \in Messages})]
    BY <1>1, Zenon DEF Carries, Links, Wire
  <2>2. acked' \in [Nodes -> SUBSET {GetKey(q) : q \in Messages}]
    BY <1>2, <1>3, Zenon DEF IInv, TypeOK
  <2>3. recv_queue' \in [Nodes -> [Apps -> Seq(Messages)]]
    BY <1>2, <1>3 DEF IInv, TypeOK
  <2> QED
    BY <1>2, <2>1, <2>2, <2>3, Zenon DEF IInv, TypeOK
<1>5. \A q \in Messages : Accepted(q)' <=> Accepted(q) \/ q = m
  <2>1. \A k \in Nodes : acked'[k] = IF k = m.recver THEN acked[k] \cup {GetKey(m)}
                                                    ELSE acked[k]
    BY <1>2, <1>3, Zenon DEF IInv, TypeOK
  <2>2. \A q \in Messages : q.recver \in Nodes /\ (GetKey(q) = GetKey(m) => q = m)
    BY Ends, KeyNames, Zenon
  <2> QED
    BY <2>1, <2>2, Zenon DEF Accepted
<1>6. WireOK'
  <2>1. ASSUME NEW c \in Links, NEW q \in Messages, Holds(net'[c], q)
        PROVE  q \in sent' /\ c = <<q.sender, q.recver>>
    <3>1. Holds(net[c], q) \/ q = Ack(m)
      BY <1>1, <2>1, Zenon
    <3>2. q # Ack(m)
      BY AckIsNoData, Zenon
    <3> QED
      BY <1>2, <3>1, <3>2, Zenon DEF IInv, WireOK
  <2>2. ASSUME NEW c \in Links, NEW q \in Messages, Holds(net'[c], Ack(q))
        PROVE  Accepted(q)' /\ c = <<q.recver, q.sender>>
    <3>1. CASE Holds(net[c], Ack(q))
      BY <1>5, <3>1, Zenon DEF IInv, WireOK
    <3>2. CASE c = <<m.recver, m.sender>> /\ Ack(q) = Ack(m)
      <4>1. q = m
        BY <3>2, AckNames, Zenon
      <4> QED
        BY <1>5, <3>2, <4>1, Zenon
    <3> QED
      BY <1>1, <2>2, <3>1, <3>2, Zenon
  <2> QED
    BY <2>1, <2>2, Zenon DEF WireOK
<1>7. AcceptedWasSent'
  BY <1>1, <1>2, <1>5, Zenon DEF IInv, AcceptedWasSent
<1>8. OwnMessages'
  BY <1>2, Zenon DEF IInv, OwnMessages
<1>9. SenderRemembers'
  BY <1>2, <1>5, Zenon DEF IInv, TypeOK, SenderRemembers
<1>10. \A q \in Messages : InTransit(q) => InTransit(q)'
  <2>1. InTransit(m)'
    BY <1>1, Zenon DEF InTransit
  <2>2. ASSUME NEW q \in Messages, q # m, InTransit(q)
        PROVE  InTransit(q)'
    BY <1>1, <2>2, Ends, AckIsNoData, Zenon DEF InTransit
  <2> QED
    BY <2>1, <2>2, Zenon
<1>11. RetriesCovered'
  BY <1>2, <1>10 DEF IInv, RetriesCovered, TypeOK, Entry
<1> QED
  BY <1>4, <1>6, <1>7, <1>8, <1>9, <1>11, Zenon DEF IInv

\* Every step of a Van or of a Resender keeps the invariant.
LEMMA NextIInv ==
  ASSUME IInv, [Next]_vars
  PROVE  IInv'
<1>1. CASE \E n \in Nodes, t \in Threads, m \in Messages : Send(n, t, m)
  BY <1>1, SendStep, Zenon
<1>2. CASE \E n \in Nodes, t \in Threads : AddOutgoing(n, t)
  BY <1>2, AddOutgoingStep, Zenon
<1>3. CASE \E from, n \in Nodes : Receiving(from, n)
  BY <1>3, AckStep, DataStep, Zenon DEF Receiving
<1>4. CASE \E from, n \in Nodes : Drop(from, n)
  BY <1>4, DropStep, Zenon
<1>5. CASE \E n \in Nodes, m \in Messages : Monitoring(n, m)
  BY <1>5, MonitoringStep, Zenon
<1>6. CASE UNCHANGED vars
  BY <1>6, Zenon DEF IInv, TypeOK, WireOK, AcceptedWasSent, Accepted, OwnMessages,
              SenderRemembers, RetriesCovered, InTransit, vars
<1> QED
  BY <1>1, <1>2, <1>3, <1>4, <1>5, <1>6, Zenon DEF Next
-----------------------------------------------------------------------------
(***************************************************************************)
(* The results.                                                            *)
(***************************************************************************)
\* The state of the Vans and of their Resenders satisfies the inductive
\* invariant: types, what the connections and buffers may hold, and the price
\* of every retry.
THEOREM Invariance == Spec => []IInv
<1>1. Init => IInv
  BY InitIInv, Zenon
<1>2. IInv /\ [Next]_vars => IInv'
  BY NextIInv, Zenon
<1> QED
  BY <1>1, <1>2, PTL DEF Spec

\* The tables of the Vans keep their types: only messages and acknowledgements
\* of messages travel, and the queues of the Customers hold messages only.
THEOREM TypeCorrect == Spec => []TypeOK
<1>1. IInv => TypeOK
  BY Zenon DEF IInv
<1> QED
  BY <1>1, Invariance, PTL

\* A message that was sent and not accepted stays with its sender, in the buffer
\* of the Resender or in a thread about to put it there, whatever is lost.
THEOREM SenderKeepsUnaccepted == Spec => []SenderRemembers
<1>1. IInv => SenderRemembers
  BY Zenon DEF IInv
<1> QED
  BY <1>1, Invariance, PTL

\* num_retry, which ends the process at max_num_retry, never exceeds the losses
\* and early timeouts so far by more than one.
THEOREM RetriesAreLosses == Spec => []RetriesCountLosses
<1>1. IInv => RetriesCountLosses
  BY Zenon DEF IInv, RetriesCovered, RetriesCountLosses
<1> QED
  BY <1>1, Invariance, PTL

\* Van::Send is a step of Delivery.
LEMMA SendDelivers ==
  ASSUME IInv, NEW n \in Nodes, NEW t \in Threads, NEW m \in Messages, Send(n, t, m)
  PROVE  [D!DeliveryNext]_(D!dvars)
<1> DEFINE transit == {q \in sent : ~Accepted(q)}
<1>1. m \notin sent /\ sent' = sent \cup {m} /\ acked' = acked /\ recv_queue' = recv_queue
  BY Zenon DEF Send
<1>2. ~Accepted(m)
  BY <1>1, Zenon DEF IInv, AcceptedWasSent
<1>3. transit' = transit \cup {m}
  BY <1>1, <1>2, Zenon DEF Accepted
<1>4. D!Send(m)
  BY <1>3, Zenon DEF D!Send
<1> QED
  BY <1>1, <1>4, Zenon DEF D!DeliveryNext

\* An arriving data message is delivered, or is a duplicate and changes nothing.
LEMMA DataDelivers ==
  ASSUME IInv, NEW from \in Nodes, NEW n \in Nodes, net[<<from, n>>] # <<>>,
         AddIncommingData(Head(net[<<from, n>>])), sent' = sent
  PROVE  [D!DeliveryNext]_(D!dvars)
<1> DEFINE transit == {q \in sent : ~Accepted(q)}
<1>1. PICK m \in Messages : m = Head(net[<<from, n>>]) /\ m \in sent
  BY DataEffect, Zenon
<1>2. /\ acked' = [acked EXCEPT ![m.recver] = @ \cup {GetKey(m)}]
      /\ recv_queue' = IF Accepted(m) THEN recv_queue
                       ELSE [recv_queue EXCEPT ![m.recver][m.app_id] = Append(@, m)]
  BY <1>1, Zenon DEF AddIncommingData, Accepted
<1>3. \A q \in sent : q \in Messages /\ q.recver \in Nodes
  BY Ends, Zenon DEF IInv, TypeOK
<1>4. \A q \in sent : Accepted(q)' <=> Accepted(q) \/ q = m
  <2>1. \A k \in Nodes : acked'[k] = IF k = m.recver THEN acked[k] \cup {GetKey(m)}
                                                    ELSE acked[k]
    BY <1>2, Ends, Zenon DEF IInv, TypeOK
  <2>2. \A q \in sent : GetKey(q) = GetKey(m) => q = m
    BY <1>3, KeyNames, Zenon
  <2> QED
    BY <1>3, <2>1, <2>2, Zenon DEF Accepted
<1>5. CASE Accepted(m)
  <2>1. transit' = transit
    BY <1>4, <1>5, Zenon
  <2> QED
    BY <1>2, <1>5, <2>1, Zenon DEF D!dvars
<1>6. CASE ~Accepted(m)
  <2>1. m \in transit /\ transit' = transit \ {m}
    BY <1>1, <1>4, <1>6, Zenon
  <2>2. D!Deliver(m)
    BY <1>2, <1>6, <2>1, Zenon DEF D!Deliver, D!Accept
  <2> QED
    BY <2>2, Zenon DEF D!DeliveryNext
<1> QED
  BY <1>5, <1>6, Zenon

\* The Resender implements Delivery: with messages lost, resent and received
\* twice, and acknowledgements overtaking AddOutgoing, every message reaches the
\* queue of its Customer at most once, and only after it was sent.
THEOREM ResenderImplementsDelivery == Spec => ImplementsDelivery
<1>1. Init => D!DeliveryInit
  BY Zenon DEF Init, D!DeliveryInit
<1>2. IInv /\ [Next]_vars => [D!DeliveryNext]_(D!dvars)
  <2> SUFFICES ASSUME IInv, [Next]_vars PROVE [D!DeliveryNext]_(D!dvars)
    BY Zenon
  <2>1. CASE \E n \in Nodes, t \in Threads, m \in Messages : Send(n, t, m)
    BY <2>1, SendDelivers, Zenon
  <2>2. CASE \E from, n \in Nodes : Receiving(from, n)
    <3>1. PICK from \in Nodes, n \in Nodes : Receiving(from, n)
      BY <2>2, Zenon
    <3>2. CASE AddIncommingData(Head(net[<<from, n>>]))
      BY <3>1, <3>2, DataDelivers, Zenon DEF Receiving
    <3>3. CASE AddIncommingAck(Head(net[<<from, n>>]))
      BY <3>1, <3>3, Zenon DEF Receiving, AddIncommingAck, Accepted, D!dvars
    <3> QED
      BY <3>1, <3>2, <3>3, Zenon DEF Receiving
  <2>3. CASE \/ \E n \in Nodes, t \in Threads : AddOutgoing(n, t)
             \/ \E from, n \in Nodes : Drop(from, n)
             \/ \E n \in Nodes, m \in Messages : Monitoring(n, m)
             \/ UNCHANGED vars
    <3>1. acked' = acked /\ sent' = sent /\ recv_queue' = recv_queue
      BY <2>3, Zenon DEF AddOutgoing, Drop, Monitoring, vars
    <3> QED
      BY <3>1, Zenon DEF Accepted, D!dvars
  <2> QED
    BY <2>1, <2>2, <2>3, Zenon DEF Next
<1> QED
  BY <1>1, <1>2, Invariance, PTL DEF Spec, ImplementsDelivery, D!DeliverySpec
=============================================================================

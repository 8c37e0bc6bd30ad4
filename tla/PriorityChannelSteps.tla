------------------------ MODULE PriorityChannelSteps ------------------------
(***************************************************************************)
(* What the actions of PriorityChannel do to each connection, that they    *)
(* keep the types of the variables, and that every connection is added to  *)
(* the table once and removed from it once.                                *)
(***************************************************************************)
EXTENDS PriorityChannel, TLAPS

Meter == [bytes : Int, age : Nat]
Record == [age : Nat, peak : Nat, first : Int]
ConnMeta == [sending : SUBSET Msgs, retransmitting : SUBSET Msgs, reqs : SUBSET Msgs,
             rate : Nat, tx_meter : Meter]
Notification == [type : {"ADD_CONNECTION", "REMOVE_CONNECTION"}, id : Peers]
                  \cup [type : {"STOP_FLOW", "REQUEST_RETRANSMIT"}, id : Msgs]
RateSignal == [type : {"kRateAdjustment"}, val : Int]
FlowSignal == [type : {"STOP_FLOW", "REQUEST_RETRANSMIT"}, val : Msgs]

UserOK == /\ added \subseteq Peers /\ id_conn \subseteq added /\ leaving \subseteq added
          /\ posted \subseteq Msgs /\ done \subseteq Msgs
          /\ sr_queue \in Seq(Msgs) /\ notification_queue \in Seq(Notification)
TableOK == /\ conn_metas \in Seq(Peers)
           /\ conn_meta_map \in [DOMAIN conn_meta_map -> Nat]
           /\ DOMAIN conn_meta_map \subseteq Peers
           /\ raced \subseteq Msgs /\ gap \in BOOLEAN /\ failed \in BOOLEAN
ConnOK == /\ conn \in [Peers -> ConnMeta]
          /\ bytes_sent \in [Msgs -> Int]
          /\ record \in [Peers -> Record]
PeerOK == /\ net \in [Peers -> Seq(Msgs \X Int)]
          /\ rx_meter \in [Peers -> Meter]
          /\ heard \subseteq Msgs /\ finish \subseteq Msgs /\ stopping \subseteq Msgs
          /\ signals \in [Peers -> Seq(RateSignal \cup FlowSignal)]

TypeOK == setup \in Setups /\ UserOK /\ TableOK /\ ConnOK /\ PeerOK

-----------------------------------------------------------------------------
(***************************************************************************)
(* Every peer is added once and removed once: it is in the table from the  *)
(* notification that adds it to the one that removes it.                   *)
(***************************************************************************)
Add(d) == [type |-> "ADD_CONNECTION", id |-> d]
Rem(d) == [type |-> "REMOVE_CONNECTION", id |-> d]

TableOnce == /\ \A i, j \in 1 .. Len(conn_metas) : conn_metas[i] = conn_metas[j] => i = j
             /\ \A i \in 1 .. Len(conn_metas) : conn_metas[i] \in added
AddOnce ==
  \A i \in 1 .. Len(notification_queue) : \A d \in Peers :
    notification_queue[i] = Add(d) =>
      /\ d \in added /\ d \notin Table
      /\ \A j \in 1 .. Len(notification_queue) : notification_queue[j] = Add(d) => i = j
RemOnce ==
  \A i \in 1 .. Len(notification_queue) : \A d \in Peers :
    notification_queue[i] = Rem(d) =>
      /\ d \in leaving
      /\ d \in Table \/ \E j \in 1 .. i - 1 : notification_queue[j] = Add(d)
      /\ \A j \in 1 .. Len(notification_queue) : notification_queue[j] = Rem(d) => i = j
Waiting ==
  \A d \in added \ leaving :
    d \in Table \/ \E j \in 1 .. Len(notification_queue) : notification_queue[j] = Add(d)

Connected == TableOnce /\ AddOnce /\ RemOnce /\ Waiting

(***************************************************************************)
(* The notifications and the signals about a message.                      *)
(***************************************************************************)
Stop(m) == [type |-> "STOP_FLOW", id |-> m]
Req(m) == [type |-> "REQUEST_RETRANSMIT", id |-> m]
StopSignal(m) == [type |-> "STOP_FLOW", val |-> m]
ReqSignal(m) == [type |-> "REQUEST_RETRANSMIT", val |-> m]

-----------------------------------------------------------------------------
\* Minima and maxima.

\* std::min.
LEMMA MinOfTwo ==
  ASSUME NEW a \in Int, NEW b \in Int
  PROVE  Min({a, b}) = IF a <= b THEN a ELSE b
<1>1. \E x \in {a, b} : \A y \in {a, b} : x <= y
  OBVIOUS
<1>2. Min({a, b}) \in {a, b} /\ \A y \in {a, b} : Min({a, b}) <= y
  BY <1>1, Zenon DEF Min
<1> QED BY <1>2

\* std::max.
LEMMA MaxOfTwo ==
  ASSUME NEW a \in Int, NEW b \in Int
  PROVE  Max({a, b}) = IF a >= b THEN a ELSE b
<1>1. \E x \in {a, b} : \A y \in {a, b} : x >= y
  OBVIOUS
<1>2. Max({a, b}) \in {a, b} /\ \A y \in {a, b} : Max({a, b}) >= y
  BY <1>1, Zenon DEF Max
<1> QED BY <1>2

\* A set of ids has a least one.  LeastExists proves this in the modules that draw the
\* conclusions; here it is a hypothesis, for provers are slow where they see a library.
LeastElements == \A S \in SUBSET Nat : S # {} => \E x \in S : \A y \in S : x <= y

\* begin() of a map that is not empty.
LEMMA MinIsIn ==
  ASSUME LeastElements, NEW S \in SUBSET Nat, S # {}
  PROVE  Min(S) \in S
<1>1. \E x \in S : \A y \in S : x <= y
  BY Zenon DEF LeastElements
<1> QED BY <1>1, Zenon DEF Min

-----------------------------------------------------------------------------
\* What the assumptions say of the setup of a behaviour, which never changes.

\* What a setup is.
LEMMA SetupFacts ==
  ASSUME setup \in Setups
  PROVE  /\ setup.peers \in Seq(Peers) /\ Len(setup.peers) \in Nat
         /\ \A i, j \in 1 .. Len(setup.peers) : setup.peers[i] = setup.peers[j] => i = j
         /\ Peers = {setup.peers[i] : i \in 1 .. Len(setup.peers)}
         /\ Msgs \subseteq Nat
         /\ \A m \in Msgs : Dest(m) \in Peers /\ Size(m) \in Nat
         /\ InitialSendingRate \in Nat /\ setup.horizon \in Nat
<1>1. /\ setup.peers \in Seq(Range(setup.peers)) /\ IsInjective(setup.peers)
      /\ DOMAIN setup.dest \subseteq Nat /\ setup.dest \in [DOMAIN setup.dest -> Range(setup.peers)]
      /\ setup.size \in [DOMAIN setup.dest -> Nat]
      /\ setup.rate \in Nat /\ setup.horizon \in Nat
  BY SetupsAssumption, Zenon
<1>2. setup.peers \in Seq(Peers) /\ Len(setup.peers) \in Nat
      /\ DOMAIN setup.peers = 1 .. Len(setup.peers)
  BY <1>1 DEF Peers
<1> QED
  BY <1>1, <1>2, Zenon DEF Peers, Range, Msgs, Dest, Size, InitialSendingRate, IsInjective

\* Peers, messages and the initial rate are the setup's.
LEMMA SameSetup ==
  ASSUME setup' = setup
  PROVE  /\ Peers' = Peers /\ Msgs' = Msgs /\ ConnMeta' = ConnMeta
         /\ Notification' = Notification /\ FlowSignal' = FlowSignal
         /\ InitialSendingRate' = InitialSendingRate
         /\ \A m : Dest(m)' = Dest(m) /\ Size(m)' = Size(m)
  BY Zenon DEF Peers, Msgs, ConnMeta, Notification, FlowSignal, InitialSendingRate, Dest, Size

\* The sets of a connection, and what a meter may be.
LEMMA ConnFacts ==
  ASSUME TypeOK, NEW d \in Peers
  PROVE  /\ conn[d] \in ConnMeta
         /\ conn[d].sending \subseteq Msgs /\ conn[d].retransmitting \subseteq Msgs
         /\ conn[d].reqs \subseteq Msgs /\ conn[d].rate \in Nat
         /\ conn[d].tx_meter \in Meter
         /\ conn[d].tx_meter.bytes \in Int /\ conn[d].tx_meter.age \in Nat
  BY Zenon DEF TypeOK, ConnOK, ConnMeta, Meter

\* What the assignments to the fields of a meter and of a connection do.
LEMMA MeterUpdate ==
  ASSUME NEW meter \in Meter, NEW n \in Nat
  PROVE  /\ [meter EXCEPT !.age = n] \in Meter
         /\ [meter EXCEPT !.age = n] = [bytes |-> meter.bytes, age |-> n]
<1>1. meter \in [bytes : Int, age : Nat]
  BY Zenon DEF Meter
<1> QED BY <1>1 DEF Meter

\* A ConnMeta with other messages to send.
LEMMA SetSending ==
  ASSUME NEW c \in ConnMeta, NEW S \in SUBSET Msgs
  PROVE  LET q == [c EXCEPT !.sending = S]
         IN  /\ q \in ConnMeta
             /\ q.sending = S /\ q.retransmitting = c.retransmitting /\ q.reqs = c.reqs
             /\ q.rate = c.rate /\ q.tx_meter = c.tx_meter
  BY Zenon DEF ConnMeta

\* A ConnMeta with other requests.
LEMMA SetReqs ==
  ASSUME NEW c \in ConnMeta, NEW S \in SUBSET Msgs
  PROVE  LET q == [c EXCEPT !.reqs = S]
         IN  /\ q \in ConnMeta
             /\ q.sending = c.sending /\ q.retransmitting = c.retransmitting /\ q.reqs = S
             /\ q.rate = c.rate /\ q.tx_meter = c.tx_meter
  BY Zenon DEF ConnMeta

WithKept(c, S, T) == [c EXCEPT !.reqs = S, !.retransmitting = T]
WithMeterReqs(c, meter, S) == [c EXCEPT !.tx_meter = meter, !.reqs = S]
WithMeterSent(c, meter, S, T) ==
  [c EXCEPT !.tx_meter = meter, !.sending = S, !.retransmitting = T]

\* A ConnMeta with other requests and other messages kept.
LEMMA SetKept ==
  ASSUME NEW c \in ConnMeta, NEW S \in SUBSET Msgs, NEW T \in SUBSET Msgs
  PROVE  LET q == WithKept(c, S, T)
         IN  /\ q \in ConnMeta
             /\ q.sending = c.sending /\ q.retransmitting = T /\ q.reqs = S
             /\ q.rate = c.rate /\ q.tx_meter = c.tx_meter
  BY Zenon DEF ConnMeta, WithKept

\* A ConnMeta with another rate.
LEMMA SetRate ==
  ASSUME NEW c \in ConnMeta, NEW n \in Nat
  PROVE  LET q == [c EXCEPT !.rate = n]
         IN  /\ q \in ConnMeta
             /\ q.sending = c.sending /\ q.retransmitting = c.retransmitting /\ q.reqs = c.reqs
             /\ q.rate = n /\ q.tx_meter = c.tx_meter
  BY Zenon DEF ConnMeta

\* A ConnMeta with another meter.
LEMMA SetMeter ==
  ASSUME NEW c \in ConnMeta, NEW meter \in Meter
  PROVE  LET q == [c EXCEPT !.tx_meter = meter]
         IN  /\ q \in ConnMeta
             /\ q.sending = c.sending /\ q.retransmitting = c.retransmitting /\ q.reqs = c.reqs
             /\ q.rate = c.rate /\ q.tx_meter = meter
  BY Zenon DEF ConnMeta

\* A ConnMeta with another meter and other requests.
LEMMA SetMeterReqs ==
  ASSUME NEW c \in ConnMeta, NEW meter \in Meter, NEW S \in SUBSET Msgs
  PROVE  LET q == WithMeterReqs(c, meter, S)
         IN  /\ q \in ConnMeta
             /\ q.sending = c.sending /\ q.retransmitting = c.retransmitting /\ q.reqs = S
             /\ q.rate = c.rate /\ q.tx_meter = meter
  BY Zenon DEF ConnMeta, WithMeterReqs

\* A ConnMeta after the last packet of a message.
LEMMA SetMeterSent ==
  ASSUME NEW c \in ConnMeta, NEW meter \in Meter, NEW S \in SUBSET Msgs, NEW T \in SUBSET Msgs
  PROVE  LET q == WithMeterSent(c, meter, S, T)
         IN  /\ q \in ConnMeta
             /\ q.sending = S /\ q.retransmitting = T /\ q.reqs = c.reqs
             /\ q.rate = c.rate /\ q.tx_meter = meter
  BY Zenon DEF ConnMeta, WithMeterSent

\* A ConnMeta when time has passed.
LEMMA SetMeterAge ==
  ASSUME NEW c \in ConnMeta, NEW n \in Nat
  PROVE  LET q == [c EXCEPT !.tx_meter.age = n]
         IN  /\ q \in ConnMeta
             /\ q.sending = c.sending /\ q.retransmitting = c.retransmitting /\ q.reqs = c.reqs
             /\ q.rate = c.rate
             /\ q.tx_meter.age = n /\ q.tx_meter.bytes = c.tx_meter.bytes
  BY Zenon DEF ConnMeta, Meter

\* The packet of a message that is charged to the rate, and how the meter
\* changes.
LEMMA ChargeFacts ==
  ASSUME TypeOK, NEW m \in Msgs
  PROVE  GetBytes(m, bytes_sent[m]) \in Int
<1>1. Size(m) \in Nat /\ bytes_sent[m] \in Int /\ Segment \in Nat /\ Header \in Nat
  BY SetupFacts, SegmentAssumption, ChannelAssumption, Zenon DEF TypeOK, ConnOK
<1> QED BY <1>1 DEF GetBytes, PayloadAt

\* RateMeter::Update adds bytes and leaves the window alone.
LEMMA UpdateFacts ==
  ASSUME NEW meter \in Meter, NEW n \in Int
  PROVE  /\ Update(meter, n) \in Meter /\ Update(meter, n).age = meter.age
         /\ Update(meter, n).bytes = meter.bytes + n
<1> DEFINE b == meter.bytes + n
<1>1. b \in Int
  BY DEF Meter
<1> HIDE DEF b
<1>2. LET q == [meter EXCEPT !.bytes = b]
      IN q \in Meter /\ q.age = meter.age /\ q.bytes = b
  BY <1>1, Zenon DEF Meter
<1>3. Update(meter, n) = [meter EXCEPT !.bytes = b]
  BY Zenon DEF Update, b
<1> QED BY <1>2, <1>3, Zenon DEF b

\* The meter after a packet: a window that is over is cleared first.
LEMMA MeteredFacts ==
  ASSUME TypeOK, NEW d \in Peers, NEW n \in Int
  PROVE  /\ Metered(d, n) \in Meter
         /\ Metered(d, n) = IF conn[d].tx_meter.age >= Interval
                            THEN [bytes |-> n, age |-> 0]
                            ELSE [bytes |-> conn[d].tx_meter.bytes + n,
                                  age |-> conn[d].tx_meter.age]
<1>1. conn[d].tx_meter \in [bytes : Int, age : Nat]
  BY ConnFacts, Zenon DEF Meter
<1> QED BY <1>1 DEF Metered, Update, Elapsed, Clear, Cleared, Meter

\* Ages stop at the horizon.
LEMMA OlderFacts ==
  ASSUME setup \in Setups, NEW a \in Nat
  PROVE  Older(a) \in Nat /\ Older(a) = IF a + 1 <= setup.horizon THEN a + 1 ELSE setup.horizon
<1>1. setup.horizon \in Nat
  BY SetupFacts, Zenon
<1>2. Min({a + 1, setup.horizon}) = IF a + 1 <= setup.horizon THEN a + 1 ELSE setup.horizon
  BY <1>1, MinOfTwo
<1> QED BY <1>1, <1>2 DEF Older

-----------------------------------------------------------------------------
(***************************************************************************)
(* What the actions do, connection by connection, and that they keep the   *)
(* types.                                                                  *)
(***************************************************************************)
LEMMA InitTypes ==
  ASSUME Init
  PROVE  TypeOK
<1>1. setup \in Setups /\ InitialSendingRate \in Nat
  BY SetupFacts, Zenon DEF Init
<1>2. Cleared \in Meter
  BY DEF Cleared, Meter
<1>3. NewConn \in ConnMeta
  BY <1>1, <1>2, Zenon DEF NewConn, ConnMeta
<1>4. UserOK
  BY DEF Init, UserOK
<1>5. TableOK
  <2>1. conn_metas = <<>> /\ conn_meta_map = << >> /\ raced = {} /\ gap = FALSE
        /\ failed = ~Channel.ok
    BY Zenon DEF Init
  <2>2. failed \in BOOLEAN
    BY <2>1, Zenon
  <2>3. DOMAIN conn_meta_map = {} /\ conn_meta_map \in [{} -> Nat]
    BY <2>1
  <2>4. /\ conn_meta_map \in [DOMAIN conn_meta_map -> Nat]
        /\ DOMAIN conn_meta_map \subseteq Peers
    BY <2>3, Zenon
  <2>5. conn_metas \in Seq(Peers)
    BY <2>1
  <2> QED BY <2>1, <2>2, <2>4, <2>5, Zenon DEF TableOK
<1>6. ConnOK
  BY <1>1, <1>3 DEF Init, ConnOK, Peers, Msgs, InitialSendingRate, Record
<1>7. PeerOK
  BY <1>2 DEF Init, PeerOK, Peers
<1> QED BY <1>1, <1>4, <1>5, <1>6, <1>7, Zenon DEF TypeOK

\* The user adds a connection.
LEMMA AddEffect ==
  ASSUME TypeOK, \E d \in Peers : AddConnection(d)
  PROVE  \E d \in Peers \ added, age \in {0, Interval} :
           /\ added' = added \cup {d} /\ id_conn' = id_conn \cup {d}
           /\ notification_queue' = Append(notification_queue, Add(d))
           /\ age <= setup.horizon
           /\ rx_meter' \in [Peers -> Meter] /\ rx_meter'[d].age = age
           /\ \A x \in Peers \ {d} : rx_meter'[x] = rx_meter[x]
           /\ UNCHANGED <<leaving, posted, sr_queue, net, heard, finish, stopping>>
<1>1. PICK d \in Peers : AddConnection(d)
  BY Zenon
<1>2. PICK age \in {0, Interval} :
        /\ age <= setup.horizon
        /\ rx_meter' = [rx_meter EXCEPT ![d] = [rx_meter[d] EXCEPT !.age = age]]
  BY <1>1, Zenon DEF AddConnection
<1>3. /\ d \notin added
      /\ added' = added \cup {d} /\ id_conn' = id_conn \cup {d}
      /\ notification_queue' = Append(notification_queue, Add(d))
      /\ UNCHANGED <<leaving, posted, sr_queue, net, heard, finish, stopping>>
  BY <1>1, Zenon DEF AddConnection, Notify, Add
<1>4. /\ rx_meter' \in [Peers -> Meter] /\ rx_meter'[d].age = age
      /\ \A x \in Peers \ {d} : rx_meter'[x] = rx_meter[x]
  <2> DEFINE q == [rx_meter[d] EXCEPT !.age = age]
  <2>1. age \in Nat /\ rx_meter \in [Peers -> Meter]
    BY ChannelAssumption DEF TypeOK, PeerOK
  <2>2. q \in Meter /\ q.age = age
    <3>1. rx_meter[d] \in Meter
      BY <2>1, Zenon
    <3>2. q = [bytes |-> rx_meter[d].bytes, age |-> age] /\ q \in Meter
      BY <2>1, <3>1, MeterUpdate, Zenon
    <3> QED BY <3>2, Zenon
  <2>3. rx_meter' = [rx_meter EXCEPT ![d] = q]
    BY <1>2, Zenon
  <2> HIDE DEF q
  <2> QED BY <2>1, <2>2, <2>3, Zenon
<1> QED BY <1>2, <1>3, <1>4, Zenon

\* The notifications.
LEMMA NotificationTypes ==
  /\ \A d \in Peers : Add(d) \in Notification /\ Rem(d) \in Notification
  /\ \A m \in Msgs : Stop(m) \in Notification /\ Req(m) \in Notification
  BY Zenon DEF Add, Rem, Stop, Req, Notification

\* Types, in a step of the user.
LEMMA UserTypes ==
  ASSUME TypeOK, Connected, User
  PROVE  TypeOK'
<1>1. UNCHANGED <<setup, done, pc, table, conn, bytes_sent, signals, failed, record>>
  BY Zenon DEF User
<1>2. Peers' = Peers /\ Msgs' = Msgs /\ ConnMeta' = ConnMeta
      /\ Notification' = Notification /\ FlowSignal' = FlowSignal
  BY <1>1, SameSetup, Zenon
<1>3. TableOK' /\ ConnOK' /\ setup' \in Setups
  BY <1>1, <1>2, Zenon DEF TypeOK, TableOK, ConnOK, table
<1>4. CASE \E d \in Peers : AddConnection(d)
  <2>1. PICK d \in Peers \ added :
          /\ added' = added \cup {d} /\ id_conn' = id_conn \cup {d}
          /\ notification_queue' = Append(notification_queue, Add(d))
          /\ rx_meter' \in [Peers -> Meter]
          /\ UNCHANGED <<leaving, posted, sr_queue, net, heard, finish, stopping>>
    BY <1>4, AddEffect, Zenon
  <2>2. UserOK'
    BY <1>1, <1>2, <2>1, NotificationTypes DEF TypeOK, UserOK
  <2>3. PeerOK'
    BY <1>1, <1>2, <2>1, Zenon DEF TypeOK, PeerOK
  <2> QED BY <1>3, <2>2, <2>3, Zenon DEF TypeOK
<1>5. CASE \E m \in Msgs : PostSend(m)
  <2>1. UserOK' /\ PeerOK'
    BY <1>1, <1>2, <1>5 DEF TypeOK, UserOK, PeerOK, PostSend, peer
  <2> QED BY <1>3, <2>1, Zenon DEF TypeOK
<1>6. CASE \E d \in Peers : RemoveConnection(d)
  <2>1. PICK d \in Peers :
          /\ leaving' = leaving \cup {d} /\ added = Peers
          /\ notification_queue' = Append(notification_queue, Rem(d))
          /\ UNCHANGED <<added, id_conn, posted, sr_queue, peer>>
    BY <1>6, Zenon DEF RemoveConnection, Notify, Rem
  <2>2. UserOK' /\ PeerOK'
    BY <1>1, <1>2, <2>1, NotificationTypes DEF TypeOK, UserOK, PeerOK, peer
  <2> QED BY <1>3, <2>2, Zenon DEF TypeOK
<1> QED BY <1>4, <1>5, <1>6, Zenon DEF User

\* The place found for a message's connection is a peer's.
LEMMA FoundFacts ==
  ASSUME TypeOK, NEW m \in Msgs
  PROVE  /\ IndexOf(Dest(m)) \in Nat
         /\ InTable(Dest(m)) => FindConnMetaById(Dest(m)) \in Peers
         /\ Lookup(m) => /\ conn_meta_map' \in [DOMAIN conn_meta_map' -> Nat]
                         /\ DOMAIN conn_meta_map' = DOMAIN conn_meta_map \cup {Dest(m)}
                         /\ DOMAIN conn_meta_map' \subseteq Peers
                         /\ raced' \subseteq Msgs
<1>1. Dest(m) \in Peers
  BY SetupFacts, Zenon DEF TypeOK
<1>2. IndexOf(Dest(m)) \in Nat
  BY Zenon DEF TypeOK, TableOK, IndexOf
<1>3. InTable(Dest(m)) => FindConnMetaById(Dest(m)) \in Peers
  BY <1>2 DEF TypeOK, TableOK, InTable, FindConnMetaById
<1>4. ASSUME Lookup(m)
      PROVE  /\ conn_meta_map' \in [DOMAIN conn_meta_map' -> Nat]
             /\ DOMAIN conn_meta_map' = DOMAIN conn_meta_map \cup {Dest(m)}
  <2>1. conn_meta_map' = [k \in DOMAIN conn_meta_map \cup {Dest(m)} |->
                            IF k = Dest(m) THEN IndexOf(Dest(m)) ELSE conn_meta_map[k]]
    BY <1>4, Zenon DEF Lookup, Put
  <2> QED BY <1>2, <2>1, Zenon DEF TypeOK, TableOK
<1>5. ASSUME Lookup(m)
      PROVE  raced' \subseteq Msgs
  BY <1>5, Zenon DEF Lookup, TypeOK, TableOK
<1> QED BY <1>1, <1>2, <1>3, <1>4, <1>5, Zenon DEF TypeOK, TableOK

\* A step that changes the messages of one connection.
OnlyAt(c, S, K, R) ==
  /\ conn' \in [Peers -> ConnMeta]
  /\ \A d \in Peers : /\ conn'[d].rate = conn[d].rate /\ conn'[d].tx_meter = conn[d].tx_meter
                      /\ d # c => conn'[d] = conn[d]
  /\ conn'[c].sending = S /\ conn'[c].retransmitting = K /\ conn'[c].reqs = R

\* An assignment to one connection.
LEMMA OneConn ==
  ASSUME TypeOK, NEW c \in Peers, NEW q \in ConnMeta, conn' = [conn EXCEPT ![c] = q],
         q.rate = conn[c].rate, q.tx_meter = conn[c].tx_meter
  PROVE  OnlyAt(c, q.sending, q.retransmitting, q.reqs)
<1>1. conn \in [Peers -> ConnMeta]
  BY Zenon DEF TypeOK, ConnOK
<1> QED BY <1>1, Zenon DEF OnlyAt

\* A message is taken from sr_queue_.
LEMMA PopEffect ==
  ASSUME TypeOK, PopSendRequest, sr_queue # <<>>
  PROVE  LET m == Head(sr_queue)  c == FindConnMetaById(Dest(m))
         IN /\ m \in Msgs /\ sr_queue' = Tail(sr_queue) /\ sr_queue' \in Seq(Msgs)
            /\ Lookup(m)
            /\ \/ /\ InTable(Dest(m)) /\ c \in Peers /\ m \notin conn[c].sending
                  /\ OnlyAt(c, conn[c].sending \cup {m}, conn[c].retransmitting, conn[c].reqs)
                  /\ failed' = failed
               \/ /\ ~InTable(Dest(m)) \/ m \in conn[c].sending
                  /\ failed' = TRUE /\ conn' = conn
<1> DEFINE m == Head(sr_queue)
           c == FindConnMetaById(Dest(m))
           q == [conn[c] EXCEPT !.sending = conn[c].sending \cup {m}]
<1>1. m \in Msgs /\ Tail(sr_queue) \in Seq(Msgs)
  BY DEF TypeOK, UserOK
<1>2. /\ sr_queue' = Tail(sr_queue) /\ Lookup(m)
      /\ \/ /\ InTable(Dest(m)) /\ m \notin conn[c].sending /\ failed' = failed
            /\ conn' = [conn EXCEPT ![c] = q]
         \/ /\ ~InTable(Dest(m)) \/ m \in conn[c].sending
            /\ failed' = TRUE /\ conn' = conn
  BY Zenon DEF PopSendRequest
<1> HIDE DEF m
<1>3. ASSUME InTable(Dest(m)), conn' = [conn EXCEPT ![c] = q]
      PROVE  /\ c \in Peers
             /\ OnlyAt(c, conn[c].sending \cup {m}, conn[c].retransmitting, conn[c].reqs)
  <2>1. c \in Peers
    BY <1>1, <1>3, FoundFacts, Zenon
  <2> HIDE DEF c
  <2>2. conn[c] \in ConnMeta /\ conn[c].sending \cup {m} \in SUBSET Msgs
    BY <1>1, <2>1, ConnFacts, Zenon
  <2>3. /\ q \in ConnMeta /\ q.sending = conn[c].sending \cup {m}
        /\ q.retransmitting = conn[c].retransmitting /\ q.reqs = conn[c].reqs
        /\ q.rate = conn[c].rate /\ q.tx_meter = conn[c].tx_meter
    BY <2>2, SetSending, Zenon
  <2> HIDE DEF q
  <2> QED BY <1>3, <2>1, <2>3, OneConn, Zenon
<1> HIDE DEF c, q
<1>4. QED BY <1>1, <1>2, <1>3, Zenon DEF m, c

\* Types, when a message is taken from sr_queue_.
LEMMA PopSendRequestTypes ==
  ASSUME TypeOK, PopSendRequest, UNCHANGED <<setup, signals>>
  PROVE  TypeOK'
<1>1. UNCHANGED <<added, id_conn, leaving, posted, done, notification_queue, bytes_sent, peer, record>>
  BY Zenon DEF PopSendRequest
<1>2. Peers' = Peers /\ Msgs' = Msgs /\ ConnMeta' = ConnMeta
      /\ Notification' = Notification /\ FlowSignal' = FlowSignal
  BY SameSetup, Zenon
<1>3. PeerOK'
  BY <1>1, <1>2, Zenon DEF TypeOK, PeerOK, peer
<1>4. CASE sr_queue = <<>>
  <2>1. UNCHANGED <<sr_queue, conn_metas, conn_meta_map, raced, gap, conn, failed>>
    BY <1>4, Zenon DEF PopSendRequest, table
  <2> QED BY <1>1, <1>2, <1>3, <2>1, Zenon DEF TypeOK, UserOK, TableOK, ConnOK
<1>5. CASE sr_queue # <<>>
  <2>1. PICK m \in Msgs :
          /\ sr_queue' \in Seq(Msgs) /\ Lookup(m)
          /\ conn' \in [Peers -> ConnMeta] \/ conn' = conn
          /\ failed' = TRUE \/ failed' = failed
    BY <1>5, PopEffect, Zenon DEF OnlyAt
  <2>2. UserOK'
    BY <1>1, <1>2, <2>1, Zenon DEF TypeOK, UserOK
  <2>3. TableOK'
    <3>1. UNCHANGED <<conn_metas, gap>>
      BY <2>1, Zenon DEF Lookup
    <3> QED BY <1>2, <2>1, <3>1, FoundFacts, Zenon DEF TypeOK, TableOK
  <2>4. ConnOK'
    BY <1>1, <1>2, <2>1, Zenon DEF TypeOK, ConnOK
  <2> QED BY <1>3, <2>2, <2>3, <2>4, Zenon DEF TypeOK
<1> QED BY <1>4, <1>5, Zenon

\* A connection sends the next packet, of n bytes, of message m.
SendsFirst(c, m, n) ==
  /\ c \in Table /\ m \in conn[c].sending /\ ~Throttled(c, n)
  /\ conn'[c].rate = conn[c].rate /\ conn'[c].reqs = conn[c].reqs
  /\ conn'[c].tx_meter = Metered(c, n)
  /\ \/ /\ conn'[c].sending = conn[c].sending
        /\ conn'[c].retransmitting = conn[c].retransmitting
     \/ /\ conn'[c].sending = conn[c].sending \ {m}
        /\ conn'[c].retransmitting = conn[c].retransmitting \cup {m}
  /\ net'[c] = Append(net[c], <<m, n>>)
  /\ record'[c].age = record[c].age /\ record'[c].peak = record[c].peak
  /\ record'[c].first = record[c].first + n

\* A record with other bytes.
LEMMA SetFirst ==
  ASSUME NEW r \in Record, NEW n \in Int
  PROVE  LET q == [r EXCEPT !.first = n]
         IN q \in Record /\ q.age = r.age /\ q.peak = r.peak /\ q.first = n
  BY Zenon DEF Record

\* A record with another highest rate.
LEMMA SetPeak ==
  ASSUME NEW r \in Record, NEW n \in Nat
  PROVE  LET q == [r EXCEPT !.peak = n]
         IN q \in Record /\ q.age = r.age /\ q.peak = n /\ q.first = r.first
  BY Zenon DEF Record

\* A record when time has passed.
LEMMA SetAge ==
  ASSUME NEW r \in Record, NEW n \in Nat
  PROVE  LET q == [r EXCEPT !.age = n]
         IN q \in Record /\ q.age = n /\ q.peak = r.peak /\ q.first = r.first
  BY Zenon DEF Record

\* What a round of first transmissions does to every connection.
LEMMA SendEffect ==
  ASSUME LeastElements, TypeOK, PollSendingMessages
  PROVE  /\ \A c \in Peers :
              /\ conn'[c] \in ConnMeta /\ net'[c] \in Seq(Msgs \X Int) /\ record'[c] \in Record
              /\ \/ conn'[c] = conn[c] /\ net'[c] = net[c] /\ record'[c] = record[c]
                 \/ \E m \in Msgs, n \in Int : SendsFirst(c, m, n)
         /\ conn' \in [Peers -> ConnMeta]
         /\ net' \in [Peers -> Seq(Msgs \X Int)]
         /\ record' \in [Peers -> Record]
         /\ bytes_sent' \in [Msgs -> Int]
         /\ finish' \subseteq Msgs
         /\ \A m \in finish' : m \in finish \/ m \in conn'[Dest(m)].retransmitting
         /\ failed' \in BOOLEAN /\ (failed' => ~Routable)
<1> DEFINE len(c) == GetBytes(Next1(c), bytes_sent[Next1(c)])
           go == {c \in Table : conn[c].sending # {} /\ ~Throttled(c, len(c))}
           sent(c) == bytes_sent[Next1(c)] + len(c) - Header
           all == {c \in go : sent(c) >= Size(Next1(c))}
           full(c) == WithMeterSent(conn[c], Metered(c, len(c)), conn[c].sending \ {Next1(c)},
                                    conn[c].retransmitting \cup {Next1(c)})
           part(c) == [conn[c] EXCEPT !.tx_meter = Metered(c, len(c))]
           rec(c) == [record[c] EXCEPT !.first = record[c].first + len(c)]
<1>1. /\ conn' = [c \in Peers |-> IF c \in all THEN full(c)
                                  ELSE IF c \in go THEN part(c) ELSE conn[c]]
      /\ bytes_sent' = [m \in Msgs |->
           IF \E c \in go : m = Next1(c)
           THEN sent(CHOOSE c \in go : m = Next1(c)) ELSE bytes_sent[m]]
      /\ net' = [c \in Peers |-> IF c \in go THEN Append(net[c], <<Next1(c), len(c)>>) ELSE net[c]]
      /\ record' = [c \in Peers |-> IF c \in go THEN rec(c) ELSE record[c]]
      /\ finish' = finish \cup {Next1(c) : c \in {x \in all : Dest(Next1(x)) = x}}
      /\ failed' = (go # {} /\ ~Routable)
  BY Zenon DEF PollSendingMessages, WithMeterSent
<1>2. Table \subseteq Peers
  BY DEF TypeOK, TableOK, Table, Range
<1>3. ASSUME NEW c \in go
      PROVE  /\ c \in Peers /\ c \in Table /\ ~Throttled(c, len(c))
             /\ Next1(c) \in conn[c].sending /\ Next1(c) \in Msgs
             /\ len(c) \in Int /\ sent(c) \in Int
  <2>1. c \in Peers /\ c \in Table /\ conn[c].sending # {} /\ ~Throttled(c, len(c))
    BY <1>2, <1>3, Zenon
  <2>2. conn[c].sending \subseteq Msgs /\ Msgs \subseteq Nat
    BY <2>1, ConnFacts, SetupFacts, Zenon DEF TypeOK
  <2>3. Next1(c) \in conn[c].sending
    BY <2>1, <2>2, MinIsIn, Zenon DEF Next1
  <2>4. len(c) \in Int
    BY <2>2, <2>3, ChargeFacts, Zenon
  <2>5. bytes_sent[Next1(c)] \in Int /\ Header \in Int
    <3>1. Next1(c) \in Msgs
      BY <2>2, <2>3, Zenon
    <3> HIDE DEF len, go
    <3> QED BY <3>1, ChannelAssumption DEF TypeOK, ConnOK
  <2> HIDE DEF len
  <2> QED BY <2>1, <2>2, <2>3, <2>4, <2>5
<1>4. ASSUME NEW c \in go
      PROVE  /\ part(c) \in ConnMeta /\ part(c).sending = conn[c].sending
             /\ part(c).retransmitting = conn[c].retransmitting /\ part(c).reqs = conn[c].reqs
             /\ part(c).rate = conn[c].rate /\ part(c).tx_meter = Metered(c, len(c))
  <2>1. conn[c] \in ConnMeta /\ Metered(c, len(c)) \in Meter
    BY <1>3, <1>4, ConnFacts, MeteredFacts, Zenon
  <2> QED BY <2>1, SetMeter, Zenon
<1>5. ASSUME NEW c \in go
      PROVE  /\ full(c) \in ConnMeta /\ full(c).sending = conn[c].sending \ {Next1(c)}
             /\ full(c).retransmitting = conn[c].retransmitting \cup {Next1(c)}
             /\ full(c).reqs = conn[c].reqs
             /\ full(c).rate = conn[c].rate /\ full(c).tx_meter = Metered(c, len(c))
  <2>1. /\ conn[c] \in ConnMeta /\ Metered(c, len(c)) \in Meter
        /\ conn[c].sending \ {Next1(c)} \in SUBSET Msgs
        /\ conn[c].retransmitting \cup {Next1(c)} \in SUBSET Msgs
    BY <1>3, <1>5, ConnFacts, MeteredFacts, Zenon
  <2> QED BY <2>1, SetMeterSent
<1>6. ASSUME NEW c \in go
      PROVE  /\ rec(c) \in Record /\ rec(c).age = record[c].age /\ rec(c).peak = record[c].peak
             /\ rec(c).first = record[c].first + len(c)
  <2>1. record[c] \in Record
    BY <1>3, <1>6, Zenon DEF TypeOK, ConnOK
  <2>2. record[c].first + len(c) \in Int
    BY <1>3, <1>6, <2>1 DEF Record
  <2> QED BY <2>1, <2>2, SetFirst, Zenon
<1>7. all \subseteq go
  BY Zenon
<1> HIDE DEF go, all, len, sent, full, part, rec
<1>8. ASSUME NEW c \in Peers
      PROVE  /\ conn'[c] \in ConnMeta /\ net'[c] \in Seq(Msgs \X Int) /\ record'[c] \in Record
             /\ \/ conn'[c] = conn[c] /\ net'[c] = net[c] /\ record'[c] = record[c]
                \/ \E m \in Msgs, n \in Int : SendsFirst(c, m, n)
  <2>1. conn[c] \in ConnMeta /\ net[c] \in Seq(Msgs \X Int) /\ record[c] \in Record
    BY Zenon DEF TypeOK, ConnOK, PeerOK
  <2>2. CASE c \notin go
    BY <1>1, <1>7, <2>1, <2>2, Zenon
  <2>3. CASE c \in go
    <3>1. <<Next1(c), len(c)>> \in Msgs \X Int
      BY <1>3, <2>3, Zenon
    <3>2. net'[c] = Append(net[c], <<Next1(c), len(c)>>) /\ net'[c] \in Seq(Msgs \X Int)
      BY <1>1, <2>1, <2>3, <3>1
    <3>3. record'[c] = rec(c) /\ (conn'[c] = full(c) \/ conn'[c] = part(c))
      BY <1>1, <2>3, Zenon
    <3>4. SendsFirst(c, Next1(c), len(c))
      BY <1>3, <1>4, <1>5, <1>6, <2>3, <3>2, <3>3 DEF SendsFirst
    <3> QED BY <1>3, <1>4, <1>5, <1>6, <2>3, <3>2, <3>3, <3>4, Zenon
  <2> QED BY <2>2, <2>3, Zenon
<1>9. /\ conn' \in [Peers -> ConnMeta] /\ net' \in [Peers -> Seq(Msgs \X Int)]
      /\ record' \in [Peers -> Record]
  BY <1>1, <1>8, Zenon
<1>10. bytes_sent' \in [Msgs -> Int]
  BY <1>1, <1>3, Zenon DEF TypeOK, ConnOK
<1>11. /\ finish' \subseteq Msgs
       /\ \A m \in finish' : m \in finish \/ m \in conn'[Dest(m)].retransmitting
  <2> SUFFICES ASSUME NEW m \in finish', m \notin finish
               PROVE  m \in Msgs /\ m \in conn'[Dest(m)].retransmitting
    BY Zenon DEF TypeOK, PeerOK
  <2>1. PICK c \in all : Dest(Next1(c)) = c /\ m = Next1(c)
    BY <1>1, Zenon
  <2>2. c \in Peers /\ conn'[c] = full(c)
    BY <1>1, <1>3, <1>7, <2>1, Zenon
  <2> QED BY <1>3, <1>5, <1>7, <2>1, <2>2
<1>12. failed' \in BOOLEAN /\ (failed' => ~Routable)
  BY <1>1, Zenon
<1> QED BY <1>8, <1>9, <1>10, <1>11, <1>12, Zenon

\* Types, in a round of first transmissions.
LEMMA SendTypes ==
  ASSUME LeastElements, TypeOK, PollSendingMessages, UNCHANGED <<setup, signals>>
  PROVE  TypeOK'
<1>1. UNCHANGED <<added, id_conn, leaving, posted, sr_queue, done, notification_queue,
                  conn_metas, conn_meta_map, raced, gap, rx_meter, heard, stopping>>
  BY Zenon DEF PollSendingMessages, user, table
<1>2. Peers' = Peers /\ Msgs' = Msgs /\ ConnMeta' = ConnMeta
      /\ Notification' = Notification /\ FlowSignal' = FlowSignal
  BY SameSetup, Zenon
<1>3. UserOK' /\ TableOK'
  BY <1>1, <1>2, SendEffect, Zenon DEF TypeOK, UserOK, TableOK
<1>4. ConnOK' /\ PeerOK'
  BY <1>1, <1>2, SendEffect, Zenon DEF TypeOK, ConnOK, PeerOK
<1> QED BY <1>3, <1>4, Zenon DEF TypeOK

\* A connection sends a packet of message m again, which is charged a header.
SendsAgain(c, m) ==
  /\ c \in Table /\ m \in conn[c].reqs /\ ~Throttled(c, Header)
  /\ conn'[c].rate = conn[c].rate /\ conn'[c].reqs = conn[c].reqs \ {m}
  /\ conn'[c].tx_meter = Metered(c, Header)
  /\ conn'[c].sending = conn[c].sending
  /\ conn'[c].retransmitting = conn[c].retransmitting

\* What a round of retransmissions does to every connection.
LEMMA RetransmitEffect ==
  ASSUME LeastElements, TypeOK, PollRetransmitRequest
  PROVE  /\ \A c \in Peers :
              /\ conn'[c] \in ConnMeta /\ net'[c] \in Seq(Msgs \X Int)
              /\ \/ conn'[c] = conn[c] /\ net'[c] = net[c]
                 \/ \E m \in Msgs : SendsAgain(c, m)
         /\ conn' \in [Peers -> ConnMeta]
         /\ net' \in [Peers -> Seq(Msgs \X Int)]
         /\ failed' \in BOOLEAN
         /\ failed' => \/ ~Routable
                       \/ \E c \in Peers : \E m \in conn[c].reqs :
                            Dest(m) # c \/ m \notin conn[c].retransmitting
<1> DEFINE bad == {c \in Table : conn[c].reqs # {} /\
                     \/ Dest(Request(c)) # c
                     \/ Request(c) \notin conn[c].retransmitting}
           go == {c \in Table : conn[c].reqs # {} /\ ~Throttled(c, Header)}
           len(c) == Min({Size(Request(c)), Segment}) + Header
           new(c) == WithMeterReqs(conn[c], Metered(c, Header), conn[c].reqs \ {Request(c)})
<1>1. \/ bad # {} /\ failed' = TRUE /\ UNCHANGED <<conn, net>>
      \/ /\ conn' = [c \in Peers |-> IF c \in go THEN new(c) ELSE conn[c]]
         /\ net' = [c \in Peers |->
              IF c \in go THEN Append(net[c], <<Request(c), len(c)>>) ELSE net[c]]
         /\ failed' = (go # {} /\ ~Routable)
  BY Zenon DEF PollRetransmitRequest, WithMeterReqs
<1>2. Table \subseteq Peers
  BY DEF TypeOK, TableOK, Table, Range
<1>3. ASSUME NEW c \in Table, conn[c].reqs # {}
      PROVE  Request(c) \in conn[c].reqs /\ Request(c) \in Msgs
  <2>1. conn[c].reqs \subseteq Msgs /\ Msgs \subseteq Nat
    BY <1>2, ConnFacts, SetupFacts, Zenon DEF TypeOK
  <2> QED BY <1>3, <2>1, MinIsIn, Zenon DEF Request
<1>4. ASSUME NEW c \in go
      PROVE  /\ c \in Peers /\ c \in Table /\ ~Throttled(c, Header)
             /\ Request(c) \in conn[c].reqs /\ Request(c) \in Msgs
             /\ len(c) \in Int
  <2>1. c \in Peers /\ c \in Table /\ conn[c].reqs # {} /\ ~Throttled(c, Header)
    BY <1>2, Zenon
  <2>2. Request(c) \in conn[c].reqs /\ Request(c) \in Msgs
    BY <1>3, <2>1, Zenon
  <2>3. Size(Request(c)) \in Int /\ Segment \in Int /\ Header \in Int
    BY <2>2, SetupFacts, SegmentAssumption, ChannelAssumption DEF TypeOK
  <2>4. Min({Size(Request(c)), Segment}) \in Int
    BY <2>3, MinOfTwo, Zenon
  <2> HIDE DEF go
  <2> QED BY <2>1, <2>2, <2>3, <2>4
<1>5. ASSUME NEW c \in go
      PROVE  /\ new(c) \in ConnMeta /\ new(c).sending = conn[c].sending
             /\ new(c).retransmitting = conn[c].retransmitting
             /\ new(c).reqs = conn[c].reqs \ {Request(c)}
             /\ new(c).rate = conn[c].rate /\ new(c).tx_meter = Metered(c, Header)
  <2>1. Header \in Int
    BY ChannelAssumption
  <2>2. /\ conn[c] \in ConnMeta /\ Metered(c, Header) \in Meter
        /\ conn[c].reqs \ {Request(c)} \in SUBSET Msgs
    BY <1>4, <1>5, <2>1, ConnFacts, MeteredFacts, Zenon
  <2> QED BY <2>2, SetMeterReqs
<1>6. bad # {} => \E c \in Peers : \E m \in conn[c].reqs :
                    Dest(m) # c \/ m \notin conn[c].retransmitting
  BY <1>2, <1>3, Zenon
<1> HIDE DEF bad, go, len, new
<1>7. ASSUME NEW c \in Peers
      PROVE  /\ conn'[c] \in ConnMeta /\ net'[c] \in Seq(Msgs \X Int)
             /\ \/ conn'[c] = conn[c] /\ net'[c] = net[c]
                \/ \E m \in Msgs : SendsAgain(c, m)
  <2>1. conn[c] \in ConnMeta /\ net[c] \in Seq(Msgs \X Int)
    BY Zenon DEF TypeOK, ConnOK, PeerOK
  <2>2. CASE c \notin go \/ UNCHANGED <<conn, net>>
    BY <1>1, <2>1, <2>2, Zenon
  <2>3. CASE c \in go /\ ~UNCHANGED <<conn, net>>
    <3>1. <<Request(c), len(c)>> \in Msgs \X Int
      BY <1>4, <2>3, Zenon
    <3>2. conn'[c] = new(c) /\ net'[c] = Append(net[c], <<Request(c), len(c)>>)
      BY <1>1, <2>3, Zenon
    <3>3. net'[c] \in Seq(Msgs \X Int)
      BY <2>1, <3>1, <3>2
    <3>4. SendsAgain(c, Request(c))
      BY <1>4, <1>5, <2>3, <3>2, Zenon DEF SendsAgain
    <3> QED BY <1>4, <1>5, <2>3, <3>2, <3>3, <3>4, Zenon
  <2> QED BY <2>2, <2>3, Zenon
<1>8. conn' \in [Peers -> ConnMeta] /\ net' \in [Peers -> Seq(Msgs \X Int)]
  <2>1. conn \in [Peers -> ConnMeta] /\ net \in [Peers -> Seq(Msgs \X Int)]
    BY Zenon DEF TypeOK, ConnOK, PeerOK
  <2> QED BY <1>1, <1>7, <2>1, Zenon
<1>9. failed' \in BOOLEAN
  BY <1>1, Zenon
<1>10. failed' => \/ ~Routable
                  \/ \E c \in Peers : \E m \in conn[c].reqs :
                       Dest(m) # c \/ m \notin conn[c].retransmitting
  BY <1>1, <1>6, Zenon
<1> QED BY <1>7, <1>8, <1>9, <1>10, Zenon

\* Types, in a round of retransmissions.
LEMMA RetransmitTypes ==
  ASSUME LeastElements, TypeOK, PollRetransmitRequest, UNCHANGED <<setup, signals>>
  PROVE  TypeOK'
<1>1. UNCHANGED <<added, id_conn, leaving, posted, sr_queue, done, notification_queue,
                  conn_metas, conn_meta_map, raced, gap, bytes_sent, rx_meter, heard, finish,
                  stopping, record>>
  BY Zenon DEF PollRetransmitRequest, user, table
<1>2. Peers' = Peers /\ Msgs' = Msgs /\ ConnMeta' = ConnMeta
      /\ Notification' = Notification /\ FlowSignal' = FlowSignal
  BY SameSetup, Zenon
<1>3. UserOK' /\ TableOK'
  BY <1>1, <1>2, RetransmitEffect, Zenon DEF TypeOK, UserOK, TableOK
<1>4. ConnOK' /\ PeerOK'
  BY <1>1, <1>2, RetransmitEffect, Zenon DEF TypeOK, ConnOK, PeerOK
<1> QED BY <1>3, <1>4, Zenon DEF TypeOK

\* A notification is of one of four kinds.
LEMMA NotificationCases ==
  ASSUME NEW n \in Notification
  PROVE  \/ n.type = "ADD_CONNECTION" /\ n.id \in Peers /\ n = Add(n.id)
         \/ n.type = "REMOVE_CONNECTION" /\ n.id \in Peers /\ n = Rem(n.id)
         \/ n.type = "STOP_FLOW" /\ n.id \in Msgs /\ n = Stop(n.id)
         \/ n.type = "REQUEST_RETRANSMIT" /\ n.id \in Msgs /\ n = Req(n.id)
  BY Zenon DEF Notification, Add, Rem, Stop, Req

\* Notifications of different kinds, or of different ids, differ.
LEMMA NotificationsDiffer ==
  /\ \A d, e : Add(d) # Rem(e) /\ Add(d) # Stop(e) /\ Add(d) # Req(e)
               /\ Rem(d) # Stop(e) /\ Rem(d) # Req(e) /\ Stop(d) # Req(e)
  /\ \A d, e : /\ Add(d) = Add(e) => d = e
               /\ Rem(d) = Rem(e) => d = e
               /\ Stop(d) = Stop(e) => d = e
               /\ Req(d) = Req(e) => d = e
<1>1. \A d : Add(d).type = "ADD_CONNECTION" /\ Add(d).id = d
  BY Zenon DEF Add
<1>2. \A d : Rem(d).type = "REMOVE_CONNECTION" /\ Rem(d).id = d
  BY Zenon DEF Rem
<1>3. \A d : Stop(d).type = "STOP_FLOW" /\ Stop(d).id = d
  BY Zenon DEF Stop
<1>4. \A d : Req(d).type = "REQUEST_RETRANSMIT" /\ Req(d).id = d
  BY Zenon DEF Req
<1> QED BY <1>1, <1>2, <1>3, <1>4

\* The notification at the head is handled by its kind.
LEMMA PollCases ==
  ASSUME TypeOK, PollNotification, notification_queue # <<>>
  PROVE  /\ notification_queue' = Tail(notification_queue)
         /\ notification_queue' \in Seq(Notification)
         /\ \/ \E d \in Peers : /\ Head(notification_queue) = Add(d)
                                /\ AddToTable(d)
                                /\ UNCHANGED <<raced, gap, conn, done, failed, id_conn>>
            \/ \E d \in Peers : /\ Head(notification_queue) = Rem(d)
                                /\ RemoveFromTable(d)
                                /\ id_conn' = id_conn \ {d}
                                /\ UNCHANGED <<raced, conn, done, failed>>
            \/ \E m \in Msgs : /\ Head(notification_queue) = Stop(m)
                               /\ StopFlow(m) /\ UNCHANGED id_conn
            \/ \E m \in Msgs : /\ Head(notification_queue) = Req(m)
                               /\ RequestRetransmit(m) /\ UNCHANGED id_conn
<1> DEFINE n == Head(notification_queue)
<1>1. n \in Notification /\ Tail(notification_queue) \in Seq(Notification)
  BY DEF TypeOK, UserOK
<1>2. /\ notification_queue' = Tail(notification_queue)
      /\ \/ /\ n.type = "ADD_CONNECTION"
            /\ AddToTable(n.id)
            /\ UNCHANGED <<raced, gap, conn, done, failed, id_conn>>
         \/ /\ n.type = "REMOVE_CONNECTION"
            /\ RemoveFromTable(n.id)
            /\ id_conn' = id_conn \ {n.id}
            /\ UNCHANGED <<raced, conn, done, failed>>
         \/ n.type = "STOP_FLOW" /\ StopFlow(n.id) /\ UNCHANGED id_conn
         \/ n.type = "REQUEST_RETRANSMIT" /\ RequestRetransmit(n.id) /\ UNCHANGED id_conn
  BY Zenon DEF PollNotification
<1> HIDE DEF n
<1>3. \/ n.type = "ADD_CONNECTION" /\ n.id \in Peers /\ n = Add(n.id)
      \/ n.type = "REMOVE_CONNECTION" /\ n.id \in Peers /\ n = Rem(n.id)
      \/ n.type = "STOP_FLOW" /\ n.id \in Msgs /\ n = Stop(n.id)
      \/ n.type = "REQUEST_RETRANSMIT" /\ n.id \in Msgs /\ n = Req(n.id)
  BY <1>1, NotificationCases, Zenon
<1> QED BY <1>1, <1>2, <1>3, Zenon DEF n

\* What StopFlow and a request do to the connection they find.
LEMMA StopEffect ==
  ASSUME TypeOK, NEW m \in Msgs, StopFlow(m)
  PROVE  LET c == FindConnMetaById(Dest(m))
         IN /\ Lookup(m) /\ done' = done \cup {m}
            /\ \/ /\ InTable(Dest(m)) /\ c \in Peers /\ failed' = failed
                  /\ \/ /\ m \in conn[c].sending
                        /\ OnlyAt(c, conn[c].sending \ {m}, conn[c].retransmitting, conn[c].reqs)
                     \/ /\ m \notin conn[c].sending
                        /\ OnlyAt(c, conn[c].sending, conn[c].retransmitting \ {m},
                                  conn[c].reqs \ {m})
               \/ ~InTable(Dest(m)) /\ failed' = TRUE /\ conn' = conn
<1> DEFINE c == FindConnMetaById(Dest(m))
           q == [conn[c] EXCEPT !.sending = conn[c].sending \ {m}]
           k == WithKept(conn[c], conn[c].reqs \ {m}, conn[c].retransmitting \ {m})
<1>1. /\ Lookup(m) /\ done' = done \cup {m}
      /\ \/ /\ InTable(Dest(m)) /\ failed' = failed
            /\ conn' = [conn EXCEPT ![c] = IF m \in conn[c].sending THEN q ELSE k]
         \/ ~InTable(Dest(m)) /\ failed' = TRUE /\ conn' = conn
  BY Zenon DEF StopFlow, ForMessage, Stopped, WithKept
<1>2. ASSUME InTable(Dest(m)), conn' = [conn EXCEPT ![c] = IF m \in conn[c].sending THEN q ELSE k]
      PROVE  /\ c \in Peers
             /\ \/ /\ m \in conn[c].sending
                   /\ OnlyAt(c, conn[c].sending \ {m}, conn[c].retransmitting, conn[c].reqs)
                \/ /\ m \notin conn[c].sending
                   /\ OnlyAt(c, conn[c].sending, conn[c].retransmitting \ {m}, conn[c].reqs \ {m})
  <2>1. c \in Peers
    BY <1>2, FoundFacts, Zenon
  <2> HIDE DEF c
  <2>2. /\ conn[c] \in ConnMeta /\ conn[c].sending \ {m} \in SUBSET Msgs
        /\ conn[c].reqs \ {m} \in SUBSET Msgs /\ conn[c].retransmitting \ {m} \in SUBSET Msgs
    BY <2>1, ConnFacts, Zenon
  <2>3. /\ q \in ConnMeta /\ q.sending = conn[c].sending \ {m}
        /\ q.retransmitting = conn[c].retransmitting /\ q.reqs = conn[c].reqs
        /\ q.rate = conn[c].rate /\ q.tx_meter = conn[c].tx_meter
    BY <2>2, SetSending, Zenon
  <2>4. /\ k \in ConnMeta /\ k.sending = conn[c].sending
        /\ k.retransmitting = conn[c].retransmitting \ {m} /\ k.reqs = conn[c].reqs \ {m}
        /\ k.rate = conn[c].rate /\ k.tx_meter = conn[c].tx_meter
    BY <2>2, SetKept
  <2> HIDE DEF q, k
  <2>5. CASE m \in conn[c].sending
    <3>1. conn' = [conn EXCEPT ![c] = q]
      BY <1>2, <2>5, Zenon
    <3> QED BY <2>1, <2>3, <2>5, <3>1, OneConn, Zenon
  <2>6. CASE m \notin conn[c].sending
    <3>1. conn' = [conn EXCEPT ![c] = k]
      BY <1>2, <2>6, Zenon
    <3> QED BY <2>1, <2>4, <2>6, <3>1, OneConn, Zenon
  <2> QED BY <2>5, <2>6, Zenon
<1> HIDE DEF c, q, k
<1> QED BY <1>1, <1>2, Zenon DEF c

\* A packet of a message is asked for.
LEMMA RequestEffect ==
  ASSUME TypeOK, NEW m \in Msgs, RequestRetransmit(m)
  PROVE  LET c == FindConnMetaById(Dest(m))
         IN /\ Lookup(m) /\ done' = done
            /\ \/ /\ InTable(Dest(m)) /\ c \in Peers /\ failed' = failed
                  /\ OnlyAt(c, conn[c].sending, conn[c].retransmitting, conn[c].reqs \cup {m})
               \/ ~InTable(Dest(m)) /\ failed' = TRUE /\ conn' = conn
<1> DEFINE c == FindConnMetaById(Dest(m))
           q == [conn[c] EXCEPT !.reqs = conn[c].reqs \cup {m}]
<1>1. /\ Lookup(m) /\ done' = done
      /\ \/ InTable(Dest(m)) /\ failed' = failed /\ conn' = [conn EXCEPT ![c] = q]
         \/ ~InTable(Dest(m)) /\ failed' = TRUE /\ conn' = conn
  BY Zenon DEF RequestRetransmit, ForMessage
<1>2. ASSUME InTable(Dest(m)), conn' = [conn EXCEPT ![c] = q]
      PROVE  /\ c \in Peers
             /\ OnlyAt(c, conn[c].sending, conn[c].retransmitting, conn[c].reqs \cup {m})
  <2>1. c \in Peers
    BY <1>2, FoundFacts, Zenon
  <2> HIDE DEF c
  <2>2. conn[c] \in ConnMeta /\ conn[c].reqs \cup {m} \in SUBSET Msgs
    BY <2>1, ConnFacts, Zenon
  <2>3. /\ q \in ConnMeta /\ q.sending = conn[c].sending
        /\ q.retransmitting = conn[c].retransmitting /\ q.reqs = conn[c].reqs \cup {m}
        /\ q.rate = conn[c].rate /\ q.tx_meter = conn[c].tx_meter
    BY <2>2, SetReqs, Zenon
  <2> HIDE DEF q
  <2> QED BY <1>2, <2>1, <2>3, OneConn, Zenon
<1> HIDE DEF c, q
<1> QED BY <1>1, <1>2, Zenon DEF c

\* std::find finds a connection that is in the table, once; erase leaves the others.
LEMMA RemoveEffect ==
  ASSUME TypeOK, Connected, NEW d \in Peers, d \in Table, RemoveFromTable(d)
  PROVE  /\ conn_metas' \in Seq(Peers) /\ Len(conn_metas') = Len(conn_metas) - 1
         /\ \E f \in 1 .. Len(conn_metas) :
              /\ conn_metas[f] = d
              /\ \A k \in 1 .. Len(conn_metas) - 1 :
                   conn_metas'[k] = IF k < f THEN conn_metas[k] ELSE conn_metas[k + 1]
              /\ gap' = (gap \/ f # Len(conn_metas))
         /\ Table' = Table \ {d}
         /\ DOMAIN conn_meta_map' = DOMAIN conn_meta_map \ {d}
         /\ \A x \in DOMAIN conn_meta_map' : conn_meta_map'[x] = conn_meta_map[x]
         /\ conn_meta_map' \in [DOMAIN conn_meta_map' -> Nat]
<1> DEFINE n == Len(conn_metas)
           f == Find(d)
<1>1. /\ conn_metas \in Seq(Peers) /\ n \in Nat /\ DOMAIN conn_metas = 1 .. n
      /\ conn_metas \in [1 .. n -> Peers]
  BY DEF TypeOK, TableOK
<1>2. PICK i \in 1 .. n : conn_metas[i] = d
  BY <1>1, Zenon DEF Table, Range
<1>3. \A j \in 1 .. n : conn_metas[j] = d => j = i
  BY <1>2, Zenon DEF Connected, TableOnce
<1>4. \A j \in 1 .. i - 1 : conn_metas[j] # d
  BY <1>1, <1>2, <1>3
<1>5. f \in 1 .. n /\ conn_metas[f] = d
  BY <1>2, <1>4, Zenon DEF Find
<1>6. /\ conn_metas' = [k \in 1 .. n - 1 |-> IF k < f THEN conn_metas[k] ELSE conn_metas[k + 1]]
      /\ gap' = (gap \/ f # n)
      /\ conn_meta_map' = [x \in DOMAIN conn_meta_map \ {d} |-> conn_meta_map[x]]
  BY Zenon DEF RemoveFromTable, Erase, Restrict
<1> HIDE DEF f
<1>7. n - 1 \in Nat
  BY <1>1, <1>2
<1>8. conn_metas' \in Seq(Peers) /\ Len(conn_metas') = n - 1
  <2>1. ASSUME NEW k \in 1 .. n - 1
        PROVE  conn_metas'[k] \in Peers
    <3>1. k \in 1 .. n /\ k + 1 \in 1 .. n
      BY <1>7
    <3>2. conn_metas[k] \in Peers /\ conn_metas[k + 1] \in Peers
      BY <1>1, <3>1, Zenon
    <3> HIDE DEF n
    <3> QED BY <1>6, <3>2, Zenon
  <2>2. conn_metas' \in [1 .. n - 1 -> Peers]
    BY <1>6, <2>1, Zenon
  <2> HIDE DEF n
  <2> QED BY <1>7, <2>2
<1>9. Table' = Table \ {d}
  <2>1. Table = {conn_metas[k] : k \in 1 .. n}
    BY <1>1, Zenon DEF Table, Range
  <2>2. DOMAIN conn_metas' = 1 .. n - 1
    BY <1>6, Zenon
  <2>3. Table' = {conn_metas'[k] : k \in 1 .. n - 1}
    BY <2>2, Zenon DEF Table, Range
  <2>4. ASSUME NEW x \in Table'
        PROVE  x \in Table \ {d}
    <3>1. PICK k \in 1 .. n - 1 : x = conn_metas'[k]
      BY <2>3, Zenon
    <3>2. \E j \in 1 .. n : j # f /\ x = conn_metas[j]
      <4>1. k \in 1 .. n /\ k + 1 \in 1 .. n /\ (k < f => k # f) /\ (~(k < f) => k + 1 # f)
        BY <1>5, <1>7
      <4> HIDE DEF n
      <4>2. (x = conn_metas[k] /\ k < f) \/ (x = conn_metas[k + 1] /\ ~(k < f))
        BY <1>6, <3>1, Zenon
      <4> QED BY <4>1, <4>2, Zenon
    <3> QED BY <1>3, <1>5, <2>1, <3>2, Zenon
  <2>5. ASSUME NEW x \in Table, x # d
        PROVE  x \in Table'
    <3>1. PICK j \in 1 .. n : x = conn_metas[j]
      BY <2>1, Zenon
    <3>2. CASE j < f
      <4>1. j \in 1 .. n - 1
        BY <1>1, <1>5, <3>2
      <4> QED BY <1>6, <2>3, <3>1, <3>2, <4>1, Zenon
    <3>3. CASE j > f
      <4>1. j - 1 \in 1 .. n - 1 /\ ~(j - 1 < f) /\ (j - 1) + 1 = j
        BY <1>1, <1>5, <3>3
      <4> QED BY <1>6, <2>3, <3>1, <4>1, Zenon
    <3>4. j # f
      BY <1>5, <2>5, <3>1, Zenon
    <3> QED BY <1>1, <1>5, <3>2, <3>3, <3>4
  <2> QED BY <2>4, <2>5, Zenon
<1>10. /\ DOMAIN conn_meta_map' = DOMAIN conn_meta_map \ {d}
       /\ \A x \in DOMAIN conn_meta_map' : conn_meta_map'[x] = conn_meta_map[x]
       /\ conn_meta_map' \in [DOMAIN conn_meta_map' -> Nat]
  <2>1. conn_meta_map \in [DOMAIN conn_meta_map -> Nat]
    BY Zenon DEF TypeOK, TableOK
  <2> HIDE DEF n
  <2> QED BY <1>6, <2>1, Zenon
<1> QED BY <1>5, <1>6, <1>8, <1>9, <1>10, Zenon

\* A connection gets the last place.
LEMMA AddToTableEffect ==
  ASSUME TypeOK, NEW d \in Peers, AddToTable(d)
  PROVE  /\ conn_metas' = Append(conn_metas, d) /\ conn_metas' \in Seq(Peers)
         /\ Table' = Table \cup {d}
         /\ DOMAIN conn_meta_map' = DOMAIN conn_meta_map \cup {d}
         /\ conn_meta_map'[d] = Len(conn_metas)
         /\ \A x \in DOMAIN conn_meta_map \ {d} : conn_meta_map'[x] = conn_meta_map[x]
         /\ conn_meta_map' \in [DOMAIN conn_meta_map' -> Nat]
<1>1. /\ conn_metas \in Seq(Peers) /\ Len(conn_metas) \in Nat
      /\ DOMAIN conn_metas = 1 .. Len(conn_metas)
      /\ conn_meta_map \in [DOMAIN conn_meta_map -> Nat]
  BY DEF TypeOK, TableOK
<1>2. conn_metas' = Append(conn_metas, d) /\ conn_metas' \in Seq(Peers)
  BY <1>1 DEF AddToTable
<1>3. conn_meta_map' = [x \in DOMAIN conn_meta_map \cup {d} |->
                          IF x = d THEN Len(conn_metas) ELSE conn_meta_map[x]]
  BY Zenon DEF AddToTable, Put
<1>4. Table' = Table \cup {d}
  <2>1. DOMAIN conn_metas' = 1 .. Len(conn_metas) + 1
    BY <1>1, <1>2
  <2>2. \A k \in 1 .. Len(conn_metas) : conn_metas'[k] = conn_metas[k]
    BY <1>1, <1>2
  <2>3. conn_metas'[Len(conn_metas) + 1] = d
    BY <1>1, <1>2
  <2>4. 1 .. Len(conn_metas) + 1 = (1 .. Len(conn_metas)) \cup {Len(conn_metas) + 1}
    BY <1>1
  <2>5. Table' = {conn_metas'[k] : k \in (1 .. Len(conn_metas)) \cup {Len(conn_metas) + 1}}
    BY <2>1, <2>4, Zenon DEF Table, Range
  <2>6. Table = {conn_metas[k] : k \in 1 .. Len(conn_metas)}
    BY <1>1, Zenon DEF Table, Range
  <2> QED BY <2>2, <2>3, <2>5, <2>6, Zenon
<1> QED BY <1>1, <1>2, <1>3, <1>4, Zenon

\* The connection of a notification at the head of the queue.
LEMMA HeadConnection ==
  ASSUME TypeOK, Connected, notification_queue # <<>>, NEW d \in Peers
  PROVE  /\ Head(notification_queue) = Rem(d) => d \in Table /\ d \in leaving
         /\ Head(notification_queue) = Add(d) => d \notin Table /\ d \in added
<1>1. 1 \in 1 .. Len(notification_queue) /\ Head(notification_queue) = notification_queue[1]
  BY DEF TypeOK, UserOK
<1>2. /\ notification_queue[1] = Add(d) => d \in added /\ d \notin Table
      /\ notification_queue[1] = Rem(d) =>
           /\ d \in leaving
           /\ d \in Table \/ \E j \in 1 .. 1 - 1 : notification_queue[j] = Add(d)
  BY <1>1, Zenon DEF Connected, AddOnce, RemOnce
<1> QED BY <1>1, <1>2

\* Types, when a notification is handled.
LEMMA NotificationStepTypes ==
  ASSUME TypeOK, Connected, PollNotification, UNCHANGED <<setup, signals>>
  PROVE  TypeOK'
<1>1. UNCHANGED <<added, leaving, posted, sr_queue, bytes_sent, net, rx_meter, heard, finish,
                  stopping, record>>
  BY Zenon DEF PollNotification, peer
<1>2. Peers' = Peers /\ Msgs' = Msgs /\ ConnMeta' = ConnMeta
      /\ Notification' = Notification /\ FlowSignal' = FlowSignal
  BY SameSetup, Zenon
<1>3. PeerOK'
  BY <1>1, <1>2, Zenon DEF TypeOK, PeerOK
<1>4. CASE notification_queue = <<>>
  <2>1. UNCHANGED <<notification_queue, conn_metas, conn_meta_map, raced, gap, conn, done, failed,
                    id_conn>>
    BY <1>4, Zenon DEF PollNotification, table
  <2> QED BY <1>1, <1>2, <1>3, <2>1, Zenon DEF TypeOK, UserOK, TableOK, ConnOK
<1>5. CASE notification_queue # <<>>
  <2>0. notification_queue' \in Seq(Notification)
    BY <1>5, PollCases, Zenon
  <2>1. ASSUME NEW d \in Peers, AddToTable(d), UNCHANGED <<raced, gap, conn, done, failed, id_conn>>
        PROVE  TypeOK'
    <3>1. UserOK' /\ ConnOK'
      BY <1>1, <1>2, <2>0, <2>1, Zenon DEF TypeOK, UserOK, ConnOK
    <3>2. TableOK'
      BY <1>2, <2>1, AddToTableEffect, Zenon DEF TypeOK, TableOK
    <3> QED BY <1>3, <3>1, <3>2, Zenon DEF TypeOK
  <2>2. ASSUME NEW d \in Peers, Head(notification_queue) = Rem(d), RemoveFromTable(d),
               id_conn' = id_conn \ {d}, UNCHANGED <<raced, conn, done, failed>>
        PROVE  TypeOK'
    <3>1. UserOK' /\ ConnOK'
      BY <1>1, <1>2, <2>0, <2>2, Zenon DEF TypeOK, UserOK, ConnOK
    <3>2. d \in Table
      BY <1>5, <2>2, HeadConnection, Zenon
    <3>3. gap' \in BOOLEAN
      BY <2>2, Zenon DEF RemoveFromTable
    <3>4. TableOK'
      BY <1>2, <2>2, <3>2, <3>3, RemoveEffect, Zenon DEF TypeOK, TableOK
    <3> QED BY <1>3, <3>1, <3>4, Zenon DEF TypeOK
  <2>3. ASSUME NEW m \in Msgs, Lookup(m), UNCHANGED id_conn,
               done' = done \cup {m} \/ done' = done,
               conn' \in [Peers -> ConnMeta] \/ conn' = conn, failed' = TRUE \/ failed' = failed
        PROVE  TypeOK'
    <3>1. UserOK' /\ ConnOK'
      BY <1>1, <1>2, <2>0, <2>3, Zenon DEF TypeOK, UserOK, ConnOK
    <3>2. UNCHANGED <<conn_metas, gap>>
      BY <2>3, Zenon DEF Lookup
    <3>3. TableOK'
      BY <1>2, <2>3, <3>2, FoundFacts, Zenon DEF TypeOK, TableOK
    <3> QED BY <1>3, <3>1, <3>3, Zenon DEF TypeOK
  <2>4. ASSUME NEW m \in Msgs, StopFlow(m), UNCHANGED id_conn
        PROVE  TypeOK'
    BY <2>3, <2>4, StopEffect, Zenon DEF OnlyAt
  <2>5. ASSUME NEW m \in Msgs, RequestRetransmit(m), UNCHANGED id_conn
        PROVE  TypeOK'
    BY <2>3, <2>5, RequestEffect, Zenon DEF OnlyAt
  <2> QED BY <1>5, <2>1, <2>2, <2>4, <2>5, PollCases, Zenon
<1> QED BY <1>4, <1>5, Zenon

\* A report moves the rate of one connection.
AdjustsRate(d, rate) ==
  /\ rate \in Nat /\ rate <= 2 * conn[d].rate
  /\ conn[d].rate >= InitialSendingRate => rate >= InitialSendingRate
  /\ conn' \in [Peers -> ConnMeta] /\ record' \in [Peers -> Record]
  /\ conn'[d].rate = rate /\ conn'[d].tx_meter = conn[d].tx_meter
  /\ conn'[d].sending = conn[d].sending
  /\ conn'[d].retransmitting = conn[d].retransmitting /\ conn'[d].reqs = conn[d].reqs
  /\ record'[d].age = record[d].age /\ record'[d].first = record[d].first
  /\ record'[d].peak = IF record[d].peak >= rate THEN record[d].peak ELSE rate
  /\ \A c \in Peers \ {d} : conn'[c] = conn[c] /\ record'[c] = record[c]

\* A report moves the rate: at most doubled, never below the initial rate.
LEMMA RateEffect ==
  ASSUME TypeOK, NEW d \in Peers, NEW v \in Int,
         LET rate == Adjusted(conn[d].rate, v)
         IN /\ conn' = [conn EXCEPT ![d].rate = rate]
            /\ record' = [record EXCEPT ![d].peak = Max({record[d].peak, rate})]
  PROVE  AdjustsRate(d, Adjusted(conn[d].rate, v))
<1> DEFINE rate == Adjusted(conn[d].rate, v)
           p == Max({record[d].peak, rate})
           q == [conn[d] EXCEPT !.rate = rate]
           r == [record[d] EXCEPT !.peak = p]
<1>1. conn' = [conn EXCEPT ![d] = q] /\ record' = [record EXCEPT ![d] = r]
  BY Zenon
<1>2. /\ conn[d] \in ConnMeta /\ conn[d].rate \in Nat /\ InitialSendingRate \in Nat
      /\ record[d] \in Record /\ record[d].peak \in Nat
      /\ conn \in [Peers -> ConnMeta] /\ record \in [Peers -> Record]
  BY ConnFacts, SetupFacts, Zenon DEF TypeOK, ConnOK, Record
<1>3. /\ rate \in Nat /\ rate <= 2 * conn[d].rate
      /\ conn[d].rate >= InitialSendingRate => rate >= InitialSendingRate
  <2>1. LET t == Max({v, InitialSendingRate})
        IN t = IF v >= InitialSendingRate THEN v ELSE InitialSendingRate
    BY <1>2, MaxOfTwo
  <2> QED BY <1>2, <2>1 DEF Adjusted
<1> HIDE DEF rate
<1>4. p = (IF record[d].peak >= rate THEN record[d].peak ELSE rate) /\ p \in Nat
  BY <1>2, <1>3, MaxOfTwo
<1> HIDE DEF p
<1>5. /\ q \in ConnMeta /\ q.rate = rate /\ q.tx_meter = conn[d].tx_meter
      /\ q.sending = conn[d].sending /\ q.retransmitting = conn[d].retransmitting
      /\ q.reqs = conn[d].reqs
  BY <1>2, <1>3, SetRate, Zenon
<1>6. r \in Record /\ r.age = record[d].age /\ r.peak = p /\ r.first = record[d].first
  BY <1>2, <1>4, SetPeak, Zenon
<1> HIDE DEF q, r
<1>7. /\ conn'[d] = q /\ record'[d] = r
      /\ \A c \in Peers \ {d} : conn'[c] = conn[c] /\ record'[c] = record[c]
      /\ conn' \in [Peers -> ConnMeta] /\ record' \in [Peers -> Record]
  BY <1>1, <1>2, <1>5, <1>6
<1>8. AdjustsRate(d, rate)
  <2>1. /\ conn'[d].rate = rate /\ conn'[d].tx_meter = conn[d].tx_meter
        /\ conn'[d].sending = conn[d].sending
        /\ conn'[d].retransmitting = conn[d].retransmitting /\ conn'[d].reqs = conn[d].reqs
    BY <1>5, <1>7, Zenon
  <2>2. /\ record'[d].age = record[d].age /\ record'[d].first = record[d].first
        /\ record'[d].peak = IF record[d].peak >= rate THEN record[d].peak ELSE rate
    BY <1>4, <1>6, <1>7, Zenon
  <2> QED BY <1>3, <1>7, <2>1, <2>2, Zenon DEF AdjustsRate
<1> QED BY <1>8, Zenon DEF rate

\* A signal is a report, or tells of a message.
LEMMA SignalCases ==
  ASSUME TypeOK, NEW d \in Peers, HandleReceivedData(d)
  PROVE  LET s == Head(signals[d])
         IN /\ signals[d] # <<>> /\ d \in id_conn
            /\ signals' = [signals EXCEPT ![d] = Tail(signals[d])]
            /\ signals' \in [Peers -> Seq(RateSignal \cup FlowSignal)]
            /\ UNCHANGED <<setup, user, done, pc, table, bytes_sent, peer, failed>>
            /\ \/ /\ s \in RateSignal /\ UNCHANGED notification_queue
                  /\ AdjustsRate(d, Adjusted(conn[d].rate, s.val))
               \/ /\ s \notin RateSignal /\ UNCHANGED <<conn, record>>
                  /\ \E m \in Msgs :
                       \/ /\ s = StopSignal(m)
                          /\ notification_queue' = Append(notification_queue, Stop(m))
                       \/ /\ s = ReqSignal(m)
                          /\ notification_queue' = Append(notification_queue, Req(m))
<1> DEFINE s == Head(signals[d])
<1>1. /\ signals[d] # <<>> /\ d \in id_conn
      /\ signals' = [signals EXCEPT ![d] = Tail(signals[d])]
      /\ UNCHANGED <<setup, user, done, pc, table, bytes_sent, peer, failed>>
      /\ IF s.type = "kRateAdjustment"
         THEN LET rate == Adjusted(conn[d].rate, s.val)
              IN /\ conn' = [conn EXCEPT ![d].rate = rate]
                 /\ record' = [record EXCEPT ![d].peak = Max({record[d].peak, rate})]
                 /\ UNCHANGED notification_queue
         ELSE /\ notification_queue' = Append(notification_queue, [type |-> s.type, id |-> s.val])
              /\ UNCHANGED <<conn, record>>
  BY Zenon DEF HandleReceivedData, Notify
<1>2. /\ signals \in [Peers -> Seq(RateSignal \cup FlowSignal)]
      /\ signals[d] \in Seq(RateSignal \cup FlowSignal)
  BY Zenon DEF TypeOK, PeerOK
<1>3. s \in RateSignal \cup FlowSignal /\ Tail(signals[d]) \in Seq(RateSignal \cup FlowSignal)
  BY <1>1, <1>2
<1>4. signals' \in [Peers -> Seq(RateSignal \cup FlowSignal)]
  BY <1>1, <1>2, <1>3, Zenon
<1> HIDE DEF s
<1>5. CASE s.type = "kRateAdjustment"
  <2>1. s \in RateSignal /\ s.val \in Int
    BY <1>3, <1>5, Zenon DEF RateSignal, FlowSignal
  <2>2. AdjustsRate(d, Adjusted(conn[d].rate, s.val)) /\ UNCHANGED notification_queue
    BY <1>1, <1>5, <2>1, RateEffect, Zenon
  <2> QED BY <1>1, <1>4, <2>1, <2>2, Zenon DEF s
<1>6. CASE s.type # "kRateAdjustment"
  <2>1. s \notin RateSignal /\ s.val \in Msgs
        /\ \/ s = StopSignal(s.val) /\ s.type = "STOP_FLOW"
           \/ s = ReqSignal(s.val) /\ s.type = "REQUEST_RETRANSMIT"
    BY <1>3, <1>6, Zenon DEF RateSignal, FlowSignal, StopSignal, ReqSignal
  <2>2. /\ notification_queue' = Append(notification_queue, [type |-> s.type, id |-> s.val])
        /\ UNCHANGED <<conn, record>>
    BY <1>1, <1>6, Zenon
  <2>3. \/ s = StopSignal(s.val) /\ notification_queue' = Append(notification_queue, Stop(s.val))
        \/ s = ReqSignal(s.val) /\ notification_queue' = Append(notification_queue, Req(s.val))
    BY <2>1, <2>2, Zenon DEF Stop, Req
  <2>4. /\ signals[d] # <<>> /\ d \in id_conn
        /\ signals' = [signals EXCEPT ![d] = Tail(signals[d])]
        /\ UNCHANGED <<setup, user, done, pc, table, bytes_sent, peer, failed>>
    BY <1>1, Zenon
  <2> QED BY <1>4, <2>1, <2>2, <2>3, <2>4, Zenon DEF s
<1> QED BY <1>5, <1>6, Zenon

\* Types, when a signal is received.
LEMMA SignalTypes ==
  ASSUME TypeOK, NEW d \in Peers, HandleReceivedData(d)
  PROVE  TypeOK'
<1>1. /\ signals' \in [Peers -> Seq(RateSignal \cup FlowSignal)]
      /\ UNCHANGED <<setup, user, done, pc, table, bytes_sent, peer, failed>>
      /\ \/ UNCHANGED notification_queue
         \/ \E m \in Msgs : \/ notification_queue' = Append(notification_queue, Stop(m))
                            \/ notification_queue' = Append(notification_queue, Req(m))
      /\ \/ conn' \in [Peers -> ConnMeta] /\ record' \in [Peers -> Record]
         \/ UNCHANGED <<conn, record>>
  BY SignalCases, Zenon DEF AdjustsRate
<1>2. Peers' = Peers /\ Msgs' = Msgs /\ ConnMeta' = ConnMeta
      /\ Notification' = Notification /\ FlowSignal' = FlowSignal
  BY <1>1, SameSetup, Zenon
<1>3. PeerOK' /\ TableOK' /\ setup' \in Setups
  BY <1>1, <1>2, Zenon DEF TypeOK, PeerOK, TableOK, peer, table
<1>4. ConnOK'
  BY <1>1, <1>2, Zenon DEF TypeOK, ConnOK
<1>5. UserOK'
  <2>1. notification_queue \in Seq(Notification)
    BY Zenon DEF TypeOK, UserOK
  <2>2. notification_queue' \in Seq(Notification)
    <3>1. \/ notification_queue' = notification_queue
          \/ \E n \in Notification : notification_queue' = Append(notification_queue, n)
      BY <1>1, NotificationTypes, Zenon
    <3> QED BY <2>1, <3>1
  <2> QED BY <1>1, <1>2, <2>2, Zenon DEF TypeOK, UserOK, user
<1> QED BY <1>3, <1>4, <1>5, Zenon DEF TypeOK

\* A signal joins those of a peer.
LEMMA SignalSent ==
  ASSUME TypeOK, NEW d \in Peers, NEW s \in RateSignal \cup FlowSignal, Signal(d, s)
  PROVE  /\ signals' = [signals EXCEPT ![d] = Append(signals[d], s)]
         /\ signals' \in [Peers -> Seq(RateSignal \cup FlowSignal)]
<1>1. signals' = [signals EXCEPT ![d] = Append(signals[d], s)]
  BY Zenon DEF Signal
<1>2. signals \in [Peers -> Seq(RateSignal \cup FlowSignal)]
  BY Zenon DEF TypeOK, PeerOK
<1> QED BY <1>1, <1>2

\* A packet reaches peer d, whose window may end.
Receives(d) ==
  /\ net'[d] = Tail(net[d])
  /\ \/ /\ rx_meter[d].age >= Interval /\ rx_meter'[d].age = 0
        /\ \E s \in RateSignal : signals' = [signals EXCEPT ![d] = Append(signals[d], s)]
     \/ /\ rx_meter'[d].age = rx_meter[d].age
        /\ UNCHANGED signals

\* A packet arrives or is lost; the peer reports when its window is over.
LEMMA ReceiveEffect ==
  ASSUME TypeOK, NEW d \in Peers, net[d] # <<>>, HandleReceive(d) \/ Lose(d)
  PROVE  /\ Receives(d)
         /\ \A c \in Peers \ {d} : net'[c] = net[c] /\ rx_meter'[c] = rx_meter[c]
         /\ net' \in [Peers -> Seq(Msgs \X Int)] /\ rx_meter' \in [Peers -> Meter]
         /\ signals' \in [Peers -> Seq(RateSignal \cup FlowSignal)]
         /\ heard' \subseteq Msgs /\ UNCHANGED <<finish, stopping>>
<1> DEFINE pkt == Head(net[d])
           meter == Update(rx_meter[d], pkt[2])
<1>1. /\ net \in [Peers -> Seq(Msgs \X Int)] /\ net[d] \in Seq(Msgs \X Int)
      /\ rx_meter \in [Peers -> Meter] /\ rx_meter[d] \in Meter
      /\ signals \in [Peers -> Seq(RateSignal \cup FlowSignal)]
      /\ heard \subseteq Msgs
  BY Zenon DEF TypeOK, PeerOK
<1>2. pkt \in Msgs \X Int /\ Tail(net[d]) \in Seq(Msgs \X Int)
  BY <1>1
<1> HIDE DEF pkt
<1>3. /\ net' = [net EXCEPT ![d] = Tail(net[d])] /\ UNCHANGED <<finish, stopping>>
  BY Zenon DEF HandleReceive, Lose
<1>4. /\ net'[d] = Tail(net[d]) /\ \A c \in Peers \ {d} : net'[c] = net[c]
  BY <1>1, <1>3, Zenon
<1>5. net' \in [Peers -> Seq(Msgs \X Int)]
  BY <1>1, <1>2, <1>3, Zenon
<1>6. heard' \subseteq Msgs
  <2>1. heard' \in {heard, heard \cup {pkt[1]}}
    BY Zenon DEF HandleReceive, Lose, pkt
  <2> QED BY <1>1, <1>2, <2>1, Zenon
<1>7. CASE Lose(d)
  <2>1. UNCHANGED <<rx_meter, signals>>
    BY <1>7, Zenon DEF Lose
  <2> QED BY <1>1, <1>3, <1>4, <1>5, <1>6, <2>1, Zenon DEF Receives
<1>8. CASE HandleReceive(d)
  <2>1. IF Elapsed(meter)
        THEN /\ Signal(d, [type |-> "kRateAdjustment", val |-> GetBytesPerSecond(meter)])
             /\ rx_meter' = [rx_meter EXCEPT ![d] = Clear(meter)]
        ELSE rx_meter' = [rx_meter EXCEPT ![d] = meter] /\ UNCHANGED signals
    BY <1>8, Zenon DEF HandleReceive, pkt
  <2>2. meter \in Meter /\ meter.age = rx_meter[d].age
    <3>1. pkt[2] \in Int
      BY <1>2, Zenon
    <3> QED BY <1>1, <3>1, UpdateFacts, Zenon
  <2>3. meter.bytes \in Int /\ meter.age \in Nat /\ Interval \in Nat \ {0}
    BY <2>2, ChannelAssumption, Zenon DEF Meter
  <2> HIDE DEF meter
  <2>4. CASE Elapsed(meter)
    <3> DEFINE s == [type |-> "kRateAdjustment", val |-> GetBytesPerSecond(meter)]
    <3>1. meter.age >= Interval
      BY <2>4, Zenon DEF Elapsed
    <3>2. GetBytesPerSecond(meter) \in Int
      BY <2>3, <3>1 DEF GetBytesPerSecond
    <3>3. s \in RateSignal
      BY <3>2, Zenon DEF RateSignal
    <3>4. Signal(d, s) /\ rx_meter' = [rx_meter EXCEPT ![d] = Clear(meter)]
      BY <2>1, <2>4, Zenon
    <3> HIDE DEF s
    <3>5. /\ signals' = [signals EXCEPT ![d] = Append(signals[d], s)]
          /\ signals' \in [Peers -> Seq(RateSignal \cup FlowSignal)]
      BY <3>3, <3>4, SignalSent, Zenon
    <3>6. Clear(meter) \in Meter /\ Clear(meter).age = 0
      BY DEF Clear, Cleared, Meter
    <3>7. /\ rx_meter' \in [Peers -> Meter] /\ rx_meter'[d].age = 0
          /\ \A c \in Peers \ {d} : rx_meter'[c] = rx_meter[c]
      BY <1>1, <3>4, <3>6, Zenon
    <3>8. Receives(d)
      BY <1>4, <2>2, <3>1, <3>3, <3>5, <3>7, Zenon DEF Receives
    <3> QED BY <1>3, <1>4, <1>5, <1>6, <3>5, <3>7, <3>8, Zenon
  <2>5. CASE ~Elapsed(meter)
    <3>1. rx_meter' = [rx_meter EXCEPT ![d] = meter] /\ UNCHANGED signals
      BY <2>1, <2>5, Zenon
    <3>2. /\ rx_meter' \in [Peers -> Meter] /\ rx_meter'[d] = meter
          /\ \A c \in Peers \ {d} : rx_meter'[c] = rx_meter[c]
      BY <1>1, <2>2, <3>1, Zenon
    <3> QED BY <1>1, <1>3, <1>4, <1>5, <1>6, <2>2, <3>1, <3>2, Zenon DEF Receives
  <2> QED BY <2>4, <2>5, Zenon
<1> QED BY <1>7, <1>8, Zenon

\* The signals about a message.
LEMMA FlowSignalTypes ==
  \A m \in Msgs : StopSignal(m) \in FlowSignal /\ ReqSignal(m) \in FlowSignal
  BY Zenon DEF StopSignal, ReqSignal, FlowSignal

\* Signals of different kinds, or of different messages, differ.
LEMMA SignalsDiffer ==
  /\ \A m, n : /\ StopSignal(m) # ReqSignal(n)
               /\ StopSignal(m) = StopSignal(n) => m = n
               /\ ReqSignal(m) = ReqSignal(n) => m = n
  /\ \A m : StopSignal(m) \notin RateSignal /\ ReqSignal(m) \notin RateSignal
<1>1. \A m : StopSignal(m).type = "STOP_FLOW" /\ StopSignal(m).val = m
  BY Zenon DEF StopSignal
<1>2. \A m : ReqSignal(m).type = "REQUEST_RETRANSMIT" /\ ReqSignal(m).val = m
  BY Zenon DEF ReqSignal
<1>3. \A s \in RateSignal : s.type = "kRateAdjustment"
  BY Zenon DEF RateSignal
<1> QED BY <1>1, <1>2, <1>3

\* A peer stops a message, or asks for a packet of it.
LEMMA FlowEffect ==
  ASSUME TypeOK, NEW m \in Msgs
  PROVE  /\ SendStop(m) =>
              /\ m \notin stopping /\ stopping' = stopping \cup {m}
              /\ signals' = [signals EXCEPT ![Dest(m)] = Append(signals[Dest(m)], StopSignal(m))]
              /\ signals' \in [Peers -> Seq(RateSignal \cup FlowSignal)]
              /\ UNCHANGED <<net, rx_meter, heard, finish>>
         /\ FinishFlow(m) =>
              /\ m \in finish /\ m \notin stopping /\ finish' = finish \ {m}
              /\ signals' = [signals EXCEPT ![Dest(m)] = Append(signals[Dest(m)], ReqSignal(m))]
              /\ signals' \in [Peers -> Seq(RateSignal \cup FlowSignal)]
              /\ UNCHANGED <<net, rx_meter, heard, stopping>>
<1>1. Dest(m) \in Peers
  BY SetupFacts, Zenon DEF TypeOK
<1>2. StopSignal(m) \in RateSignal \cup FlowSignal /\ ReqSignal(m) \in RateSignal \cup FlowSignal
  BY FlowSignalTypes, Zenon
<1>3. SendStop(m) => /\ m \notin stopping /\ stopping' = stopping \cup {m}
                     /\ Signal(Dest(m), StopSignal(m))
                     /\ UNCHANGED <<net, rx_meter, heard, finish>>
  BY Zenon DEF SendStop, StopSignal
<1>4. FinishFlow(m) => /\ m \in finish /\ m \notin stopping /\ finish' = finish \ {m}
                       /\ Signal(Dest(m), ReqSignal(m))
                       /\ UNCHANGED <<net, rx_meter, heard, stopping>>
  BY Zenon DEF FinishFlow, ReqSignal
<1> QED BY <1>1, <1>2, <1>3, <1>4, SignalSent, Zenon

\* Types, in a step of a peer.
LEMMA RemoteTypes ==
  ASSUME TypeOK, Remote
  PROVE  TypeOK'
<1>1. UNCHANGED <<setup, user, done, notification_queue, pc, table, conn, bytes_sent, failed, record>>
  BY Zenon DEF Remote
<1>2. Peers' = Peers /\ Msgs' = Msgs /\ ConnMeta' = ConnMeta
      /\ Notification' = Notification /\ FlowSignal' = FlowSignal
  BY <1>1, SameSetup, Zenon
<1>3. UserOK' /\ TableOK' /\ ConnOK' /\ setup' \in Setups
  BY <1>1, <1>2, Zenon DEF TypeOK, UserOK, TableOK, ConnOK, user, table
<1>4. ASSUME NEW d \in Peers, net[d] # <<>>, HandleReceive(d) \/ Lose(d)
      PROVE  PeerOK'
  BY <1>2, <1>4, ReceiveEffect, Zenon DEF TypeOK, PeerOK
<1>5. ASSUME NEW m \in Msgs, SendStop(m) \/ FinishFlow(m)
      PROVE  PeerOK'
  <2>1. /\ signals' \in [Peers -> Seq(RateSignal \cup FlowSignal)]
        /\ UNCHANGED <<net, rx_meter, heard>>
        /\ finish' \subseteq Msgs /\ stopping' \subseteq Msgs
    BY <1>5, FlowEffect, Zenon DEF TypeOK, PeerOK
  <2> QED BY <1>2, <2>1, Zenon DEF TypeOK, PeerOK
<1> QED BY <1>3, <1>4, <1>5, Zenon DEF TypeOK, Remote

\* Time passes for the peers that have a connection.
LEMMA TickEffect ==
  ASSUME TypeOK, Tick
  PROVE  /\ conn' \in [Peers -> ConnMeta] /\ rx_meter' \in [Peers -> Meter]
         /\ record' \in [Peers -> Record]
         /\ \A d \in Peers :
              /\ conn'[d].sending = conn[d].sending
              /\ conn'[d].retransmitting = conn[d].retransmitting
              /\ conn'[d].reqs = conn[d].reqs /\ conn'[d].rate = conn[d].rate
              /\ conn'[d].tx_meter.bytes = conn[d].tx_meter.bytes
              /\ record'[d].peak = record[d].peak /\ record'[d].first = record[d].first
              /\ \/ /\ conn'[d].tx_meter.age = Older(conn[d].tx_meter.age)
                    /\ rx_meter'[d].age = Older(rx_meter[d].age)
                    /\ record'[d].age = Older(record[d].age)
                    /\ d \in id_conn
                 \/ /\ conn'[d] = conn[d] /\ rx_meter'[d] = rx_meter[d]
                    /\ record'[d] = record[d] /\ d \notin id_conn
<1> DEFINE old(d) == [conn[d] EXCEPT !.tx_meter.age = Older(conn[d].tx_meter.age)]
           rx(d) == [rx_meter[d] EXCEPT !.age = Older(rx_meter[d].age)]
           rec(d) == [record[d] EXCEPT !.age = Older(record[d].age)]
<1>1. /\ conn' = [d \in Peers |-> IF d \in id_conn THEN old(d) ELSE conn[d]]
      /\ rx_meter' = [d \in Peers |-> IF d \in id_conn THEN rx(d) ELSE rx_meter[d]]
      /\ record' = [d \in Peers |-> IF d \in id_conn THEN rec(d) ELSE record[d]]
  BY Zenon DEF Tick
<1>2. ASSUME NEW d \in Peers
      PROVE  /\ conn[d] \in ConnMeta /\ rx_meter[d] \in Meter /\ record[d] \in Record
             /\ Older(conn[d].tx_meter.age) \in Nat /\ Older(rx_meter[d].age) \in Nat
             /\ Older(record[d].age) \in Nat
  <2>1. /\ conn[d] \in ConnMeta /\ rx_meter[d] \in Meter /\ record[d] \in Record
        /\ setup \in Setups
    BY Zenon DEF TypeOK, ConnOK, PeerOK
  <2>2. conn[d].tx_meter.age \in Nat /\ rx_meter[d].age \in Nat /\ record[d].age \in Nat
    BY <2>1, ConnFacts, Zenon DEF Meter, Record
  <2> QED BY <2>1, <2>2, OlderFacts, Zenon
<1>3. ASSUME NEW d \in Peers
      PROVE  /\ old(d) \in ConnMeta /\ old(d).sending = conn[d].sending
             /\ old(d).retransmitting = conn[d].retransmitting /\ old(d).reqs = conn[d].reqs
             /\ old(d).rate = conn[d].rate
             /\ old(d).tx_meter.age = Older(conn[d].tx_meter.age)
             /\ old(d).tx_meter.bytes = conn[d].tx_meter.bytes
  BY <1>2, SetMeterAge, Zenon
<1>4. ASSUME NEW d \in Peers
      PROVE  rx(d) \in Meter /\ rx(d).age = Older(rx_meter[d].age)
  <2>1. /\ rx(d) \in Meter
        /\ rx(d) = [bytes |-> rx_meter[d].bytes, age |-> Older(rx_meter[d].age)]
    BY <1>2, MeterUpdate, Zenon
  <2> QED BY <2>1, Zenon
<1>5. ASSUME NEW d \in Peers
      PROVE  /\ rec(d) \in Record /\ rec(d).age = Older(record[d].age)
             /\ rec(d).peak = record[d].peak /\ rec(d).first = record[d].first
  BY <1>2, SetAge, Zenon
<1> HIDE DEF old, rx, rec
<1>6. /\ conn' \in [Peers -> ConnMeta] /\ rx_meter' \in [Peers -> Meter]
      /\ record' \in [Peers -> Record]
  BY <1>1, <1>2, <1>3, <1>4, <1>5, Zenon
<1> QED BY <1>1, <1>3, <1>4, <1>5, <1>6

\* Types, when time passes.
LEMMA TickTypes ==
  ASSUME TypeOK, Tick
  PROVE  TypeOK'
<1>1. UNCHANGED <<setup, user, done, notification_queue, pc, table, bytes_sent, net, heard,
                  finish, stopping, signals, failed>>
  BY Zenon DEF Tick
<1>2. Peers' = Peers /\ Msgs' = Msgs /\ ConnMeta' = ConnMeta
      /\ Notification' = Notification /\ FlowSignal' = FlowSignal
  BY <1>1, SameSetup, Zenon
<1>3. UserOK' /\ TableOK'
  BY <1>1, <1>2, Zenon DEF TypeOK, UserOK, TableOK, user, table
<1>4. ConnOK' /\ PeerOK' /\ setup' \in Setups
  BY <1>1, <1>2, TickEffect, Zenon DEF TypeOK, ConnOK, PeerOK
<1> QED BY <1>3, <1>4, Zenon DEF TypeOK

\* Types, in a step that changes nothing.
LEMMA StutterTypes ==
  ASSUME TypeOK, UNCHANGED vars
  PROVE  TypeOK'
<1>1. UNCHANGED <<setup, added, id_conn, leaving, posted, sr_queue, done, notification_queue,
                  conn_metas, conn_meta_map, raced, gap, conn, bytes_sent, net, rx_meter, heard,
                  finish, stopping, signals, failed, record>>
  BY Zenon DEF vars, user, table, peer
<1>2. Peers' = Peers /\ Msgs' = Msgs /\ ConnMeta' = ConnMeta
      /\ Notification' = Notification /\ FlowSignal' = FlowSignal
  BY <1>1, SameSetup, Zenon
<1> QED BY <1>1, <1>2, Zenon DEF TypeOK, UserOK, TableOK, ConnOK, PeerOK

\* Every step preserves the types.
LEMMA StepTypes ==
  ASSUME LeastElements, TypeOK, Connected, [Next]_vars
  PROVE  TypeOK'
<1>1. CASE Run
  BY <1>1, PopSendRequestTypes, SendTypes, RetransmitTypes, NotificationStepTypes, Zenon DEF Run
<1> QED
  BY <1>1, UserTypes, SignalTypes, RemoteTypes, TickTypes, StutterTypes, Zenon DEF Next

-----------------------------------------------------------------------------
(***************************************************************************)
(* Connections come and go once.                                           *)
(***************************************************************************)
LEMMA Appended ==
  ASSUME NEW S, NEW q \in Seq(S), NEW e \in S
  PROVE  /\ Len(q) \in Nat /\ Len(Append(q, e)) = Len(q) + 1
         /\ Append(q, e)[Len(q) + 1] = e
         /\ \A i \in 1 .. Len(q) : Append(q, e)[i] = q[i]
         /\ \A i \in 1 .. Len(q) + 1 : i \in 1 .. Len(q) \/ i = Len(q) + 1
  OBVIOUS

\* The entries of a queue whose head has been taken.
LEMMA WithoutHead ==
  ASSUME NEW S, NEW q \in Seq(S), q # <<>>
  PROVE  /\ Len(q) \in Nat \ {0} /\ Len(Tail(q)) = Len(q) - 1 /\ q[1] = Head(q)
         /\ \A i \in 1 .. Len(q) - 1 : Tail(q)[i] = q[i + 1] /\ i + 1 \in 1 .. Len(q) /\ i + 1 # 1
         /\ \A i \in 1 .. Len(q) : i = 1 \/ (i - 1 \in 1 .. Len(q) - 1 /\ Tail(q)[i - 1] = q[i])
  OBVIOUS

\* Only connections that were added are in the table.
LEMMA TableIsAdded ==
  ASSUME TypeOK, Connected
  PROVE  Table \subseteq added /\ Table = {conn_metas[i] : i \in 1 .. Len(conn_metas)}
<1>1. DOMAIN conn_metas = 1 .. Len(conn_metas)
  BY DEF TypeOK, TableOK
<1> QED BY <1>1, Zenon DEF Connected, TableOnce, Table, Range

\* A notification that is about a message does not concern the connections.
LEMMA MessageNotified ==
  ASSUME TypeOK, Connected, setup' = setup,
         UNCHANGED <<added, leaving, conn_metas>>,
         \/ UNCHANGED notification_queue
         \/ \E m \in Msgs : \/ notification_queue' = Append(notification_queue, Stop(m))
                            \/ notification_queue' = Append(notification_queue, Req(m))
  PROVE  Connected'
<1>1. Peers' = Peers /\ Table' = Table
  BY SameSetup, Zenon DEF Table
<1>2. TableOnce'
  BY Zenon DEF Connected, TableOnce
<1>3. CASE UNCHANGED notification_queue
  BY <1>1, <1>2, <1>3 DEF Connected, AddOnce, RemOnce, Waiting
<1>4. ASSUME NEW e \in Notification, notification_queue' = Append(notification_queue, e),
             \A d : e # Add(d) /\ e # Rem(d)
      PROVE  Connected'
  <2> DEFINE n == Len(notification_queue)
  <2>1. /\ n \in Nat /\ Len(notification_queue') = n + 1 /\ notification_queue'[n + 1] = e
        /\ \A i \in 1 .. n : notification_queue'[i] = notification_queue[i]
        /\ \A i \in 1 .. n + 1 : i \in 1 .. n \/ i = n + 1
    BY <1>4, Appended DEF TypeOK, UserOK
  <2> HIDE DEF n
  <2>2. AddOnce'
    BY <1>1, <1>4, <2>1 DEF Connected, AddOnce, n
  <2>3. RemOnce'
    BY <1>1, <1>4, <2>1 DEF Connected, RemOnce, n
  <2>4. Waiting'
    BY <1>1, <1>4, <2>1 DEF Connected, Waiting, n
  <2> QED BY <1>2, <2>2, <2>3, <2>4, Zenon DEF Connected
<1> QED BY <1>3, <1>4, NotificationTypes, NotificationsDiffer, Zenon

\* The user adds a connection.
LEMMA AddConnected ==
  ASSUME TypeOK, Connected, \E d \in Peers : AddConnection(d), UNCHANGED <<setup, conn_metas>>
  PROVE  Connected'
<1>1. Peers' = Peers /\ Table' = Table
  BY SameSetup, Zenon DEF Table
<1>2. PICK d \in Peers \ added :
        /\ added' = added \cup {d}
        /\ notification_queue' = Append(notification_queue, Add(d))
        /\ UNCHANGED leaving
  BY AddEffect, Zenon
<1> DEFINE n == Len(notification_queue)
<1>3. /\ n \in Nat /\ Len(notification_queue') = n + 1 /\ notification_queue'[n + 1] = Add(d)
      /\ \A i \in 1 .. n : notification_queue'[i] = notification_queue[i]
      /\ \A i \in 1 .. n + 1 : i \in 1 .. n \/ i = n + 1
      /\ n + 1 \in 1 .. n + 1 /\ \A i \in 1 .. n : i \in 1 .. n + 1
  BY <1>2, Appended, NotificationTypes DEF TypeOK, UserOK
<1>4. TableOnce'
  BY <1>2, Zenon DEF Connected, TableOnce
<1> HIDE DEF n
<1>5. AddOnce'
  <2>1. \A x \in Peers : Add(x) = Add(d) => x = d
    BY NotificationsDiffer, Zenon
  <2> QED BY <1>1, <1>2, <1>3, <2>1, TableIsAdded DEF Connected, AddOnce, n
<1>6. RemOnce'
  <2>1. \A x \in Peers : Add(d) # Rem(x)
    BY NotificationsDiffer, Zenon
  <2> QED BY <1>1, <1>2, <1>3, <2>1 DEF Connected, RemOnce, n
<1>7. Waiting'
  BY <1>1, <1>2, <1>3 DEF Connected, Waiting, n
<1> QED BY <1>4, <1>5, <1>6, <1>7, Zenon DEF Connected

\* The user removes a connection.
LEMMA RemoveConnected ==
  ASSUME TypeOK, Connected, NEW d \in Peers, RemoveConnection(d), UNCHANGED <<setup, conn_metas>>
  PROVE  Connected'
<1>1. Peers' = Peers /\ Table' = Table
  BY SameSetup, Zenon DEF Table
<1>2. /\ added = Peers /\ d \notin leaving /\ leaving' = leaving \cup {d}
      /\ notification_queue' = Append(notification_queue, Rem(d))
      /\ UNCHANGED added
  BY Zenon DEF RemoveConnection, Notify, Rem
<1> DEFINE n == Len(notification_queue)
<1>3. /\ n \in Nat /\ Len(notification_queue') = n + 1 /\ notification_queue'[n + 1] = Rem(d)
      /\ \A i \in 1 .. n : notification_queue'[i] = notification_queue[i]
      /\ \A i \in 1 .. n + 1 : i \in 1 .. n \/ i = n + 1
      /\ n + 1 \in 1 .. n + 1 /\ \A i \in 1 .. n : i \in 1 .. n + 1
      /\ 1 .. (n + 1) - 1 = 1 .. n
  BY <1>2, Appended, NotificationTypes DEF TypeOK, UserOK
<1>4. TableOnce'
  BY <1>2, Zenon DEF Connected, TableOnce
<1> HIDE DEF n
<1>5. AddOnce'
  <2>1. \A x \in Peers : Add(x) # Rem(d)
    BY NotificationsDiffer, Zenon
  <2>2. Len(notification_queue') = n + 1
    BY <1>3, Zenon
  <2> SUFFICES ASSUME NEW i \in 1 .. n + 1, NEW x \in Peers, notification_queue'[i] = Add(x)
               PROVE  /\ x \in added' /\ x \notin Table'
                      /\ \A j \in 1 .. n + 1 : notification_queue'[j] = Add(x) => i = j
    BY <1>1, <2>2, Zenon DEF AddOnce
  <2>3. \A j \in 1 .. n + 1 : notification_queue'[j] = Add(x)
                              => j \in 1 .. n /\ notification_queue[j] = Add(x)
    BY <1>3, <2>1, Zenon
  <2>4. /\ x \in added /\ x \notin Table
        /\ \A j \in 1 .. n : notification_queue[j] = Add(x) => i = j
    BY <2>3, Zenon DEF Connected, AddOnce, n
  <2> QED BY <1>1, <1>2, <2>3, <2>4, Zenon
<1>6. RemOnce'
  <2>0. Len(notification_queue') = n + 1
    BY <1>3, Zenon
  <2> SUFFICES ASSUME NEW i \in 1 .. n + 1, NEW x \in Peers, notification_queue'[i] = Rem(x)
               PROVE  /\ x \in leaving'
                      /\ x \in Table \/ \E j \in 1 .. i - 1 : notification_queue'[j] = Add(x)
                      /\ \A j \in 1 .. n + 1 : notification_queue'[j] = Rem(x) => i = j
    BY <1>1, <2>0 DEF RemOnce
  <2>1. Rem(x) = Rem(d) => x = d
    BY NotificationsDiffer, Zenon
  <2>2. CASE i \in 1 .. n
    <3>1. /\ x \in leaving
          /\ x \in Table \/ \E j \in 1 .. i - 1 : notification_queue[j] = Add(x)
          /\ \A j \in 1 .. n : notification_queue[j] = Rem(x) => i = j
      BY <1>3, <2>2 DEF Connected, RemOnce, n
    <3>2. \A j \in 1 .. i - 1 : j \in 1 .. n
      BY <1>3, <2>2
    <3> QED BY <1>2, <1>3, <2>1, <2>2, <3>1, <3>2, Zenon
  <2>3. CASE i = n + 1
    <3>1. x = d
      BY <1>3, <2>1, <2>3, Zenon
    <3>2. d \in Table \/ \E j \in 1 .. n : notification_queue[j] = Add(d)
      BY <1>2, Zenon DEF Connected, Waiting, n
    <3>3. \A j \in 1 .. n : notification_queue[j] # Rem(d)
      BY <1>2, Zenon DEF Connected, RemOnce, n
    <3> QED BY <1>2, <1>3, <2>3, <3>1, <3>2, <3>3, Zenon
  <2> QED BY <1>3, <2>2, <2>3, Zenon
<1>7. Waiting'
  BY <1>1, <1>2, <1>3 DEF Connected, Waiting, n
<1> QED BY <1>4, <1>5, <1>6, <1>7, Zenon DEF Connected

\* The thread adds a connection to the table or removes one.
LEMMA NotificationConnected ==
  ASSUME TypeOK, Connected, PollNotification, setup' = setup
  PROVE  Connected'
<1>1. Peers' = Peers /\ UNCHANGED <<added, leaving>>
  BY SameSetup, Zenon DEF PollNotification
<1>2. CASE notification_queue = <<>>
  <2>1. UNCHANGED <<notification_queue, conn_metas>>
    BY <1>2, Zenon DEF PollNotification, table
  <2> QED BY <1>1, <2>1, MessageNotified, Zenon
<1>3. CASE notification_queue # <<>>
  <2> DEFINE n == Len(notification_queue)
             e == Head(notification_queue)
  <2>1. /\ n \in Nat \ {0} /\ Len(notification_queue') = n - 1 /\ notification_queue[1] = e
        /\ 1 \in 1 .. n
        /\ \A i \in 1 .. n - 1 : /\ notification_queue'[i] = notification_queue[i + 1]
                                 /\ i + 1 \in 1 .. n /\ i + 1 # 1
        /\ \A i \in 1 .. n : \/ i = 1
                             \/ /\ i - 1 \in 1 .. n - 1
                                /\ notification_queue'[i - 1] = notification_queue[i]
    <3>1. notification_queue' = Tail(notification_queue) /\ notification_queue \in Seq(Notification)
      BY <1>3, PollCases, Zenon DEF TypeOK, UserOK
    <3> QED BY <1>3, <3>1, WithoutHead
  <2> HIDE DEF n, e
  <2>3. ASSUME NEW T, Table' = T, TableOnce',
               \A d \in Peers : e = Add(d) => T = Table \cup {d},
               \A d \in Peers : e = Rem(d) => T = Table \ {d} /\ d \in leaving,
               (\A d \in Peers : e # Add(d) /\ e # Rem(d)) => T = Table,
               \E d : e = Add(d) \/ e = Rem(d) \/ e = Stop(d) \/ e = Req(d),
               \A d : e = Add(d) \/ e = Rem(d) => d \in Peers
        PROVE  Connected'
    <3>1. \A d \in Peers : (d \in T <=> (d \in Table \/ e = Add(d)) /\ e # Rem(d))
      BY <2>3, NotificationsDiffer
    <3>0. Table' = T /\ Len(notification_queue') = n - 1
      BY <2>1, <2>3, Zenon
    <3>2. AddOnce'
      <4> SUFFICES ASSUME NEW i \in 1 .. n - 1, NEW d \in Peers, notification_queue'[i] = Add(d)
                   PROVE  /\ d \in added /\ d \notin T
                          /\ \A j \in 1 .. n - 1 : notification_queue'[j] = Add(d) => i = j
        BY <1>1, <3>0 DEF AddOnce
      <4>1. /\ d \in added /\ d \notin Table
            /\ \A j \in 1 .. n : notification_queue[j] = Add(d) => i + 1 = j
        <5>1. i + 1 \in 1 .. n /\ notification_queue[i + 1] = Add(d)
          BY <2>1, Zenon
        <5> QED BY <5>1, Zenon DEF Connected, AddOnce, n
      <4>2. e # Add(d)
        BY <2>1, <4>1, Zenon
      <4>3. ASSUME NEW j \in 1 .. n - 1, notification_queue'[j] = Add(d)
            PROVE  i = j
        <5>1. i + 1 = j + 1
          <6>1. notification_queue[j + 1] = notification_queue'[j] /\ j + 1 \in 1 .. n
            BY <2>1, Zenon
          <6> QED BY <4>1, <4>3, <6>1, Zenon
        <5> QED BY <5>1
      <4> QED BY <3>1, <4>1, <4>2, <4>3, Zenon
    <3>3. RemOnce'
      <4> SUFFICES ASSUME NEW i \in 1 .. n - 1, NEW d \in Peers, notification_queue'[i] = Rem(d)
                   PROVE  /\ d \in leaving
                          /\ d \in T \/ \E j \in 1 .. i - 1 : notification_queue'[j] = Add(d)
                          /\ \A j \in 1 .. n - 1 : notification_queue'[j] = Rem(d) => i = j
        BY <1>1, <3>0 DEF RemOnce
      <4>1. /\ d \in leaving
            /\ d \in Table \/ \E j \in 1 .. (i + 1) - 1 : notification_queue[j] = Add(d)
            /\ \A j \in 1 .. n : notification_queue[j] = Rem(d) => i + 1 = j
        <5>1. i + 1 \in 1 .. n /\ notification_queue[i + 1] = Rem(d)
          BY <2>1, Zenon
        <5> QED BY <5>1, Zenon DEF Connected, RemOnce, n
      <4>2. e # Rem(d)
        BY <2>1, <4>1, Zenon
      <4>3. ASSUME NEW j \in 1 .. n - 1, notification_queue'[j] = Rem(d)
            PROVE  i = j
        <5>1. i + 1 = j + 1
          <6>1. notification_queue[j + 1] = notification_queue'[j] /\ j + 1 \in 1 .. n
            BY <2>1, Zenon
          <6> QED BY <4>1, <4>3, <6>1, Zenon
        <5> QED BY <5>1
      <4>4. ASSUME NEW j \in 1 .. (i + 1) - 1, notification_queue[j] = Add(d)
            PROVE  d \in T \/ \E k \in 1 .. i - 1 : notification_queue'[k] = Add(d)
        <5>1. CASE j = 1
          BY <2>1, <3>1, <4>2, <4>4, <5>1, Zenon
        <5>2. CASE j # 1
          <6>1. j \in 1 .. n /\ j - 1 \in 1 .. i - 1
            BY <2>1, <5>2
          <6> QED BY <2>1, <4>4, <5>2, <6>1, Zenon
        <5> QED BY <5>1, <5>2, Zenon
      <4> QED BY <3>1, <4>1, <4>2, <4>3, <4>4, Zenon
    <3>4. Waiting'
      <4> SUFFICES ASSUME NEW d \in added \ leaving
                   PROVE  d \in T \/ \E j \in 1 .. n - 1 : notification_queue'[j] = Add(d)
        BY <1>1, <3>0, Zenon DEF Waiting
      <4>1. d \in Table \/ \E j \in 1 .. n : notification_queue[j] = Add(d)
        BY Zenon DEF Connected, Waiting, n
      <4>2. d \in Peers /\ e # Rem(d)
        BY <2>3, Zenon DEF TypeOK, UserOK
      <4> QED BY <2>1, <3>1, <4>1, <4>2, Zenon
    <3> QED BY <2>3, <3>2, <3>3, <3>4, Zenon DEF Connected
  <2>4. ASSUME NEW d \in Peers, e = Add(d), AddToTable(d)
        PROVE  Connected'
    <3>1. d \notin Table /\ d \in added
      BY <1>3, <2>4, HeadConnection, Zenon DEF e
    <3>2. conn_metas' = Append(conn_metas, d) /\ Table' = Table \cup {d}
      BY <2>4, AddToTableEffect, Zenon
    <3>3. TableOnce'
      <4>1. /\ Len(conn_metas) \in Nat /\ Len(conn_metas') = Len(conn_metas) + 1
            /\ conn_metas'[Len(conn_metas) + 1] = d
            /\ \A i \in 1 .. Len(conn_metas) : conn_metas'[i] = conn_metas[i]
            /\ \A i \in 1 .. Len(conn_metas) + 1 : i \in 1 .. Len(conn_metas) \/ i = Len(conn_metas) + 1
        BY <3>2, Appended DEF TypeOK, TableOK
      <4>2. \A i \in 1 .. Len(conn_metas) : conn_metas[i] # d
        BY <3>1, TableIsAdded, Zenon
      <4>3. \A i, j \in 1 .. Len(conn_metas) + 1 : conn_metas'[i] = conn_metas'[j] => i = j
        BY <4>1, <4>2, Zenon DEF Connected, TableOnce
      <4>4. \A i \in 1 .. Len(conn_metas) + 1 : conn_metas'[i] \in added
        BY <3>1, <4>1, Zenon DEF Connected, TableOnce
      <4> QED BY <1>1, <4>1, <4>3, <4>4, Zenon DEF TableOnce
    <3> QED BY <2>3, <2>4, <3>2, <3>3, NotificationsDiffer, Zenon
  <2>5. ASSUME NEW d \in Peers, e = Rem(d), RemoveFromTable(d)
        PROVE  Connected'
    <3>1. d \in Table /\ d \in leaving
      BY <1>3, <2>5, HeadConnection, Zenon DEF e
    <3>2. Table' = Table \ {d}
      BY <2>5, <3>1, RemoveEffect, Zenon
    <3>3. TableOnce'
      <4>1. PICK f \in 1 .. Len(conn_metas) :
              \A k \in 1 .. Len(conn_metas) - 1 :
                   conn_metas'[k] = IF k < f THEN conn_metas[k] ELSE conn_metas[k + 1]
        BY <2>5, <3>1, RemoveEffect, Zenon
      <4>2. Len(conn_metas') = Len(conn_metas) - 1 /\ Len(conn_metas) \in Nat
        <5>1. Len(conn_metas') = Len(conn_metas) - 1
          BY <2>5, <3>1, RemoveEffect, Zenon
        <5> QED BY <5>1 DEF TypeOK, TableOK
      <4>3. \A k \in 1 .. Len(conn_metas) - 1 :
              k \in 1 .. Len(conn_metas) /\ k + 1 \in 1 .. Len(conn_metas)
        BY <4>2
      <4>4. \A i, j \in 1 .. Len(conn_metas) - 1 : conn_metas'[i] = conn_metas'[j] => i = j
        <5> DEFINE g(k) == IF k < f THEN k ELSE k + 1
        <5> SUFFICES ASSUME NEW i \in 1 .. Len(conn_metas) - 1, NEW j \in 1 .. Len(conn_metas) - 1,
                            conn_metas'[i] = conn_metas'[j]
                     PROVE  i = j
          BY Zenon
        <5>1. \A k \in 1 .. Len(conn_metas) - 1 :
                conn_metas'[k] = conn_metas[g(k)] /\ g(k) \in 1 .. Len(conn_metas)
          BY <4>1, <4>3, Zenon
        <5>2. g(i) = g(j)
          <6> HIDE DEF g
          <6> QED BY <5>1 DEF Connected, TableOnce
        <5> QED BY <4>2, <5>2
      <4>5. \A i \in 1 .. Len(conn_metas) - 1 : conn_metas'[i] \in added
        BY <4>1, <4>3, Zenon DEF Connected, TableOnce
      <4> QED BY <1>1, <4>2, <4>4, <4>5, Zenon DEF TableOnce
    <3> QED BY <2>3, <2>5, <3>1, <3>2, <3>3, NotificationsDiffer
  <2>6. ASSUME NEW m \in Msgs, e = Stop(m) \/ e = Req(m), UNCHANGED conn_metas
        PROVE  Connected'
    <3>1. Table' = Table /\ TableOnce'
      BY <1>1, <2>6, Zenon DEF Table, Connected, TableOnce
    <3> QED BY <2>3, <2>6, <3>1, NotificationsDiffer, Zenon
  <2> QED BY <1>3, <2>4, <2>5, <2>6, PollCases, StopEffect, RequestEffect, Zenon DEF e, Lookup
<1> QED BY <1>2, <1>3, Zenon

\* Only the user and the notifications change the connections.
LEMMA StepConnected ==
  ASSUME TypeOK, Connected, [Next]_vars
  PROVE  Connected'
<1>1. ASSUME UNCHANGED <<setup, added, leaving, conn_metas, notification_queue>>
      PROVE  Connected'
  BY <1>1, MessageNotified, Zenon
<1>2. CASE User
  <2>1. UNCHANGED <<setup, conn_metas>>
    BY <1>2, Zenon DEF User, table
  <2>2. ASSUME NEW m \in Msgs, PostSend(m) PROVE Connected'
    BY <1>1, <2>1, <2>2, Zenon DEF PostSend
  <2> QED BY <1>2, <2>1, <2>2, AddConnected, RemoveConnected, Zenon DEF User
<1>3. CASE Run
  <2>1. CASE PopSendRequest
    <3>1. UNCHANGED conn_metas
      BY <2>1, Zenon DEF PopSendRequest, Lookup, table
    <3> QED BY <1>1, <1>3, <2>1, <3>1, Zenon DEF PopSendRequest, Run
  <2>2. CASE PollSendingMessages
    BY <1>1, <1>3, <2>2, Zenon DEF PollSendingMessages, Run, user, table
  <2>3. CASE PollRetransmitRequest
    BY <1>1, <1>3, <2>3, Zenon DEF PollRetransmitRequest, Run, user, table
  <2> QED BY <1>3, <2>1, <2>2, <2>3, NotificationConnected, Zenon DEF Run
<1>4. ASSUME NEW d \in Peers, HandleReceivedData(d)
      PROVE  Connected'
  <2>1. /\ UNCHANGED <<setup, user, table>>
        /\ \/ UNCHANGED notification_queue
           \/ \E m \in Msgs : \/ notification_queue' = Append(notification_queue, Stop(m))
                              \/ notification_queue' = Append(notification_queue, Req(m))
    BY <1>4, SignalCases, Zenon
  <2> QED BY <2>1, MessageNotified, Zenon DEF user, table
<1>5. CASE Remote
  BY <1>1, <1>5, Zenon DEF Remote, user, table
<1>6. CASE Tick
  BY <1>1, <1>6, Zenon DEF Tick, user, table
<1>7. CASE UNCHANGED vars
  BY <1>1, <1>7, Zenon DEF vars, user, table
<1> QED BY <1>2, <1>3, <1>4, <1>5, <1>6, <1>7, Zenon DEF Next

\* Nobody is connected at first.
LEMMA InitConnected ==
  ASSUME Init
  PROVE  TypeOK /\ Connected
<1>1. TypeOK
  BY InitTypes, Zenon
<1>2. /\ added = {} /\ leaving = {} /\ notification_queue = <<>> /\ conn_metas = <<>>
      /\ conn = [d \in Peers |-> NewConn] /\ net = [d \in Peers |-> <<>>]
      /\ signals = [d \in Peers |-> <<>>] /\ rx_meter = [d \in Peers |-> Cleared]
      /\ record = [d \in Peers |-> [age |-> 0, peak |-> InitialSendingRate, first |-> 0]]
  BY Zenon DEF Init, Peers, InitialSendingRate
<1>3. Connected
  <2>1. Len(notification_queue) = 0 /\ Len(conn_metas) = 0 /\ 1 .. 0 = {}
    BY <1>2
  <2> QED BY <1>2, <2>1, Zenon DEF Connected, TableOnce, AddOnce, RemOnce, Waiting
<1> QED BY <1>1, <1>3, Zenon
=============================================================================

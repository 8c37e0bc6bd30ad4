----------------------- MODULE PriorityChannelProofs ------------------------
(***************************************************************************)
(* Messages are filed right in a PriorityChannel, for any peers, messages  *)
(* and sizes, whatever the interleaving of the user, the thread, the       *)
(* signals, the peers and the clock: each is in one place, the signals     *)
(* about it come in order, it is with its connection, and no CHECK of the  *)
(* thread fails.  With eight priorities every packet has an endpoint.      *)
(***************************************************************************)
EXTENDS PriorityChannelSteps

(***************************************************************************)
(* Queues: what one holds, whether it holds something twice, and whether   *)
(* it never holds req after stop.                                          *)
(***************************************************************************)
Holds(q, e) == \E i \in 1 .. Len(q) : q[i] = e
NoRepeat(q) == \A i, j \in 1 .. Len(q) : q[i] = q[j] => i = j
NoneAfter(q, stop, req) ==
  \A i \in 1 .. Len(q) : q[i] = stop => \A j \in i + 1 .. Len(q) : q[j] # req

(***************************************************************************)
(* Messages.  Each is in sr_queue_, then in sending, then in               *)
(* retransmitting, of one connection.                                      *)
(***************************************************************************)
InConn(d) == conn[d].sending \cup conn[d].retransmitting

Unique ==
  /\ NoRepeat(sr_queue)
  /\ \A m \in Msgs : Holds(sr_queue, m) => m \in posted /\ \A d \in Peers : m \notin InConn(d)
  /\ \A d \in Peers : /\ InConn(d) \subseteq posted
                      /\ conn[d].sending \cap conn[d].retransmitting = {}

-----------------------------------------------------------------------------
(***************************************************************************)
(* The messages: each is in one place.                                     *)
(***************************************************************************)
\* What a queue holds when something is appended to it.
LEMMA HoldsAppended ==
  ASSUME NEW S, NEW q \in Seq(S), NEW e \in S, NEW x
  PROVE  Holds(Append(q, e), x) <=> Holds(q, x) \/ x = e
<1> DEFINE n == Len(q)
<1>1. /\ Len(Append(q, e)) = n + 1 /\ Append(q, e)[n + 1] = e
      /\ \A i \in 1 .. n : Append(q, e)[i] = q[i] /\ i \in 1 .. n + 1
      /\ n + 1 \in 1 .. n + 1 /\ \A i \in 1 .. n + 1 : i \in 1 .. n \/ i = n + 1
  BY Appended
<1> QED BY <1>1, Zenon DEF Holds

\* What a queue holds when its head has been taken.
LEMMA HoldsTail ==
  ASSUME NEW S, NEW q \in Seq(S), q # <<>>, NEW x
  PROVE  /\ Holds(Tail(q), x) => Holds(q, x)
         /\ Holds(q, x) => x = Head(q) \/ Holds(Tail(q), x)
         /\ Holds(q, Head(q))
<1> DEFINE n == Len(q)
<1>1. /\ Len(Tail(q)) = n - 1 /\ q[1] = Head(q) /\ 1 \in 1 .. n
      /\ \A i \in 1 .. n - 1 : Tail(q)[i] = q[i + 1] /\ i + 1 \in 1 .. n
      /\ \A i \in 1 .. n : i = 1 \/ (i - 1 \in 1 .. n - 1 /\ Tail(q)[i - 1] = q[i])
  BY WithoutHead
<1> QED BY <1>1, Zenon DEF Holds

\* A queue without repetition.
LEMMA NoRepeats ==
  ASSUME NEW S, NEW q \in Seq(S), NoRepeat(q)
  PROVE  /\ \A e \in S : ~Holds(q, e) => NoRepeat(Append(q, e))
         /\ q # <<>> => NoRepeat(Tail(q)) /\ ~Holds(Tail(q), Head(q))
<1>1. ASSUME NEW e \in S, ~Holds(q, e)
      PROVE  NoRepeat(Append(q, e))
  <2> SUFFICES ASSUME NEW i \in 1 .. Len(Append(q, e)), NEW j \in 1 .. Len(Append(q, e)),
                      Append(q, e)[i] = Append(q, e)[j]
               PROVE  i = j
    BY Zenon DEF NoRepeat
  <2>1. \A k \in 1 .. Len(q) : q[k] # e
    BY <1>1, Zenon DEF Holds
  <2> QED BY <2>1, Appended DEF NoRepeat
<1>2. ASSUME q # <<>>
      PROVE  NoRepeat(Tail(q)) /\ ~Holds(Tail(q), Head(q))
  BY <1>2, WithoutHead DEF NoRepeat, Holds
<1> QED BY <1>1, <1>2, Zenon

\* The order of a queue.
LEMMA NoneAfterAppended ==
  ASSUME NEW S, NEW q \in Seq(S), NEW e \in S, NEW stop, NEW req, NoneAfter(q, stop, req),
         e # req \/ ~Holds(q, stop)
  PROVE  NoneAfter(Append(q, e), stop, req)
<1> SUFFICES ASSUME NEW i \in 1 .. Len(Append(q, e)), Append(q, e)[i] = stop,
                    NEW j \in i + 1 .. Len(Append(q, e)), Append(q, e)[j] = req
             PROVE  FALSE
  BY Zenon DEF NoneAfter
<1>1. i \in 1 .. Len(q) /\ q[i] = stop /\ (j = Len(q) + 1 \/ (j \in i + 1 .. Len(q) /\ j \in 1 .. Len(q)))
  BY Appended
<1> QED BY <1>1, Appended DEF NoneAfter, Holds

\* The order of a queue whose head has been taken.
LEMMA NoneAfterTail ==
  ASSUME NEW S, NEW q \in Seq(S), q # <<>>, NEW stop, NEW req, NoneAfter(q, stop, req)
  PROVE  /\ NoneAfter(Tail(q), stop, req)
         /\ Head(q) = stop => ~Holds(Tail(q), req)
<1>1. NoneAfter(Tail(q), stop, req)
  <2> SUFFICES ASSUME NEW i \in 1 .. Len(Tail(q)), Tail(q)[i] = stop,
                      NEW j \in i + 1 .. Len(Tail(q)), Tail(q)[j] = req
               PROVE  FALSE
    BY Zenon DEF NoneAfter
  <2>1. i + 1 \in 1 .. Len(q) /\ q[i + 1] = stop /\ j + 1 \in (i + 1) + 1 .. Len(q) /\ q[j + 1] = req
    BY WithoutHead
  <2> QED BY <2>1, Zenon DEF NoneAfter
<1>2. ASSUME Head(q) = stop, NEW j \in 1 .. Len(Tail(q)), Tail(q)[j] = req
      PROVE  FALSE
  <2>1. 1 \in 1 .. Len(q) /\ q[1] = stop /\ j + 1 \in 1 + 1 .. Len(q) /\ q[j + 1] = req
    BY <1>2, WithoutHead
  <2> QED BY <2>1, Zenon DEF NoneAfter
<1> QED BY <1>1, <1>2, Zenon DEF Holds

\* A step that takes nothing from sr_queue_ and gives no connection a message.
LEMMA SameMessages ==
  ASSUME Unique, UNCHANGED <<setup, posted, sr_queue>>,
         \A d \in Peers : /\ conn'[d].sending \cup conn'[d].retransmitting \subseteq InConn(d)
                          /\ conn'[d].sending \cap conn'[d].retransmitting = {}
  PROVE  Unique'
<1>1. Peers' = Peers /\ Msgs' = Msgs
  BY SameSetup, Zenon
<1>2. \A d \in Peers : InConn(d)' \subseteq InConn(d)
  BY Zenon DEF InConn
<1>3. NoRepeat(sr_queue)' /\ \A m \in Msgs : Holds(sr_queue, m)' => Holds(sr_queue, m)
  BY Zenon DEF Unique, NoRepeat, Holds
<1> QED BY <1>1, <1>2, <1>3, Zenon DEF Unique

\* Nothing happens to the messages of a connection: what SameMessages needs.
LEMMA SameConn ==
  ASSUME Unique, NEW d \in Peers, conn'[d].sending = conn[d].sending,
         conn'[d].retransmitting = conn[d].retransmitting
  PROVE  /\ conn'[d].sending \cup conn'[d].retransmitting \subseteq InConn(d)
         /\ conn'[d].sending \cap conn'[d].retransmitting = {}
  BY Zenon DEF Unique, InConn

\* A message is posted once.
LEMMA UserUnique ==
  ASSUME TypeOK, Unique, User
  PROVE  Unique'
<1>1. UNCHANGED <<setup, conn>>
  BY Zenon DEF User
<1>2. Peers' = Peers /\ Msgs' = Msgs
  BY <1>1, SameSetup, Zenon
<1>3. ASSUME NEW m \in Msgs, PostSend(m)
      PROVE  Unique'
  <2>1. /\ m \notin posted /\ posted' = posted \cup {m} /\ sr_queue' = Append(sr_queue, m)
        /\ sr_queue \in Seq(Msgs)
    BY <1>3, Zenon DEF PostSend, TypeOK, UserOK
  <2>2. ~Holds(sr_queue, m) /\ \A d \in Peers : m \notin InConn(d) /\ InConn(d)' = InConn(d)
    BY <1>1, <2>1, Zenon DEF Unique, InConn
  <2>3. NoRepeat(sr_queue')
    BY <2>1, <2>2, NoRepeats, Zenon DEF Unique
  <2>4. \A x \in Msgs : Holds(sr_queue', x) <=> Holds(sr_queue, x) \/ x = m
    BY <2>1, HoldsAppended, Zenon
  <2>5. \A x \in Msgs : Holds(sr_queue', x) =>
                          x \in posted' /\ \A d \in Peers : x \notin InConn(d)'
    BY <2>1, <2>2, <2>4, Zenon DEF Unique
  <2>6. \A d \in Peers : InConn(d)' \subseteq posted'
                         /\ conn'[d].sending \cap conn'[d].retransmitting = {}
    BY <1>1, <2>1, <2>2, Zenon DEF Unique
  <2> QED BY <1>2, <2>3, <2>5, <2>6, Zenon DEF Unique
<1>4. CASE UNCHANGED <<posted, sr_queue>>
  BY <1>1, <1>4, SameConn, SameMessages, Zenon
<1> QED BY <1>3, <1>4, Zenon DEF User, AddConnection, RemoveConnection

\* A message leaves sr_queue_ for one connection.
LEMMA PopUnique ==
  ASSUME TypeOK, Unique, PopSendRequest, setup' = setup
  PROVE  Unique'
<1>1. CASE sr_queue = <<>>
  <2>1. UNCHANGED <<posted, sr_queue, conn>>
    BY <1>1, Zenon DEF PopSendRequest
  <2> QED BY <2>1, SameConn, SameMessages, Zenon
<1>2. CASE sr_queue # <<>>
  <2> DEFINE m == Head(sr_queue)  c == FindConnMetaById(Dest(m))
  <2>1. /\ m \in Msgs /\ sr_queue' = Tail(sr_queue) /\ sr_queue \in Seq(Msgs)
        /\ posted' = posted
        /\ \/ /\ c \in Peers
              /\ OnlyAt(c, conn[c].sending \cup {m}, conn[c].retransmitting, conn[c].reqs)
           \/ conn' = conn
    BY <1>2, PopEffect, Zenon DEF PopSendRequest, TypeOK, UserOK
  <2>2. Peers' = Peers /\ Msgs' = Msgs
    BY SameSetup, Zenon
  <2>3. /\ NoRepeat(sr_queue') /\ ~Holds(sr_queue', m) /\ Holds(sr_queue, m)
        /\ \A x \in Msgs : Holds(sr_queue', x) => Holds(sr_queue, x)
    BY <1>2, <2>1, NoRepeats, HoldsTail, Zenon DEF Unique
  <2> HIDE DEF m, c
  <2>4. m \in posted /\ \A d \in Peers : m \notin InConn(d)
    BY <2>1, <2>3, Zenon DEF Unique
  <2>5. ASSUME NEW d \in Peers
        PROVE  /\ InConn(d)' \subseteq InConn(d) \cup {m}
               /\ conn'[d].sending \cap conn'[d].retransmitting = {}
    BY <2>1, <2>4 DEF InConn, OnlyAt, Unique
  <2>6. \A x \in Msgs : Holds(sr_queue', x) =>
                          x \in posted' /\ \A d \in Peers : x \notin InConn(d)'
    BY <2>1, <2>3, <2>5, Zenon DEF Unique
  <2>7. \A d \in Peers : InConn(d)' \subseteq posted'
    BY <2>1, <2>4, <2>5, Zenon DEF Unique
  <2> QED BY <2>2, <2>3, <2>5, <2>6, <2>7, Zenon DEF Unique
<1> QED BY <1>1, <1>2, Zenon

\* A notification takes a message from a connection, or none.
LEMMA NotificationMessages ==
  ASSUME TypeOK, Unique, PollNotification, NEW d \in Peers
  PROVE  /\ conn'[d].sending \cup conn'[d].retransmitting \subseteq InConn(d)
         /\ conn'[d].sending \cap conn'[d].retransmitting = {}
<1>1. CASE conn' = conn
  BY <1>1, SameConn, Zenon
<1>2. ASSUME NEW m \in Msgs, StopFlow(m)
      PROVE  /\ conn'[d].sending \subseteq conn[d].sending
             /\ conn'[d].retransmitting \subseteq conn[d].retransmitting
  BY <1>2, StopEffect, Zenon DEF OnlyAt
<1>3. ASSUME NEW m \in Msgs, RequestRetransmit(m)
      PROVE  /\ conn'[d].sending \subseteq conn[d].sending
             /\ conn'[d].retransmitting \subseteq conn[d].retransmitting
  BY <1>3, RequestEffect, Zenon DEF OnlyAt
<1>4. CASE /\ conn'[d].sending \subseteq conn[d].sending
           /\ conn'[d].retransmitting \subseteq conn[d].retransmitting
  BY <1>4, Zenon DEF InConn, Unique
<1>5. CASE notification_queue = <<>>
  BY <1>1, <1>5, Zenon DEF PollNotification
<1>6. CASE notification_queue # <<>>
  BY <1>1, <1>2, <1>3, <1>4, <1>6, PollCases, Zenon
<1> QED BY <1>5, <1>6, Zenon

\* Every step leaves every message in at most one place.
LEMMA StepUnique ==
  ASSUME LeastElements, TypeOK, Unique, [Next]_vars
  PROVE  Unique'
<1>1. CASE User
  BY <1>1, UserUnique, Zenon
<1>2. CASE Run
  <2>0. setup' = setup
    BY <1>2, Zenon DEF Run
  <2>1. CASE PopSendRequest
    BY <2>0, <2>1, PopUnique, Zenon
  <2>2. CASE PollSendingMessages
    <3>1. ASSUME NEW d \in Peers
          PROVE  /\ conn'[d].sending \cup conn'[d].retransmitting \subseteq InConn(d)
                 /\ conn'[d].sending \cap conn'[d].retransmitting = {}
      <4>1. CASE conn'[d] = conn[d]
        BY <4>1, SameConn, Zenon
      <4>2. CASE \E m \in Msgs, n \in Int : SendsFirst(d, m, n)
        BY <4>2, Zenon DEF SendsFirst, InConn, Unique
      <4> QED BY <2>2, <4>1, <4>2, SendEffect, Zenon
    <3>2. UNCHANGED <<posted, sr_queue>>
      BY <2>2, Zenon DEF PollSendingMessages, user
    <3> QED BY <2>0, <3>1, <3>2, SameMessages, Zenon
  <2>3. CASE PollRetransmitRequest
    <3>1. \A d \in Peers : /\ conn'[d].sending = conn[d].sending
                           /\ conn'[d].retransmitting = conn[d].retransmitting
      BY <2>3, RetransmitEffect, Zenon DEF SendsAgain
    <3>2. UNCHANGED <<posted, sr_queue>>
      BY <2>3, Zenon DEF PollRetransmitRequest, user
    <3> QED BY <2>0, <3>1, <3>2, SameConn, SameMessages, Zenon
  <2>4. CASE PollNotification
    <3>1. UNCHANGED <<posted, sr_queue>>
      BY <2>4, Zenon DEF PollNotification
    <3> QED BY <2>0, <2>4, <3>1, NotificationMessages, SameMessages, Zenon
  <2> QED BY <1>2, <2>1, <2>2, <2>3, <2>4, Zenon DEF Run
<1>3. ASSUME NEW d \in Peers, HandleReceivedData(d)
      PROVE  Unique'
  <2>1. UNCHANGED <<setup, posted, sr_queue>>
    BY <1>3, Zenon DEF HandleReceivedData, user
  <2>2. \A c \in Peers : /\ conn'[c].sending = conn[c].sending
                         /\ conn'[c].retransmitting = conn[c].retransmitting
    <3>1. conn' = conn \/ AdjustsRate(d, Adjusted(conn[d].rate, Head(signals[d]).val))
      BY <1>3, SignalCases, Zenon
    <3> QED BY <3>1, Zenon DEF AdjustsRate
  <2> QED BY <2>1, <2>2, SameConn, SameMessages, Zenon
<1>4. CASE Remote \/ UNCHANGED vars
  <2>1. UNCHANGED <<setup, posted, sr_queue, conn>>
    BY <1>4, Zenon DEF Remote, user, vars
  <2> QED BY <2>1, SameConn, SameMessages, Zenon
<1>5. CASE Tick
  <2>1. UNCHANGED <<setup, posted, sr_queue>>
    BY <1>5, Zenon DEF Tick, user
  <2> QED BY <1>5, <2>1, TickEffect, SameConn, SameMessages, Zenon
<1> QED BY <1>1, <1>2, <1>3, <1>4, <1>5, Zenon DEF Next

-----------------------------------------------------------------------------
(***************************************************************************)
(* The order of the signals of a peer, through its channel and then        *)
(* notification_queue_: after the one that stops a message none asks for   *)
(* it again.                                                               *)
(***************************************************************************)
SignalsOf(d, m) ==
  /\ Holds(signals[d], ReqSignal(m)) => Dest(m) = d
  /\ Holds(signals[d], StopSignal(m)) => Dest(m) = d /\ m \in stopping
  /\ NoneAfter(signals[d], StopSignal(m), ReqSignal(m))
NotificationsOf(m) ==
  /\ Holds(notification_queue, Stop(m)) =>
       m \in stopping /\ ~Holds(signals[Dest(m)], ReqSignal(m))
  /\ NoneAfter(notification_queue, Stop(m), Req(m))

Ordered == /\ done \subseteq stopping
           /\ \A m \in Msgs : NotificationsOf(m) /\ \A d \in Peers : SignalsOf(d, m)

\* Signals that stay as they are, or lose their head.
LEMMA SameSignals ==
  ASSUME TypeOK, NEW d \in Peers, NEW m \in Msgs, SignalsOf(d, m), setup' = setup,
         stopping \subseteq stopping',
         signals'[d] = signals[d] \/ (signals[d] # <<>> /\ signals'[d] = Tail(signals[d]))
  PROVE  SignalsOf(d, m)'
<1>1. Dest(m)' = Dest(m)
  BY Zenon DEF Dest
<1>2. signals[d] \in Seq(RateSignal \cup FlowSignal)
  BY Zenon DEF TypeOK, PeerOK
<1>3. CASE signals'[d] = signals[d]
  BY <1>1, <1>3, Zenon DEF SignalsOf, Holds, NoneAfter, ReqSignal, StopSignal
<1>4. CASE signals[d] # <<>> /\ signals'[d] = Tail(signals[d])
  <2>1. /\ Holds(signals'[d], ReqSignal(m)) => Holds(signals[d], ReqSignal(m))
        /\ Holds(signals'[d], StopSignal(m)) => Holds(signals[d], StopSignal(m))
        /\ NoneAfter(signals'[d], StopSignal(m), ReqSignal(m))
    BY <1>2, <1>4, HoldsTail, NoneAfterTail DEF SignalsOf
  <2> QED BY <1>1, <2>1, Zenon DEF SignalsOf, ReqSignal, StopSignal
<1> QED BY <1>3, <1>4, Zenon

\* A signal is sent: of a message not stopped so far, or of no message.
LEMMA SignalAppended ==
  ASSUME TypeOK, NEW d \in Peers, NEW m \in Msgs, SignalsOf(d, m), setup' = setup,
         stopping \subseteq stopping',
         NEW s \in RateSignal \cup FlowSignal, signals'[d] = Append(signals[d], s),
         s = StopSignal(m) => Dest(m) = d /\ m \in stopping',
         s = ReqSignal(m) => Dest(m) = d /\ m \notin stopping
  PROVE  SignalsOf(d, m)'
<1>1. Dest(m)' = Dest(m) /\ signals[d] \in Seq(RateSignal \cup FlowSignal)
  BY Zenon DEF Dest, TypeOK, PeerOK
<1>2. /\ Holds(signals'[d], ReqSignal(m)) => Dest(m) = d
      /\ Holds(signals'[d], StopSignal(m)) => Dest(m) = d /\ m \in stopping'
  BY <1>1, HoldsAppended DEF SignalsOf
<1>3. NoneAfter(signals'[d], StopSignal(m), ReqSignal(m))
  <2>1. s # ReqSignal(m) \/ ~Holds(signals[d], StopSignal(m))
    BY Zenon DEF SignalsOf
  <2> QED BY <1>1, <2>1, NoneAfterAppended, Zenon DEF SignalsOf
<1> QED BY <1>1, <1>2, <1>3, Zenon DEF SignalsOf, ReqSignal, StopSignal

\* Notifications that stay as they are, lose their head, or are followed by
\* one that asks for no stopped message.
LEMMA SameNotifications ==
  ASSUME TypeOK, NEW m \in Msgs, NotificationsOf(m), setup' = setup,
         stopping \subseteq stopping',
         Holds(signals'[Dest(m)], ReqSignal(m)) =>
           m \notin stopping \/ Holds(signals[Dest(m)], ReqSignal(m)),
         \/ notification_queue' = notification_queue
         \/ notification_queue # <<>> /\ notification_queue' = Tail(notification_queue)
         \/ \E n \in Notification :
              /\ notification_queue' = Append(notification_queue, n)
              /\ n = Stop(m) => m \in stopping /\ ~Holds(signals'[Dest(m)], ReqSignal(m))
              /\ n = Req(m) => ~Holds(notification_queue, Stop(m))
  PROVE  NotificationsOf(m)'
<1>1. Dest(m)' = Dest(m) /\ notification_queue \in Seq(Notification)
  BY Zenon DEF Dest, TypeOK, UserOK
<1>2. CASE notification_queue' = notification_queue
  <2>1. /\ Holds(notification_queue', Stop(m)) => Holds(notification_queue, Stop(m))
        /\ NoneAfter(notification_queue', Stop(m), Req(m))
    BY <1>2, Zenon DEF NotificationsOf
  <2> QED BY <1>1, <2>1, Zenon DEF NotificationsOf, Stop, Req, ReqSignal
<1>3. CASE notification_queue # <<>> /\ notification_queue' = Tail(notification_queue)
  <2>1. /\ Holds(notification_queue', Stop(m)) => Holds(notification_queue, Stop(m))
        /\ NoneAfter(notification_queue', Stop(m), Req(m))
    BY <1>1, <1>3, HoldsTail, NoneAfterTail, Zenon DEF NotificationsOf
  <2> QED BY <1>1, <2>1, Zenon DEF NotificationsOf, Stop, Req, ReqSignal
<1>4. ASSUME NEW n \in Notification,
             notification_queue' = Append(notification_queue, n),
             n = Stop(m) => m \in stopping /\ ~Holds(signals'[Dest(m)], ReqSignal(m)),
             n = Req(m) => ~Holds(notification_queue, Stop(m))
      PROVE  NotificationsOf(m)'
  <2>1. Holds(notification_queue', Stop(m)) =>
          m \in stopping' /\ ~Holds(signals'[Dest(m)], ReqSignal(m))
    BY <1>1, <1>4, HoldsAppended, Zenon DEF NotificationsOf
  <2>2. NoneAfter(notification_queue', Stop(m), Req(m))
    BY <1>1, <1>4, NoneAfterAppended, Zenon DEF NotificationsOf
  <2> QED BY <1>1, <2>1, <2>2, Zenon DEF NotificationsOf, Stop, Req, ReqSignal
<1> QED BY <1>2, <1>3, <1>4, Zenon

\* A step that leaves the signals alone.
LEMMA OrderedWithoutSignals ==
  ASSUME TypeOK, Ordered, UNCHANGED <<setup, signals, stopping>>, done' \subseteq stopping,
         \/ notification_queue' = notification_queue
         \/ notification_queue # <<>> /\ notification_queue' = Tail(notification_queue)
         \/ \E d \in Peers : \/ notification_queue' = Append(notification_queue, Add(d))
                             \/ notification_queue' = Append(notification_queue, Rem(d))
  PROVE  Ordered'
<1>1. Peers' = Peers /\ Msgs' = Msgs
  BY SameSetup, Zenon
<1>2. ASSUME NEW m \in Msgs
      PROVE  NotificationsOf(m)'
  <2>1. ASSUME NEW d \in Peers, \/ notification_queue' = Append(notification_queue, Add(d))
                                \/ notification_queue' = Append(notification_queue, Rem(d))
        PROVE  \E n \in Notification :
                 notification_queue' = Append(notification_queue, n) /\ n # Stop(m) /\ n # Req(m)
    BY <2>1, NotificationTypes, NotificationsDiffer, Zenon
  <2> QED BY <2>1, SameNotifications, Zenon DEF Ordered
<1>3. \A m \in Msgs : \A d \in Peers : SignalsOf(d, m)'
  BY SameSignals, Zenon DEF Ordered
<1> QED BY <1>1, <1>2, <1>3, Zenon DEF Ordered

\* The reliable channel hands a signal on, behind those that came before it.
LEMMA SignalOrdered ==
  ASSUME TypeOK, Ordered, NEW d \in Peers, HandleReceivedData(d)
  PROVE  Ordered'
<1> DEFINE s == Head(signals[d])
<1>1. /\ signals[d] # <<>> /\ signals[d] \in Seq(RateSignal \cup FlowSignal)
      /\ signals'[d] = Tail(signals[d])
      /\ \A c \in Peers \ {d} : signals'[c] = signals[c]
      /\ UNCHANGED <<setup, done, stopping>>
      /\ \/ UNCHANGED notification_queue
         \/ \E m \in Msgs : \/ s = StopSignal(m) /\ notification_queue' = Append(notification_queue, Stop(m))
                            \/ s = ReqSignal(m) /\ notification_queue' = Append(notification_queue, Req(m))
  BY SignalCases, Zenon DEF TypeOK, PeerOK, peer
<1>2. Peers' = Peers /\ Msgs' = Msgs
  BY <1>1, SameSetup, Zenon
<1> HIDE DEF s
<1>3. \A m \in Msgs : \A c \in Peers : SignalsOf(c, m)'
  BY <1>1, SameSignals, Zenon DEF Ordered
<1>4. ASSUME NEW m \in Msgs
      PROVE  NotificationsOf(m)'
  <2>1. Dest(m) \in Peers /\ NotificationsOf(m) /\ SignalsOf(d, m)
    BY SetupFacts, Zenon DEF TypeOK, Ordered
  <2>2. Holds(signals'[Dest(m)], ReqSignal(m)) => Holds(signals[Dest(m)], ReqSignal(m))
    BY <1>1, <2>1, HoldsTail, Zenon
  <2>3. CASE UNCHANGED notification_queue
    BY <1>1, <2>1, <2>2, <2>3, SameNotifications, Zenon
  <2>4. ASSUME NEW x \in Msgs, s = StopSignal(x),
               notification_queue' = Append(notification_queue, Stop(x))
        PROVE  NotificationsOf(m)'
    <3>1. Holds(signals[d], StopSignal(x)) /\ ~Holds(signals'[d], ReqSignal(x))
      <4>1. NoneAfter(signals[d], StopSignal(x), ReqSignal(x))
        BY Zenon DEF Ordered, SignalsOf
      <4> QED BY <1>1, <2>4, <4>1, HoldsTail, NoneAfterTail DEF s
    <3>2. Dest(x) = d /\ x \in stopping
      BY <3>1, Zenon DEF Ordered, SignalsOf
    <3>3. Stop(x) \in Notification /\ Stop(x) # Req(m) /\ (Stop(x) = Stop(m) => x = m)
      BY NotificationTypes, NotificationsDiffer, Zenon
    <3> QED BY <1>1, <2>1, <2>2, <2>4, <3>1, <3>2, <3>3, SameNotifications, Zenon
  <2>5. ASSUME NEW x \in Msgs, s = ReqSignal(x),
               notification_queue' = Append(notification_queue, Req(x))
        PROVE  NotificationsOf(m)'
    <3>1. Holds(signals[d], ReqSignal(x))
      BY <1>1, <2>5, HoldsTail, Zenon DEF s
    <3>2. Dest(x) = d
      BY <3>1, Zenon DEF Ordered, SignalsOf
    <3>3. ~Holds(notification_queue, Stop(x))
      BY <3>1, <3>2, Zenon DEF Ordered, NotificationsOf
    <3>4. Req(x) \in Notification /\ Req(x) # Stop(m) /\ (Req(x) = Req(m) => x = m)
      BY NotificationTypes, NotificationsDiffer, Zenon
    <3> QED BY <1>1, <2>1, <2>2, <2>5, <3>3, <3>4, SameNotifications, Zenon
  <2> QED BY <1>1, <2>3, <2>4, <2>5, Zenon
<1> QED BY <1>1, <1>2, <1>3, <1>4, Zenon DEF Ordered

\* A peer sends a signal.
LEMMA SentOrdered ==
  ASSUME TypeOK, Ordered, UNCHANGED <<setup, done, notification_queue>>,
         stopping \subseteq stopping',
         NEW c \in Peers, NEW s \in RateSignal \cup FlowSignal,
         signals' = [signals EXCEPT ![c] = Append(signals[c], s)],
         \A m \in Msgs : s = StopSignal(m) => Dest(m) = c /\ m \in stopping',
         \A m \in Msgs : s = ReqSignal(m) => Dest(m) = c /\ m \notin stopping
  PROVE  Ordered'
<1>1. Peers' = Peers /\ Msgs' = Msgs
  BY SameSetup, Zenon
<1>2. /\ signals \in [Peers -> Seq(RateSignal \cup FlowSignal)]
      /\ signals'[c] = Append(signals[c], s)
      /\ \A d \in Peers \ {c} : signals'[d] = signals[d]
  BY Zenon DEF TypeOK, PeerOK
<1>3. \A m \in Msgs : \A d \in Peers : SignalsOf(d, m)'
  <2> SUFFICES ASSUME NEW m \in Msgs, NEW d \in Peers PROVE SignalsOf(d, m)'
    BY Zenon
  <2>1. SignalsOf(d, m)
    BY Zenon DEF Ordered
  <2>2. CASE d = c
    BY <1>2, <2>1, <2>2, SignalAppended, Zenon
  <2>3. CASE d # c
    BY <1>2, <2>1, <2>3, SameSignals, Zenon
  <2> QED BY <2>2, <2>3, Zenon
<1>4. ASSUME NEW m \in Msgs
      PROVE  NotificationsOf(m)'
  <2>1. Dest(m) \in Peers /\ NotificationsOf(m)
    BY SetupFacts, Zenon DEF TypeOK, Ordered
  <2>2. Holds(signals'[Dest(m)], ReqSignal(m)) =>
          m \notin stopping \/ Holds(signals[Dest(m)], ReqSignal(m))
    <3>1. CASE Dest(m) # c
      BY <1>2, <2>1, <3>1, Zenon
    <3>2. CASE Dest(m) = c
      BY <1>2, <2>1, <3>2, HoldsAppended
    <3> QED BY <3>1, <3>2, Zenon
  <2> QED BY <2>1, <2>2, SameNotifications, Zenon
<1>5. done' \subseteq stopping'
  BY Zenon DEF Ordered
<1> QED BY <1>1, <1>3, <1>4, <1>5, Zenon DEF Ordered

\* A peer does not ask for a message after it has stopped it.
LEMMA RemoteOrdered ==
  ASSUME TypeOK, Ordered, Remote
  PROVE  Ordered'
<1>1. UNCHANGED <<setup, done, notification_queue>> /\ done \subseteq stopping
  BY Zenon DEF Remote, Ordered
<1>2. ASSUME NEW c \in Peers, net[c] # <<>>, HandleReceive(c) \/ Lose(c)
      PROVE  Ordered'
  <2>1. Receives(c) /\ stopping' = stopping
    BY <1>2, ReceiveEffect, Zenon
  <2>2. CASE UNCHANGED signals
    BY <1>1, <2>1, <2>2, OrderedWithoutSignals, Zenon
  <2>3. ASSUME NEW s \in RateSignal, signals' = [signals EXCEPT ![c] = Append(signals[c], s)]
        PROVE  Ordered'
    <3>1. \A m \in Msgs : s # StopSignal(m) /\ s # ReqSignal(m)
      BY SignalsDiffer
    <3> QED BY <1>1, <2>1, <2>3, <3>1, SentOrdered, Zenon
  <2> QED BY <2>1, <2>2, <2>3, Zenon DEF Receives
<1>3. ASSUME NEW m \in Msgs, SendStop(m) \/ FinishFlow(m)
      PROVE  Ordered'
  <2>1. Dest(m) \in Peers
    BY SetupFacts, Zenon DEF TypeOK
  <2>2. /\ StopSignal(m) \in FlowSignal /\ ReqSignal(m) \in FlowSignal
        /\ \A x \in Msgs : /\ StopSignal(m) # ReqSignal(x) /\ StopSignal(x) # ReqSignal(m)
                           /\ StopSignal(m) = StopSignal(x) => m = x
                           /\ ReqSignal(m) = ReqSignal(x) => m = x
    BY FlowSignalTypes, SignalsDiffer, Zenon
  <2>3. CASE SendStop(m)
    <3>1. /\ stopping' = stopping \cup {m}
          /\ signals' = [signals EXCEPT ![Dest(m)] = Append(signals[Dest(m)], StopSignal(m))]
      BY <2>3, FlowEffect, Zenon
    <3> QED BY <1>1, <2>1, <2>2, <3>1, SentOrdered, Zenon
  <2>4. CASE FinishFlow(m)
    <3>1. /\ stopping' = stopping /\ m \notin stopping
          /\ signals' = [signals EXCEPT ![Dest(m)] = Append(signals[Dest(m)], ReqSignal(m))]
      BY <2>4, FlowEffect, Zenon
    <3> QED BY <1>1, <2>1, <2>2, <3>1, SentOrdered, Zenon
  <2> QED BY <1>3, <2>3, <2>4, Zenon
<1> QED BY <1>2, <1>3, Zenon DEF Remote

\* Only a message whose peer has stopped it is completed.
LEMMA NotificationOrdered ==
  ASSUME TypeOK, Ordered, PollNotification, UNCHANGED <<setup, signals>>
  PROVE  Ordered'
<1>1. stopping' = stopping
  BY Zenon DEF PollNotification, peer
<1>2. CASE notification_queue = <<>>
  <2>1. UNCHANGED <<notification_queue, done>>
    BY <1>2, Zenon DEF PollNotification
  <2> QED BY <1>1, <2>1, OrderedWithoutSignals, Zenon DEF Ordered
<1>3. CASE notification_queue # <<>>
  <2>1. notification_queue' = Tail(notification_queue) /\ notification_queue \in Seq(Notification)
    BY <1>3, PollCases, Zenon DEF TypeOK, UserOK
  <2>2. ASSUME NEW m \in Msgs, Head(notification_queue) = Stop(m)
        PROVE  m \in stopping
    BY <1>3, <2>1, <2>2, HoldsTail, Zenon DEF Ordered, NotificationsOf
  <2>3. ASSUME NEW m \in Msgs, StopFlow(m)
        PROVE  done' = done \cup {m}
    BY <2>3, StopEffect, Zenon
  <2>4. ASSUME NEW m \in Msgs, RequestRetransmit(m)
        PROVE  done' = done
    BY <2>4, RequestEffect, Zenon
  <2>5. done' \subseteq stopping
    BY <1>3, <2>2, <2>3, <2>4, PollCases, Zenon DEF Ordered
  <2> QED BY <1>1, <1>3, <2>1, <2>5, OrderedWithoutSignals, Zenon
<1> QED BY <1>2, <1>3, Zenon

\* Every step preserves the order of the signals.
LEMMA StepOrdered ==
  ASSUME TypeOK, Connected, Ordered, [Next]_vars
  PROVE  Ordered'
<1>0. done \subseteq stopping
  BY Zenon DEF Ordered
<1>1. CASE User
  <2>1. UNCHANGED <<setup, signals, stopping, done>>
    BY <1>1, Zenon DEF User, AddConnection, PostSend, RemoveConnection, peer
  <2>2. CASE \E d \in Peers : AddConnection(d)
    BY <1>0, <2>1, <2>2, AddEffect, OrderedWithoutSignals, Zenon
  <2>3. ASSUME NEW m \in Msgs, PostSend(m) PROVE Ordered'
    <3>1. UNCHANGED notification_queue
      BY <2>3, Zenon DEF PostSend
    <3> QED BY <1>0, <2>1, <3>1, OrderedWithoutSignals, Zenon
  <2>4. ASSUME NEW d \in Peers, RemoveConnection(d) PROVE Ordered'
    <3>1. notification_queue' = Append(notification_queue, Rem(d))
      BY <2>4, Zenon DEF RemoveConnection, Notify, Rem
    <3> QED BY <1>0, <2>1, <3>1, OrderedWithoutSignals, Zenon
  <2> QED BY <1>1, <2>2, <2>3, <2>4, Zenon DEF User
<1>2. CASE Run
  <2>1. UNCHANGED <<setup, signals>>
    BY <1>2, Zenon DEF Run
  <2>2. CASE PollNotification
    BY <2>1, <2>2, NotificationOrdered, Zenon
  <2>3. CASE PopSendRequest \/ PollSendingMessages \/ PollRetransmitRequest
    <3>1. UNCHANGED <<stopping, done, notification_queue>>
      BY <2>3, Zenon DEF PopSendRequest, PollSendingMessages, PollRetransmitRequest, peer
    <3> QED BY <1>0, <2>1, <3>1, OrderedWithoutSignals, Zenon
  <2> QED BY <1>2, <2>2, <2>3, Zenon DEF Run
<1>3. CASE Tick \/ UNCHANGED vars
  <2>1. UNCHANGED <<setup, signals, stopping, done, notification_queue>>
    BY <1>3, Zenon DEF Tick, vars, peer
  <2> QED BY <1>0, <2>1, OrderedWithoutSignals, Zenon
<1> QED BY <1>1, <1>2, <1>3, SignalOrdered, RemoteOrdered, Zenon DEF Next

-----------------------------------------------------------------------------
(***************************************************************************)
(* As long as no connection was looked up in vain or left a gap: the       *)
(* table gives every connection's place, messages are with their           *)
(* connections, and who asks for a packet again asks for a message that    *)
(* has been sent.                                                          *)
(***************************************************************************)
Kept(m) == m \in conn[Dest(m)].retransmitting

TableRight == /\ DOMAIN conn_meta_map = Table
              /\ \A i \in 1 .. Len(conn_metas) : conn_meta_map[conn_metas[i]] = i - 1
MessagesRight ==
  \A d \in Peers :
    /\ \A m \in conn[d].sending \cup conn[d].retransmitting \cup conn[d].reqs : Dest(m) = d
    /\ conn[d].reqs \subseteq conn[d].retransmitting
RequestsRight ==
  \A m \in Msgs : /\ m \in finish => Kept(m) \/ m \in done
                  /\ Holds(signals[Dest(m)], ReqSignal(m)) => Kept(m)
                  /\ Holds(notification_queue, Req(m)) => Kept(m)

Filed == ~failed /\ TableRight /\ MessagesRight /\ RequestsRight

IInv == TypeOK /\ Connected /\ Unique /\ Ordered /\ (raced = {} /\ ~gap => Filed)

-----------------------------------------------------------------------------
(***************************************************************************)
(* The table gives every connection's place, so every message is filed     *)
(* with its connection.                                                    *)
(***************************************************************************)
LEMMA SameTable ==
  ASSUME TableRight, UNCHANGED <<conn_metas, conn_meta_map>>
  PROVE  TableRight'
  BY Zenon DEF TableRight, Table

\* A lookup that is not in vain finds the connection and leaves the table alone.
LEMMA LookupRight ==
  ASSUME TypeOK, TableRight, NEW m \in Msgs, Lookup(m), raced' = {}
  PROVE  /\ TableRight' /\ InTable(Dest(m)) /\ FindConnMetaById(Dest(m)) = Dest(m)
<1> DEFINE d == Dest(m)
<1>1. d \in DOMAIN conn_meta_map
  BY Zenon DEF Lookup
<1>2. /\ conn_metas' = conn_metas /\ conn_meta_map' = Put(conn_meta_map, d, conn_meta_map[d])
      /\ IndexOf(d) = conn_meta_map[d]
  BY <1>1, Zenon DEF Lookup, IndexOf
<1>3. /\ DOMAIN conn_meta_map' = DOMAIN conn_meta_map
      /\ \A k \in DOMAIN conn_meta_map : conn_meta_map'[k] = conn_meta_map[k]
  BY <1>1, <1>2, Zenon DEF Put
<1>4. conn_metas \in Seq(Peers) /\ Table = {conn_metas[i] : i \in 1 .. Len(conn_metas)}
  BY DEF TypeOK, TableOK, Table, Range
<1>5. Table' = Table
  BY <1>2, Zenon DEF Table
<1>6. TableRight'
  BY <1>2, <1>3, <1>4, <1>5, Zenon DEF TableRight
<1>7. PICK i \in 1 .. Len(conn_metas) : conn_metas[i] = d
  BY <1>1, <1>4, Zenon DEF TableRight
<1>8. IndexOf(d) = i - 1
  BY <1>2, <1>7, Zenon DEF TableRight
<1>9. i - 1 < Len(conn_metas) /\ (i - 1) + 1 = i
  BY <1>4
<1> QED BY <1>6, <1>7, <1>8, <1>9, Zenon DEF InTable, FindConnMetaById

\* A connection is appended to the table.
LEMMA AddedRight ==
  ASSUME TypeOK, TableRight, NEW d \in Peers, d \notin Table, AddToTable(d)
  PROVE  TableRight'
<1>1. /\ conn_metas' = Append(conn_metas, d) /\ Table' = Table \cup {d}
      /\ DOMAIN conn_meta_map' = DOMAIN conn_meta_map \cup {d}
      /\ conn_meta_map'[d] = Len(conn_metas)
      /\ \A x \in DOMAIN conn_meta_map \ {d} : conn_meta_map'[x] = conn_meta_map[x]
  BY AddToTableEffect, Zenon
<1>2. conn_metas \in Seq(Peers) /\ \A i \in 1 .. Len(conn_metas) : conn_metas[i] \in Table
  BY DEF TypeOK, TableOK, Table, Range
<1>3. ASSUME NEW i \in 1 .. Len(conn_metas')
      PROVE  conn_meta_map'[conn_metas'[i]] = i - 1
  <2>1. /\ Len(conn_metas') = Len(conn_metas) + 1 /\ Len(conn_metas) \in Nat
        /\ conn_metas'[Len(conn_metas) + 1] = d
        /\ \A k \in 1 .. Len(conn_metas) : conn_metas'[k] = conn_metas[k]
        /\ i \in 1 .. Len(conn_metas) \/ i = Len(conn_metas) + 1
    BY <1>1, <1>2, Appended
  <2>2. CASE i = Len(conn_metas) + 1
    <3>1. conn_metas'[i] = d /\ Len(conn_metas) = i - 1
      BY <2>1, <2>2
    <3> QED BY <1>1, <3>1, Zenon
  <2>3. CASE i \in 1 .. Len(conn_metas)
    <3>1. conn_metas'[i] = conn_metas[i] /\ conn_metas[i] \in DOMAIN conn_meta_map \ {d}
      BY <1>2, <2>1, <2>3, Zenon DEF TableRight
    <3> QED BY <1>1, <2>3, <3>1, Zenon DEF TableRight
  <2> QED BY <2>1, <2>2, <2>3, Zenon
<1> QED BY <1>1, <1>3, Zenon DEF TableRight

\* The last connection is removed: no other place changes.
LEMMA RemovedRight ==
  ASSUME TypeOK, Connected, TableRight, NEW d \in Peers, d \in Table, RemoveFromTable(d), ~gap'
  PROVE  TableRight'
<1>1. /\ Len(conn_metas') = Len(conn_metas) - 1
      /\ Table' = Table \ {d}
      /\ DOMAIN conn_meta_map' = DOMAIN conn_meta_map \ {d}
      /\ \A x \in DOMAIN conn_meta_map' : conn_meta_map'[x] = conn_meta_map[x]
  BY RemoveEffect, Zenon
<1>2. PICK f \in 1 .. Len(conn_metas) :
        /\ conn_metas[f] = d
        /\ \A k \in 1 .. Len(conn_metas) - 1 :
             conn_metas'[k] = IF k < f THEN conn_metas[k] ELSE conn_metas[k + 1]
        /\ gap' = (gap \/ f # Len(conn_metas))
  BY RemoveEffect, Zenon
<1>3. f = Len(conn_metas) /\ Len(conn_metas) \in Nat
  <2>1. f = Len(conn_metas)
    BY <1>2, Zenon
  <2> QED BY <2>1 DEF TypeOK, TableOK
<1>4. ASSUME NEW i \in 1 .. Len(conn_metas')
      PROVE  conn_meta_map'[conn_metas'[i]] = i - 1
  <2>1. i \in 1 .. Len(conn_metas) - 1 /\ i < f /\ i \in 1 .. Len(conn_metas)
    BY <1>1, <1>3
  <2>2. conn_metas'[i] = conn_metas[i]
    BY <1>2, <2>1, Zenon
  <2>3. conn_metas'[i] \in Table'
    <3>1. conn_metas[i] # d
      BY <1>2, <2>1 DEF Connected, TableOnce
    <3>2. conn_metas[i] \in Table
      BY <2>1, TableIsAdded, Zenon
    <3> QED BY <1>1, <2>2, <3>1, <3>2, Zenon
  <2>4. conn_metas'[i] \in DOMAIN conn_meta_map'
    BY <1>1, <2>3, Zenon DEF TableRight
  <2> QED BY <1>1, <2>1, <2>2, <2>4, Zenon DEF TableRight
<1> QED BY <1>1, <1>4, Zenon DEF TableRight

\* The requests stay right in a step that only takes a message from
\* retransmitting when nobody asks for it again, and in which only messages
\* that are kept are asked for.
LEMMA RequestsKept ==
  ASSUME RequestsRight, setup' = setup, done \subseteq done',
         \A m \in Msgs : Kept(m) =>
           \/ Kept(m)'
           \/ /\ m \in done'
              /\ ~Holds(signals'[Dest(m)], ReqSignal(m))
              /\ ~Holds(notification_queue', Req(m)),
         \A m \in finish' : m \in Msgs => m \in finish \/ Kept(m)',
         \A m \in Msgs : Holds(signals'[Dest(m)], ReqSignal(m)) =>
                           Holds(signals[Dest(m)], ReqSignal(m)) \/ Kept(m),
         \A m \in Msgs : Holds(notification_queue', Req(m)) =>
                           Holds(notification_queue, Req(m)) \/ Kept(m)
  PROVE  RequestsRight'
<1>1. Msgs' = Msgs
  BY SameSetup, Zenon
<1>2. ASSUME NEW m \in Msgs
      PROVE  /\ m \in finish' => Kept(m)' \/ m \in done'
             /\ Holds(signals'[Dest(m)], ReqSignal(m)) => Kept(m)'
             /\ Holds(notification_queue', Req(m)) => Kept(m)'
  <2>1. /\ m \in finish => Kept(m) \/ m \in done
        /\ Holds(signals[Dest(m)], ReqSignal(m)) => Kept(m)
        /\ Holds(notification_queue, Req(m)) => Kept(m)
    BY Zenon DEF RequestsRight
  <2>2. m \in finish' => Kept(m)' \/ m \in done'
    BY <2>1, Zenon
  <2>3. Holds(signals'[Dest(m)], ReqSignal(m)) => Kept(m)'
    BY <2>1, Zenon
  <2>4. Holds(notification_queue', Req(m)) => Kept(m)'
    BY <2>1, Zenon
  <2> QED BY <2>2, <2>3, <2>4, Zenon
<1>3. \A m \in Msgs : Dest(m)' = Dest(m)
  BY Zenon DEF Dest
<1> QED BY <1>1, <1>2, <1>3, Zenon DEF RequestsRight, ReqSignal, Req

\* Messages are moved within their connection.
LEMMA MessagesKept ==
  ASSUME MessagesRight, setup' = setup,
         \A d \in Peers :
           /\ \A m \in conn'[d].sending \cup conn'[d].retransmitting \cup conn'[d].reqs :
                m \in conn[d].sending \cup conn[d].retransmitting \cup conn[d].reqs \/ Dest(m) = d
           /\ conn'[d].reqs \subseteq conn'[d].retransmitting
  PROVE  MessagesRight'
<1>1. Peers' = Peers /\ \A m : Dest(m)' = Dest(m)
  BY SameSetup, Zenon DEF Dest
<1> QED BY <1>1, Zenon DEF MessagesRight

\* A step that leaves the table and the messages of the connections alone.
LEMMA FiledKept ==
  ASSUME TypeOK, Filed, UNCHANGED <<setup, conn_metas, conn_meta_map, failed, finish, done>>,
         \A d \in Peers : /\ conn'[d].sending = conn[d].sending
                          /\ conn'[d].retransmitting = conn[d].retransmitting
                          /\ conn'[d].reqs = conn[d].reqs,
         \A m \in Msgs : Holds(signals'[Dest(m)], ReqSignal(m)) =>
                           Holds(signals[Dest(m)], ReqSignal(m)) \/ Kept(m),
         \A m \in Msgs : Holds(notification_queue', Req(m)) =>
                           Holds(notification_queue, Req(m)) \/ Kept(m)
  PROVE  Filed'
<1>1. \A m \in Msgs : Dest(m) \in Peers /\ Dest(m)' = Dest(m)
  BY SetupFacts, Zenon DEF TypeOK, Dest
<1>2. \A m \in Msgs : Kept(m) => Kept(m)'
  BY <1>1, Zenon DEF Kept
<1>3. RequestsRight'
  BY <1>2, RequestsKept, Zenon DEF Filed
<1>4. MessagesRight'
  <2>1. \A d \in Peers : conn[d].reqs \subseteq conn[d].retransmitting
    BY Zenon DEF Filed, MessagesRight
  <2> QED BY <2>1, MessagesKept, Zenon DEF Filed
<1> QED BY <1>3, <1>4, SameTable, Zenon DEF Filed

\* The user only appends to the queues.
LEMMA UserFiled ==
  ASSUME TypeOK, Connected, Filed, User
  PROVE  Filed'
<1>1. UNCHANGED <<setup, conn_metas, conn_meta_map, failed, finish, done, conn, signals>>
  BY Zenon DEF User, AddConnection, PostSend, RemoveConnection, table, peer
<1>2. notification_queue \in Seq(Notification)
  BY Zenon DEF TypeOK, UserOK
<1>3. \/ notification_queue' = notification_queue
      \/ \E d \in Peers : \/ notification_queue' = Append(notification_queue, Add(d))
                          \/ notification_queue' = Append(notification_queue, Rem(d))
  <2>1. CASE \E d \in Peers : AddConnection(d)
    BY <2>1, AddEffect, Zenon
  <2>2. ASSUME NEW d \in Peers, RemoveConnection(d)
        PROVE  notification_queue' = Append(notification_queue, Rem(d))
    BY <2>2, Zenon DEF RemoveConnection, Notify, Rem
  <2> QED BY <2>1, <2>2, Zenon DEF User, PostSend
<1>4. \A m \in Msgs : Holds(notification_queue', Req(m)) => Holds(notification_queue, Req(m))
  <2>1. ASSUME NEW m \in Msgs, NEW n \in Notification, n # Req(m),
               notification_queue' = Append(notification_queue, n),
               Holds(notification_queue', Req(m))
        PROVE  Holds(notification_queue, Req(m))
    BY <1>2, <2>1, HoldsAppended, Zenon
  <2>2. \A d \in Peers : /\ Add(d) \in Notification /\ Rem(d) \in Notification
                         /\ \A m \in Msgs : Add(d) # Req(m) /\ Rem(d) # Req(m)
    BY NotificationTypes, NotificationsDiffer, Zenon
  <2> QED BY <1>3, <2>1, <2>2, Zenon
<1> QED BY <1>1, <1>4, FiledKept, Zenon

\* A message is taken from sr_queue_ into its connection.
LEMMA PopFiled ==
  ASSUME TypeOK, Unique, Filed, PopSendRequest, UNCHANGED <<setup, signals>>, raced' = {}
  PROVE  Filed'
<1>1. UNCHANGED <<done, finish, notification_queue>>
  BY Zenon DEF PopSendRequest, peer
<1>2. CASE sr_queue = <<>>
  <2>1. UNCHANGED <<conn_metas, conn_meta_map, failed, conn>>
    BY <1>2, Zenon DEF PopSendRequest, table
  <2> QED BY <1>1, <2>1, FiledKept, Zenon
<1>3. CASE sr_queue # <<>>
  <2> DEFINE m == Head(sr_queue)
  <2>1. m \in Msgs /\ Lookup(m) /\ sr_queue \in Seq(Msgs)
    BY <1>3, PopEffect, Zenon DEF TypeOK, UserOK
  <2>2. TableRight' /\ InTable(Dest(m)) /\ FindConnMetaById(Dest(m)) = Dest(m) /\ Dest(m) \in Peers
    BY <2>1, LookupRight, SetupFacts, Zenon DEF Filed, TypeOK
  <2>3. m \notin conn[Dest(m)].sending
    BY <1>3, <2>1, <2>2, HoldsTail, Zenon DEF Unique, InConn
  <2>4. /\ OnlyAt(Dest(m), conn[Dest(m)].sending \cup {m}, conn[Dest(m)].retransmitting,
                  conn[Dest(m)].reqs)
        /\ failed' = failed
    BY <1>3, <2>2, <2>3, PopEffect, Zenon
  <2> HIDE DEF m
  <2>5. \A d \in Peers : /\ conn'[d].retransmitting = conn[d].retransmitting
                         /\ conn'[d].reqs = conn[d].reqs
                         /\ \A x \in conn'[d].sending : x \in conn[d].sending \/ Dest(x) = d
    BY <2>4 DEF OnlyAt
  <2>6. MessagesRight'
    <3>1. \A d \in Peers : conn[d].reqs \subseteq conn[d].retransmitting
      BY Zenon DEF Filed, MessagesRight
    <3> QED BY <2>5, <3>1, MessagesKept, Zenon DEF Filed
  <2>7. \A x \in Msgs : Kept(x) => Kept(x)'
    <3>1. \A x \in Msgs : Dest(x) \in Peers /\ Dest(x)' = Dest(x)
      BY SetupFacts, Zenon DEF TypeOK, Dest
    <3> QED BY <2>5, <3>1, Zenon DEF Kept
  <2>8. RequestsRight'
    BY <1>1, <2>7, RequestsKept, Zenon DEF Filed
  <2> QED BY <2>2, <2>4, <2>6, <2>8, Zenon DEF Filed
<1> QED BY <1>2, <1>3, Zenon

\* A message sent to its end stays with its connection, to be sent again.
LEMMA SendFiled ==
  ASSUME LeastElements, TypeOK, Filed, Routable, PollSendingMessages, UNCHANGED <<setup, signals>>
  PROVE  Filed'
<1>1. UNCHANGED <<conn_metas, conn_meta_map, done, notification_queue>>
  BY Zenon DEF PollSendingMessages, table
<1>2. ASSUME NEW d \in Peers
      PROVE  /\ conn'[d].reqs = conn[d].reqs
             /\ conn[d].retransmitting \subseteq conn'[d].retransmitting
             /\ conn'[d].sending \cup conn'[d].retransmitting
                  \subseteq conn[d].sending \cup conn[d].retransmitting
  <2>1. CASE conn'[d] = conn[d]
    BY <2>1, Zenon
  <2>2. CASE \E m \in Msgs, n \in Int : SendsFirst(d, m, n)
    BY <2>2, Zenon DEF SendsFirst
  <2> QED BY <2>1, <2>2, SendEffect, Zenon
<1>3. MessagesRight'
  <2>1. \A d \in Peers : conn[d].reqs \subseteq conn[d].retransmitting
    BY Zenon DEF Filed, MessagesRight
  <2> QED BY <1>2, <2>1, MessagesKept, Zenon DEF Filed
<1>4. \A m \in Msgs : Dest(m) \in Peers /\ Dest(m)' = Dest(m)
  BY SetupFacts, Zenon DEF TypeOK, Dest
<1>5. \A m \in Msgs : Kept(m) => Kept(m)'
  BY <1>2, <1>4, Zenon DEF Kept
<1>6. \A m \in finish' : m \in Msgs => m \in finish \/ Kept(m)'
  BY <1>4, SendEffect, Zenon DEF Kept
<1>7. RequestsRight'
  BY <1>1, <1>5, <1>6, RequestsKept, Zenon DEF Filed
<1>8. ~failed'
  BY SendEffect, Zenon
<1> QED BY <1>1, <1>3, <1>7, <1>8, SameTable, Zenon DEF Filed

\* Only messages of the connection that have been sent are sent again.
LEMMA RetransmitFiled ==
  ASSUME LeastElements, TypeOK, Filed, Routable, PollRetransmitRequest, UNCHANGED <<setup, signals>>
  PROVE  Filed'
<1>1. UNCHANGED <<conn_metas, conn_meta_map, done, notification_queue, finish>>
  BY Zenon DEF PollRetransmitRequest, table
<1>2. \A d \in Peers : /\ conn'[d].reqs \subseteq conn[d].reqs
                       /\ conn'[d].retransmitting = conn[d].retransmitting
                       /\ conn'[d].sending = conn[d].sending
  BY RetransmitEffect, Zenon DEF SendsAgain
<1>3. MessagesRight'
  <2>1. \A d \in Peers : conn[d].reqs \subseteq conn[d].retransmitting
    BY Zenon DEF Filed, MessagesRight
  <2> QED BY <1>2, <2>1, MessagesKept, Zenon DEF Filed
<1>4. \A m \in Msgs : Dest(m) \in Peers /\ Dest(m)' = Dest(m)
  BY SetupFacts, Zenon DEF TypeOK, Dest
<1>5. \A m \in Msgs : Kept(m) => Kept(m)'
  BY <1>2, <1>4, Zenon DEF Kept
<1>6. RequestsRight'
  BY <1>1, <1>5, RequestsKept, Zenon DEF Filed
<1>7. ~failed'
  BY RetransmitEffect, Zenon DEF Filed, MessagesRight
<1> QED BY <1>1, <1>3, <1>6, <1>7, SameTable, Zenon DEF Filed

\* A connection is told to stop a message, which no later signal asks for, or
\* asked for a packet of one that it keeps.
LEMMA FlowFiled ==
  ASSUME TypeOK, Unique, Ordered, Filed, PollNotification, UNCHANGED <<setup, signals>>,
         notification_queue # <<>>, raced' = {},
         NEW m \in Msgs,
         \/ Head(notification_queue) = Stop(m) /\ StopFlow(m)
         \/ Head(notification_queue) = Req(m) /\ RequestRetransmit(m)
  PROVE  Filed'
<1> DEFINE d == Dest(m)
<1>1. /\ notification_queue' = Tail(notification_queue) /\ notification_queue \in Seq(Notification)
      /\ finish' = finish
  BY PollCases, Zenon DEF TypeOK, UserOK, PollNotification, peer
<1>2. Lookup(m)
  BY StopEffect, RequestEffect, Zenon
<1>3. TableRight' /\ InTable(d) /\ FindConnMetaById(d) = d
  BY <1>2, LookupRight, Zenon DEF Filed
<1>4. d \in Peers /\ \A x \in Msgs : Dest(x) \in Peers /\ Dest(x)' = Dest(x)
  BY SetupFacts, Zenon DEF TypeOK, Dest
<1>5. \A x \in Msgs : Holds(notification_queue', Req(x)) => Holds(notification_queue, Req(x))
  BY <1>1, HoldsTail, Zenon
<1>6. \A c \in Peers : conn[c].reqs \subseteq conn[c].retransmitting
  BY Zenon DEF Filed, MessagesRight
<1>7. CASE Head(notification_queue) = Stop(m) /\ StopFlow(m)
  <2>1. /\ done' = done \cup {m} /\ failed' = failed
        /\ \/ /\ m \in conn[d].sending
              /\ OnlyAt(d, conn[d].sending \ {m}, conn[d].retransmitting, conn[d].reqs)
           \/ OnlyAt(d, conn[d].sending, conn[d].retransmitting \ {m}, conn[d].reqs \ {m})
    BY <1>3, <1>7, StopEffect, Zenon
  <2>2. ~Holds(notification_queue', Req(m)) /\ ~Holds(signals'[d], ReqSignal(m))
    <3>1. NotificationsOf(m) /\ Holds(notification_queue, Stop(m))
      BY <1>1, <1>7, HoldsTail, Zenon DEF Ordered
    <3> QED BY <1>1, <1>7, <3>1, NoneAfterTail, Zenon DEF NotificationsOf
  <2>3. ASSUME NEW c \in Peers
        PROVE  /\ conn'[c].sending \subseteq conn[c].sending
               /\ conn'[c].reqs \subseteq conn[c].reqs /\ conn'[c].reqs \subseteq conn'[c].retransmitting
               /\ conn'[c].retransmitting \subseteq conn[c].retransmitting
               /\ conn[c].retransmitting \subseteq conn'[c].retransmitting \cup {m}
    BY <1>4, <1>6, <2>1, Zenon DEF OnlyAt
  <2>4. MessagesRight'
    BY <2>3, MessagesKept, Zenon DEF Filed
  <2>5. \A x \in Msgs : Kept(x) => Kept(x)' \/ x = m
    BY <1>4, <2>3, Zenon DEF Kept
  <2>6. RequestsRight'
    BY <1>1, <1>5, <2>1, <2>2, <2>5, RequestsKept, Zenon DEF Filed
  <2> QED BY <1>3, <2>1, <2>4, <2>6, Zenon DEF Filed
<1>8. CASE Head(notification_queue) = Req(m) /\ RequestRetransmit(m)
  <2>1. /\ done' = done /\ failed' = failed
        /\ OnlyAt(d, conn[d].sending, conn[d].retransmitting, conn[d].reqs \cup {m})
    BY <1>3, <1>8, RequestEffect, Zenon
  <2>2. Kept(m)
    <3>1. Holds(notification_queue, Req(m))
      BY <1>1, <1>8, HoldsTail, Zenon
    <3> QED BY <3>1, Zenon DEF Filed, RequestsRight
  <2>3. ASSUME NEW c \in Peers
        PROVE  /\ conn'[c].sending = conn[c].sending
               /\ conn'[c].retransmitting = conn[c].retransmitting
               /\ conn'[c].reqs \subseteq conn'[c].retransmitting
               /\ \A x \in conn'[c].reqs : x \in conn[c].reqs \/ Dest(x) = c
    <3>1. CASE c # d
      <4>1. conn'[c] = conn[c]
        BY <2>1, <3>1, Zenon DEF OnlyAt
      <4> QED BY <1>6, <4>1, Zenon
    <3>2. CASE c = d
      <4>1. /\ conn'[c].sending = conn[c].sending /\ conn'[c].retransmitting = conn[c].retransmitting
            /\ conn'[c].reqs = conn[c].reqs \cup {m}
        BY <2>1, <3>2, Zenon DEF OnlyAt
      <4>2. m \in conn[c].retransmitting
        BY <2>2, <3>2, Zenon DEF Kept
      <4> QED BY <1>6, <3>2, <4>1, <4>2, Zenon
    <3> QED BY <3>1, <3>2, Zenon
  <2>4. MessagesRight'
    BY <2>3, MessagesKept, Zenon DEF Filed
  <2>5. \A x \in Msgs : Kept(x) => Kept(x)'
    BY <1>4, <2>3, Zenon DEF Kept
  <2>6. RequestsRight'
    BY <1>1, <1>5, <2>1, <2>5, RequestsKept, Zenon DEF Filed
  <2> QED BY <1>3, <2>1, <2>4, <2>6, Zenon DEF Filed
<1> QED BY <1>7, <1>8, Zenon

\* A notification keeps the table right as long as it leaves no gap.
LEMMA NotificationFiled ==
  ASSUME TypeOK, Connected, Unique, Ordered, Filed, PollNotification,
         UNCHANGED <<setup, signals>>, raced' = {}, ~gap'
  PROVE  Filed'
<1>1. CASE notification_queue = <<>>
  <2>1. UNCHANGED <<conn_metas, conn_meta_map, failed, finish, done, conn, notification_queue>>
    BY <1>1, Zenon DEF PollNotification, table, peer
  <2> QED BY <2>1, FiledKept, Zenon
<1>2. CASE notification_queue # <<>>
  <2>1. /\ notification_queue' = Tail(notification_queue)
        /\ notification_queue \in Seq(Notification) /\ finish' = finish
    BY <1>2, PollCases, Zenon DEF TypeOK, UserOK, PollNotification, peer
  <2>2. \A m \in Msgs : Holds(notification_queue', Req(m)) => Holds(notification_queue, Req(m))
    BY <1>2, <2>1, HoldsTail, Zenon
  <2>3. ASSUME UNCHANGED <<conn, done, failed>>, TableRight'
        PROVE  Filed'
    <3>1. \A d \in Peers : conn[d].reqs \subseteq conn[d].retransmitting
      BY Zenon DEF Filed, MessagesRight
    <3>2. MessagesRight'
      BY <2>3, <3>1, MessagesKept, Zenon DEF Filed
    <3>3. \A m \in Msgs : Kept(m) => Kept(m)'
      BY <2>3, Zenon DEF Kept, Dest
    <3>4. RequestsRight'
      BY <2>1, <2>2, <2>3, <3>3, RequestsKept, Zenon DEF Filed
    <3> QED BY <2>3, <3>2, <3>4, Zenon DEF Filed
  <2>4. ASSUME NEW d \in Peers, Head(notification_queue) = Add(d), AddToTable(d),
               UNCHANGED <<conn, done, failed>>
        PROVE  Filed'
    BY <1>2, <2>3, <2>4, HeadConnection, AddedRight, Zenon DEF Filed
  <2>5. ASSUME NEW d \in Peers, Head(notification_queue) = Rem(d), RemoveFromTable(d),
               UNCHANGED <<conn, done, failed>>
        PROVE  Filed'
    BY <1>2, <2>3, <2>5, HeadConnection, RemovedRight, Zenon DEF Filed
  <2>6. ASSUME NEW m \in Msgs,
               \/ Head(notification_queue) = Stop(m) /\ StopFlow(m)
               \/ Head(notification_queue) = Req(m) /\ RequestRetransmit(m)
        PROVE  Filed'
    BY <1>2, <2>6, FlowFiled, Zenon
  <2> QED BY <1>2, <2>4, <2>5, <2>6, PollCases, Zenon
<1> QED BY <1>1, <1>2, Zenon

\* What was looked up in vain, and a gap, stay on record.
LEMMA RecordGrows ==
  ASSUME TypeOK, [Next]_vars
  PROVE  raced \subseteq raced' /\ (gap => gap')
<1>1. \A m \in Msgs : Lookup(m) => raced \subseteq raced' /\ gap' = gap
  BY Zenon DEF Lookup
<1>2. CASE PopSendRequest
  BY <1>1, <1>2, PopEffect, Zenon DEF PopSendRequest, table
<1>3. CASE PollNotification
  <2>1. CASE notification_queue = <<>>
    BY <1>3, <2>1, Zenon DEF PollNotification, table
  <2>2. ASSUME NEW m \in Msgs, StopFlow(m) \/ RequestRetransmit(m)
        PROVE  raced \subseteq raced' /\ (gap => gap')
    BY <1>1, <2>2, StopEffect, RequestEffect, Zenon
  <2>3. ASSUME NEW d \in Peers, RemoveFromTable(d)
        PROVE  gap => gap'
    BY <2>3, Zenon DEF RemoveFromTable
  <2>4. CASE notification_queue # <<>>
    BY <1>3, <2>2, <2>3, <2>4, PollCases
  <2> QED BY <2>1, <2>4, Zenon
<1>4. CASE UNCHANGED <<raced, gap>>
  BY <1>4, Zenon
<1> QED BY <1>2, <1>3, <1>4, Zenon
        DEF Next, User, Run, PollSendingMessages, PollRetransmitRequest, HandleReceivedData,
            Remote, Tick, vars, table

\* Every step keeps messages filed right, unless it records why not.
LEMMA StepFiled ==
  ASSUME LeastElements, TypeOK, Connected, Unique, Ordered, raced = {} /\ ~gap => Filed, Routable,
         [Next]_vars
  PROVE  raced' = {} /\ ~gap' => Filed'
<1> SUFFICES ASSUME raced' = {}, ~gap', Filed PROVE Filed'
  BY RecordGrows, Zenon
<1>1. CASE Run
  <2>1. UNCHANGED <<setup, signals>>
    BY <1>1, Zenon DEF Run
  <2> QED BY <1>1, <2>1, PopFiled, SendFiled, RetransmitFiled, NotificationFiled, Zenon DEF Run
<1>2. ASSUME NEW d \in Peers, HandleReceivedData(d)
      PROVE  Filed'
  <2> DEFINE s == Head(signals[d])
  <2>1. /\ signals[d] # <<>> /\ signals[d] \in Seq(RateSignal \cup FlowSignal)
        /\ signals'[d] = Tail(signals[d])
        /\ \A c \in Peers \ {d} : signals'[c] = signals[c]
        /\ UNCHANGED <<setup, conn_metas, conn_meta_map, failed, finish, done>>
    BY <1>2, SignalCases, Zenon DEF TypeOK, PeerOK, peer, table
  <2>2. \A c \in Peers : /\ conn'[c].sending = conn[c].sending
                         /\ conn'[c].retransmitting = conn[c].retransmitting
                         /\ conn'[c].reqs = conn[c].reqs
    <3>1. conn' = conn \/ AdjustsRate(d, Adjusted(conn[d].rate, s.val))
      BY <1>2, SignalCases, Zenon
    <3> QED BY <3>1, Zenon DEF AdjustsRate
  <2>3. \A m \in Msgs : Dest(m) \in Peers
    BY SetupFacts, Zenon DEF TypeOK
  <2>4. \A m \in Msgs : Holds(signals'[Dest(m)], ReqSignal(m)) =>
                          Holds(signals[Dest(m)], ReqSignal(m))
    BY <2>1, <2>3, HoldsTail, Zenon
  <2>5. ASSUME NEW m \in Msgs, Holds(notification_queue', Req(m))
        PROVE  Holds(notification_queue, Req(m)) \/ Kept(m)
    <3>0. notification_queue \in Seq(Notification)
      BY Zenon DEF TypeOK, UserOK
    <3>1. CASE UNCHANGED notification_queue
      BY <2>5, <3>1, Zenon
    <3>2. ASSUME NEW x \in Msgs, notification_queue' = Append(notification_queue, Stop(x))
          PROVE  Holds(notification_queue, Req(m))
      BY <2>5, <3>0, <3>2, HoldsAppended, NotificationTypes, NotificationsDiffer, Zenon
    <3>3. ASSUME NEW x \in Msgs, s = ReqSignal(x),
                 notification_queue' = Append(notification_queue, Req(x))
          PROVE  Holds(notification_queue, Req(m)) \/ Kept(m)
      <4>1. Holds(notification_queue, Req(m)) \/ x = m
        <5>1. Req(x) \in Notification /\ (Req(m) = Req(x) => m = x)
          BY NotificationTypes, NotificationsDiffer, Zenon
        <5> QED BY <2>5, <3>0, <3>3, <5>1, HoldsAppended
      <4>2. Holds(signals[d], ReqSignal(x))
        BY <2>1, <3>3, HoldsTail, Zenon
      <4>3. Dest(x) = d
        BY <4>2, Zenon DEF Ordered, SignalsOf
      <4>4. Kept(x)
        BY <4>2, <4>3, Zenon DEF Filed, RequestsRight
      <4> QED BY <4>1, <4>4, Zenon
    <3> QED BY <1>2, <3>1, <3>2, <3>3, SignalCases, Zenon
  <2> QED BY <2>1, <2>2, <2>4, <2>5, FiledKept, Zenon
<1>3. CASE Remote
  <2>0. /\ UNCHANGED <<setup, conn_metas, conn_meta_map, failed, done, conn, notification_queue>>
        /\ signals \in [Peers -> Seq(RateSignal \cup FlowSignal)]
    BY <1>3, Zenon DEF Remote, table, TypeOK, PeerOK
  <2>1. \A m \in Msgs : Dest(m) \in Peers
    BY SetupFacts, Zenon DEF TypeOK
  <2>2. ASSUME NEW c \in Peers, NEW s \in RateSignal \cup FlowSignal,
               signals' = [signals EXCEPT ![c] = Append(signals[c], s)],
               NEW m \in Msgs, Holds(signals'[Dest(m)], ReqSignal(m))
        PROVE  Holds(signals[Dest(m)], ReqSignal(m)) \/ s = ReqSignal(m)
    <3>1. CASE Dest(m) # c
      BY <2>0, <2>1, <2>2, <3>1, Zenon
    <3>2. CASE Dest(m) = c
      BY <2>0, <2>1, <2>2, <3>2, HoldsAppended, Zenon
    <3> QED BY <3>1, <3>2, Zenon
  <2>3. ASSUME NEW c \in Peers, net[c] # <<>>, HandleReceive(c) \/ Lose(c)
        PROVE  Filed'
    <3>1. Receives(c) /\ finish' = finish
      BY <2>3, ReceiveEffect, Zenon
    <3>2. ASSUME NEW m \in Msgs, Holds(signals'[Dest(m)], ReqSignal(m))
          PROVE  Holds(signals[Dest(m)], ReqSignal(m))
      BY <2>2, <3>1, <3>2, SignalsDiffer DEF Receives
    <3> QED BY <2>0, <3>1, <3>2, FiledKept, Zenon
  <2>4. ASSUME NEW x \in Msgs, SendStop(x)
        PROVE  Filed'
    <3>1. /\ signals' = [signals EXCEPT ![Dest(x)] = Append(signals[Dest(x)], StopSignal(x))]
          /\ finish' = finish
      BY <2>4, FlowEffect, Zenon
    <3>2. ASSUME NEW m \in Msgs, Holds(signals'[Dest(m)], ReqSignal(m))
          PROVE  Holds(signals[Dest(m)], ReqSignal(m))
      <4>1. /\ StopSignal(x) \in RateSignal \cup FlowSignal /\ StopSignal(x) # ReqSignal(m)
            /\ Dest(x) \in Peers
        BY <2>1, SignalsDiffer, FlowSignalTypes, Zenon
      <4> QED BY <2>2, <3>1, <3>2, <4>1, Zenon
    <3> QED BY <2>0, <3>1, <3>2, FiledKept, Zenon
  <2>5. ASSUME NEW x \in Msgs, FinishFlow(x)
        PROVE  Filed'
    <3>1. /\ signals' = [signals EXCEPT ![Dest(x)] = Append(signals[Dest(x)], ReqSignal(x))]
          /\ x \in finish /\ x \notin stopping /\ finish' = finish \ {x}
      BY <2>5, FlowEffect, Zenon
    <3>2. Kept(x)
      BY <3>1, Zenon DEF Filed, RequestsRight, Ordered
    <3>3. ASSUME NEW m \in Msgs, Holds(signals'[Dest(m)], ReqSignal(m))
          PROVE  Holds(signals[Dest(m)], ReqSignal(m)) \/ Kept(m)
      <4>1. /\ ReqSignal(x) \in RateSignal \cup FlowSignal
            /\ ReqSignal(x) = ReqSignal(m) => x = m
            /\ Dest(x) \in Peers
        BY <2>1, SignalsDiffer, FlowSignalTypes, Zenon
      <4> QED BY <2>2, <3>1, <3>2, <3>3, <4>1, Zenon
    <3>4. \A m \in Msgs : Kept(m) => Kept(m)'
      BY <2>0, Zenon DEF Kept, Dest
    <3>5. RequestsRight'
      BY <2>0, <3>1, <3>3, <3>4, RequestsKept, Zenon DEF Filed
    <3>6. MessagesRight'
      <4>1. \A d \in Peers : conn[d].reqs \subseteq conn[d].retransmitting
        BY Zenon DEF Filed, MessagesRight
      <4> QED BY <2>0, <4>1, MessagesKept, Zenon DEF Filed
    <3> QED BY <2>0, <3>5, <3>6, SameTable, Zenon DEF Filed
  <2> QED BY <1>3, <2>3, <2>4, <2>5, Zenon DEF Remote
<1>4. CASE Tick
  <2>1. UNCHANGED <<setup, conn_metas, conn_meta_map, failed, finish, done, signals,
                    notification_queue>>
    BY <1>4, Zenon DEF Tick, table
  <2> QED BY <1>4, <2>1, TickEffect, FiledKept, Zenon
<1>5. CASE UNCHANGED vars
  <2>1. UNCHANGED <<setup, conn_metas, conn_meta_map, failed, finish, done, signals,
                    notification_queue, conn>>
    BY <1>5, Zenon DEF vars, table, peer
  <2> QED BY <2>1, FiledKept, Zenon
<1> QED BY <1>1, <1>2, <1>3, <1>4, <1>5, UserFiled, Zenon DEF Next

-----------------------------------------------------------------------------
(***************************************************************************)
(* The inductive invariant.                                                *)
(***************************************************************************)
\* Every queue, and the table, is empty.
LEMMA InitInvariant ==
  ASSUME Init, Channel.ok
  PROVE  IInv
<1>1. TypeOK /\ Connected
  BY InitConnected, Zenon
<1>2. /\ posted = {} /\ done = {} /\ sr_queue = <<>> /\ notification_queue = <<>>
      /\ conn_metas = <<>> /\ conn_meta_map = << >> /\ finish = {} /\ stopping = {}
      /\ conn = [d \in Peers |-> NewConn] /\ signals = [d \in Peers |-> <<>>]
  BY Zenon DEF Init, Peers
<1>3. failed = ~Channel.ok
  BY Zenon DEF Init
<1>4. Len(<<>>) = 0 /\ 1 .. 0 = {}
  OBVIOUS
<1>5. \A x, y : /\ ~Holds(<<>>, x) /\ NoneAfter(<<>>, x, y) /\ NoRepeat(<<>>)
  BY <1>4, Zenon DEF Holds, NoneAfter, NoRepeat
<1>6. \A d \in Peers : /\ conn[d].sending = {} /\ conn[d].retransmitting = {} /\ conn[d].reqs = {}
                       /\ signals[d] = <<>>
  BY <1>2, Zenon DEF NewConn
<1>7. \A m \in Msgs : Dest(m) \in Peers
  BY <1>1, SetupFacts, Zenon DEF TypeOK
<1>8. Unique
  BY <1>2, <1>5, <1>6, Zenon DEF Unique, InConn
<1>9. Ordered
  BY <1>2, <1>5, <1>6, <1>7, Zenon DEF Ordered, NotificationsOf, SignalsOf
<1>10. Filed
  <2>1. ~failed
    BY <1>3, Zenon
  <2>2. TableRight
    <3>1. Table = {} /\ DOMAIN conn_meta_map = {}
      BY <1>2 DEF Table, Range
    <3> QED BY <1>2, <1>4, <3>1, Zenon DEF TableRight
  <2>3. MessagesRight
    BY <1>6, Zenon DEF MessagesRight
  <2>4. RequestsRight
    BY <1>2, <1>5, <1>6, <1>7, Zenon DEF RequestsRight
  <2> QED BY <2>1, <2>2, <2>3, <2>4, Zenon DEF Filed
<1> QED BY <1>1, <1>8, <1>9, <1>10, Zenon DEF IInv

\* Every step preserves it, when every packet can be routed.
LEMMA StepInvariant ==
  ASSUME LeastElements, IInv, Routable, [Next]_vars
  PROVE  IInv'
<1>1. TypeOK' /\ Connected' /\ Unique' /\ Ordered'
  BY StepTypes, StepConnected, StepUnique, StepOrdered, Zenon DEF IInv
<1>2. raced' = {} /\ ~gap' => Filed'
  BY StepFiled, Zenon DEF IInv
<1> QED BY <1>1, <1>2, Zenon DEF IInv

\* What a place in the table gives.
LEMMA FiledGivesRight ==
  ASSUME IInv
  PROVE  FiledRight
<1> SUFFICES ASSUME raced = {}, ~gap
             PROVE  /\ ~failed
                    /\ \A d \in Peers :
                         \A m \in conn[d].sending \cup conn[d].retransmitting \cup conn[d].reqs :
                           Dest(m) = d
                    /\ \A d \in DOMAIN conn_meta_map : InTable(d) /\ FindConnMetaById(d) = d
                    /\ DOMAIN conn_meta_map = Table
  BY Zenon DEF FiledRight
<1>1. Filed
  BY Zenon DEF IInv
<1>2. conn_metas \in Seq(Peers) /\ Table = {conn_metas[i] : i \in 1 .. Len(conn_metas)}
  BY DEF IInv, TypeOK, TableOK, Table, Range
<1>3. ASSUME NEW d \in DOMAIN conn_meta_map
      PROVE  InTable(d) /\ FindConnMetaById(d) = d
  <2>1. PICK i \in 1 .. Len(conn_metas) : conn_metas[i] = d
    BY <1>1, <1>2, Zenon DEF Filed, TableRight
  <2>2. IndexOf(d) = i - 1
    BY <1>1, <2>1, Zenon DEF Filed, TableRight, IndexOf
  <2>3. i - 1 < Len(conn_metas) /\ (i - 1) + 1 = i
    BY <1>2
  <2> QED BY <2>1, <2>2, <2>3, Zenon DEF InTable, FindConnMetaById
<1> QED BY <1>1, <1>3, Zenon DEF Filed, MessagesRight, TableRight

-----------------------------------------------------------------------------
\* Least elements and induction on the natural numbers, for sets of them.

INSTANCE WellFoundedInduction

\* A non-empty set of natural numbers has a least element.
LEMMA LeastExists ==
  ASSUME NEW T \in SUBSET Nat, T # {}
  PROVE  \E x \in T : \A y \in T : x <= y
<1> DEFINE R == {p \in Nat \X Nat : p[1] < p[2]}
<1>1. IsWellFoundedOn(R, Nat)
  BY NatLessThanWellFounded, Zenon DEF OpToRel
<1> HIDE DEF R
<1>2. PICK x \in T : \A y \in T : ~ (<<y, x>> \in R)
  BY <1>1, WFMin, Zenon
<1>3. ASSUME NEW y \in T, y < x
      PROVE  FALSE
  <2>1. <<y, x>> \in Nat \X Nat
    BY Zenon
  <2>2. <<y, x>> \in R
    BY <2>1, <1>3, Zenon DEF R
  <2> QED BY <2>2, <1>2, Zenon
<1> QED BY <1>3

\* The hypothesis of the lemmas about the ids of connections holds.
LEMMA LeastHold == LeastElements
BY LeastExists, Zenon DEF LeastElements

\* Induction: a set of natural numbers with 0 and, with n, n + 1 has them all.
LEMMA SetInduction ==
  ASSUME NEW S, 0 \in S, \A n \in Nat : n \in S => n + 1 \in S
  PROVE  Nat \subseteq S
<1> SUFFICES ASSUME Nat \ S # {} PROVE FALSE
  BY Zenon
<1>1. PICK x \in Nat \ S : \A y \in Nat \ S : x <= y
  BY LeastExists, Zenon
<1>2. x # 0 /\ x - 1 \in Nat
  BY <1>1
<1>3. x - 1 \in S
  BY <1>1, <1>2
<1> QED BY <1>1, <1>2, <1>3

-----------------------------------------------------------------------------
(***************************************************************************)
(* The endpoints that Start opens, and the types of service that packets   *)
(* are given.                                                              *)
(***************************************************************************)
Opened(n, g) == /\ DOMAIN g = 0 .. n /\ g[0] = NewChannel
                /\ \A k \in 1 .. n : g[k] = AddEndpoint(g[k - 1], Endpoints[k])

\* The channels that Start goes through exist as a function.
LEMMA OpenedExists ==
  ASSUME NEW n \in Nat
  PROVE  \E g : Opened(n, g)
<1> DEFINE S == {k \in Nat : \E g : Opened(k, g)}
<1>1. 0 \in S
  <2> DEFINE g == [k \in 0 .. 0 |-> NewChannel]
  <2>1. Opened(0, g)
    BY DEF Opened
  <2> QED BY <2>1, Zenon
<1>2. ASSUME NEW k \in Nat, k \in S
      PROVE  k + 1 \in S
  <2>1. PICK g : Opened(k, g)
    BY <1>2, Zenon
  <2> DEFINE h == [i \in 0 .. k + 1 |->
                     IF i = k + 1 THEN AddEndpoint(g[k], Endpoints[k + 1]) ELSE g[i]]
  <2>2. h[0] = NewChannel
    BY <2>1 DEF Opened
  <2>3. ASSUME NEW i \in 1 .. k + 1
        PROVE  h[i] = AddEndpoint(h[i - 1], Endpoints[i])
    <3>1. CASE i = k + 1
      <4>1. h[i - 1] = g[k] /\ h[i] = AddEndpoint(g[k], Endpoints[k + 1])
        BY <3>1
      <4> QED BY <3>1, <4>1, Zenon
    <3>2. CASE i # k + 1
      <4>1. i \in 1 .. k /\ h[i] = g[i] /\ h[i - 1] = g[i - 1]
        BY <3>2
      <4> QED BY <2>1, <4>1, Zenon DEF Opened
    <3> QED BY <3>1, <3>2, Zenon
  <2>4. Opened(k + 1, h)
    BY <2>2, <2>3, Zenon DEF Opened
  <2> QED BY <2>4
<1> HIDE DEF S
<1>3. n \in S
  BY <1>1, <1>2, SetInduction, Zenon
<1> QED BY <1>3, Zenon DEF S

\* Start opens one endpoint after another.
LEMMA StartedIs ==
  ASSUME NumPriorities \in Nat
  PROVE  Opened(2 * NumPriorities, Started)
<1> DEFINE n == 2 * NumPriorities
           F(f) == [k \in 0 .. n |-> IF k = 0 THEN NewChannel ELSE AddEndpoint(f[k - 1], Endpoints[k])]
<1>1. n \in Nat
  OBVIOUS
<1>2. PICK g : Opened(n, g)
  BY <1>1, OpenedExists, Zenon
<1> DEFINE h == [k \in 0 .. n |-> g[k]]
<1>3. h = F(h)
  <2>1. ASSUME NEW k \in 0 .. n
        PROVE  h[k] = F(h)[k]
    <3>1. CASE k = 0
      BY <1>2, <3>1, Zenon DEF Opened
    <3>2. CASE k # 0
      <4>1. k \in 1 .. n /\ k - 1 \in 0 .. n
        BY <1>1, <3>2
      <4> QED BY <1>2, <3>2, <4>1, Zenon DEF Opened
    <3> QED BY <3>1, <3>2, Zenon
  <2> QED BY <2>1, Zenon
<1>4. Started = F(Started)
  <2>1. Started = CHOOSE f : f = F(f)
    BY Zenon DEF Started
  <2> QED BY <1>3, <2>1, Zenon
<1>5. DOMAIN Started = 0 .. n /\ Started[0] = NewChannel
  BY <1>1, <1>4
<1>6. ASSUME NEW k \in 1 .. n
      PROVE  Started[k] = AddEndpoint(Started[k - 1], Endpoints[k])
  BY <1>1, <1>4
<1> QED BY <1>5, <1>6, Zenon DEF Opened

\* The type of service of the kth endpoint: a DSCP, and ECN 1 before ECN 0.
LEMMA EndpointIs ==
  ASSUME NumPriorities \in Nat, NEW k \in 1 .. 2 * NumPriorities
  PROVE  \E q \in Nat, v \in {0, 1} : Endpoints[k] = 32 * q + v /\ k = 2 * q + 2 - v
<1> DEFINE q == (k - 1) \div 2  v == k % 2
<1>1. Endpoints[k] = q * 8 * 4 + v
  BY Zenon DEF Endpoints, UdpEndpoint
<1>2. q \in Nat /\ v \in {0, 1} /\ k = 2 * q + 2 - v
  OBVIOUS
<1> HIDE DEF q, v
<1>3. Endpoints[k] = 32 * q + v
  BY <1>1, <1>2
<1> QED BY <1>2, <1>3, Zenon

\* What AddEndpoint makes of a channel.
LEMMA AddEndpointIs ==
  ASSUME NEW c, NEW tos
  PROVE  /\ AddEndpoint(c, tos).prio_mapping = [c.prio_mapping EXCEPT ![tos] = c.size]
         /\ AddEndpoint(c, tos).size = c.size + 1
  BY Zenon DEF AddEndpoint

\* When AddEndpoint's CHECKs hold.
LEMMA AddEndpointOk ==
  ASSUME NEW c, NEW tos
  PROVE  AddEndpoint(c, tos).ok <=> c.ok /\ tos < kMaxPrio /\ c.prio_mapping[tos] = -1
<1>1. AddEndpoint(c, tos).ok = (c.ok /\ tos < kMaxPrio /\ c.prio_mapping[tos] = -1)
  BY Zenon DEF AddEndpoint
<1> QED BY <1>1, Zenon

\* The first sixteen endpoints are distinct, and prio_mapping_ knows them and
\* no other.
OpenedRight(k) ==
  /\ Started[k].size = k
  /\ Started[k].prio_mapping \in [0 .. 255 -> Int]
  /\ \A j \in 1 .. k : Started[k].prio_mapping[Endpoints[j]] = j - 1
  /\ \A tos \in 0 .. 255 :
       Started[k].prio_mapping[tos] # -1 => \E j \in 1 .. k : tos = Endpoints[j]

\* One entry more in prio_mapping_.
LEMMA MappedOne ==
  ASSUME NEW T, NEW M \in [T -> Int], NEW tos \in T, NEW i \in Int
  PROVE  LET N == [M EXCEPT ![tos] = i]
         IN N \in [T -> Int] /\ N[tos] = i /\ \A t \in T \ {tos} : N[t] = M[t]
  BY Zenon

\* One endpoint more, up to the sixteenth.
LEMMA OpenedMore ==
  ASSUME NumPriorities \in Nat, NEW i \in Nat, i + 1 <= 2 * NumPriorities, i + 1 <= 16,
         OpenedRight(i), Started[i].ok
  PROVE  OpenedRight(i + 1) /\ Started[i + 1].ok
<1> DEFINE tos == Endpoints[i + 1]
           M == Started[i].prio_mapping
           N == Started[i + 1].prio_mapping
<1>1. i + 1 \in 1 .. 2 * NumPriorities /\ (i + 1) - 1 = i
  OBVIOUS
<1>2. Started[i + 1] = AddEndpoint(Started[i], tos)
  BY <1>1, StartedIs, Zenon DEF Opened
<1>3. tos \in 0 .. 255 /\ \A j \in 1 .. i : Endpoints[j] \in 0 .. 255 /\ Endpoints[j] # tos
  <2>1. PICK q \in Nat, v \in {0, 1} : tos = 32 * q + v /\ i + 1 = 2 * q + 2 - v
    BY <1>1, EndpointIs, Zenon
  <2>2. tos \in 0 .. 255
    BY <2>1
  <2>3. ASSUME NEW j \in 1 .. i
        PROVE  Endpoints[j] \in 0 .. 255 /\ Endpoints[j] # tos
    <3>1. PICK r \in Nat, w \in {0, 1} : Endpoints[j] = 32 * r + w /\ j = 2 * r + 2 - w
      BY <1>1, EndpointIs
    <3> QED BY <2>1, <3>1
  <2> QED BY <2>2, <2>3, Zenon
<1>4. Started[i].size = i /\ M \in [0 .. 255 -> Int]
  BY Zenon DEF OpenedRight
<1>5. N = [M EXCEPT ![tos] = i] /\ Started[i + 1].size = i + 1
  <2>1. /\ AddEndpoint(Started[i], tos).prio_mapping = [M EXCEPT ![tos] = Started[i].size]
        /\ AddEndpoint(Started[i], tos).size = Started[i].size + 1
    BY AddEndpointIs, Zenon
  <2> QED BY <1>2, <1>4, <2>1, Zenon
<1>6. Started[i + 1].ok <=> Started[i].ok /\ tos < kMaxPrio /\ M[tos] = -1
  <2>1. AddEndpoint(Started[i], tos).ok <=> Started[i].ok /\ tos < kMaxPrio /\ M[tos] = -1
    BY AddEndpointOk, Zenon
  <2> QED BY <1>2, <2>1, Zenon
<1>7. tos = Endpoints[i + 1] /\ \A j \in 1 .. i : M[Endpoints[j]] = j - 1
  BY Zenon DEF OpenedRight
<1>8. \A t \in 0 .. 255 : M[t] # -1 => \E j \in 1 .. i : t = Endpoints[j]
  BY Zenon DEF OpenedRight
<1> HIDE DEF tos, M, N
<1>9. N \in [0 .. 255 -> Int] /\ N[tos] = i /\ \A t \in (0 .. 255) \ {tos} : N[t] = M[t]
  <2>1. tos \in 0 .. 255
    BY <1>3, Zenon
  <2>2. M \in [0 .. 255 -> Int] /\ i \in Int
    BY <1>4
  <2> QED BY <1>5, <2>1, <2>2, MappedOne, Zenon
<1>10. M[tos] = -1
  BY <1>3, <1>8, Zenon
<1>11. tos < kMaxPrio
  BY <1>3 DEF kMaxPrio
<1>12. Started[i + 1].ok
  BY <1>6, <1>10, <1>11, Zenon
<1>13. ASSUME NEW j \in 1 .. i + 1
       PROVE  N[Endpoints[j]] = j - 1
  <2>0. j = i + 1 \/ j \in 1 .. i
    OBVIOUS
  <2>1. CASE j = i + 1
    BY <1>1, <1>7, <1>9, <2>1, Zenon
  <2>2. CASE j \in 1 .. i
    <3>1. Endpoints[j] \in (0 .. 255) \ {tos} /\ M[Endpoints[j]] = j - 1
      BY <1>3, <1>7, <2>2, Zenon
    <3> QED BY <1>9, <3>1, Zenon
  <2> QED BY <2>0, <2>1, <2>2, Zenon
<1>14. ASSUME NEW t \in 0 .. 255, N[t] # -1
       PROVE  \E j \in 1 .. i + 1 : t = Endpoints[j]
  <2>0. i + 1 \in 1 .. i + 1 /\ \A j \in 1 .. i : j \in 1 .. i + 1
    OBVIOUS
  <2>1. CASE t = tos
    BY <1>7, <2>0, <2>1, Zenon
  <2>2. CASE t # tos
    <3>1. N[t] = M[t]
      BY <1>9, <2>2, Zenon
    <3>2. PICK j \in 1 .. i : t = Endpoints[j]
      BY <1>8, <1>14, <3>1, Zenon
    <3> QED BY <2>0, <3>2, Zenon
  <2> QED BY <2>1, <2>2, Zenon
<1>15. OpenedRight(i + 1)
  BY <1>5, <1>9, <1>13, <1>14, Zenon DEF OpenedRight, N
<1> QED BY <1>12, <1>15, Zenon

\* The first sixteen endpoints are opened right.
LEMMA StartedRight ==
  ASSUME NumPriorities \in Nat, NEW k \in 0 .. 2 * NumPriorities, k <= 16
  PROVE  OpenedRight(k) /\ Started[k].ok
<1> DEFINE S == {i \in Nat : i <= 2 * NumPriorities /\ i <= 16 => OpenedRight(i) /\ Started[i].ok}
<1>1. 0 \in S
  <2>1. Started[0] = NewChannel
    BY StartedIs, Zenon DEF Opened
  <2>2. kMaxPrio - 1 = 255
    BY DEF kMaxPrio
  <2>3. Started[0].size = 0 /\ Started[0].prio_mapping = [tos \in 0 .. 255 |-> -1]
    BY <2>1, <2>2 DEF NewChannel
  <2>4. Started[0].ok
    <3>1. NewChannel.ok = TRUE
      BY Zenon DEF NewChannel
    <3> QED BY <2>1, <3>1, Zenon
  <2>5. OpenedRight(0)
    BY <2>3 DEF OpenedRight
  <2> QED BY <2>4, <2>5, Zenon
<1>2. ASSUME NEW i \in Nat, i \in S
      PROVE  i + 1 \in S
  BY <1>2, OpenedMore
<1> HIDE DEF S
<1>3. k \in S
  BY <1>1, <1>2, SetInduction
<1> QED BY <1>3 DEF S

\* The seventeenth endpoint has no place in prio_mapping_.
LEMMA StartedWrong ==
  ASSUME NumPriorities \in Nat, NEW k \in 17 .. 2 * NumPriorities
  PROVE  ~Started[k].ok
<1> DEFINE S == {i \in Nat : 17 + i <= 2 * NumPriorities => ~Started[17 + i].ok}
<1>0. ASSUME NEW i \in 1 .. 2 * NumPriorities, Started[i].ok
      PROVE  Started[i - 1].ok /\ Endpoints[i] < kMaxPrio
  <2>1. Started[i] = AddEndpoint(Started[i - 1], Endpoints[i])
    BY StartedIs, Zenon DEF Opened
  <2>2. AddEndpoint(Started[i - 1], Endpoints[i]).ok =>
          Started[i - 1].ok /\ Endpoints[i] < kMaxPrio
    BY AddEndpointOk, Zenon
  <2> QED BY <1>0, <2>1, <2>2, Zenon
<1>1. 0 \in S
  <2> SUFFICES ASSUME 17 <= 2 * NumPriorities PROVE ~Started[17].ok
    OBVIOUS
  <2>1. PICK q \in Nat, v \in {0, 1} : Endpoints[17] = 32 * q + v /\ 17 = 2 * q + 2 - v
    BY EndpointIs
  <2>2. ~(Endpoints[17] < kMaxPrio) /\ 17 \in 1 .. 2 * NumPriorities
    BY <2>1 DEF kMaxPrio
  <2> QED BY <1>0, <2>2, Zenon
<1>2. ASSUME NEW i \in Nat, i \in S
      PROVE  i + 1 \in S
  <2> SUFFICES ASSUME 17 + (i + 1) <= 2 * NumPriorities PROVE ~Started[17 + (i + 1)].ok
    OBVIOUS
  <2>1. /\ ~Started[17 + i].ok /\ 17 + (i + 1) \in 1 .. 2 * NumPriorities
        /\ (17 + (i + 1)) - 1 = 17 + i
    BY <1>2
  <2> QED BY <1>0, <2>1, Zenon
<1>3. k - 17 \in Nat /\ 17 + (k - 17) = k /\ k <= 2 * NumPriorities
  OBVIOUS
<1> HIDE DEF S
<1>4. k - 17 \in S
  BY <1>1, <1>2, <1>3, SetInduction, Zenon
<1> QED BY <1>3, <1>4, Zenon DEF S

\* Whatever MLT_NUM_PRIO and MLT_NUM_QUEUES are, AddEndpoint's CHECK of every
\* type of service holds, and RoutePacket finds an endpoint for every type of
\* service that DefaultPktPrioFunc may give a packet, exactly when the lesser
\* of the two is eight: with fewer some packets have no endpoint, with more
\* an endpoint does not fit prio_mapping_.
THEOREM EightPriorities ==
  ASSUME NumPriorities \in Nat
  PROVE  Channel.ok /\ Routable <=> NumPriorities = 8
<1>1. ASSUME NumPriorities = 8
      PROVE  Channel.ok /\ Routable
  <2>1. OpenedRight(16) /\ Started[16].ok /\ Channel = Started[16]
    BY <1>1, StartedRight DEF Channel
  <2>2. ASSUME NEW u \in 0 .. 7, NEW v \in 0 .. 1
        PROVE  HasPrio(u * 8 * 4 + v)
    <3> DEFINE j == 2 * u + 2 - v  tos == u * 8 * 4 + v
    <3>1. j \in 1 .. 16 /\ j \in 1 .. 2 * NumPriorities
      BY <1>1
    <3>2. Endpoints[j] = tos
      <4>1. PICK q \in Nat, w \in {0, 1} : Endpoints[j] = 32 * q + w /\ j = 2 * q + 2 - w
        BY <3>1, EndpointIs, Zenon
      <4> QED BY <4>1
    <3>3. tos \in 0 .. kMaxPrio - 1 /\ j - 1 # -1
      BY <3>1 DEF kMaxPrio
    <3>4. \A i \in 1 .. 16 : Channel.prio_mapping[Endpoints[i]] = i - 1
      BY <2>1, Zenon DEF OpenedRight
    <3> HIDE DEF j, tos
    <3>5. Channel.prio_mapping[tos] = j - 1
      BY <3>1, <3>2, <3>4, Zenon
    <3>6. HasPrio(tos)
      BY <3>3, <3>5, Zenon DEF HasPrio
    <3> QED BY <3>6, Zenon DEF tos
  <2>3. Routable
    BY <2>2 DEF Routable, PktPrioFunc, Uniform
  <2>4. Channel.ok
    BY <2>1, Zenon
  <2> QED BY <2>3, <2>4, Zenon
<1>2. ASSUME NumPriorities < 8, Routable
      PROVE  FALSE
  <2> DEFINE n == 2 * NumPriorities
  <2>1. OpenedRight(n) /\ Channel = Started[n] /\ n \in Nat /\ n < 16
    BY <1>2, StartedRight DEF Channel
  <2>2. 224 = 7 * 8 * 4 + 0 /\ 7 \in Uniform(0, 7) /\ 0 \in Uniform(0, 1)
    BY DEF Uniform
  <2>3. HasPrio(224)
    BY <1>2, <2>2 DEF Routable, PktPrioFunc
  <2>4. PICK j \in 1 .. n : 224 = Endpoints[j]
    <3>1. \A tos \in 0 .. 255 : Channel.prio_mapping[tos] # -1 =>
                                  \E j \in 1 .. n : tos = Endpoints[j]
      BY <2>1, Zenon DEF OpenedRight
    <3>2. Channel.prio_mapping[224] # -1 /\ 224 \in 0 .. 255
      BY <2>3 DEF HasPrio
    <3> QED BY <3>1, <3>2, ZenonT(40)
  <2>5. PICK q \in Nat, w \in {0, 1} : Endpoints[j] = 32 * q + w /\ j = 2 * q + 2 - w
    BY EndpointIs, Zenon
  <2> QED BY <2>1, <2>4, <2>5
<1>3. ASSUME NumPriorities > 8
      PROVE  ~Channel.ok
  <2>1. 2 * NumPriorities \in 17 .. 2 * NumPriorities
    BY <1>3
  <2> QED BY <2>1, StartedWrong, Zenon DEF Channel
<1>4. NumPriorities = 8 \/ NumPriorities < 8 \/ NumPriorities > 8
  OBVIOUS
<1> QED BY <1>1, <1>2, <1>3, <1>4, Zenon

-----------------------------------------------------------------------------
\* Messages are filed right (PopSendRequest, PollNotification and the CHECKs of
\* the thread), whatever the interleaving of user, thread, reliable channel,
\* peers and clock, and for any number of connections and messages, if Start
\* opened the endpoints that packets need: EightPriorities says when it does.
THEOREM MessagesAreFiledRight ==
  ASSUME Channel.ok /\ Routable
  PROVE  Spec => []FiledRight
<1>1. Init => IInv
  BY InitInvariant, Zenon
<1>2. IInv /\ [Next]_vars => IInv'
  BY LeastHold, StepInvariant, Zenon
<1>3. IInv => FiledRight
  BY FiledGivesRight, Zenon
<1> QED BY <1>1, <1>2, <1>3, PTL DEF Spec
=============================================================================

--------------------------- MODULE PriorityChannel ---------------------------
(***************************************************************************)
(* The thread of a PriorityChannel: its table of connections, and the rate *)
(* at which it sends.  The user adds connections, posts messages and       *)
(* removes connections; the thread learns of them from sr_queue_ and       *)
(* notification_queue_, which it empties at different points of its loop.  *)
(* Every connection is paced: tx_meter measures what is sent, the peer's   *)
(* rx_meter what arrives, and the peer's RateAdjustment signals move       *)
(* sending_rate.  Which packets a peer asks for again is in MltFlow and    *)
(* RetransmitBlocks; here a peer stops a message, or asks for one packet.  *)
(* A clock is an age that stops at the setup's horizon, by when everything *)
(* could have been sent at the initial rate.                               *)
(***************************************************************************)
EXTENDS Packetizer, Sequences, FiniteSets, FiniteSetsExt, Functions

CONSTANTS Setups,     \* [peers, dest, size, rate, horizon, removes]
          NumPrio, NumQueues,   \* MLT_NUM_PRIO, MLT_NUM_QUEUES
          Header,     \* kGradPacketHeader
          Interval    \* RateMonitorIntervalUs

ASSUME ChannelAssumption == Header \in Nat \ {0} /\ Interval \in Nat \ {0}

\* A connection is made to every peer once, and every message, numbered by its
\* id, is for one of them.
ASSUME SetupsAssumption == \A s \in Setups :
  /\ s.peers \in Seq(Range(s.peers)) /\ IsInjective(s.peers)
  /\ DOMAIN s.dest \subseteq Nat /\ s.dest \in [DOMAIN s.dest -> Range(s.peers)]
  /\ s.size \in [DOMAIN s.dest -> Nat]
  /\ s.rate \in Nat /\ s.horizon \in Nat /\ s.removes \in BOOLEAN

VARIABLES setup,      \* peers in the order of AddConnection, the messages, the rate
          added,      \* peers for which AddConnection was called
          id_conn,    \* peers with a ConnMeta
          leaving,    \* peers for which RemoveConnection was called
          posted, done,         \* messages given to PostSend, and completed
          sr_queue, notification_queue,
          pc,                   \* where the thread is in its loop
          conn_metas, conn_meta_map,
          conn,       \* conn[d]: the ConnMeta of d
          bytes_sent, \* bytes_sent[m]: of its first transmission
          net,        \* net[d]: packets on the way to d
          rx_meter,   \* rx_meter[d]: at d
          heard, finish,        \* messages d has packets, a FlowFinish of
          stopping,             \* messages d has stopped
          signals,    \* signals[d]: on the reliable channel from d
          raced,      \* messages whose connection was looked up in vain
          gap,        \* a connection was removed from before another
          failed,     \* a CHECK failed, or the table was read beyond its end
          record      \* record[d]: age, highest rate, bytes of first transmissions

user == <<added, id_conn, leaving, posted, sr_queue>>
table == <<conn_metas, conn_meta_map, raced, gap>>
peer == <<net, rx_meter, heard, finish, stopping>>
vars == <<setup, user, done, notification_queue, pc, table, conn, bytes_sent,
          peer, signals, failed, record>>

Peers == Range(setup.peers)
Msgs == DOMAIN setup.dest
Dest(m) == setup.dest[m]
Size(m) == setup.size[m]
InitialSendingRate == setup.rate

-----------------------------------------------------------------------------
\* The UDP endpoints, one for every type of service, that Start opens.

kMaxPrio == 256
NewChannel == [prio_mapping |-> [tos \in 0 .. kMaxPrio - 1 |-> -1], size |-> 0, ok |-> TRUE]

\* An endpoint is its type of service: the DSCP, then two bits of ECN.
UdpEndpoint(dscp, ecn) == dscp * 4 + ecn

AddEndpoint(channel, tos) ==
  [prio_mapping |-> [channel.prio_mapping EXCEPT ![tos] = channel.size],
   size |-> channel.size + 1,
   ok |-> channel.ok /\ tos < kMaxPrio /\ channel.prio_mapping[tos] = -1]

NumPriorities == Min({NumPrio, NumQueues})
Endpoints == [k \in 1 .. 2 * NumPriorities |-> UdpEndpoint(((k - 1) \div 2) * 8, k % 2)]
Started[k \in 0 .. 2 * NumPriorities] ==
  IF k = 0 THEN NewChannel ELSE AddEndpoint(Started[k - 1], Endpoints[k])
Channel == Started[2 * NumPriorities]

HasPrio(tos) == tos \in 0 .. kMaxPrio - 1 /\ Channel.prio_mapping[tos] # -1

\* The types of service that DefaultPktPrioFunc may give a packet.
Uniform(a, b) == a .. b
PktPrioFunc == {u * 8 * 4 + v : u \in Uniform(0, 7), v \in Uniform(0, 1)}

\* RoutePacket takes the endpoint of the packet's type of service for granted.
Routable == \A tos \in PktPrioFunc : HasPrio(tos)

-----------------------------------------------------------------------------
\* RateMeter: bytes since tp_, which is age ago.

Older(age) == Min({age + 1, setup.horizon})
Update(meter, add) == [meter EXCEPT !.bytes = @ + add]
Elapsed(meter) == meter.age >= Interval
Cleared == [bytes |-> 0, age |-> 0]

\* Mutant: the bytes are forgotten, the time they took is not.
Clear_Bytes(meter) == [meter EXCEPT !.bytes = 0]

Clear(meter) == Cleared

\* TryBytesPerSecond(extra) > rate; infinite when no time has passed.
Exceeds(meter, extra, rate) == meter.age = 0 \/ meter.bytes + extra > rate * meter.age

GetBytesPerSecond(meter) == meter.bytes \div meter.age

\* What a packet is charged: the next one of the message.  Of a message that
\* has been sent, the header.
GetBytes(m, accumulated) == PayloadAt(Size(m), accumulated) + Header

\* ConnMeta's constructor.
NewConn == [sending |-> {}, retransmitting |-> {}, reqs |-> {},
            rate |-> InitialSendingRate, tx_meter |-> Cleared]

Init == /\ setup \in Setups
        /\ LET P == Range(setup.peers)
           IN /\ conn = [d \in P |-> NewConn]
              /\ net = [d \in P |-> <<>>] /\ signals = [d \in P |-> <<>>]
              /\ rx_meter = [d \in P |-> Cleared]
              /\ record = [d \in P |-> [age |-> 0, peak |-> setup.rate, first |-> 0]]
        /\ added = {} /\ id_conn = {} /\ leaving = {} /\ posted = {} /\ done = {}
        /\ sr_queue = <<>> /\ notification_queue = <<>> /\ pc = "sr"
        /\ conn_metas = <<>> /\ conn_meta_map = << >>
        /\ bytes_sent = [m \in DOMAIN setup.dest |-> 0]
        /\ heard = {} /\ finish = {} /\ stopping = {}
        /\ raced = {} /\ gap = FALSE /\ failed = ~Channel.ok
-----------------------------------------------------------------------------
\* The user: connects to every peer, posts the messages, and removes a
\* connection when its messages are complete.

Notify(n) == notification_queue' = Append(notification_queue, n)

\* Either side of a connection makes a ConnMeta and notifies the thread.  The
\* peer's meter may have started earlier.
AddConnection(d) ==
  /\ d \notin added
  /\ \A i \in 1 .. Len(setup.peers) :
       setup.peers[i] = d => \A j \in 1 .. i - 1 : setup.peers[j] \in added
  /\ added' = added \cup {d} /\ id_conn' = id_conn \cup {d}
  /\ Notify([type |-> "ADD_CONNECTION", id |-> d])
  /\ \E age \in {0, Interval} : /\ age <= setup.horizon
                                /\ rx_meter' = [rx_meter EXCEPT ![d].age = age]
  /\ UNCHANGED <<leaving, posted, sr_queue, net, heard, finish, stopping>>

PostSend(m) ==
  /\ added = Peers /\ m \notin posted
  /\ posted' = posted \cup {m}
  /\ sr_queue' = Append(sr_queue, m)
  /\ UNCHANGED <<added, id_conn, leaving, notification_queue, peer>>

RemoveConnection(d) ==
  /\ setup.removes /\ added = Peers /\ d \notin leaving
  /\ {m \in Msgs : Dest(m) = d} \subseteq done
  /\ leaving' = leaving \cup {d}
  /\ Notify([type |-> "REMOVE_CONNECTION", id |-> d])
  /\ UNCHANGED <<added, id_conn, posted, sr_queue, peer>>

User == /\ \/ \E d \in Peers : AddConnection(d)
           \/ \E m \in Msgs : PostSend(m)
           \/ \E d \in Peers : RemoveConnection(d)
        /\ UNCHANGED <<setup, done, pc, table, conn, bytes_sent, signals, failed, record>>
-----------------------------------------------------------------------------
\* The thread.  Bound: one round of polling, of the 100 in an iteration; more of
\* them are iterations that find both queues empty.

\* The place of id in conn_metas_; operator[] makes an entry for an unknown id.
IndexOf(id) == IF id \in DOMAIN conn_meta_map THEN conn_meta_map[id] ELSE 0
InTable(id) == IndexOf(id) < Len(conn_metas)
FindConnMetaById(id) == conn_metas[IndexOf(id) + 1]

\* map[key] = value.
Put(map, key, value) ==
  [k \in DOMAIN map \cup {key} |-> IF k = key THEN value ELSE map[k]]

\* What looking up the connection of message m does to the table.
Lookup(m) ==
  /\ conn_meta_map' = Put(conn_meta_map, Dest(m), IndexOf(Dest(m)))
  /\ raced' = IF Dest(m) \in DOMAIN conn_meta_map THEN raced ELSE raced \cup {m}
  /\ UNCHANGED <<conn_metas, gap>>

\* sr_queue_ is emptied into the connections.
PopSendRequest ==
  LET m == Head(sr_queue)  c == FindConnMetaById(Dest(m))
  IN /\ pc = "sr"
     /\ IF sr_queue = <<>>
        THEN pc' = "send" /\ UNCHANGED <<sr_queue, table, conn, failed>>
        ELSE /\ sr_queue' = Tail(sr_queue)
             /\ Lookup(m)
             /\ IF InTable(Dest(m)) /\ m \notin conn[c].sending
                THEN /\ conn' = [conn EXCEPT ![c].sending = @ \cup {m}]
                     /\ UNCHANGED failed
                ELSE failed' = TRUE /\ UNCHANGED conn
             /\ UNCHANGED pc
     /\ UNCHANGED <<added, id_conn, leaving, posted, done, notification_queue, bytes_sent, peer,
                    record>>

\* The messages a round looks at, the least id of each connection first.
Table == Range(conn_metas)
Next1(c) == Min(conn[c].sending)
Request(c) == Min(conn[c].reqs)

\* Mutant: a window that is over is closed before the throttle is asked.
Throttled_ClearFirst(c, nbytes) ==
  Exceeds(IF Elapsed(conn[c].tx_meter) THEN Cleared ELSE conn[c].tx_meter, nbytes, conn[c].rate)

\* The packet would exceed the rate.
Throttled(c, nbytes) == Exceeds(conn[c].tx_meter, nbytes, conn[c].rate)

\* The meter after a packet that was sent.
Metered(c, nbytes) ==
  LET meter == conn[c].tx_meter
  IN Update(IF Elapsed(meter) THEN Clear(meter) ELSE meter, nbytes)

\* One packet of every connection that may send one.
PollSendingMessages ==
  LET len(c) == GetBytes(Next1(c), bytes_sent[Next1(c)])
      go == {c \in Table : conn[c].sending # {} /\ ~Throttled(c, len(c))}
      sent(c) == bytes_sent[Next1(c)] + len(c) - Header
      all == {c \in go : sent(c) >= Size(Next1(c))}
  IN /\ pc = "send" /\ pc' = "retransmit"
     /\ conn' = [c \in Peers |->
          IF c \in all
          THEN [conn[c] EXCEPT !.tx_meter = Metered(c, len(c)), !.sending = @ \ {Next1(c)},
                               !.retransmitting = @ \cup {Next1(c)}]
          ELSE IF c \in go THEN [conn[c] EXCEPT !.tx_meter = Metered(c, len(c))] ELSE conn[c]]
     /\ bytes_sent' = [m \in Msgs |->
          IF \E c \in go : m = Next1(c)
          THEN sent(CHOOSE c \in go : m = Next1(c)) ELSE bytes_sent[m]]
     /\ net' = [c \in Peers |-> IF c \in go THEN Append(net[c], <<Next1(c), len(c)>>) ELSE net[c]]
     /\ record' = [c \in Peers |-> IF c \in go THEN [record[c] EXCEPT !.first = @ + len(c)]
                                               ELSE record[c]]
     /\ finish' = finish \cup {Next1(c) : c \in {x \in all : Dest(Next1(x)) = x}}
     /\ failed' = (go # {} /\ ~Routable)
     /\ UNCHANGED <<user, done, notification_queue, table, rx_meter, heard, stopping>>

\* One packet of the first request of every connection: it is charged a header.
\* Bound: the FlowFinish that follows is enough for the peer.
PollRetransmitRequest ==
  LET bad == {c \in Table : conn[c].reqs # {} /\
                \/ Dest(Request(c)) # c
                \/ Request(c) \notin conn[c].retransmitting}
      go == {c \in Table : conn[c].reqs # {} /\ ~Throttled(c, Header)}
      len(c) == Min({Size(Request(c)), Segment}) + Header
  IN /\ pc = "retransmit" /\ pc' = "notify"
     /\ IF bad # {}
        THEN failed' = TRUE /\ UNCHANGED <<conn, net>>
        ELSE /\ conn' = [c \in Peers |->
                  IF c \in go THEN [conn[c] EXCEPT !.tx_meter = Metered(c, Header),
                                                   !.reqs = @ \ {Request(c)}] ELSE conn[c]]
             /\ net' = [c \in Peers |->
                  IF c \in go THEN Append(net[c], <<Request(c), len(c)>>) ELSE net[c]]
             /\ failed' = (go # {} /\ ~Routable)
     /\ UNCHANGED <<user, done, notification_queue, table, bytes_sent, rx_meter, heard, finish,
                    stopping, record>>

\* Mutant: the connection's place is taken after it has been added.
AddToTable_After(d) == /\ conn_metas' = Append(conn_metas, d)
                       /\ conn_meta_map' = Put(conn_meta_map, d, Len(conn_metas) + 1)

AddToTable(d) == /\ conn_meta_map' = Put(conn_meta_map, d, Len(conn_metas))
                 /\ conn_metas' = Append(conn_metas, d)

\* std::find: the first place of d.
Find(d) == CHOOSE i \in 1 .. Len(conn_metas) :
             conn_metas[i] = d /\ \A j \in 1 .. i - 1 : conn_metas[j] # d

\* vector::erase.
Erase(s, i) == [k \in 1 .. Len(s) - 1 |-> IF k < i THEN s[k] ELSE s[k + 1]]

\* The ConnMeta goes too; the places of the connections behind it stay as they were.
RemoveFromTable(d) ==
  /\ conn_meta_map' = Restrict(conn_meta_map, DOMAIN conn_meta_map \ {d})
  /\ conn_metas' = Erase(conn_metas, Find(d))
  /\ gap' = (gap \/ Find(d) # Len(conn_metas))

\* What StopFlow leaves of message m in connection c.
Stopped(c, m) == IF m \in c.sending THEN [c EXCEPT !.sending = @ \ {m}]
                 ELSE [c EXCEPT !.reqs = @ \ {m}, !.retransmitting = @ \ {m}]

\* A notification about message m finds its connection, or reads beyond the table.
ForMessage(m, F(_)) ==
  /\ Lookup(m)
  /\ IF InTable(Dest(m))
     THEN /\ conn' = [conn EXCEPT ![FindConnMetaById(Dest(m))] = F(@)]
          /\ UNCHANGED failed
     ELSE failed' = TRUE /\ UNCHANGED conn

\* The message is complete for the user when its flow has been stopped.
StopFlow(m) == /\ ForMessage(m, LAMBDA c : Stopped(c, m))
               /\ done' = done \cup {m}

RequestRetransmit(m) == /\ ForMessage(m, LAMBDA c : [c EXCEPT !.reqs = @ \cup {m}])
                        /\ UNCHANGED done

PollNotification ==
  /\ pc = "notify"
  /\ IF notification_queue = <<>>
     THEN pc' = "sr" /\ UNCHANGED <<notification_queue, table, conn, done, failed, id_conn>>
     ELSE /\ notification_queue' = Tail(notification_queue)
          /\ UNCHANGED pc
          /\ LET n == Head(notification_queue)
             IN \/ /\ n.type = "ADD_CONNECTION"
                   /\ AddToTable(n.id)
                   /\ UNCHANGED <<raced, gap, conn, done, failed, id_conn>>
                \/ /\ n.type = "REMOVE_CONNECTION"
                   /\ RemoveFromTable(n.id)
                   /\ id_conn' = id_conn \ {n.id}
                   /\ UNCHANGED <<raced, conn, done, failed>>
                \/ n.type = "STOP_FLOW" /\ StopFlow(n.id) /\ UNCHANGED id_conn
                \/ n.type = "REQUEST_RETRANSMIT" /\ RequestRetransmit(n.id) /\ UNCHANGED id_conn
  /\ UNCHANGED <<added, leaving, posted, sr_queue, bytes_sent, peer, record>>

Run == /\ ~failed
       /\ PopSendRequest \/ PollSendingMessages \/ PollRetransmitRequest \/ PollNotification
       /\ UNCHANGED <<setup, signals>>
-----------------------------------------------------------------------------
\* The reliable channel's thread: signals from d.

Signal(d, s) == signals' = [signals EXCEPT ![d] = Append(@, s)]

\* Mutant: the receiver's measure is taken as it is.
Adjusted_NoFloor(rate, measured) == IF rate > measured THEN measured ELSE rate * 2

\* kRateAdjustment: down to what arrives, but not below the initial rate, or doubled.
Adjusted(rate, measured) ==
  LET throttle == Max({measured, InitialSendingRate})
  IN IF rate > throttle THEN throttle ELSE rate * 2

\* Left out: a signal handled after its ConnMeta is gone uses freed memory.
HandleReceivedData(d) ==
  /\ signals[d] # <<>> /\ d \in id_conn
  /\ signals' = [signals EXCEPT ![d] = Tail(@)]
  /\ LET s == Head(signals[d])
     IN IF s.type = "kRateAdjustment"
        THEN LET rate == Adjusted(conn[d].rate, s.val)
             IN /\ conn' = [conn EXCEPT ![d].rate = rate]
                /\ record' = [record EXCEPT ![d].peak = Max({@, rate})]
                /\ UNCHANGED notification_queue
        ELSE Notify([type |-> s.type, id |-> s.val]) /\ UNCHANGED <<conn, record>>
  /\ UNCHANGED <<setup, user, done, pc, table, bytes_sent, peer, failed>>
-----------------------------------------------------------------------------
\* The peers and the clock.

\* A packet arrives: when the peer's window is over, it reports its rate.
HandleReceive(d) ==
  LET pkt == Head(net[d])  meter == Update(rx_meter[d], pkt[2])
  IN /\ net' = [net EXCEPT ![d] = Tail(@)]
     /\ heard' = IF Dest(pkt[1]) = d THEN heard \cup {pkt[1]} ELSE heard
     /\ IF Elapsed(meter)
        THEN /\ Signal(d, [type |-> "kRateAdjustment", val |-> GetBytesPerSecond(meter)])
             /\ rx_meter' = [rx_meter EXCEPT ![d] = Clear(meter)]
        ELSE rx_meter' = [rx_meter EXCEPT ![d] = meter] /\ UNCHANGED signals
     /\ UNCHANGED <<finish, stopping>>

Lose(d) == net' = [net EXCEPT ![d] = Tail(@)] /\ UNCHANGED <<rx_meter, heard, finish, stopping, signals>>

\* Enough of m has arrived.
SendStop(m) == /\ m \in heard \ stopping
               /\ stopping' = stopping \cup {m}
               /\ Signal(Dest(m), [type |-> "STOP_FLOW", val |-> m])
               /\ UNCHANGED <<net, rx_meter, heard, finish>>

\* A FlowFinish of m comes too early.
FinishFlow(m) == /\ m \in finish \ stopping
                 /\ finish' = finish \ {m}
                 /\ Signal(Dest(m), [type |-> "REQUEST_RETRANSMIT", val |-> m])
                 /\ UNCHANGED <<net, rx_meter, heard, stopping>>

Remote == /\ \/ \E d \in Peers : net[d] # <<>> /\ (HandleReceive(d) \/ Lose(d))
             \/ \E m \in Msgs : SendStop(m) \/ FinishFlow(m)
          /\ UNCHANGED <<setup, user, done, notification_queue, pc, table, conn, bytes_sent,
                         failed, record>>

Tick == /\ conn' = [d \in Peers |-> IF d \in id_conn
                     THEN [conn[d] EXCEPT !.tx_meter.age = Older(@)] ELSE conn[d]]
        /\ rx_meter' = [d \in Peers |-> IF d \in id_conn
                         THEN [rx_meter[d] EXCEPT !.age = Older(@)] ELSE rx_meter[d]]
        /\ record' = [d \in Peers |-> IF d \in id_conn
                       THEN [record[d] EXCEPT !.age = Older(@)] ELSE record[d]]
        /\ UNCHANGED <<setup, user, done, notification_queue, pc, table, bytes_sent, net, heard,
                       finish, stopping, signals, failed>>

Next == User \/ Run \/ (\E d \in Peers : HandleReceivedData(d)) \/ Remote \/ Tick

\* The thread runs on, and time passes.
Spec == Init /\ [][Next]_vars /\ WF_vars(Run) /\ WF_vars(Tick)
-----------------------------------------------------------------------------
\* A message is with the connection it was posted to, the table gives every
\* connection's place, and no CHECK of the thread fails; the exceptions are a
\* message that the thread took from sr_queue_ before the notification that
\* adds its connection, and a connection that was removed from before another,
\* whose place conn_meta_map_ does not follow.
FiledRight ==
  raced = {} /\ ~gap =>
    /\ ~failed
    /\ \A d \in Peers : \A m \in conn[d].sending \cup conn[d].retransmitting \cup conn[d].reqs :
         Dest(m) = d
    /\ \A d \in DOMAIN conn_meta_map : InTable(d) /\ FindConnMetaById(d) = d
    /\ DOMAIN conn_meta_map = Table

\* First transmissions never run ahead of the clock: since a connection was
\* made, it has sent no more than its highest rate allows, although a window of
\* tx_meter ends whenever a packet happens to be sent after Interval.
PacedToRate ==
  \A d \in Peers : \/ record[d].first <= record[d].peak * record[d].age
                   \/ record[d].age = setup.horizon

\* By how much n doublings increase a rate.
Doubled[n \in Nat] == IF n = 0 THEN 1 ELSE 2 * Doubled[n - 1]

\* However slow a receiver reports to be, the rate does not fall below the
\* initial one; and it grows only as receivers report, once per interval: it
\* is doubled at most once for every interval that has passed, and once more
\* for the one under way when the connection was made.
RateFollowsReceiver ==
  \A d \in Peers :
    /\ conn[d].rate >= InitialSendingRate
    /\ \/ record[d].peak <= InitialSendingRate * Doubled[record[d].age \div Interval + 1]
       \/ record[d].age = setup.horizon

\* The throttle only delays: every message that is posted is sent to its end
\* or stopped, unless its connection was not in the table.
EveryMessageIsSent ==
  []<>(\/ failed \/ raced # {} \/ gap
       \/ \A m \in posted : m \in done \/ \E d \in Peers : m \in conn[d].retransmitting)
=============================================================================

----------------------------- MODULE MltSession -----------------------------
(***************************************************************************)
(* The life of MLT communicators, as the test application drives it: start *)
(* up, connect everybody to everybody, exchange meta messages, finalize.   *)
(* Every process has a user thread and the thread of its ReliableChannel;  *)
(* they meet in notification_queue_, tx_queue_, id_conn_ and meta_queue_,  *)
(* and two processes in a TCP stream on which a message is a length and    *)
(* its payload, sent and received in pieces that may end anywhere, inside  *)
(* the length too.  A process of which a CHECK fails ends, and its sockets *)
(* with it.  The user runs one of the                                      *)
(* tests: greetings ("connection"), the barriers of the UDP test           *)
(* ("udp_simple"; its flows are in MltFlow), or a window of meta messages  *)
(* ("rc_speed").                                                           *)
(***************************************************************************)
EXTENDS Integers, Sequences, FiniteSets, FiniteSetsExt, SequencesExt

CONSTANTS Setups,      \* tests and host files: <<test, set of ranks>>
          MetaQueueSize,  \* capacity of meta_queue_
          LengthUnits,    \* pieces of the length that precedes a message
          PayloadUnits,   \* pieces of a meta message (a barrier's has one)
          MaxGap,      \* max_gap of rc_speed
          MaxSends     \* bound: messages of rc_speed

ASSUME SessionAssumption ==
  MetaQueueSize > 0 /\ LengthUnits > 0 /\ PayloadUnits > 0 /\ MaxSends > 0

VARIABLES setup,       \* the test and the ranks of this session
          user,        \* user[r]: where the user thread is
          pc,          \* pc[r]: where the reliable channel's thread is
          events,      \* events[r]: what EpollWait returned
          backlog,     \* backlog[r]: connections to accept
          id_conn,     \* id_conn[r]: peers with a ConnMeta
          endpoints,   \* endpoints[r]: peers in ctrl_endpoints_
          dead,        \* links whose endpoint has closed its socket
          notifications, tx_queue, meta_queue,
          tx,          \* tx[<<r, d>>]: what the endpoint has still to send
          rx,          \* rx[<<r, d>>]: the message that r is receiving from d
          stream,      \* stream[<<r, d>>]: bytes on the way
          sent, got,   \* messages r sent to d, r received from d
          dropped,     \* history: messages to d that r had no endpoint for
          terminated,
          failed       \* <<r, why>>: a CHECK of r has failed

comm == <<backlog, id_conn, endpoints, dead, tx, rx, stream>>
vars == <<setup, user, pc, events, backlog, id_conn, endpoints, dead, notifications,
          tx_queue, meta_queue, tx, rx, stream, sent, got, dropped, terminated, failed>>

test == setup[1]
nodes == setup[2]
RootRank == Min(nodes)
Peers(r) == nodes \ {r}
Links == {l \in nodes \X nodes : l[1] # l[2]}
AllRanks == UNION {s[2] : s \in Setups}

\* The units of the n-th message on a link: the length, then the payload.
Units == IF test = "udp_simple" THEN 1 ELSE PayloadUnits
Payload(n) == [k \in 1 .. Units |-> <<n, k>>]
Frame(n) == [k \in 1 .. LengthUnits |-> <<n, 0>>] \o Payload(n)

Idle == [on |-> FALSE, data |-> <<>>]

Init == /\ setup \in Setups
        /\ LET R == setup[2]  P == {l \in R \X R : l[1] # l[2]}
           IN /\ user = [r \in R |-> [at |-> "boot", left |-> {}, n |-> 0]]
              /\ pc = [r \in R |-> "none"]
              /\ events = [r \in R |-> {}] /\ backlog = [r \in R |-> {}]
              /\ id_conn = [r \in R |-> {}] /\ endpoints = [r \in R |-> {}]
              /\ notifications = [r \in R |-> <<>>]
              /\ tx_queue = [r \in R |-> <<>>] /\ meta_queue = [r \in R |-> <<>>]
              /\ tx = [l \in P |-> <<>>] /\ rx = [l \in P |-> Idle]
              /\ stream = [l \in P |-> <<>>]
              /\ sent = [l \in P |-> 0] /\ got = [l \in P |-> 0]
              /\ dropped = [l \in P |-> 0]
        /\ dead = {} /\ terminated = {} /\ failed = {}
-----------------------------------------------------------------------------
\* The thread of the reliable channel.

Ended(r) == \E f \in failed : f[1] = r
Check(r, why, ok) == failed' = IF ok THEN failed ELSE failed \cup {<<r, why>>}

Closed(l) == l \in dead \/ user[l[1]].at = "done" \/ Ended(l[1])
Live(r, d) == d \in endpoints[r] /\ <<r, d>> \notin dead

\* AddEndpoint insists that an endpoint is the first of its peer.
AddEndpoint(r, new) ==
  /\ endpoints' = [endpoints EXCEPT ![r] = @ \cup new]
  /\ Check(r, "endpoint", new \cap endpoints[r] = {})

\* RemoveEndpoint disconnects an endpoint that is there.
RemoveEndpoint(r, gone) == dead' = dead \cup {<<r, d>> : d \in gone \cap endpoints'[r]}

\* Mutant: an accepted connection has no ConnMeta.
HandleNewConnection_NoMeta(r, d) ==
  /\ backlog' = [backlog EXCEPT ![r] = @ \ {d}]
  /\ AddEndpoint(r, {d})
  /\ UNCHANGED id_conn

\* A connection is accepted; the peer says who it is.  Bound: the four bytes of
\* its rank, the first of the connection, arrive together.
HandleNewConnection(r, d) ==
  /\ backlog' = [backlog EXCEPT ![r] = @ \ {d}]
  /\ id_conn' = [id_conn EXCEPT ![r] = @ \cup {d}]
  /\ AddEndpoint(r, {d})

\* Bound: the socket takes the few bytes of a barrier's message at once.
Taken(n) == IF test = "udp_simple" THEN {n} ELSE 1 .. n

\* OnSendReady hands bytes to the socket until it would block.
OnSendReady(r, d) ==
  LET l == <<r, d>>
  IN /\ \E n \in Taken(Len(tx[l])) :
          /\ stream' = [stream EXCEPT ![l] = @ \o SubSeq(tx[l], 1, n)]
          /\ tx' = [tx EXCEPT ![l] = SubSeq(@, n + 1, Len(@))]
     /\ Check(r, "peer", ~Closed(<<d, r>>) /\ l \notin dead)
     /\ UNCHANGED <<dead, rx, meta_queue>>

\* What one call takes from the stream s when it is receiving p: a length first,
\* then what is there of the payload.
Take(p, s) ==
  LET body == IF p.on THEN s ELSE SubSeq(s, LengthUnits + 1, Len(s))
      n == Min({Units - Len(p.data), Len(body)})
  IN [data |-> p.data \o SubSeq(body, 1, n), rest |-> SubSeq(body, n + 1, Len(body))]

\* Mutant: a message that is not complete is started afresh.
Keep_None(data) == Idle

Keep(data) == [on |-> TRUE, data |-> data]

\* SpscQueue: the producer spins while the ring is full.
CanPush(q) == Len(q) < MetaQueueSize

\* kUserData: the message is for the user.
HandleReceivedData(r, d, data) ==
  /\ CanPush(meta_queue[r])
  /\ meta_queue' = [meta_queue EXCEPT ![r] = Append(@, <<d, data>>)]

\* A length is read by one call, and must come whole.
LengthArrived(s) == Len(s) >= LengthUnits

\* OnRecvReady: at most one message; the thread waits while meta_queue_ is full.
\* A peer that ended leaves the end of the stream, or a reset.
OnRecvReady(r, d) ==
  LET l == <<d, r>>  m == <<r, d>>  t == Take(rx[m], stream[l])
  IN /\ \/ /\ stream[l] = <<>>
           /\ dead' = IF Closed(l) THEN dead \cup {m} ELSE dead
           /\ UNCHANGED <<rx, stream, meta_queue, failed>>
        \/ /\ stream[l] # <<>> /\ (rx[m].on \/ LengthArrived(stream[l]))
           /\ stream' = [stream EXCEPT ![l] = t.rest]
           /\ Check(r, "frame", rx[m].on \/ stream[l][1][2] = 0)
           /\ IF Len(t.data) < Units
              THEN /\ rx' = [rx EXCEPT ![m] = Keep(t.data)]
                   /\ UNCHANGED meta_queue
              ELSE /\ rx' = [rx EXCEPT ![m] = Idle]
                   /\ HandleReceivedData(r, d, t.data)
           /\ UNCHANGED dead
        \/ /\ stream[l] # <<>> /\ ~rx[m].on /\ ~LengthArrived(stream[l])
           /\ Check(r, "length", FALSE)
           /\ UNCHANGED <<dead, rx, stream, meta_queue>>
        \/ /\ Ended(d)
           /\ Check(r, "peer", FALSE)
           /\ UNCHANGED <<dead, rx, stream, meta_queue>>
     /\ UNCHANGED tx

\* The events of an iteration; for one endpoint, receiving comes first.
Poll(r) ==
  /\ pc[r] = "events"
  /\ \E e \in events[r] :
       /\ \/ /\ e[1] = "listen"
             /\ \E d \in backlog[r] : HandleNewConnection(r, d)
             /\ UNCHANGED <<tx, rx, stream, dead, meta_queue>>
          \/ /\ e[1] = "in"
             /\ OnRecvReady(r, e[2])
             /\ UNCHANGED <<backlog, id_conn, endpoints>>
          \/ /\ e[1] = "out" /\ <<"in", e[2]>> \notin events[r]
             /\ OnSendReady(r, e[2])
             /\ UNCHANGED <<backlog, id_conn, endpoints>>
       /\ events' = [events EXCEPT ![r] = @ \ {e}]
       /\ pc' = IF events[r] = {e} THEN [pc EXCEPT ![r] = "notify"] ELSE pc
  /\ UNCHANGED <<setup, user, notifications, tx_queue, sent, got, dropped, terminated>>

\* All notifications: AddEndpoint and RemoveEndpoint.
PollNotifications(r) ==
  LET of(type) == {notifications[r][i][2] : i \in
                     {j \in DOMAIN notifications[r] : notifications[r][j][1] = type}}
  IN /\ pc[r] = "notify"
     /\ pc' = [pc EXCEPT ![r] = "tx"]
     /\ AddEndpoint(r, of("ADD_ENDPOINT"))
     /\ RemoveEndpoint(r, of("REMOVE_ENDPOINT"))
     /\ notifications' = [notifications EXCEPT ![r] = <<>>]
     /\ UNCHANGED <<setup, user, events, backlog, id_conn, tx_queue, meta_queue, tx, rx,
                    stream, sent, got, dropped, terminated>>

\* What the endpoint of d is given: a message to somebody unknown is dropped.
Waiting(r, d) == SelectSeq(tx_queue[r], LAMBDA x : x[1] = d)
Routed(r, d) ==
  LET mine == Waiting(r, d)
  IN IF d \in endpoints[r] /\ mine # <<>>
     THEN FlattenSeq([i \in DOMAIN mine |-> Frame(mine[i][2])]) ELSE <<>>

\* All of tx_queue_, then the next iteration unless the thread is to end.
Route(r) ==
  LET new == [l \in Links |-> IF l[1] = r THEN tx[l] \o Routed(r, l[2]) ELSE tx[l]]
      ready == {<<"in", d>> : d \in {x \in Peers(r) : Live(r, x) /\
                                        (stream[<<x, r>>] # <<>> \/ Closed(<<x, r>>))}}
               \cup {<<"out", d>> : d \in {x \in Peers(r) : Live(r, x) /\ new[<<r, x>>] # <<>>}}
               \cup (IF backlog[r] # {} THEN {<<"listen">>} ELSE {})
  IN /\ pc[r] = "tx"
     /\ tx' = new
     /\ dropped' = [l \in Links |-> IF l[1] = r /\ l[2] \notin endpoints[r]
                                    THEN dropped[l] + Len(Waiting(r, l[2])) ELSE dropped[l]]
     /\ tx_queue' = [tx_queue EXCEPT ![r] = <<>>]
     /\ IF r \in terminated
        THEN pc' = [pc EXCEPT ![r] = "exit"] /\ UNCHANGED events
        ELSE /\ events' = [events EXCEPT ![r] = ready]
             /\ pc' = [pc EXCEPT ![r] = IF ready = {} THEN "notify" ELSE "events"]
     /\ UNCHANGED <<setup, user, backlog, id_conn, endpoints, dead, notifications, meta_queue,
                    rx, stream, sent, got, terminated, failed>>

Run(r) == ~Ended(r) /\ (Poll(r) \/ PollNotifications(r) \/ Route(r))
-----------------------------------------------------------------------------
\* The user.

Enqueue(r, d, n) == tx_queue' = [tx_queue EXCEPT ![r] = Append(@, <<d, n>>)]
Notify(r, ns) == notifications' = [notifications EXCEPT ![r] = @ \o ns]

\* The message is copied, and numbered here.
SendMetaAsync(r, d) ==
  /\ sent' = [sent EXCEPT ![<<r, d>>] = @ + 1]
  /\ Enqueue(r, d, sent[<<r, d>>] + 1)

RecvMeta(r) ==
  /\ meta_queue[r] # <<>>
  /\ meta_queue' = [meta_queue EXCEPT ![r] = Tail(@)]
  /\ got' = [got EXCEPT ![<<r, Head(meta_queue[r])[1]>>] = @ + 1]

Goto(r, at, left) == user' = [user EXCEPT ![r] = [@ EXCEPT !.at = at, !.left = left]]

\* The communicator's threads run, and its socket listens.
Start(r) == pc' = [pc EXCEPT ![r] = "notify"]
Listening(r) == user[r].at # "boot"

Startup(r) == /\ user[r].at = "boot"
              /\ Goto(r, "connect", Peers(r))
              /\ Start(r)
              /\ UNCHANGED <<comm, events, notifications, tx_queue, meta_queue, sent, got,
                             terminated, failed>>

\* Mutant: both sides connect.
Connects_Both(r, d) == TRUE

\* The side with the smaller rank connects.
Connects(r, d) == r < d

\* Where a test begins: the barrier's root, and everybody in the other tests, send first.
FirstStep(r) == CASE test = "rc_speed" -> "speed"
                  [] test = "connection" -> "send"
                  [] OTHER -> IF r = RootRank THEN "send" ELSE "reply"

\* RdEndpoint::Connect tries until the peer listens, and is in its backlog then.
Connect(r, d) == /\ Listening(d)
                 /\ backlog' = [backlog EXCEPT ![d] = @ \cup {r}]

\* AddConnection waits until the peer has connected, or until it listens.
AddConnection(r) ==
  LET d == Min(user[r].left)  rest == user[r].left \ {d}
  IN /\ user[r].at = "connect"
     /\ IF Connects(r, d)
        THEN /\ Connect(r, d)
             /\ id_conn' = [id_conn EXCEPT ![r] = @ \cup {d}]
             /\ Notify(r, <<<<"ADD_ENDPOINT", d>>>>)
        ELSE /\ d \in id_conn[r]
             /\ UNCHANGED <<backlog, id_conn, notifications>>
     /\ IF rest = {} THEN Goto(r, FirstStep(r), Peers(r))
                       ELSE Goto(r, "connect", rest)
     /\ UNCHANGED <<pc, events, endpoints, dead, tx, rx, stream, tx_queue, meta_queue, sent,
                    got, terminated, failed>>

NumBarriers == 3

\* A greeting or a barrier has been completed by r.
RoundDone(r) ==
  LET n == user[r].n + 1
      last == test = "connection" \/ n = NumBarriers
  IN user' = [user EXCEPT ![r] = [at |-> IF last THEN "finalize" ELSE FirstStep(r),
                                  left |-> Peers(r), n |-> n]]

\* The first half of RunTestConnection, and of Barrier for the root.
SendToAll(r) ==
  LET d == Min(user[r].left)  rest == user[r].left \ {d}
  IN /\ user[r].at = "send"
     /\ SendMetaAsync(r, d)
     /\ IF rest = {} THEN Goto(r, "receive", Peers(r)) ELSE Goto(r, "send", rest)
     /\ UNCHANGED <<comm, pc, events, notifications, meta_queue, got, terminated, failed>>

\* Mutant: the root waits for one answer.
Collected_One(r, heard) == TRUE

Collected(r, heard) == heard = Peers(r)

\* The second half; left holds the peers that have not been heard of.
ReceiveFromAll(r) ==
  LET d == Head(meta_queue[r])[1]
      missing == user[r].left \ {d}
  IN /\ user[r].at = "receive"
     /\ RecvMeta(r)
     /\ Check(r, "barrier", d \in user[r].left)
     /\ IF Collected(r, Peers(r) \ missing) THEN RoundDone(r)
        ELSE Goto(r, "receive", missing)
     /\ UNCHANGED <<comm, pc, events, notifications, tx_queue, sent, terminated>>

\* Barrier for the others.
Reply(r) ==
  /\ user[r].at = "reply"
  /\ RecvMeta(r)
  /\ Check(r, "barrier", Head(meta_queue[r])[1] = RootRank)
  /\ SendMetaAsync(r, RootRank)
  /\ RoundDone(r)
  /\ UNCHANGED <<comm, pc, events, notifications, terminated>>

\* RunTestRcSpeed: round and round the peers, a message or, beyond the gap, a wait.
Speed(r) ==
  LET d == Min(user[r].left)  rest == user[r].left \ {d}
  IN /\ user[r].at = "speed"
     /\ IF sent[<<r, d>>] <= got[<<r, d>>] + MaxGap
        THEN /\ sent[<<r, d>>] < MaxSends
             /\ SendMetaAsync(r, d)
             /\ UNCHANGED <<meta_queue, got>>
        ELSE RecvMeta(r) /\ UNCHANGED <<sent, tx_queue>>
     /\ Goto(r, "speed", IF rest = {} THEN Peers(r) ELSE rest)
     /\ UNCHANGED <<comm, pc, events, notifications, terminated, failed>>

\* RemoveConnection for every peer.
RemoveConnection(r) ==
  /\ user[r].at = "finalize"
  /\ Notify(r, SetToSeq({<<"REMOVE_ENDPOINT", d>> : d \in Peers(r)}))
  /\ Goto(r, "terminate", {})
  /\ UNCHANGED terminated

\* The threads are told to end, whatever they have still to send.
Terminate(r) == /\ user[r].at = "terminate"
                /\ terminated' = terminated \cup {r}
                /\ Goto(r, "join", {})
                /\ UNCHANGED notifications

Join(r) == /\ user[r].at = "join" /\ pc[r] = "exit"
           /\ Goto(r, "done", {})
           /\ UNCHANGED <<notifications, terminated>>

Finalize(r) ==
  /\ RemoveConnection(r) \/ Terminate(r) \/ Join(r)
  /\ UNCHANGED <<comm, pc, events, tx_queue, meta_queue, sent, got, failed>>

User(r) == /\ ~Ended(r)
           /\ \/ Startup(r) \/ AddConnection(r) \/ SendToAll(r) \/ ReceiveFromAll(r)
              \/ Reply(r) \/ Speed(r) \/ Finalize(r)
           /\ UNCHANGED <<setup, dropped>>

Next == \E r \in nodes : User(r) \/ Run(r)

\* Every thread runs on.
Spec == /\ Init /\ [][Next]_vars
        /\ \A r \in AllRanks : WF_vars(r \in nodes /\ User(r)) /\ WF_vars(r \in nodes /\ Run(r))
-----------------------------------------------------------------------------
\* The one CHECK that fails is the one on a length that arrives in pieces, and
\* what ends after it are the peers of a process that it ended: an endpoint is
\* added once, a frame begins with its length, a barrier hears its root, the root
\* hears everybody once, and nothing is sent to a peer that finalized.
OnlySplitLengthsFail == \A f \in failed :
  f[2] # "length" => f[2] = "peer" /\ \E g \in failed : g[2] = "length" /\ g[1] # f[1]

\* The payload that is under way from d to r, oldest first.
UnderWay(d, r) ==
  LET units(s) == SelectSeq(s, LAMBDA u : u[2] # 0)
      all(q, x, P(_)) == LET mine == SelectSeq(q, LAMBDA y : y[1] = x)
                         IN IF mine = <<>> THEN <<>>
                            ELSE FlattenSeq([i \in DOMAIN mine |-> P(mine[i][2])])
  IN all(meta_queue[r], d, LAMBDA p : p) \o rx[<<r, d>>].data \o units(stream[<<d, r>>])
       \o units(tx[<<d, r>>]) \o all(tx_queue[d], r, Payload)

\* Meta messages arrive whole, in order and without a gap, although they are
\* sent and received in pieces: after those that came too early for an endpoint,
\* under way is the run of messages from the first not received to the last sent.
MetaInOrder == \A l \in Links :
  LET u == UnderWay(l[1], l[2])  n == dropped[l] + got[<<l[2], l[1]>>]
  IN /\ Len(u) = Units * (sent[l] - n)
     /\ \A i \in DOMAIN u : u[i] = <<n + 1 + ((i - 1) \div Units), 1 + ((i - 1) % Units)>>

Entered(r) == user[r].at \notin {"boot", "connect"}

\* Nobody leaves the second barrier before everybody has entered the first (the
\* receives are posted before anything is sent), and nobody is a barrier ahead.
BarrierHolds == test = "udp_simple" => \A r, s \in nodes :
  /\ user[r].n >= 2 => Entered(s)
  /\ user[r].n <= user[s].n + 1

\* Everybody connects to everybody, whatever the order of the processes, and
\* the window of rc_speed never stalls, whoever fills a meta queue, unless a
\* length that arrived in pieces has ended a process.
EverybodyRuns == <>(\/ \E f \in failed : f[2] = "length"
                    \/ /\ \A r \in nodes : Entered(r)
                       /\ test = "rc_speed" => \A l \in Links : sent[l] = MaxSends)

\* "it sends some meta data, and check the correctness of this procedure": the
\* connection test comes to an end in every process.
GreetingsArrive == <>(\A r \in nodes : user[r].at = "done")
=============================================================================

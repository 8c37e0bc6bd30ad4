------------------------------ MODULE Resender ------------------------------
(***************************************************************************)
(* The data path of a Van with PS_RESEND and PS_DROP_MSG set: Van::Send,   *)
(* Van::Receiving and the Resender.  A connection is a FIFO channel        *)
(* (ZeroMQ); a message is lost when the receiving Van drops it.  The time  *)
(* that passes before a resend is abstracted: a buffered message may time  *)
(* out at any moment.  What a Customer does with an accepted message is    *)
(* left to KvApp: its queue only grows here.                               *)
(***************************************************************************)
EXTENDS Integers, Sequences, FiniteSets

CONSTANTS Nodes,      \* node ids
          Apps,       \* app ids; an app has one Customer on every node
          Messages,   \* data messages the Customers may send, each once
          Threads,    \* the threads of a node that call Van::Send
          Monitor,    \* the thread of Resender::Monitoring, one of Threads
          None,       \* no message
          MaxDrops,   \* bound: messages dropped by PS_DROP_MSG
          MaxEarly    \* bound: resends of messages that were not lost

VARIABLES net,         \* net[<<a, b>>]: messages on the connection a -> b
          sending,     \* sending[n][t]: message between SendMsg and AddOutgoing
          send_buff,   \* send_buff[n]: the Entries of send_buff_
          acked,       \* acked[n]: the keys of acked_
          recv_queue,  \* recv_queue[n][a]: the queue of the Customer of app a
          sent,        \* messages handed to Van::Send so far
          drops,       \* number of messages dropped so far
          early        \* number of early resends so far

vars == <<net, sending, send_buff, acked, recv_queue, sent, drops, early>>

Init == /\ net = [c \in Nodes \X Nodes |-> <<>>]
        /\ sending = [n \in Nodes |-> [t \in Threads |-> None]]
        /\ send_buff = [n \in Nodes |-> {}]
        /\ acked = [n \in Nodes |-> {}]
        /\ recv_queue = [n \in Nodes |-> [a \in Apps |-> <<>>]]
        /\ sent = {}
        /\ drops = 0
        /\ early = 0

\* The signature of a message: 16 bits of app id, 8 of each node id, the
\* timestamp and the request flag.
GetKey(m) == <<m.app_id % 65536, m.sender % 256, m.recver % 256,
               m.timestamp, m.request>>

\* The assumption on the application: no two of its messages share a key.  Two
\* customers of one app in one worker process do, customer_id is not part of it.
ASSUME ResenderAssumption ==
  /\ Monitor \in Threads
  /\ None \notin Messages
  /\ \A m \in Messages : m.sender \in Nodes /\ m.recver \in Nodes /\ m.app_id \in Apps
  /\ \A m \in Messages : m.cmd = "DATA"
  /\ \A m1, m2 \in Messages : GetKey(m1) = GetKey(m2) => m1 = m2

Ack(m) == [cmd |-> "ACK", sender |-> m.recver, recver |-> m.sender,
           msg_sig |-> GetKey(m)]

Post(links, m) == [links EXCEPT ![<<m.sender, m.recver>>] = Append(@, m)]

\* Van::Send by thread t of node n: SendMsg first ...
SendMsg(n, t, m) == /\ sending[n][t] = None
                    /\ net' = Post(net, m)
                    /\ sending' = [sending EXCEPT ![n][t] = m]

\* A Customer or the user calls Van::Send.
Send(n, t, m) == /\ m \notin sent
                 /\ t # Monitor /\ n = m.sender
                 /\ SendMsg(n, t, m)
                 /\ sent' = sent \cup {m}
                 /\ UNCHANGED <<send_buff, acked, recv_queue, drops, early>>

Buffered(n, key) == \E e \in send_buff[n] : GetKey(e.msg) = key

\* Mutant: a message is not put in the buffer.
AddOutgoing_NoBuffer(n, t) ==
  /\ sending[n][t] # None
  /\ sending' = [sending EXCEPT ![n][t] = None]
  /\ UNCHANGED <<net, send_buff, acked, recv_queue, sent, drops, early>>

\* ... then AddOutgoing, which keeps an entry that is there already.
AddOutgoing(n, t) ==
  /\ sending[n][t] # None
  /\ sending' = [sending EXCEPT ![n][t] = None]
  /\ send_buff' = [send_buff EXCEPT ![n] =
                     IF Buffered(n, GetKey(sending[n][t])) THEN @
                     ELSE @ \cup {[msg |-> sending[n][t], num_retry |-> 0]}]
  /\ UNCHANGED <<net, acked, recv_queue, sent, drops, early>>

Taken(m) == [net EXCEPT ![<<m.sender, m.recver>>] = Tail(@)]

\* AddIncomming of an ACK erases the entry it names.
AddIncommingAck(m) ==
  /\ m.cmd = "ACK"
  /\ net' = Taken(m)
  /\ send_buff' = [send_buff EXCEPT ![m.recver] = {e \in @ : GetKey(e.msg) # m.msg_sig}]
  /\ UNCHANGED <<acked, recv_queue>>

\* Mutant: a duplicate is not recognised.
AddIncommingData_NoDup(m) ==
  /\ m.cmd = "DATA"
  /\ net' = Post(Taken(m), Ack(m))
  /\ acked' = [acked EXCEPT ![m.recver] = @ \cup {GetKey(m)}]
  /\ recv_queue' = [recv_queue EXCEPT ![m.recver][m.app_id] = Append(@, m)]
  /\ UNCHANGED send_buff

\* Mutant: only a message that is new is acknowledged.
AddIncommingData_AckOnce(m) ==
  /\ m.cmd = "DATA"
  /\ net' = IF GetKey(m) \in acked[m.recver] THEN Taken(m) ELSE Post(Taken(m), Ack(m))
  /\ acked' = [acked EXCEPT ![m.recver] = @ \cup {GetKey(m)}]
  /\ recv_queue' = IF GetKey(m) \in acked[m.recver] THEN recv_queue
                   ELSE [recv_queue EXCEPT ![m.recver][m.app_id] = Append(@, m)]
  /\ UNCHANGED send_buff

\* AddIncomming of any other message acknowledges it, even a duplicate.  A new
\* message goes on to its Customer (Van::ProcessDataMsg).
AddIncommingData(m) ==
  /\ m.cmd = "DATA"
  /\ net' = Post(Taken(m), Ack(m))
  /\ acked' = [acked EXCEPT ![m.recver] = @ \cup {GetKey(m)}]
  /\ recv_queue' = IF GetKey(m) \in acked[m.recver] THEN recv_queue
                   ELSE [recv_queue EXCEPT ![m.recver][m.app_id] = Append(@, m)]
  /\ UNCHANGED send_buff

\* Van::Receiving takes one message and processes it ...
Receiving(from, n) ==
  /\ net[<<from, n>>] # <<>>
  /\ \/ AddIncommingAck(Head(net[<<from, n>>]))
     \/ AddIncommingData(Head(net[<<from, n>>]))
  /\ UNCHANGED <<sending, sent, drops, early>>

\* ... or drops it, for PS_DROP_MSG.
Drop(from, n) ==
  /\ net[<<from, n>>] # <<>>
  /\ drops < MaxDrops
  /\ drops' = drops + 1
  /\ net' = Taken(Head(net[<<from, n>>]))
  /\ UNCHANGED <<sending, send_buff, acked, recv_queue, sent, early>>

Holds(link, m) == \E i \in DOMAIN link : link[i] = m

\* A copy of the message, or an acknowledgement of it, is still on its way.
InTransit(m) == \/ Holds(net[<<m.sender, m.recver>>], m)
                \/ Holds(net[<<m.recver, m.sender>>], Ack(m))

\* Mutant: num_retry counts down.
Monitoring_CountsDown(n, m) ==
  \E e \in send_buff[n] :
    /\ e.msg = m
    /\ IF InTransit(m) THEN early < MaxEarly /\ early' = early + 1
                       ELSE early' = early
    /\ send_buff' = [send_buff EXCEPT ![n] =
                       (@ \ {e}) \cup {[msg |-> m, num_retry |-> e.num_retry - 1]}]
    /\ SendMsg(n, Monitor, m)
    /\ UNCHANGED <<acked, recv_queue, sent, drops>>

(***************************************************************************)
(* Resender::Monitoring finds an entry past its timeout, and sends the     *)
(* message through Van::Send after releasing the lock: an ACK may erase    *)
(* the entry before AddOutgoing puts it back.  A timeout that expires      *)
(* while the message is in transit is an early one.                        *)
(***************************************************************************)
Monitoring(n, m) ==
  \E e \in send_buff[n] :
    /\ e.msg = m
    /\ IF InTransit(m) THEN early < MaxEarly /\ early' = early + 1
                       ELSE early' = early
    /\ send_buff' = [send_buff EXCEPT ![n] =
                       (@ \ {e}) \cup {[msg |-> m, num_retry |-> e.num_retry + 1]}]
    /\ SendMsg(n, Monitor, m)
    /\ UNCHANGED <<acked, recv_queue, sent, drops>>

Next == \/ \E n \in Nodes, t \in Threads, m \in Messages : Send(n, t, m)
        \/ \E n \in Nodes, t \in Threads : AddOutgoing(n, t)
        \/ \E from, n \in Nodes : Receiving(from, n)
        \/ \E from, n \in Nodes : Drop(from, n)
        \/ \E n \in Nodes, m \in Messages : Monitoring(n, m)

(***************************************************************************)
(* Every thread runs on: a call of Van::Send is completed and a connection *)
(* is served.  The monitor goes through the whole buffer in every round,   *)
(* so an entry that stays there is resent again and again.  Messages are   *)
(* dropped finitely often (MaxDrops).                                      *)
(***************************************************************************)
Fairness == /\ \A n \in Nodes, t \in Threads : WF_vars(AddOutgoing(n, t))
            /\ \A from, n \in Nodes : WF_vars(Receiving(from, n))
            /\ \A m \in Messages : SF_vars(Monitoring(m.sender, m))

Spec == Init /\ [][Next]_vars /\ Fairness
-----------------------------------------------------------------------------
Entry == [msg : Messages, num_retry : Nat]

TypeOK ==
  /\ net \in [Nodes \X Nodes -> Seq(Messages \cup {Ack(m) : m \in Messages})]
  /\ sending \in [Nodes -> [Threads -> Messages \cup {None}]]
  /\ send_buff \in [Nodes -> SUBSET Entry]
  /\ acked \in [Nodes -> SUBSET {GetKey(m) : m \in Messages}]
  /\ recv_queue \in [Nodes -> [Apps -> Seq(Messages)]]
  /\ sent \subseteq Messages
  /\ drops \in Nat /\ early \in Nat

Accepted(m) == GetKey(m) \in acked[m.recver]

\* No accepted message is lost sight of by its sender: whatever is in the
\* buffer, on the wire or about to be buffered was sent; a message that was
\* sent and not accepted is still buffered, or about to be.
SenderRemembers == \A m \in sent : ~Accepted(m) =>
  \/ \E e \in send_buff[m.sender] : e.msg = m
  \/ \E t \in Threads : sending[m.sender][t] = m

\* The entry of a message is resent at most once more than messages were lost
\* or timeouts came early: max_num_retry (a CHECK of Monitoring that ends the
\* process) counts real losses.
RetriesCountLosses == \A n \in Nodes : \A e \in send_buff[n] :
  e.num_retry <= drops + early + 1

D == INSTANCE Delivery WITH transit <- {m \in sent : ~Accepted(m)}

\* The Resender delivers every message exactly once: each step of the Vans is a
\* step of Delivery, or changes nothing there.
ImplementsDelivery == D!DeliverySpec

\* Every message that is sent is accepted in the end.
EveryMessageArrives == \A m \in Messages : m \in sent ~> Accepted(m)
=============================================================================

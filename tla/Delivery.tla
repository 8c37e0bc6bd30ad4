------------------------------ MODULE Delivery ------------------------------
(***************************************************************************)
(* What a Van promises to the Customers: a message handed to Van::Send     *)
(* reaches the queue of the receiving Customer exactly once, after any     *)
(* delay and in any order.  Resender is shown to implement this; KvApp is  *)
(* built on it.                                                            *)
(***************************************************************************)
EXTENDS Integers, Sequences

CONSTANTS Nodes,      \* node ids
          Apps,       \* app ids; an app has one Customer on every node
          Messages    \* the messages the Customers may send

VARIABLES transit,    \* messages sent and not yet accepted
          recv_queue  \* recv_queue[n][a]: the queue of the Customer of app a

dvars == <<transit, recv_queue>>

DeliveryInit == /\ transit = {}
                /\ recv_queue = [n \in Nodes |-> [a \in Apps |-> <<>>]]

Send(m) == transit' = transit \cup {m}

\* Customer::Accept appends to the queue.
Accept(queues, m) == [queues EXCEPT ![m.recver][m.app_id] = Append(@, m)]

\* Van::ProcessDataMsg.
Deliver(m) == /\ m \in transit
              /\ transit' = transit \ {m}
              /\ recv_queue' = Accept(recv_queue, m)

\* Customer::Receiving takes a message out of its queue.
Pop(n, a) == /\ recv_queue[n][a] # <<>>
             /\ recv_queue' = [recv_queue EXCEPT ![n][a] = Tail(@)]

DeliveryNext ==
  \/ \E m \in Messages : Send(m) /\ UNCHANGED recv_queue
  \/ \E m \in Messages : Deliver(m)
  \/ \E n \in Nodes, a \in Apps : Pop(n, a) /\ UNCHANGED transit

DeliverySpec == DeliveryInit /\ [][DeliveryNext]_dvars
=============================================================================

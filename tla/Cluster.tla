------------------------------ MODULE Cluster ------------------------------
(***************************************************************************)
(* Van and Postoffice over ZMQVan: starting, registering with the          *)
(* scheduler, barriers, heartbeats, the recovery of a dead node and        *)
(* stopping.  A process runs one Van; its customers are threads that call  *)
(* Postoffice::Start, Barrier and Finalize.  A connection is a FIFO        *)
(* channel between two processes.  A CHECK that fails, or a message to a   *)
(* node without a socket (SendMsg returns -1), ends the process: it is     *)
(* recorded in failed.                                                     *)
(***************************************************************************)
EXTENDS Integers, Sequences, FiniteSets, SequencesExt

CONSTANTS Scheduler, Server, Worker,   \* the roles
          Procs,           \* processes, in the order of their addresses
          Role,            \* Role[p]
          Customers,       \* Customers[p]: the customer ids of p
          Root,            \* the scheduler's process
          Spare,           \* processes started in place of a dead one
          None,            \* no id
          MaxCrashes,      \* bound: crashes
          MaxTraffic       \* bound: heartbeats and requests

Procs0 == Range(Procs)
Members == Procs0 \ Spare
Threads == {<<p, c>> \in Procs0 \X UNION {Customers[p] : p \in Procs0} : c \in Customers[p]}
Of(role) == {t \in Threads : t[1] \in Members /\ Role[t[1]] = role}
NumNodes == Cardinality(Of(Server)) + Cardinality(Of(Worker))

WorkerRankToID(rank) == rank * 2 + 9
ServerRankToID(rank) == rank * 2 + 8
RankToID(role, rank) == IF role = Server THEN ServerRankToID(rank) ELSE WorkerRankToID(rank)
kScheduler == 1

\* Postoffice::Start fills node_ids_: a group is everybody or the workers.
node_ids == [group \in {"all", "workers"} |->
  {WorkerRankToID(i) : i \in 0 .. Cardinality(Of(Worker)) - 1}
  \cup (IF group = "workers" THEN {}
        ELSE {ServerRankToID(i) : i \in 0 .. Cardinality(Of(Server)) - 1})
  \cup (IF group = "all" THEN {kScheduler} ELSE {})]
GetNodeIDs(group) == node_ids[group]

VARIABLES pc,         \* pc[p][c]: where a customer thread is
          init_stage, ready, my_id,  \* Van: of each process
          senders,    \* senders[p]: ZMQVan::senders_, from node id to process
          polled,     \* polled[p]: pairs <<id, q>>, a thread polls the socket for id to q
          connected,  \* connected[p]: the addresses in connected_nodes_
          barrier_done,     \* barrier_done[p][c]
          nodes, recovery,  \* the scheduler's node lists
          shared,           \* ids in shared_node_mapping_
          barrier_count,    \* barrier_count[group]
          silent,           \* ids without a heartbeat for heartbeat_timeout_
          chan,             \* chan[<<p, q>>]: messages from p to q
          down,             \* processes that crashed or closed their sockets
          failed,           \* processes in which a CHECK failed
          crashes, traffic

van == <<init_stage, ready, my_id, senders, polled, connected>>
sched == <<nodes, recovery, shared, barrier_count, silent>>
bounds == <<crashes, traffic>>
vars == <<pc, init_stage, ready, my_id, senders, polled, connected, barrier_done, nodes,
          recovery, shared, barrier_count, silent, chan, down, failed,
          crashes, traffic>>

Init == /\ pc = [p \in Procs0 |-> [c \in Customers[p] |-> "new"]]
        /\ init_stage = [p \in Procs0 |-> 0]
        /\ ready = [p \in Procs0 |-> FALSE]
        /\ my_id = [p \in Procs0 |-> None]
        /\ senders = [p \in Procs0 |-> <<>>]
        /\ polled = [p \in Procs0 |-> {}] /\ connected = [p \in Procs0 |-> {}]
        /\ barrier_done = [p \in Procs0 |-> [c \in Customers[p] |-> FALSE]]
        /\ nodes = <<>> /\ recovery = <<>> /\ shared = {}
        /\ barrier_count = [g \in {"all", "workers"} |-> 0]
        /\ silent = {}
        /\ chan = [c \in Procs0 \X Procs0 |-> <<>>]
        /\ down = {} /\ failed = {}
        /\ crashes = 0 /\ traffic = 0

Alive(p) == p \notin down \cup failed

GetRoleFromId(id) == IF id < 8 THEN Scheduler ELSE IF id % 2 = 1 THEN Worker ELSE Server

Meta(cmd, request, group, list) ==
  [cmd |-> cmd, request |-> request, barrier_group |-> group, node |-> list]
Data(request) == Meta("DATA", request, None, <<>>)

\* The bytes of a meta: the group only of a barrier, nodes only of a control
\* message, and neither the sender nor the receiver.
PackMeta(m) == [m EXCEPT !.barrier_group = IF m.cmd = "BARRIER" THEN @ ELSE None,
                         !.node = IF m.cmd = "DATA" THEN <<>> ELSE @]

\* A socket is known to the other side as "ps<id>" once the process has an id;
\* the name is read back to find the sender.
Identity(id) == IF id = None THEN <<"generated">> ELSE <<"ps", id>>
GetNodeID(identity) == IF Len(identity) = 2 /\ identity[1] = "ps" THEN identity[2] ELSE None

UnpackMeta(raw, sender) ==
  [cmd |-> raw.cmd, request |-> raw.request, barrier_group |-> raw.barrier_group,
   node |-> raw.node, sender |-> sender]

\* ZmqSendMsg: the message is queued at q; a process that is gone gets nothing.
ZmqSendMsg(channels, p, q, m) ==
  IF ~Alive(q) THEN channels
  ELSE [channels EXCEPT ![<<p, q>>] =
          Append(@, [identity |-> Identity(my_id[p]), meta |-> PackMeta(m)])]

\* SendMsg finds no socket for the receiver, and returns -1.
NoSocket(book, id) == id \notin DOMAIN book

\* NonWorkerSendMsg: data for a worker goes out by the ROUTER socket the worker
\* is connected to.  That is mandatory routing, it fails once the end of the
\* worker has been noticed.
Unroutable(p, book, id, m) == /\ Role[p] # Worker /\ m.cmd = "DATA"
                              /\ GetRoleFromId(id) = Worker /\ ~Alive(book[id])

\* Van::Send of posts, pairs <<id, message>>, by p, whose sockets are book; a
\* message that cannot be sent fails a CHECK and ends the process.
Send(channels, p, book, posts) ==
  /\ chan' = FoldLeft(LAMBDA cs, x : IF NoSocket(book, x[1]) THEN cs
                                     ELSE ZmqSendMsg(cs, p, book[x[1]], x[2]),
                      channels, posts)
  /\ LET homeless == \E i \in DOMAIN posts : NoSocket(book, posts[i][1])
         unroutable == \E i \in DOMAIN posts :
                         /\ ~NoSocket(book, posts[i][1])
                         /\ Unroutable(p, book, posts[i][1], posts[i][2])
     IN failed' \in (IF homeless THEN {} ELSE {failed})
                     \cup (IF homeless \/ unroutable THEN {failed \cup {p}} ELSE {})

Node(p, c) == [proc |-> p, customer |-> c, role |-> Role[p], id |-> None, rec |-> FALSE]
-----------------------------------------------------------------------------
\* Van::Start, up to the wait: the first customer binds, connects to the
\* scheduler and starts the receiver; every customer registers itself.  The
\* spare process is started when another one has crashed.
VanStart(p, c) ==
  /\ pc[p][c] = "new"
  /\ p \in Spare => crashes > 0
  /\ pc' = [pc EXCEPT ![p][c] = "waiting"]
  /\ init_stage' = [init_stage EXCEPT ![p] = IF @ = 0 THEN 1 ELSE @]
  /\ my_id' = IF p = Root THEN [my_id EXCEPT ![p] = kScheduler] ELSE my_id
  /\ senders' = IF init_stage[p] = 0
                THEN [senders EXCEPT ![p] = (kScheduler :> Root)] ELSE senders
  /\ Send(chan, p, senders'[p],
          IF p = Root THEN <<>>
          ELSE <<<<kScheduler, Meta("ADD_NODE", FALSE, None, <<Node(p, c)>>)>>>>)
  /\ UNCHANGED <<ready, polled, connected, barrier_done, nodes, recovery, shared, barrier_count,
                 silent, down, crashes, traffic>>

\* Mutant: Start returns without its barrier.
VanReady_NoBarrier(p, c) ==
  /\ pc[p][c] = "waiting" /\ ready[p]
  /\ pc' = [pc EXCEPT ![p][c] = "running"]
  /\ init_stage' = [init_stage EXCEPT ![p] = IF @ = 1 THEN 2 ELSE @]
  /\ UNCHANGED <<ready, my_id, senders, polled, connected, barrier_done, nodes, recovery, shared,
                 barrier_count, silent, chan, down, failed, crashes, traffic>>

\* Van::Start after ready_: the heartbeat thread.  Without do_barrier
\* (StartAsync, for the process that replaces another) Start returns here.
VanReady(p, c) ==
  /\ pc[p][c] = "waiting" /\ ready[p]
  /\ pc' = [pc EXCEPT ![p][c] = IF p \in Spare THEN "running" ELSE "ready"]
  /\ init_stage' = [init_stage EXCEPT ![p] = IF @ = 1 THEN 2 ELSE @]
  /\ UNCHANGED <<ready, my_id, senders, polled, connected, barrier_done, nodes, recovery, shared,
                 barrier_count, silent, chan, down, failed, crashes, traffic>>

\* Postoffice::Barrier, up to the wait; there is none in a group of one.
Barrier(p, c, group) ==
  LET alone == Cardinality(GetNodeIDs(group)) <= 1
  IN /\ barrier_done' = [barrier_done EXCEPT ![p][c] = alone]
     /\ Send(chan, p, senders[p],
             IF alone THEN <<>>
             ELSE <<<<kScheduler, Meta("BARRIER", TRUE, group, <<>>)>>>>)
     /\ UNCHANGED <<init_stage, ready, my_id, senders, polled, connected, nodes, recovery, shared,
                    barrier_count, silent, down, crashes, traffic>>

\* A request of p, or an answer to it, is under way.
Pending(p) == \E q \in Procs0 : \E c \in {<<p, q>>, <<q, p>>} :
                \E i \in DOMAIN chan[c] : chan[c][i].meta.cmd = "DATA"

\* The barriers of a customer: at the end of Start, one among the workers, for
\* which the user waits until its requests are answered, and at the beginning
\* of Finalize.
EnterBarrier(p, c) ==
  \/ /\ pc[p][c] = "ready"
     /\ pc' = [pc EXCEPT ![p][c] = "in_start"]
     /\ Barrier(p, c, "all")
  \/ /\ pc[p][c] = "running" /\ Role[p] = Worker /\ ~Pending(p)
     /\ pc' = [pc EXCEPT ![p][c] = "in_workers"]
     /\ Barrier(p, c, "workers")
  \/ /\ pc[p][c] = IF Role[p] = Worker THEN "worked" ELSE "running"
     /\ pc' = [pc EXCEPT ![p][c] = "in_final"]
     /\ Barrier(p, c, "all")

After == [in_start |-> "running", in_workers |-> "worked", in_final |-> "left_final"]

LeaveBarrier(p, c) ==
  /\ pc[p][c] \in DOMAIN After /\ barrier_done[p][c]
  /\ pc' = [pc EXCEPT ![p][c] = After[@]]
  /\ UNCHANGED <<van, sched, bounds, barrier_done, chan, down, failed>>

\* Finalize after its barrier: customer 0 stops the Van, with a message to its
\* own receiver; the others return.
Stop(p, c) ==
  /\ pc[p][c] = "left_final"
  /\ pc' = [pc EXCEPT ![p][c] = IF c = 0 THEN "stopping" ELSE "done"]
  /\ Send(chan, p, senders[p],
          IF c = 0 THEN <<<<my_id[p], Meta("TERMINATE", FALSE, None, <<>>)>>>> ELSE <<>>)
  /\ UNCHANGED <<van, sched, bounds, barrier_done, down>>

\* The peers for which messages of p are under way.
Unsent(p) == {q \in Procs0 \ {p} : chan[<<p, q>>] # <<>>}

\* What is left in the channels when p closes its sockets or crashes: messages
\* it had not transmitted are lost (ZMQ_LINGER is 0), and so are those to it;
\* kept is the set of peers to which everything was transmitted.
Cut(p, kept) == [c \in DOMAIN chan |->
                   IF c[2] = p THEN <<>>
                   ELSE IF c[1] = p /\ c[2] \notin kept THEN <<>> ELSE chan[c]]

\* Finalize after Stop: the Postoffice forgets everything, heartbeats included.
FinalizeEnd(p) ==
  /\ init_stage' = [init_stage EXCEPT ![p] = 0]
  /\ barrier_done' = [barrier_done EXCEPT ![p] = [c \in Customers[p] |-> FALSE]]
  /\ silent' = IF p = Root THEN {} ELSE silent

\* Stop after the receiver thread has ended: everything is cleared.
StopEnd(p, kept) ==
  /\ pc[p][0] = "stopping" /\ ~ready[p]
  /\ pc' = [pc EXCEPT ![p][0] = "done"]
  /\ FinalizeEnd(p)
  /\ my_id' = [my_id EXCEPT ![p] = None]
  /\ senders' = [senders EXCEPT ![p] = <<>>]
  /\ polled' = [polled EXCEPT ![p] = {}]
  /\ connected' = [connected EXCEPT ![p] = {}]
  /\ IF p # Root THEN UNCHANGED <<shared, barrier_count>>
     ELSE /\ shared' = {}
          /\ barrier_count' = [g \in DOMAIN barrier_count |-> 0]
  /\ chan' = Cut(p, kept)
  /\ down' = down \cup {p}
  /\ UNCHANGED <<ready, nodes, recovery, failed, crashes, traffic>>
-----------------------------------------------------------------------------
\* ZMQVan::Connect of p, known as id and with role, to the nodes of a list: a
\* node of the same role is left out, unless it is the process itself.
Sockets(p, id, list) ==
  LET known(x) == x.id # None /\ (x.role # Role[p] \/ x.id = id)
  IN [i \in {x.id : x \in {y \in Range(list) : known(y)}} |->
        (CHOOSE x \in Range(list) : x.id = i).proc]

\* The threads Connect starts: in a worker, on the first socket for an id.  The
\* socket that another one replaces is closed, and its thread still polls it.
RecvThreads(p, new) ==
  IF Role[p] = Worker THEN {<<i, new[i]>> : i \in DOMAIN new \ DOMAIN senders[p]} ELSE {}

\* Mutant: a shared process is given a new id for each of its customers.
Assigned_Unshared(list) ==
  LET Rank(i) == Cardinality({j \in 1 .. i - 1 : list[j].role = list[i].role})
  IN [i \in DOMAIN list |-> [list[i] EXCEPT !.id = RankToID(list[i].role, Rank(i))]]

\* The ids the scheduler assigns to the sorted list: by rank within the role; a
\* process that appears again keeps its first id.
Assigned(list) ==
  LET Rank(i) == Cardinality({j \in 1 .. i - 1 : list[j].role = list[i].role})
      First(i) == CHOOSE j \in 1 .. i : /\ list[j].proc = list[i].proc
                                        /\ \A k \in 1 .. j - 1 : list[k].proc # list[i].proc
  IN [i \in DOMAIN list |-> [list[i] EXCEPT !.id = RankToID(list[i].role, Rank(First(i)))]]

Sorted(list) == SortSeq(list, LAMBDA x, y :
  SelectInSeq(Procs, LAMBDA p : p = x.proc) < SelectInSeq(Procs, LAMBDA p : p = y.proc))

Everybody == SetToSortSeq(GetNodeIDs("all") \ {kScheduler}, <)

\* ProcessAddNodeCommandAtScheduler when the last node has registered: ids are
\* assigned and everybody, once per process, is sent the list.
AllRegistered(rest, list) ==
  LET known == Assigned(Sorted(list))
      all == Append(known, [Node(Root, 0) EXCEPT !.id = kScheduler])
      taken == {known[i].id : i \in DOMAIN known}
      book == senders[Root] @@ Sockets(Root, kScheduler, known)
      to == SelectSeq(Everybody, LAMBDA r : r \in taken)
  IN /\ nodes' = all
     /\ shared' = Range(Everybody) \ taken
     /\ connected' = [connected EXCEPT ![Root] = {known[i].proc : i \in DOMAIN known}]
     /\ senders' = [senders EXCEPT ![Root] = book]
     /\ silent' = silent \ taken
     /\ ready' = [ready EXCEPT ![Root] = TRUE]
     /\ Send(rest, Root, book,
             [i \in DOMAIN to |-> <<to[i], Meta("ADD_NODE", FALSE, None, all)>>])
     /\ UNCHANGED recovery

\* The entries of dead nodes that the new node n may replace.
Replaced(n, dead) ==
  {i \in 1 .. Len(nodes) - 1 : nodes[i].id \in dead /\ nodes[i].role = n.role}

(***************************************************************************)
(* A registration after that: UpdateLocalID gives n the id of the first    *)
(* dead node of its role, and the scheduler sends the whole list to n and  *)
(* the entry of n to the others, the dead left out.  A shared id never     *)
(* sends a heartbeat and counts as dead.                                   *)
(***************************************************************************)
Recover(rest, n) ==
  LET dead == silent \cup shared
      may == Replaced(n, dead)
      i == CHOOSE k \in may : \A j \in may : k <= j
      fresh == [n EXCEPT !.id = nodes[i].id, !.rec = TRUE]
      rec == IF may = {} THEN recovery ELSE Append(recovery, fresh)
      all == IF may = {} THEN nodes ELSE [nodes EXCEPT ![i] = fresh]
      book == (rec[1].id :> rec[1].proc) @@ senders[Root]
      to == SelectSeq(Everybody, LAMBDA r : r = rec[1].id \/ r \notin dead)
  IN /\ nodes' = all
     /\ recovery' = rec
     /\ IF Len(rec) # 1
        THEN /\ failed' = IF rec = <<>> THEN failed ELSE failed \cup {Root}
             /\ chan' = rest
             /\ UNCHANGED <<senders, silent>>
        ELSE /\ senders' = [senders EXCEPT ![Root] = book]
             /\ silent' = silent \ {rec[1].id}
             /\ Send(rest, Root, book, [k \in DOMAIN to |->
                  <<to[k], Meta("ADD_NODE", FALSE, None,
                                IF to[k] = rec[1].id THEN all ELSE rec)>>])
     /\ UNCHANGED <<shared, connected, ready>>

AddNodeAtScheduler(rest, n) ==
  /\ CASE Len(nodes) < NumNodes - 1 ->
            /\ nodes' = Append(nodes, n) /\ chan' = rest
            /\ UNCHANGED <<recovery, shared, connected, senders, silent, ready, failed>>
       [] Len(nodes) = NumNodes - 1 -> AllRegistered(rest, Append(nodes, n))
       [] OTHER -> Recover(rest, n)
  /\ UNCHANGED <<my_id, polled, barrier_count, barrier_done>>

\* Mutant: a node that is ready ignores the list of a recovery.
AddNode_Once(rest, p, list) ==
  /\ my_id' = IF ready[p] THEN my_id
              ELSE [my_id EXCEPT ![p] = (CHOOSE x \in Range(list) : x.proc = p).id]
  /\ senders' = IF ready[p] THEN senders
                ELSE [senders EXCEPT ![p] = Sockets(p, my_id'[p], list) @@ @]
  /\ polled' = [polled EXCEPT ![p] = @ \cup RecvThreads(p, Sockets(p, my_id'[p], list))]
  /\ connected' = [connected EXCEPT ![p] = @ \cup {x.proc : x \in Range(list)}]
  /\ ready' = [ready EXCEPT ![p] = TRUE]
  /\ chan' = rest
  /\ UNCHANGED <<sched, barrier_done, failed>>

\* UpdateLocalID: a process without an id takes it from its entry in the list.
LocalId(p, list) ==
  LET mine == {x \in Range(list) : x.proc = p}
  IN IF my_id[p] = None /\ mine # {} THEN (CHOOSE x \in mine : TRUE).id ELSE my_id[p]

\* ProcessAddNodeCommand at a server or worker: it learns its id, and connects
\* to every address it does not know yet.
AddNode(rest, p, list) ==
  LET id == LocalId(p, list)
      new == SelectSeq(list, LAMBDA x : x.proc \notin connected[p])
  IN /\ my_id' = [my_id EXCEPT ![p] = id]
     /\ senders' = [senders EXCEPT ![p] = Sockets(p, id, new) @@ @]
     /\ polled' = [polled EXCEPT ![p] = @ \cup RecvThreads(p, Sockets(p, id, new))]
     /\ connected' = [connected EXCEPT ![p] = @ \cup {x.proc : x \in Range(list)}]
     /\ ready' = [ready EXCEPT ![p] = TRUE]
     /\ chan' = rest
     /\ UNCHANGED <<sched, barrier_done, failed>>

\* Mutant: the release is sent one request too early.
IsFull_Early(group, count) == count = Cardinality(GetNodeIDs(group)) - 1

\* Mutant: the scheduler waits for one request more than there are nodes.
IsFull_Late(group, count) == count > Cardinality(GetNodeIDs(group))

IsFull(group, count) == count = Cardinality(GetNodeIDs(group))

\* ProcessBarrierCommand at the scheduler counts requests, and releases the
\* processes of the group when it has seen as many as the group has nodes.
BarrierRequest(rest, group) ==
  LET full == IsFull(group, barrier_count[group] + 1)
      to == IF full THEN SetToSortSeq(GetNodeIDs(group) \ shared, <) ELSE <<>>
  IN /\ barrier_count' = [barrier_count EXCEPT ![group] = IF full THEN 0 ELSE @ + 1]
     /\ Send(rest, Root, senders[Root],
             [i \in DOMAIN to |-> <<to[i], Meta("BARRIER", FALSE, group, <<>>)>>])
     /\ UNCHANGED <<ready, my_id, senders, polled, connected, nodes, recovery, shared, silent,
                    barrier_done>>

\* Postoffice::Manage: every customer of the process is released.
Manage(rest, p) ==
  /\ barrier_done' = [barrier_done EXCEPT ![p] = [c \in Customers[p] |-> TRUE]]
  /\ chan' = rest
  /\ UNCHANGED <<ready, my_id, senders, polled, connected, sched, failed>>

\* The node of p, as it is sent once it has an id.
MyNode(p) == [Node(p, 0) EXCEPT !.id = my_id[p]]

\* ProcessHearbeat: the scheduler records the node and answers.
Hearbeat(rest, p, n) ==
  /\ silent' = IF p = Root THEN silent \ {n.id} ELSE silent
  /\ Send(rest, p, senders[p],
          IF p = Root THEN <<<<n.id, Meta("HEARTBEAT", FALSE, None, <<MyNode(p)>>)>>>>
          ELSE <<>>)
  /\ UNCHANGED <<ready, my_id, senders, polled, connected, nodes, recovery, shared, barrier_count,
                 barrier_done>>

\* ProcessDataMsg: a server answers the worker, a worker is content.
DataMsg(rest, p, from) ==
  /\ Send(rest, p, senders[p],
          IF Role[p] = Server THEN <<<<from, Data(FALSE)>>>> ELSE <<>>)
  /\ UNCHANGED <<ready, my_id, senders, polled, connected, sched, barrier_done>>

\* ProcessTerminateCommand: the receiver ends.
Terminate(rest, p) ==
  /\ ready' = [ready EXCEPT ![p] = FALSE]
  /\ chan' = rest
  /\ UNCHANGED <<my_id, senders, polled, connected, sched, barrier_done, failed>>

\* The socket that a thread of p polls has been closed.
PollsClosed(p) == \E t \in polled[p] : senders[p][t[1]] # t[2]

\* CallZmqRecvThread has put a message of the connection into recv_buffers_.
\* Control messages come to the bound socket, data for a worker to the socket
\* with which it connected, if that has a thread.
CallZmqRecvThread(p, from) ==
  /\ chan[<<from, p>>] # <<>>
  /\ Role[p] = Worker /\ Head(chan[<<from, p>>]).meta.cmd = "DATA" =>
       \E t \in polled[p] : t[2] = from /\ senders[p][t[1]] = from

\* CallZmqRecvThread on a socket that is closed: the CHECK ends the process.
RecvThreadFails(p, kept) ==
  /\ PollsClosed(p)
  /\ failed' = failed \cup {p}
  /\ chan' = Cut(p, kept)
  /\ UNCHANGED <<pc, van, sched, bounds, barrier_done, down>>

RecvMsg(p, from) == LET x == Head(chan[<<from, p>>])
                    IN UnpackMeta(x.meta, GetNodeID(x.identity))

\* Van::Receiving: the next message of a connection.
Receiving(p, from) ==
  /\ init_stage[p] > 0 /\ ~(pc[p][0] = "stopping" /\ ~ready[p])
  /\ CallZmqRecvThread(p, from)
  /\ \E m \in {RecvMsg(p, from)}, rest \in {[chan EXCEPT ![<<from, p>>] = Tail(@)]} :
        \/ m.cmd = "ADD_NODE" /\ p = Root /\ AddNodeAtScheduler(rest, m.node[1])
        \/ m.cmd = "ADD_NODE" /\ p # Root /\ AddNode(rest, p, m.node)
        \/ m.cmd = "BARRIER" /\ m.request /\ BarrierRequest(rest, m.barrier_group)
        \/ m.cmd = "BARRIER" /\ ~m.request /\ Manage(rest, p)
        \/ m.cmd = "HEARTBEAT" /\ Hearbeat(rest, p, m.node[1])
        \/ m.cmd = "DATA" /\ DataMsg(rest, p, m.sender)
        \/ m.cmd = "TERMINATE" /\ Terminate(rest, p)
  /\ UNCHANGED <<pc, init_stage, down, crashes, traffic>>

\* Van::Heartbeat.
Heartbeat(p) ==
  /\ p # Root /\ init_stage[p] = 2 /\ ready[p]
  /\ traffic < MaxTraffic /\ traffic' = traffic + 1
  /\ Send(chan, p, senders[p], <<<<kScheduler, Meta("HEARTBEAT", FALSE, None, <<MyNode(p)>>)>>>>)
  /\ UNCHANGED <<pc, van, sched, barrier_done, down, crashes>>

\* A worker asks every server for something.
Request(p, c) ==
  /\ Role[p] = Worker /\ pc[p][c] = "running"
  /\ traffic < MaxTraffic /\ traffic' = traffic + 1
  /\ LET to == SetToSortSeq(GetNodeIDs("all") \ (GetNodeIDs("workers") \cup {kScheduler}), <)
     IN Send(chan, p, senders[p],
             [i \in DOMAIN to |-> <<to[i], Data(TRUE)>>])
  /\ UNCHANGED <<pc, van, sched, barrier_done, down, crashes>>

\* A server dies between its barriers; what it had not transmitted is lost.
Crash(p, kept) ==
  /\ Role[p] = Server /\ p \in Members
  /\ pc[p][0] = "running" /\ crashes < MaxCrashes
  /\ crashes' = crashes + 1
  /\ down' = down \cup {p}
  /\ chan' = Cut(p, kept)
  /\ UNCHANGED <<pc, van, sched, barrier_done, failed, traffic>>

\* No heartbeat of a process that is down for heartbeat_timeout_ seconds.  Those
\* of a live process arrive in time.  Bound: it is noticed of a role that has a
\* spare process.
Silence(p) ==
  /\ ~Alive(p) /\ my_id[p] # None /\ my_id[p] \notin silent
  /\ \E q \in Spare : Role[q] = Role[p]
  /\ \A q \in Procs0 \ {p} : my_id[q] # my_id[p]
  /\ silent' = silent \cup {my_id[p]}
  /\ UNCHANGED <<pc, van, nodes, recovery, shared, barrier_count, barrier_done, chan, down,
                 failed, bounds>>

CustomerStep(p, c) == \/ VanStart(p, c) \/ VanReady(p, c)
                      \/ EnterBarrier(p, c) \/ LeaveBarrier(p, c)
                      \/ Stop(p, c) \/ Request(p, c)

ProcStep(p) == /\ Alive(p)
               /\ \/ \E c \in Customers[p] : CustomerStep(p, c)
                  \/ \E from \in Procs0 : Receiving(p, from)
                  \/ \E kept \in SUBSET Unsent(p) : RecvThreadFails(p, kept)
                  \/ Heartbeat(p)
                  \/ \E kept \in SUBSET Unsent(p) : StopEnd(p, kept)
                  \/ \E kept \in SUBSET Unsent(p) : Crash(p, kept)

Next == \/ \E p \in Procs0 : ProcStep(p)
        \/ \E p \in Procs0 : Silence(p)

\* A customer thread on its way through Start, or out of a barrier.
Starting(p, c) == \/ VanStart(p, c)
                  \/ VanReady(p, c)
                  \/ pc[p][c] = "ready" /\ EnterBarrier(p, c)
                  \/ LeaveBarrier(p, c)

\* The threads of a live process run on.  Nobody need call Finalize, or start a
\* process in place of another.
Fairness ==
  /\ \A p \in Procs0 : WF_vars(Alive(p) /\ \E from \in Procs0 : Receiving(p, from))
  /\ \A p \in Members : WF_vars(Alive(p) /\ \E c \in Customers[p] : Starting(p, c))
  /\ \A p \in Procs0 : Role[p] = Worker =>
       WF_vars(Alive(p) /\ \E kept \in SUBSET Unsent(p) : RecvThreadFails(p, kept))

Spec == Init /\ [][Next]_vars /\ Fairness
-----------------------------------------------------------------------------
Phase == <<"new", "waiting", "ready", "in_start", "running", "in_workers", "worked",
           "in_final", "left_final", "stopping", "done">>
Position == [x \in Range(Phase) |-> SelectInSeq(Phase, LAMBDA y : y = x)]
Index(x) == Position[x]
At(t) == Position[pc[t[1]][t[2]]]

TypeOK ==
  /\ \A t \in Threads : pc[t[1]][t[2]] \in Range(Phase)
  /\ \A p \in Procs0 :
       /\ init_stage[p] \in 0 .. 2 /\ ready[p] \in BOOLEAN
       /\ my_id[p] \in GetNodeIDs("all") \cup {None}
       /\ DOMAIN senders[p] \subseteq GetNodeIDs("all") /\ connected[p] \subseteq Procs0
       /\ polled[p] \subseteq (DOMAIN senders[p]) \X Procs0
       /\ \A c \in Customers[p] : barrier_done[p][c] \in BOOLEAN
  /\ Len(nodes) <= NumNodes + 1 /\ Len(recovery) <= MaxCrashes
  /\ shared \subseteq GetNodeIDs("all") /\ silent \subseteq GetNodeIDs("all")
  /\ \A g \in DOMAIN barrier_count : barrier_count[g] < Cardinality(GetNodeIDs(g))
  /\ down \subseteq Procs0 /\ failed \subseteq Procs0

\* No CHECK of an initial process fails but one: connecting to a replacement, a
\* worker closes the socket to the dead server under the thread that polls it,
\* and is ended by that thread.  Otherwise a message is only ever sent to a node
\* the sender has a socket for.  A server answers a worker, for one, though it
\* learned of the worker from another connection than the one the request came
\* on: the barrier at the end of Start is what makes that safe.  A replacement
\* has no such barrier, and a request that overtakes its list of nodes does end
\* it, and so does an answer to a worker that has ended.
OnlyClosedSocketsFail == /\ \A p \in failed \ Spare : Role[p] = Worker /\ PollsClosed(p)
                         /\ crashes = 0 => failed = {}

\* Node ids are agreed: no two live processes have the same one, and whoever
\* has a socket for an id has it to the process that goes by that id, unless
\* that process is gone.
IdsAgree == \A p \in Procs0 : Alive(p) =>
  /\ \A q \in Procs0 : Alive(q) /\ my_id[p] # None /\ my_id[p] = my_id[q] => p = q
  /\ \A i \in DOMAIN senders[p] : LET q == senders[p][i]
                                  IN Alive(q) /\ my_id[q] # None => my_id[q] = i

\* The customers of a barrier's group, after the replacement of dead processes.
Group(role) == {t \in Threads : /\ Alive(t[1]) /\ Role[t[1]] \in role
                                /\ t[1] \in Spare => my_id[t[1]] # None}

\* A barrier holds: nobody leaves it before everybody in its group has entered,
\* whatever the scheduler's count of requests was made up of.
BarrierHolds ==
  /\ \A t, u \in Group({Scheduler, Server, Worker}) :
       /\ At(t) > Index("in_start") /\ u[1] \notin Spare => At(u) >= Index("in_start")
       /\ At(t) > Index("in_final") => At(u) >= Index("in_final")
  /\ \A t, u \in Group({Worker}) : At(t) > Index("in_workers") => At(u) >= Index("in_workers")

\* Start returns in every customer of the initial processes, unless a socket
\* closed for a replacement ends its process.
EveryoneStarts == <>(\A t \in Threads : t[1] \in Members =>
                       At(t) >= Index("running") \/ (t[1] \in failed /\ PollsClosed(t[1])))

\* Once a replacement is ready, the nodes that talk to its role come to send to
\* it, unless they or the scheduler stop first; but no worker outlives that: the
\* socket to the dead server that it closed ends it.
ReplacementIsReached == \A q \in Spare :
  ready[q] ~> \/ ~Alive(q) \/ ~Alive(Root)
              \/ \A p \in {x \in Members : Role[x] # Role[q]} :
                   \/ p \in down \/ ~ready[p]
                   \/ /\ my_id[q] \in DOMAIN senders[p] /\ senders[p][my_id[q]] = q
                      /\ Role[p] = Worker => p \in failed
=============================================================================

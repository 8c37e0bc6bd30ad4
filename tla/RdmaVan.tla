------------------------------ MODULE RdmaVan ------------------------------
(***************************************************************************)
(* RDMAVan with its RDMA and IPC transports: connections are established   *)
(* through events of the connection manager; a message is written into a   *)
(* buffer of the receiver that a rendezvous allocated, and the buffers of  *)
(* the first message with a key are used again for the following ones.     *)
(* Workers and a server exchange the value of one key.  The user of a      *)
(* worker pushes and pulls, the pull perhaps while the push is under way,  *)
(* and waits for both (one request of a key and kind at a time: the reuse  *)
(* of buffers rests on it), with simple requests in between.  c = <<p, q>> *)
(* is the connection that p opens to q: messages of p travel on it, and    *)
(* the rendezvous replies of q travel back.                                *)
(***************************************************************************)
EXTENDS Integers, Sequences, FiniteSets, TLC

CONSTANTS Workers, Server,
          MaxRounds,    \* bound: pushes of a worker
          MaxSimple,    \* bound: simple requests of a worker
          MaxUnderWay,  \* bound: requests of a worker at a time
          MaxRejects,   \* bound: rejected connections
          kStartDepth, kReplyDepth, kRxDepth, kMaxEntries,  \* sizes of the pools
          pagesize, MetaLen, SimpleMetaLen,       \* lengths in bytes
          KeyLen, ValLen, LenLen

ASSUME RdmaAssumption == /\ Server \notin Workers
                         /\ kStartDepth \in Nat \ {0} /\ kReplyDepth \in Nat \ {0}
                         /\ kRxDepth \in Nat \ {0} /\ pagesize \in Nat \ {0}

Nodes == Workers \cup {Server}
Links == (Workers \X {Server}) \cup ({Server} \X Workers)

VARIABLES local,        \* workers on the server's host: IPCTransport
          van,          \* van[p]: how far its Start, or its Stop, has come
          context,      \* processes with a context_: a cq_ and a mem_allocator_
          stage,        \* stage[c]: where the opening side of a connection is
          accepted,     \* accepted[c]: the same for the accepting side
          transport,    \* transport[c]: the opening side has called SetTransport
          free_start,   \* free_start[c]: queue of the free contexts of START
          free_reply,   \* free_reply[c]: how many contexts of REPLY are free
          start_ctx,    \* start_ctx[c]: what the buffers of its contexts hold
          sq, rq,       \* work requests posted by the opening and accepting side
          cq,           \* cq[p]: completion queue
          buf,          \* buf[p]: MessageBuffers, what their inline_buf holds
          msgbuf_cache, \* msgbuf_cache[p]: buffers that wait for a reply
          addr,         \* addr[p]: push_addr_ and pull_addr_
          pool,         \* pool[p]: the receive buffers of addr_pool_, by index
          recv_buffers, \* recv_buffers[p]: messages for RecvMsg
          todo,         \* requests handed to the server's Customer
          tensor_info,  \* tensor_info_map_: workers, with the address of their tensor
          copies,       \* queue of the AsyncCopyThread
          tensor,       \* tensor[w]: the worker's memory, shared when local
          store,        \* store[w]: the value the server holds for w
          user,         \* user[w]: what the worker's user does
          failed,       \* processes ended by a CHECK, each with the reason
          simples,      \* simples[w]: simple requests sent, and answered
          rejects

conn == <<local, van, context, stage, accepted, transport, rejects>>
sent == <<free_start, start_ctx, sq, buf, msgbuf_cache, copies, failed>>
app == <<todo, store, user, simples>>
vars == <<local, van, context, stage, accepted, transport, free_start, free_reply, start_ctx, sq, rq,
          cq, buf, msgbuf_cache, addr, pool, recv_buffers, todo, tensor_info, copies, tensor,
          store, user, failed, simples, rejects>>

Init == /\ local \in SUBSET Workers
        /\ van = [p \in Nodes |-> "new"] /\ context = {}
        /\ stage = [c \in Links |-> "idle"]
        /\ accepted = [c \in Links |-> "no"]
        /\ transport = [c \in Links |-> FALSE]
        /\ free_start = [c \in Links |-> <<>>] /\ free_reply = [c \in Links |-> 0]
        /\ start_ctx = [c \in Links |-> <<>>]
        /\ sq = [c \in Links |-> <<>>] /\ rq = [c \in Links |-> <<>>]
        /\ cq = [p \in Nodes |-> <<>>]
        /\ buf = [p \in Nodes |-> <<>>]
        /\ msgbuf_cache = [p \in Nodes |-> {}]
        /\ addr = [p \in Nodes |-> <<>>]
        /\ pool = [p \in Nodes |-> <<>>]
        /\ recv_buffers = [p \in Nodes |-> <<>>]
        /\ todo = <<>> /\ copies = <<>> /\ tensor_info = {}
        /\ tensor = [w \in Workers |-> 0] /\ store = [w \in Workers |-> 0]
        /\ user = [w \in Workers |-> [phase |-> "idle", round |-> 0, at |-> "tensor", waits |-> {}]]
        /\ failed = {} /\ rejects = 0
        /\ simples = [w \in Workers |-> [sent |-> 0, answered |-> 0]]

Alive(p) == \A f \in failed : f[1] # p

\* A CHECK ends the process p.
Fail(p, why) == failed' = failed \cup {<<p, why>>}

\* The other end sees that a process has stopped, or has failed.
Gone(p) == van[p] = "stopped" \/ ~Alive(p)
-----------------------------------------------------------------------------
\* Start runs the thread of PollEvents, and Bind listens.  Bound: one of the
\* max_retry + 1 ports it tries is free.
Start(p) == /\ Alive(p) /\ van[p] = "new"
            /\ van' = [van EXCEPT ![p] = "started"]
            /\ UNCHANGED <<context, stage, accepted, transport, rejects, free_start, free_reply,
                           failed>>

Bind(p) == /\ Alive(p) /\ van[p] = "started"
           /\ van' = [van EXCEPT ![p] = "listening"]
           /\ UNCHANGED <<context, stage, accepted, transport, rejects, free_start, free_reply,
                          failed>>

\* The scheduler's list holds the nodes that have bound.
Listed == \A p \in Nodes : van[p] \notin {"new", "started"}

\* Connect, one peer after the other: from here on the thread waits.
Connect(c) == /\ Listed /\ Alive(c[1]) /\ stage[c] \in {"idle", "rejected"}
              /\ \A d \in Links \ {c} : d[1] = c[1] /\ stage[d] # "idle" => transport[d]
              /\ stage' = [stage EXCEPT ![c] = "address"]
              /\ UNCHANGED <<van, context, accepted, transport, rejects, free_start, free_reply,
                             failed>>

OnAddrResolved(c) == /\ Alive(c[1]) /\ stage[c] = "address"
                     /\ stage' = [stage EXCEPT ![c] = "route"]
                     /\ UNCHANGED <<van, context, accepted, transport, rejects, free_start,
                                    free_reply, failed>>

\* The first connection of p makes the context.
InitContext(p) == context \cup {p}

\* Endpoint::Init puts the contexts of START into their queue, every attempt to
\* connect once more: the same ones, after a rejection they are there twice.
InitSendContextHelper(c) ==
  free_start' = [free_start EXCEPT ![c] = @ \o [i \in 1 .. kStartDepth |-> i]]

OnRouteResolved(c) == /\ Alive(c[1]) /\ stage[c] = "route"
                      /\ stage' = [stage EXCEPT ![c] = "requested"]
                      /\ context' = InitContext(c[1])
                      /\ InitSendContextHelper(c)
                      /\ UNCHANGED <<van, accepted, transport, rejects, free_reply, failed>>

\* RDMATransport's constructor fails without an allocator.
NewTransport(p, ctx) == IF p \in ctx THEN UNCHANGED failed ELSE Fail(p, "allocator")

\* The accepting side sets the transport before it accepts; its endpoint, and
\* with it the contexts of REPLY, is made for this one request.
OnConnectRequest(c) == /\ Alive(c[2]) /\ stage[c] = "requested"
                       /\ stage' = [stage EXCEPT ![c] = "granted"]
                       /\ accepted' = [accepted EXCEPT ![c] = "yes"]
                       /\ context' = InitContext(c[2])
                       /\ free_reply' = [free_reply EXCEPT ![c] = kReplyDepth]
                       /\ NewTransport(c[2], context')
                       /\ UNCHANGED <<van, transport, rejects, free_start>>

\* The request is rejected; Connect starts again.
OnRejected(c) == /\ Alive(c[1]) /\ stage[c] = "requested" /\ rejects < MaxRejects
                 /\ rejects' = rejects + 1
                 /\ stage' = [stage EXCEPT ![c] = "rejected"]
                 /\ UNCHANGED <<van, context, accepted, transport, free_start, free_reply, failed>>

\* The event RDMA_CM_EVENT_ESTABLISHED at either side.
OnConnected(c) == /\ \/ /\ Alive(c[1]) /\ stage[c] = "granted"
                        /\ stage' = [stage EXCEPT ![c] = "up"]
                        /\ UNCHANGED accepted
                     \/ /\ accepted[c] = "yes" /\ stage[c] # "granted"
                        /\ Alive(c[2]) /\ van[c[2]] = "listening"
                        /\ accepted' = [accepted EXCEPT ![c] = "up"]
                        /\ UNCHANGED stage
                  /\ UNCHANGED <<van, context, transport, rejects, free_start, free_reply, failed>>

\* The same for RDMA_CM_EVENT_DISCONNECTED: the other side is gone.
OnDisconnected(c) == /\ \/ /\ stage[c] = "up" /\ Gone(c[2])
                           /\ Alive(c[1]) /\ van[c[1]] = "listening"
                           /\ stage' = [stage EXCEPT ![c] = "disconnected"]
                           /\ UNCHANGED accepted
                        \/ /\ accepted[c] = "up" /\ Gone(c[1])
                           /\ Alive(c[2]) /\ van[c[2]] = "listening"
                           /\ accepted' = [accepted EXCEPT ![c] = "disconnected"]
                           /\ UNCHANGED stage
                     /\ UNCHANGED <<van, context, transport, rejects, free_start, free_reply,
                                    failed>>

\* PollEvents knows no other event, and the address, the route or the connection
\* may fail.  Bound: such an event comes while a connection is set up.
OnOtherEvent(c) == /\ Alive(c[1]) /\ stage[c] \in {"address", "route", "requested"}
                   /\ Fail(c[1], "event")
                   /\ UNCHANGED <<van, context, stage, accepted, transport, rejects, free_start,
                                  free_reply>>

\* Connect wakes up.
SetTransport(c) == /\ Alive(c[1]) /\ stage[c] = "up" /\ ~transport[c]
                   /\ transport' = [transport EXCEPT ![c] = TRUE]
                   /\ NewTransport(c[1], context)
                   /\ UNCHANGED <<van, context, stage, accepted, rejects, free_start, free_reply>>

\* The first ESTABLISHED event starts the thread of PollCQ, Stop ends it.
Polling(p) == /\ van[p] = "listening"
              /\ \E c \in Links : \/ c[1] = p /\ stage[c] \in {"up", "disconnected"}
                                  \/ c[2] = p /\ accepted[c] \in {"up", "disconnected"}

\* The barrier at the end of Postoffice::Start: everybody's Van::Start has come
\* to its end, and so has connected to everybody.
AllReady == \A c \in Links : transport[c]
-----------------------------------------------------------------------------
Msg(from, to, simple, push, request, round, at) ==
  [from |-> from, to |-> to, simple |-> simple, push |-> push, request |-> request,
   round |-> round, addr |-> at]

IsValidPushpull(m) == ~m.simple
IsPush(m) == m.push /\ m.request
IsPullResponse(m) == ~m.simple /\ ~m.push /\ ~m.request

\* A message's meta, and the keys, values and lengths that come with it.
GetPackMetaLen(m) == IF m.simple THEN SimpleMetaLen ELSE MetaLen
DataLen(m) == IF m.simple THEN 0
              ELSE IF IsPush(m) \/ IsPullResponse(m) THEN KeyLen + ValLen + LenLen
              ELSE IF m.request THEN KeyLen ELSE 0

\* How many parts they are.
DataNum(m) == IF m.simple THEN 0
              ELSE IF IsPush(m) \/ IsPullResponse(m) THEN 3
              ELSE IF m.request THEN 2 ELSE 0

align_floor(v, align) == v - (v % align)
align_ceil(v, align) == align_floor(v + align - 1, align)

\* MemoryAllocator gives whole pages.
Alloc(size) == align_ceil(size, pagesize)

HasRemoteInfo(p, m) == <<m.push, m.to>> \in DOMAIN addr[p]
GetRemoteAndLocalInfo(p, m) == addr[p][<<m.push, m.to>>]

\* IPCTransport is used between processes of one host.
IsLocal(m) == {m.from, m.to} \cap local # {}

\* The message is written from the inline_buf of b when the request is executed.
RDMAWriteWithImm(m, b, idx) == <<[op |-> "IMM", buf |-> b, idx |-> idx, msg |-> m]>>

\* The values first, and to the page after the meta; a local worker leaves them
\* in shared memory.
SendPushRequest(m, b, idx) ==
  (IF IsLocal(m) THEN <<>> ELSE <<[op |-> "WRITE_POOL", idx |-> idx, msg |-> m]>>)
    \o RDMAWriteWithImm(m, b, idx)

\* Mutant: the response is announced before the values are written.
SendPullResponse_Late(m, b, idx) ==
  IF IsLocal(m) THEN <<>>
  ELSE RDMAWriteWithImm(m, b, idx) \o <<[op |-> "WRITE_TENSOR", msg |-> m]>>

\* The values go straight to the worker's tensor; the copy to shared memory
\* is left to another thread.
SendPullResponse(m, b, idx) ==
  IF IsLocal(m) THEN <<>>
  ELSE <<[op |-> "WRITE_TENSOR", msg |-> m]>> \o RDMAWriteWithImm(m, b, idx)

\* What is posted for a message whose buffers are known.
WorkRequests(m, b, idx) ==
  IF ~IsValidPushpull(m) THEN RDMAWriteWithImm(m, b, idx)
  ELSE IF IsPush(m) THEN SendPushRequest(m, b, idx)
  ELSE IF IsPullResponse(m) THEN SendPullResponse(m, b, idx)
  ELSE RDMAWriteWithImm(m, b, idx)

\* Mutant: the copying thread is never told.
AsyncCopies_None(m, b, idx) == <<>>

AsyncCopies(m, b, idx) ==
  IF IsPullResponse(m) /\ IsLocal(m) THEN <<[msg |-> m, buf |-> b, idx |-> idx]>> ELSE <<>>

PrepareNewMsgBuf(p, m) == buf' = [buf EXCEPT ![p] = Append(@, m)]
StoreMsgBuf(p, m) ==
  msgbuf_cache' = [msgbuf_cache EXCEPT ![p] = @ \cup {<<Len(buf[p]) + 1, m>>}]

\* What a rendezvous asks for message m, which waits in buffer b.
RendezvousStart(m, b) == [buf |-> b, meta_len |-> GetPackMetaLen(m),
                          data_num |-> DataNum(m), data_len |-> DataLen(m)]

\* A rendezvous needs a free context, SendMsg waits for it; what it asks for is
\* in the context's buffer, from where the request is sent when it is executed.
SendRendezvousBegin(c, m) ==
  /\ free_start[c] # <<>>
  /\ free_start' = [free_start EXCEPT ![c] = Tail(@)]
  /\ start_ctx' = [start_ctx EXCEPT ![c] =
                     (Head(free_start[c]) :> RendezvousStart(m, Len(buf[c[1]]) + 1)) @@ @]
  /\ sq' = [sq EXCEPT ![c] = Append(@, [op |-> "START", ctx |-> Head(free_start[c])])]

\* PackWorkerTensorAddress fails for a worker that has not pushed.
PackWorkerTensorAddress(m) == IsPullResponse(m) => \E t \in tensor_info : t[1] = m.to

\* The buffer of a known address has room for this kind of message.
InlineLenMatches(p, m) ==
  GetPackMetaLen(buf[p][GetRemoteAndLocalInfo(p, m).buf]) = GetPackMetaLen(m)

SendMsg(p, m) ==
  LET c == <<p, m.to>>
      known == IsValidPushpull(m) /\ HasRemoteInfo(p, m)
      t == GetRemoteAndLocalInfo(p, m)
  IN \/ /\ PackWorkerTensorAddress(m) /\ ~known
        /\ PrepareNewMsgBuf(p, m)
        /\ StoreMsgBuf(p, m)
        /\ SendRendezvousBegin(c, m)
        /\ UNCHANGED <<copies, failed>>
     \/ /\ PackWorkerTensorAddress(m) /\ known /\ InlineLenMatches(p, m)
        /\ buf' = [buf EXCEPT ![p][t.buf] = m]
        /\ sq' = [sq EXCEPT ![c] = @ \o WorkRequests(m, t.buf, t.idx)]
        /\ copies' = copies \o AsyncCopies(m, t.buf, t.idx)
        /\ UNCHANGED <<free_start, start_ctx, msgbuf_cache, failed>>
     \/ /\ \/ ~PackWorkerTensorAddress(m) /\ Fail(p, "tensor")
           \/ PackWorkerTensorAddress(m) /\ known /\ ~InlineLenMatches(p, m) /\ Fail(p, "length")
        /\ UNCHANGED <<free_start, start_ctx, sq, buf, msgbuf_cache, copies>>
-----------------------------------------------------------------------------
\* How far a write reaches into the receive buffer: the values begin on a page
\* of their own.
WriteEnd(w) == CASE w.op = "IMM" -> GetPackMetaLen(w.msg)
                 [] w.op = "WRITE_POOL" -> align_ceil(GetPackMetaLen(w.msg), pagesize) + ValLen
                 [] OTHER -> 0

\* The memory region of a receive buffer, until the allocator is destroyed.
Addr2MR(q, idx) == {mr \in {pool[q][i] : i \in DOMAIN pool[q] \cap {idx}} : q \in context}

\* Why a work request fails, and with it a CHECK of PollCQ: the other side has
\* failed or has stopped, or the write goes past the memory region.
WriteErrors(q, w) ==
  IF ~Alive(q) THEN {"peer"}
  ELSE IF q \notin context THEN {"stopped"}
  ELSE IF w.op \in {"IMM", "WRITE_POOL"} /\ \A mr \in Addr2MR(q, w.idx) : WriteEnd(w) > mr.size
  THEN {"region"} ELSE {}

\* The receives that q has posted on c: a completion keeps one until PollCQ has
\* dealt with it.
PostRecv(q, c) == kRxDepth - Cardinality({i \in DOMAIN cq[q] :
                    cq[q][i].c = c /\ cq[q][i].op \in {"RECV_START", "RECV_REPLY", "RECV_IMM"}})

\* A start and a write with immediate data wait for a receive of the other side,
\* as a reply does (rnr_retry_count = 7: without end).
Announced(w) == w.op \in {"START", "IMM"}

\* The NIC of c's opening side executes a work request: memory is read now, and
\* a write with immediate data, or a start, is announced at the other side.
NicSend(c) ==
  LET p == c[1]  q == c[2]  w == Head(sq[c])
  IN /\ Alive(p) /\ sq[c] # <<>>
     /\ sq' = [sq EXCEPT ![c] = Tail(@)]
     /\ \/ \E why \in WriteErrors(q, w) : Fail(p, why) /\ UNCHANGED <<cq, pool, tensor>>
        \/ /\ WriteErrors(q, w) = {} /\ (Announced(w) => PostRecv(q, c) > 0)
           /\ cq' = CASE w.op = "START" ->
                           [cq EXCEPT ![q] = Append(@, [op |-> "RECV_START", c |-> c,
                                                        start |-> start_ctx[c][w.ctx]]),
                                      ![p] = Append(@, [op |-> "SEND_START", c |-> c, ctx |-> w.ctx])]
                      [] w.op = "IMM" ->
                           [cq EXCEPT ![q] = Append(@, [op |-> "RECV_IMM", c |-> c, idx |-> w.idx,
                                                        msg |-> w.msg])]
                      [] OTHER -> cq
           /\ pool' = CASE w.op = "IMM" -> [pool EXCEPT ![q][w.idx].meta = {buf[p][w.buf]}]
                        [] w.op = "WRITE_POOL" -> [pool EXCEPT ![q][w.idx].data = tensor[p]]
                        [] OTHER -> pool
           /\ tensor' = IF w.op = "WRITE_TENSOR" THEN [tensor EXCEPT ![q] = store[q]] ELSE tensor
           /\ UNCHANGED failed
     /\ UNCHANGED <<conn, app, free_start, free_reply, start_ctx, rq, buf, msgbuf_cache, addr,
                    recv_buffers, tensor_info, copies>>

\* The same for a rendezvous reply of the accepting side.
NicReply(c) ==
  LET p == c[1]  q == c[2]  w == Head(rq[c])
  IN /\ Alive(q) /\ rq[c] # <<>>
     /\ rq' = [rq EXCEPT ![c] = Tail(@)]
     /\ \/ \E why \in WriteErrors(p, w) : Fail(q, why) /\ UNCHANGED cq
        \/ /\ WriteErrors(p, w) = {} /\ PostRecv(p, c) > 0
           /\ cq' = [cq EXCEPT ![p] = Append(@, w), ![q] = Append(@, [op |-> "SEND_REPLY", c |-> c])]
           /\ UNCHANGED failed
     /\ UNCHANGED <<conn, app, free_start, start_ctx, sq, buf, msgbuf_cache, copies, free_reply,
                    addr, pool, recv_buffers, tensor_info, tensor>>

\* Mutant: the pool hands out its last index again.
StoreAddress_Again(p) == IF pool[p] = <<>> THEN 1 ELSE Len(pool[p])

\* AddressPool: indices are handed out in order, and never come back.
StoreAddress(p) == Len(pool[p]) + 1

\* The size of a receive buffer; a worker receives no values in it.
BufferSize(p, req) == Alloc(IF p = Server
                            THEN align_ceil(req.meta_len, pagesize) + req.data_len
                            ELSE req.meta_len)

\* A new receive buffer, and what is to be received in it.
BufferContext(p, req) == [meta |-> {}, data |-> 0, size |-> BufferSize(p, req),
                          data_num |-> req.data_num]

RendezvousReply(e, idx) == [op |-> "RECV_REPLY", c |-> e.c, buf |-> e.start.buf, idx |-> idx]

\* SendRendezvousReply allocates a buffer, takes a context (or waits, and with
\* it every completion) and an index (or fails).
SendRendezvousReply(p, e) ==
  LET idx == StoreAddress(p)
      new == BufferContext(p, e.start)
  IN /\ free_reply[e.c] > 0
     /\ IF idx > kMaxEntries
        THEN /\ Fail(p, "pool")
             /\ UNCHANGED <<pool, rq, free_reply>>
        ELSE /\ pool' = [pool EXCEPT ![p] = [i \in 1 .. idx |->
                           IF i = idx THEN new ELSE pool[p][i]]]
             /\ free_reply' = [free_reply EXCEPT ![e.c] = @ - 1]
             /\ rq' = [rq EXCEPT ![e.c] = Append(@, RendezvousReply(e, idx))]
             /\ UNCHANGED failed
     /\ UNCHANGED <<free_start, start_ctx, sq, buf, msgbuf_cache, addr, recv_buffers, copies>>

\* StoreRemoteAndLocalInfo.  The key of a simple message is not initialised: it
\* may be any key (none of ours, or ours, as a pull).
StoreRemoteAndLocalInfo(p, m, t) ==
  \/ addr' = [addr EXCEPT ![p] = (<<m.push, m.to>> :> t) @@ @]
  \/ ~IsValidPushpull(m) /\ UNCHANGED addr

\* The message that waits in buffer b; none if its reply has come before.
GetFirstMsg(p, b) == {x[2] : x \in {y \in msgbuf_cache[p] : y[1] = b}}
ReleaseFirstMsg(p, b) ==
  msgbuf_cache' = [msgbuf_cache EXCEPT ![p] = {x \in @ : x[1] # b}]

\* The reply arrives: remember the buffers, send the message that waited; a
\* second reply for the same buffer fails.
RendezvousDone(p, e) ==
  /\ \/ \E m \in GetFirstMsg(p, e.buf) :
          /\ StoreRemoteAndLocalInfo(p, m, [idx |-> e.idx, buf |-> e.buf])
          /\ sq' = [sq EXCEPT ![e.c] = @ \o WorkRequests(m, e.buf, e.idx)]
          /\ copies' = copies \o AsyncCopies(m, e.buf, e.idx)
          /\ ReleaseFirstMsg(p, e.buf)
          /\ UNCHANGED failed
     \/ /\ GetFirstMsg(p, e.buf) = {} /\ Fail(p, "cache")
        /\ UNCHANGED <<addr, sq, copies, msgbuf_cache>>
  /\ UNCHANGED <<free_start, start_ctx, free_reply, rq, buf, pool, recv_buffers>>

\* The context goes back to its queue.
ReleaseWorkRequestContext(e) ==
  /\ IF e.op = "SEND_START"
     THEN /\ free_start' = [free_start EXCEPT ![e.c] = Append(@, e.ctx)]
          /\ UNCHANGED free_reply
     ELSE /\ free_reply' = [free_reply EXCEPT ![e.c] = @ + 1]
          /\ UNCHANGED free_start
  /\ UNCHANGED <<start_ctx, sq, rq, buf, msgbuf_cache, addr, pool, recv_buffers, copies, failed>>

PollCQ(p) ==
  /\ Alive(p) /\ Polling(p) /\ cq[p] # <<>>
  /\ cq' = [cq EXCEPT ![p] = Tail(@)]
  /\ LET e == Head(cq[p])
     IN \/ e.op \in {"SEND_START", "SEND_REPLY"} /\ ReleaseWorkRequestContext(e)
        \/ e.op = "RECV_START" /\ SendRendezvousReply(p, e)
        \/ e.op = "RECV_REPLY" /\ RendezvousDone(p, e)
        \/ /\ e.op = "RECV_IMM"
           /\ recv_buffers' = [recv_buffers EXCEPT ![p] = Append(@, e)]
           /\ UNCHANGED <<sent, free_reply, rq, addr, pool>>
  /\ UNCHANGED <<conn, app, tensor_info, tensor>>

\* AsyncCopyThread: copy to shared memory, then announce.
AsyncCopyThread ==
  /\ Alive(Server) /\ copies # <<>>
  /\ LET x == Head(copies)
     IN /\ tensor' = [tensor EXCEPT ![x.msg.to] = store[x.msg.to]]
        /\ sq' = [sq EXCEPT ![<<Server, x.msg.to>>] =
                    @ \o RDMAWriteWithImm(x.msg, x.buf, x.idx)]
  /\ copies' = Tail(copies)
  /\ UNCHANGED <<conn, app, free_start, start_ctx, free_reply, rq, cq, buf, msgbuf_cache, addr,
                 pool, recv_buffers, tensor_info, failed>>
-----------------------------------------------------------------------------
\* The first push tells where the worker's tensor is, the following ones must
\* come from there: their values are written from the memory of the first.
StoreWorkerTensorAddress(m) ==
  IF IsPush(m) /\ \A t \in tensor_info : t[1] # m.from
  THEN tensor_info \cup {<<m.from, m.addr>>} ELSE tensor_info

SameTensor(m) == IsPush(m) => \A t \in tensor_info : t[1] = m.from => t[2] = m.addr

\* The user of a worker sees the answer it waits for.
Answered(w, m) == IF m.simple THEN user ELSE [user EXCEPT ![w].waits = @ \ {m.push}]

\* A simple request has been answered.
Counted(w, m) == IF m.simple THEN [simples EXCEPT ![w].answered = @ + 1] ELSE simples

\* The CHECKs of RecvPushRequest and RecvPushResponse on the buffer's parts.
PartsMatch(m, b) == /\ IsPush(m) /\ ~IsLocal(m) => b.data_num = 3
                    /\ IsValidPushpull(m) /\ m.push /\ ~m.request => b.data_num = 0

\* RecvMsg and what follows it in Van::Receiving: a request is handed to the
\* server's Customer, with the buffer its values are in; a response ends a request.
RecvMsg(p) ==
  /\ Alive(p) /\ recv_buffers[p] # <<>>
  /\ recv_buffers' = [recv_buffers EXCEPT ![p] = Tail(@)]
  /\ LET idx == Head(recv_buffers[p]).idx
         m == CHOOSE x \in pool[p][idx].meta : TRUE
     IN \/ /\ PartsMatch(m, pool[p][idx]) /\ SameTensor(m)
           /\ tensor_info' = StoreWorkerTensorAddress(m)
           /\ IF m.request THEN /\ todo' = Append(todo, [msg |-> m, idx |-> idx])
                                /\ UNCHANGED <<user, simples>>
                           ELSE /\ user' = Answered(p, m) /\ simples' = Counted(p, m)
                                /\ UNCHANGED todo
           /\ UNCHANGED failed
        \/ /\ \/ ~PartsMatch(m, pool[p][idx]) /\ Fail(p, "parts")
              \/ PartsMatch(m, pool[p][idx]) /\ ~SameTensor(m) /\ Fail(p, "moved")
           /\ UNCHANGED <<tensor_info, todo, user, simples>>
  /\ UNCHANGED <<conn, free_start, start_ctx, sq, buf, msgbuf_cache, copies, free_reply, rq, cq,
                 addr, pool, tensor, store>>

\* The memory that a local worker and the server share.
GetSharedMemory(w) == tensor[w]

\* The values of a push are not copied: RecvPushRequest of either transport gives
\* the memory they are in, shared memory or the receive buffer.
IpcRecvPushRequest(x) == GetSharedMemory(x.msg.from)
RecvPushRequest(x) == pool[Server][x.idx].data
Vals(x) == IF IsLocal(x.msg) THEN IpcRecvPushRequest(x) ELSE RecvPushRequest(x)

\* The values of a pull are where meta.addr says, in the worker's tensor.
RecvPullResponse(w) == tensor[w]

\* The server's handler answers; a push is stored.
Handle ==
  /\ Alive(Server) /\ todo # <<>>
  /\ LET x == Head(todo)  m == x.msg
     IN /\ store' = IF IsPush(m) THEN [store EXCEPT ![m.from] = Vals(x)] ELSE store
        /\ SendMsg(Server, Msg(Server, m.from, m.simple, m.push, FALSE, m.round, m.addr))
  /\ todo' = Tail(todo)
  /\ UNCHANGED <<conn, free_reply, rq, cq, addr, pool, recv_buffers, tensor_info, tensor,
                 user, simples>>

\* How many requests of w are under way.
UnderWay(w) == Cardinality(user[w].waits) + simples[w].sent - simples[w].answered

\* The user of w fills the tensor and pushes it; or it pushes other memory than
\* the first time.
Push(w) ==
  LET r == user[w].round + 1
  IN /\ AllReady /\ Alive(w) /\ user[w].phase = "idle" /\ user[w].waits = {}
     /\ r <= MaxRounds /\ UnderWay(w) < MaxUnderWay
     /\ \E at \in {"tensor", "other"} :
          /\ at = "other" => r > 1
          /\ user' = [user EXCEPT ![w] = [phase |-> "pushed", round |-> r, at |-> at,
                                         waits |-> {TRUE}]]
          /\ tensor' = IF at = "tensor" THEN [tensor EXCEPT ![w] = r] ELSE tensor
          /\ SendMsg(w, Msg(w, Server, FALSE, TRUE, TRUE, r, at))
     /\ UNCHANGED <<conn, free_reply, rq, cq, addr, pool, recv_buffers, tensor_info, todo,
                    store, simples>>

\* It pulls the value back at once, or waits for the push and uses the memory for
\* something else first.
Pull(w) ==
  /\ Alive(w) /\ user[w].phase = "pushed" /\ UnderWay(w) < MaxUnderWay
  /\ user' = [user EXCEPT ![w].phase = "idle", ![w].waits = @ \cup {FALSE}]
  /\ tensor' = IF user[w].waits = {} THEN [tensor EXCEPT ![w] = 0] ELSE tensor
  /\ SendMsg(w, Msg(w, Server, FALSE, FALSE, TRUE, user[w].round, user[w].at))
  /\ UNCHANGED <<conn, free_reply, rq, cq, addr, pool, recv_buffers, tensor_info, todo,
                 store, simples>>

\* A simple request.
Simple(w) ==
  /\ AllReady /\ Alive(w) /\ user[w].phase # "leaving"
  /\ simples[w].sent < MaxSimple /\ UnderWay(w) < MaxUnderWay
  /\ simples' = [simples EXCEPT ![w].sent = @ + 1]
  /\ SendMsg(w, Msg(w, Server, TRUE, FALSE, TRUE, 0, "tensor"))
  /\ UNCHANGED <<conn, free_reply, rq, cq, addr, pool, recv_buffers, tensor_info, todo,
                 tensor, store, user>>

\* The user of w has waited for its requests, and calls Finalize.
Finalize(w) ==
  /\ AllReady /\ Alive(w) /\ user[w].phase = "idle" /\ user[w].waits = {}
  /\ simples[w].sent = simples[w].answered
  /\ user' = [user EXCEPT ![w].phase = "leaving"]
  /\ UNCHANGED <<conn, sent, free_reply, rq, cq, addr, pool, recv_buffers, tensor_info, todo,
                 tensor, store, simples>>

\* Mutant: a process does not wait for the others in Finalize.
BarrierPassed_Alone(p) == p \in Workers => user[p].phase = "leaving"

\* The barrier in Finalize: nobody stops before everybody is there.
BarrierPassed(p) == \A w \in Workers : user[w].phase = "leaving"

\* What ~Endpoint leaves of the contexts, and of the work requests, of p's endpoints.
Destroyed(f, p, side, none) == [c \in Links |-> IF c[side] = p THEN none ELSE f[c]]

\* ~IPCTransport waits for its copying threads, which need the allocator.
CopiesEnd(p) == IF p = Server /\ copies # <<>> THEN Fail(p, "copies") ELSE UNCHANGED failed

\* Van::Stop ends the receiving thread behind what has arrived; then the threads
\* of PollCQ and PollEvents end, and the allocator, the endpoints and the queue go.
Stop(p) ==
  /\ Alive(p) /\ van[p] = "listening" /\ BarrierPassed(p) /\ recv_buffers[p] = <<>>
  /\ van' = [van EXCEPT ![p] = "stopped"]
  /\ context' = context \ {p}
  /\ pool' = [pool EXCEPT ![p] = <<>>]
  /\ cq' = [cq EXCEPT ![p] = <<>>]
  /\ CopiesEnd(p)
  /\ free_start' = Destroyed(free_start, p, 1, <<>>) /\ sq' = Destroyed(sq, p, 1, <<>>)
  /\ free_reply' = Destroyed(free_reply, p, 2, 0) /\ rq' = Destroyed(rq, p, 2, <<>>)
  /\ start_ctx' = Destroyed(start_ctx, p, 1, <<>>)
  /\ UNCHANGED <<local, stage, accepted, transport, rejects, app, buf, msgbuf_cache, addr,
                 recv_buffers, tensor_info, copies, tensor>>

Others == UNCHANGED <<local, app, start_ctx, sq, rq, cq, buf, msgbuf_cache, addr, pool, recv_buffers,
                      tensor_info, copies, tensor>>

CmEvent(c) == /\ \/ Connect(c) \/ SetTransport(c)
                 \/ OnAddrResolved(c) \/ OnRouteResolved(c) \/ OnConnectRequest(c)
                 \/ OnRejected(c) \/ OnConnected(c) \/ OnDisconnected(c) \/ OnOtherEvent(c)
              /\ Others

Next == \/ \E c \in Links : CmEvent(c) \/ NicSend(c) \/ NicReply(c)
        \/ \E p \in Nodes : PollCQ(p) \/ RecvMsg(p) \/ Stop(p) \/ ((Start(p) \/ Bind(p)) /\ Others)
        \/ AsyncCopyThread \/ Handle
        \/ \E w \in Workers : Push(w) \/ Pull(w) \/ Simple(w) \/ Finalize(w)

\* The connection manager, the NICs and the threads of the vans run on; the
\* user need not push or pull.
Fairness == /\ \A c \in Links : WF_vars(NicSend(c)) /\ WF_vars(NicReply(c)) /\ WF_vars(CmEvent(c))
            /\ \A p \in Nodes : WF_vars(PollCQ(p)) /\ WF_vars(RecvMsg(p))
            /\ WF_vars(AsyncCopyThread) /\ WF_vars(Handle)

Spec == Init /\ [][Next]_vars /\ Fairness
-----------------------------------------------------------------------------
\* A message that has been announced is in its receive buffer unharmed until it
\* is taken, and so are the values of a push until it is handled, although the
\* buffers of either side are used again and nothing is acknowledged.
DeliveredIntact ==
  /\ \A p \in Nodes : \A i \in DOMAIN recv_buffers[p] :
       LET e == recv_buffers[p][i] IN pool[p][e.idx].meta = {e.msg}
  /\ \A i \in DOMAIN todo : IsPush(todo[i].msg) => Vals(todo[i]) = todo[i].msg.round

\* What is pulled is what was pushed, for both transports, and whether or not the
\* push was still under way when the pull was sent: the values are in the tensor
\* before the response is seen.
PulledIsPushed == \A w \in Workers :
  user[w].phase = "idle" /\ user[w].round > 0 /\ FALSE \notin user[w].waits =>
    RecvPullResponse(w) = user[w].round

\* A simple message took a key that is in use.
KeyTaken == \E p \in Nodes : \E k \in DOMAIN addr[p] : buf[p][addr[p][k].buf].simple

\* A CHECK ends a process for these reasons and no others: the connection manager
\* reports an error; all indices of addr_pool_ are handed out; the uninitialised
\* key of a simple message happened to be one that is in use; a worker pushes
\* from other memory than before; a rejection put every START context into the
\* queue twice, one START overwrote another, and so one rendezvous is answered
\* twice and the other message, perhaps a push before its pull, never sent; or
\* the other side has failed.  No write goes past its memory region or to a
\* process that has stopped.
OnlyTheseChecksFail == \A f \in failed :
  \/ f[2] = "event"
  \/ f[2] = "pool" /\ Len(pool[f[1]]) = kMaxEntries
  \/ f[2] = "length" /\ KeyTaken
  \/ f[2] = "moved" /\ \E w \in Workers : user[w].at # "tensor"
  \/ f[2] \in {"cache", "tensor"} /\ rejects > 0
  \/ f[2] = "peer" /\ \E g \in failed : g[1] # f[1]

\* PollCQ has to answer a rendezvous and waits for a context of REPLY, which only
\* PollCQ would give back: it waits for ever.
WaitsForItself(p) == /\ cq[p] # <<>> /\ Head(cq[p]).op = "RECV_START"
                     /\ free_reply[Head(cq[p]).c] = 0

\* Every request is answered in the end, unless a CHECK has ended a process or a
\* process had more rendezvous to answer at a time than it has contexts of REPLY.
EveryRequestAnswered == \A w \in Workers :
  user[w].waits # {} ~>
    (user[w].waits = {} \/ failed # {} \/ \E p \in Nodes : WaitsForItself(p))
=============================================================================

------------------------------- MODULE KvApp -------------------------------
(***************************************************************************)
(* Customer, KVWorker, KVServer (with KVServerDefaultHandle) and SimpleApp *)
(* over the transport of Delivery.  The user thread of a worker pushes,    *)
(* pulls and sends simple requests, and waits for them in any order; every *)
(* push adds 1 to each of its keys, so that a stored value counts the      *)
(* pushes that reached it.                                                 *)
(***************************************************************************)
EXTENDS Delivery, KvSlicing, FiniteSets, FiniteSetsExt, Folds, TLC

CONSTANTS Workers, ServerIds,  \* ServerIds[i]: the id of the server of rank i-1
          KvAppId, SimpleAppId,   \* the two applications
          None,                \* no timestamp
          Late,                \* <<s, a>>: server s makes application a after the start
          KeyLists,            \* sorted key lists a request may name
          MaxRequests          \* bound: requests of a worker

Servers == Range(ServerIds)
NumServers == Len(ServerIds)
Keys == UNION {Range(ks) : ks \in KeyLists}

ASSUME KvAppAssumption == /\ ServerIds \in Seq(Nodes) /\ IsInjective(ServerIds)
                          /\ Nodes = Workers \cup Servers /\ Workers \cap Servers = {}
                          /\ Apps = {KvAppId, SimpleAppId} /\ KvAppId # SimpleAppId
                          /\ None \notin Nat /\ Late \subseteq Servers \X Apps

VARIABLES tracker,   \* tracker[w][a]: the pairs of Customer::tracker_, by timestamp
          request,   \* request[w]: what the user asked of the KVWorker, by timestamp
          recv_kvs,  \* recv_kvs[w]: pairs pulled so far, by timestamp
          outbox,    \* outbox[w]: messages the user has still to send, by server
          handled,   \* handled[w][a]: timestamp handled and not yet counted
          store,     \* store[s]: the store of KVServerDefaultHandle
          app        \* app[n][a]: how far node n has got with application a

vars == <<transit, recv_queue, tracker, request, recv_kvs, outbox, handled, store, app>>

Init == /\ DeliveryInit
        /\ tracker = [w \in Workers |-> [a \in Apps |-> <<>>]]
        /\ request = [w \in Workers |-> <<>>]
        /\ recv_kvs = [w \in Workers |-> <<>>]
        /\ outbox = [w \in Workers |-> <<>>]
        /\ handled = [w \in Workers |-> [a \in Apps |-> None]]
        /\ store = [s \in Servers |-> [k \in Keys |-> 0]]
        /\ app = [n \in Nodes |->
             [a \in Apps |-> IF <<n, a>> \in Late THEN "none" ELSE "ready"]]

Data(a, ts, from, to, req, push, pairs) ==
  [cmd |-> "DATA", app_id |-> a, timestamp |-> ts, sender |-> from, recver |-> to,
   request |-> req, push |-> push, pairs |-> pairs]

NoPairs == [keys |-> <<>>, vals |-> <<>>]

Idle(w) == outbox[w] = <<>> /\ \A a \in Apps : app[w][a] = "ready"
Requests(w) == Len(tracker[w][KvAppId]) + Len(tracker[w][SimpleAppId])

\* The user knows a push to be finished: Wait(ts) has returned.
Finished(w, k) == Cardinality({i \in DOMAIN request[w] :
                    /\ request[w][i].push /\ request[w][i].waited
                    /\ k \in Range(request[w][i].keys)})

NumResponse(t) == t.count
AddResponse(t, num) == [t EXCEPT !.count = @ + num]

\* Customer::NewRequest to kServerGroup, then AddResponse(ts, skipped).
NewRequest(w, a, skipped) ==
  [tracker EXCEPT ![w][a] = Append(@, AddResponse([total |-> NumServers, count |-> 0], skipped))]

\* AddCallback: the request is remembered, with what the user knows of the keys.
AddCallback(w, push, keys) ==
  [push |-> push, keys |-> keys, calls |-> 0, vals |-> <<>>, checked |-> TRUE,
   waited |-> FALSE, before |-> [k \in Keys |-> Finished(w, k)]]

\* The values of the slices, copied one after the other.
Values(kvs) == MapThenFoldSet(\o, <<>>, LAMBDA j : kvs[j].vals, Min, DOMAIN kvs)

\* Mutant: the slices are copied in the order in which they arrived.
PullCallback_Unsorted(r, kvs) ==
  [r EXCEPT !.calls = @ + 1,
            !.checked = SumFunction([j \in DOMAIN kvs |-> Len(kvs[j].keys)]) = Len(r.keys),
            !.vals = Values(kvs)]

\* The callback of Pull_: it checks the slices, one per server, against the
\* keys, sorts them by their first key and copies their values.
PullCallback(r, kvs) ==
  LET Found(s) == FindRange(r.keys, Head(s.keys), s.keys[Len(s.keys)] + 1)
      sorted == SortSeq(kvs, LAMBDA x, y : Head(x.keys) < Head(y.keys))
  IN [r EXCEPT
        !.calls = @ + 1,
        !.checked = /\ \A j \in DOMAIN kvs :
                         Found(kvs[j]).end - Found(kvs[j]).begin = Len(kvs[j].keys)
                    /\ SumFunction([j \in DOMAIN kvs |-> Len(kvs[j].keys)]) = Len(r.keys),
        !.vals = Values(sorted)]

\* RunCallback; the callback of a push is the user's.
RunCallback(r, kvs) == IF r.push THEN [r EXCEPT !.calls = @ + 1] ELSE PullCallback(r, kvs)

\* Mutant: a server that gets no slice is expected to answer.
Skipped_None(chosen) == 0

\* The servers that get no slice: nobody will send their responses.
Skipped(chosen) == NumServers - Cardinality(chosen)

(***************************************************************************)
(* KVWorker::Send up to the first message.  The servers that get no slice  *)
(* count as responses before anything is sent; when there is no slice at   *)
(* all the callback runs here.                                             *)
(***************************************************************************)
SendKv(w, push, keys, vals) ==
  LET ts == Len(tracker[w][KvAppId])
      sliced == DefaultSlicer([keys |-> keys, vals |-> vals, lens |-> <<>>],
                              GetServerKeyRanges(NumServers))
      chosen == {i \in 1 .. NumServers : sliced[i].first}
      r == AddCallback(w, push, keys)
  IN /\ Idle(w) /\ Requests(w) < MaxRequests
     /\ tracker' = NewRequest(w, KvAppId, Skipped(chosen))
     /\ request' = [request EXCEPT ![w] =
                      Append(@, IF chosen = {} THEN RunCallback(r, <<>>) ELSE r)]
     /\ recv_kvs' = [recv_kvs EXCEPT ![w] = Append(@, <<>>)]
     /\ outbox' = [outbox EXCEPT ![w] =
          [i \in chosen |-> Data(KvAppId, ts, w, ServerIds[i], TRUE, push,
                                [keys |-> sliced[i].keys, vals |-> sliced[i].vals])]]
     /\ UNCHANGED <<handled, store, app, transit, recv_queue>>

ZPush(w, keys) == SendKv(w, TRUE, keys, [i \in DOMAIN keys |-> 1])
Pull_(w, keys) == SendKv(w, FALSE, keys, <<>>)

\* Push copies keys and values, which the user may change at once; both return
\* before anything is sent.
Push(w, keys) == ZPush(w, keys)
Pull(w, keys) == Pull_(w, keys)

\* SimpleApp::Request to kServerGroup.
SimpleRequest(w) ==
  /\ Idle(w) /\ Requests(w) < MaxRequests
  /\ tracker' = NewRequest(w, SimpleAppId, 0)
  /\ outbox' = [outbox EXCEPT ![w] =
       [i \in 1 .. NumServers |-> Data(SimpleAppId, Len(tracker[w][SimpleAppId]), w,
                                       ServerIds[i], TRUE, FALSE, NoPairs)]]
  /\ UNCHANGED <<request, recv_kvs, handled, store, app, transit, recv_queue>>

\* The loops over the servers: the next message goes to the Van.
SendNext(w) ==
  LET i == Min(DOMAIN outbox[w])
  IN /\ DOMAIN outbox[w] # {}
     /\ Send(outbox[w][i])
     /\ outbox' = [outbox EXCEPT ![w] = Restrict(@, DOMAIN @ \ {i})]
     /\ UNCHANGED <<tracker, request, recv_kvs, handled, store, app, recv_queue>>

\* Customer::WaitRequest returns.
WaitRequest(w, i) ==
  /\ Idle(w)
  /\ ~request[w][i].waited
  /\ tracker[w][KvAppId][i].total = tracker[w][KvAppId][i].count
  /\ request' = [request EXCEPT ![w][i].waited = TRUE]
  /\ UNCHANGED <<tracker, recv_kvs, outbox, handled, store, app, transit, recv_queue>>

\* The Customer's thread runs: there is a handle, or it finishes its queue.
Serving(n, a) == app[n][a] \in {"ready", "closing"}

\* KVServer::Response.
Response(m, res) == Data(m.app_id, m.timestamp, m.recver, m.sender, FALSE, m.push, res)

\* KVServerDefaultHandle: pushed values are added, pulled ones looked up.
KVServerDefaultHandle(st, m) ==
  LET n == DOMAIN m.pairs.keys
      pushed(k) == SumFunction([i \in n |-> IF m.pairs.keys[i] = k THEN m.pairs.vals[i] ELSE 0])
  IN IF m.push THEN [store |-> [k \in Keys |-> st[k] + pushed(k)], res |-> NoPairs]
     ELSE [store |-> st,
           res |-> [keys |-> m.pairs.keys, vals |-> [i \in n |-> st[m.pairs.keys[i]]]]]

\* KVServer::Process in the Customer's thread.
KVServerProcess(s) ==
  /\ Serving(s, KvAppId)
  /\ Pop(s, KvAppId)
  /\ LET m == Head(recv_queue[s][KvAppId])
         h == KVServerDefaultHandle(store[s], m)
     IN /\ store' = [store EXCEPT ![s] = h.store]
        /\ Send(Response(m, h.res))
  /\ UNCHANGED <<tracker, request, recv_kvs, outbox, handled, app>>

SimpleResponse(m) == Response(m, NoPairs)

\* SimpleApp::Process with the default handles: a request is answered.
SimpleProcess(n) ==
  /\ Serving(n, SimpleAppId)
  /\ n \in Workers => handled[n][SimpleAppId] = None
  /\ Pop(n, SimpleAppId)
  /\ LET m == Head(recv_queue[n][SimpleAppId])
     IN \/ /\ m.request
           /\ Send(SimpleResponse(m))
           /\ UNCHANGED handled
        \/ /\ ~m.request
           /\ handled' = [handled EXCEPT ![n][SimpleAppId] = m.timestamp + 1]
           /\ UNCHANGED transit
  /\ UNCHANGED <<tracker, request, recv_kvs, outbox, store, app>>

\* Mutant: the callback waits for the response after the last one.
IsLastResponse_Late(t) == t.count = t.total

\* Mutant: the callback runs at the first response.
IsLastResponse_First(t) == t.count = 0

\* NumResponse(ts) == num_servers - 1, before this response is counted.
IsLastResponse(t) == NumResponse(t) = NumServers - 1

(***************************************************************************)
(* KVWorker::Process: store the pulled pairs, and run the callback at the  *)
(* last response, whose count is added after the handle returns.           *)
(***************************************************************************)
KVWorkerProcess(w) ==
  /\ Serving(w, KvAppId) /\ handled[w][KvAppId] = None
  /\ Pop(w, KvAppId)
  /\ LET m == Head(recv_queue[w][KvAppId])
         i == m.timestamp + 1
         pulled == IF m.push THEN recv_kvs[w][i] ELSE Append(recv_kvs[w][i], m.pairs)
         last == IsLastResponse(tracker[w][KvAppId][i])
     IN /\ handled' = [handled EXCEPT ![w][KvAppId] = i]
        /\ request' = IF last THEN [request EXCEPT ![w][i] = RunCallback(@, pulled)]
                      ELSE request
        /\ recv_kvs' = [recv_kvs EXCEPT ![w][i] = IF last THEN <<>> ELSE pulled]
  /\ UNCHANGED <<tracker, outbox, store, app, transit>>

\* Customer::Receiving after recv_handle_: the response is counted.
CountResponse(w, a) ==
  /\ handled[w][a] # None
  /\ tracker' = [tracker EXCEPT ![w][a][handled[w][a]].count = @ + 1]
  /\ handled' = [handled EXCEPT ![w][a] = None]
  /\ UNCHANGED <<request, recv_kvs, outbox, store, app, transit, recv_queue>>

UserNext == \E w \in Workers :
  \/ \E keys \in KeyLists : Push(w, keys) \/ Pull(w, keys)
  \/ SimpleRequest(w)
  \/ SendNext(w)
  \/ \E i \in DOMAIN request[w] : WaitRequest(w, i)

CustomerNext == \/ \E s \in Servers : KVServerProcess(s)
                \/ \E n \in Nodes : SimpleProcess(n)
                \/ \E w \in Workers : KVWorkerProcess(w)
                \/ \E w \in Workers, a \in Apps : CountResponse(w, a)

AppOnly(n, st) == /\ app' = [app EXCEPT ![n] = st]
                  /\ UNCHANGED <<tracker, request, recv_kvs, outbox, handled, store>>

\* Postoffice::AddCustomer: ProcessDataMsg finds the Customer from now on.
AddCustomer(s, a) == AppOnly(s, [app[s] EXCEPT ![a] = "registered"])

\* The constructor: the Customer is registered and its thread runs, before
\* anybody has the pointer to it.
Customer(s, a) == /\ app[s][a] = "none"
                  /\ AddCustomer(s, a)
                  /\ UNCHANGED <<transit, recv_queue>>

KVServer(s) == Customer(s, KvAppId)
SimpleApp(s) == Customer(s, SimpleAppId)

\* obj_ is assigned, and the user sets the handle of a KVServer.
set_request_handle(s, a) == /\ app[s][a] = "registered"
                            /\ AppOnly(s, [app[s] EXCEPT ![a] = "ready"])
                            /\ UNCHANGED <<transit, recv_queue>>

Abort(s) == AppOnly(s, [a \in Apps |-> "aborted"])

\* CHECK(request_handle_): the Customer's thread was faster than the user's.
ProcessUnready(s, a) == /\ app[s][a] = "registered"
                        /\ Pop(s, a)
                        /\ Abort(s)
                        /\ UNCHANGED transit

\* When the user deletes its applications: a worker when it has waited for all
\* its requests, a server in the exit callback, after the barrier of Finalize.
Leaves(n) ==
  IF n \in Workers
  THEN /\ outbox[n] = <<>>
       /\ \A i \in DOMAIN request[n] : request[n][i].waited
       /\ \A t \in Range(tracker[n][SimpleAppId]) : t.total = t.count
  ELSE \A w \in Workers, a \in Apps : app[w][a] = "deleted"

\* ~Customer, first step; the applications go one after the other.
RemoveCustomer(n, a) ==
  /\ app[n][a] = "ready" /\ Leaves(n)
  /\ a = SimpleAppId => app[n][KvAppId] = "deleted"
  /\ AppOnly(n, [app[n] EXCEPT ![a] = "closing"])
  /\ UNCHANGED <<transit, recv_queue>>

\* ~Customer: its thread comes to the TERMINATE that is last in its queue.
JoinCustomer(n, a) ==
  /\ app[n][a] = "closing" /\ recv_queue[n][a] = <<>>
  /\ n \in Workers => handled[n][a] = None
  /\ AppOnly(n, [app[n] EXCEPT ![a] = "deleted"])
  /\ UNCHANGED <<transit, recv_queue>>

GetCustomer(m) == app[m.recver][m.app_id] \in {"registered", "ready"}

\* ProcessDataMsg waits for the application; the Van takes its time.
Arrive(m) == /\ GetCustomer(m)
             /\ Deliver(m)
             /\ UNCHANGED <<tracker, request, recv_kvs, outbox, handled, store, app>>

\* CHECK(obj): the application was not there in 5 seconds.
GetCustomerTimeout(m) == /\ app[m.recver][m.app_id] \in {"none", "closing", "deleted"}
                         /\ Abort(m.recver)
                         /\ UNCHANGED <<transit, recv_queue>>

AppNext == \E n \in Nodes :
  \/ KVServer(n) \/ SimpleApp(n)
  \/ \E a \in Apps : \/ set_request_handle(n, a) \/ ProcessUnready(n, a)
                      \/ RemoveCustomer(n, a) \/ JoinCustomer(n, a)

Next == \/ UserNext \/ CustomerNext \/ AppNext
        \/ \E m \in transit : Arrive(m) \/ GetCustomerTimeout(m)

\* Every thread runs on and every message arrives (Resender); the user need
\* not ask for anything.
Fairness ==
  /\ \A w \in Workers : /\ WF_vars(SendNext(w))
                        /\ WF_vars(KVWorkerProcess(w))
                        /\ \A a \in Apps : WF_vars(CountResponse(w, a))
  /\ \A s \in Servers : /\ WF_vars(KVServerProcess(s))
                        /\ \A a \in Apps : WF_vars(Customer(s, a) \/ set_request_handle(s, a))
  /\ \A n \in Nodes : WF_vars(SimpleProcess(n))
  /\ WF_vars(\E m \in transit : Arrive(m))

Spec == Init /\ [][Next]_vars /\ Fairness
-----------------------------------------------------------------------------
Pushes(w, k) == {i \in DOMAIN request[w] :
                   request[w][i].push /\ k \in Range(request[w][i].keys)}
Stored(k) == MapThenSumSet(LAMBDA s : store[s][k], Servers)

\* Every push is applied to each of its keys exactly once, at one server, in
\* whatever order messages arrive: a stored value is at most the number of
\* pushes of the key, and at least the number of those for which Wait may return.
PushedExactlyOnce == \A k \in Keys :
  /\ Stored(k) <= MapThenSumSet(LAMBDA w : Cardinality(Pushes(w, k)), Workers)
  /\ Stored(k) >= MapThenSumSet(LAMBDA w : Cardinality(
                    {i \in Pushes(w, k) : tracker[w][KvAppId][i].count = NumServers}), Workers)

\* The callback of a request runs at most once, and it has run when Wait can
\* return (RunCallback precedes the count of the last response).  No response
\* is left then: a worker that has waited for its requests may delete its
\* applications, and ProcessDataMsg will not miss them.
CallbackBeforeWait == \A w \in Workers :
  /\ \A i \in DOMAIN request[w] :
       /\ request[w][i].calls <= 1
       /\ tracker[w][KvAppId][i].count = NumServers => request[w][i].calls = 1
  /\ \A a \in Apps : app[w][a] # "aborted"

\* The CHECKs of Pull_'s callback ("lost some servers?") hold when it runs.  The
\* user gets one value per key, in the order of the keys though the slices came
\* in any order, and it reflects every push the worker had waited for before.
PullComplete == \A w \in Workers : \A i \in DOMAIN request[w] :
  LET r == request[w][i]
  IN ~r.push /\ r.calls > 0 =>
       /\ r.checked /\ Len(r.vals) = Len(r.keys)
       /\ \A j \in DOMAIN r.keys : r.vals[j] >= r.before[r.keys[j]]

Completed(w, a, i) == /\ i \in DOMAIN tracker[w][a]
                      /\ tracker[w][a][i].count = tracker[w][a][i].total

SomeAbort == \E n \in Nodes, a \in Apps : app[n][a] = "aborted"

\* Every request is answered by all its servers in the end, and the others are
\* counted when it is sent: Wait never blocks for ever, also when requests come
\* before the server has made its application, unless a server failed a CHECK.
EveryRequestCompletes == \A w \in Workers, a \in Apps : \A i \in 1 .. MaxRequests :
  i \in DOMAIN tracker[w][a] ~> Completed(w, a, i) \/ SomeAbort
=============================================================================

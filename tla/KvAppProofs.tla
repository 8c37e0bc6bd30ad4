---------------------------- MODULE KvAppProofs -----------------------------
(***************************************************************************)
(* The callbacks of a KVWorker, proved for any workers, servers, key lists *)
(* and numbers of requests, in whatever order messages arrive: a callback  *)
(* runs once, before Wait returns, and no response finds its worker gone.  *)
(*                                                                         *)
(* The invariant follows the exchange of a request with one server, which  *)
(* is in one place at a time: still to be sent, on the way, or in a queue, *)
(* as a request and then as its response.  What Customer has counted, what *)
(* it has handled and the exchanges that are open never exceed the servers.*)
(***************************************************************************)
EXTENDS KvApp, TLAPS

\* The exchange a message belongs to: application, timestamp, worker, server.
Exchange(m) == IF m.request THEN <<m.app_id, m.timestamp, m.sender, m.recver>>
                            ELSE <<m.app_id, m.timestamp, m.recver, m.sender>>

\* A queue of messages, of whatever the messages carry.
IsQueue(q) == \E S : q \in Seq(S)

InQueue(q, x) == \E k \in 1 .. Len(q) : Exchange(q[k]) = x
Once(q) == \A j, k \in 1 .. Len(q) : Exchange(q[j]) = Exchange(q[k]) => j = k

\* The places an exchange may be in.
Unsent(x) == \E w \in Workers : \E i \in DOMAIN outbox[w] : Exchange(outbox[w][i]) = x
Moving(x) == \E m \in transit : Exchange(m) = x
Queued(n, a, x) == InQueue(recv_queue[n][a], x)
Open(x) == Unsent(x) \/ Moving(x) \/ \E n \in Nodes, a \in Apps : Queued(n, a, x)

AppStates == {"none", "registered", "ready", "closing", "deleted", "aborted"}
ReqFields == {"push", "keys", "calls", "vals", "checked", "waited", "before"}

QueueTypes ==
  /\ DOMAIN recv_queue = Nodes
  /\ \A n \in Nodes : DOMAIN recv_queue[n] = Apps /\ \A a \in Apps : IsQueue(recv_queue[n][a])

Types ==
  /\ tracker \in [Workers -> [Apps -> Seq([total : Nat, count : Nat])]]
  /\ handled \in [Workers -> [Apps -> Nat \cup {None}]]
  /\ app \in [Nodes -> [Apps -> AppStates]]
  /\ DOMAIN outbox = Workers
  /\ QueueTypes
  /\ DOMAIN request = Workers
  /\ \A w \in Workers : IsQueue(request[w]) /\ Len(request[w]) = Len(tracker[w][KvAppId])

\* A message goes from a worker to a server or back, for a request that was made.
Fit(m, made) ==
  /\ m.app_id \in Apps /\ m.timestamp \in Nat /\ m.request \in BOOLEAN
  /\ m.request => /\ m.sender \in Workers /\ m.recver \in Servers
                  /\ m.timestamp < Len(made[m.sender][m.app_id])
  /\ ~m.request => /\ m.sender \in Servers /\ m.recver \in Workers
                   /\ m.timestamp < Len(made[m.recver][m.app_id])

\* A message in the outbox of w for the server of index i; one in a queue.
ForServer(m, w, i) == /\ i \in 1 .. NumServers
                      /\ m.request /\ m.sender = w /\ m.recver = ServerIds[i]
ForCustomer(m, n, a) == m.recver = n /\ m.app_id = a

\* What is in each place belongs there.
Mail ==
  /\ \A w \in Workers : \A i \in DOMAIN outbox[w] :
       Fit(outbox[w][i], tracker) /\ ForServer(outbox[w][i], w, i)
  /\ \A m \in transit : Fit(m, tracker)
  /\ \A n \in Nodes, a \in Apps : \A k \in 1 .. Len(recv_queue[n][a]) :
       Fit(recv_queue[n][a][k], tracker) /\ ForCustomer(recv_queue[n][a][k], n, a)

\* An exchange is in one place.
OnePlace ==
  /\ \A m1, m2 \in transit : Exchange(m1) = Exchange(m2) => m1 = m2
  /\ \A n \in Nodes, a \in Apps : Once(recv_queue[n][a])
  /\ \A x : /\ ~(Unsent(x) /\ Moving(x))
            /\ \A n \in Nodes, a \in Apps :
                 Queued(n, a, x) => /\ ~Unsent(x) /\ ~Moving(x)
                                    /\ \A n2 \in Nodes, a2 \in Apps :
                                         Queued(n2, a2, x) => n2 = n /\ a2 = a

\* The servers whose response to request i of w has not been handled.
Awaited(w, a, i) == {s \in Servers : Open(<<a, i - 1, w, s>>)}

HandledNow(w, a, i) == IF handled[w][a] = i THEN 1 ELSE 0

\* What has been counted, handled and not yet answered are different servers.
Counted ==
  \A w \in Workers, a \in Apps :
    /\ handled[w][a] # None => handled[w][a] \in 1 .. Len(tracker[w][a])
    /\ \A i \in 1 .. Len(tracker[w][a]) :
         /\ tracker[w][a][i].total = NumServers
         /\ tracker[w][a][i].count + HandledNow(w, a, i) + Cardinality(Awaited(w, a, i))
              <= NumServers

\* The callback runs when the last response is handled; a request that was
\* waited for has all its responses counted.
Called ==
  \A w \in Workers : \A i \in 1 .. Len(request[w]) :
    LET r == request[w][i]  t == tracker[w][KvAppId][i]
    IN /\ DOMAIN r = ReqFields /\ r.calls \in Nat
       /\ r.calls = IF t.count + HandledNow(w, KvAppId, i) = NumServers THEN 1 ELSE 0
       /\ r.waited => t.count = NumServers

\* A worker that deletes an application has nothing left to be answered.
Left ==
  \A w \in Workers, a \in Apps :
    /\ app[w][a] \in {"ready", "closing", "deleted"}
    /\ app[w][a] # "ready" => \A b \in Apps : \A i \in 1 .. Len(tracker[w][b]) :
                                tracker[w][b][i].count = NumServers

IInv == Types /\ Mail /\ OnePlace /\ Counted /\ Called /\ Left

\* What the proofs use of sets of servers and of numbers; it is proved at the end.
SetFacts ==
  /\ \A T \in SUBSET Nat : T # {} => \E x \in T : \A y \in T : x <= y
  /\ \A S \in SUBSET Servers :
       /\ Cardinality(S) \in Nat
       /\ Cardinality(S) = 0 <=> S = {}
       /\ \A R \in SUBSET S : Cardinality(R) <= Cardinality(S)
       /\ \A s \in S : Cardinality(S \ {s}) = Cardinality(S) - 1
  /\ \A C \in SUBSET (1 .. NumServers) :
       /\ Cardinality(C) \in 0 .. NumServers
       /\ Cardinality({ServerIds[i] : i \in C}) <= Cardinality(C)
       /\ Cardinality(C) = 0 <=> C = {}
  /\ Cardinality(1 .. NumServers) = NumServers

-----------------------------------------------------------------------------
(***************************************************************************)
(* Constants, messages and queues.                                         *)
(***************************************************************************)
\* The nodes are workers and servers, and an index of ServerIds is one server.
LEMMA Constants ==
  /\ NumServers \in Nat
  /\ \A i \in 1 .. NumServers : ServerIds[i] \in Servers
  /\ \A i, j \in 1 .. NumServers : ServerIds[i] = ServerIds[j] => i = j
  /\ \A w \in Workers : w \in Nodes /\ w \notin Servers
  /\ \A s \in Servers : s \in Nodes /\ s \notin Workers
  /\ \A n \in Nodes : n \in Workers \/ n \in Servers
  /\ KvAppId \in Apps /\ SimpleAppId \in Apps /\ KvAppId # SimpleAppId
  /\ \A a \in Apps : a = KvAppId \/ a = SimpleAppId
  /\ \A i \in Nat : i # None
  /\ \A w \in Workers, a \in Apps : <<w, a>> \notin Late
<1>1. NumServers \in Nat /\ DOMAIN ServerIds = 1 .. NumServers
  BY KvAppAssumption DEF NumServers
<1>2. \A i \in 1 .. NumServers : ServerIds[i] \in Servers
  BY <1>1, Zenon DEF Servers, Range
<1>3. \A i, j \in 1 .. NumServers : ServerIds[i] = ServerIds[j] => i = j
  BY <1>1, KvAppAssumption, Zenon DEF IsInjective
<1> QED BY <1>1, <1>2, <1>3, KvAppAssumption, Zenon

\* An exchange names its application, its timestamp, its worker and its server.
LEMMA ExchangeIs ==
  ASSUME NEW m1, NEW m2, Exchange(m1) = Exchange(m2)
  PROVE  /\ m1.app_id = m2.app_id /\ m1.timestamp = m2.timestamp
         /\ m1.request /\ m2.request => m1.sender = m2.sender /\ m1.recver = m2.recver
  BY Zenon DEF Exchange

\* A response belongs to the exchange of its request, and goes back.
LEMMA ResponseExchange ==
  ASSUME NEW m, NEW res, m.request
  PROVE  LET r == Response(m, res)
         IN /\ Exchange(r) = Exchange(m) /\ ~r.request
            /\ r.app_id = m.app_id /\ r.timestamp = m.timestamp
            /\ r.sender = m.recver /\ r.recver = m.sender
  BY Zenon DEF Exchange, Response, Data

\* What Append does to a queue.
LEMMA QueueAppend ==
  ASSUME NEW q, NEW m, IsQueue(q)
  PROVE  LET p == Append(q, m)
         IN /\ IsQueue(p) /\ Len(p) = Len(q) + 1 /\ Len(q) \in Nat
            /\ p[Len(q) + 1] = m /\ \A k \in 1 .. Len(q) : p[k] = q[k]
<1>1. PICK S : q \in Seq(S)
  BY Zenon DEF IsQueue
<1>2. q \in Seq(S \cup {m})
  BY <1>1
<1>3. Append(q, m) \in Seq(S \cup {m})
  BY <1>2
<1> QED BY <1>2, <1>3 DEF IsQueue

\* What Tail does to a queue.
LEMMA QueueTail ==
  ASSUME NEW q, IsQueue(q), q # <<>>
  PROVE  /\ IsQueue(Tail(q)) /\ Len(Tail(q)) = Len(q) - 1 /\ Len(q) \in Nat /\ Len(q) >= 1
         /\ \A k \in 1 .. Len(q) - 1 : Tail(q)[k] = q[k + 1]
         /\ Head(q) = q[1]
<1>1. PICK S : q \in Seq(S)
  BY Zenon DEF IsQueue
<1> QED BY <1>1 DEF IsQueue

\* The exchanges in a queue after Append.
LEMMA InAppend ==
  ASSUME NEW q, NEW m, IsQueue(q)
  PROVE  /\ \A x : InQueue(Append(q, m), x) <=> InQueue(q, x) \/ x = Exchange(m)
         /\ Once(q) /\ ~InQueue(q, Exchange(m)) => Once(Append(q, m))
<1> DEFINE p == Append(q, m)
<1>1. /\ Len(p) = Len(q) + 1 /\ Len(q) \in Nat
      /\ p[Len(q) + 1] = m /\ \A k \in 1 .. Len(q) : p[k] = q[k]
  BY QueueAppend
<1>2. \A k \in 1 .. Len(p) : k \in 1 .. Len(q) \/ k = Len(q) + 1
  BY <1>1
<1>3. (\A k \in 1 .. Len(q) : k \in 1 .. Len(p)) /\ Len(q) + 1 \in 1 .. Len(p)
  BY <1>1
<1> HIDE DEF p
<1>4. \A x : InQueue(p, x) <=> InQueue(q, x) \/ x = Exchange(m)
  BY <1>1, <1>2, <1>3, Zenon DEF InQueue
<1>5. Once(q) /\ ~InQueue(q, Exchange(m)) => Once(p)
  BY <1>1, <1>2, Zenon DEF Once, InQueue
<1> QED BY <1>4, <1>5, Zenon DEF p

\* The exchanges in a queue after Tail.
LEMMA InTail ==
  ASSUME NEW q, IsQueue(q), q # <<>>, Once(q)
  PROVE  /\ \A x : InQueue(Tail(q), x) <=> InQueue(q, x) /\ x # Exchange(Head(q))
         /\ InQueue(q, Exchange(Head(q)))
         /\ Once(Tail(q))
<1> DEFINE p == Tail(q)
<1>1. /\ Len(p) = Len(q) - 1 /\ Len(q) \in Nat /\ Len(q) >= 1
      /\ \A k \in 1 .. Len(q) - 1 : p[k] = q[k + 1]
      /\ Head(q) = q[1]
  BY QueueTail, Zenon
<1> HIDE DEF p
<1>2. \A k \in 1 .. Len(p) : k + 1 \in 1 .. Len(q) /\ p[k] = q[k + 1] /\ k + 1 # 1
  BY <1>1
<1>3. \A k \in 1 .. Len(q) : k = 1 \/ (k - 1 \in 1 .. Len(p) /\ p[k - 1] = q[k])
  BY <1>1
<1>4. 1 \in 1 .. Len(q) /\ \A j, k \in 1 .. Len(p) : j + 1 = k + 1 => j = k
  BY <1>1
<1>5. \A x : InQueue(p, x) <=> InQueue(q, x) /\ x # Exchange(Head(q))
  <2> SUFFICES ASSUME NEW x PROVE InQueue(p, x) <=> InQueue(q, x) /\ x # Exchange(Head(q))
    BY Zenon
  <2>1. InQueue(p, x) => InQueue(q, x) /\ x # Exchange(Head(q))
    BY <1>1, <1>2, <1>4, Zenon DEF InQueue, Once
  <2>2. InQueue(q, x) /\ x # Exchange(Head(q)) => InQueue(p, x)
    BY <1>1, <1>3, Zenon DEF InQueue
  <2> QED BY <2>1, <2>2, Zenon
<1>6. Once(p)
  BY <1>2, <1>4, Zenon DEF Once
<1>7. InQueue(q, Exchange(Head(q)))
  BY <1>1, <1>4, Zenon DEF InQueue
<1> QED BY <1>5, <1>6, <1>7, Zenon DEF p

-----------------------------------------------------------------------------
(***************************************************************************)
(* How messages move: an exchange goes from place to place.                *)
(***************************************************************************)
\* No message moves.
LEMMA SameMail ==
  ASSUME Mail, OnePlace, UNCHANGED <<tracker, outbox, transit, recv_queue>>
  PROVE  /\ Mail' /\ OnePlace' /\ \A x : Open(x)' <=> Open(x)
<1>1. Mail'
  BY Zenon DEF Mail
<1>2. \A x : /\ Unsent(x)' <=> Unsent(x)
             /\ Moving(x)' <=> Moving(x)
             /\ \A n, a : Queued(n, a, x)' <=> Queued(n, a, x)
  BY Zenon DEF Unsent, Moving, Queued
<1>3. OnePlace'
  BY <1>2 DEF OnePlace
<1>4. \A x : Open(x)' <=> Open(x)
  BY <1>2, Zenon DEF Open
<1> QED BY <1>1, <1>3, <1>4, Zenon

\* The user thread hands a message to the Van.
LEMMA MailSent ==
  ASSUME SetFacts, Types, Mail, OnePlace, NEW w \in Workers, SendNext(w)
  PROVE  /\ Mail' /\ OnePlace' /\ \A x : Open(x)' <=> Open(x)
<1> DEFINE i == Min(DOMAIN outbox[w])
           m == outbox[w][i]
<1>1. i \in DOMAIN outbox[w]
  <2>1. DOMAIN outbox[w] \subseteq Nat /\ DOMAIN outbox[w] # {}
    <3>1. \A k \in DOMAIN outbox[w] : k \in 1 .. NumServers
      BY Zenon DEF Mail, ForServer
    <3>2. DOMAIN outbox[w] # {}
      BY Zenon DEF SendNext
    <3> QED BY <3>1, <3>2
  <2>2. \E k \in DOMAIN outbox[w] : \A j \in DOMAIN outbox[w] : k <= j
    BY <2>1, Zenon DEF SetFacts
  <2> QED BY <2>2, Zenon DEF Min
<1>2. /\ transit' = transit \cup {m} /\ UNCHANGED <<tracker, recv_queue>>
      /\ outbox' = [outbox EXCEPT ![w] = Restrict(outbox[w], DOMAIN outbox[w] \ {i})]
  BY Zenon DEF SendNext, Send
<1> HIDE DEF i
<1>3. DOMAIN outbox = Workers
  BY Zenon DEF Types
<1>4. /\ DOMAIN outbox'[w] = DOMAIN outbox[w] \ {i}
      /\ \A k \in DOMAIN outbox'[w] : outbox'[w][k] = outbox[w][k]
  BY <1>2, <1>3, Zenon DEF Restrict
<1>5. \A v \in Workers : v # w => outbox'[v] = outbox[v]
  BY <1>2, <1>3, Zenon
<1>6. \A v \in Workers : \A k \in DOMAIN outbox'[v] :
        /\ k \in DOMAIN outbox[v] /\ outbox'[v][k] = outbox[v][k] /\ (v = w => k # i)
  BY <1>4, <1>5, Zenon
<1>7. \A v \in Workers : \A k \in DOMAIN outbox[v] :
        (k \in DOMAIN outbox'[v] /\ outbox'[v][k] = outbox[v][k]) \/ (v = w /\ k = i)
  BY <1>4, <1>5, Zenon
<1>9. Fit(m, tracker) /\ ForServer(m, w, i)
  BY <1>1, Zenon DEF Mail
<1> HIDE DEF m
<1>10. Mail'
  <2>1. \A v \in Workers : \A k \in DOMAIN outbox'[v] :
          Fit(outbox'[v][k], tracker') /\ ForServer(outbox'[v][k], v, k)
    <3>1. \A v \in Workers : \A k \in DOMAIN outbox[v] :
            Fit(outbox[v][k], tracker) /\ ForServer(outbox[v][k], v, k)
      BY Zenon DEF Mail
    <3>2. tracker' = tracker
      BY <1>2, Zenon
    <3> QED BY <1>6, <3>1, <3>2, Zenon
  <2>2. \A o \in transit' : Fit(o, tracker')
    BY <1>2, <1>9, Zenon DEF Mail
  <2>3. \A n \in Nodes, a \in Apps : \A k \in 1 .. Len(recv_queue'[n][a]) :
          Fit(recv_queue'[n][a][k], tracker') /\ ForCustomer(recv_queue'[n][a][k], n, a)
    BY <1>2, Zenon DEF Mail
  <2> QED BY <2>1, <2>2, <2>3, Zenon DEF Mail
<1>11. \A x : Unsent(x)' <=> Unsent(x) /\ x # Exchange(m)
  <2>1. ASSUME NEW v \in Workers, NEW k \in DOMAIN outbox[v], Exchange(outbox[v][k]) = Exchange(m)
        PROVE  v = w /\ k = i
    <3>1. ForServer(outbox[v][k], v, k)
      BY Zenon DEF Mail
    <3> QED BY <1>9, <2>1, <3>1, ExchangeIs, Constants DEF ForServer
  <2> SUFFICES ASSUME NEW x PROVE Unsent(x)' <=> Unsent(x) /\ x # Exchange(m)
    BY Zenon
  <2>2. Unsent(x)' => Unsent(x) /\ x # Exchange(m)
    BY <1>6, <2>1 DEF Unsent
  <2>3. Unsent(x) /\ x # Exchange(m) => Unsent(x)'
    BY <1>7, Zenon DEF Unsent, m
  <2> QED BY <2>2, <2>3, Zenon
<1>12. \A x : Moving(x)' <=> Moving(x) \/ x = Exchange(m)
  BY <1>2, Zenon DEF Moving
<1>13. \A x, n, a : Queued(n, a, x)' <=> Queued(n, a, x)
  BY <1>2, Zenon DEF Queued
<1>14. Unsent(Exchange(m))
  BY <1>1, Zenon DEF Unsent, m
<1>15. OnePlace'
  <2>1. \A m1, m2 \in transit' : Exchange(m1) = Exchange(m2) => m1 = m2
    BY <1>2, <1>14, Zenon DEF OnePlace, Moving
  <2>2. \A n \in Nodes, a \in Apps : Once(recv_queue'[n][a])
    BY <1>2, Zenon DEF OnePlace
  <2>3. \A x : /\ ~(Unsent(x)' /\ Moving(x)')
               /\ \A n \in Nodes, a \in Apps :
                    Queued(n, a, x)' => /\ ~Unsent(x)' /\ ~Moving(x)'
                                        /\ \A n2 \in Nodes, a2 \in Apps :
                                             Queued(n2, a2, x)' => n2 = n /\ a2 = a
    BY <1>11, <1>12, <1>13, <1>14, Zenon DEF OnePlace
  <2> QED BY <2>1, <2>2, <2>3, Zenon DEF OnePlace
<1>16. \A x : Open(x)' <=> Open(x)
  BY <1>11, <1>12, <1>13, <1>14, Zenon DEF Open
<1> QED BY <1>10, <1>15, <1>16, Zenon

\* Van::ProcessDataMsg puts a message into the queue of its Customer.
LEMMA MailArrived ==
  ASSUME Types, Mail, OnePlace, UNCHANGED <<tracker, outbox>>, NEW m, Deliver(m)
  PROVE  /\ Mail' /\ OnePlace' /\ QueueTypes' /\ \A x : Open(x)' <=> Open(x)
<1> DEFINE n0 == m.recver
           a0 == m.app_id
           q == recv_queue[n0][a0]
<1>1. /\ m \in transit /\ transit' = transit \ {m}
      /\ recv_queue' = [recv_queue EXCEPT ![n0][a0] = Append(q, m)]
  BY Zenon DEF Deliver, Accept
<1>2. Fit(m, tracker)
  BY <1>1, Zenon DEF Mail
<1>3. n0 \in Nodes /\ a0 \in Apps /\ ForCustomer(m, n0, a0)
  BY <1>2, Constants, Zenon DEF Fit, ForCustomer
<1>4. /\ DOMAIN recv_queue = Nodes /\ \A n \in Nodes : DOMAIN recv_queue[n] = Apps
      /\ \A n \in Nodes, a \in Apps : IsQueue(recv_queue[n][a])
  BY Zenon DEF Types, QueueTypes
<1> HIDE DEF n0, a0
<1>5. /\ DOMAIN recv_queue' = Nodes /\ \A n \in Nodes : DOMAIN recv_queue'[n] = Apps
      /\ recv_queue'[n0][a0] = Append(q, m)
      /\ \A n \in Nodes, a \in Apps : ~(n = n0 /\ a = a0) => recv_queue'[n][a] = recv_queue[n][a]
  BY <1>1, <1>3, <1>4, Zenon
<1>6. IsQueue(q)
  BY <1>3, <1>4, Zenon
<1> HIDE DEF q
<1>7. /\ IsQueue(Append(q, m)) /\ Len(Append(q, m)) = Len(q) + 1 /\ Len(q) \in Nat
      /\ Append(q, m)[Len(q) + 1] = m /\ \A k \in 1 .. Len(q) : Append(q, m)[k] = q[k]
  BY <1>6, QueueAppend
<1>8. QueueTypes'
  BY <1>4, <1>5, <1>7, Zenon DEF QueueTypes
<1>9. Mail'
  <2>1. \A k \in 1 .. Len(Append(q, m)) :
          Fit(Append(q, m)[k], tracker) /\ ForCustomer(Append(q, m)[k], n0, a0)
    <3>1. \A k \in 1 .. Len(q) : Fit(q[k], tracker) /\ ForCustomer(q[k], n0, a0)
      BY <1>3, Zenon DEF Mail, q
    <3>2. \A k \in 1 .. Len(Append(q, m)) : k \in 1 .. Len(q) \/ k = Len(q) + 1
      BY <1>7
    <3> QED BY <1>2, <1>3, <1>7, <3>1, <3>2, Zenon
  <2>2. \A n \in Nodes, a \in Apps : \A k \in 1 .. Len(recv_queue'[n][a]) :
          Fit(recv_queue'[n][a][k], tracker') /\ ForCustomer(recv_queue'[n][a][k], n, a)
    <3> SUFFICES ASSUME NEW n \in Nodes, NEW a \in Apps, NEW k \in 1 .. Len(recv_queue'[n][a])
                 PROVE  Fit(recv_queue'[n][a][k], tracker) /\ ForCustomer(recv_queue'[n][a][k], n, a)
      BY Zenon
    <3>1. CASE n = n0 /\ a = a0
      BY <1>5, <2>1, <3>1, Zenon
    <3>2. CASE ~(n = n0 /\ a = a0)
      BY <1>5, <3>2, Zenon DEF Mail
    <3> QED BY <3>1, <3>2, Zenon
  <2>3. \A o \in transit' : Fit(o, tracker')
    BY <1>1, Zenon DEF Mail
  <2> QED BY <2>2, <2>3, Zenon DEF Mail
<1>10. \A x : Moving(x)' <=> Moving(x) /\ x # Exchange(m)
  BY <1>1, Zenon DEF Moving, OnePlace
<1>11. Moving(Exchange(m))
  BY <1>1, Zenon DEF Moving
<1>12. \A x : Unsent(x)' <=> Unsent(x)
  BY Zenon DEF Unsent
<1>13. \A x : /\ Queued(n0, a0, x)' <=> Queued(n0, a0, x) \/ x = Exchange(m)
              /\ \A n \in Nodes, a \in Apps :
                   ~(n = n0 /\ a = a0) => (Queued(n, a, x)' <=> Queued(n, a, x))
  <2>1. \A x : InQueue(Append(q, m), x) <=> InQueue(q, x) \/ x = Exchange(m)
    BY <1>6, InAppend, Zenon
  <2> QED BY <1>5, <2>1, Zenon DEF Queued, q
<1>14. OnePlace'
  <2>1. \A m1, m2 \in transit' : Exchange(m1) = Exchange(m2) => m1 = m2
    BY <1>1, Zenon DEF OnePlace
  <2>2. \A n \in Nodes, a \in Apps : Once(recv_queue'[n][a])
    <3>1. Once(q) /\ ~InQueue(q, Exchange(m))
      BY <1>3, <1>11, Zenon DEF OnePlace, Queued, q
    <3>2. Once(Append(q, m))
      BY <1>6, <3>1, InAppend, Zenon
    <3> QED BY <1>5, <3>2, Zenon DEF OnePlace
  <2>3. \A x : /\ ~(Unsent(x)' /\ Moving(x)')
               /\ \A n \in Nodes, a \in Apps :
                    Queued(n, a, x)' => /\ ~Unsent(x)' /\ ~Moving(x)'
                                        /\ \A n2 \in Nodes, a2 \in Apps :
                                             Queued(n2, a2, x)' => n2 = n /\ a2 = a
    <3>1. ~Unsent(Exchange(m)) /\ \A n \in Nodes, a \in Apps : ~Queued(n, a, Exchange(m))
      BY <1>11, Zenon DEF OnePlace
    <3>2. \A n \in Nodes, a \in Apps : Queued(n, a, Exchange(m))' => n = n0 /\ a = a0
      BY <1>13, <3>1, Zenon
    <3>3. \A x : x # Exchange(m) =>
            \A n \in Nodes, a \in Apps : Queued(n, a, x)' <=> Queued(n, a, x)
      BY <1>13, Zenon
    <3>4. \A x : x # Exchange(m) =>
            /\ ~(Unsent(x)' /\ Moving(x)')
            /\ \A n \in Nodes, a \in Apps :
                 Queued(n, a, x)' => /\ ~Unsent(x)' /\ ~Moving(x)'
                                     /\ \A n2 \in Nodes, a2 \in Apps :
                                          Queued(n2, a2, x)' => n2 = n /\ a2 = a
      <4> SUFFICES ASSUME NEW x, x # Exchange(m)
                   PROVE  /\ ~(Unsent(x)' /\ Moving(x)')
                          /\ \A n \in Nodes, a \in Apps :
                               Queued(n, a, x)' => /\ ~Unsent(x)' /\ ~Moving(x)'
                                                   /\ \A n2 \in Nodes, a2 \in Apps :
                                                        Queued(n2, a2, x)' => n2 = n /\ a2 = a
        BY Zenon
      <4>1. /\ Unsent(x)' <=> Unsent(x)
            /\ Moving(x)' <=> Moving(x)
            /\ \A n \in Nodes, a \in Apps : Queued(n, a, x)' <=> Queued(n, a, x)
        BY <1>10, <1>12, <3>3, Zenon
      <4> QED BY <4>1, Zenon DEF OnePlace
    <3>5. ~Unsent(Exchange(m))' /\ ~Moving(Exchange(m))'
      BY <1>10, <1>12, <3>1, Zenon
    <3> SUFFICES ASSUME NEW x
                 PROVE  /\ ~(Unsent(x)' /\ Moving(x)')
                        /\ \A n \in Nodes, a \in Apps :
                             Queued(n, a, x)' => /\ ~Unsent(x)' /\ ~Moving(x)'
                                                 /\ \A n2 \in Nodes, a2 \in Apps :
                                                      Queued(n2, a2, x)' => n2 = n /\ a2 = a
      BY Zenon
    <3>6. CASE x = Exchange(m)
      BY <3>2, <3>5, <3>6, Zenon
    <3>7. CASE x # Exchange(m)
      BY <3>4, <3>7, Zenon
    <3> QED BY <3>6, <3>7, Zenon
  <2> QED BY <2>1, <2>2, <2>3, Zenon DEF OnePlace
<1>15. \A x : Open(x)' <=> Open(x)
  BY <1>3, <1>10, <1>11, <1>12, <1>13, Zenon DEF Open
<1> QED BY <1>8, <1>9, <1>14, <1>15, Zenon

\* Customer::Receiving takes the first message of a queue.
LEMMA MailPopped ==
  ASSUME Types, Mail, OnePlace, NEW n \in Nodes, NEW a \in Apps, Pop(n, a)
  PROVE  LET m == Head(recv_queue[n][a])
         IN /\ Fit(m, tracker) /\ ForCustomer(m, n, a) /\ Queued(n, a, Exchange(m))
            /\ QueueTypes' /\ \A n2 \in Nodes, a2 \in Apps : Once(recv_queue'[n2][a2])
            /\ \A n2 \in Nodes, a2 \in Apps : \A k \in 1 .. Len(recv_queue'[n2][a2]) :
                 /\ Fit(recv_queue'[n2][a2][k], tracker)
                 /\ ForCustomer(recv_queue'[n2][a2][k], n2, a2)
            /\ \A x : \A n2 \in Nodes, a2 \in Apps :
                 Queued(n2, a2, x)' <=> Queued(n2, a2, x) /\ x # Exchange(m)
<1> DEFINE q == recv_queue[n][a]
           m == Head(q)
<1>1. q # <<>> /\ recv_queue' = [recv_queue EXCEPT ![n][a] = Tail(q)]
  BY Zenon DEF Pop
<1>2. /\ DOMAIN recv_queue = Nodes /\ \A n2 \in Nodes : DOMAIN recv_queue[n2] = Apps
      /\ \A n2 \in Nodes, a2 \in Apps : IsQueue(recv_queue[n2][a2])
  BY Zenon DEF Types, QueueTypes
<1>3. /\ DOMAIN recv_queue' = Nodes /\ \A n2 \in Nodes : DOMAIN recv_queue'[n2] = Apps
      /\ recv_queue'[n][a] = Tail(q)
      /\ \A n2 \in Nodes, a2 \in Apps :
           ~(n2 = n /\ a2 = a) => recv_queue'[n2][a2] = recv_queue[n2][a2]
  BY <1>1, <1>2, Zenon
<1>4. IsQueue(q) /\ Once(q)
  BY <1>2, Zenon DEF OnePlace
<1>5. \A k \in 1 .. Len(q) : Fit(q[k], tracker) /\ ForCustomer(q[k], n, a)
  BY Zenon DEF Mail
<1> HIDE DEF q
<1>6. /\ IsQueue(Tail(q)) /\ Len(Tail(q)) = Len(q) - 1 /\ Len(q) \in Nat /\ Len(q) >= 1
      /\ \A k \in 1 .. Len(q) - 1 : Tail(q)[k] = q[k + 1]
      /\ m = q[1]
  BY <1>1, <1>4, QueueTail, Zenon
<1>7. /\ \A x : InQueue(Tail(q), x) <=> InQueue(q, x) /\ x # Exchange(m)
      /\ InQueue(q, Exchange(m)) /\ Once(Tail(q))
  BY <1>1, <1>4, InTail, Zenon
<1>8. \A k \in 1 .. Len(Tail(q)) : Fit(Tail(q)[k], tracker) /\ ForCustomer(Tail(q)[k], n, a)
  BY <1>5, <1>6
<1>9. Fit(m, tracker) /\ ForCustomer(m, n, a)
  BY <1>5, <1>6
<1> HIDE DEF m
<1>10. Queued(n, a, Exchange(m))
  BY <1>7, Zenon DEF Queued, q
<1>11. QueueTypes' /\ \A n2 \in Nodes, a2 \in Apps : Once(recv_queue'[n2][a2])
  BY <1>2, <1>3, <1>6, <1>7, Zenon DEF QueueTypes, OnePlace
<1>12. \A n2 \in Nodes, a2 \in Apps : \A k \in 1 .. Len(recv_queue'[n2][a2]) :
         /\ Fit(recv_queue'[n2][a2][k], tracker)
         /\ ForCustomer(recv_queue'[n2][a2][k], n2, a2)
  <2> SUFFICES ASSUME NEW n2 \in Nodes, NEW a2 \in Apps, NEW k \in 1 .. Len(recv_queue'[n2][a2])
               PROVE  /\ Fit(recv_queue'[n2][a2][k], tracker)
                      /\ ForCustomer(recv_queue'[n2][a2][k], n2, a2)
    BY Zenon
  <2>1. CASE n2 = n /\ a2 = a
    BY <1>3, <1>8, <2>1, Zenon
  <2>2. CASE ~(n2 = n /\ a2 = a)
    BY <1>3, <2>2 DEF Mail
  <2> QED BY <2>1, <2>2, Zenon
<1>13. \A x : \A n2 \in Nodes, a2 \in Apps :
         Queued(n2, a2, x)' <=> Queued(n2, a2, x) /\ x # Exchange(m)
  <2>1. \A x : \A n2 \in Nodes, a2 \in Apps :
          ~(n2 = n /\ a2 = a) => (Queued(n2, a2, x)' <=> Queued(n2, a2, x))
    BY <1>3 DEF Queued
  <2>2. \A x : Queued(n, a, x)' <=> Queued(n, a, x) /\ x # Exchange(m)
    BY <1>3, <1>7, Zenon DEF Queued, q
  <2>3. \A n2 \in Nodes, a2 \in Apps : Queued(n2, a2, Exchange(m)) => n2 = n /\ a2 = a
    BY <1>10, Zenon DEF OnePlace
  <2> QED BY <2>1, <2>2, <2>3, Zenon
<1> QED BY <1>9, <1>10, <1>11, <1>12, <1>13, Zenon DEF m, q

\* A server answers the first message of a queue.
LEMMA MailAnswered ==
  ASSUME Types, Mail, OnePlace, UNCHANGED <<tracker, outbox>>, NEW n \in Servers,
         NEW a \in Apps, Pop(n, a), NEW res, Send(Response(Head(recv_queue[n][a]), res))
  PROVE  /\ Mail' /\ OnePlace' /\ QueueTypes' /\ \A x : Open(x)' <=> Open(x)
<1> DEFINE m == Head(recv_queue[n][a])
           r == Response(m, res)
<1>0. n \in Nodes
  BY Constants, Zenon
<1>1. /\ Fit(m, tracker) /\ ForCustomer(m, n, a) /\ Queued(n, a, Exchange(m))
      /\ QueueTypes' /\ \A n2 \in Nodes, a2 \in Apps : Once(recv_queue'[n2][a2])
      /\ \A n2 \in Nodes, a2 \in Apps : \A k \in 1 .. Len(recv_queue'[n2][a2]) :
           /\ Fit(recv_queue'[n2][a2][k], tracker)
           /\ ForCustomer(recv_queue'[n2][a2][k], n2, a2)
      /\ \A x : \A n2 \in Nodes, a2 \in Apps :
           Queued(n2, a2, x)' <=> Queued(n2, a2, x) /\ x # Exchange(m)
  BY <1>0, MailPopped, Zenon
<1>2. transit' = transit \cup {r}
  BY Zenon DEF Send
<1> HIDE DEF m
<1>3. m.request
  BY <1>1, Constants, Zenon DEF Fit, ForCustomer
<1>4. /\ Exchange(r) = Exchange(m) /\ ~r.request
      /\ r.app_id = m.app_id /\ r.timestamp = m.timestamp
      /\ r.sender = m.recver /\ r.recver = m.sender
  BY <1>3, ResponseExchange, Zenon
<1> HIDE DEF r
<1>5. Fit(r, tracker)
  <2>1. r.request \in BOOLEAN
    BY Zenon DEF r, Response, Data
  <2> QED BY <1>1, <1>3, <1>4, <2>1, Zenon DEF Fit
<1>6. Mail'
  BY <1>1, <1>2, <1>5, Zenon DEF Mail
<1>7. \A x : Moving(x)' <=> Moving(x) \/ x = Exchange(m)
  BY <1>2, <1>4, Zenon DEF Moving
<1>8. \A x : Unsent(x)' <=> Unsent(x)
  BY Zenon DEF Unsent
<1>9. ~Unsent(Exchange(m)) /\ ~Moving(Exchange(m))
  BY <1>0, <1>1, Zenon DEF OnePlace
<1>10. OnePlace'
  <2>1. \A m1, m2 \in transit' : Exchange(m1) = Exchange(m2) => m1 = m2
    BY <1>2, <1>4, <1>9, Zenon DEF OnePlace, Moving
  <2>2. \A x : /\ ~(Unsent(x)' /\ Moving(x)')
               /\ \A n1 \in Nodes, a1 \in Apps :
                    Queued(n1, a1, x)' => /\ ~Unsent(x)' /\ ~Moving(x)'
                                          /\ \A n2 \in Nodes, a2 \in Apps :
                                               Queued(n2, a2, x)' => n2 = n1 /\ a2 = a1
    BY <1>1, <1>7, <1>8, <1>9 DEF OnePlace
  <2> QED BY <1>1, <2>1, <2>2, Zenon DEF OnePlace
<1>11. \A x : Open(x)' <=> Open(x)
  BY <1>0, <1>1, <1>7, <1>8, Zenon DEF Open
<1> QED BY <1>1, <1>6, <1>10, <1>11, Zenon

\* The first message of a queue is handled, or the process ends.
LEMMA MailTaken ==
  ASSUME Types, Mail, OnePlace, UNCHANGED <<tracker, outbox, transit>>, NEW n \in Nodes,
         NEW a \in Apps, Pop(n, a)
  PROVE  LET m == Head(recv_queue[n][a])
         IN /\ Mail' /\ OnePlace' /\ QueueTypes'
            /\ Fit(m, tracker) /\ ForCustomer(m, n, a) /\ Open(Exchange(m))
            /\ \A x : Open(x)' <=> Open(x) /\ x # Exchange(m)
<1> DEFINE m == Head(recv_queue[n][a])
<1>1. /\ Fit(m, tracker) /\ ForCustomer(m, n, a) /\ Queued(n, a, Exchange(m))
      /\ QueueTypes' /\ \A n2 \in Nodes, a2 \in Apps : Once(recv_queue'[n2][a2])
      /\ \A n2 \in Nodes, a2 \in Apps : \A k \in 1 .. Len(recv_queue'[n2][a2]) :
           /\ Fit(recv_queue'[n2][a2][k], tracker)
           /\ ForCustomer(recv_queue'[n2][a2][k], n2, a2)
      /\ \A x : \A n2 \in Nodes, a2 \in Apps :
           Queued(n2, a2, x)' <=> Queued(n2, a2, x) /\ x # Exchange(m)
  BY MailPopped, Zenon
<1> HIDE DEF m
<1>2. Mail'
  BY <1>1, Zenon DEF Mail
<1>3. \A x : /\ Moving(x)' <=> Moving(x)
             /\ Unsent(x)' <=> Unsent(x)
  BY Zenon DEF Moving, Unsent
<1>4. ~Unsent(Exchange(m)) /\ ~Moving(Exchange(m))
  BY <1>1, Zenon DEF OnePlace
<1>5. OnePlace'
  <2>1. \A x : /\ ~(Unsent(x)' /\ Moving(x)')
               /\ \A n1 \in Nodes, a1 \in Apps :
                    Queued(n1, a1, x)' => /\ ~Unsent(x)' /\ ~Moving(x)'
                                          /\ \A n2 \in Nodes, a2 \in Apps :
                                               Queued(n2, a2, x)' => n2 = n1 /\ a2 = a1
    BY <1>1, <1>3 DEF OnePlace
  <2> QED BY <1>1, <2>1, Zenon DEF OnePlace
<1>6. \A x : Open(x)' <=> Open(x) /\ x # Exchange(m)
  BY <1>1, <1>3, <1>4, Zenon DEF Open
<1>7. Open(Exchange(m))
  BY <1>1, Zenon DEF Open
<1> QED BY <1>1, <1>2, <1>5, <1>6, <1>7, Zenon DEF m

\* An exchange that is open belongs to a request that was made.
LEMMA OpenKnown ==
  ASSUME Types, Mail, NEW w \in Workers, NEW a \in Apps, NEW s,
         NEW t, Open(<<a, t, w, s>>)
  PROVE  t \in Nat /\ t < Len(tracker[w][a]) /\ s \in Servers
<1> DEFINE x == <<a, t, w, s>>
<1>1. PICK m : Fit(m, tracker) /\ Exchange(m) = x
  <2>1. CASE Unsent(x)
    BY <2>1, Zenon DEF Unsent, Mail
  <2>2. CASE Moving(x)
    BY <2>2, Zenon DEF Moving, Mail
  <2>3. CASE \E n \in Nodes, b \in Apps : Queued(n, b, x)
    BY <2>3, Zenon DEF Queued, InQueue, Mail
  <2> QED BY <2>1, <2>2, <2>3, Zenon DEF Open
<1>2. CASE m.request
  <2>1. m.app_id = a /\ m.timestamp = t /\ m.sender = w /\ m.recver = s
    BY <1>1, <1>2, Zenon DEF Exchange
  <2> QED BY <1>1, <1>2, <2>1, Zenon DEF Fit
<1>3. CASE ~m.request
  <2>1. m.app_id = a /\ m.timestamp = t /\ m.recver = w /\ m.sender = s
    BY <1>1, <1>3, Zenon DEF Exchange
  <2> QED BY <1>1, <1>3, <2>1, Zenon DEF Fit
<1> QED BY <1>2, <1>3, Zenon

\* The messages of a new request of w, for the servers of the indices C.
Asks(f, w, a, T, C) ==
  /\ DOMAIN f = C
  /\ \A i \in C : /\ f[i].app_id = a /\ f[i].timestamp = T
                  /\ f[i].request = TRUE /\ f[i].sender = w /\ f[i].recver = ServerIds[i]

\* The request is made, of timestamp T, and its messages f are there to be sent.
Posts(w, a, T, f) ==
  /\ outbox[w] = <<>> /\ outbox' = [outbox EXCEPT ![w] = f]
  /\ UNCHANGED <<transit, recv_queue>>
  /\ T = Len(tracker[w][a]) /\ Len(tracker'[w][a]) = T + 1
  /\ \A v \in Workers, b \in Apps :
       ~(v = w /\ b = a) => Len(tracker'[v][b]) = Len(tracker[v][b])

\* A request of w to the servers of indices C: nothing of it was open before.
LEMMA MailMade ==
  ASSUME Types, Mail, OnePlace, NEW w \in Workers, NEW a \in Apps, NEW T,
         NEW C, C \subseteq 1 .. NumServers, NEW f, Asks(f, w, a, T, C), Posts(w, a, T, f)
  PROVE  /\ Mail' /\ OnePlace'
         /\ \A v \in Workers, b \in Apps : \A i \in 1 .. Len(tracker[v][b]) :
              Awaited(v, b, i)' = Awaited(v, b, i)
         /\ Awaited(w, a, T + 1)' = {ServerIds[i] : i \in C}
<1> USE DEF Asks, Posts
<1> DEFINE X(s) == <<a, T, w, s>>
<1>1. DOMAIN outbox = Workers /\ \A v \in Workers, b \in Apps : Len(tracker[v][b]) \in Nat
  BY DEF Types
<1>2. outbox'[w] = f /\ \A v \in Workers : v # w => outbox'[v] = outbox[v]
  BY <1>1, Zenon
<1>3. DOMAIN outbox[w] = {}
  OBVIOUS
<1>4. T \in Nat
  BY <1>1, Zenon
<1>5. \A m : Fit(m, tracker) => Fit(m, tracker')
  <2>1. \A v \in Workers, b \in Apps :
          Len(tracker'[v][b]) >= Len(tracker[v][b]) /\ Len(tracker'[v][b]) \in Nat
    BY <1>1
  <2> SUFFICES ASSUME NEW m, Fit(m, tracker) PROVE Fit(m, tracker')
    BY Zenon
  <2>2. \A v \in Workers, b \in Apps, t \in Nat :
          t < Len(tracker[v][b]) => t < Len(tracker'[v][b])
    BY <1>1, <2>1
  <2>3. m.app_id \in Apps /\ m.timestamp \in Nat /\ m.request \in BOOLEAN
    BY Zenon DEF Fit
  <2> QED BY <2>2, <2>3, Zenon DEF Fit
<1>6. \A i \in C : ForServer(f[i], w, i) /\ Fit(f[i], tracker')
  <2> SUFFICES ASSUME NEW i \in C PROVE ForServer(f[i], w, i) /\ Fit(f[i], tracker')
    BY Zenon
  <2>1. i \in 1 .. NumServers /\ f[i].request /\ f[i].request \in BOOLEAN
    BY Zenon
  <2>2. f[i].recver \in Servers
    BY <2>1, Constants
  <2>3. f[i].timestamp < Len(tracker'[w][a]) /\ f[i].timestamp \in Nat
    <3>1. f[i].timestamp = T /\ Len(tracker'[w][a]) = T + 1
      BY Zenon
    <3> QED BY <1>4, <3>1
  <2> QED BY <2>1, <2>2, <2>3, Zenon DEF ForServer, Fit
<1>7. \A i \in C : Exchange(f[i]) = X(ServerIds[i])
  <2> SUFFICES ASSUME NEW i \in C PROVE Exchange(f[i]) = X(ServerIds[i])
    BY Zenon
  <2>1. f[i].request
    BY Zenon
  <2> QED BY <2>1, Zenon DEF Exchange
<1>8. \A s : ~Open(X(s))
  <2> SUFFICES ASSUME NEW s, Open(X(s)) PROVE FALSE
    BY Zenon
  <2>1. T < Len(tracker[w][a])
    BY OpenKnown, Zenon
  <2> QED BY <1>4, <2>1
<1>9. Mail'
  <2>1. \A v \in Workers : \A k \in DOMAIN outbox'[v] :
          Fit(outbox'[v][k], tracker') /\ ForServer(outbox'[v][k], v, k)
    <3> SUFFICES ASSUME NEW v \in Workers, NEW k \in DOMAIN outbox'[v]
                 PROVE  Fit(outbox'[v][k], tracker') /\ ForServer(outbox'[v][k], v, k)
      BY Zenon
    <3>1. CASE v = w
      BY <1>2, <1>6, <3>1
    <3>2. CASE v # w
      <4>1. outbox'[v] = outbox[v]
        BY <1>2, <3>2, Zenon
      <4>2. Fit(outbox[v][k], tracker) /\ ForServer(outbox[v][k], v, k)
        BY <4>1, Zenon DEF Mail
      <4> QED BY <1>5, <4>1, <4>2, Zenon
    <3> QED BY <3>1, <3>2, Zenon
  <2>2. \A m \in transit : Fit(m, tracker')
    BY <1>5, Zenon DEF Mail
  <2>3. \A n \in Nodes, b \in Apps : \A k \in 1 .. Len(recv_queue[n][b]) :
          Fit(recv_queue[n][b][k], tracker') /\ ForCustomer(recv_queue[n][b][k], n, b)
    BY <1>5, Zenon DEF Mail
  <2> QED BY <2>1, <2>2, <2>3, Zenon DEF Mail
<1>10. \A x : Unsent(x)' <=> Unsent(x) \/ \E i \in C : x = X(ServerIds[i])
  <2> SUFFICES ASSUME NEW x PROVE Unsent(x)' <=> Unsent(x) \/ \E i \in C : x = X(ServerIds[i])
    BY Zenon
  <2>1. Unsent(x)' => Unsent(x) \/ \E i \in C : x = X(ServerIds[i])
    <3> SUFFICES ASSUME NEW v \in Workers, NEW k \in DOMAIN outbox'[v],
                        Exchange(outbox'[v][k]) = x
                 PROVE  Unsent(x) \/ \E i \in C : x = X(ServerIds[i])
      BY Zenon DEF Unsent
    <3>1. CASE v = w
      <4>1. outbox'[v] = f
        BY <1>2, <3>1, Zenon
      <4>2. k \in C /\ x = Exchange(f[k])
        BY <4>1, Zenon
      <4> QED BY <1>7, <4>2
    <3>2. CASE v # w
      <4>1. outbox'[v] = outbox[v]
        BY <1>2, <3>2, Zenon
      <4> QED BY <4>1, Zenon DEF Unsent
    <3> QED BY <3>1, <3>2, Zenon
  <2>2. Unsent(x) => Unsent(x)'
    <3> SUFFICES ASSUME NEW v \in Workers, NEW k \in DOMAIN outbox[v],
                        Exchange(outbox[v][k]) = x
                 PROVE  Unsent(x)'
      BY Zenon DEF Unsent
    <3>1. v # w
      BY <1>3, Zenon
    <3>2. outbox'[v] = outbox[v]
      BY <1>2, <3>1, Zenon
    <3> QED BY <3>2, Zenon DEF Unsent
  <2>3. ASSUME NEW i \in C, x = X(ServerIds[i]) PROVE Unsent(x)'
    <3>1. i \in DOMAIN outbox'[w] /\ Exchange(outbox'[w][i]) = x
      BY <1>2, <1>7, <2>3, Zenon
    <3> QED BY <3>1, Zenon DEF Unsent
  <2> QED BY <2>1, <2>2, <2>3, Zenon
<1>11. \A x : /\ Moving(x)' <=> Moving(x)
              /\ \A n, b : Queued(n, b, x)' <=> Queued(n, b, x)
  BY Zenon DEF Moving, Queued
<1>12. \A i \in C : ~Moving(X(ServerIds[i])) /\ \A n \in Nodes, b \in Apps :
                      ~Queued(n, b, X(ServerIds[i]))
  BY <1>8, Zenon DEF Open
<1> HIDE DEF X
<1>13. OnePlace'
  <2>1. \A x : /\ ~(Unsent(x)' /\ Moving(x)')
               /\ \A n1 \in Nodes, a1 \in Apps :
                    Queued(n1, a1, x)' => /\ ~Unsent(x)' /\ ~Moving(x)'
                                          /\ \A n2 \in Nodes, a2 \in Apps :
                                               Queued(n2, a2, x)' => n2 = n1 /\ a2 = a1
    <3> SUFFICES ASSUME NEW x
                 PROVE  /\ ~(Unsent(x)' /\ Moving(x)')
                        /\ \A n1 \in Nodes, a1 \in Apps :
                             Queued(n1, a1, x)' =>
                               /\ ~Unsent(x)' /\ ~Moving(x)'
                               /\ \A n2 \in Nodes, a2 \in Apps :
                                    Queued(n2, a2, x)' => n2 = n1 /\ a2 = a1
      BY Zenon
    <3>1. CASE \E i \in C : x = X(ServerIds[i])
      BY <1>11, <1>12, <3>1
    <3>2. CASE ~\E i \in C : x = X(ServerIds[i])
      <4>1. Unsent(x)' <=> Unsent(x)
        BY <1>10, <3>2, Zenon
      <4> QED BY <1>11, <4>1 DEF OnePlace
    <3> QED BY <3>1, <3>2, Zenon
  <2> QED BY <2>1, Zenon DEF OnePlace
<1>14. \A x : Open(x)' <=> Open(x) \/ \E i \in C : x = X(ServerIds[i])
  BY <1>10, <1>11, Zenon DEF Open
<1>15. ASSUME NEW v \in Workers, NEW b \in Apps, NEW i \in 1 .. Len(tracker[v][b])
       PROVE  Awaited(v, b, i)' = Awaited(v, b, i)
  <2>1. \A s, j : <<b, i - 1, v, s>> # X(ServerIds[j])
    <3>1. i - 1 # T \/ ~(v = w /\ b = a)
      BY <1>1, <1>15
    <3> QED BY <3>1, Zenon DEF X
  <2> QED BY <1>14, <2>1 DEF Awaited
<1>16. Awaited(w, a, T + 1)' = {ServerIds[i] : i \in C}
  <2>1. \A s : <<a, (T + 1) - 1, w, s>> = X(s)
    BY <1>4 DEF X
  <2>2. \A s, t : X(s) = X(t) => s = t
    BY Zenon DEF X
  <2>3. \A i \in C : ServerIds[i] \in Servers
    BY Constants, Zenon
  <2>4. \A s : Open(X(s))' <=> \E i \in C : s = ServerIds[i]
    BY <1>8, <1>14, <2>2, Zenon
  <2>5. Awaited(w, a, T + 1)' = {s \in Servers : Open(X(s))'}
    BY <2>1, Zenon DEF Awaited
  <2> QED BY <2>3, <2>4, <2>5
<1> QED BY <1>9, <1>13, <1>15, <1>16, Zenon

-----------------------------------------------------------------------------
(***************************************************************************)
(* What the steps preserve of the counts.                                  *)
(***************************************************************************)
\* Sets of servers, and sets of indices of servers, can be counted.
LEMMA ServersFinite ==
  ASSUME SetFacts
  PROVE  /\ \A S \in SUBSET Servers :
              Cardinality(S) \in Nat /\ (Cardinality(S) = 0 <=> S = {})
         /\ \A C \in SUBSET (1 .. NumServers) :
              /\ Cardinality(C) \in 0 .. NumServers
              /\ Cardinality({ServerIds[i] : i \in C}) <= Cardinality(C)
              /\ Cardinality(C) = 0 <=> C = {}
         /\ Cardinality(1 .. NumServers) = NumServers
  BY Zenon DEF SetFacts

\* A set of servers that shrinks is not larger.
LEMMA FewerServers ==
  ASSUME SetFacts, NEW S \in SUBSET Servers, NEW R \in SUBSET S
  PROVE  Cardinality(R) \in Nat /\ Cardinality(S) \in Nat /\ Cardinality(R) <= Cardinality(S)
<1>1. R \in SUBSET Servers
  BY Zenon
<1> QED BY <1>1, Zenon DEF SetFacts

\* The entries of tracker_ count.
LEMMA Trackers ==
  ASSUME Types, NEW w \in Workers, NEW a \in Apps
  PROVE  /\ Len(tracker[w][a]) \in Nat
         /\ \A i \in 1 .. Len(tracker[w][a]) :
              tracker[w][a][i].total \in Nat /\ tracker[w][a][i].count \in Nat
<1>1. tracker[w][a] \in Seq([total : Nat, count : Nat])
  BY Zenon DEF Types
<1>2. \A S : \A q \in Seq(S) : Len(q) \in Nat /\ \A i \in 1 .. Len(q) : q[i] \in S
  OBVIOUS
<1>3. /\ Len(tracker[w][a]) \in Nat
      /\ \A i \in 1 .. Len(tracker[w][a]) : tracker[w][a][i] \in [total : Nat, count : Nat]
  BY <1>1, <1>2, Zenon
<1> QED BY <1>1, <1>3, Zenon

\* A bound on three counts survives when the last two do not grow.
LEMMA FewerCounted ==
  ASSUME NEW c \in Nat, NEW h \in Nat, NEW k \in Nat, NEW h2 \in Nat, NEW k2 \in Nat,
         NEW n \in Nat, c + h + k <= n, h2 = h \/ h2 <= h, k2 <= k
  PROVE  c + h2 + k2 <= n
OBVIOUS

\* Nothing is counted and no exchange is opened.
LEMMA CountedSame ==
  ASSUME SetFacts, Types, Counted, UNCHANGED <<tracker, handled>>, \A x : Open(x)' => Open(x)
  PROVE  Counted'
<1> SUFFICES ASSUME NEW w \in Workers, NEW a \in Apps
             PROVE  /\ handled'[w][a] # None => handled'[w][a] \in 1 .. Len(tracker'[w][a])
                    /\ \A i \in 1 .. Len(tracker'[w][a]) :
                         /\ tracker'[w][a][i].total = NumServers
                         /\ tracker'[w][a][i].count + HandledNow(w, a, i)'
                              + Cardinality(Awaited(w, a, i)') <= NumServers
  BY Zenon DEF Counted
<1>1. ASSUME NEW i \in 1 .. Len(tracker[w][a])
      PROVE  /\ tracker[w][a][i].total = NumServers
             /\ tracker[w][a][i].count + HandledNow(w, a, i)'
                  + Cardinality(Awaited(w, a, i)') <= NumServers
  <2>1. Awaited(w, a, i)' \in SUBSET Awaited(w, a, i) /\ Awaited(w, a, i) \in SUBSET Servers
    BY Zenon DEF Awaited
  <2>2. /\ Cardinality(Awaited(w, a, i)') \in Nat /\ Cardinality(Awaited(w, a, i)) \in Nat
        /\ Cardinality(Awaited(w, a, i)') <= Cardinality(Awaited(w, a, i))
    BY <2>1, FewerServers, Zenon
  <2>3. HandledNow(w, a, i)' = HandledNow(w, a, i) /\ HandledNow(w, a, i) \in Nat
    BY Zenon DEF HandledNow
  <2>4. tracker[w][a][i].count \in Nat
    BY Trackers, Zenon
  <2>5. /\ tracker[w][a][i].total = NumServers
        /\ tracker[w][a][i].count + HandledNow(w, a, i) + Cardinality(Awaited(w, a, i))
             <= NumServers
    BY Zenon DEF Counted
  <2>6. /\ HandledNow(w, a, i)' \in Nat /\ NumServers \in Nat
        /\ HandledNow(w, a, i)' = HandledNow(w, a, i) \/ HandledNow(w, a, i)' <= HandledNow(w, a, i)
    BY <2>3, Constants, Zenon
  <2> QED BY <2>2, <2>3, <2>4, <2>5, <2>6, FewerCounted, Zenon
<1>2. handled[w][a] # None => handled[w][a] \in 1 .. Len(tracker[w][a])
  BY Zenon DEF Counted
<1> QED BY <1>1, <1>2, Zenon

\* No request changes.
LEMMA CalledSame ==
  ASSUME Called, UNCHANGED <<tracker, request, handled>>
  PROVE  Called'
  BY DEF Called, HandledNow

\* No worker changes its applications.
LEMMA LeftSame ==
  ASSUME Left, UNCHANGED tracker, \A w \in Workers : app'[w] = app[w]
  PROVE  Left'
  BY DEF Left

\* A step that moves a message, and neither opens an exchange nor counts.
LEMMA OnlyMoves ==
  ASSUME SetFacts, IInv, UNCHANGED <<tracker, request, handled, app>>, DOMAIN outbox' = Workers,
         Mail', OnePlace', QueueTypes', \A x : Open(x)' => Open(x)
  PROVE  IInv'
<1>1. Types'
  BY Zenon DEF Types, IInv
<1>2. Counted'
  BY CountedSame, Zenon DEF IInv
<1>3. Called' /\ Left'
  BY CalledSame, LeftSame, Zenon DEF IInv
<1> QED BY <1>1, <1>2, <1>3, Zenon DEF IInv

\* A node other than a worker gets on with an application; messages may be lost.
LEMMA OnServers ==
  ASSUME SetFacts, IInv, NEW n \in Nodes, n \notin Workers, NEW st \in [Apps -> AppStates],
         AppOnly(n, st), Mail', OnePlace', QueueTypes', \A x : Open(x)' => Open(x)
  PROVE  IInv'
<1>1. /\ UNCHANGED <<tracker, request, outbox, handled>>
      /\ app' = [app EXCEPT ![n] = st]
  BY Zenon DEF AppOnly
<1>2. Types'
  BY <1>1, Zenon DEF Types, IInv
<1>3. Counted'
  BY <1>1, CountedSame, Zenon DEF IInv
<1>4. \A w \in Workers : app'[w] = app[w]
  BY <1>1, Constants, Zenon DEF Types, IInv
<1>5. Called' /\ Left'
  BY <1>1, <1>4, CalledSame, LeftSame, Zenon DEF IInv
<1> QED BY <1>2, <1>3, <1>5, Zenon DEF IInv

-----------------------------------------------------------------------------
(***************************************************************************)
(* The steps of the applications and of the Van.                           *)
(***************************************************************************)
\* SendNext: a message leaves the user thread.
LEMMA SendNextInv ==
  ASSUME SetFacts, IInv, NEW w \in Workers, SendNext(w)
  PROVE  IInv'
<1>1. Mail' /\ OnePlace' /\ \A x : Open(x)' <=> Open(x)
  BY MailSent, Zenon DEF IInv
<1>2. /\ UNCHANGED <<tracker, request, handled, app, recv_queue>> /\ DOMAIN outbox' = Workers
  BY Zenon DEF SendNext, IInv, Types
<1>3. QueueTypes'
  BY <1>2, Zenon DEF QueueTypes, IInv, Types
<1> QED BY <1>1, <1>2, <1>3, OnlyMoves, Zenon

\* Arrive: a message reaches the queue of its Customer.
LEMMA ArriveInv ==
  ASSUME SetFacts, IInv, NEW m \in transit, Arrive(m)
  PROVE  IInv'
<1>1. Deliver(m) /\ UNCHANGED <<tracker, request, outbox, handled, app>>
  BY Zenon DEF Arrive
<1>2. Mail' /\ OnePlace' /\ QueueTypes' /\ \A x : Open(x)' <=> Open(x)
  BY <1>1, MailArrived, Zenon DEF IInv
<1>3. DOMAIN outbox' = Workers
  BY <1>1, Zenon DEF IInv, Types
<1> QED BY <1>1, <1>2, <1>3, OnlyMoves, Zenon

\* A server answers a request with whatever it has to say.
LEMMA AnswerInv ==
  ASSUME SetFacts, IInv, NEW s \in Servers, NEW a \in Apps, NEW res, Pop(s, a),
         Send(Response(Head(recv_queue[s][a]), res)),
         UNCHANGED <<tracker, request, outbox, handled, app>>
  PROVE  IInv'
<1>1. Mail' /\ OnePlace' /\ QueueTypes' /\ \A x : Open(x)' <=> Open(x)
  BY MailAnswered, Zenon DEF IInv
<1>2. DOMAIN outbox' = Workers
  BY Zenon DEF IInv, Types
<1> QED BY <1>1, <1>2, OnlyMoves, Zenon

\* KVServerProcess: the store changes and the request is answered.
LEMMA KVServerProcessInv ==
  ASSUME SetFacts, IInv, NEW s \in Servers, KVServerProcess(s)
  PROVE  IInv'
<1> DEFINE res == KVServerDefaultHandle(store[s], Head(recv_queue[s][KvAppId])).res
<1>1. /\ Pop(s, KvAppId) /\ Send(Response(Head(recv_queue[s][KvAppId]), res))
      /\ UNCHANGED <<tracker, request, outbox, handled, app>>
  BY Zenon DEF KVServerProcess
<1> HIDE DEF res
<1> QED BY <1>1, AnswerInv, Constants, Zenon

\* A step of the user on an application, when no message moves.
LEMMA AppQuiet ==
  ASSUME IInv, UNCHANGED <<tracker, outbox, transit, recv_queue>>
  PROVE  Mail' /\ OnePlace' /\ QueueTypes' /\ \A x : Open(x)' => Open(x)
<1>1. Mail' /\ OnePlace' /\ \A x : Open(x)' <=> Open(x)
  BY SameMail, Zenon DEF IInv
<1>2. QueueTypes'
  BY Zenon DEF QueueTypes, IInv, Types
<1> QED BY <1>1, <1>2, Zenon

\* The constructor of an application, which only a server has still to make.
LEMMA CustomerInv ==
  ASSUME SetFacts, IInv, NEW n \in Nodes, NEW a \in Apps, Customer(n, a)
  PROVE  IInv'
<1> DEFINE st == [app[n] EXCEPT ![a] = "registered"]
<1>1. app[n][a] = "none" /\ AppOnly(n, st) /\ UNCHANGED <<tracker, outbox, transit, recv_queue>>
  BY Zenon DEF Customer, AddCustomer, AppOnly
<1>2. n \notin Workers
  BY <1>1, Zenon DEF IInv, Left
<1>3. st \in [Apps -> AppStates]
  BY Zenon DEF IInv, Types, AppStates
<1> HIDE DEF st
<1>4. Mail' /\ OnePlace' /\ QueueTypes' /\ \A x : Open(x)' => Open(x)
  BY <1>1, AppQuiet, Zenon
<1> QED BY <1>1, <1>2, <1>3, <1>4, OnServers, Zenon

\* The user has the pointer and sets the handle.
LEMMA SetHandleInv ==
  ASSUME SetFacts, IInv, NEW n \in Nodes, NEW a \in Apps, set_request_handle(n, a)
  PROVE  IInv'
<1> DEFINE st == [app[n] EXCEPT ![a] = "ready"]
<1>1. /\ app[n][a] = "registered" /\ AppOnly(n, st)
      /\ UNCHANGED <<tracker, outbox, transit, recv_queue>>
  BY Zenon DEF set_request_handle, AppOnly
<1>2. n \notin Workers
  BY <1>1, Zenon DEF IInv, Left
<1>3. st \in [Apps -> AppStates]
  BY Zenon DEF IInv, Types, AppStates
<1> HIDE DEF st
<1>4. Mail' /\ OnePlace' /\ QueueTypes' /\ \A x : Open(x)' => Open(x)
  BY <1>1, AppQuiet, Zenon
<1> QED BY <1>1, <1>2, <1>3, <1>4, OnServers, Zenon

\* A server that is not ready aborts; what it had in its hands is lost.
LEMMA ProcessUnreadyInv ==
  ASSUME SetFacts, IInv, NEW n \in Nodes, NEW a \in Apps, ProcessUnready(n, a)
  PROVE  IInv'
<1> DEFINE st == [b \in Apps |-> "aborted"]
<1>1. /\ app[n][a] = "registered" /\ AppOnly(n, st) /\ Pop(n, a)
      /\ UNCHANGED <<tracker, outbox, transit>>
  BY Zenon DEF ProcessUnready, Abort, AppOnly
<1>2. n \notin Workers
  BY <1>1, Zenon DEF IInv, Left
<1>3. st \in [Apps -> AppStates]
  BY Zenon DEF AppStates
<1> HIDE DEF st
<1>4. Mail' /\ OnePlace' /\ QueueTypes' /\ \A x : Open(x)' => Open(x)
  BY <1>1, MailTaken, Zenon DEF IInv
<1> QED BY <1>1, <1>2, <1>3, <1>4, OnServers, Zenon

-----------------------------------------------------------------------------
(***************************************************************************)
(* The steps of a worker's Customer.                                       *)
(***************************************************************************)
Replaces(p, q, i, z) == p = [q EXCEPT ![i] = z]

\* Changing one element of a queue.
LEMMA QueueExcept ==
  ASSUME NEW q, IsQueue(q), NEW i, NEW z, NEW p, Replaces(p, q, i, z)
  PROVE  /\ IsQueue(p) /\ Len(p) = Len(q) /\ Len(q) \in Nat
         /\ \A k \in 1 .. Len(q) : p[k] = IF k = i THEN z ELSE q[k]
<1>1. PICK S : q \in Seq(S)
  BY Zenon DEF IsQueue
<1>2. q \in Seq(S \cup {z}) /\ Len(q) \in Nat /\ DOMAIN q = 1 .. Len(q)
  BY <1>1
<1>3. /\ p = [k \in 1 .. Len(q) |-> p[k]]
      /\ \A k \in 1 .. Len(q) : p[k] = IF k = i THEN z ELSE q[k]
  BY <1>2, Zenon DEF Replaces
<1>4. \A k \in 1 .. Len(q) : q[k] \in S
  BY <1>1
<1>5. p \in [1 .. Len(q) -> S \cup {z}]
  BY <1>3, <1>4, Zenon
<1>6. p \in Seq(S \cup {z}) /\ Len(p) = Len(q)
  BY <1>2, <1>5
<1> QED BY <1>2, <1>3, <1>6, Zenon DEF IsQueue

\* A callback counts itself and leaves alone whether the user has waited.
LEMMA RunCallbackIs ==
  ASSUME NEW r, NEW kvs, DOMAIN r = ReqFields, r.calls \in Nat
  PROVE  LET c == RunCallback(r, kvs)
         IN DOMAIN c = ReqFields /\ c.calls = r.calls + 1 /\ c.waited = r.waited
<1>1. CASE r.push
  BY <1>1, Zenon DEF RunCallback, ReqFields
<1>2. CASE ~r.push
  BY <1>2, Zenon DEF RunCallback, PullCallback, ReqFields
<1> QED BY <1>1, <1>2, Zenon

\* The first message in the queue answers request i; i is the request handled.
Heads(w, a, i) == i = Head(recv_queue[w][a]).timestamp + 1
Handles(w, a, i) == handled' = [handled EXCEPT ![w][a] = i]

\* What a worker takes out of its queue is the response of a server it awaits.
LEMMA ResponseTaken ==
  ASSUME SetFacts, IInv, NEW w \in Workers, NEW a \in Apps, Pop(w, a),
         UNCHANGED <<tracker, outbox, transit>>,
         NEW m, m = Head(recv_queue[w][a]), NEW i, Heads(w, a, i)
  PROVE  /\ Mail' /\ OnePlace' /\ QueueTypes' /\ ~m.request
         /\ i \in 1 .. Len(tracker[w][a])
         /\ Cardinality(Awaited(w, a, i)) \in Nat
         /\ Cardinality(Awaited(w, a, i)') = Cardinality(Awaited(w, a, i)) - 1
         /\ \A x : Open(x)' => Open(x)
<1>1. /\ Mail' /\ OnePlace' /\ QueueTypes'
      /\ Fit(m, tracker) /\ ForCustomer(m, w, a) /\ Open(Exchange(m))
      /\ \A x : Open(x)' <=> Open(x) /\ x # Exchange(m)
  BY MailTaken, Constants, Zenon DEF IInv
<1>2. /\ ~m.request /\ m.sender \in Servers /\ m.timestamp \in Nat
      /\ m.timestamp < Len(tracker[w][a]) /\ m.recver = w /\ m.app_id = a
  BY <1>1, Constants, Zenon DEF Fit, ForCustomer
<1>3. Exchange(m) = <<a, m.timestamp, w, m.sender>>
  BY <1>2, Zenon DEF Exchange
<1>4. i \in 1 .. Len(tracker[w][a]) /\ i - 1 = m.timestamp
  <2>1. i = m.timestamp + 1
    BY Zenon DEF Heads
  <2>2. m.timestamp \in Nat /\ m.timestamp < Len(tracker[w][a]) /\ Len(tracker[w][a]) \in Nat
    BY <1>2, Trackers, Zenon DEF IInv
  <2>3. \A t, n \in Nat : t < n => t + 1 \in 1 .. n /\ (t + 1) - 1 = t
    OBVIOUS
  <2> QED BY <2>1, <2>2, <2>3, Zenon
<1>5. /\ m.sender \in Awaited(w, a, i)
      /\ Awaited(w, a, i)' = Awaited(w, a, i) \ {m.sender}
      /\ Awaited(w, a, i) \in SUBSET Servers
  <2>1. Awaited(w, a, i) = {s \in Servers : Open(<<a, m.timestamp, w, s>>)}
    BY <1>4, Zenon DEF Awaited
  <2>2. Awaited(w, a, i)' = {s \in Servers : Open(<<a, m.timestamp, w, s>>)'}
    <3>1. \A j : Awaited(w, a, j)' = {s \in Servers : Open(<<a, j - 1, w, s>>)'}
      BY Zenon DEF Awaited
    <3> QED BY <1>4, <3>1, Zenon
  <2>3. \A s : <<a, m.timestamp, w, s>> = Exchange(m) <=> s = m.sender
    BY <1>3
  <2> QED BY <1>1, <1>2, <2>1, <2>2, <2>3, Zenon
<1>6. /\ Cardinality(Awaited(w, a, i)) \in Nat
      /\ Cardinality(Awaited(w, a, i)') = Cardinality(Awaited(w, a, i)) - 1
  <2>1. Cardinality(Awaited(w, a, i)) \in Nat
    BY <1>5, ServersFinite, Zenon
  <2>2. Cardinality(Awaited(w, a, i) \ {m.sender}) = Cardinality(Awaited(w, a, i)) - 1
    BY <1>5, Zenon DEF SetFacts
  <2> QED BY <1>5, <2>1, <2>2, Zenon
<1> QED BY <1>1, <1>2, <1>4, <1>6, Zenon

\* A response is handled: it was not counted, and one server less is awaited.
LEMMA HandledCounts ==
  ASSUME SetFacts, Types, Counted, NEW w \in Workers, NEW a \in Apps, handled[w][a] = None,
         NEW i \in 1 .. Len(tracker[w][a]), UNCHANGED tracker, Handles(w, a, i),
         Cardinality(Awaited(w, a, i)') = Cardinality(Awaited(w, a, i)) - 1,
         \A x : Open(x)' => Open(x)
  PROVE  /\ Counted' /\ tracker[w][a][i].count < NumServers
         /\ handled' \in [Workers -> [Apps -> Nat \cup {None}]]
         /\ handled'[w][a] = i
         /\ \A v \in Workers, b \in Apps : ~(v = w /\ b = a) => handled'[v][b] = handled[v][b]
<1>1. i \in Nat \ {0} /\ i # None /\ NumServers \in Nat
  BY Trackers, Constants
<1>2. handled \in [Workers -> [Apps -> Nat \cup {None}]]
  BY Zenon DEF Types
<1>3. /\ handled' \in [Workers -> [Apps -> Nat \cup {None}]] /\ handled'[w][a] = i
      /\ \A v \in Workers, b \in Apps : ~(v = w /\ b = a) => handled'[v][b] = handled[v][b]
  BY <1>1, <1>2, Zenon DEF Handles
<1>4. ASSUME NEW v \in Workers, NEW b \in Apps, NEW j \in 1 .. Len(tracker[v][b])
      PROVE  /\ tracker[v][b][j].total = NumServers
             /\ tracker[v][b][j].count + HandledNow(v, b, j)'
                  + Cardinality(Awaited(v, b, j)') <= NumServers
             /\ v = w /\ b = a /\ j = i => tracker[v][b][j].count < NumServers
  <2> DEFINE c == tracker[v][b][j].count
             h == HandledNow(v, b, j)
             k == Cardinality(Awaited(v, b, j))
  <2>1. /\ tracker[v][b][j].total = NumServers
        /\ c + h + k <= NumServers
    BY Zenon DEF Counted
  <2>2. c \in Nat
    BY Trackers, Zenon
  <2>3. Awaited(v, b, j)' \in SUBSET Awaited(v, b, j) /\ Awaited(v, b, j) \in SUBSET Servers
    BY Zenon DEF Awaited
  <2>4. k' \in Nat /\ k \in Nat /\ k' <= k
    BY <2>3, FewerServers, Zenon
  <2>5. CASE v = w /\ b = a /\ j = i
    <3>1. h' = 1 /\ h = 0
      BY <1>1, <1>3, <2>5, Zenon DEF HandledNow
    <3>2. k' = k - 1
      BY <2>5, Zenon
    <3> HIDE DEF c, h, k
    <3>3. c + h' + k' <= NumServers /\ c < NumServers
      BY <1>1, <2>1, <2>2, <2>4, <3>1, <3>2
    <3> QED BY <2>1, <3>3, Zenon DEF c, h, k
  <2>6. CASE ~(v = w /\ b = a /\ j = i)
    <3>1. (h' = h \/ h' <= h) /\ h' \in Nat /\ h \in Nat
      <4>1. h' = h \/ (h' = 0 /\ h = 1)
        BY <1>3, <2>6, Zenon DEF HandledNow
      <4>2. h = 0 \/ h = 1
        BY Zenon DEF HandledNow
      <4> HIDE DEF h
      <4> QED BY <4>1, <4>2
    <3> HIDE DEF c, h, k
    <3>2. c + h' + k' <= NumServers
      BY <1>1, <2>1, <2>2, <2>4, <3>1, FewerCounted, Constants, Zenon
    <3> QED BY <2>1, <2>6, <3>2, Zenon DEF c, h, k
  <2> QED BY <2>5, <2>6, Zenon
<1>5. ASSUME NEW v \in Workers, NEW b \in Apps, handled'[v][b] # None
      PROVE  handled'[v][b] \in 1 .. Len(tracker[v][b])
  BY <1>3, <1>5, Zenon DEF Counted
<1>6. Counted'
  BY <1>4, <1>5, Zenon DEF Counted
<1> QED BY <1>3, <1>4, <1>6, Zenon

\* The same, for the response at the head of a worker's queue.
LEMMA HandledInv ==
  ASSUME SetFacts, IInv, NEW w \in Workers, NEW a \in Apps, handled[w][a] = None, Pop(w, a),
         UNCHANGED <<tracker, outbox, transit, app>>,
         NEW i, Heads(w, a, i), Handles(w, a, i)
  PROVE  /\ Mail' /\ OnePlace' /\ QueueTypes' /\ Counted' /\ Left'
         /\ handled' \in [Workers -> [Apps -> Nat \cup {None}]]
         /\ i \in 1 .. Len(tracker[w][a]) /\ tracker[w][a][i].count < NumServers
         /\ handled'[w][a] = i
         /\ \A v \in Workers, b \in Apps : ~(v = w /\ b = a) => handled'[v][b] = handled[v][b]
<1>1. /\ Mail' /\ OnePlace' /\ QueueTypes' /\ i \in 1 .. Len(tracker[w][a])
      /\ Cardinality(Awaited(w, a, i)') = Cardinality(Awaited(w, a, i)) - 1
      /\ \A x : Open(x)' => Open(x)
  BY ResponseTaken, Zenon
<1>2. /\ Counted' /\ tracker[w][a][i].count < NumServers
      /\ handled' \in [Workers -> [Apps -> Nat \cup {None}]] /\ handled'[w][a] = i
      /\ \A v \in Workers, b \in Apps : ~(v = w /\ b = a) => handled'[v][b] = handled[v][b]
  <2>1. Types /\ Counted /\ UNCHANGED tracker
    BY Zenon DEF IInv
  <2> QED BY <1>1, <2>1, HandledCounts
<1>3. Left'
  BY LeftSame, Zenon DEF IInv
<1> QED BY <1>1, <1>2, <1>3, Zenon

\* SimpleProcess: a server answers, a worker notes the response.
LEMMA SimpleProcessInv ==
  ASSUME SetFacts, IInv, NEW n \in Nodes, SimpleProcess(n)
  PROVE  IInv'
<1> DEFINE a == SimpleAppId
           m == Head(recv_queue[n][a])
<1>1. /\ Pop(n, a) /\ UNCHANGED <<tracker, request, outbox, app>>
      /\ n \in Workers => handled[n][a] = None
      /\ \/ m.request /\ Send(Response(m, NoPairs)) /\ UNCHANGED handled
         \/ /\ ~m.request /\ handled' = [handled EXCEPT ![n][a] = m.timestamp + 1]
            /\ UNCHANGED transit
  BY Zenon DEF SimpleProcess, SimpleResponse
<1>2. Fit(m, tracker) /\ ForCustomer(m, n, a)
  BY <1>1, MailPopped, Constants, Zenon DEF IInv
<1>3. CASE n \in Servers
  <2>1. m.request
    <3>1. n \notin Workers
      BY <1>3, Constants, Zenon
    <3> QED BY <1>2, <3>1, Zenon DEF Fit, ForCustomer
  <2>2. Send(Response(Head(recv_queue[n][a]), NoPairs)) /\ UNCHANGED handled
    BY <1>1, <2>1, Zenon
  <2> QED BY <1>1, <1>3, <2>2, AnswerInv, Constants, Zenon
<1>4. CASE n \in Workers
  <2>1. ~m.request
    BY <1>2, <1>4, Constants, Zenon DEF Fit, ForCustomer
  <2>2. PICK i : i = m.timestamp + 1
    BY Zenon
  <2>3. Heads(n, a, i) /\ Handles(n, a, i) /\ UNCHANGED transit
    BY <1>1, <2>1, <2>2, Zenon DEF Heads, Handles
  <2>4. a \in Apps /\ handled[n][a] = None /\ UNCHANGED <<tracker, outbox, transit, app>>
    BY <1>1, <1>4, <2>3, Constants, Zenon
  <2> HIDE DEF a, m
  <2>5. /\ Mail' /\ OnePlace' /\ QueueTypes' /\ Counted' /\ Left'
        /\ handled' \in [Workers -> [Apps -> Nat \cup {None}]]
        /\ \A v \in Workers, b \in Apps : ~(v = n /\ b = a) => handled'[v][b] = handled[v][b]
    BY <1>1, <1>4, <2>3, <2>4, HandledInv
  <2>6. Types'
    BY <1>1, <2>5, Zenon DEF IInv, Types
  <2>7. \A v \in Workers : handled'[v][KvAppId] = handled[v][KvAppId]
    BY <2>5, Constants, Zenon DEF a
  <2>8. Called'
    BY <1>1, <2>7 DEF IInv, Called, HandledNow
  <2> QED BY <2>5, <2>6, <2>8, Zenon DEF IInv
<1> QED BY <1>3, <1>4, Constants, Zenon

\* KVWorkerProcess: the callback runs at the last response.
LEMMA KVWorkerProcessInv ==
  ASSUME SetFacts, IInv, NEW w \in Workers, KVWorkerProcess(w)
  PROVE  IInv'
<1> DEFINE a == KvAppId
           m == Head(recv_queue[w][a])
<1>1. PICK i, pulled :
        /\ Heads(w, a, i) /\ Handles(w, a, i)
        /\ request' = IF IsLastResponse(tracker[w][a][i])
                      THEN [request EXCEPT ![w][i] = RunCallback(request[w][i], pulled)]
                      ELSE request
  BY Zenon DEF KVWorkerProcess, Heads, Handles
<1>2. /\ handled[w][a] = None /\ Pop(w, a) /\ UNCHANGED <<tracker, outbox, transit, app>>
      /\ a \in Apps
  BY Constants, Zenon DEF KVWorkerProcess
<1> HIDE DEF a, m
<1>3. /\ Mail' /\ OnePlace' /\ QueueTypes' /\ Counted' /\ Left'
      /\ handled' \in [Workers -> [Apps -> Nat \cup {None}]]
      /\ i \in 1 .. Len(tracker[w][a]) /\ tracker[w][a][i].count < NumServers
      /\ handled'[w][a] = i
      /\ \A v \in Workers, b \in Apps : ~(v = w /\ b = a) => handled'[v][b] = handled[v][b]
  BY <1>1, <1>2, HandledInv
<1>4. /\ DOMAIN request = Workers
      /\ \A v \in Workers : IsQueue(request[v]) /\ Len(request[v]) = Len(tracker[v][a])
  BY Zenon DEF IInv, Types, a
<1>5. /\ DOMAIN request' = Workers
      /\ \A v \in Workers : v # w => request'[v] = request[v]
      /\ request'[w] = IF IsLastResponse(tracker[w][a][i])
                       THEN [request[w] EXCEPT ![i] = RunCallback(request[w][i], pulled)]
                       ELSE request[w]
  BY <1>1, <1>4, Zenon
<1>6. /\ \A v \in Workers : IsQueue(request'[v]) /\ Len(request'[v]) = Len(tracker[v][a])
      /\ \A j \in 1 .. Len(tracker[w][a]) :
           request'[w][j] = IF j = i /\ IsLastResponse(tracker[w][a][i])
                            THEN RunCallback(request[w][i], pulled) ELSE request[w][j]
  <2> DEFINE z == RunCallback(request[w][i], pulled)
  <2> HIDE DEF z
  <2>1. ASSUME request'[w] = [request[w] EXCEPT ![i] = z]
        PROVE  /\ IsQueue(request'[w]) /\ Len(request'[w]) = Len(request[w])
               /\ \A k \in 1 .. Len(request[w]) :
                    request'[w][k] = IF k = i THEN z ELSE request[w][k]
    <3>1. IsQueue(request[w])
      BY <1>4, Zenon
    <3>2. Replaces(request'[w], request[w], i, z)
      BY <2>1, Zenon DEF Replaces
    <3> QED BY <3>1, <3>2, QueueExcept
  <2>2. CASE IsLastResponse(tracker[w][a][i])
    <3>1. request'[w] = [request[w] EXCEPT ![i] = z]
      BY <1>5, <2>2, Zenon DEF z
    <3> QED BY <1>4, <1>5, <2>1, <2>2, <3>1, Zenon DEF z
  <2>3. CASE ~IsLastResponse(tracker[w][a][i])
    BY <1>4, <1>5, <2>3, Zenon
  <2> QED BY <2>2, <2>3, Zenon
<1>7. Types'
  BY <1>2, <1>3, <1>5, <1>6, Zenon DEF IInv, Types, a
<1>8. ASSUME NEW v \in Workers, NEW j \in 1 .. Len(tracker[v][a])
      PROVE  LET r == request'[v][j]  t == tracker[v][a][j]
             IN /\ DOMAIN r = ReqFields /\ r.calls \in Nat
                /\ r.calls = IF t.count + HandledNow(v, a, j)' = NumServers THEN 1 ELSE 0
                /\ r.waited => t.count = NumServers
  <2> DEFINE r == request[v][j]
             t == tracker[v][a][j]
  <2>1. /\ DOMAIN r = ReqFields /\ r.calls \in Nat
        /\ r.calls = IF t.count + HandledNow(v, a, j) = NumServers THEN 1 ELSE 0
        /\ r.waited => t.count = NumServers
    BY <1>4, Zenon DEF IInv, Called, a
  <2>2. t.count \in Nat /\ NumServers \in Nat /\ i # None
    BY <1>2, <1>3, Trackers, Constants DEF IInv
  <2>3. CASE v = w /\ j = i
    <3>1. HandledNow(v, a, j) = 0 /\ HandledNow(v, a, j)' = 1
      BY <1>2, <1>3, <2>2, <2>3, Zenon DEF HandledNow
    <3>2. r.calls = 0 /\ ~r.waited
      BY <1>3, <2>1, <2>2, <2>3, <3>1
    <3>3. CASE t.count = NumServers - 1
      <4>1. request'[v][j] = RunCallback(r, pulled)
        BY <1>6, <2>3, <3>3, Zenon DEF IsLastResponse, NumResponse
      <4>2. /\ DOMAIN RunCallback(r, pulled) = ReqFields
            /\ RunCallback(r, pulled).calls = 1 /\ RunCallback(r, pulled).waited = r.waited
        BY <2>1, <3>2, RunCallbackIs
      <4> HIDE DEF r, t
      <4> QED BY <2>2, <3>1, <3>2, <3>3, <4>1, <4>2, SMTT(30) DEF t
    <3>4. CASE t.count # NumServers - 1
      <4>1. request'[v][j] = r
        BY <1>6, <2>3, <3>4, Zenon DEF IsLastResponse, NumResponse
      <4> HIDE DEF r, t
      <4> QED BY <2>1, <2>2, <3>1, <3>2, <3>4, <4>1 DEF t
    <3> QED BY <3>3, <3>4, Zenon
  <2>4. CASE ~(v = w /\ j = i)
    <3>1. request'[v][j] = r
      BY <1>4, <1>5, <1>6, <2>4, Zenon
    <3>2. HandledNow(v, a, j)' = HandledNow(v, a, j)
      BY <1>2, <1>3, <2>2, <2>4, Constants DEF HandledNow
    <3> QED BY <2>1, <3>1, <3>2, Zenon
  <2> QED BY <2>3, <2>4, Zenon
<1>9. Called'
  BY <1>2, <1>6, <1>8, Zenon DEF Called, a
<1> QED BY <1>3, <1>7, <1>9, Zenon DEF IInv

\* Neither the messages nor the number of requests change.
LEMMA SameMade ==
  ASSUME Mail, OnePlace, UNCHANGED <<outbox, transit, recv_queue>>,
         \A v \in Workers, b \in Apps : Len(tracker'[v][b]) = Len(tracker[v][b])
  PROVE  Mail' /\ OnePlace' /\ \A x : Open(x)' <=> Open(x)
<1>1. \A m : Fit(m, tracker) => Fit(m, tracker')
  BY Zenon DEF Fit
<1>2. Mail'
  BY <1>1, Zenon DEF Mail
<1>3. \A x : /\ Unsent(x)' <=> Unsent(x)
             /\ Moving(x)' <=> Moving(x)
             /\ \A n, b : Queued(n, b, x)' <=> Queued(n, b, x)
  BY Zenon DEF Unsent, Moving, Queued
<1>4. OnePlace'
  BY <1>3 DEF OnePlace
<1>5. \A x : Open(x)' <=> Open(x)
  BY <1>3, Zenon DEF Open
<1> QED BY <1>2, <1>4, <1>5, Zenon

\* CountResponse: the response that was handled is counted.
LEMMA CountResponseInv ==
  ASSUME SetFacts, IInv, NEW w \in Workers, NEW a \in Apps, CountResponse(w, a)
  PROVE  IInv'
<1>1. PICK i : i = handled[w][a]
  BY Zenon
<1>2. /\ i # None /\ UNCHANGED <<request, outbox, app, transit, recv_queue>>
      /\ tracker' = [tracker EXCEPT ![w][a][i].count = @ + 1]
      /\ handled' = [handled EXCEPT ![w][a] = None]
  BY <1>1, Zenon DEF CountResponse
<1>3. /\ i \in 1 .. Len(tracker[w][a])
      /\ tracker \in [Workers -> [Apps -> Seq([total : Nat, count : Nat])]]
      /\ handled \in [Workers -> [Apps -> Nat \cup {None}]]
  BY <1>1, <1>2, Zenon DEF IInv, Counted, Types
<1>4. /\ handled' \in [Workers -> [Apps -> Nat \cup {None}]] /\ handled'[w][a] = None
      /\ \A v \in Workers, b \in Apps : ~(v = w /\ b = a) => handled'[v][b] = handled[v][b]
  BY <1>2, <1>3, Zenon
<1>5. /\ tracker' \in [Workers -> [Apps -> Seq([total : Nat, count : Nat])]]
      /\ \A v \in Workers, b \in Apps : Len(tracker'[v][b]) = Len(tracker[v][b])
      /\ \A v \in Workers, b \in Apps : \A j \in 1 .. Len(tracker[v][b]) :
           /\ tracker'[v][b][j].total = tracker[v][b][j].total
           /\ tracker'[v][b][j].count
                = IF v = w /\ b = a /\ j = i THEN tracker[v][b][j].count + 1
                                             ELSE tracker[v][b][j].count
  <2> DEFINE R == [total : Nat, count : Nat]
             q == tracker[w][a]
             z == [q[i] EXCEPT !.count = @ + 1]
             p == [q EXCEPT ![i] = z]
  <2>1. q \in Seq(R) /\ q[i] \in R /\ i \in 1 .. Len(q)
    <3>1. q \in Seq(R) /\ i \in 1 .. Len(q)
      BY <1>3, Zenon
    <3>2. \A S : \A s \in Seq(S) : \A k \in 1 .. Len(s) : s[k] \in S
      OBVIOUS
    <3> QED BY <3>1, <3>2, Zenon
  <2>2. z \in R /\ z.total = q[i].total /\ z.count = q[i].count + 1
    <3>1. \A e \in R : /\ [e EXCEPT !.count = e.count + 1] \in R
                       /\ [e EXCEPT !.count = e.count + 1].total = e.total
                       /\ [e EXCEPT !.count = e.count + 1].count = e.count + 1
      OBVIOUS
    <3> QED BY <2>1, <3>1, Zenon
  <2>3. tracker' = [tracker EXCEPT ![w] = [tracker[w] EXCEPT ![a] = p]]
    BY <1>2, Zenon
  <2> HIDE DEF R, z
  <2>4. p \in Seq(R) /\ Len(p) = Len(q)
        /\ \A k \in 1 .. Len(q) : p[k] = IF k = i THEN z ELSE q[k]
    BY <2>1, <2>2
  <2> HIDE DEF p
  <2>5. tracker \in [Workers -> [Apps -> Seq(R)]]
    BY <1>3, Zenon DEF R
  <2>6. /\ tracker' \in [Workers -> [Apps -> Seq(R)]] /\ tracker'[w][a] = p
        /\ \A v \in Workers, b \in Apps : ~(v = w /\ b = a) => tracker'[v][b] = tracker[v][b]
    BY <2>3, <2>4, <2>5, Zenon
  <2>7. \A v \in Workers, b \in Apps : Len(tracker'[v][b]) = Len(tracker[v][b])
    BY <2>4, <2>6, Zenon
  <2>8. ASSUME NEW v \in Workers, NEW b \in Apps, NEW j \in 1 .. Len(tracker[v][b])
        PROVE  /\ tracker'[v][b][j].total = tracker[v][b][j].total
               /\ tracker'[v][b][j].count
                    = IF v = w /\ b = a /\ j = i THEN tracker[v][b][j].count + 1
                                                 ELSE tracker[v][b][j].count
    <3>1. CASE v = w /\ b = a /\ j = i
      BY <2>2, <2>4, <2>6, <3>1, Zenon
    <3>2. CASE v = w /\ b = a /\ j # i
      BY <2>4, <2>6, <3>2, Zenon
    <3>3. CASE ~(v = w /\ b = a)
      BY <2>6, <3>3, Zenon
    <3> QED BY <3>1, <3>2, <3>3, Zenon
  <2> QED BY <2>6, <2>7, <2>8, Zenon DEF R
<1>6. Mail' /\ OnePlace' /\ \A x : Open(x)' <=> Open(x)
  BY <1>2, <1>5, SameMade, Zenon DEF IInv
<1>7. Types'
  <2>1. UNCHANGED <<app, outbox, recv_queue, request>>
    BY <1>2, Zenon
  <2>2. \A v \in Workers : IsQueue(request'[v]) /\ Len(request'[v]) = Len(tracker'[v][KvAppId])
    BY <1>5, <2>1, Constants, Zenon DEF IInv, Types
  <2>3. QueueTypes' /\ DOMAIN outbox' = Workers /\ DOMAIN request' = Workers
    BY <2>1, Zenon DEF IInv, Types, QueueTypes
  <2>4. /\ tracker' \in [Workers -> [Apps -> Seq([total : Nat, count : Nat])]]
        /\ handled' \in [Workers -> [Apps -> Nat \cup {None}]]
        /\ app' \in [Nodes -> [Apps -> AppStates]]
    BY <1>4, <1>5, <2>1, Zenon DEF IInv, Types
  <2> QED BY <2>2, <2>3, <2>4, Zenon DEF Types
<1>8. ASSUME NEW v \in Workers, NEW b \in Apps, NEW j \in 1 .. Len(tracker[v][b])
      PROVE  /\ tracker'[v][b][j].count + HandledNow(v, b, j)'
                  = tracker[v][b][j].count + HandledNow(v, b, j)
             /\ tracker[v][b][j].count = NumServers => tracker'[v][b][j].count = NumServers
             /\ tracker'[v][b][j].total = NumServers
             /\ tracker'[v][b][j].count + HandledNow(v, b, j)'
                  + Cardinality(Awaited(v, b, j)') <= NumServers
  <2> DEFINE c == tracker[v][b][j].count
             h == HandledNow(v, b, j)
             k == Cardinality(Awaited(v, b, j))
  <2>1. /\ tracker[v][b][j].total = NumServers /\ c + h + k <= NumServers
    BY Zenon DEF IInv, Counted
  <2>2. c \in Nat /\ NumServers \in Nat /\ j \in Nat /\ j # None
    BY Trackers, Constants DEF IInv
  <2>3. Awaited(v, b, j)' = Awaited(v, b, j) /\ Awaited(v, b, j) \in SUBSET Servers
    BY <1>6, Zenon DEF Awaited
  <2>4. k' = k /\ k \in Nat
    BY <2>3, ServersFinite, Zenon
  <2>5. /\ tracker'[v][b][j].total = tracker[v][b][j].total
        /\ c' = IF v = w /\ b = a /\ j = i THEN c + 1 ELSE c
    BY <1>5, Zenon
  <2>6. c' + h' = c + h /\ h \in Nat /\ h' \in Nat /\ (c = NumServers => c' = NumServers)
    <3>1. CASE v = w /\ b = a /\ j = i
      <4>1. h = 1 /\ h' = 0
        BY <1>1, <1>4, <2>2, <3>1, Zenon DEF HandledNow
      <4> HIDE DEF c, h, k
      <4> QED BY <2>1, <2>2, <2>4, <2>5, <3>1, <4>1
    <3>2. CASE ~(v = w /\ b = a /\ j = i)
      <4>1. h = h' /\ h \in Nat
        BY <1>1, <1>4, <2>2, <3>2, Zenon DEF HandledNow
      <4> HIDE DEF c, h, k
      <4> QED BY <2>2, <2>5, <3>2, <4>1, Zenon
    <3> QED BY <3>1, <3>2, Zenon
  <2>7. c' \in Nat
    BY <2>2, <2>5
  <2> HIDE DEF c, h, k
  <2>8. c' + h' = c + h /\ c' + h' + k' <= NumServers
    <3>1. c' + h' = c + h
      BY <2>6, Zenon
    <3> QED BY <2>1, <2>4, <3>1, Zenon
  <2> QED BY <2>1, <2>5, <2>6, <2>8, Zenon DEF c, h, k
<1>9. Counted'
  <2>1. ASSUME NEW v \in Workers, NEW b \in Apps, handled'[v][b] # None
        PROVE  handled'[v][b] \in 1 .. Len(tracker'[v][b])
    <3>1. handled'[v][b] = handled[v][b]
      BY <1>4, <2>1, Zenon
    <3>2. handled[v][b] # None => handled[v][b] \in 1 .. Len(tracker[v][b])
      BY Zenon DEF IInv, Counted
    <3> QED BY <1>5, <2>1, <3>1, <3>2, Zenon
  <2>2. ASSUME NEW v \in Workers, NEW b \in Apps, NEW j \in 1 .. Len(tracker'[v][b])
        PROVE  /\ tracker'[v][b][j].total = NumServers
               /\ tracker'[v][b][j].count + HandledNow(v, b, j)'
                    + Cardinality(Awaited(v, b, j)') <= NumServers
    <3>1. j \in 1 .. Len(tracker[v][b])
      BY <1>5, Zenon
    <3> QED BY <1>8, <3>1, Zenon
  <2> QED BY <2>1, <2>2, Zenon DEF Counted
<1>10. Called'
  <2> SUFFICES ASSUME NEW v \in Workers, NEW j \in 1 .. Len(request[v])
               PROVE  LET r == request[v][j]  t == tracker'[v][KvAppId][j]
                      IN /\ DOMAIN r = ReqFields /\ r.calls \in Nat
                         /\ r.calls = IF t.count + HandledNow(v, KvAppId, j)' = NumServers
                                      THEN 1 ELSE 0
                         /\ r.waited => t.count = NumServers
    BY <1>2 DEF Called
  <2>1. j \in 1 .. Len(tracker[v][KvAppId]) /\ KvAppId \in Apps
    BY Constants, Zenon DEF IInv, Types
  <2>2. /\ tracker'[v][KvAppId][j].count + HandledNow(v, KvAppId, j)'
             = tracker[v][KvAppId][j].count + HandledNow(v, KvAppId, j)
        /\ tracker[v][KvAppId][j].count = NumServers => tracker'[v][KvAppId][j].count = NumServers
    BY <1>8, <2>1, Zenon
  <2>3. LET r == request[v][j]  t == tracker[v][KvAppId][j]
        IN /\ DOMAIN r = ReqFields /\ r.calls \in Nat
           /\ r.calls = IF t.count + HandledNow(v, KvAppId, j) = NumServers THEN 1 ELSE 0
           /\ r.waited => t.count = NumServers
    BY Zenon DEF IInv, Called
  <2> QED BY <2>2, <2>3, Zenon
<1>11. Left'
  <2>1. ASSUME NEW v \in Workers, NEW b \in Apps
        PROVE  /\ app[v][b] \in {"ready", "closing", "deleted"}
               /\ app[v][b] # "ready" => \A b2 \in Apps : \A j \in 1 .. Len(tracker[v][b2]) :
                                           tracker[v][b2][j].count = NumServers
    BY Zenon DEF IInv, Left
  <2>2. ASSUME NEW v \in Workers, NEW b \in Apps, app[v][b] # "ready",
               NEW b2 \in Apps, NEW j \in 1 .. Len(tracker'[v][b2])
        PROVE  tracker'[v][b2][j].count = NumServers
    <3>1. j \in 1 .. Len(tracker[v][b2])
      BY <1>5, Zenon
    <3> QED BY <1>8, <2>1, <2>2, <3>1, Zenon
  <2> QED BY <1>2, <2>1, <2>2, Zenon DEF Left
<1> QED BY <1>6, <1>7, <1>9, <1>10, <1>11, Zenon DEF IInv

-----------------------------------------------------------------------------
(***************************************************************************)
(* The steps of a worker's user thread.                                    *)
(***************************************************************************)
\* WaitRequest: all the responses are counted.
LEMMA WaitRequestInv ==
  ASSUME SetFacts, IInv, NEW w \in Workers, NEW i \in DOMAIN request[w], WaitRequest(w, i)
  PROVE  IInv'
<1> DEFINE z == [request[w][i] EXCEPT !.waited = TRUE]
<1>1. /\ tracker[w][KvAppId][i].total = tracker[w][KvAppId][i].count
      /\ request' = [request EXCEPT ![w] = [request[w] EXCEPT ![i] = z]]
      /\ UNCHANGED <<tracker, outbox, handled, app, transit, recv_queue>>
  BY Zenon DEF WaitRequest
<1>2. /\ DOMAIN request = Workers
      /\ \A v \in Workers : IsQueue(request[v]) /\ Len(request[v]) = Len(tracker[v][KvAppId])
  BY Zenon DEF IInv, Types
<1>3. i \in 1 .. Len(request[w]) /\ i \in 1 .. Len(tracker[w][KvAppId])
  BY <1>2 DEF IsQueue
<1>4. tracker[w][KvAppId][i].count = NumServers
  BY <1>1, <1>3, Constants DEF IInv, Counted
<1>5. /\ DOMAIN z = ReqFields /\ z.calls = request[w][i].calls
  BY <1>3 DEF IInv, Called, ReqFields
<1> HIDE DEF z
<1>6. /\ DOMAIN request' = Workers /\ request'[w] = [request[w] EXCEPT ![i] = z]
      /\ \A v \in Workers : v # w => request'[v] = request[v]
  BY <1>1, <1>2, Zenon
<1>7. /\ IsQueue(request'[w]) /\ Len(request'[w]) = Len(request[w])
      /\ \A k \in 1 .. Len(request[w]) : request'[w][k] = IF k = i THEN z ELSE request[w][k]
  <2>1. IsQueue(request[w])
    BY <1>2, Zenon
  <2>2. Replaces(request'[w], request[w], i, z)
    BY <1>6, Zenon DEF Replaces
  <2> QED BY <2>1, <2>2, QueueExcept
<1>8. Mail' /\ OnePlace' /\ QueueTypes' /\ \A x : Open(x)' => Open(x)
  BY <1>1, AppQuiet, Zenon
<1>9. Types'
  <2>1. \A v \in Workers : IsQueue(request'[v]) /\ Len(request'[v]) = Len(tracker[v][KvAppId])
    BY <1>2, <1>6, <1>7, Zenon
  <2> QED BY <1>1, <1>6, <1>8, <2>1, Zenon DEF IInv, Types
<1>10. Counted' /\ Left'
  BY <1>1, <1>8, CountedSame, LeftSame, Zenon DEF IInv
<1>11. Called'
  <2> SUFFICES ASSUME NEW v \in Workers, NEW j \in 1 .. Len(request'[v])
               PROVE  LET r == request'[v][j]  t == tracker[v][KvAppId][j]
                      IN /\ DOMAIN r = ReqFields /\ r.calls \in Nat
                         /\ r.calls = IF t.count + HandledNow(v, KvAppId, j) = NumServers
                                      THEN 1 ELSE 0
                         /\ r.waited => t.count = NumServers
    BY <1>1 DEF Called, HandledNow
  <2>1. j \in 1 .. Len(request[v])
    BY <1>6, <1>7, Zenon
  <2>2. LET r == request[v][j]  t == tracker[v][KvAppId][j]
        IN /\ DOMAIN r = ReqFields /\ r.calls \in Nat
           /\ r.calls = IF t.count + HandledNow(v, KvAppId, j) = NumServers THEN 1 ELSE 0
           /\ r.waited => t.count = NumServers
    BY <2>1, Zenon DEF IInv, Called
  <2>3. CASE v = w /\ j = i
    <3>1. request'[v][j] = z
      BY <1>7, <2>1, <2>3, Zenon
    <3> QED BY <1>4, <1>5, <2>2, <2>3, <3>1, Zenon
  <2>4. CASE ~(v = w /\ j = i)
    <3>1. request'[v][j] = request[v][j]
      BY <1>6, <1>7, <2>1, <2>4, Zenon
    <3> QED BY <2>2, <3>1, Zenon
  <2> QED BY <2>3, <2>4, Zenon
<1> QED BY <1>8, <1>9, <1>10, <1>11, Zenon DEF IInv

\* The new request itself, of timestamp T, with its messages f.
Makes(w, a, T, C, f) == /\ T = Len(tracker[w][a])
                        /\ tracker' = NewRequest(w, a, NumServers - Cardinality(C))
                        /\ outbox' = [outbox EXCEPT ![w] = f]

\* A new request: who is asked, and who counts as having answered, are together
\* as many as the servers.
LEMMA RequestMade ==
  ASSUME SetFacts, IInv, NEW w \in Workers, NEW a \in Apps, Idle(w),
         NEW T, NEW C \in SUBSET (1 .. NumServers), NEW f, Asks(f, w, a, T, C),
         Makes(w, a, T, C, f),
         UNCHANGED <<transit, recv_queue, handled, app>>
  PROVE  /\ tracker' \in [Workers -> [Apps -> Seq([total : Nat, count : Nat])]]
         /\ DOMAIN outbox' = Workers /\ QueueTypes' /\ Mail' /\ OnePlace' /\ Counted' /\ Left'
         /\ Len(tracker'[w][a]) = T + 1 /\ T \in Nat
         /\ tracker'[w][a][T + 1].count = NumServers - Cardinality(C)
         /\ HandledNow(w, a, T + 1)' = 0
         /\ \A v \in Workers, b \in Apps : ~(v = w /\ b = a) => tracker'[v][b] = tracker[v][b]
         /\ \A j \in 1 .. T : tracker'[w][a][j] = tracker[w][a][j]
<1> DEFINE R == [total : Nat, count : Nat]
           z == [total |-> NumServers, count |-> NumServers - Cardinality(C)]
<1>1. NumServers \in Nat /\ Cardinality(C) \in 0 .. NumServers
      /\ Cardinality({ServerIds[i] : i \in C}) <= Cardinality(C)
  BY Constants, ServersFinite, Zenon
<1>2. z \in R /\ z.total = NumServers /\ z.count = NumServers - Cardinality(C)
  BY <1>1, SMTT(30)
<1>3. tracker' = [tracker EXCEPT ![w] = [tracker[w] EXCEPT ![a] = Append(tracker[w][a], z)]]
  <2>1. AddResponse([total |-> NumServers, count |-> 0], NumServers - Cardinality(C)) = z
    BY <1>1 DEF AddResponse
  <2> QED BY <2>1, Zenon DEF NewRequest, Makes
<1> HIDE DEF R, z
<1>4. tracker \in [Workers -> [Apps -> Seq(R)]] /\ DOMAIN outbox = Workers /\ QueueTypes
  BY Zenon DEF IInv, Types, R
<1>5. /\ T \in Nat /\ Append(tracker[w][a], z) \in Seq(R) /\ Len(Append(tracker[w][a], z)) = T + 1
      /\ Append(tracker[w][a], z)[T + 1] = z
      /\ \A j \in 1 .. T : Append(tracker[w][a], z)[j] = tracker[w][a][j]
  <2>1. tracker[w][a] \in Seq(R) /\ T = Len(tracker[w][a])
    BY <1>4, Zenon DEF Makes
  <2> QED BY <1>2, <2>1
<1>6. /\ tracker' \in [Workers -> [Apps -> Seq(R)]]
      /\ Len(tracker'[w][a]) = T + 1 /\ tracker'[w][a][T + 1] = z
      /\ \A v \in Workers, b \in Apps : ~(v = w /\ b = a) => tracker'[v][b] = tracker[v][b]
      /\ \A j \in 1 .. T : tracker'[w][a][j] = tracker[w][a][j]
  <2> DEFINE p == Append(tracker[w][a], z)
  <2>1. p \in Seq(R) /\ tracker' = [tracker EXCEPT ![w] = [tracker[w] EXCEPT ![a] = p]]
    BY <1>3, <1>5, Zenon
  <2> HIDE DEF p
  <2>2. /\ tracker' \in [Workers -> [Apps -> Seq(R)]] /\ tracker'[w][a] = p
        /\ \A v \in Workers, b \in Apps : ~(v = w /\ b = a) => tracker'[v][b] = tracker[v][b]
    BY <1>4, <2>1, Zenon
  <2>3. Len(p) = T + 1 /\ p[T + 1] = z /\ \A j \in 1 .. T : p[j] = tracker[w][a][j]
    BY <1>5, Zenon DEF p
  <2> QED BY <2>2, <2>3, Zenon
<1>7. outbox[w] = <<>> /\ \A b \in Apps : app[w][b] = "ready"
  BY Zenon DEF Idle
<1>8. /\ Mail' /\ OnePlace'
      /\ \A v \in Workers, b \in Apps : \A i \in 1 .. Len(tracker[v][b]) :
           Awaited(v, b, i)' = Awaited(v, b, i)
      /\ Awaited(w, a, T + 1)' = {ServerIds[i] : i \in C}
  <2>1. Types /\ Mail /\ OnePlace /\ C \subseteq 1 .. NumServers
    BY Zenon DEF IInv
  <2>2. Posts(w, a, T, f)
    BY <1>6, <1>7, Zenon DEF Makes, Posts
  <2> QED BY <2>1, <2>2, MailMade, Zenon
<1>9. DOMAIN outbox' = Workers /\ QueueTypes'
  BY <1>4, Zenon DEF QueueTypes, Makes
<1>10. ASSUME NEW v \in Workers, NEW b \in Apps
       PROVE  handled[v][b] # None => handled[v][b] \in 1 .. Len(tracker[v][b])
  BY Zenon DEF IInv, Counted
<1>11. HandledNow(w, a, T + 1)' = 0
  <2>1. T + 1 # None /\ ~(T + 1 \in 1 .. T)
    BY <1>5, Constants
  <2>2. handled[w][a] # T + 1
    BY <1>10, <2>1, Zenon DEF Makes
  <2> QED BY <2>2, Zenon DEF HandledNow
<1>12. Counted'
  <2>1. ASSUME NEW v \in Workers, NEW b \in Apps, handled'[v][b] # None
        PROVE  handled'[v][b] \in 1 .. Len(tracker'[v][b])
    <3>1. handled[v][b] \in 1 .. Len(tracker[v][b])
      BY <1>10, <2>1, Zenon
    <3>2. Len(tracker[v][b]) \in Nat /\ Len(tracker'[v][b]) >= Len(tracker[v][b])
      <4>1. Len(tracker[v][b]) \in Nat
        BY Trackers, Zenon DEF IInv
      <4>2. \A n \in Nat : n + 1 >= n /\ n >= n
        OBVIOUS
      <4>3. CASE v = w /\ b = a
        BY <1>5, <1>6, <4>2, <4>3, Zenon DEF Makes
      <4>4. CASE ~(v = w /\ b = a)
        BY <1>6, <4>1, <4>2, <4>4, Zenon
      <4> QED BY <4>1, <4>3, <4>4, Zenon
    <3>3. Len(tracker'[v][b]) \in Nat
      BY <1>6
    <3>4. \A x, y \in Nat : y >= x => \A i \in 1 .. x : i \in 1 .. y
      OBVIOUS
    <3> QED BY <3>1, <3>2, <3>3, <3>4, Zenon
  <2>2. ASSUME NEW v \in Workers, NEW b \in Apps, NEW j \in 1 .. Len(tracker'[v][b])
        PROVE  /\ tracker'[v][b][j].total = NumServers
               /\ tracker'[v][b][j].count + HandledNow(v, b, j)'
                    + Cardinality(Awaited(v, b, j)') <= NumServers
    <3>1. CASE v = w /\ b = a /\ j = T + 1
      <4>1. tracker'[v][b][j] = z /\ HandledNow(v, b, j)' = 0
        BY <1>6, <1>11, <3>1, Zenon
      <4>2. Awaited(v, b, j)' = {ServerIds[i] : i \in C}
        BY <1>8, <3>1, Zenon
      <4>3. Cardinality(Awaited(v, b, j)') <= Cardinality(C)
            /\ Cardinality(Awaited(v, b, j)') \in Nat
        <5>1. Awaited(v, b, j)' \in SUBSET Servers
          BY Zenon DEF Awaited
        <5> QED BY <1>1, <4>2, <5>1, ServersFinite, Zenon
      <4> QED BY <1>1, <1>2, <4>1, <4>3
    <3>2. CASE ~(v = w /\ b = a /\ j = T + 1)
      <4>1. j \in 1 .. Len(tracker[v][b]) /\ tracker'[v][b][j] = tracker[v][b][j]
        <5>1. CASE v = w /\ b = a
          <6>1. j \in 1 .. T + 1 /\ j # T + 1 /\ T = Len(tracker[w][a])
            BY <1>6, <3>2, <5>1, Zenon DEF Makes
          <6>2. j \in 1 .. T
            BY <1>5, <6>1
          <6> QED BY <1>6, <5>1, <6>1, <6>2, Zenon
        <5>2. CASE ~(v = w /\ b = a)
          BY <1>6, <5>2, Zenon
        <5> QED BY <5>1, <5>2, Zenon
      <4>2. /\ tracker[v][b][j].total = NumServers
            /\ tracker[v][b][j].count + HandledNow(v, b, j) + Cardinality(Awaited(v, b, j))
                 <= NumServers
        BY <4>1, Zenon DEF IInv, Counted
      <4>3. Awaited(v, b, j)' = Awaited(v, b, j) /\ HandledNow(v, b, j)' = HandledNow(v, b, j)
        BY <1>8, <4>1, Zenon DEF HandledNow
      <4> QED BY <4>1, <4>2, <4>3, Zenon
    <3> QED BY <3>1, <3>2, Zenon
  <2> QED BY <2>1, <2>2, Zenon DEF Counted
<1>13. Left'
  <2>1. ASSUME NEW v \in Workers, NEW b \in Apps, app[v][b] # "ready", NEW b2 \in Apps
        PROVE  tracker'[v][b2] = tracker[v][b2]
    BY <1>6, <1>7, <2>1, Zenon
  <2>2. \A v \in Workers, b \in Apps :
          /\ app[v][b] \in {"ready", "closing", "deleted"}
          /\ app[v][b] # "ready" => \A b2 \in Apps : \A i \in 1 .. Len(tracker[v][b2]) :
                                      tracker[v][b2][i].count = NumServers
    BY Zenon DEF IInv, Left
  <2>3. \A v \in Workers, b \in Apps :
          /\ app'[v][b] \in {"ready", "closing", "deleted"}
          /\ app'[v][b] # "ready" => \A b2 \in Apps : \A i \in 1 .. Len(tracker'[v][b2]) :
                                       tracker'[v][b2][i].count = NumServers
    <3>1. ASSUME NEW v \in Workers, NEW b \in Apps, app[v][b] # "ready", NEW b2 \in Apps,
                 NEW i \in 1 .. Len(tracker'[v][b2])
          PROVE  tracker'[v][b2][i].count = NumServers
      <4>1. tracker'[v][b2] = tracker[v][b2]
        BY <2>1, <3>1, Zenon
      <4>2. i \in 1 .. Len(tracker[v][b2])
        BY <4>1, Zenon
      <4>3. tracker[v][b2][i].count = NumServers
        BY <2>2, <3>1, <4>2, Zenon
      <4> QED BY <4>1, <4>3, Zenon
    <3> QED BY <2>2, <3>1, Zenon
  <2> QED BY <2>3, Zenon DEF Left
<1> QED BY <1>2, <1>5, <1>6, <1>8, <1>9, <1>11, <1>12, <1>13, Zenon DEF R

\* Types of a step that makes a request.
LEMMA MadeTypes ==
  ASSUME IInv, DOMAIN outbox' = Workers, QueueTypes', UNCHANGED <<handled, app>>,
         tracker' \in [Workers -> [Apps -> Seq([total : Nat, count : Nat])]],
         DOMAIN request' = Workers,
         \A v \in Workers :
           IsQueue(request'[v]) /\ Len(request'[v]) = Len(tracker'[v][KvAppId])
  PROVE  Types'
  BY Zenon DEF IInv, Types

\* SimpleRequest: every server is asked, and nobody counts as having answered.
LEMMA SimpleRequestInv ==
  ASSUME SetFacts, IInv, NEW w \in Workers, SimpleRequest(w)
  PROVE  IInv'
<1> DEFINE a == SimpleAppId
           C == 1 .. NumServers
<1>1. PICK T, f : Asks(f, w, a, T, C) /\ Makes(w, a, T, C, f)
  <2> DEFINE f == [i \in 1 .. NumServers |-> Data(SimpleAppId, Len(tracker[w][SimpleAppId]), w,
                                                  ServerIds[i], TRUE, FALSE, NoPairs)]
  <2>1. outbox' = [outbox EXCEPT ![w] = f] /\ tracker' = NewRequest(w, a, 0)
    BY Zenon DEF SimpleRequest
  <2>2. Asks(f, w, a, Len(tracker[w][a]), C)
    BY Zenon DEF Asks, Data
  <2>3. 0 = NumServers - Cardinality(C)
    BY Constants, ServersFinite
  <2> HIDE DEF f, C
  <2> QED BY <2>1, <2>2, <2>3, Zenon DEF Makes
<1>2. /\ Idle(w) /\ UNCHANGED <<request, transit, recv_queue, handled, app>>
      /\ a \in Apps /\ a # KvAppId /\ C \in SUBSET (1 .. NumServers)
  BY Constants, Zenon DEF SimpleRequest
<1> HIDE DEF a, C
<1>5. /\ tracker' \in [Workers -> [Apps -> Seq([total : Nat, count : Nat])]]
      /\ DOMAIN outbox' = Workers /\ QueueTypes' /\ Mail' /\ OnePlace' /\ Counted' /\ Left'
      /\ \A v \in Workers, b \in Apps : ~(v = w /\ b = a) => tracker'[v][b] = tracker[v][b]
  BY <1>1, <1>2, RequestMade, Zenon
<1>6. \A v \in Workers : tracker'[v][KvAppId] = tracker[v][KvAppId]
  BY <1>2, <1>5, Constants, Zenon
<1>7. Types'
  <2>1. /\ DOMAIN request' = Workers
        /\ \A v \in Workers :
             IsQueue(request'[v]) /\ Len(request'[v]) = Len(tracker'[v][KvAppId])
    BY <1>2, <1>6, Zenon DEF IInv, Types
  <2> QED BY <1>2, <1>5, <2>1, MadeTypes, Zenon
<1>8. Called'
  BY <1>2, <1>6 DEF IInv, Called, HandledNow
<1> QED BY <1>5, <1>7, <1>8, Zenon DEF IInv

\* SendKv: the servers of the slices are asked, the others count as answers, and
\* the callback runs when nobody is asked.
LEMMA SendKvInv ==
  ASSUME SetFacts, IInv, NEW w \in Workers, NEW push, NEW keys, NEW vals, SendKv(w, push, keys, vals)
  PROVE  IInv'
<1> DEFINE a == KvAppId
<1>1. PICK T, C, f, r :
        /\ C \in SUBSET (1 .. NumServers) /\ Asks(f, w, a, T, C) /\ Makes(w, a, T, C, f)
        /\ r = AddCallback(w, push, keys)
        /\ request' = [request EXCEPT ![w] =
                         Append(request[w], IF C = {} THEN RunCallback(r, <<>>) ELSE r)]
  <2> DEFINE sliced == DefaultSlicer([keys |-> keys, vals |-> vals, lens |-> <<>>],
                                     GetServerKeyRanges(NumServers))
             C == {i \in 1 .. NumServers : sliced[i].first}
             f == [i \in C |-> Data(KvAppId, Len(tracker[w][KvAppId]), w, ServerIds[i], TRUE,
                                    push, [keys |-> sliced[i].keys, vals |-> sliced[i].vals])]
             r == AddCallback(w, push, keys)
  <2>1. /\ outbox' = [outbox EXCEPT ![w] = f]
        /\ tracker' = NewRequest(w, a, Skipped(C))
        /\ request' = [request EXCEPT ![w] =
                         Append(request[w], IF C = {} THEN RunCallback(r, <<>>) ELSE r)]
    BY Zenon DEF SendKv
  <2> HIDE DEF sliced
  <2>2. Asks(f, w, a, Len(tracker[w][a]), C)
    BY Zenon DEF Asks, Data
  <2>3. Skipped(C) = NumServers - Cardinality(C) /\ C \in SUBSET (1 .. NumServers)
    BY Zenon DEF Skipped
  <2> HIDE DEF C, f, r
  <2> QED BY <2>1, <2>2, <2>3, Zenon DEF r, Makes
<1>2. Idle(w) /\ UNCHANGED <<transit, recv_queue, handled, app>> /\ a \in Apps
  BY Constants, Zenon DEF SendKv
<1> HIDE DEF a
<1>3. /\ tracker' \in [Workers -> [Apps -> Seq([total : Nat, count : Nat])]]
      /\ DOMAIN outbox' = Workers /\ QueueTypes' /\ Mail' /\ OnePlace' /\ Counted' /\ Left'
      /\ Len(tracker'[w][a]) = T + 1 /\ T \in Nat
      /\ tracker'[w][a][T + 1].count = NumServers - Cardinality(C)
      /\ HandledNow(w, a, T + 1)' = 0
      /\ \A v \in Workers, b \in Apps : ~(v = w /\ b = a) => tracker'[v][b] = tracker[v][b]
      /\ \A j \in 1 .. T : tracker'[w][a][j] = tracker[w][a][j]
  BY <1>1, <1>2, RequestMade, Zenon
<1> DEFINE z == IF C = {} THEN RunCallback(r, <<>>) ELSE r
<1>4. /\ DOMAIN z = ReqFields /\ z.calls = (IF C = {} THEN 1 ELSE 0) /\ z.waited = FALSE
  <2>1. DOMAIN r = ReqFields /\ r.calls = 0 /\ r.waited = FALSE
    BY <1>1, Zenon DEF AddCallback, ReqFields
  <2>2. /\ DOMAIN RunCallback(r, <<>>) = ReqFields /\ RunCallback(r, <<>>).calls = 1
        /\ RunCallback(r, <<>>).waited = FALSE
    BY <2>1, RunCallbackIs, SMTT(30)
  <2> QED BY <2>1, <2>2, Zenon
<1>5. request' = [request EXCEPT ![w] = Append(request[w], z)]
  BY <1>1, Zenon
<1> HIDE DEF z
<1>6. /\ DOMAIN request = Workers
      /\ \A v \in Workers : IsQueue(request[v]) /\ Len(request[v]) = Len(tracker[v][a])
  BY Zenon DEF IInv, Types, a
<1>7. /\ DOMAIN request' = Workers /\ request'[w] = Append(request[w], z)
      /\ \A v \in Workers : v # w => request'[v] = request[v]
  BY <1>5, <1>6, Zenon
<1>8. /\ IsQueue(request'[w]) /\ Len(request'[w]) = T + 1 /\ request'[w][T + 1] = z
      /\ \A j \in 1 .. T : request'[w][j] = request[w][j]
  <2>1. IsQueue(request[w]) /\ Len(request[w]) = T
    BY <1>1, <1>6, Zenon DEF Makes
  <2> QED BY <1>7, <2>1, QueueAppend
<1>9. Types'
  <2>1. \A v \in Workers : IsQueue(request'[v]) /\ Len(request'[v]) = Len(tracker'[v][KvAppId])
    BY <1>2, <1>3, <1>6, <1>7, <1>8, Zenon DEF a
  <2> QED BY <1>2, <1>3, <1>7, <2>1, MadeTypes, Zenon
<1>10. Called'
  <2> SUFFICES ASSUME NEW v \in Workers, NEW j \in 1 .. Len(request'[v])
               PROVE  LET q == request'[v][j]  t == tracker'[v][a][j]
                      IN /\ DOMAIN q = ReqFields /\ q.calls \in Nat
                         /\ q.calls = IF t.count + HandledNow(v, a, j)' = NumServers
                                      THEN 1 ELSE 0
                         /\ q.waited => t.count = NumServers
    BY Zenon DEF Called, a
  <2>1. CASE v = w /\ j = T + 1
    <3>1. request'[v][j] = z /\ tracker'[v][a][j].count = NumServers - Cardinality(C)
          /\ HandledNow(v, a, j)' = 0
      BY <1>3, <1>8, <2>1, Zenon
    <3>2. /\ NumServers \in Nat /\ Cardinality(C) \in 0 .. NumServers
          /\ Cardinality(C) = 0 <=> C = {}
      BY <1>1, Constants, ServersFinite, Zenon
    <3> QED BY <1>4, <3>1, <3>2
  <2>2. CASE ~(v = w /\ j = T + 1)
    <3>1. /\ j \in 1 .. Len(request[v]) /\ request'[v][j] = request[v][j]
          /\ tracker'[v][a][j] = tracker[v][a][j]
      <4>1. CASE v = w
        <5>1. Len(request[v]) = T /\ Len(request'[v]) = T + 1
          BY <1>1, <1>6, <1>8, <4>1, Zenon DEF Makes
        <5>2. T \in Nat
          BY <1>1, Trackers, Constants, Zenon DEF Makes, IInv, a
        <5>3. j \in 1 .. T
          BY <2>2, <4>1, <5>1, <5>2
        <5> QED BY <1>3, <1>8, <4>1, <5>1, <5>3, Zenon
      <4>2. CASE v # w
        BY <1>2, <1>3, <1>7, <4>2, Zenon
      <4> QED BY <4>1, <4>2, Zenon
    <3>2. HandledNow(v, a, j)' = HandledNow(v, a, j)
      BY <1>2, Zenon DEF HandledNow
    <3>3. LET q == request[v][j]  t == tracker[v][a][j]
          IN /\ DOMAIN q = ReqFields /\ q.calls \in Nat
             /\ q.calls = IF t.count + HandledNow(v, a, j) = NumServers THEN 1 ELSE 0
             /\ q.waited => t.count = NumServers
      BY <3>1, Zenon DEF IInv, Called, a
    <3> QED BY <3>1, <3>2, <3>3, Zenon
  <2> QED BY <2>1, <2>2, Zenon
<1> QED BY <1>3, <1>9, <1>10, Zenon DEF IInv

-----------------------------------------------------------------------------
(***************************************************************************)
(* The applications go, and the theorem.                                   *)
(***************************************************************************)
\* A worker deletes an application when all its requests are counted.
LEMMA WorkerLeaves ==
  ASSUME SetFacts, IInv, NEW n \in Workers, NEW a \in Apps, NEW e \in {"closing", "deleted"},
         AppOnly(n, [app[n] EXCEPT ![a] = e]), UNCHANGED <<transit, recv_queue>>,
         \A b \in Apps : \A i \in 1 .. Len(tracker[n][b]) : tracker[n][b][i].count = NumServers
  PROVE  IInv'
<1>1. /\ app' = [app EXCEPT ![n] = [app[n] EXCEPT ![a] = e]]
      /\ UNCHANGED <<tracker, request, outbox, handled>>
  BY Zenon DEF AppOnly
<1>2. n \in Nodes /\ app \in [Nodes -> [Apps -> AppStates]] /\ e \in AppStates
  BY Constants, Zenon DEF IInv, Types, AppStates
<1>3. /\ app' \in [Nodes -> [Apps -> AppStates]] /\ app'[n][a] = e
      /\ \A v \in Nodes, b \in Apps : ~(v = n /\ b = a) => app'[v][b] = app[v][b]
  BY <1>1, <1>2, Zenon
<1>4. Mail' /\ OnePlace' /\ QueueTypes' /\ \A x : Open(x)' => Open(x)
  BY <1>1, AppQuiet, Zenon
<1>5. Types'
  BY <1>1, <1>3, <1>4, Zenon DEF IInv, Types
<1>6. Counted' /\ Called'
  BY <1>1, <1>4, CountedSame, CalledSame, Zenon DEF IInv
<1>7. Left'
  <2> SUFFICES ASSUME NEW v \in Workers, NEW b \in Apps
               PROVE  /\ app'[v][b] \in {"ready", "closing", "deleted"}
                      /\ app'[v][b] # "ready" => \A c \in Apps : \A i \in 1 .. Len(tracker[v][c]) :
                                                   tracker[v][c][i].count = NumServers
    BY <1>1 DEF Left
  <2>1. CASE v = n /\ b = a
    BY <1>3, <2>1, Zenon
  <2>2. CASE ~(v = n /\ b = a)
    <3>1. app'[v][b] = app[v][b]
      BY <1>3, <2>2, Constants, Zenon
    <3> QED BY <3>1, Zenon DEF IInv, Left
  <2> QED BY <2>1, <2>2, Zenon
<1> QED BY <1>4, <1>5, <1>6, <1>7, Zenon DEF IInv

\* RemoveCustomer: the user has waited for all its requests.
LEMMA RemoveCustomerInv ==
  ASSUME SetFacts, IInv, NEW n \in Nodes, NEW a \in Apps, RemoveCustomer(n, a)
  PROVE  IInv'
<1> DEFINE st == [app[n] EXCEPT ![a] = "closing"]
<1>1. Leaves(n) /\ AppOnly(n, st) /\ UNCHANGED <<tracker, outbox, transit, recv_queue>>
  BY Zenon DEF RemoveCustomer, AppOnly
<1>2. CASE n \in Workers
  <2>1. ASSUME NEW i \in 1 .. Len(tracker[n][KvAppId])
        PROVE  tracker[n][KvAppId][i].count = NumServers
    <3>1. IsQueue(request[n]) /\ Len(request[n]) = Len(tracker[n][KvAppId])
      BY <1>2, Zenon DEF IInv, Types
    <3>2. i \in DOMAIN request[n] /\ i \in 1 .. Len(request[n])
      BY <3>1 DEF IsQueue
    <3>3. request[n][i].waited
      BY <1>1, <1>2, <3>2, Zenon DEF Leaves
    <3> QED BY <1>2, <3>2, <3>3, Zenon DEF IInv, Called
  <2>2. ASSUME NEW i \in 1 .. Len(tracker[n][SimpleAppId])
        PROVE  tracker[n][SimpleAppId][i].count = NumServers
    <3>1. tracker[n][SimpleAppId][i] \in Range(tracker[n][SimpleAppId])
      <4>1. tracker[n][SimpleAppId] \in Seq([total : Nat, count : Nat])
        BY <1>2, Constants, SMTT(30) DEF IInv, Types
      <4> QED BY <4>1 DEF Range
    <3>2. tracker[n][SimpleAppId][i].total = tracker[n][SimpleAppId][i].count
      BY <1>1, <1>2, <3>1, Zenon DEF Leaves
    <3>3. tracker[n][SimpleAppId][i].total = NumServers
      BY <1>2, Constants DEF IInv, Counted
    <3> QED BY <3>2, <3>3, Zenon
  <2>3. \A b \in Apps : \A i \in 1 .. Len(tracker[n][b]) : tracker[n][b][i].count = NumServers
    BY <2>1, <2>2, Constants, Zenon
  <2> QED BY <1>1, <1>2, <2>3, WorkerLeaves, Zenon
<1>3. CASE n \notin Workers
  <2>1. st \in [Apps -> AppStates]
    BY Zenon DEF IInv, Types, AppStates
  <2> HIDE DEF st
  <2>2. Mail' /\ OnePlace' /\ QueueTypes' /\ \A x : Open(x)' => Open(x)
    BY <1>1, AppQuiet, Zenon
  <2> QED BY <1>1, <1>3, <2>1, <2>2, OnServers, Zenon
<1> QED BY <1>2, <1>3, Zenon

\* JoinCustomer: the application that was being deleted is gone.
LEMMA JoinCustomerInv ==
  ASSUME SetFacts, IInv, NEW n \in Nodes, NEW a \in Apps, JoinCustomer(n, a)
  PROVE  IInv'
<1> DEFINE st == [app[n] EXCEPT ![a] = "deleted"]
<1>1. /\ app[n][a] = "closing" /\ AppOnly(n, st)
      /\ UNCHANGED <<tracker, outbox, transit, recv_queue>>
  BY Zenon DEF JoinCustomer, AppOnly
<1>2. CASE n \in Workers
  <2>1. \A b \in Apps : \A i \in 1 .. Len(tracker[n][b]) : tracker[n][b][i].count = NumServers
    BY <1>1, <1>2, Zenon DEF IInv, Left
  <2> QED BY <1>1, <1>2, <2>1, WorkerLeaves, Zenon
<1>3. CASE n \notin Workers
  <2>1. st \in [Apps -> AppStates]
    BY Zenon DEF IInv, Types, AppStates
  <2> HIDE DEF st
  <2>2. Mail' /\ OnePlace' /\ QueueTypes' /\ \A x : Open(x)' => Open(x)
    BY <1>1, AppQuiet, Zenon
  <2> QED BY <1>1, <1>3, <2>1, <2>2, OnServers, Zenon
<1> QED BY <1>2, <1>3, Zenon

\* GetCustomerTimeout: only a server can be missed, for a worker whose response is
\* on the way has a request that is not counted.
LEMMA GetCustomerTimeoutInv ==
  ASSUME SetFacts, IInv, NEW m \in transit, GetCustomerTimeout(m)
  PROVE  IInv'
<1> DEFINE n == m.recver
           st == [b \in Apps |-> "aborted"]
<1>1. /\ app[n][m.app_id] \in {"none", "closing", "deleted"} /\ AppOnly(n, st)
      /\ UNCHANGED <<tracker, outbox, transit, recv_queue>>
  BY Zenon DEF GetCustomerTimeout, Abort, AppOnly
<1>2. Fit(m, tracker)
  BY Zenon DEF IInv, Mail
<1>3. n \in Nodes /\ m.app_id \in Apps
  BY <1>2, Constants, Zenon DEF Fit
<1>4. ASSUME n \in Workers PROVE FALSE
  <2>1. PICK a, T, s, i : a = m.app_id /\ T = m.timestamp /\ s = m.sender /\ i = T + 1
    BY Zenon
  <2>2. ~m.request /\ s \in Servers /\ T \in Nat /\ T < Len(tracker[n][a]) /\ a \in Apps
    BY <1>2, <1>4, <2>1, Constants, Zenon DEF Fit
  <2>3. i \in 1 .. Len(tracker[n][a]) /\ i - 1 = T
    BY <1>4, <2>1, <2>2, Trackers DEF IInv
  <2>4. Open(<<a, T, n, s>>)
    <3>1. Exchange(m) = <<a, T, n, s>>
      BY <2>1, <2>2, Zenon DEF Exchange
    <3> QED BY <3>1, Zenon DEF Open, Moving
  <2>5. s \in Awaited(n, a, i) /\ Awaited(n, a, i) \in SUBSET Servers
    BY <2>2, <2>3, <2>4, Zenon DEF Awaited
  <2>6. Cardinality(Awaited(n, a, i)) \in Nat /\ Cardinality(Awaited(n, a, i)) # 0
    BY <2>5, ServersFinite, Zenon
  <2>7. tracker[n][a][i].count + HandledNow(n, a, i) + Cardinality(Awaited(n, a, i)) <= NumServers
    BY <1>4, <2>2, <2>3, Zenon DEF IInv, Counted
  <2>8. tracker[n][a][i].count = NumServers
    BY <1>1, <1>4, <2>1, <2>2, <2>3, Zenon DEF IInv, Left
  <2>9. NumServers \in Nat /\ HandledNow(n, a, i) \in Nat
    BY Constants, Zenon DEF HandledNow
  <2> HIDE DEF n
  <2> QED BY <2>6, <2>7, <2>8, <2>9
<1>5. st \in [Apps -> AppStates]
  BY Zenon DEF AppStates
<1> HIDE DEF st, n
<1>6. Mail' /\ OnePlace' /\ QueueTypes' /\ \A x : Open(x)' => Open(x)
  BY <1>1, AppQuiet, Zenon
<1> QED BY <1>1, <1>3, <1>4, <1>5, <1>6, OnServers, Zenon

\* Nothing has been asked at the start.
LEMMA InitInv == Init => IInv
<1> SUFFICES ASSUME Init PROVE IInv
  BY Zenon
<1>1. Types
  <2>1. \A w \in Workers : /\ IsQueue(request[w]) /\ Len(request[w]) = 0
                           /\ tracker[w][KvAppId] = <<>>
    BY Constants DEF Init, IsQueue
  <2>2. QueueTypes
    BY DEF Init, DeliveryInit, QueueTypes, IsQueue
  <2>3. app \in [Nodes -> [Apps -> AppStates]]
    BY Zenon DEF Init, AppStates
  <2>4. /\ tracker \in [Workers -> [Apps -> Seq([total : Nat, count : Nat])]]
        /\ handled \in [Workers -> [Apps -> Nat \cup {None}]]
        /\ DOMAIN outbox = Workers /\ DOMAIN request = Workers
    BY DEF Init
  <2> QED BY <2>1, <2>2, <2>3, <2>4 DEF Types
<1>2. /\ transit = {} /\ \A w \in Workers : DOMAIN outbox[w] = {}
      /\ \A n \in Nodes, a \in Apps : 1 .. Len(recv_queue[n][a]) = {}
  BY DEF Init, DeliveryInit
<1>3. Mail
  BY <1>2, Zenon DEF Mail
<1>7. OnePlace
  BY <1>2, Zenon DEF OnePlace, Once, Moving, Queued, InQueue
<1>4. Counted
  BY DEF Init, Counted
<1>5. Called
  BY SMTT(30) DEF Init, Called
<1>6. Left
  BY Constants, Zenon DEF Init, Left
<1> QED BY <1>1, <1>3, <1>4, <1>5, <1>6, <1>7, Zenon DEF IInv

\* Every step preserves the invariant.
LEMMA StepInv ==
  ASSUME SetFacts
  PROVE  IInv /\ [Next]_vars => IInv'
<1> SUFFICES ASSUME IInv, [Next]_vars PROVE IInv'
  BY Zenon
<1>1. CASE UserNext
  <2>1. PICK w \in Workers : \/ \E keys \in KeyLists : Push(w, keys) \/ Pull(w, keys)
                             \/ SimpleRequest(w) \/ SendNext(w)
                             \/ \E i \in DOMAIN request[w] : WaitRequest(w, i)
    BY <1>1, Zenon DEF UserNext
  <2>2. ASSUME NEW keys \in KeyLists, Push(w, keys) \/ Pull(w, keys) PROVE IInv'
    BY <2>2, SendKvInv, Zenon DEF Push, Pull, ZPush, Pull_
  <2> QED BY <2>1, <2>2, SimpleRequestInv, SendNextInv, WaitRequestInv, Zenon
<1>2. CASE CustomerNext
  BY <1>2, KVServerProcessInv, SimpleProcessInv, KVWorkerProcessInv, CountResponseInv, Zenon
     DEF CustomerNext
<1>3. CASE AppNext
  <2>1. PICK n \in Nodes : \/ KVServer(n) \/ SimpleApp(n)
                           \/ \E a \in Apps : \/ set_request_handle(n, a) \/ ProcessUnready(n, a)
                                              \/ RemoveCustomer(n, a) \/ JoinCustomer(n, a)
    BY <1>3, Zenon DEF AppNext
  <2>2. CASE KVServer(n) \/ SimpleApp(n)
    BY <2>2, CustomerInv, Constants, Zenon DEF KVServer, SimpleApp
  <2> QED BY <2>1, <2>2, SetHandleInv, ProcessUnreadyInv, RemoveCustomerInv, JoinCustomerInv, Zenon
<1>4. CASE \E m \in transit : Arrive(m) \/ GetCustomerTimeout(m)
  BY <1>4, ArriveInv, GetCustomerTimeoutInv, Zenon
<1>5. CASE UNCHANGED vars
  <2>1. UNCHANGED <<tracker, request, outbox, handled, app, transit, recv_queue>>
    BY <1>5, Zenon DEF vars
  <2>2. Mail' /\ OnePlace' /\ QueueTypes' /\ \A x : Open(x)' => Open(x)
    BY <2>1, AppQuiet, Zenon
  <2>3. DOMAIN outbox' = Workers
    BY <2>1, Zenon DEF IInv, Types
  <2> QED BY <2>1, <2>2, <2>3, OnlyMoves, Zenon
<1> QED BY <1>1, <1>2, <1>3, <1>4, <1>5, Zenon DEF Next

\* What the invariant says of callbacks and of deleted applications.
LEMMA CallbacksRight ==
  ASSUME SetFacts
  PROVE  IInv => CallbackBeforeWait
<1> SUFFICES ASSUME IInv, NEW w \in Workers
             PROVE  /\ \A i \in DOMAIN request[w] :
                         /\ request[w][i].calls <= 1
                         /\ tracker[w][KvAppId][i].count = NumServers => request[w][i].calls = 1
                    /\ \A a \in Apps : app[w][a] # "aborted"
  BY Zenon DEF CallbackBeforeWait
<1>1. ASSUME NEW i \in DOMAIN request[w]
      PROVE  /\ request[w][i].calls <= 1
             /\ tracker[w][KvAppId][i].count = NumServers => request[w][i].calls = 1
  <2>1. i \in 1 .. Len(request[w]) /\ i \in 1 .. Len(tracker[w][KvAppId])
    BY DEF IInv, Types, IsQueue
  <2> DEFINE c == tracker[w][KvAppId][i].count
             h == HandledNow(w, KvAppId, i)
             k == Cardinality(Awaited(w, KvAppId, i))
  <2>2. c + h + k <= NumServers
    BY <2>1, Constants, Zenon DEF IInv, Counted
  <2>3. c \in Nat /\ NumServers \in Nat
    BY <2>1, Trackers, Constants, Zenon DEF IInv
  <2>4. h \in Nat
    BY Zenon DEF HandledNow
  <2>5. k \in Nat
    <3>1. Awaited(w, KvAppId, i) \in SUBSET Servers
      BY Zenon DEF Awaited
    <3> QED BY <3>1, ServersFinite, Zenon
  <2>6. request[w][i].calls = IF c + h = NumServers THEN 1 ELSE 0
    BY <2>1, Zenon DEF IInv, Called
  <2> HIDE DEF c, h, k
  <2>7. /\ request[w][i].calls <= 1
        /\ c = NumServers => request[w][i].calls = 1
    BY <2>2, <2>3, <2>4, <2>5, <2>6
  <2> QED BY <2>7, Zenon DEF c
<1>2. \A a \in Apps : app[w][a] # "aborted"
  BY Zenon DEF IInv, Left
<1> QED BY <1>1, <1>2, Zenon

-----------------------------------------------------------------------------
(***************************************************************************)
(* The facts about sets, and the theorems.                                 *)
(***************************************************************************)
INSTANCE FiniteSetTheorems

\* A non-empty set of natural numbers has a least element.
LEMMA LeastExists ==
  ASSUME NEW T \in SUBSET Nat, T # {}
  PROVE  \E x \in T : \A y \in T : x <= y
<1> DEFINE R == {p \in Nat \X Nat : p[1] < p[2]}
<1>1. IsWellFoundedOn(R, Nat)
  BY NatLessThanWellFounded, Zenon DEF OpToRel
<1> HIDE DEF R
<1>2. PICK x \in T : \A y \in T : ~ (<<y, x>> \in R)
  BY <1>1, WFMin, Zenon
<1>3. ASSUME NEW y \in T, y < x
      PROVE  FALSE
  <2>1. <<y, x>> \in Nat \X Nat
    BY Zenon
  <2>2. <<y, x>> \in R
    BY <2>1, <1>3, Zenon DEF R
  <2> QED BY <2>2, <1>2, Zenon
<1> QED BY <1>3

\* The servers are finitely many, so that the facts about sets hold.
LEMMA SetFactsHold == SetFacts
<1>1. IsFiniteSet(1 .. NumServers) /\ Cardinality(1 .. NumServers) = NumServers
  BY Constants, FS_Interval
<1>2. ASSUME NEW C \in SUBSET (1 .. NumServers)
      PROVE  /\ Cardinality(C) \in 0 .. NumServers /\ (Cardinality(C) = 0 <=> C = {})
             /\ IsFiniteSet({ServerIds[i] : i \in C})
             /\ Cardinality({ServerIds[i] : i \in C}) <= Cardinality(C)
  <2>1. IsFiniteSet(C) /\ Cardinality(C) <= NumServers
    BY <1>1, FS_Subset, Zenon
  <2>2. Cardinality(C) \in Nat
    BY <2>1, FS_CardinalityType, Zenon
  <2>3. [i \in C |-> ServerIds[i]] \in Surjection(C, {ServerIds[i] : i \in C})
    BY Zenon DEF Surjection
  <2>4. /\ IsFiniteSet({ServerIds[i] : i \in C})
        /\ Cardinality({ServerIds[i] : i \in C}) <= Cardinality(C)
    BY <2>1, <2>3, FS_Surjection, Zenon
  <2>5. Cardinality(C) = 0 <=> C = {}
    BY <2>1, FS_EmptySet, Zenon
  <2> QED BY <2>1, <2>2, <2>4, <2>5, Constants
<1>3. Servers = {ServerIds[i] : i \in 1 .. NumServers}
  BY KvAppAssumption DEF Servers, Range, NumServers
<1>4. IsFiniteSet(Servers)
  BY <1>2, <1>3, Zenon
<1>5. ASSUME NEW S \in SUBSET Servers
      PROVE  /\ Cardinality(S) \in Nat /\ (Cardinality(S) = 0 <=> S = {})
             /\ \A R \in SUBSET S : Cardinality(R) <= Cardinality(S)
             /\ \A s \in S : Cardinality(S \ {s}) = Cardinality(S) - 1
  <2>1. IsFiniteSet(S)
    BY <1>4, FS_Subset, Zenon
  <2>2. Cardinality(S) \in Nat /\ (Cardinality(S) = 0 <=> S = {})
    BY <2>1, FS_CardinalityType, FS_EmptySet, Zenon
  <2>3. \A R \in SUBSET S : Cardinality(R) <= Cardinality(S)
    BY <2>1, FS_Subset, Zenon
  <2>4. \A s \in S : Cardinality(S \ {s}) = Cardinality(S) - 1
    BY <2>1, FS_RemoveElement, Zenon
  <2> QED BY <2>2, <2>3, <2>4, Zenon
<1>6. \A T \in SUBSET Nat : T # {} => \E x \in T : \A y \in T : x <= y
  BY LeastExists, Zenon
<1> QED BY <1>1, <1>2, <1>5, <1>6, Zenon DEF SetFacts

\* The inductive invariant of KvApp, whatever the workers, the servers, the key
\* lists and the bound on requests are.
THEOREM MailIsCounted == Spec => []IInv
<1>1. Init => IInv
  BY InitInv, Zenon
<1>2. IInv /\ [Next]_vars => IInv'
  BY StepInv, SetFactsHold, Zenon
<1> QED BY <1>1, <1>2, PTL DEF Spec

\* The callback of a request runs at most once and has run when Wait can return
\* (KVWorker::Process runs it before Customer counts the last response), and no
\* CHECK of ProcessDataMsg fails at a worker: when a worker that has waited for its
\* requests deletes its applications no response is left for them.
THEOREM CallbacksBeforeWait == Spec => []CallbackBeforeWait
<1>1. IInv => CallbackBeforeWait
  BY CallbacksRight, SetFactsHold, Zenon
<1> QED BY <1>1, MailIsCounted, PTL
=============================================================================

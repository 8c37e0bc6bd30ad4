------------------------ MODULE PriorityChannelRates ------------------------
(***************************************************************************)
(* The rate of a PriorityChannel never runs ahead of the clock, nor of     *)
(* what the receivers report, for any peers, messages and sizes, any       *)
(* initial rate and any monitoring interval.  What the lemmas need of      *)
(* least elements, counts and doublings are hypotheses (LeastElements and  *)
(* RateFacts), which are proved at the end.                                *)
(***************************************************************************)
EXTENDS PriorityChannelSteps, Queues

(***************************************************************************)
(* Pacing.  What was sent before the window of tx_meter began fits the     *)
(* highest rate and the time before it; so does all that was sent.         *)
(***************************************************************************)
Paced(d) ==
  LET r == record[d]  meter == conn[d].tx_meter
  IN /\ conn[d].rate <= r.peak
     /\ r.age <= setup.horizon
     /\ \/ r.age = setup.horizon
        \/ /\ meter.age <= r.age
           /\ r.first - meter.bytes <= r.peak * (r.age - meter.age)
           /\ r.first <= r.peak * r.age

(***************************************************************************)
(* The rate.  Every report of a receiver took it an interval, except the   *)
(* first, which may have begun earlier; n of the reports have been used,   *)
(* the others are on the way.                                              *)
(***************************************************************************)
Reports(d) == Count(signals[d], RateSignal)

Doublings(d, n) ==
  /\ record[d].peak <= InitialSendingRate * Doubled[n]
  /\ (n + Reports(d)) * Interval + rx_meter[d].age <= record[d].age + Interval

RateBound(d) ==
  /\ conn[d].rate >= InitialSendingRate
  /\ record[d].age = setup.horizon \/ \E n \in Nat : Doublings(d, n)
  /\ d \notin added => /\ net[d] = <<>> /\ Reports(d) = 0
                       /\ rx_meter[d].age = 0 /\ record[d].peak = InitialSendingRate

(***************************************************************************)
(* What n doublings do, and what a queue holds of reports.                 *)
(***************************************************************************)
DoublingLaws ==
  /\ Doubled[0] = 1
  /\ \A n \in Nat : Doubled[n] \in Nat /\ Doubled[n] > 0
  /\ \A n \in Nat : Doubled[n + 1] = 2 * Doubled[n]

RateFacts == DoublingLaws /\ CountIsNat /\ CountOfAppend /\ CountOfTail

-----------------------------------------------------------------------------
(***************************************************************************)
(* Pacing.                                                                 *)
(***************************************************************************)
\* A greater factor.
LEMMA ProductGrows ==
  ASSUME NEW x \in Nat, NEW y \in Nat, x <= y, NEW z \in Nat
  PROVE  x * z <= y * z /\ z * x <= z * y /\ x * z \in Nat /\ z * x \in Nat
  OBVIOUS

\* The numbers that pacing is about.
LEMMA PaceTypes ==
  ASSUME TypeOK, NEW d \in Peers
  PROVE  /\ record[d].age \in Nat /\ record[d].peak \in Nat /\ record[d].first \in Int
         /\ conn[d].rate \in Nat /\ setup.horizon \in Nat
         /\ conn[d].tx_meter.bytes \in Int /\ conn[d].tx_meter.age \in Nat
<1>1. record[d] \in Record
  BY Zenon DEF TypeOK, ConnOK
<1> QED BY <1>1, ConnFacts, SetupFacts, Zenon DEF TypeOK, Record

\* A step that leaves the rate, the meter and the record of d alone.
LEMMA SamePace ==
  ASSUME NEW d \in Peers, Paced(d), setup' = setup,
         record'[d] = record[d], conn'[d].rate = conn[d].rate,
         conn'[d].tx_meter = conn[d].tx_meter
  PROVE  Paced(d)'
  BY Zenon DEF Paced

\* A packet is charged: when it closes the window, all that was sent before fits.
LEMMA ChargedPace ==
  ASSUME TypeOK, NEW d \in Peers, Paced(d), setup' = setup,
         NEW n \in Int, ~Throttled(d, n),
         conn'[d].rate = conn[d].rate, conn'[d].tx_meter = Metered(d, n),
         record'[d].age = record[d].age, record'[d].peak = record[d].peak,
         \/ record'[d].first = record[d].first + n
         \/ record'[d].first = record[d].first /\ n >= 0
  PROVE  Paced(d)'
<1> DEFINE A == record[d].age
           P == record[d].peak
           F == record[d].first
           r == conn[d].rate
           a == conn[d].tx_meter.age
           b == conn[d].tx_meter.bytes
           H == setup.horizon
           G == record'[d].first
           x == conn'[d].tx_meter.age
           y == conn'[d].tx_meter.bytes
<1>1. A \in Nat /\ P \in Nat /\ F \in Int /\ r \in Nat /\ a \in Nat /\ b \in Int /\ H \in Nat
  BY PaceTypes, Zenon
<1>2. /\ r <= P /\ A <= H
      /\ A = H \/ (a <= A /\ F - b <= P * (A - a) /\ F <= P * A)
  BY Zenon DEF Paced
<1>3. a # 0 /\ b + n <= r * a
  BY <1>1 DEF Throttled, Exceeds
<1>4. \/ a >= Interval /\ x = 0 /\ y = n
      \/ a < Interval /\ x = a /\ y = b + n
  BY <1>1, ChannelAssumption, MeteredFacts
<1>5. G = F + n \/ (G = F /\ n >= 0)
  BY Zenon
<1> SUFFICES /\ r <= P /\ A <= H
             /\ A = H \/ (x <= A /\ G - y <= P * (A - x) /\ G <= P * A)
  BY Zenon DEF Paced
<1> HIDE DEF A, P, F, r, a, b, H, G, x, y
<1> SUFFICES ASSUME A # H
             PROVE  x <= A /\ G - y <= P * (A - x) /\ G <= P * A
  BY <1>2, Zenon
<1>6. r * a <= P * a /\ A - a \in Nat
  BY <1>1, <1>2, ProductGrows
<1>7. P * (A - a) + P * a = P * A
  BY <1>1, <1>6
<1>8. P * (A - a) \in Int /\ P * a \in Int /\ P * A \in Int /\ r * a \in Int
  BY <1>1, <1>6
<1>9. G <= P * A
  BY <1>1, <1>2, <1>3, <1>5, <1>6, <1>7, <1>8
<1>10. CASE x = 0 /\ y = n
  <2>1. P * (A - x) = P * A /\ x <= A
    BY <1>1, <1>10
  <2> QED BY <1>1, <1>2, <1>5, <1>8, <1>9, <1>10, <2>1
<1>11. CASE x = a /\ y = b + n
  BY <1>1, <1>2, <1>5, <1>8, <1>9, <1>11
<1> QED BY <1>4, <1>10, <1>11, Zenon

\* Time passes: more may have been sent.
LEMMA TickPace ==
  ASSUME TypeOK, NEW d \in Peers, Paced(d), Tick
  PROVE  Paced(d)'
<1> DEFINE A == record[d].age
           P == record[d].peak
           F == record[d].first
           r == conn[d].rate
           a == conn[d].tx_meter.age
           b == conn[d].tx_meter.bytes
           H == setup.horizon
           B == record'[d].age
           x == conn'[d].tx_meter.age
<1>1. A \in Nat /\ P \in Nat /\ F \in Int /\ r \in Nat /\ a \in Nat /\ b \in Int /\ H \in Nat
  BY PaceTypes, Zenon
<1>2. /\ r <= P /\ A <= H
      /\ A = H \/ (a <= A /\ F - b <= P * (A - a) /\ F <= P * A)
  BY Zenon DEF Paced
<1>3. /\ record'[d].peak = P /\ record'[d].first = F /\ conn'[d].rate = r
      /\ conn'[d].tx_meter.bytes = b /\ setup' = setup
      /\ (x = Older(a) /\ B = Older(A)) \/ (x = a /\ B = A)
  BY TickEffect, Zenon DEF Tick
<1>4. /\ Older(a) = IF a + 1 <= H THEN a + 1 ELSE H
      /\ Older(A) = IF A + 1 <= H THEN A + 1 ELSE H
  BY <1>1, OlderFacts, Zenon DEF TypeOK
<1> SUFFICES /\ r <= P /\ B <= H
             /\ B = H \/ (x <= B /\ F - b <= P * (B - x) /\ F <= P * B)
  BY <1>3, Zenon DEF Paced
<1> HIDE DEF A, P, F, r, a, b, H, B, x
<1>5. CASE x = a /\ B = A
  BY <1>2, <1>5, Zenon
<1>6. CASE x = Older(a) /\ B = Older(A)
  <2>1. CASE A = H
    BY <1>1, <1>2, <1>4, <1>6, <2>1
  <2>2. CASE A # H
    <3>1. B = A + 1 /\ x = a + 1 /\ B <= H /\ x <= B /\ B - x = A - a
      BY <1>1, <1>2, <1>4, <1>6, <2>2
    <3>2. P * A <= P * (A + 1) /\ P * A \in Int /\ P * (A + 1) \in Int
      BY <1>1
    <3> QED BY <1>1, <1>2, <2>2, <3>1, <3>2
  <2> QED BY <2>1, <2>2, Zenon
<1> QED BY <1>3, <1>5, <1>6, Zenon

\* The rate is adjusted: the highest rate follows.
LEMMA RatePace ==
  ASSUME TypeOK, NEW d \in Peers, Paced(d), setup' = setup,
         NEW rate, AdjustsRate(d, rate)
  PROVE  Paced(d)'
<1> DEFINE A == record[d].age
           P == record[d].peak
           F == record[d].first
           a == conn[d].tx_meter.age
           b == conn[d].tx_meter.bytes
           H == setup.horizon
           Q == record'[d].peak
<1>1. A \in Nat /\ P \in Nat /\ F \in Int /\ a \in Nat /\ b \in Int /\ H \in Nat
  BY PaceTypes, Zenon
<1>2. A <= H /\ (A = H \/ (a <= A /\ F - b <= P * (A - a) /\ F <= P * A))
  BY Zenon DEF Paced
<1>3. /\ rate \in Nat /\ conn'[d].rate = rate /\ conn'[d].tx_meter = conn[d].tx_meter
      /\ record'[d].age = A /\ record'[d].first = F
      /\ Q = IF P >= rate THEN P ELSE rate
  BY Zenon DEF AdjustsRate
<1> SUFFICES /\ rate <= Q /\ A <= H
             /\ A = H \/ (a <= A /\ F - b <= Q * (A - a) /\ F <= Q * A)
  BY <1>3, Zenon DEF Paced
<1> HIDE DEF A, P, F, a, b, H, Q
<1>4. Q \in Nat /\ P <= Q /\ rate <= Q
  BY <1>1, <1>3
<1>5. ASSUME A # H
      PROVE  F - b <= Q * (A - a) /\ F <= Q * A
  <2>1. A - a \in Nat
    BY <1>1, <1>2, <1>5
  <2>2. P * (A - a) <= Q * (A - a) /\ P * A <= Q * A
    BY <1>1, <1>4, <2>1, ProductGrows, Zenon
  <2>3. P * (A - a) \in Int /\ Q * (A - a) \in Int /\ P * A \in Int /\ Q * A \in Int
    BY <1>1, <1>4, <2>1
  <2> QED BY <1>1, <1>2, <1>5, <2>2, <2>3
<1> QED BY <1>2, <1>4, <1>5, Zenon

\* The steps of the thread that move messages leave rates and meters alone.
LEMMA FlowKeepsMeters ==
  ASSUME TypeOK, NEW m \in Msgs, StopFlow(m) \/ RequestRetransmit(m)
  PROVE  conn' = conn \/ \E c, S, K, R : OnlyAt(c, S, K, R)
<1>1. CASE StopFlow(m)
  BY <1>1, StopEffect, Zenon
<1>2. CASE RequestRetransmit(m)
  BY <1>2, RequestEffect, Zenon
<1> QED BY <1>1, <1>2, Zenon

\* The thread sends only what the rate allows.
LEMMA RunPace ==
  ASSUME LeastElements, TypeOK, Connected, Run, NEW d \in Peers, Paced(d)
  PROVE  Paced(d)'
<1>0. setup' = setup
  BY Zenon DEF Run
<1>1. ASSUME record' = record, conn' = conn \/ \E c, S, K, R : OnlyAt(c, S, K, R)
      PROVE  Paced(d)'
  <2>1. conn'[d].rate = conn[d].rate /\ conn'[d].tx_meter = conn[d].tx_meter
    BY <1>1, Zenon DEF OnlyAt
  <2> QED BY <1>0, <1>1, <2>1, SamePace, Zenon
<1>2. CASE PopSendRequest
  <2>1. record' = record
    BY <1>2, Zenon DEF PopSendRequest
  <2>2. CASE sr_queue = <<>>
    <3>1. conn' = conn
      BY <1>2, <2>2, Zenon DEF PopSendRequest
    <3> QED BY <1>1, <2>1, <3>1, Zenon
  <2>3. CASE sr_queue # <<>>
    BY <1>1, <1>2, <2>1, <2>3, PopEffect, Zenon
  <2> QED BY <2>2, <2>3, Zenon
<1>3. CASE PollSendingMessages
  <2>1. CASE conn'[d] = conn[d] /\ record'[d] = record[d]
    BY <1>0, <2>1, SamePace, Zenon
  <2>2. CASE \E m \in Msgs, n \in Int : SendsFirst(d, m, n)
    <3>1. PICK n \in Int : \E m \in Msgs : SendsFirst(d, m, n)
      BY <2>2, Zenon
    <3> QED BY <1>0, <3>1, ChargedPace, Zenon DEF SendsFirst
  <2> QED BY <1>3, <2>1, <2>2, SendEffect, Zenon
<1>4. CASE PollRetransmitRequest
  <2>0. record' = record
    BY <1>4, Zenon DEF PollRetransmitRequest
  <2>1. CASE conn'[d] = conn[d]
    BY <1>0, <2>0, <2>1, SamePace, Zenon
  <2>2. CASE \E m \in Msgs : SendsAgain(d, m)
    <3>1. Header \in Int /\ Header >= 0
      BY ChannelAssumption
    <3> QED BY <1>0, <2>0, <2>2, <3>1, ChargedPace, Zenon DEF SendsAgain
  <2> QED BY <1>4, <2>1, <2>2, RetransmitEffect, Zenon
<1>5. CASE PollNotification
  <2>1. record' = record
    BY <1>5, Zenon DEF PollNotification
  <2>2. CASE notification_queue = <<>>
    <3>1. conn' = conn
      BY <1>5, <2>2, Zenon DEF PollNotification
    <3> QED BY <1>1, <2>1, <3>1, Zenon
  <2>3. CASE notification_queue # <<>>
    <3>1. ASSUME NEW m \in Msgs, StopFlow(m) \/ RequestRetransmit(m)
          PROVE  Paced(d)'
      BY <1>1, <2>1, <3>1, FlowKeepsMeters, Zenon
    <3> QED BY <1>1, <1>5, <2>1, <2>3, <3>1, PollCases, Zenon
  <2> QED BY <2>2, <2>3, Zenon
<1> QED BY <1>2, <1>3, <1>4, <1>5, Zenon DEF Run

\* Every step preserves the pacing of every connection.
LEMMA StepPaced ==
  ASSUME LeastElements, TypeOK, Connected, [Next]_vars, NEW d \in Peers, Paced(d)
  PROVE  Paced(d)'
<1>1. ASSUME UNCHANGED <<setup, conn, record>>
      PROVE  Paced(d)'
  BY <1>1, SamePace, Zenon
<1>2. CASE User
  <2>1. UNCHANGED <<setup, conn, record>>
    BY <1>2, Zenon DEF User
  <2> QED BY <1>1, <2>1, Zenon
<1>3. ASSUME NEW c \in Peers, HandleReceivedData(c)
      PROVE  Paced(d)'
  <2>1. /\ setup' = setup
        /\ UNCHANGED <<conn, record>> \/ \E rate : AdjustsRate(c, rate)
    BY <1>3, SignalCases, Zenon
  <2>2. ASSUME NEW rate, AdjustsRate(c, rate)
        PROVE  Paced(d)'
    <3>1. CASE c = d
      BY <2>1, <2>2, <3>1, RatePace, Zenon
    <3>2. CASE c # d
      <4>1. conn'[d] = conn[d] /\ record'[d] = record[d]
        BY <2>2, <3>2, Zenon DEF AdjustsRate
      <4> QED BY <2>1, <4>1, SamePace, Zenon
    <3> QED BY <3>1, <3>2, Zenon
  <2> QED BY <1>1, <2>1, <2>2, Zenon
<1>4. CASE Remote
  BY <1>1, <1>4, Zenon DEF Remote
<1>5. CASE UNCHANGED vars
  BY <1>1, <1>5, Zenon DEF vars
<1> QED BY <1>2, <1>3, <1>4, <1>5, RunPace, TickPace, Zenon DEF Next

-----------------------------------------------------------------------------
(***************************************************************************)
(* The rate.                                                               *)
(***************************************************************************)
\* The number of the reports on the way.
LEMMA ReportsAreNat ==
  ASSUME RateFacts, TypeOK, NEW d \in Peers
  PROVE  Reports(d) \in Nat /\ rx_meter[d].age \in Nat
<1>1. signals[d] \in Seq(RateSignal \cup FlowSignal) /\ rx_meter[d] \in Meter
  BY Zenon DEF TypeOK, PeerOK
<1>2. Reports(d) \in Nat
  BY <1>1, Zenon DEF RateFacts, CountIsNat, Reports
<1> QED BY <1>1, <1>2, Zenon DEF Meter

\* A step that does not concern the rate of d.
LEMMA SameRate ==
  ASSUME NEW d \in Peers, RateBound(d), setup' = setup,
         conn'[d].rate = conn[d].rate,
         record'[d].age = record[d].age, record'[d].peak = record[d].peak,
         rx_meter'[d].age = rx_meter[d].age, Reports(d)' = Reports(d),
         d \notin added' => d \notin added /\ net'[d] = net[d]
  PROVE  RateBound(d)'
<1>1. InitialSendingRate' = InitialSendingRate
  BY SameSetup, Zenon
<1>2. \A n \in Nat : Doublings(d, n) => Doublings(d, n)'
  BY <1>1, Zenon DEF Doublings
<1> QED BY <1>1, <1>2, Zenon DEF RateBound

\* What reports there are when a signal joins or leaves those of peer d.
LEMMA ReportSent ==
  ASSUME RateFacts, TypeOK, NEW d \in Peers, NEW s \in RateSignal \cup FlowSignal,
         signals' = [signals EXCEPT ![d] = Append(signals[d], s)]
  PROVE  /\ s \in RateSignal => Reports(d)' = Reports(d) + 1
         /\ s \notin RateSignal => Reports(d)' = Reports(d)
         /\ \A c \in Peers \ {d} : Reports(c)' = Reports(c)
<1>1. signals \in [Peers -> Seq(RateSignal \cup FlowSignal)]
  BY Zenon DEF TypeOK, PeerOK
<1>2. signals'[d] = Append(signals[d], s) /\ \A c \in Peers \ {d} : signals'[c] = signals[c]
  BY <1>1, Zenon
<1>3. Count(Append(signals[d], s), RateSignal) = Count(signals[d], RateSignal) + One(s \in RateSignal)
  BY <1>1 DEF RateFacts, CountOfAppend
<1>4. Reports(d) \in Nat
  BY ReportsAreNat, Zenon
<1>5. Reports(d)' = Reports(d) + One(s \in RateSignal)
  BY <1>2, <1>3, Zenon DEF Reports
<1>6. \A c \in Peers \ {d} : Reports(c)' = Reports(c)
  BY <1>2, Zenon DEF Reports
<1> QED BY <1>4, <1>5, <1>6 DEF One

\* A signal is taken: a report, or a signal that is none.
LEMMA ReportUsed ==
  ASSUME RateFacts, TypeOK, NEW d \in Peers, signals[d] # <<>>,
         signals' = [signals EXCEPT ![d] = Tail(signals[d])]
  PROVE  /\ Head(signals[d]) \in RateSignal => Reports(d)' = Reports(d) - 1
         /\ Head(signals[d]) \notin RateSignal => Reports(d)' = Reports(d)
         /\ \A c \in Peers \ {d} : Reports(c)' = Reports(c)
<1>1. signals \in [Peers -> Seq(RateSignal \cup FlowSignal)]
  BY Zenon DEF TypeOK, PeerOK
<1>2. signals'[d] = Tail(signals[d]) /\ \A c \in Peers \ {d} : signals'[c] = signals[c]
  BY <1>1, Zenon
<1>3. Count(Tail(signals[d]), RateSignal)
        = Count(signals[d], RateSignal) - One(Head(signals[d]) \in RateSignal)
  BY <1>1, Zenon DEF RateFacts, CountOfTail
<1>4. Reports(d) \in Nat
  BY ReportsAreNat, Zenon
<1>5. Reports(d)' = Reports(d) - One(Head(signals[d]) \in RateSignal)
  BY <1>2, <1>3, Zenon DEF Reports
<1>6. \A c \in Peers \ {d} : Reports(c)' = Reports(c)
  BY <1>2, Zenon DEF Reports
<1> QED BY <1>4, <1>5, <1>6 DEF One

\* A new connection: its peer may be about to report.
LEMMA UserRate ==
  ASSUME RateFacts, TypeOK, Connected, User, NEW d \in Peers, RateBound(d)
  PROVE  RateBound(d)'
<1>1. UNCHANGED <<setup, conn, record, signals>>
  BY Zenon DEF User
<1>2. Reports(d)' = Reports(d) /\ InitialSendingRate' = InitialSendingRate
  BY <1>1, SameSetup, Zenon DEF Reports
<1>3. ASSUME UNCHANGED <<added, net, rx_meter>>
      PROVE  RateBound(d)'
  BY <1>1, <1>2, <1>3, SameRate, Zenon
<1>4. CASE \E x \in Peers : AddConnection(x)
  <2>1. PICK c \in Peers \ added, age \in {0, Interval} :
          /\ added' = added \cup {c}
          /\ rx_meter'[c].age = age
          /\ \A x \in Peers \ {c} : rx_meter'[x] = rx_meter[x]
          /\ UNCHANGED net
    BY <1>4, AddEffect, Zenon
  <2>2. CASE c # d
    BY <1>1, <1>2, <2>1, <2>2, SameRate, Zenon
  <2>3. CASE c = d
    <3>1. /\ Reports(d) = 0 /\ record[d].peak = InitialSendingRate
          /\ conn[d].rate >= InitialSendingRate
      BY <2>1, <2>3, Zenon DEF RateBound
    <3>2. /\ InitialSendingRate \in Nat /\ record[d].age \in Nat /\ Interval \in Nat
          /\ Doubled[0] = 1
      BY SetupFacts, PaceTypes, ChannelAssumption, Zenon DEF TypeOK, RateFacts, DoublingLaws
    <3>3. Doublings(d, 0)'
      BY <1>1, <1>2, <2>1, <2>3, <3>1, <3>2 DEF Doublings
    <3>4. d \in added'
      BY <2>1, <2>3, Zenon
    <3> QED BY <1>1, <1>2, <3>1, <3>3, <3>4 DEF RateBound
  <2> QED BY <2>2, <2>3, Zenon
<1>5. ASSUME NEW m \in Msgs, PostSend(m) PROVE RateBound(d)'
  BY <1>3, <1>5, Zenon DEF PostSend, peer
<1>6. ASSUME NEW c \in Peers, RemoveConnection(c) PROVE RateBound(d)'
  BY <1>3, <1>6, Zenon DEF RemoveConnection, peer
<1> QED BY <1>4, <1>5, <1>6, Zenon DEF User

\* The thread leaves rates and reports alone.
LEMMA RunRate ==
  ASSUME LeastElements, TypeOK, Connected, Run, NEW d \in Peers, RateBound(d)
  PROVE  RateBound(d)'
<1>1. UNCHANGED <<setup, signals>>
  BY Zenon DEF Run
<1>2. Reports(d)' = Reports(d)
  BY <1>1, Zenon DEF Reports
<1>3. ASSUME UNCHANGED <<added, net, rx_meter, record>>,
             conn' = conn \/ \E c, S, K, R : OnlyAt(c, S, K, R)
      PROVE  RateBound(d)'
  <2>1. conn'[d].rate = conn[d].rate
    BY <1>3, Zenon DEF OnlyAt
  <2> QED BY <1>1, <1>2, <1>3, <2>1, SameRate, Zenon
<1>4. CASE PopSendRequest
  <2>1. UNCHANGED <<added, net, rx_meter, record>>
    BY <1>4, Zenon DEF PopSendRequest, peer
  <2>2. CASE sr_queue = <<>>
    <3>1. conn' = conn
      BY <1>4, <2>2, Zenon DEF PopSendRequest
    <3> QED BY <1>3, <2>1, <3>1, Zenon
  <2>3. CASE sr_queue # <<>>
    BY <1>3, <1>4, <2>1, <2>3, PopEffect, Zenon
  <2> QED BY <2>2, <2>3, Zenon
<1>5. CASE PollSendingMessages
  <2>1. UNCHANGED <<added, rx_meter>>
    BY <1>5, Zenon DEF PollSendingMessages, user
  <2>2. CASE conn'[d] = conn[d] /\ net'[d] = net[d] /\ record'[d] = record[d]
    BY <1>1, <1>2, <2>1, <2>2, SameRate, Zenon
  <2>3. ASSUME NEW m, NEW n, SendsFirst(d, m, n)
        PROVE  RateBound(d)'
    <3>1. d \in added
      BY <2>3, TableIsAdded, Zenon DEF SendsFirst
    <3> QED BY <1>1, <1>2, <2>1, <2>3, <3>1, SameRate, Zenon DEF SendsFirst
  <2> QED BY <1>5, <2>2, <2>3, SendEffect, Zenon
<1>6. CASE PollRetransmitRequest
  <2>1. UNCHANGED <<added, rx_meter, record>>
    BY <1>6, Zenon DEF PollRetransmitRequest, user
  <2>2. CASE conn'[d] = conn[d] /\ net'[d] = net[d]
    BY <1>1, <1>2, <2>1, <2>2, SameRate, Zenon
  <2>3. ASSUME NEW m, SendsAgain(d, m)
        PROVE  RateBound(d)'
    <3>1. d \in added
      BY <2>3, TableIsAdded, Zenon DEF SendsAgain
    <3> QED BY <1>1, <1>2, <2>1, <2>3, <3>1, SameRate, Zenon DEF SendsAgain
  <2> QED BY <1>6, <2>2, <2>3, RetransmitEffect, Zenon
<1>7. CASE PollNotification
  <2>1. UNCHANGED <<added, net, rx_meter, record>>
    BY <1>7, Zenon DEF PollNotification, peer
  <2>2. CASE notification_queue = <<>>
    <3>1. conn' = conn
      BY <1>7, <2>2, Zenon DEF PollNotification
    <3> QED BY <1>3, <2>1, <3>1, Zenon
  <2>3. CASE notification_queue # <<>>
    <3>1. ASSUME NEW m \in Msgs, StopFlow(m) \/ RequestRetransmit(m)
          PROVE  RateBound(d)'
      BY <1>3, <2>1, <3>1, FlowKeepsMeters, Zenon
    <3> QED BY <1>3, <1>7, <2>1, <2>3, <3>1, PollCases, Zenon
  <2> QED BY <2>2, <2>3, Zenon
<1> QED BY <1>4, <1>5, <1>6, <1>7, Zenon DEF Run

\* A report is used: it doubles the rate at most.
LEMMA SignalRate ==
  ASSUME RateFacts, TypeOK, NEW c \in Peers, HandleReceivedData(c), NEW d \in Peers, Paced(d), RateBound(d)
  PROVE  RateBound(d)'
<1> DEFINE s == Head(signals[c])
<1>1. /\ signals[c] # <<>> /\ c \in id_conn
      /\ signals' = [signals EXCEPT ![c] = Tail(signals[c])]
      /\ UNCHANGED <<setup, user, peer>>
      /\ \/ s \in RateSignal /\ \E rate : AdjustsRate(c, rate)
         \/ s \notin RateSignal /\ UNCHANGED <<conn, record>>
  BY SignalCases, Zenon
<1>2. /\ s \in RateSignal => Reports(c)' = Reports(c) - 1
      /\ s \notin RateSignal => Reports(c)' = Reports(c)
      /\ \A x \in Peers \ {c} : Reports(x)' = Reports(x)
  BY <1>1, ReportUsed, Zenon
<1> HIDE DEF s
<1>3. UNCHANGED <<setup, added, id_conn, net, rx_meter>>
  BY <1>1, Zenon DEF user, peer
<1>4. CASE s \notin RateSignal
  <2>1. UNCHANGED <<conn, record>> /\ Reports(d)' = Reports(d)
    BY <1>1, <1>2, <1>4, Zenon
  <2> QED BY <1>3, <2>1, SameRate, Zenon
<1>5. ASSUME NEW rate, AdjustsRate(c, rate), s \in RateSignal, c # d
      PROVE  RateBound(d)'
  <2>1. conn'[d] = conn[d] /\ record'[d] = record[d] /\ Reports(d)' = Reports(d)
    BY <1>2, <1>5, Zenon DEF AdjustsRate
  <2> QED BY <1>3, <2>1, SameRate, Zenon
<1>6. ASSUME NEW rate, AdjustsRate(d, rate), s \in RateSignal, c = d
      PROVE  RateBound(d)'
  <2> DEFINE P == record[d].peak
             I == InitialSendingRate
             R == Reports(d)
             g == rx_meter[d].age
             A == record[d].age
  <2>1. /\ rate \in Nat /\ rate <= 2 * conn[d].rate
        /\ conn[d].rate >= I => rate >= I
        /\ conn'[d].rate = rate /\ record'[d].age = A
        /\ record'[d].peak = IF P >= rate THEN P ELSE rate
    BY <1>6, Zenon DEF AdjustsRate
  <2>2. /\ P \in Nat /\ A \in Nat /\ I \in Nat /\ R \in Nat /\ g \in Nat /\ Interval \in Nat
        /\ conn[d].rate \in Nat /\ conn[d].rate <= P
    BY PaceTypes, SetupFacts, ReportsAreNat, ChannelAssumption, Zenon DEF TypeOK, Paced
  <2>3. /\ I' = I /\ R' = R - 1 /\ g' = g /\ d \in added'
    BY <1>1, <1>2, <1>3, <1>6, SameSetup, Zenon DEF TypeOK, UserOK
  <2>4. ASSUME NEW n \in Nat, Doublings(d, n)
        PROVE  Doublings(d, n + 1)'
    <3>1. P <= I * Doubled[n] /\ (n + R) * Interval + g <= A + Interval
      BY <2>4, Zenon DEF Doublings
    <3>2. Doubled[n] \in Nat /\ Doubled[n + 1] = 2 * Doubled[n]
      BY Zenon DEF RateFacts, DoublingLaws
    <3>3. I * Doubled[n + 1] = 2 * (I * Doubled[n]) /\ I * Doubled[n] \in Nat
      BY <2>2, <3>2
    <3>4. record'[d].peak <= I * Doubled[n + 1]
      <4> HIDE DEF P, I
      <4> QED BY <2>1, <2>2, <3>1, <3>3
    <3>5. (n + 1) + (R - 1) = n + R
      BY <2>2
    <3> QED BY <2>1, <2>3, <3>1, <3>4, <3>5, Zenon DEF Doublings
  <2>5. A = setup.horizon \/ \E n \in Nat : Doublings(d, n)'
    <3>1. \A n \in Nat : n + 1 \in Nat
      OBVIOUS
    <3> QED BY <2>4, <3>1, Zenon DEF RateBound
  <2>6. conn'[d].rate >= I
    BY <2>1, Zenon DEF RateBound
  <2> QED BY <1>3, <2>1, <2>3, <2>5, <2>6, Zenon DEF RateBound
<1> QED BY <1>1, <1>4, <1>5, <1>6, Zenon

\* A packet arrives: every report but the first took the peer an interval.
LEMMA RemoteRate ==
  ASSUME RateFacts, TypeOK, Remote, NEW d \in Peers, RateBound(d)
  PROVE  RateBound(d)'
<1>1. UNCHANGED <<setup, added, conn, record>> /\ InitialSendingRate' = InitialSendingRate
  BY SameSetup, Zenon DEF Remote, user
<1>2. ASSUME NEW c \in Peers, net[c] # <<>>, HandleReceive(c) \/ Lose(c)
      PROVE  RateBound(d)'
  <2>1. /\ Receives(c)
        /\ \A x \in Peers \ {c} : net'[x] = net[x] /\ rx_meter'[x] = rx_meter[x]
    BY <1>2, ReceiveEffect, Zenon
  <2>2. CASE c # d
    <3>1. Reports(d)' = Reports(d)
      <4>1. CASE UNCHANGED signals
        BY <4>1, Zenon DEF Reports
      <4>2. CASE \E s \in RateSignal : signals' = [signals EXCEPT ![c] = Append(signals[c], s)]
        BY <2>2, <4>2, ReportSent, Zenon
      <4> QED BY <2>1, <4>1, <4>2, Zenon DEF Receives
    <3> QED BY <1>1, <2>1, <2>2, <3>1, SameRate, Zenon
  <2>3. CASE c = d
    <3>0. d \in added
      BY <1>2, <2>3, Zenon DEF RateBound
    <3>1. CASE rx_meter'[d].age = rx_meter[d].age /\ UNCHANGED signals
      <4>1. Reports(d)' = Reports(d)
        BY <3>1, Zenon DEF Reports
      <4> QED BY <1>1, <3>0, <3>1, <4>1, SameRate, Zenon
    <3>2. CASE /\ rx_meter[d].age >= Interval /\ rx_meter'[d].age = 0
               /\ \E s \in RateSignal : signals' = [signals EXCEPT ![d] = Append(signals[d], s)]
      <4>1. Reports(d)' = Reports(d) + 1
        BY <3>2, ReportSent, Zenon
      <4>2. Reports(d) \in Nat /\ rx_meter[d].age \in Nat /\ record[d].age \in Nat
            /\ Interval \in Nat
        BY ReportsAreNat, PaceTypes, ChannelAssumption, Zenon
      <4>3. ASSUME NEW n \in Nat, Doublings(d, n)
            PROVE  Doublings(d, n)'
        <5>1. (n + Reports(d)) * Interval + rx_meter[d].age <= record[d].age + Interval
          BY <4>3, Zenon DEF Doublings
        <5>2. (n + (Reports(d) + 1)) * Interval = (n + Reports(d)) * Interval + Interval
              /\ (n + Reports(d)) * Interval \in Nat
          BY <4>2
        <5>3. ASSUME NEW P \in Nat, NEW Q \in Nat, Q = P + Interval,
                     P + rx_meter[d].age <= record[d].age + Interval
              PROVE  Q + 0 <= record[d].age + Interval
          BY <3>2, <4>2, <5>3
        <5>4. (n + (Reports(d) + 1)) * Interval + 0 <= record[d].age + Interval
          BY <4>2, <5>1, <5>2, <5>3
        <5> QED BY <1>1, <3>2, <4>1, <4>3, <5>4, Zenon DEF Doublings
      <4> QED BY <1>1, <3>0, <4>3, Zenon DEF RateBound
    <3> QED BY <2>1, <2>3, <3>1, <3>2, Zenon DEF Receives
  <2> QED BY <2>2, <2>3, Zenon
<1>3. ASSUME NEW m \in Msgs, SendStop(m) \/ FinishFlow(m)
      PROVE  RateBound(d)'
  <2>1. UNCHANGED <<net, rx_meter>>
    BY <1>3, Zenon DEF SendStop, FinishFlow
  <2>2. Dest(m) \in Peers
    BY SetupFacts, Zenon DEF TypeOK
  <2>3. /\ StopSignal(m) \in FlowSignal /\ ReqSignal(m) \in FlowSignal
        /\ StopSignal(m) \notin RateSignal /\ ReqSignal(m) \notin RateSignal
    BY FlowSignalTypes, SignalsDiffer, Zenon
  <2>4. \/ signals' = [signals EXCEPT ![Dest(m)] = Append(signals[Dest(m)], StopSignal(m))]
        \/ signals' = [signals EXCEPT ![Dest(m)] = Append(signals[Dest(m)], ReqSignal(m))]
    BY <1>3, FlowEffect, Zenon
  <2>5. Reports(d)' = Reports(d)
    BY <2>2, <2>3, <2>4, ReportSent, Zenon
  <2> QED BY <1>1, <2>1, <2>5, SameRate, Zenon
<1> QED BY <1>2, <1>3, Zenon DEF Remote

\* Time passes: the window of the peer and the record grow alike.
LEMMA TickRate ==
  ASSUME RateFacts, TypeOK, Tick, NEW d \in Peers, Paced(d), RateBound(d)
  PROVE  RateBound(d)'
<1>1. UNCHANGED <<setup, added, net, signals, id_conn>>
  BY Zenon DEF Tick, user
<1>2. Reports(d)' = Reports(d) /\ InitialSendingRate' = InitialSendingRate
  BY <1>1, SameSetup, Zenon DEF Reports
<1>3. CASE conn'[d] = conn[d] /\ rx_meter'[d] = rx_meter[d] /\ record'[d] = record[d]
  BY <1>1, <1>2, <1>3, SameRate, Zenon
<1>4. CASE /\ rx_meter'[d].age = Older(rx_meter[d].age) /\ record'[d].age = Older(record[d].age)
           /\ d \in id_conn
  <2>1. /\ conn'[d].rate = conn[d].rate /\ record'[d].peak = record[d].peak
    BY TickEffect, Zenon
  <2>2. /\ rx_meter[d].age \in Nat /\ record[d].age \in Nat /\ setup.horizon \in Nat
        /\ Reports(d) \in Nat /\ Interval \in Nat
    BY ReportsAreNat, PaceTypes, ChannelAssumption, Zenon
  <2>3. /\ Older(rx_meter[d].age) <= rx_meter[d].age + 1 /\ Older(rx_meter[d].age) \in Nat
        /\ Older(record[d].age) = IF record[d].age + 1 <= setup.horizon THEN record[d].age + 1
                                                                     ELSE setup.horizon
    BY <2>2, OlderFacts DEF TypeOK
  <2>4. record[d].age <= setup.horizon
    BY Zenon DEF Paced
  <2>5. d \in added'
    BY <1>1, <1>4, Zenon DEF TypeOK, UserOK
  <2>6. ASSUME NEW n \in Nat, Doublings(d, n), record[d].age # setup.horizon
        PROVE  Doublings(d, n)'
    <3>1. (n + Reports(d)) * Interval + rx_meter[d].age <= record[d].age + Interval
          /\ (n + Reports(d)) * Interval \in Nat
      BY <2>2, <2>6 DEF Doublings
    <3>2. (n + Reports(d)) * Interval + rx_meter'[d].age <= record'[d].age + Interval
      <4> DEFINE K == (n + Reports(d)) * Interval
      <4>1. K + rx_meter[d].age <= record[d].age + Interval /\ K \in Nat
        BY <3>1, Zenon
      <4> HIDE DEF K
      <4>2. record'[d].age = record[d].age + 1 /\ rx_meter'[d].age \in Nat
            /\ rx_meter'[d].age <= rx_meter[d].age + 1
        BY <1>4, <2>2, <2>3, <2>4, <2>6
      <4>3. K + rx_meter'[d].age <= record'[d].age + Interval
        BY <2>2, <4>1, <4>2
      <4> QED BY <4>3, Zenon DEF K
    <3> QED BY <1>2, <2>1, <2>6, <3>2, Zenon DEF Doublings
  <2>7. record[d].age = setup.horizon => record'[d].age = setup.horizon
    BY <1>4, <2>2, <2>3
  <2>8. record'[d].age = setup.horizon \/ \E n \in Nat : Doublings(d, n)'
    BY <2>6, <2>7, Zenon DEF RateBound
  <2> QED BY <1>1, <1>2, <2>1, <2>5, <2>8, Zenon DEF RateBound
<1> QED BY <1>3, <1>4, TickEffect, Zenon

\* Every step preserves the bound on the rate.
LEMMA StepRate ==
  ASSUME LeastElements, RateFacts, TypeOK, Connected, [Next]_vars,
         NEW d \in Peers, Paced(d), RateBound(d)
  PROVE  RateBound(d)'
<1>1. CASE UNCHANGED vars
  <2>1. UNCHANGED <<setup, added, conn, record, net, rx_meter, signals>>
    BY <1>1, Zenon DEF vars, user, peer
  <2>2. Reports(d)' = Reports(d)
    BY <2>1, Zenon DEF Reports
  <2> QED BY <2>1, <2>2, SameRate, Zenon
<1> QED BY <1>1, UserRate, RunRate, SignalRate, RemoteRate, TickRate, Zenon DEF Next

-----------------------------------------------------------------------------
(***************************************************************************)
(* The rate never runs ahead of the clock or of the receiver.              *)
(***************************************************************************)
RateInv == TypeOK /\ Connected /\ \A d \in Peers : Paced(d) /\ RateBound(d)

\* Nothing has been sent, and no report is on the way.
LEMMA InitRateInv ==
  ASSUME RateFacts, Init
  PROVE  RateInv
<1>1. TypeOK /\ Connected
  BY InitConnected, Zenon
<1>2. /\ added = {}
      /\ conn = [d \in Peers |-> NewConn] /\ net = [d \in Peers |-> <<>>]
      /\ signals = [d \in Peers |-> <<>>] /\ rx_meter = [d \in Peers |-> Cleared]
      /\ record = [d \in Peers |-> [age |-> 0, peak |-> InitialSendingRate, first |-> 0]]
  BY Zenon DEF Init, Peers, InitialSendingRate
<1>4. ASSUME NEW d \in Peers
      PROVE  Paced(d) /\ RateBound(d)
  <2>1. /\ conn[d].rate = InitialSendingRate /\ conn[d].tx_meter.age = 0
        /\ conn[d].tx_meter.bytes = 0
        /\ record[d].age = 0 /\ record[d].peak = InitialSendingRate /\ record[d].first = 0
        /\ rx_meter[d].age = 0 /\ net[d] = <<>> /\ signals[d] = <<>>
    BY <1>2, Zenon DEF NewConn, Cleared
  <2>2. /\ InitialSendingRate \in Nat /\ setup.horizon \in Nat /\ Interval \in Nat
        /\ Doubled[0] = 1
    BY <1>1, SetupFacts, ChannelAssumption, Zenon DEF TypeOK, RateFacts, DoublingLaws
  <2>3. Reports(d) = 0
    <3>1. signals[d] \in Seq(RateSignal)
      BY <2>1
    <3>2. Reports(d) = 0 <=> \A i \in 1 .. Len(signals[d]) : signals[d][i] \notin RateSignal
      BY <3>1, Zenon DEF RateFacts, CountIsNat, Reports
    <3> QED BY <2>1, <3>2
  <2>4. Doublings(d, 0)
    BY <2>1, <2>2, <2>3 DEF Doublings
  <2>5. Paced(d)
    BY <2>1, <2>2 DEF Paced
  <2>6. conn[d].rate >= InitialSendingRate
    BY <2>1, <2>2
  <2>7. RateBound(d)
    BY <2>1, <2>2, <2>3, <2>4, <2>6, Zenon DEF RateBound
  <2> QED BY <2>5, <2>7, Zenon
<1> QED BY <1>1, <1>4, Zenon DEF RateInv

\* Every step preserves it.
LEMMA StepRateInv ==
  ASSUME LeastElements, RateFacts, RateInv, [Next]_vars
  PROVE  RateInv'
<1>1. TypeOK' /\ Connected' /\ \A d \in Peers : Paced(d)' /\ RateBound(d)'
  BY StepTypes, StepConnected, StepPaced, StepRate, Zenon DEF RateInv
<1>2. setup' = setup
  BY Zenon DEF Next, User, Run, HandleReceivedData, Remote, Tick, vars
<1>3. Peers' = Peers
  BY <1>2, SameSetup, Zenon
<1> QED BY <1>1, <1>3, Zenon DEF RateInv

-----------------------------------------------------------------------------
(***************************************************************************)
(* Least elements and induction on the natural numbers, for sets of them,  *)
(* and what Append and Tail do to the number of the elements of a queue.   *)
(***************************************************************************)
INSTANCE FiniteSetTheorems

\* A non-empty set of natural numbers has a least element.
LEMMA LeastExists ==
  ASSUME NEW T \in SUBSET Nat, T # {}
  PROVE  \E x \in T : \A y \in T : x <= y
<1> DEFINE R == {p \in Nat \X Nat : p[1] < p[2]}
<1>1. IsWellFoundedOn(R, Nat)
  BY NatLessThanWellFounded, Zenon DEF OpToRel
<1> HIDE DEF R
<1>2. PICK x \in T : \A y \in T : ~ (<<y, x>> \in R)
  BY <1>1, WFMin, Zenon
<1>3. ASSUME NEW y \in T, y < x
      PROVE  FALSE
  <2>1. <<y, x>> \in Nat \X Nat
    BY Zenon
  <2>2. <<y, x>> \in R
    BY <2>1, <1>3, Zenon DEF R
  <2> QED BY <2>2, <1>2, Zenon
<1> QED BY <1>3

\* The hypothesis of the lemmas about the ids of connections holds.
LEMMA LeastHold == LeastElements
BY LeastExists, Zenon DEF LeastElements

\* Induction: a set of natural numbers with 0 and, with n, n + 1 has them all.
LEMMA SetInduction ==
  ASSUME NEW S, 0 \in S, \A n \in Nat : n \in S => n + 1 \in S
  PROVE  Nat \subseteq S
<1> SUFFICES ASSUME Nat \ S # {} PROVE FALSE
  BY Zenon
<1>1. PICK x \in Nat \ S : \A y \in Nat \ S : x <= y
  BY LeastExists, Zenon
<1>2. x # 0 /\ x - 1 \in Nat
  BY <1>1
<1>3. x - 1 \in S
  BY <1>1, <1>2
<1> QED BY <1>1, <1>2, <1>3

\* A count is a natural number, and zero when no element is in E.
LEMMA CountNatural ==
  ASSUME NEW S, NEW q \in Seq(S), NEW E
  PROVE  /\ Count(q, E) \in Nat
         /\ Count(q, E) = 0 <=> \A i \in 1 .. Len(q) : q[i] \notin E
<1> DEFINE P == {i \in 1 .. Len(q) : q[i] \in E}
<1>1. IsFiniteSet(P)
  BY FS_Interval, FS_Subset
<1>2. Cardinality(P) \in Nat
  BY <1>1, FS_CardinalityType, Zenon
<1>3. Cardinality(P) = 0 <=> P = {}
  BY <1>1, FS_EmptySet, Zenon
<1> QED
  BY <1>2, <1>3, Zenon DEF Count

\* Appending an element adds it to the count of the sets it is in.
LEMMA CountAppended ==
  ASSUME NEW S, NEW q \in Seq(S), NEW e \in S, NEW E
  PROVE  Count(Append(q, e), E) = Count(q, E) + One(e \in E)
<1> DEFINE P == {i \in 1 .. Len(q) : q[i] \in E}
           Q == {i \in 1 .. Len(Append(q, e)) : Append(q, e)[i] \in E}
<1>1. IsFiniteSet(P)
  BY FS_Interval, FS_Subset
<1>2. Q = IF e \in E THEN P \cup {Len(q) + 1} ELSE P
  OBVIOUS
<1>3. Len(q) + 1 \notin P
  OBVIOUS
<1>4. Cardinality(P \cup {Len(q) + 1}) = Cardinality(P) + 1
  BY <1>1, <1>3, FS_AddElement, Zenon
<1>5. Cardinality(P) \in Nat
  BY <1>1, FS_CardinalityType, Zenon
<1>6. Count(q, E) = Cardinality(P) /\ Count(Append(q, e), E) = Cardinality(Q)
  BY Zenon DEF Count
<1> HIDE DEF P, Q
<1>7. CASE e \in E
  BY <1>2, <1>4, <1>6, <1>7, Zenon DEF One
<1>8. CASE e \notin E
  BY <1>2, <1>5, <1>6, <1>8 DEF One
<1> QED
  BY <1>7, <1>8, Zenon

\* Removing the head takes it from the count of the sets it is in.
LEMMA CountWithoutHead ==
  ASSUME NEW S, NEW q \in Seq(S), q # <<>>, NEW E
  PROVE  Count(Tail(q), E) = Count(q, E) - One(Head(q) \in E)
<1> DEFINE P == {i \in 1 .. Len(q) : q[i] \in E}
           R == P \ {1}
           Q == {i \in 1 .. Len(Tail(q)) : Tail(q)[i] \in E}
           f == [i \in R |-> i - 1]
<1>1. IsFiniteSet(P)
  BY FS_Interval, FS_Subset
<1>2. 1 \in 1 .. Len(q) /\ Head(q) = q[1]
  OBVIOUS
<1>3. Cardinality(R) = Cardinality(P) - One(Head(q) \in E)
  <2>1. CASE 1 \in P
    BY <2>1, <1>1, <1>2, FS_RemoveElement, Zenon DEF One
  <2>2. CASE 1 \notin P
    <3>1. R = P /\ Head(q) \notin E
      BY <2>2, <1>2, Zenon
    <3>2. Cardinality(P) \in Nat
      BY <1>1, FS_CardinalityType, Zenon
    <3> HIDE DEF P, R
    <3> QED
      BY <3>1, <3>2 DEF One
  <2> QED
    BY <2>1, <2>2, Zenon
<1>4. IsFiniteSet(R)
  BY <1>1, FS_Subset, Zenon
<1>5. f \in Bijection(R, Q)
  <2>1. Len(Tail(q)) = Len(q) - 1 /\ Len(q) \in Nat
    OBVIOUS
  <2>2. \A i \in 1 .. Len(Tail(q)) : Tail(q)[i] = q[i + 1]
    OBVIOUS
  <2>3. \A i \in R : i - 1 \in Q
    BY <2>1, <2>2
  <2>4. \A j \in Q : j + 1 \in R /\ (j + 1) - 1 = j
    BY <2>1, <2>2
  <2>5. f \in [R -> Q]
    BY <2>3, Zenon
  <2>6. \A i, j \in R : f[i] = f[j] => i = j
    OBVIOUS
  <2>7. \A j \in Q : \E i \in R : f[i] = j
    BY <2>4, Zenon
  <2> HIDE DEF R, Q, f
  <2> QED
    BY <2>5, <2>6, <2>7, Zenon DEF Bijection, Injection, IsInjective, Surjection
<1>6. Count(q, E) = Cardinality(P) /\ Count(Tail(q), E) = Cardinality(Q)
  BY Zenon DEF Count
<1> HIDE DEF P, Q, R, f
<1>7. Cardinality(Q) = Cardinality(R)
  BY <1>4, <1>5, FS_Bijection, Zenon DEF ExistsBijection
<1> QED
  BY <1>3, <1>6, <1>7, Zenon

-----------------------------------------------------------------------------
\* The function Doubled exists: for every n there is its part up to n, and two
\* such parts agree where both are defined.

PowersUpTo(n, g) == /\ g \in [0 .. n -> Nat]
                    /\ g[0] = 1
                    /\ \A k \in 1 .. n : g[k] = 2 * g[k - 1]

\* The powers of two up to any number exist as a function.
LEMMA PowersExist == \A n \in Nat : \E g : PowersUpTo(n, g)
<1> DEFINE S == {n \in Nat : \E g : PowersUpTo(n, g)}
<1>1. 0 \in S
  <2>1. PowersUpTo(0, [k \in 0 .. 0 |-> 1])
    BY DEF PowersUpTo
  <2> QED BY <2>1, Zenon
<1>2. ASSUME NEW n \in Nat, n \in S
      PROVE  n + 1 \in S
  <2>1. PICK g : PowersUpTo(n, g)
    BY <1>2, Zenon
  <2> DEFINE h == [k \in 0 .. n + 1 |-> IF k = n + 1 THEN 2 * g[n] ELSE g[k]]
  <2>2. PowersUpTo(n + 1, h)
    BY <2>1 DEF PowersUpTo
  <2> HIDE DEF h
  <2> QED BY <2>2
<1> HIDE DEF S
<1>3. Nat \subseteq S
  BY <1>1, <1>2, SetInduction, Zenon
<1> QED BY <1>3, Zenon DEF S

\* Two functions that give the powers of two give the same ones.
LEMMA PowersAgree ==
  ASSUME NEW n \in Nat, NEW g, PowersUpTo(n, g), NEW m \in Nat, NEW h, PowersUpTo(m, h)
  PROVE  \A k \in Nat : k <= n /\ k <= m => g[k] = h[k]
<1> DEFINE S == {k \in Nat : k <= n /\ k <= m => g[k] = h[k]}
<1>1. 0 \in S
  BY Zenon DEF PowersUpTo
<1>2. ASSUME NEW k \in Nat, k \in S
      PROVE  k + 1 \in S
  <2> SUFFICES ASSUME k + 1 <= n, k + 1 <= m PROVE g[k + 1] = h[k + 1]
    OBVIOUS
  <2>1. g[k + 1] = 2 * g[k] /\ h[k + 1] = 2 * h[k]
    BY DEF PowersUpTo
  <2> QED BY <1>2, <2>1
<1> HIDE DEF S
<1>3. Nat \subseteq S
  BY <1>1, <1>2, SetInduction, Zenon
<1> QED BY <1>3, Zenon DEF S

\* Doubled is what its definition says, for all numbers.
LEMMA DoubledIs == Doubled = [n \in Nat |-> IF n = 0 THEN 1 ELSE 2 * Doubled[n - 1]]
<1> DEFINE part(n) == CHOOSE g : PowersUpTo(n, g)
           f == [n \in Nat |-> part(n)[n]]
<1>1. \A n \in Nat : PowersUpTo(n, part(n))
  BY PowersExist, Zenon
<1> HIDE DEF part
<1>2. f[0] = 1
  BY <1>1, Zenon DEF PowersUpTo
<1>3. ASSUME NEW n \in Nat, n # 0
      PROVE  f[n] = 2 * f[n - 1]
  <2>1. PowersUpTo(n, part(n)) /\ PowersUpTo(n - 1, part(n - 1)) /\ n - 1 \in Nat
    BY <1>1, <1>3
  <2>2. part(n)[n] = 2 * part(n)[n - 1]
    BY <1>3, <2>1 DEF PowersUpTo
  <2>3. part(n)[n - 1] = part(n - 1)[n - 1]
    BY <2>1, PowersAgree
  <2> QED BY <2>1, <2>2, <2>3, Zenon
<1>4. f = [n \in Nat |-> IF n = 0 THEN 1 ELSE 2 * f[n - 1]]
  <2> DEFINE g == [n \in Nat |-> IF n = 0 THEN 1 ELSE 2 * f[n - 1]]
  <2>1. \A n \in Nat : f[n] = g[n]
    BY <1>2, <1>3, Zenon
  <2> QED BY <2>1, Zenon
<1> HIDE DEF f
<1> QED BY <1>4, Zenon DEF Doubled

\* What n doublings do.
LEMMA DoubledLaws == DoublingLaws
<1>1. Doubled[0] = 1 /\ \A n \in Nat : Doubled[n + 1] = 2 * Doubled[n]
  BY DoubledIs
<1> DEFINE S == {n \in Nat : Doubled[n] \in Nat /\ Doubled[n] > 0}
<1>2. 0 \in S
  BY <1>1
<1>3. \A n \in Nat : n \in S => n + 1 \in S
  BY <1>1
<1> HIDE DEF S
<1>4. Nat \subseteq S
  BY <1>2, <1>3, SetInduction, Zenon
<1> QED BY <1>1, <1>4, Zenon DEF S, DoublingLaws

\* More doublings give no less.
LEMMA DoubledMonotone ==
  ASSUME NEW a \in Nat, NEW b \in Nat, a <= b
  PROVE  Doubled[a] <= Doubled[b]
<1> DEFINE S == {k \in Nat : Doubled[a] <= Doubled[a + k]}
<1>1. 0 \in S
  BY DoubledLaws DEF DoublingLaws
<1>2. ASSUME NEW k \in Nat, k \in S
      PROVE  k + 1 \in S
  <2>1. Doubled[(a + k) + 1] = 2 * Doubled[a + k] /\ Doubled[a + k] \in Nat /\ Doubled[a] \in Nat
    BY DoubledLaws DEF DoublingLaws
  <2>2. (a + k) + 1 = a + (k + 1)
    OBVIOUS
  <2> QED BY <1>2, <2>1, <2>2
<1> HIDE DEF S
<1>3. Nat \subseteq S
  BY <1>1, <1>2, SetInduction, Zenon
<1>4. b - a \in Nat /\ a + (b - a) = b
  OBVIOUS
<1> QED BY <1>3, <1>4, Zenon DEF S

\* The hypotheses of the lemmas about rates hold.
LEMMA RateFactsHold == RateFacts
<1>1. CountIsNat
  BY CountNatural, Zenon DEF CountIsNat
<1>2. CountOfAppend
  BY CountAppended, Zenon DEF CountOfAppend
<1>3. CountOfTail
  BY CountWithoutHead, Zenon DEF CountOfTail
<1> QED BY <1>1, <1>2, <1>3, DoubledLaws, Zenon DEF RateFacts

\* The invariant behind pacing and rates.
LEMMA RateInvariance == Spec => []RateInv
<1>1. Init => RateInv
  BY RateFactsHold, InitRateInv, Zenon
<1>2. RateInv /\ [Next]_vars => RateInv'
  BY LeastHold, RateFactsHold, StepRateInv, Zenon
<1> QED BY <1>1, <1>2, PTL DEF Spec

\* First transmissions never run ahead of the clock (Throttled and Metered,
\* with the windows of RateMeter): what a connection has sent since it was made
\* fits its highest rate, whatever the peers report and whenever packets are sent.
THEOREM PacingHolds == Spec => []PacedToRate
<1>1. RateInv => PacedToRate
  BY Zenon DEF RateInv, Paced, PacedToRate
<1> QED BY <1>1, RateInvariance, PTL

\* A number of intervals that fit an age, and one more.
LEMMA IntervalsPassed ==
  ASSUME NEW n \in Nat, NEW age \in Nat, NEW i \in Nat \ {0}, n * i <= age + i
  PROVE  n <= age \div i + 1 /\ age \div i \in Nat
<1> DEFINE q == age \div i
<1>1. q \in Nat /\ age < (q + 1) * i
  <2>1. age = i * q + (age % i) /\ age % i \in 0 .. i - 1 /\ q \in Nat
    OBVIOUS
  <2> QED BY <2>1
<1>2. n * i < (q + 1) * i + i
  BY <1>1
<1>3. (q + 1) * i + i = (q + 2) * i
  BY <1>1
<1>4. ASSUME n >= q + 2 PROVE FALSE
  <2>1. n * i >= (q + 2) * i
    BY <1>1, <1>4, ProductGrows
  <2> QED BY <1>1, <1>2, <1>3, <2>1
<1> QED BY <1>1, <1>4

\* The rate follows the receivers (HandleReceivedData's kRateAdjustment): never
\* below the initial rate, and doubled no more often than a peer's rx_meter
\* lets it report, however reports, packets and clock ticks interleave.
THEOREM RateIsReported == Spec => []RateFollowsReceiver
<1>1. ASSUME RateInv, NEW d \in Peers, NEW n \in Nat, Doublings(d, n)
      PROVE  record[d].peak <= InitialSendingRate * Doubled[record[d].age \div Interval + 1]
  <2>1. TypeOK
    BY <1>1, Zenon DEF RateInv
  <2>2. /\ rx_meter[d].age \in Nat /\ record[d].age \in Nat /\ record[d].peak \in Nat
        /\ Reports(d) \in Nat /\ Interval \in Nat \ {0} /\ InitialSendingRate \in Nat
    BY <2>1, RateFactsHold, ReportsAreNat, PaceTypes, ChannelAssumption, SetupFacts, Zenon DEF TypeOK
  <2>3. n * Interval <= record[d].age + Interval
    <3>1. /\ (n + Reports(d)) * Interval + rx_meter[d].age <= record[d].age + Interval
          /\ (n + Reports(d)) * Interval = n * Interval + Reports(d) * Interval
          /\ n * Interval \in Nat /\ Reports(d) * Interval \in Nat
      BY <1>1, <2>2 DEF Doublings
    <3>2. ASSUME NEW a \in Nat, NEW b \in Nat, NEW c \in Nat, c = a + b,
                 c + rx_meter[d].age <= record[d].age + Interval
          PROVE  a <= record[d].age + Interval
      BY <2>2, <3>2
    <3>3. (n + Reports(d)) * Interval \in Nat
      BY <2>2
    <3> QED BY <3>1, <3>2, <3>3, Zenon
  <2>4. n <= record[d].age \div Interval + 1 /\ record[d].age \div Interval + 1 \in Nat
    <3>1. n <= record[d].age \div Interval + 1 /\ record[d].age \div Interval \in Nat
      BY <2>2, <2>3, IntervalsPassed, Zenon
    <3> QED BY <3>1
  <2>5. /\ Doubled[n] <= Doubled[record[d].age \div Interval + 1]
        /\ Doubled[n] \in Nat /\ Doubled[record[d].age \div Interval + 1] \in Nat
    BY <2>4, DoubledMonotone, DoubledLaws, Zenon DEF DoublingLaws
  <2>6. InitialSendingRate * Doubled[n]
          <= InitialSendingRate * Doubled[record[d].age \div Interval + 1]
    BY <2>2, <2>5, ProductGrows, Zenon
  <2>7. record[d].peak <= InitialSendingRate * Doubled[n]
    BY <1>1, Zenon DEF Doublings
  <2> QED BY <2>2, <2>5, <2>6, <2>7
<1>2. RateInv => RateFollowsReceiver
  BY <1>1, Zenon DEF RateInv, RateBound, RateFollowsReceiver
<1> QED BY <1>2, RateInvariance, PTL
=============================================================================

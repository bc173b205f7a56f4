---------------------------- MODULE Dashboard_proofs ----------------------------
(***************************************************************************)
(* Proofs about Dashboard, for any clients, cameras, senders and queue     *)
(* lengths.                                                                *)
(***************************************************************************)
EXTENDS Dashboard, SequenceTheorems, TLAPS

\* Without one of its elements a sequence keeps the others, in their order.
LEMMA RemoveAtProperties ==
  ASSUME NEW S, NEW s \in Seq(S), NEW i \in 1 .. Len(s)
  PROVE  /\ RemoveAt(s, i) \in Seq(S)
         /\ Len(RemoveAt(s, i)) = Len(s) - 1
         /\ \A j \in 1 .. Len(s) - 1 :
              RemoveAt(s, i)[j] = IF j < i THEN s[j] ELSE s[j + 1]
<1> DEFINE front == SubSeq(s, 1, i - 1)
           back == SubSeq(s, i + 1, Len(s))
<1>1. Len(s) \in Nat /\ \A j \in 1 .. Len(s) : s[j] \in S
  BY LenProperties, ElementOfSeq
<1>2. /\ front \in Seq(S) /\ Len(front) = i - 1
      /\ \A j \in 1 .. i - 1 : front[j] = s[j]
  <2>1. i - 1 \in Int /\ 1 \in Int /\ \A j \in 1 .. i - 1 : s[j] \in S
    BY <1>1
  <2>2. /\ front \in Seq(S) /\ Len(front) = IF 1 <= i - 1 THEN i - 1 - 1 + 1 ELSE 0
        /\ \A j \in 1 .. i - 1 - 1 + 1 : front[j] = s[1 + j - 1]
    BY <2>1, SubSeqProperties
  <2>3. QED
    BY <1>1, <2>2
<1>3. /\ back \in Seq(S) /\ Len(back) = Len(s) - i
      /\ \A j \in 1 .. Len(s) - i : back[j] = s[i + j]
  <2>1. i + 1 \in Int /\ Len(s) \in Int /\ \A j \in i + 1 .. Len(s) : s[j] \in S
    BY <1>1
  <2>2. /\ back \in Seq(S) /\ Len(back) = IF i + 1 <= Len(s) THEN Len(s) - (i + 1) + 1 ELSE 0
        /\ \A j \in 1 .. Len(s) - (i + 1) + 1 : back[j] = s[i + 1 + j - 1]
    BY <2>1, SubSeqProperties
  <2>3. QED
    BY <1>1, <2>2
<1> HIDE DEF front, back
<1>4. /\ front \o back \in Seq(S)
      /\ Len(front \o back) = Len(front) + Len(back)
      /\ \A j \in 1 .. Len(front) + Len(back) :
           (front \o back)[j] = IF j <= Len(front) THEN front[j] ELSE back[j - Len(front)]
  BY <1>2, <1>3, ConcatProperties
<1>5. RemoveAt(s, i) = front \o back
  BY DEF RemoveAt, front, back
<1>6. ASSUME NEW j \in 1 .. Len(s) - 1
      PROVE  (front \o back)[j] = IF j < i THEN s[j] ELSE s[j + 1]
  <2>1. j \in 1 .. Len(front) + Len(back)
    BY <1>1, <1>2, <1>3
  <2>2. CASE j < i
    BY <1>1, <1>2, <1>4, <2>1, <2>2
  <2>3. CASE ~(j < i)
    <3>1. j - (i - 1) \in 1 .. Len(s) - i /\ i + (j - (i - 1)) = j + 1
      BY <1>1, <2>3
    <3>2. (front \o back)[j] = back[j - (i - 1)]
      BY <1>1, <1>2, <1>4, <2>1, <2>3
    <3>3. back[j - (i - 1)] = s[j + 1]
      BY <1>3, <3>1
    <3>4. QED
      BY <1>1, <2>3, <3>2, <3>3
  <2>4. QED
    BY <2>2, <2>3
<1>7. Len(front \o back) = Len(s) - 1
  BY <1>1, <1>2, <1>3, <1>4
<1>8. QED
  BY <1>4, <1>5, <1>6, <1>7

\* The place at which remove finds an element of a list without duplicates.
LEMMA RemoveFirstIsRemoveAt ==
  ASSUME NEW S, NEW s \in Seq(S), IsInjective(s), NEW i \in 1 .. Len(s)
  PROVE  RemoveFirst(s, s[i]) = RemoveAt(s, i)
<1>1. DOMAIN s = 1 .. Len(s)
  BY LenProperties
<1>2. {j \in 1 .. Len(s) : s[j] = s[i]} = {i}
  BY <1>1 DEF IsInjective
<1>3. Min({i}) = i
  BY DEF Min
<1>4. SelectInSeq(s, LAMBDA v : v = s[i]) = i
  BY <1>2, <1>3 DEF SelectInSeq
<1>5. QED
  BY <1>4 DEF RemoveFirst

\* list.remove, guarded by "in", on a list without duplicates.
LEMMA RemoveFirstProperties ==
  ASSUME NEW S, NEW s \in Seq(S), IsInjective(s), NEW w
  PROVE  /\ RemoveFirst(s, w) \in Seq(S)
         /\ IsInjective(RemoveFirst(s, w))
         /\ ToSet(RemoveFirst(s, w)) = ToSet(s) \ {w}
<1>1. DOMAIN s = 1 .. Len(s) /\ Len(s) \in Nat
  BY LenProperties
<1>2. CASE \E i \in 1 .. Len(s) : s[i] = w
  <2>1. PICK i \in 1 .. Len(s) : s[i] = w
    BY <1>2
  <2> DEFINE r == RemoveAt(s, i)
  <2>2. RemoveFirst(s, w) = r
    BY <2>1, RemoveFirstIsRemoveAt
  <2>3. /\ r \in Seq(S) /\ Len(r) = Len(s) - 1
        /\ \A j \in 1 .. Len(s) - 1 : r[j] = IF j < i THEN s[j] ELSE s[j + 1]
    BY RemoveAtProperties
  <2> HIDE DEF r
  <2>4. DOMAIN r = 1 .. Len(s) - 1
    BY <2>3, LenProperties
  <2>5. IsInjective(r)
    <3>1. SUFFICES ASSUME NEW a \in 1 .. Len(s) - 1, NEW b \in 1 .. Len(s) - 1, r[a] = r[b]
                   PROVE  a = b
      BY <2>4 DEF IsInjective
    <3>2. \A j, k \in 1 .. Len(s) : s[j] = s[k] => j = k
      BY <1>1 DEF IsInjective
    <3>3. a \in 1 .. Len(s) /\ a + 1 \in 1 .. Len(s) /\ b \in 1 .. Len(s) /\ b + 1 \in 1 .. Len(s)
      BY <1>1
    <3>4. (IF a < i THEN s[a] ELSE s[a + 1]) = (IF b < i THEN s[b] ELSE s[b + 1])
      BY <2>3, <3>1
    <3>5. QED
      BY <1>1, <3>2, <3>3, <3>4
  <2>6. ASSUME NEW v \in ToSet(r)
        PROVE  v \in ToSet(s) /\ v # w
    <3>1. PICK j \in 1 .. Len(s) - 1 : r[j] = v
      BY <2>4, <2>6 DEF ToSet
    <3>2. \A k \in 1 .. Len(s) : s[k] = s[i] => k = i
      BY <1>1 DEF IsInjective
    <3>3. j \in 1 .. Len(s) /\ j + 1 \in 1 .. Len(s)
      BY <1>1
    <3>4. \E k \in 1 .. Len(s) : k # i /\ v = s[k]
      BY <1>1, <2>3, <3>1, <3>3
    <3>5. QED
      BY <1>1, <2>1, <3>2, <3>4 DEF ToSet
  <2>7. ASSUME NEW v \in ToSet(s), v # w
        PROVE  v \in ToSet(r)
    <3>1. PICK k \in 1 .. Len(s) : s[k] = v /\ k # i
      BY <1>1, <2>1, <2>7 DEF ToSet
    <3>2. CASE k < i
      <4>1. k \in 1 .. Len(s) - 1 /\ r[k] = v
        BY <1>1, <2>3, <3>1, <3>2
      <4>2. QED
        BY <2>4, <4>1 DEF ToSet
    <3>3. CASE k > i
      <4>1. k - 1 \in 1 .. Len(s) - 1 /\ ~(k - 1 < i) /\ (k - 1) + 1 = k
        BY <1>1, <3>3
      <4>2. r[k - 1] = v
        BY <2>3, <3>1, <4>1
      <4>3. QED
        BY <2>4, <4>1, <4>2 DEF ToSet
    <3>4. QED
      BY <1>1, <3>1, <3>2, <3>3
  <2>8. QED
    BY <2>2, <2>3, <2>5, <2>6, <2>7
<1>3. CASE ~\E i \in 1 .. Len(s) : s[i] = w
  <2>1. RemoveFirst(s, w) = s
    BY <1>3 DEF RemoveFirst
  <2>2. w \notin ToSet(s)
    BY <1>1, <1>3 DEF ToSet
  <2>3. QED
    BY <2>1, <2>2
<1>4. QED
  BY <1>2, <1>3

\* list.append of a new element.
LEMMA AppendNew ==
  ASSUME NEW S, NEW s \in Seq(S), IsInjective(s), NEW w \in S, w \notin ToSet(s)
  PROVE  /\ Append(s, w) \in Seq(S)
         /\ IsInjective(Append(s, w))
         /\ ToSet(Append(s, w)) = ToSet(s) \cup {w}
<1>1. DOMAIN s = 1 .. Len(s) /\ Len(s) \in Nat
  BY LenProperties
<1>2. /\ Append(s, w) \in Seq(S) /\ Len(Append(s, w)) = Len(s) + 1
      /\ \A j \in 1 .. Len(s) : Append(s, w)[j] = s[j]
      /\ Append(s, w)[Len(s) + 1] = w
  BY AppendProperties
<1>3. DOMAIN Append(s, w) = 1 .. Len(s) + 1
  BY <1>2, LenProperties
<1>4. \A j \in 1 .. Len(s) : s[j] # w
  BY <1>1 DEF ToSet
<1>5. \A j \in 1 .. Len(s) + 1 : j \in 1 .. Len(s) \/ j = Len(s) + 1
  BY <1>1
<1>6. IsInjective(Append(s, w))
  BY <1>1, <1>2, <1>3, <1>4, <1>5 DEF IsInjective
<1>7. Len(s) + 1 \in 1 .. Len(s) + 1 /\ 1 .. Len(s) \subseteq 1 .. Len(s) + 1
  BY <1>1
<1>8. ToSet(Append(s, w)) = ToSet(s) \cup {w}
  BY <1>1, <1>2, <1>3, <1>5, <1>7 DEF ToSet
<1>9. QED
  BY <1>2, <1>6, <1>8

-----------------------------------------------------------------------------
\* The type invariant in four parts.
RemoteType ==
  /\ mqtt \in {"connecting", "timedOut", "serving", "ended"}
  /\ subscribed \in BOOLEAN
  /\ order \in Seq(Cameras) /\ index \in Nat
  /\ queues \in [Cameras -> 0 .. QueueLimit]
  /\ passed \subseteq Cameras \X Cameras

ClientType ==
  /\ endpoint \in [Sockets -> {"away", "accepting", "listening", "returned"}]
  /\ broken \subseteq Sockets /\ connections \in Seq(Sockets)

SendingType ==
  sending \in [Senders -> [phase : {"idle", "queued", "sending", "over"},
                           copy : Seq(Sockets), at : Nat \ {0}, told : SUBSET Sockets]]

ControlType ==
  /\ stopped \in BOOLEAN
  /\ main \in {"serving", "joining", "remote", "dashboard", "buffers", "done", "failed"}

LEMMA TypeParts == TypeOK <=> RemoteType /\ ClientType /\ SendingType /\ ControlType
BY DEF TypeOK, RemoteType, ClientType, SendingType, ControlType

\* The list of clients, its type included: each listed socket is listened to and
\* stands there once, and a socket that is listened to and whole is listed.
ClientInv == ClientType /\ ListedWhileListening

\* What disconnect leaves of the list.
LEMMA RemovedProperties ==
  ASSUME ClientInv, NEW w
  PROVE  /\ Removed(w) \in Seq(Sockets)
         /\ IsInjective(Removed(w))
         /\ ToSet(Removed(w)) = ToSet(connections) \ {w}
<1>1. connections \in Seq(Sockets) /\ IsInjective(connections)
  BY DEF ClientInv, ClientType, ListedWhileListening
<1>2. QED
  BY <1>1, RemoveFirstProperties DEF Removed

\* A socket that has just been accepted is not in the list.
LEMMA RegisterStep ==
  ASSUME ClientInv, NEW w \in Sockets, Register(w)
  PROVE  ClientInv'
<1>1. /\ connections \in Seq(Sockets) /\ IsInjective(connections)
      /\ w \notin ToSet(connections)
  BY DEF ClientInv, ClientType, ListedWhileListening, Register
<1>2. /\ connections' \in Seq(Sockets) /\ IsInjective(connections')
      /\ ToSet(connections') = ToSet(connections) \cup {w}
  BY <1>1, AppendNew DEF Register
<1>3. /\ endpoint' \in [Sockets -> {"away", "accepting", "listening", "returned"}]
      /\ \A v \in Sockets : endpoint'[v] = IF v = w THEN "listening" ELSE endpoint[v]
      /\ broken' = broken
  BY DEF Register, ClientInv, ClientType
<1>4. ToSet(connections) \subseteq Sockets
  BY <1>1 DEF ToSet
<1>5. ClientType'
  BY <1>2, <1>3 DEF ClientInv, ClientType
<1>6. ListedWhileListening'
  BY <1>2, <1>3, <1>4 DEF ClientInv, ListedWhileListening
<1>7. QED
  BY <1>5, <1>6 DEF ClientInv

\* An endpoint that ends takes its socket out of the list.
LEMMA ReceiveFailsStep ==
  ASSUME ClientInv, NEW w \in Sockets, ReceiveFails(w)
  PROVE  ClientInv'
<1>1. /\ connections' \in Seq(Sockets) /\ IsInjective(connections')
      /\ ToSet(connections') = ToSet(connections) \ {w}
  BY RemovedProperties DEF ReceiveFails
<1>2. /\ endpoint' \in [Sockets -> {"away", "accepting", "listening", "returned"}]
      /\ \A v \in Sockets : endpoint'[v] = IF v = w THEN "returned" ELSE endpoint[v]
      /\ broken' = broken
  BY DEF ReceiveFails, ClientInv, ClientType
<1>3. ToSet(connections) \subseteq Sockets
  BY DEF ToSet, ClientInv, ClientType
<1>4. ClientType'
  BY <1>1, <1>2 DEF ClientInv, ClientType
<1>5. ListedWhileListening'
  BY <1>1, <1>2, <1>3 DEF ClientInv, ListedWhileListening
<1>6. QED
  BY <1>4, <1>5 DEF ClientInv

\* A send that fails takes only a broken socket out of the list.
LEMMA SendFailsStep ==
  ASSUME ClientInv, NEW s \in Senders, SendFails(s)
  PROVE  ClientInv'
<1>1. PICK w \in broken : connections' = Removed(w)
  BY DEF SendFails
<1>2. /\ connections' \in Seq(Sockets) /\ IsInjective(connections')
      /\ ToSet(connections') = ToSet(connections) \ {w}
  BY <1>1, RemovedProperties
<1>3. UNCHANGED <<endpoint, broken>>
  BY DEF SendFails
<1>4. ClientType'
  BY <1>2, <1>3 DEF ClientInv, ClientType
<1>5. ListedWhileListening'
  BY <1>1, <1>2, <1>3 DEF ClientInv, ListedWhileListening
<1>6. QED
  BY <1>4, <1>5 DEF ClientInv

\* The other steps of endpoints, and a connection that breaks.
LEMMA EndpointStep ==
  ASSUME ClientInv, NEW w \in Sockets, Accept(w) \/ AcceptFails(w) \/ Break(w)
  PROVE  ClientInv'
<1> USE DEF ClientInv, ClientType, ListedWhileListening
<1>1. connections' = connections
  BY DEF Accept, AcceptFails, Break
<1>2. CASE Accept(w) \/ AcceptFails(w)
  <2>1. /\ endpoint' \in [Sockets -> {"away", "accepting", "listening", "returned"}]
        /\ endpoint[w] # "listening" /\ endpoint'[w] # "listening"
        /\ \A v \in Sockets : v # w => endpoint'[v] = endpoint[v]
        /\ broken' = broken
    BY <1>2 DEF Accept, AcceptFails
  <2>2. ToSet(connections) \subseteq Sockets
    BY DEF ToSet
  <2>3. QED
    BY <1>1, <2>1, <2>2
<1>3. CASE Break(w)
  BY <1>1, <1>3 DEF Break
<1>4. QED
  BY <1>2, <1>3

\* The steps of the remote thread, the poller and main_async.
LEMMA OthersLeaveClients ==
  ASSUME \/ Mqtt \/ \E c \in Cameras : AddFrame(c)
         \/ Poll \/ PollStops
         \/ \E s \in Posts : Post(s) \/ RunPost(s)
         \/ \E s \in Senders : Deliver(s) \/ FinishSending(s)
         \/ Sigterm \/ Interrupt \/ Main
  PROVE  UNCHANGED clients
BY DEF Mqtt, OnConnect, WaitTimesOut, Disconnect, AddFrame, Poll, PollStops, Post, RunPost,
       Deliver, FinishSending, Sigterm, Interrupt, Main, LeaveWait, JoinP2, CancelRemote,
       CancelDashboard, Cleanup

LEMMA ClientStep ==
  ASSUME ClientInv, [Next]_vars
  PROVE  ClientInv'
<1>1. CASE UNCHANGED clients
  BY <1>1 DEF clients, ClientInv, ClientType, ListedWhileListening
<1>2. ASSUME NEW w \in Sockets, Endpoint(w) \/ Break(w)
      PROVE  ClientInv'
  BY <1>2, RegisterStep, ReceiveFailsStep, EndpointStep DEF Endpoint
<1>3. ASSUME NEW s \in Senders, SendFails(s)
      PROVE  ClientInv'
  BY <1>3, SendFailsStep
<1>4. QED
  BY <1>1, <1>2, <1>3, OthersLeaveClients DEF Next, Broadcast, vars

-----------------------------------------------------------------------------
\* The remote thread and the scheduler keep their types.
LEMMA PollType ==
  ASSUME RemoteType, Poll
  PROVE  RemoteType'
<1>1. PICK k \in 0 .. Len(order) - 1 :
        LET i == (index + k) % Len(order)
            c == Place(i)
        IN /\ Waiting(c)
           /\ index' = Advance(i)
           /\ queues' = [queues EXCEPT ![c] = @ - 1]
           /\ passed' = {p \in passed : p[1] # c}
                          \cup {<<d, c>> : d \in {d \in Cameras : Waiting(d)} \ {c}}
  BY DEF Poll
<1> DEFINE i == (index + k) % Len(order)
           c == Place(i)
<1>2. Len(order) \in Nat /\ Len(order) > 0 /\ index + k \in Nat
  BY LenProperties DEF RemoteType
<1>3. i \in 0 .. Len(order) - 1
  BY <1>2
<1>4. i + 1 \in 1 .. Len(order)
  BY <1>2, <1>3
<1>5. c \in Cameras
  BY <1>4, ElementOfSeq DEF Place, RemoteType
<1>6. index' \in Nat
  <2>1. index' = Advance(i)
    BY <1>1
  <2>2. QED
    BY <1>2, <1>3, <2>1 DEF Advance
<1> HIDE DEF i
<1>7. queues' \in [Cameras -> 0 .. QueueLimit]
  <2>1. queues[c] - 1 \in 0 .. QueueLimit
    BY <1>1, <1>5, DashboardAssumption DEF Waiting, RemoteType, i
  <2>2. queues' = [queues EXCEPT ![c] = queues[c] - 1]
    BY <1>1 DEF i
  <2> HIDE DEF c
  <2>3. QED
    BY <1>5, <2>1, <2>2 DEF RemoteType
<1>8. passed' \subseteq Cameras \X Cameras
  <2>1. passed' = {p \in passed : p[1] # c}
                    \cup {<<d, c>> : d \in {d \in Cameras : Waiting(d)} \ {c}}
    BY <1>1 DEF i
  <2> HIDE DEF c
  <2>2. QED
    BY <1>5, <2>1 DEF RemoteType
<1>9. UNCHANGED <<mqtt, subscribed, order>>
  BY DEF Poll
<1>10. QED
  BY <1>6, <1>7, <1>8, <1>9 DEF RemoteType

LEMMA AddFrameType ==
  ASSUME RemoteType, NEW c \in Cameras, AddFrame(c)
  PROVE  RemoteType'
<1>1. order' \in Seq(Cameras)
  BY AppendProperties DEF AddFrame, RemoteType
<1>2. queues' \in [Cameras -> 0 .. QueueLimit]
  <2>1. queues[c] \in 0 .. QueueLimit
    BY DEF RemoteType
  <2>2. (IF queues[c] < QueueLimit THEN queues[c] + 1 ELSE queues[c]) \in 0 .. QueueLimit
    BY <2>1, DashboardAssumption
  <2>3. QED
    BY <2>2 DEF AddFrame, RemoteType
<1>3. QED
  BY <1>1, <1>2 DEF AddFrame, RemoteType

LEMMA RemoteStep ==
  ASSUME RemoteType, [Next]_vars
  PROVE  RemoteType'
<1>1. CASE UNCHANGED remote
  BY <1>1 DEF remote, RemoteType
<1>2. CASE Mqtt
  BY <1>2 DEF Mqtt, OnConnect, WaitTimesOut, Disconnect, RemoteType
<1>3. ASSUME NEW c \in Cameras, AddFrame(c)
      PROVE  RemoteType'
  BY <1>3, AddFrameType
<1>4. CASE Poll
  BY <1>4, PollType
<1>5. CASE \/ PollStops
           \/ \E s \in Posts : Post(s) \/ RunPost(s)
           \/ \E s \in Senders : Broadcast(s)
           \/ \E w \in Sockets : Endpoint(w) \/ Break(w)
           \/ Sigterm \/ Interrupt \/ Main
  <2>1. UNCHANGED remote
    BY <1>5 DEF PollStops, Post, RunPost, Broadcast, Deliver, SendFails, FinishSending,
                Endpoint, Accept, Register, AcceptFails, ReceiveFails, Break, Sigterm,
                Interrupt, Main, LeaveWait, JoinP2, CancelRemote, CancelDashboard, Cleanup
  <2>2. QED
    BY <1>1, <2>1
<1>6. QED
  BY <1>1, <1>2, <1>3, <1>4, <1>5 DEF Next, vars

-----------------------------------------------------------------------------
\* What a broadcast may be.
Broadcasts == [phase : {"idle", "queued", "sending", "over"},
               copy : Seq(Sockets), at : Nat \ {0}, told : SUBSET Sockets]

\* A sender that is given another broadcast leaves the others theirs.
LEMMA SenderType ==
  ASSUME SendingType, NEW s \in Senders, NEW b \in Broadcasts,
         sending' = [sending EXCEPT ![s] = b]
  PROVE  SendingType'
BY DEF SendingType, Broadcasts

LEMMA IdleType == Idle \in Broadcasts /\ Over \in Broadcasts
<1>1. <<>> \in Seq(Sockets)
  BY EmptySeq
<1>2. QED
  BY <1>1 DEF Idle, Over, Broadcasts

LEMMA BeginType ==
  ASSUME SendingType, ClientType, NEW s \in Senders, Begin(s)
  PROVE  SendingType'
<1>1. [phase |-> "sending", copy |-> connections, at |-> 1, told |-> {}] \in Broadcasts
  BY DEF ClientType, Broadcasts
<1>2. QED
  BY <1>1, SenderType DEF Begin

\* A broadcast goes on along its copy of the list.
LEMMA ReachType ==
  ASSUME SendingType, NEW s \in Senders, Deliver(s) \/ SendFails(s)
  PROVE  SendingType'
<1> DEFINE b == sending[s]
<1>1. b \in Broadcasts /\ b.at \in 1 .. Len(b.copy)
  BY DEF SendingType, Broadcasts, Deliver, SendFails, Reached, Targets
<1>2. b.copy[b.at] \in Sockets
  BY <1>1, ElementOfSeq DEF Broadcasts
<1>3. CASE Deliver(s)
  <2>1. sending' = [sending EXCEPT ![s] =
                      [b EXCEPT !.at = b.at + 1, !.told = b.told \cup {b.copy[b.at]}]]
    BY <1>3 DEF Deliver, Targets
  <2>2. [b EXCEPT !.at = b.at + 1, !.told = b.told \cup {b.copy[b.at]}] \in Broadcasts
    <3>1. b.at + 1 \in Nat \ {0} /\ b.told \cup {b.copy[b.at]} \in SUBSET Sockets
      BY <1>1, <1>2 DEF Broadcasts
    <3> HIDE DEF b
    <3>2. QED
      BY <1>1, <3>1 DEF Broadcasts
  <2>3. QED
    BY <2>1, <2>2, SenderType
<1>4. CASE SendFails(s)
  <2>1. sending' = [sending EXCEPT ![s] = [b EXCEPT !.at = b.at + 1]]
    BY <1>4 DEF SendFails
  <2>2. [b EXCEPT !.at = b.at + 1] \in Broadcasts
    BY <1>1 DEF Broadcasts
  <2>3. QED
    BY <2>1, <2>2, SenderType
<1>5. QED
  BY <1>3, <1>4

LEMMA SendingStep ==
  ASSUME SendingType, ClientType, [Next]_vars
  PROVE  SendingType'
<1>1. CASE UNCHANGED sending
  BY <1>1 DEF SendingType
<1>2. Poller \in Senders /\ Posts \subseteq Senders
  BY DEF Senders
<1>3. CASE Poll
  BY <1>2, <1>3, BeginType DEF Poll
<1>4. CASE PollStops \/ CancelRemote
  BY <1>2, <1>4, IdleType, SenderType DEF PollStops, CancelRemote
<1>5. ASSUME NEW s \in Posts, Post(s)
      PROVE  SendingType'
  <2>1. [sending[s] EXCEPT !.phase = "queued"] \in Broadcasts
    BY <1>2 DEF SendingType, Broadcasts
  <2>2. sending' = [sending EXCEPT ![s] = [sending[s] EXCEPT !.phase = "queued"]]
    BY <1>5 DEF Post
  <2>3. QED
    BY <1>2, <2>1, <2>2, SenderType
<1>6. ASSUME NEW s \in Posts, RunPost(s)
      PROVE  SendingType'
  BY <1>2, <1>6, BeginType DEF RunPost
<1>7. ASSUME NEW s \in Senders, Broadcast(s)
      PROVE  SendingType'
  BY <1>7, ReachType, IdleType, SenderType DEF Broadcast, FinishSending
<1>8. CASE \/ Mqtt \/ \E c \in Cameras : AddFrame(c)
           \/ \E w \in Sockets : Endpoint(w) \/ Break(w)
           \/ Sigterm \/ Interrupt \/ LeaveWait \/ JoinP2 \/ CancelDashboard \/ Cleanup
  <2>1. UNCHANGED sending
    BY <1>8 DEF Mqtt, OnConnect, WaitTimesOut, Disconnect, AddFrame, Endpoint, Accept, Register,
                AcceptFails, ReceiveFails, Break, Sigterm, Interrupt, LeaveWait, JoinP2,
                CancelDashboard, Cleanup
  <2>2. QED
    BY <1>1, <2>1
<1>9. QED
  BY <1>1, <1>3, <1>4, <1>5, <1>6, <1>7, <1>8 DEF Next, Main, vars

\* Where main_async is.
LEMMA ControlStep ==
  ASSUME ControlType, [Next]_vars
  PROVE  ControlType'
<1> USE DEF ControlType, control, vars
<1>1. CASE Sigterm \/ Interrupt \/ Main
  BY <1>1 DEF Sigterm, Interrupt, Main, LeaveWait, JoinP2, CancelRemote, CancelDashboard, Cleanup
<1>2. CASE ~(Sigterm \/ Interrupt \/ Main)
  <2>1. UNCHANGED control
    BY <1>2 DEF Next, Mqtt, OnConnect, WaitTimesOut, Disconnect, AddFrame, Poll, PollStops,
                Post, RunPost, Broadcast, Deliver, SendFails, FinishSending, Endpoint, Accept,
                Register, AcceptFails, ReceiveFails, Break
  <2>2. QED
    BY <2>1
<1>3. QED
  BY <1>1, <1>2

-----------------------------------------------------------------------------
\* The inductive invariant of the module.
DashboardInv == RemoteType /\ ClientInv /\ SendingType /\ ControlType

LEMMA DashboardInvariant == Spec => []DashboardInv
<1>1. ASSUME Init
      PROVE  DashboardInv
  <2>1. <<>> \in Seq(Sockets) /\ ToSet(<<>>) = {} /\ IsInjective(<<>>)
    BY EmptySeq DEF ToSet, IsInjective
  <2>2. ClientInv
    BY <1>1, <2>1 DEF Init, ClientInv, ClientType, ListedWhileListening
  <2>3. SendingType
    BY <1>1, IdleType DEF Init, SendingType, Broadcasts
  <2>4. RemoteType
    <3>1. 0 \in 0 .. QueueLimit
      BY DashboardAssumption
    <3>2. QED
      BY <1>1, <3>1, DashboardAssumption DEF Init, RemoteType
  <2>5. QED
    BY <1>1, <2>2, <2>3, <2>4 DEF Init, ControlType, DashboardInv
<1>2. DashboardInv /\ [Next]_vars => DashboardInv'
  BY RemoteStep, ClientStep, SendingStep, ControlStep DEF DashboardInv, ClientInv
<1>3. QED
  BY <1>1, <1>2, PTL DEF Spec

\* Every variable of the event loop and of the threads beside it keeps its type;
\* no camera's queue outgrows its limit.
THEOREM TypeCorrect == Spec => []TypeOK
<1>1. DashboardInv => TypeOK
  BY TypeParts DEF DashboardInv, ClientInv
<1>2. QED
  BY <1>1, DashboardInvariant, PTL

\* Whatever endpoints, broadcasts and failures do in whatever order, a client is
\* in the list once, exactly while its endpoint listens and it is whole.
THEOREM ClientsListed == Spec => []ListedWhileListening
<1>1. DashboardInv => ListedWhileListening
  BY DEF DashboardInv, ClientInv
<1>2. QED
  BY <1>1, DashboardInvariant, PTL

-----------------------------------------------------------------------------
\* What a broadcast that has come to its place owes: the clients before the place
\* were written to, or are no longer in the list.  None of the copy can come back
\* into the list, for its endpoint has listened already.
Reckoned(b) ==
  b.phase = "sending" =>
    \A j \in 1 .. Len(b.copy) :
      /\ endpoint[b.copy[j]] \in {"listening", "returned"}
      /\ j < b.at => b.copy[j] \in b.told \/ b.copy[j] \notin ToSet(connections)

AllReckoned == \A s \in Senders : Reckoned(sending[s])

\* A socket that has listened never listens anew, nor comes back into the list.
LEMMA ListenedOnce ==
  ASSUME ClientInv, [Next]_vars,
         NEW w \in Sockets, endpoint[w] \in {"listening", "returned"}
  PROVE  /\ endpoint'[w] \in {"listening", "returned"}
         /\ w \in ToSet(connections') => w \in ToSet(connections)
<1>1. CASE UNCHANGED clients
  BY <1>1 DEF clients
<1>2. ASSUME NEW v \in Sockets, Register(v)
      PROVE  /\ endpoint'[w] \in {"listening", "returned"}
             /\ w \in ToSet(connections') => w \in ToSet(connections)
  <2>1. /\ connections \in Seq(Sockets) /\ IsInjective(connections)
        /\ v \notin ToSet(connections)
    BY <1>2 DEF ClientInv, ClientType, ListedWhileListening, Register
  <2>2. ToSet(connections') = ToSet(connections) \cup {v}
    BY <1>2, <2>1, AppendNew DEF Register
  <2>3. w # v /\ endpoint'[w] = endpoint[w]
    BY <1>2 DEF Register, ClientInv, ClientType
  <2>4. QED
    BY <2>2, <2>3
<1>3. ASSUME NEW v \in Sockets, ReceiveFails(v)
      PROVE  /\ endpoint'[w] \in {"listening", "returned"}
             /\ w \in ToSet(connections') => w \in ToSet(connections)
  <2>1. ToSet(connections') = ToSet(connections) \ {v}
    BY <1>3, RemovedProperties DEF ReceiveFails
  <2>2. endpoint'[w] \in {endpoint[w], "returned"}
    BY <1>3 DEF ReceiveFails, ClientInv, ClientType
  <2>3. QED
    BY <2>1, <2>2
<1>4. ASSUME NEW v \in Sockets, Accept(v) \/ AcceptFails(v) \/ Break(v)
      PROVE  /\ endpoint'[w] \in {"listening", "returned"}
             /\ w \in ToSet(connections') => w \in ToSet(connections)
  BY <1>4 DEF Accept, AcceptFails, Break, ClientInv, ClientType
<1>5. ASSUME NEW s \in Senders, SendFails(s)
      PROVE  /\ endpoint'[w] \in {"listening", "returned"}
             /\ w \in ToSet(connections') => w \in ToSet(connections)
  <2>1. PICK v : connections' = Removed(v)
    BY <1>5 DEF SendFails
  <2>2. ToSet(connections') = ToSet(connections) \ {v}
    BY <2>1, RemovedProperties
  <2>3. endpoint' = endpoint
    BY <1>5 DEF SendFails
  <2>4. QED
    BY <2>2, <2>3
<1>6. QED
  BY <1>1, <1>2, <1>3, <1>4, <1>5, OthersLeaveClients DEF Next, Broadcast, Endpoint, vars

\* What a step may do to a sender's broadcast.
LEMMA SenderMoves ==
  ASSUME SendingType, [Next]_vars, NEW s \in Senders
  PROVE  \/ sending'[s] = sending[s]
         \/ sending'[s].phase # "sending"
         \/ /\ sending'[s] = [phase |-> "sending", copy |-> connections, at |-> 1, told |-> {}]
            /\ UNCHANGED clients
         \/ Deliver(s) \/ SendFails(s)
<1> DEFINE Moves ==
             \/ sending'[s] = sending[s]
             \/ sending'[s].phase # "sending"
             \/ /\ sending'[s] = [phase |-> "sending", copy |-> connections, at |-> 1,
                                  told |-> {}]
                /\ UNCHANGED clients
             \/ Deliver(s) \/ SendFails(s)
<1>1. CASE UNCHANGED sending
  BY <1>1
<1>2. Poller \in Senders /\ Posts \subseteq Senders
  BY DEF Senders
<1>3. ASSUME NEW t \in Senders, Begin(t), UNCHANGED clients
      PROVE  Moves
  BY <1>3 DEF Begin, SendingType
<1>4. ASSUME NEW t \in Senders, NEW b, b.phase # "sending",
             sending' = [sending EXCEPT ![t] = b]
      PROVE  Moves
  BY <1>4 DEF SendingType
<1>5. Idle.phase # "sending" /\ Over.phase # "sending"
  BY DEF Idle, Over
<1>6. ASSUME NEW t \in Senders, Deliver(t) \/ SendFails(t)
      PROVE  Moves
  <2>1. t # s => sending'[s] = sending[s]
    BY <1>6 DEF Deliver, SendFails, SendingType
  <2>2. QED
    BY <1>6, <2>1
<1>7. ASSUME NEW t \in Posts, Post(t)
      PROVE  Moves
  <2>1. sending' = [sending EXCEPT ![t] = [sending[t] EXCEPT !.phase = "queued"]]
    BY <1>7 DEF Post
  <2>2. [sending[t] EXCEPT !.phase = "queued"].phase # "sending"
    BY <1>2 DEF SendingType
  <2>3. QED
    BY <1>2, <1>4, <2>1, <2>2
<1>8. ASSUME NEW t \in Posts, RunPost(t)
      PROVE  Moves
  <2>1. Begin(t) /\ UNCHANGED clients
    BY <1>8 DEF RunPost
  <2>2. QED
    BY <1>2, <1>3, <2>1
<1>9. CASE Poll
  <2>1. Begin(Poller) /\ UNCHANGED clients
    BY <1>9 DEF Poll
  <2>2. QED
    BY <1>2, <1>3, <2>1
<1>10. CASE PollStops \/ CancelRemote
  <2>1. sending' = [sending EXCEPT ![Poller] = Over]
    BY <1>10 DEF PollStops, CancelRemote
  <2>2. QED
    BY <1>2, <1>4, <1>5, <2>1
<1>11. ASSUME NEW t \in Senders, FinishSending(t)
       PROVE  Moves
  <2>1. sending' = [sending EXCEPT ![t] = Idle]
    BY <1>11 DEF FinishSending
  <2>2. QED
    BY <1>4, <1>5, <2>1
<1>12. CASE \/ Mqtt \/ \E c \in Cameras : AddFrame(c)
            \/ \E w \in Sockets : Endpoint(w) \/ Break(w)
            \/ Sigterm \/ Interrupt \/ LeaveWait \/ JoinP2 \/ CancelDashboard \/ Cleanup
  <2>1. UNCHANGED sending
    BY <1>12 DEF Mqtt, OnConnect, WaitTimesOut, Disconnect, AddFrame, Endpoint, Accept,
                 Register, AcceptFails, ReceiveFails, Break, Sigterm, Interrupt, LeaveWait,
                 JoinP2, CancelDashboard, Cleanup
  <2>2. QED
    BY <1>1, <2>1
<1> HIDE DEF Moves
<1>13. Moves
  BY <1>6, <1>7, <1>8, <1>9, <1>10, <1>11, <1>12, <1>1 DEF Next, Broadcast, Main, vars, Moves
<1>14. QED
  BY <1>13 DEF Moves

\* A broadcast keeps owing nothing for the clients it has passed.
LEMMA ReckonedStep ==
  ASSUME ClientInv, SendingType, AllReckoned, [Next]_vars
  PROVE  AllReckoned'
<1> SUFFICES ASSUME NEW s \in Senders, sending'[s].phase = "sending",
                    NEW j \in 1 .. Len(sending'[s].copy)
             PROVE  LET b == sending'[s]
                    IN /\ endpoint'[b.copy[j]] \in {"listening", "returned"}
                       /\ j < b.at => b.copy[j] \in b.told \/ b.copy[j] \notin ToSet(connections')
  BY DEF AllReckoned, Reckoned
<1> DEFINE b == sending[s]
           w == b.copy[j]
<1>1. b \in Broadcasts
  BY DEF SendingType, Broadcasts
\* Where the copy is that of before, its clients have listened, and are no more
\* in the list than they were.
<1>2. ASSUME b.phase = "sending", sending'[s].copy = b.copy
      PROVE  /\ w \in Sockets
             /\ endpoint'[w] \in {"listening", "returned"}
             /\ w \in ToSet(connections') => w \in ToSet(connections)
             /\ j < b.at => w \in b.told \/ w \notin ToSet(connections)
  <2>1. w \in Sockets
    BY <1>1, <1>2, ElementOfSeq DEF Broadcasts
  <2>2. /\ endpoint[w] \in {"listening", "returned"}
        /\ j < b.at => w \in b.told \/ w \notin ToSet(connections)
    BY <1>2 DEF AllReckoned, Reckoned
  <2>3. QED
    BY <2>1, <2>2, ListenedOnce
<1>3. CASE sending'[s] = b
  BY <1>2, <1>3
<1>4. CASE /\ sending'[s] = [phase |-> "sending", copy |-> connections, at |-> 1, told |-> {}]
           /\ UNCHANGED clients
  <2>1. connections[j] \in ToSet(connections) /\ j >= 1
    <3>1. connections \in Seq(Sockets) /\ j \in 1 .. Len(connections)
      BY <1>4 DEF ClientInv, ClientType
    <3>2. j \in DOMAIN connections
      BY <3>1, LenProperties
    <3>3. QED
      BY <3>1, <3>2, LenProperties DEF ToSet
  <2>2. endpoint'[connections[j]] = "listening"
    BY <1>4, <2>1 DEF clients, ClientInv, ListedWhileListening
  <2>3. QED
    BY <1>4, <2>1, <2>2
<1>5. CASE Deliver(s)
  <2>1. /\ b.phase = "sending" /\ sending'[s].copy = b.copy
        /\ sending'[s].at = b.at + 1 /\ sending'[s].told = b.told \cup {b.copy[b.at]}
    BY <1>1, <1>5 DEF Deliver, Reached, Targets, SendingType, Broadcasts
  <2>2. j \in Int /\ b.at \in Int
    BY <1>1 DEF Broadcasts
  <2>3. j < b.at + 1 => j < b.at \/ j = b.at
    BY <2>2
  <2>4. QED
    BY <1>2, <2>1, <2>3
<1>6. CASE SendFails(s)
  <2>1. /\ b.phase = "sending" /\ sending'[s].copy = b.copy
        /\ sending'[s].at = b.at + 1 /\ sending'[s].told = b.told
        /\ connections' = Removed(b.copy[b.at])
    BY <1>1, <1>6 DEF SendFails, Reached, Targets, SendingType, Broadcasts
  <2>2. b.copy[b.at] \notin ToSet(connections')
    BY <2>1, RemovedProperties
  <2>3. j \in Int /\ b.at \in Int
    BY <1>1 DEF Broadcasts
  <2>4. j < b.at + 1 => j < b.at \/ j = b.at
    BY <2>3
  <2>5. QED
    BY <1>2, <2>1, <2>2, <2>4
<1>7. QED
  BY <1>3, <1>4, <1>5, <1>6, SenderMoves

\* Only the end of a broadcast makes a sender idle.
LEMMA IdleStays ==
  ASSUME SendingType, Next, ~\E t \in Senders : FinishSending(t), NEW s \in Senders
  PROVE  sending'[s] = sending[s] \/ sending'[s].phase # "idle"
<1>1. Poller \in Senders /\ Posts \subseteq Senders
  BY DEF Senders
<1>2. ASSUME NEW t \in Senders, NEW b, b.phase # "idle", sending' = [sending EXCEPT ![t] = b]
      PROVE  sending'[s] = sending[s] \/ sending'[s].phase # "idle"
  BY <1>2 DEF SendingType
<1>3. ASSUME NEW t \in Senders, Begin(t)
      PROVE  sending'[s] = sending[s] \/ sending'[s].phase # "idle"
  BY <1>3 DEF Begin, SendingType
<1>4. CASE UNCHANGED sending
  BY <1>4
<1>5. ASSUME NEW t \in Senders, Deliver(t) \/ SendFails(t)
      PROVE  sending'[s] = sending[s] \/ sending'[s].phase # "idle"
  <2>1. t # s => sending'[s] = sending[s]
    BY <1>5 DEF Deliver, SendFails, SendingType
  <2>2. t = s => sending'[s].phase = "sending"
    BY <1>5 DEF Deliver, SendFails, Reached, SendingType
  <2>3. QED
    BY <2>1, <2>2
<1>6. ASSUME NEW t \in Posts, Post(t)
      PROVE  sending'[s] = sending[s] \/ sending'[s].phase # "idle"
  <2>1. sending' = [sending EXCEPT ![t] = [sending[t] EXCEPT !.phase = "queued"]]
    BY <1>6 DEF Post
  <2>2. [sending[t] EXCEPT !.phase = "queued"].phase # "idle"
    BY <1>1 DEF SendingType
  <2>3. QED
    BY <1>1, <1>2, <2>1, <2>2
<1>7. CASE PollStops \/ CancelRemote
  <2>1. sending' = [sending EXCEPT ![Poller] = Over] /\ Over.phase # "idle"
    BY <1>7 DEF PollStops, CancelRemote, Over
  <2>2. QED
    BY <1>1, <1>2, <2>1
<1>8. ASSUME NEW t \in Posts, RunPost(t)
      PROVE  sending'[s] = sending[s] \/ sending'[s].phase # "idle"
  BY <1>1, <1>3, <1>8 DEF RunPost
<1>9. CASE Poll
  BY <1>1, <1>3, <1>9 DEF Poll
<1>10. CASE \/ Mqtt \/ \E c \in Cameras : AddFrame(c)
            \/ \E w \in Sockets : Endpoint(w) \/ Break(w)
            \/ Sigterm \/ Interrupt \/ LeaveWait \/ JoinP2 \/ CancelDashboard \/ Cleanup
  <2>1. UNCHANGED sending
    BY <1>10 DEF Mqtt, OnConnect, WaitTimesOut, Disconnect, AddFrame, Endpoint, Accept,
                 Register, AcceptFails, ReceiveFails, Break, Sigterm, Interrupt, LeaveWait,
                 JoinP2, CancelDashboard, Cleanup
  <2>2. QED
    BY <1>4, <2>1
<1>11. QED
  BY <1>5, <1>6, <1>7, <1>8, <1>9, <1>10 DEF Next, Broadcast, Main

\* A broadcast that ends has written to every client that was connected when it
\* began and still is, however many endpoints and other broadcasts took sockets
\* out of the list meanwhile.
THEOREM ClientsTold == Spec => EveryClientTold
<1>1. Init => AllReckoned
  BY DEF Init, AllReckoned, Reckoned, Idle
<1>2. DashboardInv /\ AllReckoned /\ [Next]_vars => AllReckoned'
  BY ReckonedStep DEF DashboardInv
<1>3. DashboardInv /\ AllReckoned /\ [Next]_vars =>
        [\A s \in Senders :
           sending[s].phase = "sending" /\ sending'[s].phase = "idle" =>
             ToSet(sending[s].copy) \cap ToSet(connections) \subseteq sending[s].told]_vars
  <2> SUFFICES ASSUME DashboardInv, AllReckoned, Next, NEW s \in Senders,
                      sending[s].phase = "sending", sending'[s].phase = "idle"
               PROVE  ToSet(sending[s].copy) \cap ToSet(connections) \subseteq sending[s].told
    OBVIOUS
  <2> DEFINE b == sending[s]
  <2>1. b \in Broadcasts
    BY DEF DashboardInv, SendingType, Broadcasts
  <2>2. b.at > Len(b.copy)
    <3>1. CASE \E t \in Senders : FinishSending(t)
      BY <3>1 DEF FinishSending, DashboardInv, SendingType, Targets
    <3>2. CASE ~\E t \in Senders : FinishSending(t)
      <4>1. sending'[s] = sending[s] \/ sending'[s].phase # "idle"
        BY <3>2, IdleStays DEF DashboardInv
      <4>2. QED
        BY <4>1
    <3>3. QED
      BY <3>1, <3>2
  <2>3. Len(b.copy) \in Nat /\ b.at \in Nat /\ DOMAIN b.copy = 1 .. Len(b.copy)
    BY <2>1, LenProperties DEF Broadcasts
  <2>4. \A j \in 1 .. Len(b.copy) : b.copy[j] \in b.told \/ b.copy[j] \notin ToSet(connections)
    BY <2>2, <2>3 DEF AllReckoned, Reckoned
  <2>5. QED
    BY <2>3, <2>4 DEF ToSet
<1>4. QED
  BY <1>1, <1>2, <1>3, DashboardInvariant, PTL DEF Spec, EveryClientTold

-----------------------------------------------------------------------------
\* How many places after the index the i-th camera is, round a ring of n.
Turn(i, start, n) == IF i > start THEN i - 1 - start ELSE i - 1 - start + n

\* A sum of two places wraps round once at most.
LEMMA Wrap ==
  ASSUME NEW n \in Nat, n > 0, NEW a \in Nat, a < 2 * n
  PROVE  a % n = IF a < n THEN a ELSE a - n
<1>1. CASE a < n
  BY <1>1
<1>2. CASE ~(a < n)
  <2> DEFINE b == a - n
  <2>1. b \in Nat /\ b < n /\ a = b + n
    BY <1>2
  <2> HIDE DEF b
  <2>2. (b + n) % n = b
    BY <2>1
  <2>3. QED
    BY <1>2, <2>1, <2>2
<1>3. QED
  BY <1>1, <1>2

\* The camera that is k places on, and what its poll makes of the turns: the
\* cameras after it come nearer by as much, and it goes to the end.
LEMMA RingTurns ==
  ASSUME NEW n \in Nat, n > 0, NEW start \in 0 .. n - 1, NEW k \in 0 .. n - 1,
         NEW q \in Nat, q = ((start + k) % n) + 1, NEW next \in Nat, next = q % n
  PROVE  /\ q \in 1 .. n /\ next \in 0 .. n - 1
         /\ Turn(q, start, n) = k
         /\ \A j \in 1 .. n :
              /\ Turn(j, start, n) \in 0 .. n - 1
              /\ Turn(j, start, n) = k => j = q
              /\ Turn(j, start, n) > k => Turn(j, next, n) = Turn(j, start, n) - k - 1
              /\ Turn(j, next, n) \in 0 .. n - 1
         /\ Turn(q, next, n) = n - 1
<1>1. q = IF start + k < n THEN start + k + 1 ELSE start + k - n + 1
  <2>1. (start + k) % n = IF start + k < n THEN start + k ELSE start + k - n
    BY Wrap
  <2>2. QED
    BY <2>1
<1>2. q \in 1 .. n
  BY <1>1
<1>3. next = IF q < n THEN q ELSE 0
  <2>1. q \in Nat /\ q < 2 * n /\ q <= n
    BY <1>2
  <2>2. q % n = IF q < n THEN q ELSE q - n
    BY <2>1, Wrap
  <2>3. QED
    BY <2>1, <2>2
<1>4. next \in 0 .. n - 1
  BY <1>2, <1>3
<1>5. Turn(q, start, n) = k
  BY <1>1 DEF Turn
<1>6. Turn(q, next, n) = n - 1
  BY <1>2, <1>3 DEF Turn
<1>7. ASSUME NEW j \in 1 .. n
      PROVE  /\ Turn(j, start, n) \in 0 .. n - 1
             /\ Turn(j, start, n) = k => j = q
             /\ Turn(j, start, n) > k => Turn(j, next, n) = Turn(j, start, n) - k - 1
             /\ Turn(j, next, n) \in 0 .. n - 1
  BY <1>1, <1>3 DEF Turn
<1>8. QED
  BY <1>2, <1>4, <1>5, <1>6, <1>7

\* A camera that joins stands at the end, which changes nobody's turn before
\* another's.
LEMMA JoinTurns ==
  ASSUME NEW n \in Nat, NEW start \in Nat, start = 0 \/ start < n,
         NEW i \in 1 .. n, NEW j \in 1 .. n, Turn(i, start, n) < Turn(j, start, n)
  PROVE  Turn(i, start, n + 1) < Turn(j, start, n + 1)
BY DEF Turn

\* The scheduler's order: every camera with frames stands in it once.
OrderInv ==
  /\ RemoteType
  /\ IsInjective(order)
  /\ index = 0 \/ index < Len(order)
  /\ \A c \in Cameras : Waiting(c) => c \in ToSet(order)

\* A camera with frames comes before every camera polled since it has them.
TurnsInv ==
  \A p \in passed :
    /\ Waiting(p[1]) /\ p[2] \in ToSet(order)
    /\ \A i, j \in 1 .. Len(order) :
         order[i] = p[1] /\ order[j] = p[2] =>
           Turn(i, index, Len(order)) < Turn(j, index, Len(order))

\* What a poll does: no camera before the polled one has frames.
LEMMA PollPlaces ==
  ASSUME OrderInv, Poll
  PROVE  \E k \in 0 .. Len(order) - 1, q \in 1 .. Len(order) :
           /\ q - 1 = (index + k) % Len(order)
           /\ order[q] \in Cameras /\ Waiting(order[q])
           /\ \A j \in 1 .. Len(order) :
                Turn(j, index, Len(order)) < k => ~Waiting(order[j])
           /\ index' = q % Len(order)
           /\ queues' = [queues EXCEPT ![order[q]] = @ - 1]
           /\ passed' = {p \in passed : p[1] # order[q]}
                          \cup {<<d, order[q]>> :
                                  d \in {d \in Cameras : Waiting(d)} \ {order[q]}}
           /\ order' = order
<1>1. PICK k \in 0 .. Len(order) - 1 :
        LET i == (index + k) % Len(order)
            c == Place(i)
        IN /\ Waiting(c)
           /\ \A j \in 0 .. k - 1 : ~Waiting(Place((index + j) % Len(order)))
           /\ index' = Advance(i)
           /\ queues' = [queues EXCEPT ![c] = @ - 1]
           /\ passed' = {p \in passed : p[1] # c}
                          \cup {<<d, c>> : d \in {d \in Cameras : Waiting(d)} \ {c}}
  BY DEF Poll
<1> DEFINE n == Len(order)
           i == (index + k) % n
           q == i + 1
<1>2. n \in Nat /\ n > 0 /\ index \in 0 .. n - 1
  BY LenProperties DEF OrderInv, RemoteType
<1>3. q \in 1 .. n
  <2> HIDE DEF n
  <2>1. q = ((index + k) % n) + 1
    OBVIOUS
  <2> DEFINE m == q % n
  <2>2. q \in Nat /\ m \in Nat /\ m = q % n
    BY <1>1, <1>2 DEF n
  <2> HIDE DEF q, m
  <2>3. k \in 0 .. n - 1
    BY DEF n
  <2>4. QED
    BY <1>2, <2>1, <2>2, <2>3, RingTurns
<1>4. order[q] \in Cameras
  BY <1>3, ElementOfSeq DEF OrderInv, RemoteType
<1>5. ASSUME NEW j \in 1 .. n, Turn(j, index, n) < k
      PROVE  ~Waiting(order[j])
  <2> DEFINE t == Turn(j, index, n)
  <2>1. t \in 0 .. n - 1
    <3> HIDE DEF n
    <3>1. QED
      BY <1>2 DEF Turn
  <2>2. j = ((index + t) % n) + 1
    <3> HIDE DEF n
    <3>1. Turn(j, index, n) = t
      OBVIOUS
    <3> HIDE DEF t
    <3> DEFINE r == ((index + t) % n) + 1
    <3> DEFINE m == r % n
    <3>2. r = ((index + t) % n) + 1 /\ r \in Nat /\ m \in Nat /\ m = r % n
      BY <1>2, <2>1
    <3> HIDE DEF r, m
    <3>3. j = r
      BY <1>2, <2>1, <3>1, <3>2, RingTurns
    <3>4. QED
      BY <3>2, <3>3
  <2>3. t \in 0 .. k - 1
    BY <1>5, <2>1
  <2> HIDE DEF t
  <2>4. ~Waiting(Place((index + t) % n))
    BY <1>1, <2>3
  <2>5. QED
    BY <2>2, <2>4 DEF Place
<1>6. Place(i) = order[q]
  BY DEF Place
<1>7. /\ Waiting(order[q])
      /\ queues' = [queues EXCEPT ![order[q]] = @ - 1]
      /\ passed' = {p \in passed : p[1] # order[q]}
                     \cup {<<d, order[q]>> : d \in {d \in Cameras : Waiting(d)} \ {order[q]}}
      /\ index' = q % n
  BY <1>1, <1>6 DEF Advance
<1>8. order' = order
  BY DEF Poll
<1>9. q - 1 = i
  <2>1. i \in Int
    BY <1>2
  <2> HIDE DEF i
  <2>2. QED
    BY <2>1
<1>10. WITNESS k \in 0 .. Len(order) - 1, q \in 1 .. Len(order)
<1> HIDE DEF i, q
<1>11. QED
  BY <1>4, <1>5, <1>7, <1>8, <1>9 DEF i

\* Every step keeps the order.
LEMMA OrderStep ==
  ASSUME OrderInv, [Next]_vars
  PROVE  OrderInv'
<1>1. RemoteType'
  BY RemoteStep DEF OrderInv
<1>2. CASE UNCHANGED <<order, index, queues>>
  BY <1>1, <1>2 DEF OrderInv, Waiting
<1>3. ASSUME NEW c \in Cameras, AddFrame(c)
      PROVE  OrderInv'
  <2>1. order \in Seq(Cameras) /\ IsInjective(order) /\ queues \in [Cameras -> 0 .. QueueLimit]
    BY DEF OrderInv, RemoteType
  <2>2. /\ IsInjective(order') /\ ToSet(order') = ToSet(order) \cup {c}
        /\ Len(order') >= Len(order)
    <3>1. CASE c \in ToSet(order)
      BY <1>3, <2>1, <3>1, LenProperties DEF AddFrame
    <3>2. CASE c \notin ToSet(order)
      <4>1. order' = Append(order, c)
        BY <1>3, <3>2 DEF AddFrame
      <4>2. Len(order') = Len(order) + 1 /\ Len(order) \in Nat
        BY <2>1, <4>1, AppendProperties, LenProperties
      <4>3. QED
        BY <2>1, <3>2, <4>1, <4>2, AppendNew
    <3>3. QED
      BY <3>1, <3>2
  <2>3. \A d \in Cameras : d # c => queues'[d] = queues[d]
    BY <1>3, <2>1 DEF AddFrame
  <2>4. index' = index
    BY <1>3 DEF AddFrame
  <2>5. index = 0 \/ index < Len(order')
    <3>1. Len(order) \in Nat /\ Len(order') \in Nat /\ index \in Nat
      BY <1>1, LenProperties DEF OrderInv, RemoteType
    <3>2. QED
      BY <2>2, <3>1 DEF OrderInv
  <2>6. QED
    BY <1>1, <2>2, <2>3, <2>4, <2>5 DEF OrderInv, Waiting
<1>4. CASE Poll
  <2>1. PICK q \in 1 .. Len(order) :
          /\ order[q] \in Cameras /\ Waiting(order[q])
          /\ index' = q % Len(order)
          /\ queues' = [queues EXCEPT ![order[q]] = @ - 1]
          /\ order' = order
    BY <1>4, PollPlaces
  <2>2. index' < Len(order)
    <3>1. Len(order) \in Nat /\ Len(order) > 0 /\ q \in Nat /\ q < 2 * Len(order)
      BY LenProperties DEF OrderInv, RemoteType
    <3> DEFINE n == Len(order)
    <3> HIDE DEF n
    <3>2. q % n = IF q < n THEN q ELSE q - n
      BY <3>1, Wrap DEF n
    <3>3. q <= n
      BY DEF n
    <3>4. QED
      BY <2>1, <3>1, <3>2, <3>3 DEF n
  <2>3. \A d \in Cameras : queues'[d] > 0 => queues[d] > 0
    BY <2>1 DEF OrderInv, RemoteType, Waiting
  <2>4. QED
    BY <1>1, <2>1, <2>2, <2>3 DEF OrderInv, Waiting
<1>5. CASE \/ Mqtt \/ PollStops
           \/ \E s \in Posts : Post(s) \/ RunPost(s)
           \/ \E s \in Senders : Broadcast(s)
           \/ \E w \in Sockets : Endpoint(w) \/ Break(w)
           \/ Sigterm \/ Interrupt \/ Main
  <2>1. UNCHANGED <<order, index, queues>>
    BY <1>5 DEF remote, Mqtt, OnConnect, WaitTimesOut, Disconnect, PollStops, Post, RunPost,
                Broadcast, Deliver, SendFails, FinishSending, Endpoint, Accept, Register,
                AcceptFails, ReceiveFails, Break, Sigterm, Interrupt, Main, LeaveWait, JoinP2,
                CancelRemote, CancelDashboard, Cleanup
  <2>2. QED
    BY <1>2, <2>1
<1>6. QED
  BY <1>2, <1>3, <1>4, <1>5 DEF Next, vars, remote

\* A poll keeps the turns of the cameras that still wait, and puts the one polled
\* behind them all.
LEMMA PollTurns ==
  ASSUME OrderInv, TurnsInv, Poll
  PROVE  /\ TurnsInv'
         /\ \A p \in passed : queues'[p[2]] >= queues[p[2]]
<1> DEFINE n == Len(order)
<1>1. PICK k \in 0 .. n - 1, q \in 1 .. n :
        /\ q - 1 = (index + k) % n
        /\ order[q] \in Cameras /\ Waiting(order[q])
        /\ \A j \in 1 .. n : Turn(j, index, n) < k => ~Waiting(order[j])
        /\ index' = q % n
        /\ queues' = [queues EXCEPT ![order[q]] = @ - 1]
        /\ passed' = {p \in passed : p[1] # order[q]}
                       \cup {<<d, order[q]>> : d \in {d \in Cameras : Waiting(d)} \ {order[q]}}
        /\ order' = order
  BY PollPlaces
<1>2. n \in Nat /\ n > 0 /\ index \in 0 .. n - 1
  BY LenProperties DEF OrderInv, RemoteType
<1>3. /\ DOMAIN order = 1 .. n /\ passed \subseteq Cameras \X Cameras
      /\ queues \in [Cameras -> 0 .. QueueLimit]
      /\ \A i, j \in 1 .. n : order[i] = order[j] => i = j
  BY LenProperties DEF OrderInv, RemoteType, IsInjective
<1> HIDE DEF n
<1>4. /\ Turn(q, index, n) = k
      /\ \A j \in 1 .. n :
           /\ Turn(j, index, n) \in 0 .. n - 1
           /\ Turn(j, index, n) = k => j = q
           /\ Turn(j, index, n) > k => Turn(j, index', n) = Turn(j, index, n) - k - 1
           /\ Turn(j, index', n) \in 0 .. n - 1
      /\ Turn(q, index', n) = n - 1
  <2>1. q = ((index + k) % n) + 1
    <3> DEFINE r == (index + k) % n
    <3>1. q - 1 = r
      BY <1>1
    <3> HIDE DEF r
    <3>2. q = r + 1
      BY <1>2, <3>1
    <3>3. QED
      BY <3>2 DEF r
  <2> DEFINE m == q % n
  <2>2. q \in Nat /\ m \in Nat /\ m = q % n
    BY <1>2
  <2>3. index' = m
    BY <1>1
  <2> HIDE DEF m
  <2>4. /\ Turn(q, index, n) = k
        /\ \A j \in 1 .. n :
             /\ Turn(j, index, n) \in 0 .. n - 1
             /\ Turn(j, index, n) = k => j = q
             /\ Turn(j, index, n) > k => Turn(j, m, n) = Turn(j, index, n) - k - 1
             /\ Turn(j, m, n) \in 0 .. n - 1
        /\ Turn(q, m, n) = n - 1
    BY <1>2, <2>1, <2>2, RingTurns
  <2>5. QED
    BY <2>3, <2>4
\* A camera with frames, other than the one polled, comes after it and so before
\* it from now on.
<1>5. ASSUME NEW j \in 1 .. n, Waiting(order[j]), j # q
      PROVE  /\ Turn(j, index, n) > k /\ Turn(j, index', n) = Turn(j, index, n) - k - 1
             /\ Turn(j, index', n) < n - 1
  <2>1. Turn(j, index, n) \in 0 .. n - 1 /\ ~(Turn(j, index, n) < k) /\ Turn(j, index, n) # k
    BY <1>1, <1>4, <1>5
  <2>2. Turn(j, index, n) > k
    BY <2>1
  <2>3. Turn(j, index', n) = Turn(j, index, n) - k - 1
    BY <1>4, <2>2
  <2>4. Turn(j, index', n) < n - 1
    <3>1. \A t \in 0 .. n - 1 : t - k - 1 < n - 1
      BY <1>2
    <3>2. QED
      BY <2>1, <2>3, <3>1
  <2>5. QED
    BY <2>2, <2>3, <2>4
<1>6. \A d \in Cameras : d # order[q] => queues'[d] = queues[d]
  BY <1>1, <1>3
<1>7. ASSUME NEW p \in passed
      PROVE  p[2] # order[q]
  <2>1. Waiting(p[1]) /\ p[1] \in Cameras
    BY <1>3 DEF TurnsInv
  <2>2. PICK i \in 1 .. n : order[i] = p[1]
    BY <1>3, <2>1 DEF OrderInv, ToSet
  <2>3. ASSUME p[2] = order[q]
        PROVE  FALSE
    <3>1. Turn(i, index, n) < Turn(q, index, n)
      BY <2>2, <2>3 DEF TurnsInv, n
    <3>2. Turn(i, index, n) < k
      BY <1>4, <3>1
    <3>3. QED
      BY <1>1, <2>1, <2>2, <3>2
  <2>4. QED
    BY <2>3
<1>8. ASSUME NEW p \in passed'
      PROVE  /\ Waiting(p[1])' /\ p[2] \in ToSet(order)
             /\ \A i, j \in 1 .. n :
                  order[i] = p[1] /\ order[j] = p[2] => Turn(i, index', n) < Turn(j, index', n)
  <2>1. CASE p \in passed /\ p[1] # order[q]
    <3>1. /\ Waiting(p[1]) /\ p[2] \in ToSet(order) /\ p[1] \in Cameras
          /\ \A i, j \in 1 .. n :
               order[i] = p[1] /\ order[j] = p[2] => Turn(i, index, n) < Turn(j, index, n)
      BY <1>3, <2>1 DEF TurnsInv, n
    <3>2. Waiting(p[1])'
      BY <1>6, <2>1, <3>1 DEF Waiting
    <3>3. ASSUME NEW i \in 1 .. n, NEW j \in 1 .. n, order[i] = p[1], order[j] = p[2]
          PROVE  Turn(i, index', n) < Turn(j, index', n)
      <4>1. Turn(i, index, n) < Turn(j, index, n)
        BY <3>1, <3>3
      <4>2. Turn(i, index, n) > k /\ Turn(i, index', n) = Turn(i, index, n) - k - 1
        <5>1. i # q /\ Waiting(order[i])
          BY <2>1, <3>1, <3>3
        <5>2. QED
          BY <1>5, <5>1
      <4>3. /\ Turn(i, index, n) \in 0 .. n - 1 /\ Turn(j, index, n) \in 0 .. n - 1
            /\ Turn(j, index, n) > k
        BY <1>4, <4>1, <4>2
      <4>4. Turn(j, index', n) = Turn(j, index, n) - k - 1
        BY <1>4, <4>3
      <4>5. QED
        BY <4>1, <4>2, <4>3, <4>4
    <3>4. QED
      BY <3>1, <3>2, <3>3
  <2>2. CASE \E d \in Cameras : Waiting(d) /\ d # order[q] /\ p = <<d, order[q]>>
    <3>1. Waiting(p[1]) /\ p[1] \in Cameras /\ p[1] # order[q] /\ p[2] = order[q]
      BY <2>2
    <3>2. Waiting(p[1])'
      BY <1>6, <3>1 DEF Waiting
    <3>3. p[2] \in ToSet(order)
      BY <1>3, <3>1 DEF ToSet
    <3>4. ASSUME NEW i \in 1 .. n, NEW j \in 1 .. n, order[i] = p[1], order[j] = p[2]
          PROVE  Turn(i, index', n) < Turn(j, index', n)
      <4>1. j = q /\ i # q /\ Waiting(order[i])
        BY <1>3, <3>1, <3>4
      <4>2. QED
        BY <1>4, <1>5, <4>1
    <3>5. QED
      BY <3>2, <3>3, <3>4
  <2>3. QED
    BY <1>1, <1>8, <2>1, <2>2
<1>9. TurnsInv'
  BY <1>1, <1>8 DEF TurnsInv, n
<1>10. ASSUME NEW p \in passed
       PROVE  queues'[p[2]] >= queues[p[2]]
  <2>1. p[2] \in Cameras /\ queues[p[2]] \in 0 .. QueueLimit
    BY <1>3
  <2>2. queues'[p[2]] = queues[p[2]]
    BY <1>6, <1>7, <2>1
  <2>3. QED
    BY <2>1, <2>2
<1>11. QED
  BY <1>9, <1>10

\* A frame that arrives takes nobody's turn, be its camera known or not.
LEMMA AddFrameTurns ==
  ASSUME OrderInv, TurnsInv, NEW c \in Cameras, AddFrame(c)
  PROVE  /\ TurnsInv'
         /\ \A p \in passed : queues'[p[2]] >= queues[p[2]]
<1> DEFINE n == Len(order)
<1>1. /\ order \in Seq(Cameras) /\ DOMAIN order = 1 .. n /\ n \in Nat /\ index \in Nat
      /\ passed \subseteq Cameras \X Cameras /\ queues \in [Cameras -> 0 .. QueueLimit]
      /\ index = 0 \/ index < n
  BY LenProperties DEF OrderInv, RemoteType
<1>2. \A d \in Cameras : queues'[d] >= queues[d]
  BY <1>1 DEF AddFrame
<1>3. index' = index /\ passed' = passed
  BY DEF AddFrame
<1>4. \A p \in passed : p[1] \in Cameras /\ p[2] \in Cameras
  BY <1>1
<1>5. \A p \in passed : Waiting(p[1])'
  <2>1. ASSUME NEW d \in Cameras, queues[d] > 0
        PROVE  queues'[d] > 0
    <3>1. queues[d] \in 0 .. QueueLimit /\ queues'[d] \in {queues[d], queues[d] + 1}
      BY <1>1 DEF AddFrame
    <3>2. QED
      BY <2>1, <3>1
  <2>2. QED
    BY <1>4, <2>1 DEF TurnsInv, Waiting
<1>6. CASE order' = order
  BY <1>3, <1>5, <1>2, <1>4, <1>6 DEF TurnsInv
<1>7. CASE c \notin ToSet(order) /\ order' = Append(order, c)
  <2>1. /\ Len(order') = n + 1
        /\ \A j \in 1 .. n : order'[j] = order[j]
        /\ order'[n + 1] = c
    BY <1>1, <1>7, AppendProperties
  <2>2. ToSet(order') = ToSet(order) \cup {c}
    BY <1>1, <1>7, AppendNew DEF OrderInv
  <2>3. ASSUME NEW p \in passed, NEW i \in 1 .. n + 1, NEW j \in 1 .. n + 1,
               order'[i] = p[1], order'[j] = p[2]
        PROVE  Turn(i, index, n + 1) < Turn(j, index, n + 1)
    <3>1. p[1] # c /\ p[2] # c
      BY <1>4, <1>7 DEF TurnsInv, OrderInv
    <3>2. i \in 1 .. n /\ j \in 1 .. n
      BY <1>1, <2>1, <2>3, <3>1
    <3>3. order[i] = p[1] /\ order[j] = p[2]
      BY <2>1, <2>3, <3>2
    <3>4. Turn(i, index, n) < Turn(j, index, n)
      BY <3>2, <3>3 DEF TurnsInv
    <3> HIDE DEF n
    <3>5. QED
      BY <1>1, <3>2, <3>4, JoinTurns
  <2>4. TurnsInv'
    BY <1>3, <1>5, <2>1, <2>2, <2>3 DEF TurnsInv
  <2>5. QED
    BY <1>2, <1>4, <2>4
<1>8. QED
  BY <1>6, <1>7 DEF AddFrame

LEMMA TurnsStep ==
  ASSUME OrderInv, TurnsInv, [Next]_vars
  PROVE  /\ TurnsInv'
         /\ \A p \in passed : queues'[p[2]] >= queues[p[2]]
<1>1. CASE UNCHANGED <<order, index, queues, passed>>
  <2>1. \A p \in passed : p[2] \in Cameras /\ queues[p[2]] \in 0 .. QueueLimit
    BY DEF OrderInv, RemoteType
  <2>2. \A p \in passed : queues'[p[2]] >= queues[p[2]]
    BY <1>1, <2>1
  <2>3. QED
    BY <1>1, <2>2 DEF TurnsInv, Waiting
<1>2. ASSUME NEW c \in Cameras, AddFrame(c)
      PROVE  TurnsInv' /\ \A p \in passed : queues'[p[2]] >= queues[p[2]]
  BY <1>2, AddFrameTurns
<1>3. CASE Poll
  BY <1>3, PollTurns
<1>4. CASE \/ Mqtt \/ PollStops
           \/ \E s \in Posts : Post(s) \/ RunPost(s)
           \/ \E s \in Senders : Broadcast(s)
           \/ \E w \in Sockets : Endpoint(w) \/ Break(w)
           \/ Sigterm \/ Interrupt \/ Main
  <2>1. UNCHANGED <<order, index, queues, passed>>
    BY <1>4 DEF remote, Mqtt, OnConnect, WaitTimesOut, Disconnect, PollStops, Post, RunPost,
                Broadcast, Deliver, SendFails, FinishSending, Endpoint, Accept, Register,
                AcceptFails, ReceiveFails, Break, Sigterm, Interrupt, Main, LeaveWait, JoinP2,
                CancelRemote, CancelDashboard, Cleanup
  <2>2. QED
    BY <1>1, <2>1
<1>5. QED
  BY <1>1, <1>2, <1>3, <1>4 DEF Next, vars, remote

\* For any number of cameras, of which any may join the order at any time: while a
\* camera has frames waiting no other camera is polled twice.
THEOREM TurnsFair == Spec => FairTurns
<1>1. Init => OrderInv /\ TurnsInv
  <2>1. SUFFICES ASSUME Init
                 PROVE  OrderInv /\ TurnsInv
    OBVIOUS
  <2>2. RemoteType
    <3>1. 0 \in 0 .. QueueLimit
      BY DashboardAssumption
    <3>2. QED
      BY <2>1, <3>1, DashboardAssumption DEF Init, RemoteType
  <2>3. QED
    BY <2>1, <2>2, DashboardAssumption DEF Init, OrderInv, TurnsInv, Waiting
<1>2. OrderInv /\ TurnsInv /\ [Next]_vars => OrderInv' /\ TurnsInv'
  BY OrderStep, TurnsStep
<1>3. OrderInv /\ TurnsInv /\ [Next]_vars => [\A p \in passed : queues'[p[2]] >= queues[p[2]]]_vars
  BY TurnsStep
<1>4. QED
  BY <1>1, <1>2, <1>3, PTL DEF Spec, FairTurns
=============================================================================

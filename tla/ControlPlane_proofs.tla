-------------------------- MODULE ControlPlane_proofs --------------------------
(***************************************************************************)
(* Proofs about ControlPlane, for any number of events, devices, senders   *)
(* and handler threads, and any losses, copies and delays.                 *)
(***************************************************************************)
EXTENDS ControlPlane, TLAPS

\* The type invariant in two parts: of the events, and of what counts.
EventType ==
  /\ requests \subseteq Request /\ replies \subseteq Decision
  /\ taken \in [Handlers -> SUBSET Request] /\ decided \in [Handlers -> SUBSET Decision]
  /\ DOMAIN stored \subseteq Events /\ \A e \in DOMAIN stored : stored[e] \in Bodies
  /\ acknowledged \subseteq Events
  /\ created \in [Events -> Nat]

CountType ==
  /\ beats \subseteq [device : Devices, number : 1 .. MaxBeats]
  /\ heartbeat \in [Devices -> 0 .. MaxBeats] /\ sent \in [Devices -> 0 .. MaxBeats]
  /\ restarts \in 0 .. MaxRestarts /\ wrong \in 0 .. MaxWrong

\* The type invariant is its two parts.
LEMMA TypeParts == TypeOK <=> EventType /\ CountType
BY DEF TypeOK, EventType, CountType

\* A reply that tells of an event is one of those in Told, and no others are.
LEMMA ToldMembers ==
  ASSUME NEW d
  PROVE  d \in Told <=> d \in replies \/ \E h \in Handlers : d \in decided[h]
BY DEF Told

\* Ingesting an event keeps the types, what was stored, and stores an event
\* that is not stored yet.
LEMMA IngestStores ==
  ASSUME EventType, NEW h \in Handlers, NEW r \in taken[h],
         IF r.key THEN Keep(r.event, r.body) ELSE UNCHANGED stored
  PROVE  /\ r \in Request
         /\ DOMAIN stored' \subseteq Events /\ \A e \in DOMAIN stored' : stored'[e] \in Bodies
         /\ \A e \in DOMAIN stored : e \in DOMAIN stored' /\ stored'[e] = stored[e]
         /\ Status(r) # "409" => r.event \in DOMAIN stored'
         /\ Status(r) = "201" => r.event \notin DOMAIN stored
         /\ Status(r) # "201" => stored' = stored
         /\ Status(r) \in {"201", "200", "409"}
<1>1. r \in Request
  BY DEF EventType
<1>2. r.event \in Events /\ r.body \in Bodies /\ r.key \in BOOLEAN
  BY <1>1 DEF Request
<1>3. CASE r.key /\ Accepts(r.event)
  <2>1. stored' = With(r.event, r.body)
    BY <1>3 DEF Keep
  <2>2. /\ DOMAIN stored' = DOMAIN stored \cup {r.event}
        /\ \A e \in DOMAIN stored' : stored'[e] = IF e = r.event THEN r.body ELSE stored[e]
    BY <2>1 DEF With
  <2>3. Status(r) = "201" /\ r.event \notin DOMAIN stored
    BY <1>3 DEF Status, Accepts
  <2>4. QED
    BY <1>1, <1>2, <2>2, <2>3 DEF EventType
<1>4. CASE ~r.key
  <2>1. stored' = stored /\ Status(r) = "409"
    BY <1>4 DEF Status
  <2>2. QED
    BY <1>1, <2>1 DEF EventType
<1>5. CASE r.key /\ ~Accepts(r.event)
  <2>1. stored' = stored /\ Status(r) = "200" /\ r.event \in DOMAIN stored
    BY <1>5 DEF Keep, Status, Accepts
  <2>2. QED
    BY <1>1, <2>1 DEF EventType
<1>6. QED
  BY <1>3, <1>4, <1>5

\* Every step keeps the types of the events.
LEMMA EventTypeStep ==
  ASSUME EventType, [Next]_vars
  PROVE  EventType'
<1> USE DEF vars, network, devices
<1>1. CASE UNCHANGED vars
  BY <1>1 DEF EventType
<1>2. ASSUME NEW e \in Events, NEW b \in Bodies, NEW k \in BOOLEAN, Send(e, b, k)
      PROVE  EventType'
  BY <1>2 DEF Send, EventType, Request
<1>3. ASSUME NEW r \in requests, LoseRequest(r)
      PROVE  EventType'
  BY <1>3 DEF LoseRequest, EventType
<1>4. ASSUME NEW r \in replies, LoseReply(r) \/ Hear(r)
      PROVE  EventType'
  BY <1>4 DEF LoseReply, Hear, EventType, Decision
<1>5. ASSUME NEW d \in Devices, Beat(d)
      PROVE  EventType'
  BY <1>5 DEF Beat, EventType
<1>6. ASSUME NEW h \in Handlers, Ingest(h)
      PROVE  EventType'
  <2>1. PICK r \in taken[h] :
          /\ IF r.key THEN Keep(r.event, r.body) ELSE UNCHANGED stored
          /\ taken' = [taken EXCEPT ![h] = {}]
          /\ decided' = [decided EXCEPT ![h] = {[event |-> r.event, status |-> Status(r)]}]
          /\ created' = [created EXCEPT ![r.event] = IF Status(r) = "201" THEN @ + 1 ELSE @]
          /\ UNCHANGED <<network, devices, restarts>>
    BY <1>6 DEF Ingest
  <2>2. /\ r \in Request /\ Status(r) \in {"201", "200", "409"}
        /\ DOMAIN stored' \subseteq Events /\ \A e \in DOMAIN stored' : stored'[e] \in Bodies
    BY <2>1, IngestStores
  <2>3. [event |-> r.event, status |-> Status(r)] \in Decision
    BY <2>2 DEF Request, Decision
  <2>4. taken' \in [Handlers -> SUBSET Request] /\ decided' \in [Handlers -> SUBSET Decision]
    BY <2>1, <2>3 DEF EventType
  <2>5. created' \in [Events -> Nat]
    <3>1. r.event \in Events /\ created \in [Events -> Nat]
      BY <2>2 DEF Request, EventType
    <3>2. created[r.event] + 1 \in Nat /\ created[r.event] \in Nat
      BY <3>1
    <3>3. QED
      BY <2>1, <3>1, <3>2
  <2>6. QED
    BY <2>1, <2>2, <2>4, <2>5 DEF EventType
<1>7. ASSUME NEW h \in Handlers, Reply(h)
      PROVE  EventType'
  BY <1>7 DEF Reply, EventType
<1>8. ASSUME NEW h \in Handlers, NEW r \in requests, Receive(h, r)
      PROVE  EventType'
  BY <1>8 DEF Receive, EventType
<1>9. ASSUME NEW b \in beats, SaveHeartbeat(b)
      PROVE  EventType'
  BY <1>9 DEF SaveHeartbeat, EventType
<1>10. CASE Restart
  BY <1>10 DEF Restart, EventType, Idle, NothingStored
<1>11. QED
  BY <1>1, <1>2, <1>3, <1>4, <1>5, <1>6, <1>7, <1>8, <1>9, <1>10 DEF Next, Handle

\* Every step keeps the heartbeats in their types and the bounds.
LEMMA CountTypeStep ==
  ASSUME CountType, [Next]_vars
  PROVE  CountType'
<1> USE ControlAssumption DEF vars, network, devices
<1>1. CASE UNCHANGED vars
  BY <1>1 DEF CountType
<1>2. ASSUME NEW e \in Events, NEW b \in Bodies, NEW k \in BOOLEAN, Send(e, b, k)
      PROVE  CountType'
  BY <1>2 DEF Send, CountType
<1>3. ASSUME NEW r \in requests, LoseRequest(r)
      PROVE  CountType'
  BY <1>3 DEF LoseRequest, CountType
<1>4. ASSUME NEW r \in replies, LoseReply(r) \/ Hear(r)
      PROVE  CountType'
  BY <1>4 DEF LoseReply, Hear, CountType
<1>5. ASSUME NEW d \in Devices, Beat(d)
      PROVE  CountType'
  <2>1. sent[d] + 1 \in 1 .. MaxBeats
    BY <1>5 DEF Beat, CountType
  <2>2. sent' \in [Devices -> 0 .. MaxBeats]
    BY <1>5, <2>1 DEF Beat, CountType
  <2>3. beats' \subseteq [device : Devices, number : 1 .. MaxBeats]
    BY <1>5, <2>1 DEF Beat, CountType
  <2>4. QED
    BY <1>5, <2>2, <2>3 DEF Beat, CountType
<1>6. ASSUME NEW h \in Handlers, Handle(h) \/ \E r \in requests : Receive(h, r)
      PROVE  CountType'
  BY <1>6 DEF Handle, Ingest, Reply, Receive, CountType
<1>7. ASSUME NEW b \in beats, SaveHeartbeat(b)
      PROVE  CountType'
  <2>1. b.device \in Devices /\ b.number \in 0 .. MaxBeats
    BY DEF CountType
  <2>2. heartbeat' \in [Devices -> 0 .. MaxBeats]
    BY <1>7, <2>1 DEF SaveHeartbeat, CountType
  <2>3. QED
    BY <1>7, <2>2 DEF SaveHeartbeat, CountType
<1>8. CASE Restart
  BY <1>8 DEF Restart, CountType
<1>9. QED
  BY <1>1, <1>2, <1>3, <1>4, <1>5, <1>6, <1>7, <1>8 DEF Next

\* Every variable of the control plane keeps its type, and every bound holds.
THEOREM TypeCorrect == Spec => []TypeOK
<1>1. Init => TypeOK
  BY ControlAssumption DEF Init, TypeOK, Idle, NothingStored
<1>2. TypeOK /\ [Next]_vars => TypeOK'
  <2>1. SUFFICES ASSUME TypeOK, [Next]_vars
                 PROVE  EventType' /\ CountType'
    BY DEF TypeOK, EventType, CountType
  <2>2. EventType /\ CountType
    BY <2>1, TypeParts
  <2>3. QED
    BY <2>1, <2>2, EventTypeStep, CountTypeStep
<1>3. QED
  BY <1>1, <1>2, PTL DEF Spec

-----------------------------------------------------------------------------
\* Why an event is created once: 201 was answered only for what is stored now.
Counted ==
  \A e \in Events : created[e] <= 1 /\ (e \notin DOMAIN stored => created[e] = 0)

\* Why senders may rely on an answer: only what is stored is answered so.
Relied ==
  restarts = 0 =>
    /\ acknowledged \subseteq DOMAIN stored
    /\ \A d \in replies : d.status # "409" => d.event \in DOMAIN stored
    /\ \A h \in Handlers : \A d \in decided[h] : d.status # "409" => d.event \in DOMAIN stored

CreatedInv == TypeOK /\ Counted /\ Relied

\* Whatever threads, retries and copies do, an answer of 201 is counted at most
\* once for an event, and only while the repository holds it.
LEMMA CountedStep ==
  ASSUME EventType, Counted, [Next]_vars
  PROVE  Counted'
<1> USE DEF vars, network, devices
<1>1. ASSUME NEW h \in Handlers, Ingest(h)
      PROVE  Counted'
  <2>1. PICK r \in taken[h] :
          /\ IF r.key THEN Keep(r.event, r.body) ELSE UNCHANGED stored
          /\ created' = [created EXCEPT ![r.event] = IF Status(r) = "201" THEN @ + 1 ELSE @]
    BY <1>1 DEF Ingest
  <2>2. /\ r \in Request
        /\ \A e \in DOMAIN stored : e \in DOMAIN stored'
        /\ Status(r) # "409" => r.event \in DOMAIN stored'
        /\ Status(r) = "201" => r.event \notin DOMAIN stored
    BY <2>1, IngestStores
  <2>3. r.event \in Events
    BY <2>2 DEF Request
  <2>4. CASE Status(r) = "201"
    <3>1. created[r.event] = 0
      BY <2>2, <2>3, <2>4 DEF Counted
    <3>2. \A e \in Events : created'[e] = IF e = r.event THEN 1 ELSE created[e]
      BY <2>1, <2>3, <2>4, <3>1 DEF EventType
    <3>3. QED
      BY <2>2, <2>4, <3>2 DEF Counted
  <2>5. CASE Status(r) # "201"
    <3>1. \A e \in Events : created'[e] = created[e]
      BY <2>1, <2>3, <2>5 DEF EventType
    <3>2. QED
      BY <2>2, <3>1 DEF Counted
  <2>6. QED
    BY <2>4, <2>5
<1>2. CASE Restart
  BY <1>2 DEF Restart, Counted, NothingStored
<1>3. CASE UNCHANGED <<stored, created>>
  BY <1>3 DEF Counted
<1>4. QED
  BY <1>1, <1>2, <1>3 DEF Next, Handle, Send, LoseRequest, LoseReply, Hear, Beat, Reply,
                          Receive, SaveHeartbeat

\* Until a restart, nobody is told of an event that is not stored.
LEMMA ReliedStep ==
  ASSUME EventType, CountType, Relied, [Next]_vars
  PROVE  Relied'
<1> USE DEF vars, network, devices
<1>1. ASSUME NEW h \in Handlers, Ingest(h)
      PROVE  Relied'
  <2>1. PICK r \in taken[h] :
          /\ IF r.key THEN Keep(r.event, r.body) ELSE UNCHANGED stored
          /\ decided' = [decided EXCEPT ![h] = {[event |-> r.event, status |-> Status(r)]}]
          /\ UNCHANGED <<acknowledged, replies, restarts>>
    BY <1>1 DEF Ingest
  <2>2. /\ \A e \in DOMAIN stored : e \in DOMAIN stored'
        /\ Status(r) # "409" => r.event \in DOMAIN stored'
    BY <2>1, IngestStores
  <2>3. ASSUME restarts' = 0, NEW g \in Handlers, NEW d \in decided'[g], d.status # "409"
        PROVE  d.event \in DOMAIN stored'
    <3>1. CASE g = h
      <4>1. d = [event |-> r.event, status |-> Status(r)]
        BY <2>1, <2>3, <3>1 DEF EventType
      <4>2. QED
        BY <2>2, <2>3, <4>1
    <3>2. CASE g # h
      <4>1. d \in decided[g]
        BY <2>1, <2>3, <3>2 DEF EventType
      <4>2. QED
        BY <2>1, <2>2, <2>3, <4>1 DEF Relied
    <3>3. QED
      BY <3>1, <3>2
  <2>4. QED
    BY <2>1, <2>2, <2>3 DEF Relied
<1>2. ASSUME NEW h \in Handlers, Reply(h)
      PROVE  Relied'
  <2>1. PICK d \in decided[h] :
          /\ replies' = replies \cup {d}
          /\ decided' = [decided EXCEPT ![h] = {}]
          /\ UNCHANGED <<acknowledged, stored, restarts>>
    BY <1>2 DEF Reply
  <2>2. \A g \in Handlers : decided'[g] \subseteq decided[g]
    BY <2>1 DEF EventType
  <2>3. QED
    BY <2>1, <2>2 DEF Relied
<1>3. ASSUME NEW r \in replies, LoseReply(r) \/ Hear(r)
      PROVE  Relied'
  BY <1>3 DEF LoseReply, Hear, Relied
<1>4. CASE Restart
  BY <1>4 DEF Restart, Relied, CountType
<1>5. CASE UNCHANGED <<replies, decided, stored, acknowledged, restarts>>
  BY <1>5 DEF Relied
<1>6. QED
  BY <1>1, <1>2, <1>3, <1>4, <1>5 DEF Next, Handle, Send, LoseRequest, Beat, Receive,
                                      SaveHeartbeat

\* The invariant behind the two theorems that follow.
LEMMA CreatedInvariant == Spec => []CreatedInv
<1>1. Init => Counted /\ Relied
  BY DEF Init, Counted, Relied, Idle, NothingStored
<1>2. TypeOK /\ Counted /\ Relied /\ [Next]_vars => Counted' /\ Relied'
  BY TypeParts, CountedStep, ReliedStep
<1>3. QED
  BY <1>1, <1>2, TypeCorrect, PTL DEF Spec, CreatedInv

\* However requests are lost, copied and reordered, and however many threads
\* ingest them, an event is answered 201 once between two restarts, and until the
\* first restart every answer that an event is known is true.
THEOREM EventsCreatedOnce == Spec => []CreatedOnce
<1>1. CreatedInv => CreatedOnce
  BY ToldMembers DEF CreatedInv, Counted, Relied, CreatedOnce
<1>2. QED
  BY <1>1, CreatedInvariant, PTL

\* The body an event was first accepted with is never replaced by that of a
\* retry: every step but a restart keeps what is stored.
THEOREM BodiesStay == Spec => FirstBodyStays
<1>1. TypeOK /\ [Next]_vars =>
        [restarts' = restarts =>
           \A e \in DOMAIN stored : e \in DOMAIN stored' /\ stored'[e] = stored[e]]_vars
  <2> SUFFICES ASSUME TypeOK, Next, restarts' = restarts
               PROVE  \A e \in DOMAIN stored : e \in DOMAIN stored' /\ stored'[e] = stored[e]
    OBVIOUS
  <2> USE DEF network, devices
  <2>1. EventType /\ CountType
    BY TypeParts
  <2>2. ASSUME NEW h \in Handlers, Ingest(h)
        PROVE  \A e \in DOMAIN stored : e \in DOMAIN stored' /\ stored'[e] = stored[e]
    <3>1. PICK r \in taken[h] : IF r.key THEN Keep(r.event, r.body) ELSE UNCHANGED stored
      BY <2>2 DEF Ingest
    <3>2. QED
      BY <2>1, <3>1, IngestStores
  <2>3. ~Restart
    BY <2>1 DEF Restart, CountType
  <2>4. CASE UNCHANGED stored
    BY <2>4
  <2>5. QED
    BY <2>2, <2>3, <2>4 DEF Next, Handle, Send, LoseRequest, LoseReply, Hear, Beat, Reply,
                            Receive, SaveHeartbeat
<1>2. QED
  BY <1>1, TypeCorrect, PTL DEF Spec, FirstBodyStays
=============================================================================

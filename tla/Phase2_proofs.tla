---------------------------- MODULE Phase2_proofs ---------------------------
(***************************************************************************)
(* Proofs about the Phase 2 runtime: PosePath, for any number of tracks    *)
(* and cameras, any priorities and any sizes of queues and batches; and    *)
(* ByteTracker, whose tracks it asks poses for, for any set of detections  *)
(* per frame, any track buffer and any number of updates.                  *)
(***************************************************************************)
EXTENDS PosePath, ByteTracker, FiniteSetTheorems, SequenceTheorems, TLAPS

(***************************************************************************)
(* The types, and that the worker has a pose to put where it puts one.     *)
(***************************************************************************)
ControlType ==
  /\ now \in Nat
  /\ pc \in [Threads -> Locations]
  /\ stop \in BOOLEAN
  /\ number \in Nat
  /\ captured \in Nat
  /\ pending \in SUBSET Tracks
  /\ asked \in Nat
  /\ lastAsked \in [Tracks -> Nat]
  /\ dropped \in Nat
  /\ offered \in Nat
  /\ fetched \in Nat

DataType ==
  /\ requests \in SUBSET Requests
  /\ batch \in Seq(Requests)
  /\ Len(batch) <= BatchSize
  /\ DOMAIN out = Threads
  /\ out["consumer"] \in Seq(Nat)
  /\ out["worker"] \in Seq(Requests)
  /\ posed \in [Tracks -> Nat]

HoldsPose == pc["worker"] \in {"infer", "put", "evict", "enqueue"} => batch # <<>>

LEMMA ControlTypeStep ==
  ASSUME ControlType, DataType, [Next]_vars
  PROVE  ControlType'
<1> USE DEF consumerVars, queueVars, clientVars
<1>0. Threads = {"consumer", "worker"}
  BY DEF Threads
<1>1. ASSUME NEW t \in Threads, Leave(t) \/ Put(t) \/ Evict(t)
      PROVE  ControlType'
  BY <1>1 DEF Leave, Put, Evict, Move, ControlType, Locations
<1>2. CASE Receive
  <2>1. pending' \in SUBSET Tracks
    BY <1>2 DEF Receive
  <2>2. now \in Nat /\ captured' \in 0 .. now
    BY <1>2 DEF Receive, ControlType
  <2>3. captured' \in Nat
    BY <2>2
  <2>4. pc' = [pc EXCEPT !["consumer"] = "put"]
    BY <1>2 DEF Receive, Move
  <2>5. pc' \in [Threads -> Locations]
    BY <2>4 DEF ControlType, Locations
  <2>6. QED
    BY <1>2, <2>1, <2>3, <2>5 DEF Receive, ControlType
<1>3. CASE PutTracks
  BY <1>3 DEF PutTracks, Move, ControlType, Locations
<1>4. CASE Request
  <2>1. PICK t \in pending :
          /\ \/ UNCHANGED <<lastAsked, queueVars>>
             \/ /\ dropped' = dropped \/ dropped' = dropped + 1
                /\ lastAsked' = [lastAsked EXCEPT ![t] = asked]
                /\ offered' = offered + 1 /\ UNCHANGED fetched
             \/ /\ dropped' = dropped + 1
                /\ offered' = offered + 1 /\ UNCHANGED <<lastAsked, fetched>>
          /\ pending' = pending \ {t}
          /\ \/ pc' = [pc EXCEPT !["consumer"] = "poll"] /\ asked' = 0 /\ captured' = 0
             \/ UNCHANGED <<pc, asked, captured>>
          /\ UNCHANGED <<now, stop, number>>
    BY <1>4 DEF Request, Move, Accept
  <2>2. t \in Tracks
    BY DEF ControlType
  <2>3. QED
    BY <2>1, <2>2 DEF ControlType, Locations
<1>5. CASE BeginGet \/ GetNothing \/ BeginBatch \/ EndBatch \/ InferPoses \/ InferFails
  BY <1>5 DEF BeginGet, GetNothing, BeginBatch, EndBatch, InferPoses, InferFails, Move, ControlType, Locations
<1>6. CASE Get
  BY <1>6 DEF Get, ControlType
<1>7. CASE PutPose
  BY <1>7 DEF PutPose, Move, ControlType, Locations
<1>8. CASE Stop
  BY <1>8 DEF Stop, ControlType
<1>8a. CASE Tick
  BY <1>8a DEF Tick, ControlType
<1>8b. CASE UNCHANGED vars
  BY <1>8b DEF vars, ControlType
<1>9. CASE \E t \in Threads : Fetch(t)
  BY <1>9 DEF Fetch, ControlType
<1>10. QED
  BY <1>0, <1>1, <1>2, <1>3, <1>4, <1>5, <1>6, <1>7, <1>8, <1>8a, <1>8b, <1>9
     DEF Next, Consumer, Worker

LEMMA DataTypeStep ==
  ASSUME ControlType, DataType, HoldsPose, [Next]_vars
  PROVE  DataType' /\ HoldsPose'
<1> USE DEF consumerVars, queueVars, clientVars
<1>0. Threads = {"consumer", "worker"} /\ pc \in [Threads -> Locations]
  BY DEF Threads, ControlType
<1>1. CASE /\ UNCHANGED <<requests, batch, out, posed>>
           /\ pc'["worker"] = pc["worker"] \/ batch # <<>>
              \/ pc'["worker"] \in {"poll", "collect", "stopped"}
  BY <1>1 DEF DataType, HoldsPose
<1>2. ASSUME NEW t \in Threads, Leave(t) \/ Put(t)
      PROVE  DataType' /\ HoldsPose'
  BY <1>0, <1>1, <1>2 DEF Leave, Put, Move, At, HoldsPose
<1>3. ASSUME NEW t \in Threads, Evict(t)
      PROVE  DataType' /\ HoldsPose'
  <2>1. /\ DOMAIN out' = Threads
        /\ out'["consumer"] \in Seq(Nat)
        /\ out'["worker"] \in Seq(Requests)
    <3>1. CASE out[t] = <<>>
      BY <1>3, <3>1 DEF Evict, DataType
    <3>2. CASE out[t] # <<>>
      <4>1. out' = [out EXCEPT ![t] = Tail(@)]
        BY <1>3, <3>2 DEF Evict
      <4>2. CASE t = "consumer"
        <5>1. Tail(out["consumer"]) \in Seq(Nat)
          BY <3>2, <4>2, HeadTailProperties DEF DataType
        <5>2. QED
          BY <1>0, <4>1, <4>2, <5>1 DEF DataType
      <4>3. CASE t = "worker"
        <5>1. Tail(out["worker"]) \in Seq(Requests)
          BY <3>2, <4>3, HeadTailProperties DEF DataType
        <5>2. QED
          BY <1>0, <4>1, <4>3, <5>1 DEF DataType
      <4>4. QED
        BY <1>0, <4>2, <4>3
    <3>3. QED
      BY <3>1, <3>2
  <2>2. QED
    BY <1>0, <1>3, <2>1 DEF Evict, Move, At, DataType, HoldsPose
<1>4. ASSUME NEW t \in Threads, Fetch(t)
      PROVE  DataType' /\ HoldsPose'
  <2>1. out' = [out EXCEPT ![t] = Tail(@)] /\ out[t] # <<>>
    BY <1>4 DEF Fetch
  <2>2. CASE t = "consumer"
    <3>1. Tail(out["consumer"]) \in Seq(Nat)
      BY <2>1, <2>2, HeadTailProperties DEF DataType
    <3>2. QED
      BY <1>0, <1>4, <2>1, <2>2, <3>1 DEF Fetch, DataType, HoldsPose
  <2>3. CASE t = "worker"
    <3>1. Tail(out["worker"]) \in Seq(Requests) /\ Head(out["worker"]) \in Requests
      BY <2>1, <2>3, HeadTailProperties DEF DataType
    <3>2. posed' = [posed EXCEPT ![Head(out["worker"]).track] = Head(out["worker"]).number]
      BY <1>4, <2>3 DEF Fetch
    <3>3. posed' \in [Tracks -> Nat]
      BY <3>1, <3>2 DEF DataType, Requests
    <3>4. QED
      BY <1>0, <1>4, <2>1, <2>3, <3>1, <3>3 DEF Fetch, DataType, HoldsPose
  <2>4. QED
    BY <1>0, <2>2, <2>3
<1>5. CASE Receive
  BY <1>0, <1>1, <1>5 DEF Receive, Move
<1>6. CASE PutTracks
  <2>1. Append(out["consumer"], number) \in Seq(Nat)
    BY AppendProperties DEF DataType, ControlType
  <2>2. out' = [out EXCEPT !["consumer"] = Append(@, number)]
    BY <1>6 DEF PutTracks
  <2>3. pc'["worker"] = pc["worker"]
    BY <1>0, <1>6 DEF PutTracks, Move
  <2>4. QED
    BY <1>0, <1>6, <2>1, <2>2, <2>3 DEF PutTracks, DataType, HoldsPose
<1>7. CASE Request
  <2>1. PICK t \in pending :
          /\ requests' \subseteq requests \union
               {[track |-> t, number |-> number, asked |-> asked, captured |-> captured]}
          /\ UNCHANGED <<batch, out, posed>>
          /\ pc' = [pc EXCEPT !["consumer"] = "poll"] \/ UNCHANGED pc
    BY <1>7 DEF Request, Accept, Move
  <2>2. t \in Tracks /\ number \in Nat /\ asked \in Nat /\ captured \in Nat
    BY DEF ControlType
  <2>3. requests' \in SUBSET Requests
    BY <2>1, <2>2 DEF DataType, Requests
  <2>4. pc'["worker"] = pc["worker"]
    BY <1>0, <2>1
  <2>5. QED
    BY <2>1, <2>3, <2>4 DEF DataType, HoldsPose
<1>8. CASE BeginGet \/ GetNothing \/ BeginBatch \/ EndBatch \/ InferPoses
  BY <1>0, <1>1, <1>8 DEF BeginGet, GetNothing, BeginBatch, EndBatch, InferPoses, Move, At, HoldsPose
<1>9. CASE InferFails
  <2>1. batch' = <<>> /\ Len(batch') = 0 /\ batch' \in Seq(Requests)
    BY <1>9 DEF InferFails
  <2>2. 0 <= BatchSize
    BY PoseAssumption
  <2>3. QED
    BY <1>0, <1>9, <2>1, <2>2 DEF InferFails, Move, DataType, HoldsPose
<1>10. CASE Get
  <2>1. PICK r \in Best : /\ requests' = requests \ {r}
                          /\ batch' = IF Fresh(r) THEN Append(batch, r) ELSE batch
    BY <1>10 DEF Get
  <2>2. r \in Requests /\ requests' \in SUBSET Requests
    BY <2>1 DEF Best, DataType
  <2>3. Append(batch, r) \in Seq(Requests) /\ Len(Append(batch, r)) = Len(batch) + 1
    BY <2>2, AppendProperties DEF DataType
  <2>4. Len(batch) < BatchSize /\ Len(batch) \in Nat /\ BatchSize \in Nat
    BY <1>10, LenProperties, PoseAssumption DEF Get, DataType
  <2>5. batch' \in Seq(Requests) /\ Len(batch') <= BatchSize
    BY <2>1, <2>3, <2>4 DEF DataType
  <2>6. UNCHANGED <<pc, out, posed>> /\ pc["worker"] = "collect"
    BY <1>10 DEF Get, At
  <2>7. QED
    BY <2>2, <2>5, <2>6 DEF DataType, HoldsPose
<1>11. CASE PutPose
  <2>1. batch # <<>>
    BY <1>11 DEF PutPose, At, HoldsPose
  <2>2. /\ Head(batch) \in Requests /\ Tail(batch) \in Seq(Requests)
        /\ Len(Tail(batch)) = Len(batch) - 1
    BY <2>1, HeadTailProperties DEF DataType
  <2>3. Append(out["worker"], Head(batch)) \in Seq(Requests)
    BY <2>2, AppendProperties DEF DataType
  <2>4. Len(batch) \in Nat /\ BatchSize \in Nat
    BY LenProperties, PoseAssumption DEF DataType
  <2>5. /\ out' = [out EXCEPT !["worker"] = Append(@, Head(batch))]
        /\ batch' = Tail(batch)
        /\ UNCHANGED <<requests, posed>>
        /\ pc' = [pc EXCEPT !["worker"] = IF Len(batch) = 1 THEN "poll" ELSE "put"]
    BY <1>11 DEF PutPose, Move
  <2>6. DataType'
    BY <1>0, <2>2, <2>3, <2>4, <2>5 DEF DataType
  <2>7. HoldsPose'
    <3>1. CASE Len(batch) = 1
      BY <1>0, <2>5, <3>1 DEF HoldsPose
    <3>2. CASE Len(batch) # 1
      <4>1. Len(batch') # 0
        BY <2>2, <2>4, <2>5, <3>2
      <4>2. batch' # <<>>
        BY <4>1
      <4>3. QED
        BY <4>2 DEF HoldsPose
    <3>3. QED
      BY <3>1, <3>2
  <2>8. QED
    BY <2>6, <2>7
<1>12. CASE Stop \/ Tick \/ UNCHANGED vars
  BY <1>1, <1>12 DEF Stop, Tick, vars
<1>13. QED
  BY <1>0, <1>2, <1>3, <1>4, <1>5, <1>6, <1>7, <1>8, <1>9, <1>10, <1>11, <1>12
     DEF Next, Consumer, Worker
-----------------------------------------------------------------------------
(***************************************************************************)
(* The steps by what they do to the data.                                  *)
(***************************************************************************)
dataVars == <<number, pending, lastAsked, queueVars, batch, out, posed>>

Quiet == UNCHANGED dataVars

NewRequest(t) == [track |-> t, number |-> number, asked |-> asked, captured |-> captured]

LEMMA StepKinds ==
  ASSUME [Next]_vars
  PROVE  \/ Quiet
         \/ \E t \in Threads : Evict(t) \/ Fetch(t)
         \/ Receive \/ PutTracks \/ Request \/ Get \/ InferFails \/ PutPose
<1> USE DEF consumerVars, queueVars, clientVars, dataVars, Quiet, Threads
<1>1. ASSUME NEW t \in Threads, Leave(t) \/ Put(t)
      PROVE  Quiet
  BY <1>1 DEF Leave, Put
<1>2. CASE BeginGet \/ GetNothing \/ BeginBatch \/ EndBatch \/ InferPoses
  BY <1>2 DEF BeginGet, GetNothing, BeginBatch, EndBatch, InferPoses
<1>3. CASE Stop
  BY <1>3 DEF Stop
<1>4. CASE Tick
  BY <1>4 DEF Tick
<1>5. CASE UNCHANGED vars
  BY <1>5 DEF vars
<1>6. QED
  BY <1>1, <1>2, <1>3, <1>4, <1>5 DEF Next, Consumer, Worker

(***************************************************************************)
(* What a step of the consumer's loop over the tracks does to the queue:   *)
(* nothing, or a request is offered, and accepted or refused.              *)
(***************************************************************************)
LEMMA RequestEffect ==
  ASSUME Request
  PROVE  \E t \in pending :
           /\ pending' = pending \ {t}
           /\ UNCHANGED <<number, batch, out, posed, fetched>>
           /\ \/ UNCHANGED <<lastAsked, requests, dropped, offered>>
              \/ /\ ~TooSoon(t)
                 /\ Accept(NewRequest(t))
                 /\ lastAsked' = [lastAsked EXCEPT ![t] = asked]
                 /\ offered' = offered + 1
              \/ /\ UNCHANGED <<lastAsked, requests>>
                 /\ dropped' = dropped + 1
                 /\ offered' = offered + 1
BY DEF Request, NewRequest, queueVars, clientVars

LEMMA AcceptEffect ==
  ASSUME NEW r, Accept(r)
  PROVE  requests' \subseteq requests \union {r}
BY DEF Accept

(***************************************************************************)
(* Sequences by their elements.                                            *)
(***************************************************************************)
Elements(q) == {q[i] : i \in DOMAIN q}

Later(R, S) == \A r \in R, s \in S : r.track = s.track => r.number < s.number

Rising(q) ==
  \A i, j \in DOMAIN q : i < j /\ q[i].track = q[j].track => q[i].number < q[j].number

\* What appending does to the elements and to their order.
Appends(q, e) ==
  /\ Elements(Append(q, e)) = Elements(q) \union {e}
  /\ Rising(q) /\ Later(Elements(q), {e}) => Rising(Append(q, e))

LEMMA AppendElements ==
  ASSUME NEW S, NEW q \in Seq(S), NEW e \in S
  PROVE  Appends(q, e)
<1> DEFINE p == Append(q, e)
<1>1. /\ p \in Seq(S) /\ Len(q) \in Nat /\ Len(p) = Len(q) + 1
      /\ DOMAIN q = 1 .. Len(q) /\ DOMAIN p = 1 .. Len(p)
      /\ \A i \in 1 .. Len(q) : p[i] = q[i]
      /\ p[Len(q) + 1] = e
  BY AppendProperties, LenProperties
<1> HIDE DEF p
<1>2. DOMAIN p = DOMAIN q \union {Len(q) + 1} /\ Len(q) + 1 \notin DOMAIN q
  BY <1>1
<1>3. Elements(p) = Elements(q) \union {e}
  <2>1. ASSUME NEW x \in Elements(p)
        PROVE  x \in Elements(q) \union {e}
    BY <1>1, <1>2 DEF Elements
  <2>2. ASSUME NEW x \in Elements(q)
        PROVE  x \in Elements(p)
    BY <1>1, <1>2 DEF Elements
  <2>3. e \in Elements(p)
    BY <1>1, <1>2 DEF Elements
  <2>4. QED
    BY <2>1, <2>2, <2>3
<1>4. ASSUME Rising(q), Later(Elements(q), {e})
      PROVE  Rising(p)
  <2> SUFFICES ASSUME NEW i \in DOMAIN p, NEW j \in DOMAIN p, i < j, p[i].track = p[j].track
               PROVE  p[i].number < p[j].number
    BY DEF Rising
  <2>1. i \in DOMAIN q /\ p[i] = q[i]
    BY <1>1
  <2>2. CASE j \in DOMAIN q
    BY <1>1, <1>4, <2>1, <2>2 DEF Rising
  <2>3. CASE j = Len(q) + 1
    <3>1. q[i] \in Elements(q) /\ p[j] = e
      BY <1>1, <2>1, <2>3 DEF Elements
    <3>2. QED
      BY <1>4, <2>1, <3>1 DEF Later
  <2>4. QED
    BY <1>2, <2>2, <2>3
<1>5. QED
  BY <1>3, <1>4 DEF p, Appends

LEMMA TailElements ==
  ASSUME NEW S, NEW q \in Seq(S), q # <<>>
  PROVE  /\ Elements(Tail(q)) \subseteq Elements(q)
         /\ Head(q) \in Elements(q)
         /\ Rising(q) => Rising(Tail(q)) /\ Later({Head(q)}, Elements(Tail(q)))
<1> DEFINE p == Tail(q)
<1>1. /\ Head(q) = q[1] /\ Len(q) \in Nat /\ Len(p) = Len(q) - 1 /\ Len(q) # 0
      /\ DOMAIN q = 1 .. Len(q) /\ DOMAIN p = 1 .. Len(p)
      /\ \A i \in 1 .. Len(p) : p[i] = q[i + 1]
  BY HeadTailProperties, LenProperties, EmptySeq
<1> HIDE DEF p
<1>2. 1 \in DOMAIN q /\ \A i \in DOMAIN p : i + 1 \in DOMAIN q /\ 1 < i + 1 /\ p[i] = q[i + 1]
  BY <1>1
<1>3. Elements(p) \subseteq Elements(q) /\ Head(q) \in Elements(q)
  BY <1>1, <1>2 DEF Elements
<1>4. ASSUME Rising(q)
      PROVE  Rising(p) /\ Later({Head(q)}, Elements(p))
  <2>1. Rising(p)
    <3> SUFFICES ASSUME NEW i \in DOMAIN p, NEW j \in DOMAIN p, i < j, p[i].track = p[j].track
                 PROVE  p[i].number < p[j].number
      BY DEF Rising
    <3>1. i + 1 < j + 1
      BY <1>1
    <3>2. QED
      BY <1>2, <1>4, <3>1 DEF Rising
  <2>2. Later({Head(q)}, Elements(p))
    <3> SUFFICES ASSUME NEW i \in DOMAIN p, q[1].track = p[i].track
                 PROVE  q[1].number < p[i].number
      BY <1>1 DEF Later, Elements
    <3>1. QED
      BY <1>2, <1>4 DEF Rising
  <2>3. QED
    BY <2>1, <2>2
<1>5. QED
  BY <1>3, <1>4 DEF p
-----------------------------------------------------------------------------
(***************************************************************************)
(* The pace: a request was made when lastAsked says or before.  So a new   *)
(* one, made an interval after lastAsked, is none of those ahead.          *)
(***************************************************************************)
Ahead == requests \union Elements(batch)

AskedBefore == \A r \in Ahead : r.asked <= lastAsked[r.track]

PaceInv == AskedBefore /\ Paced

(***************************************************************************)
(* The numbers: everything on the way is of the current result or an older *)
(* one, and of the current one only for tracks already looked at.          *)
(***************************************************************************)
Line == Ahead \union Elements(out["worker"])

NumberInv ==
  /\ \A r \in Line : r.number < number \/ (r.number = number /\ r.track \notin pending)
  /\ \A t \in Tracks : posed[t] < number \/ (posed[t] = number /\ t \notin pending)

(***************************************************************************)
(* The order: for each track, the pose the client has last, those put out, *)
(* those of the batch and the requests are of ever newer results.          *)
(***************************************************************************)
LineInv ==
  /\ Rising(out["worker"])
  /\ Rising(batch)
  /\ Later(Elements(out["worker"]), Ahead)
  /\ Later(Elements(batch), requests)
  /\ \A r, s \in requests : r.track = s.track /\ r.number = s.number => r = s
  /\ \A r \in Line : posed[r.track] < r.number

LEMMA LineTypes ==
  ASSUME DataType
  PROVE  /\ Line \subseteq Requests
         /\ Ahead \subseteq Line
         /\ \A r \in Requests : r.track \in Tracks /\ r.number \in Nat /\ r.asked \in Nat
<1>1. Elements(batch) \subseteq Requests /\ Elements(out["worker"]) \subseteq Requests
  <2>1. \A q \in Seq(Requests) : Elements(q) \subseteq Requests
    BY ElementOfSeq DEF Elements
  <2>2. QED
    BY <2>1 DEF DataType
<1>2. QED
  BY <1>1 DEF Line, Ahead, DataType, Requests

(***************************************************************************)
(* What a step may do to the lines, of which the three invariants speak:   *)
(* take requests away, move them on, or add a new one at the end.          *)
(***************************************************************************)
LEMMA NewRequestTypes ==
  ASSUME ControlType, NEW t \in pending
  PROVE  /\ t \in Tracks
         /\ NewRequest(t) \in Requests
         /\ NewRequest(t).track = t
         /\ NewRequest(t).number = number
         /\ NewRequest(t).asked = asked
         /\ asked \in Nat /\ number \in Nat /\ lastAsked \in [Tracks -> Nat]
         /\ ~TooSoon(t) => asked - lastAsked[t] >= Interval
BY PoseAssumption DEF ControlType, NewRequest, Requests, TooSoon

LEMMA AheadShrinks ==
  ASSUME DataType, HoldsPose,
         (\E t \in Threads : Evict(t) \/ Fetch(t)) \/ Receive \/ PutTracks \/ Get
           \/ InferFails \/ PutPose \/ Quiet
  PROVE  Ahead' \subseteq Ahead /\ UNCHANGED lastAsked
<1> USE DEF consumerVars, queueVars, clientVars, dataVars, Quiet, Threads
<1>1. CASE UNCHANGED <<requests, batch, lastAsked>>
  BY <1>1 DEF Ahead, Elements
<1>2. CASE (\E t \in Threads : Evict(t) \/ Fetch(t)) \/ Receive \/ PutTracks \/ Quiet
  BY <1>1, <1>2 DEF Evict, Fetch, Receive, PutTracks
<1>3. CASE Get
  <2>1. PICK r \in Best : /\ requests' = requests \ {r}
                          /\ batch' = IF Fresh(r) THEN Append(batch, r) ELSE batch
    BY <1>3 DEF Get
  <2>2. r \in requests /\ r \in Requests
    BY <2>1 DEF Best, DataType
  <2>3. Elements(batch') \subseteq Elements(batch) \union {r}
    <3>0. batch \in Seq(Requests)
      BY DEF DataType
    <3>1. Appends(batch, r)
      BY <2>2, <3>0, AppendElements
    <3>2. batch' = Append(batch, r) \/ batch' = batch
      BY <2>1
    <3>3. QED
      BY <3>1, <3>2 DEF Appends, Elements
  <2>4. UNCHANGED lastAsked
    BY <1>3 DEF Get
  <2>5. Ahead' = requests' \union Elements(batch')
    BY DEF Ahead, Elements
  <2>6. QED
    BY <2>1, <2>2, <2>3, <2>4, <2>5 DEF Ahead
<1>4. CASE InferFails
  <2>1. batch' = <<>> /\ UNCHANGED <<requests, lastAsked>>
    BY <1>4 DEF InferFails
  <2>2. Elements(batch') = {}
    BY <2>1 DEF Elements
  <2>3. Ahead' = requests' \union Elements(batch')
    BY DEF Ahead, Elements
  <2>4. QED
    BY <2>1, <2>2, <2>3 DEF Ahead
<1>5. CASE PutPose
  <2>1. batch' = Tail(batch) /\ batch # <<>> /\ UNCHANGED <<requests, lastAsked>>
    BY <1>5 DEF PutPose, At, HoldsPose
  <2>2. Elements(batch') \subseteq Elements(batch)
    BY <2>1, TailElements DEF DataType
  <2>3. Ahead' = requests' \union Elements(batch')
    BY DEF Ahead, Elements
  <2>4. QED
    BY <2>1, <2>2, <2>3 DEF Ahead
<1>6. QED
  BY <1>2, <1>3, <1>4, <1>5

LEMMA PaceStep ==
  ASSUME ControlType, DataType, HoldsPose, PaceInv, NumberInv, [Next]_vars
  PROVE  PaceInv'
<1>1. CASE Request
  <2>1. PICK t \in pending :
          /\ UNCHANGED <<batch>>
          /\ \/ UNCHANGED <<lastAsked, requests>>
             \/ /\ ~TooSoon(t)
                /\ requests' \subseteq requests \union {NewRequest(t)}
                /\ lastAsked' = [lastAsked EXCEPT ![t] = asked]
    BY <1>1, RequestEffect, AcceptEffect
  <2> DEFINE n == NewRequest(t)
  <2>2. CASE UNCHANGED <<lastAsked, requests>>
    BY <2>1, <2>2 DEF PaceInv, AskedBefore, Paced, Ahead, Elements
  <2>3. CASE /\ ~TooSoon(t)
             /\ requests' \subseteq requests \union {n}
             /\ lastAsked' = [lastAsked EXCEPT ![t] = asked]
    <3>1. /\ t \in Tracks /\ n.track = t /\ n.number = number /\ n.asked = asked
          /\ asked \in Nat /\ number \in Nat /\ lastAsked \in [Tracks -> Nat]
          /\ asked - lastAsked[t] >= Interval /\ Interval \in Nat
      BY <2>3, NewRequestTypes, PoseAssumption
    <3>2. Ahead' \subseteq Ahead \union {n}
      BY <2>1, <2>3 DEF Ahead, Elements
    <3>3. \A r \in Ahead : /\ r.track \in Tracks /\ r.number \in Nat /\ r.asked \in Nat
                           /\ r.asked <= lastAsked[r.track]
                           /\ r.number <= number
      BY <3>1, LineTypes DEF PaceInv, AskedBefore, NumberInv, Line
    <3> HIDE DEF n
    <3>4. \A r \in Ahead \union {n} : r.asked <= lastAsked'[r.track]
      BY <2>3, <3>1, <3>3
    <3>5. \A r, s \in Ahead \union {n} :
             r.track = s.track /\ r.number < s.number => s.asked - r.asked >= Interval
      <4> SUFFICES ASSUME NEW r \in Ahead \union {n}, NEW s \in Ahead \union {n},
                          r.track = s.track, r.number < s.number
                   PROVE  s.asked - r.asked >= Interval
        OBVIOUS
      <4>1. CASE r \in Ahead /\ s \in Ahead
        BY <4>1 DEF PaceInv, Paced, Ahead, Elements
      <4>2. CASE r = n
        BY <3>1, <3>3, <4>2
      <4>3. CASE r \in Ahead /\ s = n
        BY <3>1, <3>3, <4>3
      <4>4. QED
        BY <4>1, <4>2, <4>3
    <3>6. AskedBefore'
      BY <3>2, <3>4 DEF AskedBefore
    <3>7. Paced'
      BY <3>2, <3>5 DEF Paced, Ahead, Elements
    <3>8. QED
      BY <3>6, <3>7 DEF PaceInv
  <2>4. QED
    BY <2>1, <2>2, <2>3
<1>2. CASE ~Request
  <2>1. Ahead' \subseteq Ahead /\ UNCHANGED lastAsked
    BY <1>2, StepKinds, AheadShrinks
  <2>2. AskedBefore'
    BY <2>1 DEF PaceInv, AskedBefore
  <2>3. Paced'
    BY <2>1 DEF PaceInv, Paced, Ahead, Elements
  <2>4. QED
    BY <2>2, <2>3 DEF PaceInv
<1>3. QED
  BY <1>1, <1>2

LEMMA NumberStep ==
  ASSUME ControlType, DataType, HoldsPose, NumberInv, [Next]_vars
  PROVE  NumberInv'
<1> USE DEF consumerVars, queueVars, clientVars, dataVars, Quiet, Threads
<1>0. number \in Nat /\ out["worker"] \in Seq(Requests) /\ batch \in Seq(Requests)
      /\ posed \in [Tracks -> Nat]
  BY DEF ControlType, DataType
<1>1. CASE /\ Line' \subseteq Line
           /\ UNCHANGED <<number, posed>>
           /\ pending' \subseteq pending
  BY <1>0, <1>1, LineTypes DEF NumberInv
<1>2. CASE Quiet
  BY <1>1, <1>2 DEF Line, Ahead, Elements
<1>3. ASSUME NEW t \in Threads, Evict(t)
      PROVE  NumberInv'
  <2>1. UNCHANGED <<number, posed, pending, requests, batch>>
    BY <1>3 DEF Evict
  <2>2. Elements(out'["worker"]) \subseteq Elements(out["worker"])
    BY <1>0, <1>3, TailElements DEF Evict, DataType
  <2>3. Line' \subseteq Line
    BY <2>1, <2>2 DEF Line, Ahead, Elements
  <2>4. QED
    BY <1>1, <2>1, <2>3
<1>4. ASSUME NEW t \in Threads, Fetch(t)
      PROVE  NumberInv'
  <2>1. UNCHANGED <<number, pending, requests, batch>>
    BY <1>4 DEF Fetch
  <2>2. /\ Elements(out'["worker"]) \subseteq Elements(out["worker"])
        /\ \/ UNCHANGED posed
           \/ \E r \in Elements(out["worker"]) : posed' = [posed EXCEPT ![r.track] = r.number]
    BY <1>0, <1>4, TailElements DEF Fetch, DataType
  <2>3. Line' \subseteq Line
    BY <2>1, <2>2 DEF Line, Ahead, Elements
  <2>4. \A u \in Tracks : posed'[u] = posed[u] \/ \E r \in Line : r.track = u /\ posed'[u] = r.number
    BY <1>0, <2>2 DEF Line
  <2>5. \A u \in Tracks : posed'[u] < number \/ (posed'[u] = number /\ u \notin pending)
    BY <2>4 DEF NumberInv
  <2>6. QED
    BY <2>1, <2>3, <2>5 DEF NumberInv
<1>5. CASE Receive
  <2>1. UNCHANGED <<requests, batch, out, posed>> /\ number' = number + 1
    BY <1>5 DEF Receive
  <2>2. Line' = Line
    BY <2>1 DEF Line, Ahead, Elements
  <2>3. \A r \in Line : r.number \in Nat /\ r.number <= number
    BY <1>0, LineTypes DEF NumberInv
  <2>4. \A t \in Tracks : posed[t] \in Nat /\ posed[t] <= number
    BY <1>0 DEF NumberInv
  <2>5. QED
    BY <1>0, <2>1, <2>2, <2>3, <2>4 DEF NumberInv
<1>6. CASE PutTracks
  <2>1. UNCHANGED <<number, pending, posed, requests, batch>> /\ out'["worker"] = out["worker"]
    BY <1>6 DEF PutTracks, DataType
  <2>2. Line' = Line
    BY <2>1 DEF Line, Ahead, Elements
  <2>3. QED
    BY <1>1, <2>1, <2>2
<1>7. CASE Request
  <2>1. PICK t \in pending :
          /\ pending' = pending \ {t}
          /\ UNCHANGED <<number, batch, out, posed>>
          /\ requests' \subseteq requests \union {NewRequest(t)}
    BY <1>7, RequestEffect, AcceptEffect
  <2>2. NewRequest(t).track = t /\ NewRequest(t).number = number
    BY NewRequestTypes
  <2>3. Line' \subseteq Line \union {NewRequest(t)}
    BY <2>1 DEF Line, Ahead, Elements
  <2>4. QED
    BY <2>1, <2>2, <2>3 DEF NumberInv
<1>8. CASE Get \/ InferFails
  <2>1. UNCHANGED <<number, pending, posed, out>>
    BY <1>8 DEF Get, InferFails
  <2>2. Ahead' \subseteq Ahead
    BY <1>8, AheadShrinks
  <2>3. Line' \subseteq Line
    BY <2>1, <2>2 DEF Line, Elements
  <2>4. QED
    BY <1>1, <2>1, <2>3
<1>9. CASE PutPose
  <2>1. /\ batch # <<>> /\ batch' = Tail(batch)
        /\ out' = [out EXCEPT !["worker"] = Append(@, Head(batch))]
        /\ UNCHANGED <<number, pending, posed, requests>>
    BY <1>9 DEF PutPose, At, HoldsPose
  <2>2. /\ Elements(Tail(batch)) \subseteq Elements(batch)
        /\ Head(batch) \in Elements(batch) /\ Head(batch) \in Requests
    BY <1>0, <2>1, TailElements, HeadTailProperties
  <2>3. Elements(Append(out["worker"], Head(batch))) = Elements(out["worker"]) \union {Head(batch)}
    <3>1. Appends(out["worker"], Head(batch))
      BY <1>0, <2>2, AppendElements
    <3>2. QED
      BY <3>1 DEF Appends
  <2>4. out'["worker"] = Append(out["worker"], Head(batch))
    BY <2>1 DEF DataType
  <2>5. Line' = requests \union Elements(Tail(batch)) \union Elements(Append(out["worker"], Head(batch)))
    BY <2>1, <2>4 DEF Line, Ahead, Elements
  <2>6. Line' \subseteq Line
    BY <2>2, <2>3, <2>5 DEF Line, Ahead
  <2>7. QED
    BY <1>1, <2>1, <2>6
<1>10. QED
  BY <1>2, <1>3, <1>4, <1>5, <1>6, <1>7, <1>8, <1>9, StepKinds

(***************************************************************************)
(* A client or the producer takes the head of a non-empty output.          *)
(***************************************************************************)
LEMMA LineLosesHead ==
  ASSUME DataType, LineInv, out["worker"] # <<>>,
         out'["worker"] = Tail(out["worker"]), UNCHANGED <<requests, batch>>,
         \/ UNCHANGED posed
         \/ posed' = [posed EXCEPT ![Head(out["worker"]).track] = Head(out["worker"]).number]
  PROVE  LineInv'
<1> DEFINE W == out["worker"]
           h == Head(W)
<1>1. /\ W \in Seq(Requests) /\ posed \in [Tracks -> Nat]
      /\ Elements(Tail(W)) \subseteq Elements(W)
      /\ h \in Elements(W)
      /\ Rising(Tail(W)) /\ Later({h}, Elements(Tail(W)))
  BY TailElements DEF DataType, LineInv
<1>2. /\ Ahead' = Ahead
      /\ Elements(batch') = Elements(batch) /\ Rising(batch)' = Rising(batch)
      /\ Elements(out'["worker"]) = Elements(Tail(W)) /\ Rising(out'["worker"])
  BY <1>1 DEF Ahead, Elements, Rising
<1>3. Line' = Ahead \union Elements(Tail(W))
  BY <1>2 DEF Line, Elements
<1>4. ASSUME NEW r \in Line'
      PROVE  posed'[r.track] < r.number
  <2>1. r \in Line /\ h \in Line /\ r \in Requests /\ h \in Requests
    BY <1>1, <1>3, LineTypes DEF Line
  <2>2. posed[r.track] < r.number /\ r.track \in Tracks /\ h.track \in Tracks
    BY <2>1, LineTypes DEF LineInv
  <2>3. h.track = r.track => h.number < r.number
    BY <1>1, <1>3 DEF LineInv, Later
  <2>4. QED
    BY <1>1, <2>2, <2>3
<1>5. Later(Elements(out["worker"]), Ahead)' /\ Later(Elements(batch), requests)'
  <2>1. Later(Elements(Tail(W)), Ahead) /\ Later(Elements(batch), requests)
    BY <1>1 DEF LineInv, Later
  <2>2. QED
    BY <1>2, <2>1 DEF Later, Elements
<1>6. Rising(out["worker"])' /\ Rising(batch)'
  BY <1>2 DEF LineInv, Rising
<1>7. QED
  BY <1>4, <1>5, <1>6 DEF LineInv

(***************************************************************************)
(* A request is added for a track of which nothing this new is on the way. *)
(***************************************************************************)
LEMMA LineGetsRequest ==
  ASSUME ControlType, DataType, NumberInv, LineInv,
         NEW t \in pending, requests' \subseteq requests \union {NewRequest(t)},
         UNCHANGED <<batch, out, posed>>
  PROVE  LineInv'
<1> DEFINE n == NewRequest(t)
<1>1. /\ t \in Tracks /\ n.track = t /\ n.number = number /\ number \in Nat
      /\ posed \in [Tracks -> Nat]
  BY NewRequestTypes DEF DataType
<1> HIDE DEF n
<1>2. \A r \in Line : r.track = t => r.number < number
  BY DEF NumberInv
<1>3. posed[t] < number
  BY <1>1 DEF NumberInv
<1>4. requests \subseteq Ahead /\ Ahead \subseteq Line /\ Elements(batch) \subseteq Ahead
      /\ Elements(out["worker"]) \subseteq Line
  BY DEF Ahead, Line
<1>5. /\ requests' \subseteq requests \union {n}
      /\ Ahead' \subseteq Ahead \union {n} /\ Line' \subseteq Line \union {n}
      /\ Elements(batch)' = Elements(batch)
      /\ Elements(out["worker"])' = Elements(out["worker"])
  BY DEF Ahead, Line, Elements, n
<1>6. Later(Elements(out["worker"]), Ahead)' /\ Later(Elements(batch), requests)'
  <2>1. /\ Later(Elements(out["worker"]), Ahead \union {n})
        /\ Later(Elements(batch), requests \union {n})
    BY <1>1, <1>2, <1>4 DEF LineInv, Later
  <2>2. QED
    BY <1>5, <2>1 DEF Later
<1>7. \A r, s \in requests' : r.track = s.track /\ r.number = s.number => r = s
  <2>1. \A r \in requests : r.track = t => r.number # number
    BY <1>1, <1>2, <1>4, LineTypes
  <2>2. QED
    BY <1>1, <1>5, <2>1 DEF LineInv
<1>8. \A r \in Line' : posed'[r.track] < r.number
  BY <1>1, <1>3, <1>5 DEF LineInv
<1>9. Rising(out["worker"])' /\ Rising(batch)'
  BY DEF LineInv, Rising
<1>10. QED
  BY <1>6, <1>7, <1>8, <1>9 DEF LineInv

(***************************************************************************)
(* The worker gets the first of the queue: of no track is an older request *)
(* left behind, because a request of a later result was made later.        *)
(***************************************************************************)
LEMMA LineMovesOn ==
  ASSUME DataType, PaceInv, LineInv, Get
  PROVE  LineInv'
<1>1. PICK r \in Best : /\ requests' = requests \ {r}
                        /\ batch' = Append(batch, r) \/ batch' = batch
                        /\ UNCHANGED <<out, posed>>
  BY DEF Get, clientVars
<1>2. r \in requests /\ r \in Requests /\ batch \in Seq(Requests) /\ requests \subseteq Requests
  BY <1>1 DEF Best, DataType
<1>3. Later({r}, requests')
  <2> SUFFICES ASSUME NEW s \in requests, s # r, r.track = s.track
               PROVE  r.number < s.number
    BY <1>1 DEF Later
  <2>1. /\ r.number \in Nat /\ s.number \in Nat /\ r.asked \in Nat /\ s.asked \in Nat
        /\ Interval \in Nat \ {0}
    BY <1>2, LineTypes, PoseAssumption
  <2>2. r.number # s.number
    BY <1>2 DEF LineInv
  <2>3. CASE s.number < r.number
    <3>1. r.asked - s.asked >= Interval
      BY <1>2, <2>3 DEF PaceInv, Paced
    <3>2. Before(s, r)
      BY <2>1, <3>1 DEF Before
    <3>3. QED
      BY <1>1, <3>2 DEF Best
  <2>4. QED
    BY <2>1, <2>2, <2>3
<1>4. /\ Elements(batch') \subseteq Elements(batch) \union {r}
      /\ Rising(batch')
  <2>1. Appends(batch, r)
    BY <1>2, AppendElements
  <2>2. Later(Elements(batch), {r}) /\ Rising(batch)
    BY <1>2 DEF LineInv, Later
  <2>3. QED
    BY <1>1, <2>1, <2>2 DEF Appends
<1>5. /\ requests' \subseteq requests
      /\ Elements(batch)' \subseteq Elements(batch) \union {r}
      /\ Ahead' \subseteq Ahead /\ Line' \subseteq Line
      /\ Elements(out["worker"])' = Elements(out["worker"])
  <2>1. Elements(batch)' = Elements(batch')
    BY DEF Elements
  <2>2. Elements(out["worker"])' = Elements(out["worker"])
    BY <1>1 DEF Elements
  <2>3. QED
    BY <1>1, <1>2, <1>4, <2>1, <2>2 DEF Ahead, Line
<1>6. Later(Elements(out["worker"]), Ahead)' /\ Later(Elements(batch), requests)'
  <2>1. /\ Later(Elements(out["worker"]), Ahead)
        /\ Later(Elements(batch) \union {r}, requests')
    BY <1>3, <1>5 DEF LineInv, Later
  <2>2. QED
    BY <1>5, <2>1 DEF Later
<1>7. Rising(out["worker"])' /\ Rising(batch)'
  BY <1>1, <1>4 DEF LineInv, Rising
<1>8. \A q \in Line' : posed'[q.track] < q.number
  BY <1>1, <1>5 DEF LineInv
<1>9. \A q, s \in requests' : q.track = s.track /\ q.number = s.number => q = s
  BY <1>5 DEF LineInv
<1>10. QED
  BY <1>6, <1>7, <1>8, <1>9 DEF LineInv

(***************************************************************************)
(* The first pose of the batch becomes the last of the output.             *)
(***************************************************************************)
LEMMA LinePutsPose ==
  ASSUME DataType, LineInv, batch # <<>>, batch' = Tail(batch),
         out'["worker"] = Append(out["worker"], Head(batch)), UNCHANGED <<requests, posed>>
  PROVE  LineInv'
<1> DEFINE W == out["worker"]
           h == Head(batch)
           B == Tail(batch)
<1>1. /\ W \in Seq(Requests) /\ h \in Requests
      /\ Elements(B) \subseteq Elements(batch) /\ h \in Elements(batch)
      /\ Rising(B) /\ Later({h}, Elements(B))
  BY TailElements, HeadTailProperties DEF DataType, LineInv
<1>2. Appends(W, h)
  BY <1>1, AppendElements
<1>3. Elements(batch) \subseteq Ahead
  BY DEF Ahead
<1>4. Later(Elements(W), {h})
  BY <1>1, <1>3 DEF LineInv, Later
<1>5. /\ Elements(batch)' = Elements(B) /\ Rising(batch)'
      /\ Elements(out["worker"])' = Elements(W) \union {h} /\ Rising(out["worker"])'
  <2>1. Elements(batch)' = Elements(B) /\ Elements(out["worker"])' = Elements(Append(W, h))
    BY DEF Elements
  <2>2. Rising(batch)' /\ Rising(out["worker"])'
    <3>1. Rising(Append(W, h))
      BY <1>2, <1>4 DEF Appends, LineInv
    <3>2. QED
      BY <1>1, <3>1 DEF Rising
  <2>3. QED
    BY <1>2, <2>1, <2>2 DEF Appends
<1>6. Ahead' = requests \union Elements(B) /\ Line' \subseteq Line
  BY <1>1, <1>3, <1>5 DEF Ahead, Line
<1>7. Later(Elements(out["worker"]), Ahead)'
  <2>1. Later(Elements(W), requests \union Elements(B))
    BY <1>1 DEF LineInv, Later, Ahead
  <2>2. Later({h}, requests \union Elements(B))
    BY <1>1 DEF LineInv, Later
  <2>3. QED
    BY <1>5, <1>6, <2>1, <2>2 DEF Later
<1>8. Later(Elements(batch), requests)'
  BY <1>1, <1>5 DEF LineInv, Later
<1>9. QED
  BY <1>5, <1>6, <1>7, <1>8 DEF LineInv

LEMMA LineStep ==
  ASSUME ControlType, DataType, HoldsPose, PaceInv, NumberInv, LineInv, [Next]_vars
  PROVE  LineInv'
<1> USE DEF consumerVars, queueVars, clientVars, dataVars, Quiet, Threads
<1>1. CASE /\ UNCHANGED <<requests, batch, posed>>
           /\ out'["worker"] = out["worker"]
  BY <1>1 DEF LineInv, Line, Ahead, Elements, Rising, Later
<1>2. CASE Quiet \/ Receive
  BY <1>1, <1>2 DEF Receive
<1>3. ASSUME NEW t \in Threads, Evict(t)
      PROVE  LineInv'
  <2>1. CASE t = "consumer" \/ out[t] = <<>>
    BY <1>1, <1>3, <2>1 DEF Evict, DataType
  <2>2. CASE t = "worker" /\ out[t] # <<>>
    BY <1>3, <2>2, LineLosesHead DEF Evict, DataType
  <2>3. QED
    BY <2>1, <2>2
<1>4. ASSUME NEW t \in Threads, Fetch(t)
      PROVE  LineInv'
  <2>1. CASE t = "consumer"
    BY <1>1, <1>4, <2>1 DEF Fetch, DataType
  <2>2. CASE t = "worker"
    BY <1>4, <2>2, LineLosesHead DEF Fetch, DataType
  <2>3. QED
    BY <2>1, <2>2
<1>5. CASE PutTracks
  BY <1>1, <1>5 DEF PutTracks, DataType
<1>6. CASE Request
  BY <1>6, RequestEffect, AcceptEffect, LineGetsRequest
<1>7. CASE Get
  BY <1>7, LineMovesOn
<1>8. CASE InferFails
  <2>1. batch' = <<>> /\ UNCHANGED <<requests, posed, out>>
    BY <1>8 DEF InferFails
  <2>2. Elements(batch)' = {} /\ Rising(batch)'
    BY <2>1 DEF Elements, Rising
  <2>3. Elements(out["worker"])' = Elements(out["worker"]) /\ Rising(out["worker"])'
    BY <2>1 DEF LineInv, Elements, Rising
  <2>4. Ahead' \subseteq Ahead /\ Line' \subseteq Line
    BY <2>1, <2>2, <2>3 DEF Ahead, Line
  <2>5. Later(Elements(out["worker"]), Ahead)' /\ Later(Elements(batch), requests)'
    BY <2>2, <2>3, <2>4 DEF LineInv, Later
  <2>6. QED
    BY <2>1, <2>2, <2>3, <2>4, <2>5 DEF LineInv
<1>9. CASE PutPose
  <2>1. /\ batch # <<>> /\ batch' = Tail(batch) /\ UNCHANGED <<requests, posed>>
        /\ out'["worker"] = Append(out["worker"], Head(batch))
    BY <1>9 DEF PutPose, At, HoldsPose, DataType
  <2>2. QED
    BY <2>1, LinePutsPose
<1>10. QED
  BY <1>2, <1>3, <1>4, <1>5, <1>6, <1>7, <1>8, <1>9, StepKinds
-----------------------------------------------------------------------------
(***************************************************************************)
(* The queue's contents and its counts.                                    *)
(***************************************************************************)
QueueInv ==
  /\ IsFiniteSet(requests)
  /\ Cardinality(requests) <= QueueSize
  /\ RequestsAccounted

\* A request that is accepted is none of those queued.
LEMMA NewRequestIsNew ==
  ASSUME ControlType, DataType, PaceInv, NEW t \in pending, ~TooSoon(t)
  PROVE  NewRequest(t) \notin requests
<1>1. /\ t \in Tracks /\ NewRequest(t).track = t /\ NewRequest(t).asked = asked
      /\ asked \in Nat /\ lastAsked[t] \in Nat /\ asked - lastAsked[t] >= Interval
      /\ Interval \in Nat \ {0}
  BY NewRequestTypes, PoseAssumption
<1>2. \A r \in requests : r.asked <= lastAsked[r.track]
  BY DEF PaceInv, AskedBefore, Ahead
<1>3. QED
  BY <1>1, <1>2

LEMMA AcceptCounts ==
  ASSUME NEW r, r \notin requests, IsFiniteSet(requests), Cardinality(requests) <= QueueSize,
         dropped \in Nat, Accept(r)
  PROVE  /\ IsFiniteSet(requests')
         /\ Cardinality(requests') <= QueueSize
         /\ Cardinality(requests') + dropped' = Cardinality(requests) + dropped + 1
<1>1. Cardinality(requests) \in Nat /\ QueueSize \in Nat \ {0}
  BY FS_CardinalityType, PoseAssumption
<1>2. CASE /\ Cardinality(requests) < QueueSize
           /\ requests' = requests \union {r}
           /\ UNCHANGED dropped
  <2>1. /\ IsFiniteSet(requests \union {r})
        /\ Cardinality(requests \union {r}) = Cardinality(requests) + 1
    BY FS_AddElement
  <2>2. QED
    BY <1>1, <1>2, <2>1
<1>3. CASE /\ \E w \in Worst : requests' = (requests \ {w}) \union {r}
           /\ dropped' = dropped + 1
  <2>1. PICK w \in requests : requests' = (requests \ {w}) \union {r}
    BY <1>3 DEF Worst
  <2>2. /\ IsFiniteSet(requests \ {w})
        /\ Cardinality(requests \ {w}) = Cardinality(requests) - 1
    BY <2>1, FS_RemoveElement
  <2>3. r \notin requests \ {w}
    OBVIOUS
  <2>4. IsFiniteSet(requests') /\ Cardinality(requests') = Cardinality(requests)
    BY <1>1, <2>1, <2>2, <2>3, FS_AddElement
  <2>5. QED
    BY <1>1, <1>3, <2>4
<1>4. QED
  BY <1>2, <1>3 DEF Accept

LEMMA QueueStep ==
  ASSUME ControlType, DataType, PaceInv, QueueInv, [Next]_vars
  PROVE  QueueInv'
<1> USE DEF consumerVars, queueVars, clientVars, dataVars, Quiet
<1>0. /\ Cardinality(requests) \in Nat /\ dropped \in Nat /\ offered \in Nat /\ fetched \in Nat
      /\ QueueSize \in Nat
  BY FS_CardinalityType, PoseAssumption DEF QueueInv, ControlType
<1>1. CASE UNCHANGED queueVars
  BY <1>1 DEF QueueInv, RequestsAccounted
<1>2. CASE Request
  <2>1. PICK t \in pending :
          /\ UNCHANGED fetched
          /\ \/ UNCHANGED <<requests, dropped, offered>>
             \/ /\ ~TooSoon(t)
                /\ Accept(NewRequest(t))
                /\ offered' = offered + 1
             \/ /\ UNCHANGED requests
                /\ dropped' = dropped + 1
                /\ offered' = offered + 1
    BY <1>2, RequestEffect
  <2>2. CASE UNCHANGED <<requests, dropped, offered>>
    BY <1>1, <2>1, <2>2
  <2>3. CASE ~TooSoon(t) /\ Accept(NewRequest(t)) /\ offered' = offered + 1
    <3>1. /\ IsFiniteSet(requests') /\ Cardinality(requests') <= QueueSize
          /\ Cardinality(requests') + dropped' = Cardinality(requests) + dropped + 1
      BY <1>0, <2>3, NewRequestIsNew, AcceptCounts DEF QueueInv
    <3>2. Cardinality(requests') \in Nat /\ dropped' \in Nat
      BY <1>0, <2>3, <3>1, FS_CardinalityType DEF Accept
    <3>3. QED
      BY <1>0, <2>1, <2>3, <3>1, <3>2 DEF QueueInv, RequestsAccounted
  <2>4. CASE /\ UNCHANGED requests
             /\ dropped' = dropped + 1
             /\ offered' = offered + 1
    BY <1>0, <2>1, <2>4 DEF QueueInv, RequestsAccounted
  <2>5. QED
    BY <2>1, <2>2, <2>3, <2>4
<1>3. CASE Get
  <2>1. PICK r \in requests : requests' = requests \ {r}
    BY <1>3 DEF Get, Best
  <2>2. fetched' = fetched + 1 /\ UNCHANGED <<dropped, offered>>
    BY <1>3 DEF Get
  <2>3. IsFiniteSet(requests') /\ Cardinality(requests') = Cardinality(requests) - 1
    BY <2>1, FS_RemoveElement DEF QueueInv
  <2>4. QED
    BY <1>0, <2>2, <2>3 DEF QueueInv, RequestsAccounted
<1>4. CASE ~Request /\ ~Get
  <2>1. UNCHANGED queueVars
    BY <1>4, StepKinds DEF Evict, Fetch, Receive, PutTracks, InferFails, PutPose
  <2>2. QED
    BY <1>1, <2>1
<1>5. QED
  BY <1>2, <1>3, <1>4
-----------------------------------------------------------------------------
(***************************************************************************)
(* The outputs: never more than fits, and room where a thread enqueues.    *)
(***************************************************************************)
RoomInv ==
  \A t \in Threads : Len(out[t]) <= Size[t] /\ (At(t, "enqueue") => Len(out[t]) < Size[t])

\* A thread reaches its enqueue only past a test or an eviction; others only take.
LEMMA RoomStep ==
  ASSUME ControlType, DataType, HoldsPose, RoomInv, [Next]_vars
  PROVE  RoomInv'
<1> USE DEF consumerVars, queueVars, clientVars
<1>0. /\ Threads = {"consumer", "worker"} /\ pc \in [Threads -> Locations]
      /\ DOMAIN out = Threads
      /\ \A t \in Threads : Len(out[t]) \in Nat /\ Size[t] \in Nat \ {0}
  BY LenProperties, PoseAssumption DEF Threads, ControlType, DataType
<1>a. \A t \in Threads : out[t] # <<>> => Len(Tail(out[t])) = Len(out[t]) - 1
  BY <1>0, HeadTailProperties DEF DataType
<1>b. Len(<<>>) = 0
  OBVIOUS
<1>1. CASE /\ UNCHANGED out
           /\ \A t \in Threads : pc'[t] = pc[t] \/ pc'[t] # "enqueue"
  BY <1>1 DEF RoomInv, At
<1>2. ASSUME NEW t \in Threads, Put(t)
      PROVE  RoomInv'
  <2>1. /\ UNCHANGED out
        /\ pc' = [pc EXCEPT ![t] = IF Full(t) THEN "evict" ELSE "enqueue"]
    BY <1>2 DEF Put, Move
  <2>2. ~Full(t) => Len(out[t]) < Size[t]
    BY <1>0 DEF Full
  <2>3. QED
    BY <1>0, <2>1, <2>2 DEF RoomInv, At
<1>3. ASSUME NEW t \in Threads, Evict(t)
      PROVE  RoomInv'
  <2>1. /\ out' = IF out[t] = <<>> THEN out ELSE [out EXCEPT ![t] = Tail(@)]
        /\ pc' = [pc EXCEPT ![t] = "enqueue"]
    BY <1>3 DEF Evict, Move
  <2>2. Len(out'[t]) < Size[t]
    <3>1. CASE out[t] = <<>>
      BY <1>0, <1>b, <2>1, <3>1
    <3>2. CASE out[t] # <<>>
      BY <1>0, <1>a, <2>1, <3>2 DEF RoomInv
    <3>3. QED
      BY <3>1, <3>2
  <2>3. \A u \in Threads : u # t => out'[u] = out[u] /\ pc'[u] = pc[u]
    BY <1>0, <2>1
  <2>4. Len(out'[t]) <= Size[t]
    <3>1. CASE out[t] = <<>>
      BY <1>0, <1>b, <2>1, <3>1
    <3>2. CASE out[t] # <<>>
      BY <1>0, <1>a, <2>1, <3>2 DEF RoomInv
    <3>3. QED
      BY <3>1, <3>2
  <2>5. QED
    BY <2>2, <2>3, <2>4 DEF RoomInv, At
<1>4. ASSUME NEW t \in Threads, Fetch(t)
      PROVE  RoomInv'
  <2>1. out[t] # <<>> /\ out' = [out EXCEPT ![t] = Tail(@)] /\ UNCHANGED pc
    BY <1>4 DEF Fetch
  <2>2. \A u \in Threads : u # t => out'[u] = out[u]
    BY <1>0, <2>1
  <2>3. Len(out'[t]) = Len(out[t]) - 1
    BY <1>0, <1>a, <2>1
  <2>4. QED
    BY <1>0, <2>1, <2>2, <2>3 DEF RoomInv, At
<1>5. ASSUME NEW t \in Threads, NEW e, At(t, "enqueue"), out' = [out EXCEPT ![t] = Append(@, e)],
             Len(Append(out[t], e)) = Len(out[t]) + 1,
             pc'[t] # "enqueue", \A u \in Threads : u # t => pc'[u] = pc[u]
      PROVE  RoomInv'
  <2>1. \A u \in Threads : u # t => out'[u] = out[u]
    BY <1>0, <1>5
  <2>2. Len(out'[t]) <= Size[t]
    BY <1>0, <1>5 DEF RoomInv
  <2>3. QED
    BY <1>5, <2>1, <2>2 DEF RoomInv, At
<1>6. CASE PutTracks
  <2>1. Len(Append(out["consumer"], number)) = Len(out["consumer"]) + 1
    BY AppendProperties DEF DataType, ControlType
  <2>2. /\ pc' = [pc EXCEPT !["consumer"] = IF pending = {} THEN "poll" ELSE "request"]
        /\ out' = [out EXCEPT !["consumer"] = Append(@, number)]
        /\ At("consumer", "enqueue")
    BY <1>6 DEF PutTracks, Move
  <2>3. QED
    BY <1>0, <1>5, <2>1, <2>2
<1>7. CASE PutPose
  <2>1. Head(batch) \in Requests
    BY <1>7, HeadTailProperties DEF PutPose, At, HoldsPose, DataType
  <2>2. Len(Append(out["worker"], Head(batch))) = Len(out["worker"]) + 1
    BY <2>1, AppendProperties DEF DataType
  <2>3. /\ pc' = [pc EXCEPT !["worker"] = IF Len(batch) = 1 THEN "poll" ELSE "put"]
        /\ out' = [out EXCEPT !["worker"] = Append(@, Head(batch))]
        /\ At("worker", "enqueue")
    BY <1>7 DEF PutPose, Move
  <2>4. QED
    BY <1>0, <1>5, <2>2, <2>3
<1>8. ASSUME NEW t \in Threads, Leave(t)
      PROVE  RoomInv'
  BY <1>0, <1>1, <1>8 DEF Leave, Move
<1>9. CASE Receive
  BY <1>0, <1>1, <1>9 DEF Receive, Move
<1>10. CASE Request
  BY <1>0, <1>1, <1>10 DEF Request, Move
<1>11. CASE BeginGet \/ GetNothing \/ BeginBatch \/ EndBatch
  BY <1>0, <1>1, <1>11 DEF BeginGet, GetNothing, BeginBatch, EndBatch, Move
<1>12. CASE InferPoses \/ InferFails \/ Get
  BY <1>0, <1>1, <1>12 DEF InferPoses, InferFails, Get, Move
<1>13. CASE Stop \/ Tick
  BY <1>1, <1>13 DEF Stop, Tick
<1>14. CASE UNCHANGED vars
  BY <1>1, <1>14 DEF vars
<1>15. QED
  BY <1>0, <1>2, <1>3, <1>4, <1>6, <1>7, <1>8, <1>9, <1>10, <1>11, <1>12, <1>13, <1>14
     DEF Next, Consumer, Worker
-----------------------------------------------------------------------------
(***************************************************************************)
(* The inductive invariant.                                                *)
(***************************************************************************)
IInv ==
  /\ ControlType
  /\ DataType
  /\ HoldsPose
  /\ PaceInv
  /\ NumberInv
  /\ LineInv
  /\ QueueInv
  /\ RoomInv

LEMMA InitInv == Init => IInv
<1> SUFFICES ASSUME Init
             PROVE  IInv
  OBVIOUS
<1>1. ControlType
  BY PoseAssumption DEF Init, ControlType, Locations
<1>2. DataType /\ HoldsPose
  <2>1. <<>> \in Seq(Requests) /\ <<>> \in Seq(Nat) /\ Len(<<>>) = 0
    OBVIOUS
  <2>2. 0 <= BatchSize
    BY PoseAssumption
  <2>3. out["consumer"] = <<>> /\ out["worker"] = <<>> /\ pc["worker"] = "poll"
    BY DEF Init, Threads
  <2>4. QED
    BY <2>1, <2>2, <2>3 DEF Init, DataType, HoldsPose
<1>3. /\ requests = {} /\ batch = <<>> /\ out["worker"] = <<>>
      /\ Ahead = {} /\ Line = {}
  BY DEF Init, Threads, Ahead, Line, Elements
<1>4. PaceInv
  BY <1>3 DEF PaceInv, AskedBefore, Paced, Ahead, Elements
<1>5. NumberInv
  BY <1>3 DEF Init, NumberInv
<1>6. LineInv
  BY <1>3 DEF LineInv, Rising, Later, Elements
<1>7. QueueInv
  BY <1>3, FS_EmptySet, PoseAssumption DEF Init, QueueInv, RequestsAccounted
<1>8. RoomInv
  BY PoseAssumption DEF Init, RoomInv, At
<1>9. QED
  BY <1>1, <1>2, <1>4, <1>5, <1>6, <1>7, <1>8 DEF IInv

LEMMA StepInv == IInv /\ [Next]_vars => IInv'
<1> SUFFICES ASSUME IInv, [Next]_vars
             PROVE  IInv'
  OBVIOUS
<1>1. ControlType' /\ DataType' /\ HoldsPose'
  BY ControlTypeStep, DataTypeStep DEF IInv
<1>2. PaceInv' /\ NumberInv' /\ LineInv'
  BY PaceStep, NumberStep, LineStep DEF IInv
<1>3. QueueInv' /\ RoomInv'
  BY QueueStep, RoomStep DEF IInv
<1>4. QED
  BY <1>1, <1>2, <1>3 DEF IInv

LEMMA Inductive == Spec => []IInv
BY InitInv, StepInv, PTL DEF Spec

(***************************************************************************)
(* The variables keep their types, and the queue and a batch their sizes.  *)
(***************************************************************************)
THEOREM TypeCorrect == Spec => []TypeOK
<1>1. IInv => TypeOK
  BY DEF IInv, ControlType, DataType, QueueInv, TypeOK
<1>2. QED
  BY <1>1, Inductive, PTL

(***************************************************************************)
(* BoundedPoseQueue.put and get lose no request: each is queued, counted   *)
(* as dropped, or fetched.                                                 *)
(***************************************************************************)
THEOREM NoRequestLost == Spec => []RequestsAccounted
<1>1. IInv => RequestsAccounted
  BY DEF IInv, QueueInv
<1>2. QED
  BY <1>1, Inductive, PTL

(***************************************************************************)
(* _put_latest never calls put_nowait on a full queue, though its calls    *)
(* and those of clients interleave.                                        *)
(***************************************************************************)
THEOREM RoomToPut == Spec => []OutputsNeverFull
<1>1. IInv => OutputsNeverFull
  <2> SUFFICES ASSUME IInv, NEW t \in Threads, At(t, "enqueue")
               PROVE  ~Full(t)
    BY DEF OutputsNeverFull
  <2>1. Len(out[t]) < Size[t]
    BY DEF IInv, RoomInv
  <2>2. Len(out[t]) \in Nat /\ Size[t] \in Nat
    BY LenProperties, PoseAssumption DEF IInv, DataType, Threads
  <2>3. QED
    BY <2>1, <2>2 DEF Full
<1>2. QED
  BY <1>1, Inductive, PTL

(***************************************************************************)
(* The pose worker never has two requests of a track before it that were   *)
(* made less than the interval apart.                                      *)
(***************************************************************************)
THEOREM RequestsPaced == Spec => []Paced
<1>1. IInv => Paced
  BY DEF IInv, PaceInv
<1>2. QED
  BY <1>1, Inductive, PTL

(***************************************************************************)
(* Poses of a track reach a client in the order of the results they were   *)
(* requested for, through queue, batches, failures and dropped outputs.    *)
(***************************************************************************)
THEOREM PosesInOrder == Spec => PosesForward
<1>1. IInv /\ [Next]_vars
        => [Fetch("worker") => LET pose == Head(out["worker"]) IN
              pose.number > posed[pose.track]]_vars
  <2> SUFFICES ASSUME IInv, Fetch("worker")
               PROVE  Head(out["worker"]).number > posed[Head(out["worker"]).track]
    OBVIOUS
  <2>1. out["worker"] # <<>>
    BY DEF Fetch
  <2>2. /\ Head(out["worker"]) \in Line /\ Head(out["worker"]) \in Requests
        /\ posed \in [Tracks -> Nat]
    BY <2>1, TailElements, HeadTailProperties DEF IInv, DataType, Line
  <2>3. posed[Head(out["worker"]).track] < Head(out["worker"]).number
    BY <2>2 DEF IInv, LineInv
  <2>4. QED
    BY <2>2, <2>3 DEF Requests
<1>2. QED
  BY <1>1, Inductive, PTL DEF Spec, PosesForward
-----------------------------------------------------------------------------
(***************************************************************************)
(* ByteTracker.                                                            *)
(***************************************************************************)

\* What an association is.
LEMMA AssociationFacts ==
  ASSUME NEW ids, NEW found, NEW f \in Associations(ids, found)
  PROVE  /\ DOMAIN f \subseteq ids
         /\ f \in [DOMAIN f -> found]
         /\ IsInjective(f)
BY DEF Associations, Injection

\* New tracks take as many identities as there are detections left over.
LEMMA BirthFacts ==
  ASSUME nextId \in Nat \ {0}, NEW fresh \in SUBSET Detections,
         NEW born \in Births(fresh)
  PROVE  /\ Cardinality(fresh) \in Nat
         /\ DOMAIN born = nextId .. nextId + Cardinality(fresh) - 1
         /\ Cardinality(DOMAIN born) = Cardinality(fresh)
         /\ born \in [DOMAIN born -> fresh]
         /\ IsInjective(born)
         /\ \A d \in fresh : \E i \in DOMAIN born : born[i] = d
<1>1. IsFiniteSet(fresh)
  BY TrackerAssumption, FS_Subset
<1>2. Cardinality(fresh) \in Nat
  BY <1>1, FS_CardinalityType
<1>3. DOMAIN born = nextId .. nextId + Cardinality(fresh) - 1
  BY DEF Births, Bijection, Injection
<1>4. Cardinality(DOMAIN born) = Cardinality(fresh)
  BY <1>2, <1>3, FS_Interval
<1>5. born \in [DOMAIN born -> fresh] /\ IsInjective(born)
  BY <1>3 DEF Births, Bijection, Injection
<1>6. \A d \in fresh : \E i \in DOMAIN born : born[i] = d
  BY <1>3 DEF Births, Bijection, Surjection
<1>7. QED
  BY <1>2, <1>3, <1>4, <1>5, <1>6

-----------------------------------------------------------------------------
(* A step of the tracker, and what it leaves behind. *)

\* The detections and associations of an update.
Choice(score, first, second, born) ==
  /\ score \in [Detections -> Scores]
  /\ first \in Associations(DOMAIN tracks, Scored(score, "high"))
  /\ second \in Associations(SecondStage(DOMAIN tracks \ DOMAIN first), Scored(score, "low"))
  /\ born \in Births(Unclaimed(Scored(score, "high"), first))

\* Who has got which detection.
Claims(score, first, second, born) ==
  /\ \A i \in DOMAIN first : first[i] \in Detections /\ score[first[i]] = "high"
  /\ \A i \in DOMAIN second : second[i] \in Detections /\ score[second[i]] = "low"
  /\ \A i \in DOMAIN born : born[i] \in Detections /\ score[born[i]] = "high"
  /\ \A i \in DOMAIN born, j \in DOMAIN first : born[i] # first[j]
  /\ \A d \in Detections : score[d] = "high"
       => (\E i \in DOMAIN first : first[i] = d) \/ (\E i \in DOMAIN born : born[i] = d)
  /\ IsInjective(first) /\ IsInjective(second) /\ IsInjective(born)

\* The next state.
Outcome(score, first, second, born, matched) ==
  /\ matched = DOMAIN first \union DOMAIN second
  /\ matched \subseteq DOMAIN tracks
  /\ DOMAIN first \intersect DOMAIN second = {}
  /\ \A i \in DOMAIN second : tracks[i].state = "tracked"
  /\ DOMAIN tracks' = Kept(matched) \union matched \union DOMAIN born
  /\ tracks' = [i \in DOMAIN tracks' |-> tracks'[i]]
  /\ \A i \in Kept(matched) : tracks'[i] = Miss(tracks[i])
  /\ \A i \in DOMAIN first : tracks'[i] = Seen(first[i])
  /\ \A i \in DOMAIN second : tracks'[i] = Seen(second[i])
  /\ \A i \in DOMAIN born : tracks'[i] = Seen(born[i])
  /\ DOMAIN returned' = matched \union DOMAIN born
  /\ returned' = [i \in DOMAIN returned' |-> returned'[i]]
  /\ \A i \in DOMAIN returned' : returned'[i] = tracks'[i].of
  /\ \A i \in DOMAIN born : i \in nextId .. nextId' - 1
  /\ nextId' >= nextId /\ nextId' \in Nat
  /\ scores' = score

\* Detections go to tracks by their score, each to one, and no confident one
\* is left over.
LEMMA ClaimFacts ==
  ASSUME TrackerTypeOK, NEW score, NEW first, NEW second, NEW born,
         Choice(score, first, second, born)
  PROVE  Claims(score, first, second, born)
<1> DEFINE fresh == Unclaimed(Scored(score, "high"), first)
<1>1. /\ first \in [DOMAIN first -> Scored(score, "high")] /\ IsInjective(first)
      /\ second \in [DOMAIN second -> Scored(score, "low")] /\ IsInjective(second)
  BY AssociationFacts DEF Choice
<1>2. nextId \in Nat \ {0}
  BY DEF TrackerTypeOK
<1>3. fresh \in SUBSET Detections
  BY DEF Unclaimed, Scored
<1>4. /\ born \in [DOMAIN born -> fresh] /\ IsInjective(born)
      /\ \A d \in fresh : \E i \in DOMAIN born : born[i] = d
  <2> HIDE DEF fresh
  <2>1. born \in Births(fresh)
    BY DEF Choice, fresh
  <2> QED BY <1>2, <1>3, <2>1, BirthFacts
<1>5. QED
  BY <1>1, <1>4 DEF Scored, Unclaimed, Claims

\* Each part of the next state follows from the choice made in the step.
LEMMA OutcomeFacts ==
  ASSUME TrackerTypeOK, NEW score, NEW first, NEW second, NEW born,
         Choice(score, first, second, born), Observe(score, first, second, born)
  PROVE  Outcome(score, first, second, born, DOMAIN first \union DOMAIN second)
<1> DEFINE matched == DOMAIN first \union DOMAIN second
           kept == Kept(matched)
           Of(i) == IF i \in DOMAIN born THEN born[i]
                    ELSE IF i \in DOMAIN second THEN second[i] ELSE first[i]
           fresh == Unclaimed(Scored(score, "high"), first)
<1>1. /\ DOMAIN first \subseteq DOMAIN tracks
      /\ DOMAIN second \subseteq SecondStage(DOMAIN tracks \ DOMAIN first)
  BY AssociationFacts DEF Choice
<1>2. DOMAIN second \subseteq DOMAIN tracks \ DOMAIN first
  BY <1>1 DEF SecondStage
<1>3. fresh \in SUBSET Detections
  BY DEF Unclaimed, Scored
<1>4. nextId \in Nat \ {0} /\ DOMAIN tracks \subseteq 1 .. nextId - 1
  BY DEF TrackerTypeOK
<1>5. /\ Cardinality(fresh) \in Nat
      /\ DOMAIN born = nextId .. nextId + Cardinality(fresh) - 1
      /\ Cardinality(DOMAIN born) = Cardinality(fresh)
  <2> HIDE DEF fresh
  <2>1. born \in Births(fresh)
    BY DEF Choice, fresh
  <2> QED BY <1>3, <1>4, <2>1, BirthFacts
<1>6. nextId' = nextId + Cardinality(fresh)
  BY <1>5 DEF Observe
<1>7. /\ \A i \in DOMAIN born : i \in nextId .. nextId' - 1
      /\ nextId' >= nextId /\ nextId' \in Nat
  BY <1>4, <1>5, <1>6
<1>8. \A i \in DOMAIN born : i \notin DOMAIN tracks
  BY <1>4, <1>5
<1>9. tracks' = [i \in kept \union matched \union DOMAIN born |->
                  IF i \in kept THEN Miss(tracks[i]) ELSE Seen(Of(i))]
  BY DEF Observe
<1>10. /\ DOMAIN tracks' = kept \union matched \union DOMAIN born
       /\ \A i \in kept : tracks'[i] = Miss(tracks[i])
       /\ \A i \in matched \union DOMAIN born : tracks'[i] = Seen(Of(i))
  <2>1. \A i \in matched \union DOMAIN born : i \notin kept
    BY <1>8 DEF Kept
  <2> HIDE DEF kept, matched, Of
  <2> QED BY <1>9, <2>1
<1>11. /\ \A i \in DOMAIN born : Of(i) = born[i]
       /\ \A i \in DOMAIN second : Of(i) = second[i]
       /\ \A i \in DOMAIN first : Of(i) = first[i]
  BY <1>1, <1>2, <1>8
<1>12. /\ \A i \in matched \union DOMAIN born : tracks'[i].state = "tracked"
       /\ \A i \in kept : tracks'[i].state = "lost"
  <2>1. \A i \in matched \union DOMAIN born : tracks'[i].state = "tracked"
    <3>1. \A d : Seen(d).state = "tracked"
      BY DEF Seen
    <3> HIDE DEF kept, matched, Of
    <3> QED BY <1>10, <3>1
  <2>2. \A i \in kept : tracks[i] \in Track
    BY DEF TrackerTypeOK, Kept
  <2>3. \A i \in kept : tracks'[i].state = "lost"
    <3> HIDE DEF kept, matched, Of
    <3> QED BY <1>10, <2>2 DEF Miss, Track
  <2> QED BY <2>1, <2>3
<1>13. returned' = [i \in {j \in DOMAIN tracks' : tracks'[j].state = "tracked"}
                          \intersect (matched \union DOMAIN born) |-> tracks'[i].of]
  BY DEF Observe
<1>14. /\ DOMAIN returned' = matched \union DOMAIN born
       /\ returned' = [i \in DOMAIN returned' |-> tracks'[i].of]
  <2> HIDE DEF kept, matched, Of
  <2> QED BY <1>10, <1>12, <1>13
<1>15. scores' = score
  BY DEF Observe
<1>16. QED
  <2>1. /\ \A i \in DOMAIN first : tracks'[i] = Seen(first[i])
        /\ \A i \in DOMAIN second : tracks'[i] = Seen(second[i])
        /\ \A i \in DOMAIN born : tracks'[i] = Seen(born[i])
    <3>1. DOMAIN first \subseteq matched /\ DOMAIN second \subseteq matched
      OBVIOUS
    <3> HIDE DEF kept, matched, Of
    <3> QED BY <1>10, <1>11, <3>1
  <2>2. \A i \in DOMAIN returned' : returned'[i] = tracks'[i].of
    BY <1>14
  <2>3. DOMAIN first \intersect DOMAIN second = {}
    BY <1>2
  <2>4. matched \subseteq DOMAIN tracks
    BY <1>1, <1>2
  <2>5. \A i \in DOMAIN second : tracks[i].state = "tracked"
    BY <1>1 DEF SecondStage
  <2>6. tracks' = [i \in DOMAIN tracks' |-> tracks'[i]]
    BY <1>9, <1>10
  <2>7. returned' = [i \in DOMAIN returned' |-> returned'[i]]
    BY <1>14
  <2>8. QED
    <3> HIDE DEF kept
    <3> QED BY <1>7, <1>10, <1>14, <1>15, <2>1, <2>2, <2>3, <2>4, <2>5, <2>6, <2>7
               DEF Outcome, kept

-----------------------------------------------------------------------------
\* The two, for a step of Next.
LEMMA TrackerStepFacts ==
  ASSUME TrackerTypeOK, TrackerNext
  PROVE  \E score, first, second, born, matched :
           Claims(score, first, second, born) /\ Outcome(score, first, second, born, matched)
<1>1. PICK score, first, second, born :
        Choice(score, first, second, born) /\ Observe(score, first, second, born)
  BY DEF TrackerNext, Update, Choice
<1>2. Claims(score, first, second, born)
  BY <1>1, ClaimFacts
<1>3. Outcome(score, first, second, born, DOMAIN first \union DOMAIN second)
  BY <1>1, OutcomeFacts
<1>4. QED
  BY <1>2, <1>3

\* Every variable keeps its type: ids are given out from 1 on without a gap,
\* and no live track has been unseen for more than track_buffer updates.
THEOREM TrackerTypeCorrect == TrackerSpec => []TrackerTypeOK
<1>1. TrackerInit => TrackerTypeOK
  BY DEF TrackerInit, TrackerTypeOK, Nothing, Scores
<1>2. TrackerTypeOK /\ [TrackerNext]_trackerVars => TrackerTypeOK'
  <2>1. CASE UNCHANGED trackerVars
    BY <2>1 DEF trackerVars, TrackerTypeOK
  <2>2. ASSUME TrackerTypeOK, TrackerNext PROVE TrackerTypeOK'
    <3>1. PICK score, first, second, born, matched :
            Claims(score, first, second, born) /\ Outcome(score, first, second, born, matched)
      BY <2>2, TrackerStepFacts
    <3>2. nextId \in Nat \ {0} /\ DOMAIN tracks \subseteq 1 .. nextId - 1
      BY <2>2 DEF TrackerTypeOK
    <3>3. nextId' \in Nat \ {0} /\ nextId' >= nextId
      BY <3>1, <3>2 DEF Outcome
    <3>4. DOMAIN tracks' \subseteq 1 .. nextId' - 1
      <4>1. \A i \in DOMAIN born : i \in 1 .. nextId' - 1
        BY <3>1, <3>2, <3>3 DEF Outcome
      <4>2. \A i \in DOMAIN tracks : i \in 1 .. nextId' - 1
        BY ONLY <3>2, <3>3
      <4>3. DOMAIN tracks' \subseteq DOMAIN tracks \union DOMAIN born
        BY <3>1 DEF Outcome, Kept
      <4>4. QED
        BY ONLY <4>1, <4>2, <4>3
    <3>5. \A i \in DOMAIN tracks' : tracks'[i] \in Track
      <4>1. ASSUME NEW i \in Kept(matched) PROVE Miss(tracks[i]) \in Track
        <5>1. tracks[i] \in Track /\ ~(tracks[i].missed + 1 > TrackBuffer)
          BY <2>2 DEF TrackerTypeOK, Expired, Kept
        <5>2. tracks[i].missed \in 0 .. TrackBuffer /\ tracks[i].of \in Detections
          BY <5>1 DEF Track
        <5>3. tracks[i].missed + 1 \in 0 .. TrackBuffer
          BY <5>1, <5>2, TrackerAssumption
        <5>4. QED
          BY <5>2, <5>3 DEF Track, Miss
      <4>2. \A d \in Detections : Seen(d) \in Track
        BY TrackerAssumption DEF Seen, Track
      <4>3. \A i \in Kept(matched) : tracks'[i] \in Track
        BY <3>1, <4>1 DEF Outcome
      <4>4. \A i \in matched \union DOMAIN born : tracks'[i] \in Track
        BY <3>1, <4>2 DEF Outcome, Claims
      <4>5. QED
        BY <3>1, <4>3, <4>4 DEF Outcome
    <3>6. \A i \in DOMAIN returned' : returned'[i] \in Detections
      BY <3>1, <3>5 DEF Outcome, Track
    <3>7. scores' \in [Detections -> Scores]
      BY <2>2 DEF TrackerNext, Update, Observe
    <3>8. QED
      BY <3>1, <3>3, <3>4, <3>5, <3>6, <3>7 DEF Outcome, TrackerTypeOK
  <2>3. QED
    BY <2>1, <2>2
<1>3. QED
  BY <1>1, <1>2, PTL DEF TrackerSpec
-----------------------------------------------------------------------------
(* The inductive invariant of the remaining theorems: what was returned    *)
(* last is the tracks that are TRACKED, each with the detection it has.    *)
StateInv ==
  /\ TrackerTypeOK
  /\ StateTells
  /\ \A i \in DOMAIN returned : returned[i] = tracks[i].of

\* A step leaves every track either returned and TRACKED, or unseen and LOST.
LEMMA StateStep ==
  ASSUME StateInv, [TrackerNext]_trackerVars
  PROVE  StateTells' /\ (\A i \in DOMAIN returned : returned[i] = tracks[i].of)'
<1>1. CASE UNCHANGED trackerVars
  BY <1>1 DEF trackerVars, StateInv, StateTells
<1>2. CASE TrackerNext
  <2>1. PICK score, first, second, born, matched :
          Claims(score, first, second, born) /\ Outcome(score, first, second, born, matched)
    BY <1>2, TrackerStepFacts DEF StateInv
  <2>2. ASSUME NEW i \in Kept(matched)
        PROVE  /\ tracks'[i].state = "lost" /\ tracks'[i].missed > 0
               /\ i \notin DOMAIN returned'
    <3>1. i \in DOMAIN tracks /\ i \notin matched
      BY DEF Kept
    <3>2. tracks[i].missed \in Nat /\ i \notin DOMAIN born
      <4>1. tracks[i] \in Track /\ i \in 1 .. nextId - 1 /\ nextId \in Nat
        BY <3>1 DEF StateInv, TrackerTypeOK
      <4>2. tracks[i].missed \in Nat
        BY <4>1, TrackerAssumption DEF Track
      <4>3. i \notin DOMAIN born
        BY <2>1, <4>1 DEF Outcome
      <4>4. QED
        BY <4>2, <4>3
    <3>3. tracks'[i] = Miss(tracks[i]) /\ i \notin DOMAIN returned'
      BY <2>1, <3>1, <3>2 DEF Outcome
    <3>4. QED
      BY <3>2, <3>3 DEF Miss
  <2>3. ASSUME NEW i \in matched \union DOMAIN born
        PROVE  /\ tracks'[i].state = "tracked" /\ tracks'[i].missed = 0
               /\ i \in DOMAIN returned'
    <3>1. \E d : tracks'[i] = Seen(d)
      BY <2>1 DEF Outcome
    <3>2. i \in DOMAIN returned'
      BY <2>1 DEF Outcome
    <3>3. QED
      BY <3>1, <3>2 DEF Seen
  <2>4. DOMAIN tracks' = Kept(matched) \union (matched \union DOMAIN born)
    BY <2>1 DEF Outcome
  <2>5. StateTells'
    BY <2>2, <2>3, <2>4 DEF StateTells
  <2>6. QED
    BY <2>1, <2>5 DEF Outcome
<1>3. QED
  BY <1>1, <1>2

\* A track is TRACKED if and only if the last update returned it.
THEOREM StateIsCurrent == TrackerSpec => []StateTells
<1>1. TrackerInit => StateTells /\ (\A i \in DOMAIN returned : returned[i] = tracks[i].of)
  BY DEF TrackerInit, StateTells, Nothing
<1>2. TrackerTypeOK /\ StateTells /\ (\A i \in DOMAIN returned : returned[i] = tracks[i].of)
        /\ [TrackerNext]_trackerVars
      => (StateTells /\ (\A i \in DOMAIN returned : returned[i] = tracks[i].of))'
  BY StateStep DEF StateInv
<1>3. QED
  BY <1>1, <1>2, TrackerTypeCorrect, PTL DEF TrackerSpec

\* Each update reports every confident detection, under one identity, and
\* nothing that the frame did not show.
THEOREM FrameReported == TrackerSpec => []ReportsFrame
<1>1. TrackerInit => ReportsFrame
  BY DEF TrackerInit, ReportsFrame, Nothing, IsInjective, Scored
<1>2. TrackerTypeOK /\ ReportsFrame /\ [TrackerNext]_trackerVars => ReportsFrame'
  <2>1. CASE UNCHANGED trackerVars
    BY <2>1 DEF trackerVars, ReportsFrame, Scored
  <2>2. ASSUME TrackerTypeOK, TrackerNext PROVE ReportsFrame'
    <3>1. PICK score, first, second, born, matched :
            Claims(score, first, second, born) /\ Outcome(score, first, second, born, matched)
      BY <2>2, TrackerStepFacts
    <3>2. /\ \A i \in DOMAIN first : returned'[i] = first[i]
          /\ \A i \in DOMAIN second : returned'[i] = second[i]
          /\ \A i \in DOMAIN born : returned'[i] = born[i]
          /\ DOMAIN returned' = DOMAIN first \union DOMAIN second \union DOMAIN born
      <4>1. \A d : Seen(d).of = d
        BY DEF Seen
      <4>2. QED
        BY <3>1, <4>1 DEF Outcome
    <3>3. IsInjective(returned')
      BY <3>1, <3>2 DEF Claims, IsInjective
    <3>4. \A d \in Scored(scores', "high") : \E i \in DOMAIN returned' : returned'[i] = d
      <4>1. scores' = score
        BY <3>1 DEF Outcome
      <4>2. QED
        BY <3>1, <3>2, <4>1 DEF Claims, Scored
    <3>5. \A i \in DOMAIN returned' : scores'[returned'[i]] # "ignored"
      <4>1. scores' = score
        BY <3>1 DEF Outcome
      <4>2. QED
        BY <3>1, <3>2, <4>1 DEF Claims
    <3>6. QED
      BY <3>3, <3>4, <3>5 DEF ReportsFrame
  <2>3. QED
    BY <2>1, <2>2
<1>3. QED
  BY <1>1, <1>2, TrackerTypeCorrect, PTL DEF TrackerSpec

\* A weak detection never creates a track nor wakes a lost one.
THEOREM WeakOnlyContinues == TrackerSpec => WeakContinues
<1>1. TrackerTypeOK /\ StateTells /\ [TrackerNext]_trackerVars
      => [\A i \in DOMAIN returned' : scores'[returned'[i]] = "low" => i \in DOMAIN returned]_trackerVars
  <2>1. SUFFICES ASSUME TrackerTypeOK, StateTells, TrackerNext,
                        NEW i \in DOMAIN returned', scores'[returned'[i]] = "low"
                 PROVE  i \in DOMAIN returned
    OBVIOUS
  <2>2. PICK score, first, second, born, matched :
          Claims(score, first, second, born) /\ Outcome(score, first, second, born, matched)
    BY <2>1, TrackerStepFacts
  <2>3. /\ \A j \in DOMAIN first : returned'[j] = first[j]
        /\ \A j \in DOMAIN born : returned'[j] = born[j]
    <3>1. \A d : Seen(d).of = d
      BY DEF Seen
    <3>2. QED
      BY <2>2, <3>1 DEF Outcome
  <2>4. i \in DOMAIN second
    BY <2>1, <2>2, <2>3 DEF Claims, Outcome
  <2>5. QED
    BY <2>1, <2>2, <2>4 DEF Outcome, StateTells
<1>2. QED
  BY <1>1, TrackerTypeCorrect, StateIsCurrent, PTL DEF TrackerSpec, WeakContinues

\* Identities are given out once and held for track_buffer unseen updates.
THEOREM IdentitiesKept == TrackerSpec => IdentitiesLast
<1>1. TrackerTypeOK /\ [TrackerNext]_trackerVars
      => [/\ \A i \in DOMAIN tracks' \ DOMAIN tracks : i >= nextId
          /\ \A i \in DOMAIN tracks \ DOMAIN tracks' : tracks[i].missed = TrackBuffer]_trackerVars
  <2>1. SUFFICES ASSUME TrackerTypeOK, TrackerNext
                 PROVE  /\ \A i \in DOMAIN tracks' \ DOMAIN tracks : i >= nextId
                        /\ \A i \in DOMAIN tracks \ DOMAIN tracks' : tracks[i].missed = TrackBuffer
    OBVIOUS
  <2>2. PICK score, first, second, born, matched :
          Claims(score, first, second, born) /\ Outcome(score, first, second, born, matched)
    BY <2>1, TrackerStepFacts
  <2>3. \A i \in DOMAIN tracks' \ DOMAIN tracks : i >= nextId
    <3>1. \A i \in DOMAIN tracks' \ DOMAIN tracks : i \in DOMAIN born
      BY <2>2 DEF Outcome, Kept
    <3>2. \A i \in DOMAIN born : i >= nextId
      <4>1. nextId \in Nat /\ nextId' \in Nat
        BY <2>1, <2>2 DEF TrackerTypeOK, Outcome
      <4>2. \A i \in DOMAIN born : i \in nextId .. nextId' - 1
        BY <2>2 DEF Outcome
      <4>3. QED
        BY ONLY <4>1, <4>2
    <3>3. QED
      BY <3>1, <3>2
  <2>4. ASSUME NEW i \in DOMAIN tracks \ DOMAIN tracks'
        PROVE  tracks[i].missed = TrackBuffer
    <3>1. Expired(i)
      BY <2>2 DEF Outcome, Kept
    <3>2. tracks[i].missed \in 0 .. TrackBuffer
      BY <2>1 DEF TrackerTypeOK, Track
    <3>3. QED
      BY <3>1, <3>2, TrackerAssumption DEF Expired
  <2>5. QED
    BY <2>3, <2>4
<1>2. QED
  BY <1>1, TrackerTypeCorrect, PTL DEF TrackerSpec, IdentitiesLast
=============================================================================

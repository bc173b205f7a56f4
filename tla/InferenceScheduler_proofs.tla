----------------------- MODULE InferenceScheduler_proofs -----------------------
(***************************************************************************)
(* Proofs about InferenceScheduler, for every number of cameras, batch and *)
(* queue size, analytics interval, circuit-breaker setting and frame age.  *)
(***************************************************************************)
EXTENDS InferenceScheduler, SequenceTheorems, TLAPS

(***************************************************************************)
(* A result is put only while there is one to put.                         *)
(***************************************************************************)
HoldsPacket == pc \in {"evict", "enqueue"} => batch # <<>>

LEMMA NextCursor ==
  ASSUME NEW c \in Cameras
  PROVE  /\ (c + 1) % NumCameras = IF c + 1 = NumCameras THEN 0 ELSE c + 1
         /\ (c + 1) % NumCameras \in Cameras
<1>1. NumCameras \in Nat \ {0} /\ c \in 0 .. NumCameras - 1
  BY BufferAssumption DEF Cameras
<1>2. (c + 1) % NumCameras = IF c + 1 = NumCameras THEN 0 ELSE c + 1
  BY <1>1
<1>3. QED
  BY <1>1, <1>2 DEF Cameras

LEMMA ZeroIsCamera == 0 \in Cameras
BY BufferAssumption DEF Cameras

LEMMA CounterUp ==
  ASSUME NEW m \in Metrics, NEW n \in Nat
  PROVE  /\ [m EXCEPT !.stale = @ + 1] \in Metrics
         /\ [m EXCEPT !.drops = @ + 1] \in Metrics
         /\ [m EXCEPT !.processed = @ + n] \in Metrics
         /\ [m EXCEPT !.failed = @ + 1] \in Metrics
         /\ [m EXCEPT !.failed = @ + 1, !.opened = @ + 1] \in Metrics
<1>1. m.processed + n \in Nat /\ m.stale + 1 \in Nat /\ m.failed + 1 \in Nat
      /\ m.drops + 1 \in Nat /\ m.opened + 1 \in Nat
  BY DEF Metrics
<1>2. [m EXCEPT !.stale = @ + 1] \in Metrics
  BY <1>1 DEF Metrics
<1>3. [m EXCEPT !.drops = @ + 1] \in Metrics
  BY <1>1 DEF Metrics
<1>4. [m EXCEPT !.processed = @ + n] \in Metrics
  BY <1>1 DEF Metrics
<1>5. [m EXCEPT !.failed = @ + 1] \in Metrics
  BY <1>1 DEF Metrics
<1>6. [m EXCEPT !.failed = @ + 1, !.opened = @ + 1] \in Metrics
  BY <1>1 DEF Metrics
<1>7. QED
  BY <1>2, <1>3, <1>4, <1>5, <1>6

\* Counting one camera up, or setting its entry, keeps a function of cameras.
LEMMA EntrySet ==
  ASSUME NEW f \in [Cameras -> Nat], NEW c \in Cameras, NEW n \in Nat
  PROVE  /\ [f EXCEPT ![c] = n] \in [Cameras -> Nat]
         /\ [f EXCEPT ![c] = @ + 1] \in [Cameras -> Nat]
OBVIOUS

LEMMA EntryTyped ==
  ASSUME NEW f \in [Cameras -> Nat]
  PROVE  \A c \in Cameras : f[c] \in Nat /\ f[c] + 1 \in Nat
OBVIOUS

\* The slot's operations keep its type.
LEMMA BufferTyped ==
  ASSUME BufferTypeOK, NEW c \in Cameras, NEW after
  PROVE  /\ Publish(c) => BufferTypeOK'
         /\ ReadStale(c, after) => BufferTypeOK'
         /\ ReadFresh(c, after) => BufferTypeOK'
         /\ FramesAge => BufferTypeOK'
<1> USE DEF BufferTypeOK
<1>1. Publish(c) => BufferTypeOK'
  <2>1. 0 \in 0 .. MaxAge + 1
    BY BufferAssumption
  <2>2. QED
    BY <2>1, EntrySet DEF Publish
<1>2. ReadStale(c, after) => BufferTypeOK'
  BY EntrySet DEF ReadStale
<1>3. ReadFresh(c, after) => BufferTypeOK'
  BY EntrySet DEF ReadFresh
<1>4. FramesAge => BufferTypeOK'
  <2>1. ASSUME NEW d \in Cameras
        PROVE  (IF TooOld(d) THEN age[d] ELSE age[d] + 1) \in 0 .. MaxAge + 1
    BY BufferAssumption DEF TooOld
  <2>2. QED
    BY <2>1 DEF FramesAge
<1>5. QED
  BY <1>1, <1>2, <1>3, <1>4

\* A visit moves to the camera under the cursor and steps the cursor.
LEMMA VisitFacts ==
  ASSUME TypeOK, Visit
  PROVE  /\ pc = "collect"
         /\ visited' = cursor /\ cursor \in Cameras
         /\ cursor' = (IF cursor + 1 = NumCameras THEN 0 ELSE cursor + 1)
         /\ cursor' \in Cameras
         /\ checked' \in 0 .. NumCameras
<1>1. /\ pc = "collect" /\ visited' = cursor /\ cursor \in Cameras
      /\ cursor' = (cursor + 1) % NumCameras
      /\ checked' = checked + 1 /\ checked \in 0 .. NumCameras /\ checked # NumCameras
  BY DEF TypeOK, Visit, CollectDone
<1>2. checked' \in 0 .. NumCameras
  BY <1>1, BufferAssumption
<1>3. QED
  BY <1>1, <1>2, NextCursor

(***************************************************************************)
(* Every variable keeps its type, and a result is put only while there is  *)
(* one to put (HoldsPacket, without which Head(batch) has no type).        *)
(***************************************************************************)
TypeInv == TypeOK /\ HoldsPacket

THEOREM TypeInvCorrect == Spec => []TypeInv
<1>1. Init => TypeInv
  <2>1. Init => [c \in Cameras |-> Interval[c]] \in [Cameras -> Nat]
    BY SchedulerAssumption
  <2>2. Init => 0 \in 0 .. MaxAge + 1 /\ 0 \in 0 .. NumCameras
    BY BufferAssumption
  <2>3. Init => metrics \in Metrics
    BY DEF Init, Metrics
  <2>4. Init => BufferTypeOK
    BY <2>2 DEF BufferInit, BufferTypeOK, Init
  <2>5. Init => batch \in Seq(Packets) /\ results \in Seq(Packets)
    BY EmptySeq DEF Init
  <2>6. Init => /\ last \in [Cameras -> Nat] /\ since \in [Cameras -> Nat]
                /\ taken \in [Cameras -> Nat] /\ delivered \in [Cameras -> Nat]
                /\ overtaken \in [Cameras -> [Cameras -> Nat]]
    BY <2>1 DEF Init, NoneAhead
  <2>7. Init => /\ pc = "poll" /\ stop \in BOOLEAN /\ cursor \in Cameras /\ visited \in Cameras
                /\ checked \in 0 .. NumCameras /\ batchSize \in Nat /\ failures \in Nat
                /\ openFor \in Nat /\ deliveries \in Nat
    <3> SUFFICES ASSUME Init
                 PROVE  /\ pc = "poll" /\ stop \in BOOLEAN /\ cursor \in Cameras
                        /\ visited \in Cameras
                        /\ checked \in 0 .. NumCameras /\ batchSize \in Nat
                        /\ failures \in Nat /\ openFor \in Nat /\ deliveries \in Nat
      OBVIOUS
    <3>1. /\ pc = "poll" /\ stop = FALSE /\ cursor = 0 /\ visited = 0
          /\ checked = 0 /\ batchSize = 0 /\ failures = 0
          /\ openFor = 0 /\ deliveries = 0
      BY DEF Init
    <3>2. stop \in BOOLEAN
      BY <3>1, Zenon
    <3>3. QED
      BY <2>2, <3>1, <3>2, ZeroIsCamera
  <2>8. QED
    BY <2>3, <2>4, <2>5, <2>6, <2>7
       DEF TypeInv, HoldsPacket, TypeOK, Locations
<1>2. TypeInv /\ [Next]_vars => TypeInv'
  <2> SUFFICES ASSUME TypeOK, HoldsPacket, [Next]_vars
               PROVE  TypeInv'
    BY DEF TypeInv
  <2> USE DEF TypeInv, HoldsPacket, TypeOK, BufferTypeOK, Locations, bufferVars,
              threadVars, historyVars
  <2>1. ASSUME NEW c \in Cameras, CaptureFrame(c)
        PROVE  TypeInv'
    BY <2>1, BufferTyped DEF CaptureFrame
  <2>2. CASE Tick
    <3>1. BufferTypeOK'
      BY <2>2, ZeroIsCamera, BufferTyped DEF Tick
    <3>2. since' \in [Cameras -> Nat]
      <4>1. \A c \in Cameras : since[c] \in Nat /\ since[c] + 1 \in Nat
        BY EntryTyped
      <4>2. QED
        BY <2>2, <4>1 DEF Tick
    <3>3. openFor' \in Nat
      BY <2>2 DEF Tick
    <3>4. QED
      BY <2>2, <3>1, <3>2, <3>3 DEF Tick
  <2>3. CASE GetResult
    <3>1. Head(results) \in Packets /\ Tail(results) \in Seq(Packets)
      BY <2>3, HeadTailProperties DEF GetResult
    <3>2. Head(results).camera \in Cameras /\ Head(results).frame \in Nat
      BY <3>1 DEF Packets
    <3>3. delivered' \in [Cameras -> Nat]
      BY <2>3, <3>2, EntrySet DEF GetResult
    <3>4. deliveries' \in Nat
      BY <2>3 DEF GetResult
    <3>5. QED
      BY <2>3, <3>1, <3>3, <3>4 DEF GetResult
  <2>4. CASE Stop
    BY <2>4 DEF Stop
  <2>5. CASE Leave
    BY <2>5 DEF Leave
  <2>6. CASE BeginCollect
    BY <2>6 DEF BeginCollect
  <2>7. CASE VisitIdle
    <3>1. visited' \in Cameras /\ cursor' \in Cameras /\ checked' \in 0 .. NumCameras
      BY <2>7, VisitFacts DEF VisitIdle
    <3>2. overtaken' \in [Cameras -> [Cameras -> Nat]] /\ UNCHANGED bufferVars
      BY <2>7 DEF VisitIdle, ReadNothing, NoneAhead
    <3>3. QED
      BY <2>7, <3>1, <3>2 DEF VisitIdle
  <2>8. CASE VisitStale
    <3>1. visited' \in Cameras /\ cursor' \in Cameras /\ checked' \in 0 .. NumCameras
      BY <2>8, VisitFacts DEF VisitStale
    <3>2. metrics' \in Metrics /\ overtaken' \in [Cameras -> [Cameras -> Nat]]
      BY <2>8, CounterUp DEF VisitStale, NoneAhead
    <3>3. BufferTypeOK'
      BY <2>8, <3>1, BufferTyped DEF VisitStale
    <3>4. QED
      BY <2>8, <3>1, <3>2, <3>3 DEF VisitStale
  <2>9. CASE MarkStale
    BY <2>9 DEF MarkStale
  <2>10. CASE VisitFresh
    <3>1. visited' \in Cameras /\ cursor' \in Cameras /\ checked' \in 0 .. NumCameras
      BY <2>10, VisitFacts DEF VisitFresh
    <3>2. batch' \in Seq(Packets)
      <4>1. [camera |-> visited', frame |-> sequence[visited']] \in Packets
        BY <3>1 DEF Packets
      <4>2. QED
        BY <2>10, <4>1, AppendProperties DEF VisitFresh
    <3>3. /\ last' \in [Cameras -> Nat]
          /\ since' \in [Cameras -> Nat]
          /\ taken' \in [Cameras -> Nat]
      BY <2>10, <3>1, EntrySet DEF VisitFresh
    <3>31. overtaken' \in [Cameras -> [Cameras -> Nat]]
      <4>1. NoneAhead \in [Cameras -> Nat]
        BY DEF NoneAhead
      <4>2. \A c \in Cameras :
              [overtaken[c] EXCEPT ![visited'] = @ + 1] \in [Cameras -> Nat]
        BY <3>1, EntrySet
      <4>3. QED
        BY <2>10, <4>1, <4>2 DEF VisitFresh
    <3>4. BufferTypeOK'
      BY <2>10, <3>1, BufferTyped DEF VisitFresh
    <3>5. QED
      BY <2>10, <3>1, <3>2, <3>3, <3>31, <3>4, VisitFacts DEF VisitFresh
  <2>11. CASE EndCollect
    <3>1. 0 \in 0 .. NumCameras
      BY BufferAssumption
    <3>2. QED
      BY <2>11, <3>1, ZeroIsCamera DEF EndCollect
  <2>12. CASE InferSucceeds
    BY <2>12, LenProperties DEF InferSucceeds
  <2>13. CASE InferFails
    <3>1. metrics' \in Metrics
      <4>1. metrics' = [metrics EXCEPT !.failed = @ + 1, !.opened = @ + 1]
              \/ metrics' = [metrics EXCEPT !.failed = @ + 1]
        BY <2>13 DEF InferFails, Metrics
      <4>2. QED
        BY <4>1, CounterUp
    <3>2. failures' \in Nat /\ openFor' \in Nat /\ batch' \in Seq(Packets)
      <4>1. Reset \in Nat /\ failures + 1 \in Nat /\ 0 \in Nat /\ openFor \in Nat
        BY SchedulerAssumption
      <4>2. batch' = <<>>
        BY <2>13 DEF InferFails
      <4>3. /\ failures' = 0 \/ failures' = failures + 1
            /\ openFor' = Reset \/ openFor' = openFor
        BY <2>13 DEF InferFails
      <4>4. batch' \in Seq(Packets)
        BY <4>2, EmptySeq
      <4>5. failures' \in Nat /\ openFor' \in Nat
        BY <4>1, <4>3
      <4>6. QED
        BY <4>4, <4>5
    <3>3. QED
      BY <2>13, <3>1, <3>2 DEF InferFails
  <2>14. CASE PutResult
    BY <2>14 DEF PutResult
  <2>15. CASE Evict
    <3>1. metrics' \in Metrics
      BY <2>15, CounterUp DEF Evict
    <3>2. results' \in Seq(Packets)
      BY <2>15, HeadTailProperties DEF Evict
    <3>3. QED
      BY <2>15, <3>1, <3>2 DEF Evict
  <2>16. CASE Enqueue
    <3>1. Head(batch) \in Packets /\ Tail(batch) \in Seq(Packets)
      BY <2>16, HeadTailProperties DEF Enqueue
    <3>2. results' \in Seq(Packets) /\ batch' \in Seq(Packets)
      <4>1. Append(results, Head(batch)) \in Seq(Packets)
        BY <3>1, AppendProperties
      <4>2. QED
        BY <2>16, <3>1, <4>1 DEF Enqueue
    <3>3. QED
      BY <2>16, <3>2 DEF Enqueue
  <2>17. CASE PutDone
    <3>1. metrics' \in Metrics
      BY <2>17, CounterUp DEF PutDone
    <3>2. QED
      BY <2>17, <3>1 DEF PutDone
  <2>18. CASE UNCHANGED vars
    BY <2>18 DEF vars
  <2>19. QED
    BY <2>1, <2>2, <2>3, <2>4, <2>5, <2>6, <2>7, <2>8, <2>9, <2>10, <2>11,
       <2>12, <2>13, <2>14, <2>15, <2>16, <2>17, <2>18
       DEF Next, Thread, Collect, Infer, Put
<1>3. QED
  BY <1>1, <1>2, PTL DEF Spec

\* The type invariant the runs check, for every value of the constants.
THEOREM TypeCorrect == Spec => []TypeOK
BY TypeInvCorrect, PTL DEF TypeInv

-----------------------------------------------------------------------------
(***************************************************************************)
(* Frame accounting.  FrameAccounting alone is not inductive: it needs the *)
(* scheduler's own position (_last_sequences) never to be behind the       *)
(* slot's consumed mark, except between counting a stale frame and marking *)
(* it seen.  Otherwise a frame could be read twice.                        *)
(***************************************************************************)
ReaderPosition ==
  \A c \in Cameras :
    /\ consumed[c] <= sequence[c] /\ last[c] <= sequence[c]
    /\ consumed[c] <= last[c] \/ (pc = "markStale" /\ visited = c)

SlotInv == FrameAccounting /\ ReaderPosition

\* Steps that touch neither a slot nor the scheduler's position in it.
SlotsAlone ==
  /\ UNCHANGED <<sequence, consumed, dropped, stale, taken, last>>
  /\ pc # "markStale" \/ UNCHANGED <<pc, visited>>

LEMMA SlotsAloneSteps ==
  ASSUME TypeOK,
         \/ Tick \/ GetResult \/ Stop \/ Leave \/ BeginCollect \/ VisitIdle
         \/ EndCollect \/ Infer \/ Put \/ UNCHANGED vars
  PROVE  SlotsAlone
<1> USE DEF SlotsAlone, bufferVars, threadVars, historyVars
<1>1. Tick => SlotsAlone
  BY DEF Tick, FramesAge
<1>2. GetResult \/ Stop => SlotsAlone
  BY DEF GetResult, Stop
<1>3. Leave \/ BeginCollect \/ EndCollect => SlotsAlone
  BY DEF Leave, BeginCollect, EndCollect
<1>4. VisitIdle => SlotsAlone
  BY DEF VisitIdle, ReadNothing, Visit
<1>5. Infer => SlotsAlone
  BY DEF Infer, InferSucceeds, InferFails
<1>6. Put => SlotsAlone
  BY DEF Put, PutResult, Evict, Enqueue, PutDone
<1>7. UNCHANGED vars => SlotsAlone
  BY DEF vars
<1>8. QED
  BY <1>1, <1>2, <1>3, <1>4, <1>5, <1>6, <1>7

LEMMA SlotInvStep == TypeInv /\ SlotInv /\ [Next]_vars => SlotInv'
<1> SUFFICES ASSUME TypeInv, SlotInv, [Next]_vars
             PROVE  SlotInv'
  OBVIOUS
<1>0. /\ TypeOK
      /\ sequence \in [Cameras -> Nat] /\ consumed \in [Cameras -> Nat]
      /\ dropped \in [Cameras -> Nat] /\ stale \in [Cameras -> Nat]
      /\ taken \in [Cameras -> Nat] /\ last \in [Cameras -> Nat]
  BY DEF TypeInv, TypeOK, BufferTypeOK
<1>1. CASE SlotsAlone
  BY <1>1 DEF SlotsAlone, SlotInv, FrameAccounting, ReaderPosition, Unread
<1>2. ASSUME NEW c \in Cameras, CaptureFrame(c)
      PROVE  SlotInv'
  <2>1. /\ sequence' = [sequence EXCEPT ![c] = @ + 1]
        /\ dropped' = IF sequence[c] > consumed[c]
                      THEN [dropped EXCEPT ![c] = @ + 1] ELSE dropped
        /\ UNCHANGED <<consumed, stale, taken, last, pc, visited>>
    BY <1>2 DEF CaptureFrame, Publish, threadVars, historyVars
  <2>2. ASSUME NEW d \in Cameras
        PROVE  /\ sequence'[d] = dropped'[d] + stale'[d] + taken'[d] + Unread(d)'
               /\ consumed'[d] <= sequence'[d] /\ last'[d] <= sequence'[d]
    BY <1>0, <2>1 DEF SlotInv, FrameAccounting, ReaderPosition, Unread
  <2>3. QED
    BY <2>1, <2>2 DEF SlotInv, FrameAccounting, ReaderPosition
<1>3. CASE VisitStale
  <2> DEFINE c == cursor
  <2>1. /\ c \in Cameras /\ visited' = c /\ pc = "collect" /\ pc' = "markStale"
        /\ sequence[c] > last[c]
        /\ stale' = [stale EXCEPT ![c] = @ + 1]
        /\ consumed' = [consumed EXCEPT ![c] = sequence[c]]
        /\ UNCHANGED <<sequence, dropped, taken, last>>
    BY <1>0, <1>3, VisitFacts DEF VisitStale, ReadStale, HasNew
  <2>2. ASSUME NEW d \in Cameras
        PROVE  /\ sequence'[d] = dropped'[d] + stale'[d] + taken'[d] + Unread(d)'
               /\ consumed'[d] <= sequence'[d] /\ last'[d] <= sequence'[d]
               /\ consumed'[d] <= last'[d] \/ d = c
    <3>1. CASE d = c
      BY <1>0, <2>1, <3>1 DEF SlotInv, FrameAccounting, ReaderPosition, Unread
    <3>2. CASE d # c
      BY <1>0, <2>1, <3>2 DEF SlotInv, FrameAccounting, ReaderPosition, Unread
    <3>3. QED
      BY <3>1, <3>2
  <2>3. QED
    BY <2>1, <2>2 DEF SlotInv, FrameAccounting, ReaderPosition
<1>4. CASE MarkStale
  <2>1. /\ pc = "markStale" /\ visited \in Cameras
        /\ last' = [last EXCEPT ![visited] = sequence[visited]]
        /\ UNCHANGED <<sequence, consumed, dropped, stale, taken>>
    BY <1>0, <1>4 DEF MarkStale, TypeOK, bufferVars, historyVars
  <2>2. ASSUME NEW d \in Cameras
        PROVE  /\ sequence'[d] = dropped'[d] + stale'[d] + taken'[d] + Unread(d)'
               /\ consumed'[d] <= sequence'[d] /\ last'[d] <= sequence'[d]
               /\ consumed'[d] <= last'[d]
    BY <1>0, <2>1 DEF SlotInv, FrameAccounting, ReaderPosition, Unread
  <2>3. QED
    BY <2>2 DEF SlotInv, FrameAccounting, ReaderPosition
<1>5. CASE VisitFresh
  <2> DEFINE c == cursor
  <2>1. /\ c \in Cameras /\ pc = "collect"
        /\ sequence[c] > last[c]
        /\ taken' = [taken EXCEPT ![c] = @ + 1]
        /\ consumed' = [consumed EXCEPT ![c] = sequence[c]]
        /\ last' = [last EXCEPT ![c] = sequence[c]]
        /\ UNCHANGED <<sequence, dropped, stale>>
    BY <1>0, <1>5, VisitFacts DEF VisitFresh, ReadFresh, HasNew
  <2>2. ASSUME NEW d \in Cameras
        PROVE  /\ sequence'[d] = dropped'[d] + stale'[d] + taken'[d] + Unread(d)'
               /\ consumed'[d] <= sequence'[d] /\ last'[d] <= sequence'[d]
               /\ consumed'[d] <= last'[d]
    BY <1>0, <2>1 DEF SlotInv, FrameAccounting, ReaderPosition, Unread
  <2>3. QED
    BY <2>2 DEF SlotInv, FrameAccounting, ReaderPosition
<1>6. \/ \E c \in Cameras : CaptureFrame(c)
      \/ Tick \/ GetResult \/ Stop \/ Leave \/ BeginCollect \/ VisitIdle
      \/ EndCollect \/ Infer \/ Put \/ UNCHANGED vars
      \/ VisitStale \/ MarkStale \/ VisitFresh
  BY DEF Next, Thread, Collect
<1>7. QED
  BY <1>0, <1>1, <1>2, <1>3, <1>4, <1>5, <1>6, SlotsAloneSteps

(***************************************************************************)
(* No published frame escapes the counters of its slot, and none is        *)
(* counted twice, whatever interleaving of cameras, scheduler and time.    *)
(***************************************************************************)
THEOREM FramesAccounted == Spec => []FrameAccounting
<1>1. Init => SlotInv
  BY DEF Init, BufferInit, SlotInv, FrameAccounting, ReaderPosition, Unread
<1>2. Spec => []SlotInv
  BY <1>1, TypeInvCorrect, SlotInvStep, PTL DEF Spec
<1>3. QED
  BY <1>2, PTL DEF SlotInv

-----------------------------------------------------------------------------
(***************************************************************************)
(* The result queue.  Between full() and put_nowait() only the consumer    *)
(* runs, and it only makes room, so a slot found or made free stays free.  *)
(***************************************************************************)
QueueInv ==
  /\ Len(results) <= QueueSize
  /\ pc = "enqueue" => Len(results) < QueueSize
  /\ NeverFull
  /\ ResultAccounting

\* Steps that leave the queue and its accounts as they are.
QueueAlone ==
  /\ UNCHANGED <<results, deliveries>>
  /\ metrics'.processed = metrics.processed /\ metrics'.drops = metrics.drops
  /\ PutSoFar' = PutSoFar
  /\ pc' = pc \/ pc' \notin {"enqueue", "died"} \/ (pc' = "enqueue" /\ ~Full)

LEMMA QueueAloneSteps ==
  ASSUME TypeOK,
         \/ \E c \in Cameras : CaptureFrame(c)
         \/ Tick \/ Stop \/ Leave \/ BeginCollect \/ Collect \/ Infer \/ PutResult
         \/ UNCHANGED vars
  PROVE  QueueAlone
<1> USE DEF QueueAlone, PutSoFar, bufferVars, threadVars, historyVars
<1>1. ASSUME NEW c \in Cameras, CaptureFrame(c)
      PROVE  QueueAlone
  BY <1>1 DEF CaptureFrame
<1>2. CASE Tick \/ Stop \/ Leave \/ UNCHANGED vars
  BY <1>2 DEF Tick, Stop, Leave, vars
<1>3. CASE BeginCollect \/ EndCollect \/ MarkStale
  BY <1>3 DEF BeginCollect, EndCollect, MarkStale
<1>4. CASE VisitIdle \/ VisitFresh
  BY <1>4 DEF VisitIdle, VisitFresh, Visit
<1>5. CASE VisitStale
  <2>1. metrics'.processed = metrics.processed /\ metrics'.drops = metrics.drops
    BY <1>5 DEF VisitStale, TypeOK, Metrics
  <2>2. QED
    BY <1>5, <2>1 DEF VisitStale, Visit
<1>6. CASE InferSucceeds
  <2>1. Len(batch) \in Nat
    BY LenProperties DEF TypeOK
  <2>2. QED
    BY <1>6, <2>1 DEF InferSucceeds
<1>7. CASE InferFails
  <2>1. metrics'.processed = metrics.processed /\ metrics'.drops = metrics.drops
    BY <1>7 DEF InferFails, TypeOK, Metrics
  <2>2. QED
    BY <1>7, <2>1 DEF InferFails
<1>8. CASE PutResult
  BY <1>8 DEF PutResult
<1>9. QED
  BY <1>1, <1>2, <1>3, <1>4, <1>5, <1>6, <1>7, <1>8 DEF Collect, Infer

LEMMA QueueInvStep == TypeInv /\ QueueInv /\ [Next]_vars => QueueInv'
<1> SUFFICES ASSUME TypeInv, QueueInv, [Next]_vars
             PROVE  QueueInv'
  OBVIOUS
<1>0. /\ TypeOK /\ HoldsPacket
      /\ results \in Seq(Packets) /\ batch \in Seq(Packets)
      /\ Len(results) \in Nat /\ Len(batch) \in Nat
      /\ metrics.processed \in Nat /\ metrics.drops \in Nat
      /\ metrics \in Metrics
      /\ batchSize \in Nat /\ deliveries \in Nat /\ QueueSize \in Nat \ {0}
  BY LenProperties, SchedulerAssumption DEF TypeInv, TypeOK, Metrics
<1> USE <1>0 DEF QueueInv, NeverFull, ResultAccounting
<1>1. CASE QueueAlone
  BY <1>1 DEF QueueAlone, Full
<1>2. CASE GetResult
  <2>1. /\ Len(results') = Len(results) - 1 /\ deliveries' = deliveries + 1
        /\ UNCHANGED <<pc, metrics, batch, batchSize>>
    BY <1>2, HeadTailProperties DEF GetResult, threadVars
  <2>2. PutSoFar' = PutSoFar /\ PutSoFar \in Int
    BY <2>1 DEF PutSoFar
  <2>3. QED
    BY <2>1, <2>2
<1>3. CASE Evict
  <2>1. /\ pc = "evict" /\ pc' = "enqueue"
        /\ UNCHANGED <<deliveries, batch, batchSize>>
    BY <1>3 DEF Evict, historyVars
  <2>2. PutSoFar' = PutSoFar /\ PutSoFar \in Int
    BY <2>1 DEF PutSoFar
  <2>3. CASE results = <<>>
    BY <1>3, <2>1, <2>2, <2>3, EmptySeq DEF Evict
  <2>4. CASE results # <<>>
    <3>1. /\ Len(results') = Len(results) - 1
          /\ metrics'.drops = metrics.drops + 1
          /\ metrics'.processed = metrics.processed
      BY <1>3, <2>4, HeadTailProperties DEF Evict, Metrics
    <3>2. Len(results') < QueueSize /\ pc' # "died" /\ pc # "died"
      BY <2>1, <3>1
    <3>3. metrics'.processed + PutSoFar' = deliveries' + metrics'.drops + Len(results')
      <4>1. metrics.processed + PutSoFar = deliveries + metrics.drops + Len(results)
        BY <3>2
      <4>2. QED
        BY <2>1, <2>2, <3>1, <4>1
    <3>4. QED
      BY <3>2, <3>3, <3>1
  <2>5. QED
    BY <2>3, <2>4
<1>4. CASE Enqueue
  <2>1. batch # <<>> /\ pc = "enqueue" /\ ~Full
    BY <1>4 DEF Enqueue, HoldsPacket, Full
  <2>2. /\ pc' = "put" /\ UNCHANGED <<metrics, deliveries, batchSize>>
        /\ results' = Append(results, Head(batch)) /\ batch' = Tail(batch)
    BY <1>4, <2>1 DEF Enqueue, historyVars
  <2>3. /\ Len(results') = Len(results) + 1
        /\ Len(batch') = Len(batch) - 1
    BY <2>1, <2>2, HeadTailProperties, AppendProperties
  <2>4. PutSoFar' = PutSoFar + 1 /\ PutSoFar \in Int
    BY <2>1, <2>2, <2>3 DEF PutSoFar
  <2>5. Len(results') <= QueueSize
    BY <2>1, <2>3 DEF Full
  <2>6. metrics'.processed + PutSoFar' = deliveries' + metrics'.drops + Len(results')
    <3>1. metrics.processed + PutSoFar = deliveries + metrics.drops + Len(results)
      BY <2>1
    <3>2. /\ metrics'.processed = metrics.processed /\ metrics'.drops = metrics.drops
          /\ deliveries' = deliveries
      BY <2>2
    <3>3. metrics.processed + (PutSoFar + 1) = deliveries + metrics.drops + (Len(results) + 1)
      <4>1. /\ metrics.processed \in Int /\ deliveries \in Int /\ metrics.drops \in Int
            /\ Len(results) \in Int
        OBVIOUS
      <4>2. QED
        BY ONLY <2>4, <3>1, <4>1
    <3>4. QED
      BY ONLY <2>3, <2>4, <3>2, <3>3
  <2>7. QED
    BY <2>2, <2>5, <2>6
<1>5. CASE PutDone
  <2>1. /\ pc = "put" /\ pc' = "poll" /\ batch = <<>>
        /\ UNCHANGED <<results, deliveries>>
        /\ metrics'.processed = metrics.processed + batchSize
        /\ metrics'.drops = metrics.drops
    BY <1>5 DEF PutDone, historyVars, Metrics
  <2>2. PutSoFar = batchSize /\ PutSoFar' = 0
    BY <2>1, EmptySeq DEF PutSoFar
  <2>3. QED
    BY <2>1, <2>2
<1>6. \/ \E c \in Cameras : CaptureFrame(c)
      \/ Tick \/ Stop \/ Leave \/ BeginCollect \/ Collect \/ Infer \/ PutResult
      \/ UNCHANGED vars
      \/ GetResult \/ Evict \/ Enqueue \/ PutDone
  BY DEF Next, Thread, Put
<1>7. QED
  BY <1>1, <1>2, <1>3, <1>4, <1>5, <1>6, QueueAloneSteps

LEMMA QueueInvCorrect == Spec => []QueueInv
<1>1. Init => QueueInv
  BY SchedulerAssumption, EmptySeq
     DEF Init, QueueInv, NeverFull, ResultAccounting, PutSoFar
<1>2. QED
  BY <1>1, TypeInvCorrect, QueueInvStep, PTL DEF Spec

(***************************************************************************)
(* put_nowait never raises queue.Full: the scheduler thread does not die.  *)
(***************************************************************************)
THEOREM QueueNeverFull == Spec => []NeverFull
BY QueueInvCorrect, PTL DEF QueueInv

\* Every result processed was delivered, evicted and counted, or is queued.
THEOREM ResultsAccounted == Spec => []ResultAccounting
BY QueueInvCorrect, PTL DEF QueueInv

-----------------------------------------------------------------------------
(***************************************************************************)
(* Taking turns.  A peer that has overtaken a waiting camera is further    *)
(* from the cursor than the camera is, until the camera is visited; a      *)
(* packet is taken from the camera at the cursor, which has overtaken      *)
(* nobody since.                                                           *)
(***************************************************************************)
Distance(c) == IF c >= cursor THEN c - cursor ELSE c - cursor + NumCameras

TurnInv ==
  \A c, d \in Cameras :
    /\ overtaken[c][d] \in {0, 1}
    /\ overtaken[c][d] = 1 => Distance(c) < Distance(d)

LEMMA TurnInvStep == TypeInv /\ TurnInv /\ [Next]_vars => TurnInv'
<1> SUFFICES ASSUME TypeInv, TurnInv, [Next]_vars
             PROVE  TurnInv'
  OBVIOUS
<1>0. /\ TypeOK /\ cursor \in Cameras /\ overtaken \in [Cameras -> [Cameras -> Nat]]
      /\ NumCameras \in Nat \ {0}
      /\ \A c \in Cameras : c \in 0 .. NumCameras - 1
  BY BufferAssumption DEF TypeInv, TypeOK, Cameras
<1>1. CASE UNCHANGED <<cursor, overtaken>>
  BY <1>1 DEF TurnInv, Distance
<1>2. CASE VisitIdle \/ VisitStale \/ VisitFresh
  <2>1. cursor' = (IF cursor + 1 = NumCameras THEN 0 ELSE cursor + 1)
    BY <1>0, <1>2, VisitFacts DEF VisitIdle, VisitStale, VisitFresh
  <2>21. /\ visited' = cursor
         /\ \/ overtaken' = [overtaken EXCEPT ![visited'] = NoneAhead]
            \/ overtaken' = [c \in Cameras |->
                 IF c = visited' THEN NoneAhead
                 ELSE IF Waiting(c) THEN [overtaken[c] EXCEPT ![visited'] = @ + 1]
                 ELSE overtaken[c]]
    BY <1>0, <1>2, VisitFacts DEF VisitIdle, VisitStale, VisitFresh
  <2>2. \A d \in Cameras : overtaken'[cursor][d] = 0
    <3>1. overtaken'[cursor] = NoneAhead
      BY <1>0, <2>21
    <3>2. QED
      BY <3>1 DEF NoneAhead
  <2>3. \A c, d \in Cameras : c # cursor =>
          /\ d = cursor => overtaken'[c][d] \in {overtaken[c][d], overtaken[c][d] + 1}
          /\ d # cursor => overtaken'[c][d] = overtaken[c][d]
    <3> SUFFICES ASSUME NEW c \in Cameras, NEW d \in Cameras, c # cursor
                 PROVE  /\ d = cursor => overtaken'[c][d] \in {overtaken[c][d], overtaken[c][d] + 1}
                        /\ d # cursor => overtaken'[c][d] = overtaken[c][d]
      OBVIOUS
    <3>1. \/ overtaken'[c] = overtaken[c]
          \/ overtaken'[c] = [overtaken[c] EXCEPT ![cursor] = @ + 1]
      <4>1. CASE overtaken' = [overtaken EXCEPT ![visited'] = NoneAhead]
        BY <1>0, <2>21, <4>1
      <4>2. CASE overtaken' = [x \in Cameras |->
                 IF x = visited' THEN NoneAhead
                 ELSE IF Waiting(x) THEN [overtaken[x] EXCEPT ![visited'] = @ + 1]
                 ELSE overtaken[x]]
        BY <2>21, <4>2, Zenon
      <4>3. QED
        BY <2>21, <4>1, <4>2
    <3>2. overtaken[c] \in [Cameras -> Nat]
      BY <1>0
    <3>3. QED
      BY <3>1, <3>2
  <2>4. \A c \in Cameras :
          /\ Distance(c) \in 0 .. NumCameras - 1
          /\ c = cursor => Distance(c) = 0 /\ Distance(c)' = NumCameras - 1
          /\ c # cursor => Distance(c) > 0 /\ Distance(c)' = Distance(c) - 1
    <3> SUFFICES ASSUME NEW c \in Cameras
                 PROVE  /\ Distance(c) \in 0 .. NumCameras - 1
                        /\ c = cursor => Distance(c) = 0 /\ Distance(c)' = NumCameras - 1
                        /\ c # cursor => Distance(c) > 0 /\ Distance(c)' = Distance(c) - 1
      OBVIOUS
    <3>1. /\ c \in Int /\ 0 <= c /\ c < NumCameras /\ NumCameras \in Int
          /\ cursor \in Int /\ 0 <= cursor /\ cursor < NumCameras
      BY <1>0
    <3>2. QED
      BY <2>1, <3>1 DEF Distance
  <2>5. ASSUME NEW c \in Cameras, NEW d \in Cameras
        PROVE  /\ overtaken'[c][d] \in {0, 1}
               /\ overtaken'[c][d] = 1 => Distance(c)' < Distance(d)'
    <3>1. CASE c = cursor
      BY <2>2, <3>1
    <3>2. CASE c # cursor /\ d = cursor
      <4>1. overtaken[c][d] = 0
        <5>1. Distance(c) > 0 /\ Distance(d) = 0 /\ Distance(c) \in Int
          BY <2>4, <3>2
        <5>2. QED
          BY <5>1 DEF TurnInv
      <4>2. overtaken'[c][d] \in {0, 1}
        BY <1>0, <2>3, <3>2, <4>1
      <4>3. QED
        BY <1>0, <2>4, <3>2, <4>2
    <3>3. CASE c # cursor /\ d # cursor
      <4>1. overtaken'[c][d] = overtaken[c][d]
        BY <1>0, <2>3, <3>3
      <4>2. QED
        BY <1>0, <2>4, <3>3, <4>1 DEF TurnInv
    <3>4. QED
      BY <3>1, <3>2, <3>3
  <2>6. QED
    BY <2>5 DEF TurnInv
<1>3. ASSUME NEW c \in Cameras, CaptureFrame(c)
      PROVE  UNCHANGED <<cursor, overtaken>>
  BY <1>3 DEF CaptureFrame, threadVars, historyVars
<1>4. CASE Tick \/ GetResult \/ Stop \/ Leave \/ BeginCollect \/ MarkStale \/ EndCollect
  BY <1>1, <1>4
     DEF Tick, GetResult, Stop, Leave, BeginCollect, MarkStale, EndCollect,
         threadVars, historyVars
<1>5. CASE Infer \/ Put \/ UNCHANGED vars
  BY <1>1, <1>5
     DEF Infer, InferSucceeds, InferFails, Put, PutResult, Evict, Enqueue, PutDone,
         vars, threadVars, historyVars
<1>6. QED
  BY <1>1, <1>2, <1>3, <1>4, <1>5 DEF Next, Thread, Collect

(***************************************************************************)
(* A waiting camera is overtaken at most once by each of the others, for   *)
(* every number of cameras and every batch size.                           *)
(***************************************************************************)
THEOREM OvertakingBounded == Spec => []BoundedOvertaking
<1>1. Init => TurnInv
  BY BufferAssumption DEF Init, NoneAhead, TurnInv
<1>2. TurnInv => BoundedOvertaking
  BY DEF TurnInv, BoundedOvertaking
<1>3. QED
  BY <1>1, <1>2, TypeInvCorrect, TurnInvStep, PTL DEF Spec

-----------------------------------------------------------------------------
(***************************************************************************)
(* The circuit breaker.  A batch exists only inside run_once, and run_once *)
(* goes past its first test only with the circuit closed.                  *)
(***************************************************************************)
CircuitInv ==
  /\ pc \in {"poll", "stopped"} => batch = <<>>
  /\ pc \notin {"poll", "stopped"} => openFor = 0

\* With the circuit open no frame is held and none is being collected.
THEOREM CircuitRespected == Spec => []CircuitHolds
<1>1. Init => CircuitInv
  BY DEF Init, CircuitInv
<1>2. TypeInv /\ CircuitInv /\ [Next]_vars => CircuitInv'
  <2> SUFFICES ASSUME TypeInv, CircuitInv, [Next]_vars
               PROVE  CircuitInv'
    OBVIOUS
  <2> USE DEF CircuitInv, bufferVars, threadVars, historyVars
  <2>1. ASSUME NEW c \in Cameras, CaptureFrame(c)
        PROVE  CircuitInv'
    BY <2>1 DEF CaptureFrame
  <2>2. CASE Tick
    BY <2>2 DEF Tick
  <2>3. CASE GetResult \/ Stop \/ Leave \/ BeginCollect \/ UNCHANGED vars
    BY <2>3 DEF GetResult, Stop, Leave, BeginCollect, vars
  <2>4. CASE Collect
    BY <2>4 DEF Collect, VisitIdle, VisitStale, MarkStale, VisitFresh, EndCollect, Visit
  <2>5. CASE Infer
    BY <2>5 DEF Infer, InferSucceeds, InferFails
  <2>6. CASE Put
    BY <2>6 DEF Put, PutResult, Evict, Enqueue, PutDone
  <2>7. QED
    BY <2>1, <2>2, <2>3, <2>4, <2>5, <2>6 DEF Next, Thread
<1>3. TypeInv /\ CircuitInv => CircuitHolds
  BY DEF TypeInv, TypeOK, CircuitInv, CircuitHolds
<1>4. QED
  BY <1>1, <1>2, <1>3, TypeInvCorrect, PTL DEF Spec

-----------------------------------------------------------------------------
(***************************************************************************)
(* The refinement.  The pipeline is the queue followed by what is still in *)
(* the batch: filling the batch appends to it, putting a result moves the  *)
(* boundary and nothing else, a failed batch cuts it back to the queue.    *)
(***************************************************************************)
LEMMA AppendRight ==
  ASSUME NEW r \in Seq(Packets), NEW b \in Seq(Packets), NEW p \in Packets
  PROVE  r \o Append(b, p) = Append(r \o b, p)
<1>1. /\ r \o Append(b, p) = r \o (b \o <<p>>)
      /\ Append(r \o b, p) = (r \o b) \o <<p>>
  BY AppendIsConcat, ConcatProperties
<1>2. QED
  BY <1>1, ConcatAssociative

LEMMA MoveBoundary ==
  ASSUME NEW r \in Seq(Packets), NEW b \in Seq(Packets), b # <<>>
  PROVE  Append(r, Head(b)) \o Tail(b) = r \o b
<1>1. Head(b) \in Packets /\ Tail(b) \in Seq(Packets)
  BY HeadTailProperties
<1>2. b = <<Head(b)>> \o Tail(b)
  <2>1. <<Head(b)>> \o Tail(b) \in Seq(Packets)
    BY <1>1, ConcatProperties
  <2>2. /\ Len(<<Head(b)>> \o Tail(b)) = Len(b)
        /\ \A i \in 1 .. Len(b) : (<<Head(b)>> \o Tail(b))[i] = b[i]
    BY <1>1, HeadTailProperties, ConcatProperties, EmptySeq
  <2>3. QED
    BY <2>1, <2>2, SeqEqual
<1>3. Append(r, Head(b)) \o Tail(b) = (r \o <<Head(b)>>) \o Tail(b)
  BY <1>1, AppendIsConcat
<1>4. QED
  BY <1>1, <1>2, <1>3, ConcatAssociative

LEMMA HeadOfConcat ==
  ASSUME NEW r \in Seq(Packets), NEW b \in Seq(Packets), r # <<>>
  PROVE  r \o b # <<>> /\ Head(r \o b) = Head(r) /\ Tail(r \o b) = Tail(r) \o b
<1>1. /\ r \o b \in Seq(Packets) /\ Len(r) \in Nat \ {0} /\ Len(b) \in Nat
      /\ Len(r \o b) = Len(r) + Len(b)
  BY ConcatProperties, EmptySeq, LenProperties
<1>2. r \o b # <<>>
  BY <1>1
<1>3. Head(r \o b) = Head(r)
  BY <1>1, <1>2, ConcatProperties, HeadTailProperties
<1>4. Tail(r) \in Seq(Packets) /\ Tail(r \o b) \in Seq(Packets)
  BY <1>1, <1>2, HeadTailProperties
<1>5. Len(Tail(r \o b)) = Len(Tail(r) \o b)
  BY <1>1, <1>2, <1>4, ConcatProperties, HeadTailProperties
<1>6. \A i \in 1 .. Len(Tail(r \o b)) : Tail(r \o b)[i] = (Tail(r) \o b)[i]
  BY <1>1, <1>2, <1>4, <1>5, ConcatProperties, HeadTailProperties
<1>7. QED
  BY <1>2, <1>3, <1>4, <1>5, <1>6, ConcatProperties, SeqEqual

LEMMA CutBack ==
  ASSUME NEW r \in Seq(Packets), NEW b \in Seq(Packets), b # <<>>
  PROVE  /\ Len(r) \in 0 .. Len(r \o b) - 1
         /\ r = SubSeq(r \o b, 1, Len(r))
<1>1. /\ r \o b \in Seq(Packets) /\ Len(b) \in Nat \ {0} /\ Len(r) \in Nat
      /\ Len(r \o b) = Len(r) + Len(b)
  BY ConcatProperties, EmptySeq, LenProperties
<1>2. \A i \in 1 .. Len(r) : (r \o b)[i] = r[i] /\ r[i] \in Packets
  BY <1>1, ConcatProperties, ElementOfSeq
<1>3. /\ SubSeq(r \o b, 1, Len(r)) \in Seq(Packets)
      /\ Len(SubSeq(r \o b, 1, Len(r))) = Len(r)
      /\ \A i \in 1 .. Len(r) : SubSeq(r \o b, 1, Len(r))[i] = (r \o b)[i]
  BY <1>1, <1>2, SubSeqProperties
<1>4. QED
  BY <1>1, <1>2, <1>3, SeqEqual

LEMMA DeliveryStep ==
  TypeInv /\ SlotInv /\ [Next]_vars => [Delivery!Next]_(Delivery!deliveryVars)
<1> SUFFICES ASSUME TypeInv, SlotInv, [Next]_vars
             PROVE  Delivery!Next \/ UNCHANGED Delivery!deliveryVars
  OBVIOUS
<1>0. /\ TypeOK /\ HoldsPacket
      /\ results \in Seq(Packets) /\ batch \in Seq(Packets)
      /\ sequence \in [Cameras -> Nat] /\ last \in [Cameras -> Nat]
  BY DEF TypeInv, TypeOK, BufferTypeOK
<1> USE DEF Delivery!deliveryVars, Pipeline
<1>1. ASSUME NEW c \in Cameras, CaptureFrame(c)
      PROVE  Delivery!Publish(c)
  BY <1>1 DEF CaptureFrame, Publish, Delivery!Publish, threadVars, historyVars
<1>2. CASE GetResult
  <2>1. Delivery!Deliver
    BY <1>0, <1>2, HeadOfConcat
       DEF GetResult, Delivery!Deliver, bufferVars, threadVars
  <2>2. QED
    BY <2>1 DEF Delivery!Next
<1>3. CASE VisitFresh
  <2>1. /\ visited' = cursor /\ cursor \in Cameras
        /\ sequence[cursor] > last[cursor]
        /\ last' = [last EXCEPT ![cursor] = sequence[cursor]]
        /\ batch' = Append(batch, [camera |-> cursor, frame |-> sequence[cursor]])
        /\ UNCHANGED <<sequence, results, delivered>>
    BY <1>0, <1>3, VisitFacts DEF VisitFresh, ReadFresh, HasNew
  <2>2. [camera |-> cursor, frame |-> sequence[cursor]] \in Packets
    BY <1>0, <2>1 DEF Packets
  <2>3. results' \o batch'
          = Append(results \o batch, [camera |-> cursor, frame |-> sequence[cursor]])
    BY <1>0, <2>1, <2>2, AppendRight
  <2>4. Delivery!Take(cursor)
    BY <2>1, <2>3 DEF Delivery!Take
  <2>5. QED
    BY <2>1, <2>4 DEF Delivery!Next
<1>4. CASE MarkStale
  <2>1. /\ visited \in Cameras /\ last' = [last EXCEPT ![visited] = sequence[visited]]
        /\ UNCHANGED <<sequence, results, batch, delivered>>
    BY <1>0, <1>4 DEF MarkStale, TypeOK, bufferVars, historyVars
  <2>2. CASE sequence[visited] > last[visited]
    <3>1. Delivery!Pass(visited)
      BY <2>1, <2>2 DEF Delivery!Pass
    <3>2. QED
      BY <2>1, <3>1 DEF Delivery!Next
  <2>3. CASE ~(sequence[visited] > last[visited])
    <3>1. sequence[visited] = last[visited]
      BY <1>0, <2>1, <2>3 DEF SlotInv, ReaderPosition
    <3>2. QED
      BY <1>0, <2>1, <3>1
  <2>4. QED
    BY <2>2, <2>3
<1>5. CASE InferFails
  <2>1. batch' = <<>> /\ UNCHANGED <<sequence, last, results, delivered>>
    BY <1>5 DEF InferFails, bufferVars, historyVars
  <2>2. results' \o batch' = results
    BY <1>0, <2>1, ConcatEmptySeq
  <2>3. CASE batch = <<>>
    BY <2>1, <2>3
  <2>4. CASE batch # <<>>
    <3>1. Delivery!LoseNewest
      BY <1>0, <2>1, <2>2, <2>4, CutBack DEF Delivery!LoseNewest
    <3>2. QED
      BY <3>1 DEF Delivery!Next
  <2>5. QED
    BY <2>3, <2>4
<1>6. CASE Evict
  <2>1. UNCHANGED <<sequence, last, batch, delivered>>
    BY <1>6 DEF Evict, bufferVars, historyVars
  <2>2. CASE results = <<>>
    BY <1>6, <2>1, <2>2 DEF Evict
  <2>3. CASE results # <<>>
    <3>1. results' = Tail(results)
      BY <1>6, <2>3 DEF Evict
    <3>2. Delivery!LoseOldest
      BY <1>0, <2>1, <2>3, <3>1, HeadOfConcat DEF Delivery!LoseOldest
    <3>3. QED
      BY <3>2 DEF Delivery!Next
  <2>4. QED
    BY <2>2, <2>3
<1>7. CASE Enqueue
  <2>1. UNCHANGED <<sequence, last, delivered>>
    BY <1>7 DEF Enqueue, bufferVars, historyVars
  <2>2. batch # <<>>
    BY <1>0, <1>7 DEF Enqueue, HoldsPacket
  <2>3. \/ UNCHANGED <<results, batch>>
        \/ results' = Append(results, Head(batch)) /\ batch' = Tail(batch)
    BY <1>7 DEF Enqueue
  <2>4. results' \o batch' = results \o batch
    BY <1>0, <2>2, <2>3, MoveBoundary
  <2>5. QED
    BY <2>1, <2>4
<1>8. CASE Tick \/ Stop \/ Leave \/ BeginCollect \/ EndCollect \/ UNCHANGED vars
  BY <1>8 DEF Tick, FramesAge, Stop, Leave, BeginCollect, EndCollect, vars,
             bufferVars, threadVars, historyVars
<1>9. CASE VisitIdle \/ VisitStale
  BY <1>9 DEF VisitIdle, VisitStale, ReadNothing, ReadStale, bufferVars
<1>10. CASE InferSucceeds \/ PutResult \/ PutDone
  BY <1>10 DEF InferSucceeds, PutResult, PutDone, bufferVars, historyVars
<1>11. QED
  BY <1>1, <1>2, <1>3, <1>4, <1>5, <1>6, <1>7, <1>8, <1>9, <1>10
     DEF Next, Thread, Collect, Infer, Put, Delivery!Next

(***************************************************************************)
(* The scheduler implements the lossy, ordered pipeline of FrameDelivery.  *)
(***************************************************************************)
THEOREM SchedulerImplementsDelivery == Spec => ImplementsDelivery
<1>1. Init => Delivery!Init
  <2>1. Init => results \o batch = <<>>
    BY EmptySeq, ConcatEmptySeq DEF Init
  <2>2. QED
    BY <2>1 DEF Init, BufferInit, Pipeline, Delivery!Init
<1>2. Init => SlotInv
  BY DEF Init, BufferInit, SlotInv, FrameAccounting, ReaderPosition, Unread
<1>3. QED
  BY <1>1, <1>2, TypeInvCorrect, SlotInvStep, DeliveryStep, PTL
     DEF Spec, ImplementsDelivery, Delivery!Spec

-----------------------------------------------------------------------------
(***************************************************************************)
(* What FrameDelivery promises follows from its own steps alone, whoever   *)
(* takes them: its type invariant, that order is kept from the slot to the *)
(* consumer, and that the consumer never sees a camera go backwards.       *)
(***************************************************************************)

\* The pipeline holds frames of cameras, and the other variables count frames.
THEOREM DeliveryTypeCorrect == Delivery!Spec => []Delivery!TypeOK
<1>1. Delivery!Init => Delivery!TypeOK
  BY DEF Delivery!Init, Delivery!TypeOK
<1>2. Delivery!TypeOK /\ [Delivery!Next]_(Delivery!deliveryVars) => Delivery!TypeOK'
  <2> SUFFICES ASSUME Delivery!TypeOK, [Delivery!Next]_(Delivery!deliveryVars)
               PROVE  Delivery!TypeOK'
    OBVIOUS
  <2> USE DEF Delivery!TypeOK
  <2>1. ASSUME NEW c \in Cameras, Delivery!Publish(c)
        PROVE  Delivery!TypeOK'
    BY <2>1 DEF Delivery!Publish
  <2>2. ASSUME NEW c \in Cameras, Delivery!Take(c)
        PROVE  Delivery!TypeOK'
    <3>1. [camera |-> c, frame |-> sequence[c]] \in Delivery!Frames
      BY DEF Delivery!Frames
    <3>2. QED
      BY <2>2, <3>1 DEF Delivery!Take
  <2>3. ASSUME NEW c \in Cameras, Delivery!Pass(c)
        PROVE  Delivery!TypeOK'
    BY <2>3 DEF Delivery!Pass
  <2>4. CASE Delivery!LoseOldest
    BY <2>4, HeadTailProperties DEF Delivery!LoseOldest
  <2>5. CASE Delivery!LoseNewest
    <3>1. PICK n \in 0 .. Len(Pipeline) - 1 : Pipeline' = SubSeq(Pipeline, 1, n)
      BY <2>5 DEF Delivery!LoseNewest
    <3>2. Pipeline' \in Seq(Delivery!Frames)
      <4>1. \A i \in 1 .. n : Pipeline[i] \in Delivery!Frames
        BY ElementOfSeq
      <4>2. QED
        BY <3>1, <4>1, SubSeqProperties
    <3>3. QED
      BY <2>5, <3>2 DEF Delivery!LoseNewest
  <2>6. CASE Delivery!Deliver
    <3>1. Head(Pipeline) \in Delivery!Frames /\ Tail(Pipeline) \in Seq(Delivery!Frames)
      BY <2>6, HeadTailProperties DEF Delivery!Deliver
    <3>2. Head(Pipeline).camera \in Cameras /\ Head(Pipeline).frame \in Nat
      BY <3>1 DEF Delivery!Frames
    <3>3. QED
      BY <2>6, <3>1, <3>2 DEF Delivery!Deliver
  <2>7. CASE UNCHANGED Delivery!deliveryVars
    BY <2>7 DEF Delivery!deliveryVars
  <2>8. QED
    BY <2>1, <2>2, <2>3, <2>4, <2>5, <2>6, <2>7 DEF Delivery!Next
<1>3. QED
  BY <1>1, <1>2, PTL DEF Delivery!Spec

\* What InOrder says of one frame sequence, by index.
LEMMA PipelineElements ==
  ASSUME Delivery!TypeOK
  PROVE  \A i \in 1 .. Len(Pipeline) :
           Pipeline[i].camera \in Cameras /\ Pipeline[i].frame \in Nat
<1>1. \A i \in 1 .. Len(Pipeline) : Pipeline[i] \in Delivery!Frames
  BY ElementOfSeq DEF Delivery!TypeOK
<1>2. QED
  BY <1>1 DEF Delivery!Frames

\* Losing or delivering the head leaves the rest, one place further on.
LEMMA PipelineTail ==
  ASSUME Delivery!TypeOK, Pipeline # <<>>, Pipeline' = Tail(Pipeline)
  PROVE  /\ Len(Pipeline) \in Nat \ {0}
         /\ Len(Pipeline') = Len(Pipeline) - 1
         /\ \A i \in 1 .. Len(Pipeline') : Pipeline'[i] = Pipeline[i + 1]
         /\ Head(Pipeline) = Pipeline[1]
BY HeadTailProperties, EmptySeq DEF Delivery!TypeOK

\* The rest of an ordered pipeline is ordered.
LEMMA TailOrdered ==
  ASSUME Delivery!TypeOK, Delivery!InOrder, Pipeline # <<>>, Pipeline' = Tail(Pipeline)
  PROVE  \A i, j \in 1 .. Len(Pipeline') :
           i < j /\ Pipeline'[i].camera = Pipeline'[j].camera
             => Pipeline'[i].frame < Pipeline'[j].frame
<1> SUFFICES ASSUME NEW i \in 1 .. Len(Pipeline'), NEW j \in 1 .. Len(Pipeline'),
                    i < j, Pipeline'[i].camera = Pipeline'[j].camera
             PROVE  Pipeline'[i].frame < Pipeline'[j].frame
  OBVIOUS
<1>1. /\ i + 1 \in 1 .. Len(Pipeline) /\ j + 1 \in 1 .. Len(Pipeline) /\ i + 1 < j + 1
      /\ Pipeline'[i] = Pipeline[i + 1] /\ Pipeline'[j] = Pipeline[j + 1]
  BY PipelineTail
<1>2. QED
  BY <1>1 DEF Delivery!InOrder

LEMMA InOrderStep == Delivery!TypeOK /\ Delivery!InOrder /\ [Delivery!Next]_(Delivery!deliveryVars) => Delivery!InOrder'
<1> SUFFICES ASSUME Delivery!TypeOK, Delivery!InOrder, [Delivery!Next]_(Delivery!deliveryVars)
             PROVE  Delivery!InOrder'
  OBVIOUS
<1>0. /\ sequence \in [Cameras -> Nat]
      /\ last \in [Cameras -> Nat]
      /\ delivered \in [Cameras -> Nat]
      /\ Len(Pipeline) \in Nat
  BY LenProperties DEF Delivery!TypeOK
<1> USE <1>0, PipelineElements DEF Delivery!InOrder
<1>1. ASSUME NEW c \in Cameras, Delivery!Publish(c)
      PROVE  Delivery!InOrder'
  BY <1>1 DEF Delivery!Publish
<1>2. ASSUME NEW c \in Cameras, Delivery!Take(c)
      PROVE  Delivery!InOrder'
  <2> DEFINE f == [camera |-> c, frame |-> sequence[c]]
  <2>1. f \in Delivery!Frames
    BY DEF Delivery!Frames
  <2>2. /\ Len(Pipeline') = Len(Pipeline) + 1
        /\ \A i \in 1 .. Len(Pipeline) : Pipeline'[i] = Pipeline[i]
        /\ Pipeline'[Len(Pipeline) + 1].camera = c
        /\ Pipeline'[Len(Pipeline) + 1].frame = sequence[c]
    BY <1>2, <2>1, AppendProperties DEF Delivery!Take, Delivery!TypeOK
  <2>3. QED
    BY <1>2, <2>2 DEF Delivery!Take
<1>3. ASSUME NEW c \in Cameras, Delivery!Pass(c)
      PROVE  Delivery!InOrder'
  BY <1>3 DEF Delivery!Pass
<1>4. CASE Delivery!LoseOldest
  <2>1. /\ \A i \in 1 .. Len(Pipeline') :
             i + 1 \in 1 .. Len(Pipeline) /\ Pipeline'[i] = Pipeline[i + 1]
        /\ Len(Pipeline') \in Nat
    BY <1>4, PipelineTail DEF Delivery!LoseOldest
  <2>2. /\ \A c \in Cameras : delivered'[c] <= last'[c] /\ last'[c] <= sequence'[c]
        /\ \A i \in 1 .. Len(Pipeline') :
             LET f == Pipeline'[i] IN
               delivered'[f.camera] < f.frame /\ f.frame <= last'[f.camera]
    BY <1>4, <2>1 DEF Delivery!LoseOldest
  <2>3. \A i, j \in 1 .. Len(Pipeline') :
          i < j /\ Pipeline'[i].camera = Pipeline'[j].camera
            => Pipeline'[i].frame < Pipeline'[j].frame
    BY <1>4, TailOrdered DEF Delivery!LoseOldest
  <2>4. QED
    BY <2>2, <2>3
<1>5. CASE Delivery!LoseNewest
  <2>1. PICK n \in 0 .. Len(Pipeline) - 1 : Pipeline' = SubSeq(Pipeline, 1, n)
    BY <1>5 DEF Delivery!LoseNewest
  <2>2. Len(Pipeline') = n /\ \A i \in 1 .. n : Pipeline'[i] = Pipeline[i]
    <3>1. \A i \in 1 .. n : Pipeline[i] \in Delivery!Frames
      BY ElementOfSeq DEF Delivery!TypeOK
    <3>2. QED
      BY <2>1, <3>1, SubSeqProperties
  <2>3. UNCHANGED <<sequence, last, delivered>>
    BY <1>5 DEF Delivery!LoseNewest
  <2>4. \A i \in 1 .. Len(Pipeline') : i \in 1 .. Len(Pipeline)
    BY <2>2
  <2>5. QED
    BY <2>2, <2>3, <2>4
<1>6. CASE Delivery!Deliver
  <2>1. Pipeline[1].camera \in Cameras /\ Pipeline[1].frame \in Nat
    BY <1>6, PipelineTail DEF Delivery!Deliver
  <2>2. delivered' = [delivered EXCEPT ![Pipeline[1].camera] = Pipeline[1].frame]
    BY <1>6, PipelineTail DEF Delivery!Deliver
  <2>3. /\ \A i \in 1 .. Len(Pipeline') :
             i + 1 \in 1 .. Len(Pipeline) /\ Pipeline'[i] = Pipeline[i + 1]
        /\ 1 \in 1 .. Len(Pipeline)
        /\ Len(Pipeline') \in Nat
    BY <1>6, PipelineTail DEF Delivery!Deliver
  <2>4. UNCHANGED <<sequence, last>>
    BY <1>6 DEF Delivery!Deliver
  <2>5. \A c \in Cameras : delivered'[c] <= last'[c] /\ last'[c] <= sequence'[c]
    BY <2>1, <2>2, <2>3, <2>4
  <2>6. \A i \in 1 .. Len(Pipeline') :
          LET f == Pipeline'[i] IN
            delivered'[f.camera] < f.frame /\ f.frame <= last'[f.camera]
    <3> SUFFICES ASSUME NEW i \in 1 .. Len(Pipeline')
                 PROVE  /\ delivered'[Pipeline'[i].camera] < Pipeline'[i].frame
                        /\ Pipeline'[i].frame <= last'[Pipeline'[i].camera]
      OBVIOUS
    <3>1. /\ i + 1 \in 1 .. Len(Pipeline) /\ 1 < i + 1
          /\ Pipeline'[i] = Pipeline[i + 1]
      BY <2>3
    <3>2. Pipeline[i + 1].camera = Pipeline[1].camera
            => Pipeline[1].frame < Pipeline[i + 1].frame
      BY <2>3, <3>1
    <3>3. QED
      BY <2>1, <2>2, <2>4, <3>1, <3>2
  <2>7. \A i, j \in 1 .. Len(Pipeline') :
          i < j /\ Pipeline'[i].camera = Pipeline'[j].camera
            => Pipeline'[i].frame < Pipeline'[j].frame
    BY <1>6, TailOrdered DEF Delivery!Deliver
  <2>8. QED
    BY <2>5, <2>6, <2>7
<1>7. CASE UNCHANGED Delivery!deliveryVars
  BY <1>7 DEF Delivery!deliveryVars
<1>8. QED
  BY <1>1, <1>2, <1>3, <1>4, <1>5, <1>6, <1>7 DEF Delivery!Next

(***************************************************************************)
(* Frames of a camera are in order and unique all the way from the slot to *)
(* the consumer.                                                           *)
(***************************************************************************)
THEOREM DeliveryInOrder == Delivery!Spec => []Delivery!InOrder
<1>1. Delivery!Init => Delivery!InOrder
  BY DEF Delivery!Init, Delivery!InOrder
<1>2. QED
  BY <1>1, DeliveryTypeCorrect, InOrderStep, PTL DEF Delivery!Spec

(***************************************************************************)
(* What leaves the pipeline is newer than all that left it before of its   *)
(* camera: InOrder holds of its head.                                      *)
(***************************************************************************)
THEOREM DeliveryNeverBackwards == Delivery!Spec => Delivery!NeverBackwards
<1>1. Delivery!TypeOK /\ Delivery!InOrder /\ [Delivery!Next]_(Delivery!deliveryVars)
        => [Delivery!Deliver => Head(Pipeline).frame > delivered[Head(Pipeline).camera]
             ]_(Delivery!deliveryVars)
  <2> SUFFICES ASSUME Delivery!TypeOK, Delivery!InOrder, Delivery!Deliver
               PROVE  Head(Pipeline).frame > delivered[Head(Pipeline).camera]
    OBVIOUS
  <2>1. /\ Head(Pipeline) = Pipeline[1] /\ 1 \in 1 .. Len(Pipeline)
    BY PipelineTail DEF Delivery!Deliver
  <2>2. QED
    BY <2>1, PipelineElements DEF Delivery!InOrder, Delivery!TypeOK
<1>2. QED
  BY <1>1, DeliveryTypeCorrect, DeliveryInOrder, PTL DEF Delivery!Spec, Delivery!NeverBackwards

(***************************************************************************)
(* What the consumer is promised, carried over from the abstract proof:    *)
(* get_result never returns a frame of a camera twice or out of order.     *)
(***************************************************************************)
THEOREM ConsumerNeverBackwards == Spec => ConsumerForward
<1>1. TypeInv /\ Delivery!TypeOK /\ Delivery!InOrder /\ [Next]_vars
        => [GetResult => Head(results).frame > delivered[Head(results).camera]]_vars
  <2> SUFFICES ASSUME TypeInv, Delivery!TypeOK, Delivery!InOrder, GetResult
               PROVE  Head(results).frame > delivered[Head(results).camera]
    OBVIOUS
  <2>1. /\ results \in Seq(Packets) /\ batch \in Seq(Packets) /\ results # <<>>
    BY DEF TypeInv, TypeOK, GetResult
  <2>2. Pipeline # <<>> /\ Head(Pipeline) = Head(results) /\ Pipeline \in Seq(Packets)
    BY <2>1, HeadOfConcat, ConcatProperties DEF Pipeline
  <2>3. Head(Pipeline) = Pipeline[1] /\ 1 \in 1 .. Len(Pipeline)
    BY <2>2, EmptySeq, HeadTailProperties, LenProperties
  <2>4. QED
    BY <2>2, <2>3, PipelineElements DEF Delivery!InOrder, Delivery!TypeOK
<1>2. QED
  BY <1>1, TypeInvCorrect, SchedulerImplementsDelivery, DeliveryTypeCorrect,
     DeliveryInOrder, PTL DEF Spec, ConsumerForward, ImplementsDelivery
=============================================================================

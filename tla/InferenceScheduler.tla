-------------------------- MODULE InferenceScheduler --------------------------
(***************************************************************************)
(* SharedInferenceScheduler (edge_runtime/inference/scheduler.py) over the *)
(* frame slots of LatestFrameBuffer.  One scheduler thread collects the    *)
(* newest fresh frame of at most BatchSize cameras, round robin, runs the  *)
(* detector on the batch and puts the outputs into a bounded queue that a  *)
(* consumer thread (Phase2Runtime._consume_detections) empties.  Capture   *)
(* processes publish, the consumer takes and time passes between any two   *)
(* of the thread's shared accesses.                                        *)
(*                                                                         *)
(* Merged into one step because only this thread writes what they read:    *)
(* the interval check, the first stale_frames, read_latest and the second  *)
(* stale_frames.  Kept apart: the later read of buffer.sequence, and       *)
(* full(), get_nowait() and put_nowait() on the result queue.              *)
(***************************************************************************)
EXTENDS LatestFrameBuffer, Sequences

CONSTANTS
  MaxFrames,     \* bound: [Cameras -> Nat], frames each camera publishes
  BatchSize,     \* detector_batch_size
  QueueSize,     \* result_queue_size
  Interval,      \* [Cameras -> Nat]: analytics interval in ticks, 0 for none
  Threshold,     \* circuit_breaker_failures
  Reset          \* circuit_breaker_reset_ms, in ticks

ASSUME SchedulerAssumption ==
  /\ MaxFrames \in [Cameras -> Nat]
  /\ BatchSize \in Nat \ {0}
  /\ QueueSize \in Nat \ {0}
  /\ Interval \in [Cameras -> Nat]
  /\ Threshold \in Nat \ {0}
  /\ Reset \in Nat \ {0}

VARIABLES
  pc,            \* where the scheduler thread is
  stop,          \* the _stop event
  cursor,        \* _cursor: the camera to look at next
  checked,       \* local: cameras looked at in this _collect_batch
  visited,       \* local camera_id: the camera being looked at
  batch,         \* packets collected, then those not yet put
  batchSize,     \* len(batch) when inference ran
  last,          \* _last_sequences
  since,         \* ticks since _last_scheduled_ns, up to the interval
  failures,      \* _consecutive_failures
  openFor,       \* ticks until _circuit_open_until_ns
  results,       \* the _results queue
  metrics,       \* SchedulerMetrics, its counters
  taken,         \* history: frames of each camera read into a batch
  delivered,     \* history: newest frame_id of each camera the consumer got
  deliveries,    \* history: results the consumer got
  overtaken      \* history: [c][d]: packets of d batched while c waited

threadVars == <<pc, cursor, checked, visited, batch, batchSize, last, since,
                failures, openFor>>
historyVars == <<taken, delivered, deliveries, overtaken>>
vars == <<bufferVars, threadVars, stop, results, metrics, historyVars>>

Packets == [camera : Cameras, frame : Nat]
Metrics == [processed : Nat, stale : Nat, failed : Nat, drops : Nat, opened : Nat]
Locations == {"poll", "collect", "markStale", "infer", "put", "evict",
              "enqueue", "stopped", "died"}

TypeOK ==
  /\ BufferTypeOK
  /\ pc \in Locations
  /\ stop \in BOOLEAN
  /\ cursor \in Cameras
  /\ checked \in 0 .. NumCameras
  /\ visited \in Cameras
  /\ batch \in Seq(Packets)
  /\ batchSize \in Nat
  /\ last \in [Cameras -> Nat]
  /\ since \in [Cameras -> Nat]
  /\ failures \in Nat
  /\ openFor \in Nat
  /\ results \in Seq(Packets)
  /\ metrics \in Metrics
  /\ taken \in [Cameras -> Nat]
  /\ delivered \in [Cameras -> Nat]
  /\ deliveries \in Nat
  /\ overtaken \in [Cameras -> [Cameras -> Nat]]

\* No camera has been batched while another waited.
NoneAhead == [d \in Cameras |-> 0]

Init ==
  /\ BufferInit
  /\ pc = "poll"
  /\ stop = FALSE
  /\ cursor = 0
  /\ checked = 0
  /\ visited = 0
  /\ batch = <<>>
  /\ batchSize = 0
  /\ last = [c \in Cameras |-> 0]
  /\ since = [c \in Cameras |-> Interval[c]]
  /\ failures = 0
  /\ openFor = 0
  /\ results = <<>>
  /\ metrics = [processed |-> 0, stale |-> 0, failed |-> 0, drops |-> 0, opened |-> 0]
  /\ taken = [c \in Cameras |-> 0]
  /\ delivered = [c \in Cameras |-> 0]
  /\ deliveries = 0
  /\ overtaken = [c \in Cameras |-> NoneAhead]
-----------------------------------------------------------------------------
\* The environment of the scheduler thread.

CaptureFrame(c) ==
  /\ sequence[c] < MaxFrames[c]
  /\ Publish(c)
  /\ UNCHANGED <<threadVars, stop, results, metrics, historyVars>>

Tick ==
  /\ FramesAge
  /\ since' = [c \in Cameras |-> IF since[c] < Interval[c] THEN since[c] + 1 ELSE since[c]]
  /\ openFor' = IF openFor > 0 THEN openFor - 1 ELSE 0
  /\ UNCHANGED <<pc, cursor, checked, visited, batch, batchSize, last, failures>>
  /\ UNCHANGED <<stop, results, metrics, historyVars>>

\* get_result: the consumer takes the oldest result.
GetResult ==
  /\ results # <<>>
  /\ results' = Tail(results)
  /\ delivered' = [delivered EXCEPT ![Head(results).camera] = Head(results).frame]
  /\ deliveries' = deliveries + 1
  /\ UNCHANGED <<bufferVars, threadVars, stop, metrics, taken, overtaken>>

\* stop(): set the event; the join that follows changes nothing shared.
Stop ==
  /\ ~stop
  /\ stop' = TRUE
  /\ UNCHANGED <<bufferVars, threadVars, results, metrics, historyVars>>
-----------------------------------------------------------------------------
\* The scheduler thread.

\* A mutant: the loop first waits for the results to be fetched.
LeaveWhenDrained ==
  /\ pc = "poll"
  /\ stop
  /\ results = <<>>
  /\ pc' = "stopped"
  /\ UNCHANGED <<bufferVars, cursor, checked, visited, batch, batchSize, last,
                 since, failures, openFor, stop, results, metrics, historyVars>>

\* _run_loop's test of the event.
Leave ==
  /\ pc = "poll"
  /\ stop
  /\ pc' = "stopped"
  /\ UNCHANGED <<bufferVars, cursor, checked, visited, batch, batchSize, last,
                 since, failures, openFor, stop, results, metrics, historyVars>>

\* run_once with the circuit closed enters _collect_batch; with the circuit
\* open it returns 0 and the loop waits, which changes nothing.
BeginCollect ==
  /\ pc = "poll"
  /\ ~stop
  /\ openFor = 0
  /\ pc' = "collect"
  /\ UNCHANGED <<bufferVars, cursor, checked, visited, batch, batchSize, last,
                 since, failures, openFor, stop, results, metrics, historyVars>>

CollectDone == checked = NumCameras \/ Len(batch) >= BatchSize
IntervalElapsed(c) == since[c] >= Interval[c]

\* A mutant: every round starts again at the first camera.
VisitRestarts ==
  /\ pc = "collect"
  /\ ~CollectDone
  /\ visited' = checked
  /\ cursor' = checked
  /\ checked' = checked + 1

\* A mutant: the cursor never moves.
VisitStays ==
  /\ pc = "collect"
  /\ ~CollectDone
  /\ visited' = cursor
  /\ cursor' = cursor
  /\ checked' = checked + 1

\* The head of the collect loop: take the camera under the cursor and move on.
Visit ==
  /\ pc = "collect"
  /\ ~CollectDone
  /\ visited' = cursor
  /\ cursor' = (cursor + 1) % NumCameras
  /\ checked' = checked + 1

\* The visited camera is still inside its analytics interval, or has nothing new.
VisitIdle ==
  /\ Visit
  /\ \/ ~IntervalElapsed(visited') /\ UNCHANGED bufferVars
     \/ IntervalElapsed(visited') /\ ReadNothing(visited', last[visited'])
  /\ overtaken' = [overtaken EXCEPT ![visited'] = NoneAhead]
  /\ UNCHANGED <<pc, batch, batchSize, last, since, failures, openFor, stop,
                 results, metrics, taken, delivered, deliveries>>

\* The visited camera's newest frame is too old: read_latest counts it.
VisitStale ==
  /\ Visit
  /\ IntervalElapsed(visited')
  /\ ReadStale(visited', last[visited'])
  /\ metrics' = [metrics EXCEPT !.stale = @ + 1]
  /\ pc' = "markStale"
  /\ overtaken' = [overtaken EXCEPT ![visited'] = NoneAhead]
  /\ UNCHANGED <<batch, batchSize, last, since, failures, openFor, stop,
                 results, taken, delivered, deliveries>>

\* A mutant: the stale frame stays the newest one seen before it.
MarkStaleForgets ==
  /\ pc = "markStale"
  /\ pc' = "collect"
  /\ UNCHANGED last
  /\ UNCHANGED <<bufferVars, cursor, checked, visited, batch, batchSize, since,
                 failures, openFor, stop, results, metrics, historyVars>>

\* ... and buffer.sequence, read under a later lock, becomes the last one seen.
MarkStale ==
  /\ pc = "markStale"
  /\ pc' = "collect"
  /\ last' = [last EXCEPT ![visited] = sequence[visited]]
  /\ UNCHANGED <<bufferVars, cursor, checked, visited, batch, batchSize, since,
                 failures, openFor, stop, results, metrics, historyVars>>

\* A camera that a visit right now would take a frame from.
Waiting(c) == HasNew(c, last[c]) /\ IntervalElapsed(c)

\* A mutant: the packet is batched and the position in the stream is not kept.
VisitFreshForgets ==
  /\ Visit
  /\ IntervalElapsed(visited')
  /\ ReadFresh(visited', last[visited'])
  /\ batch' = Append(batch, [camera |-> visited', frame |-> sequence[visited']])
  /\ UNCHANGED last
  /\ since' = [since EXCEPT ![visited'] = 0]
  /\ taken' = [taken EXCEPT ![visited'] = @ + 1]
  /\ overtaken' = [overtaken EXCEPT ![visited'] = NoneAhead]
  /\ UNCHANGED <<pc, batchSize, failures, openFor, stop, results, metrics,
                 delivered, deliveries>>

\* The visited camera's newest frame joins the batch.
VisitFresh ==
  /\ Visit
  /\ IntervalElapsed(visited')
  /\ ReadFresh(visited', last[visited'])
  /\ batch' = Append(batch, [camera |-> visited', frame |-> sequence[visited']])
  /\ last' = [last EXCEPT ![visited'] = sequence[visited']]
  /\ since' = [since EXCEPT ![visited'] = 0]
  /\ taken' = [taken EXCEPT ![visited'] = @ + 1]
  /\ overtaken' = [c \in Cameras |->
       IF c = visited' THEN NoneAhead
       ELSE IF Waiting(c) THEN [overtaken[c] EXCEPT ![visited'] = @ + 1]
       ELSE overtaken[c]]
  /\ UNCHANGED <<pc, batchSize, failures, openFor, stop, results, metrics,
                 delivered, deliveries>>

EndCollect ==
  /\ pc = "collect"
  /\ CollectDone
  /\ pc' = IF batch = <<>> THEN "poll" ELSE "infer"
  /\ checked' = 0 /\ visited' = 0        \* locals of _collect_batch
  /\ UNCHANGED <<bufferVars, cursor, batch, batchSize, last,
                 since, failures, openFor, stop, results, metrics, historyVars>>

\* infer_frames returned one output per packet, in time.
InferSucceeds ==
  /\ pc = "infer"
  /\ pc' = "put"
  /\ failures' = 0
  /\ batchSize' = Len(batch)
  /\ UNCHANGED <<bufferVars, cursor, checked, visited, batch, last, since,
                 openFor, stop, results, metrics, historyVars>>

\* It raised, took longer than inference_timeout_ms or returned another number
\* of outputs: the whole batch is given up, and enough failures in a row open
\* the circuit.
InferFails ==
  /\ pc = "infer"
  /\ pc' = "poll"
  /\ batch' = <<>>
  /\ failures' = IF failures + 1 >= Threshold THEN 0 ELSE failures + 1
  /\ openFor' = IF failures + 1 >= Threshold THEN Reset ELSE openFor
  /\ metrics' = [metrics EXCEPT !.failed = @ + 1,
       !.opened = IF failures + 1 >= Threshold THEN @ + 1 ELSE @]
  /\ UNCHANGED <<bufferVars, cursor, checked, visited, batchSize, last, since,
                 stop, results, historyVars>>

Full == Len(results) >= QueueSize

\* _put_result asks whether the queue is full.
PutResult ==
  /\ pc = "put"
  /\ batch # <<>>
  /\ pc' = IF Full THEN "evict" ELSE "enqueue"
  /\ UNCHANGED <<bufferVars, cursor, checked, visited, batch, batchSize, last,
                 since, failures, openFor, stop, results, metrics, historyVars>>

\* A mutant: a drop is counted even when the consumer was quicker.
EvictCountsAlways ==
  /\ pc = "evict"
  /\ pc' = "enqueue"
  /\ results' = IF results = <<>> THEN results ELSE Tail(results)
  /\ metrics' = [metrics EXCEPT !.drops = @ + 1]
  /\ UNCHANGED <<bufferVars, cursor, checked, visited, batch, batchSize, last,
                 since, failures, openFor, stop, historyVars>>

\* get_nowait: the oldest result goes, if the consumer has left any.
Evict ==
  /\ pc = "evict"
  /\ pc' = "enqueue"
  /\ results' = IF results = <<>> THEN results ELSE Tail(results)
  /\ metrics' = IF results = <<>> THEN metrics ELSE [metrics EXCEPT !.drops = @ + 1]
  /\ UNCHANGED <<bufferVars, cursor, checked, visited, batch, batchSize, last,
                 since, failures, openFor, stop, historyVars>>

\* put_nowait: raises queue.Full, which nothing catches, or appends.
Enqueue ==
  /\ pc = "enqueue"
  /\ IF Full
     THEN pc' = "died" /\ UNCHANGED <<results, batch>>
     ELSE /\ pc' = "put"
          /\ results' = Append(results, Head(batch))
          /\ batch' = Tail(batch)
  /\ UNCHANGED <<bufferVars, cursor, checked, visited, batchSize, last, since,
                 failures, openFor, stop, metrics, historyVars>>

\* All outputs are in the queue: count them and return to the loop.
PutDone ==
  /\ pc = "put"
  /\ batch = <<>>
  /\ pc' = "poll"
  /\ metrics' = [metrics EXCEPT !.processed = @ + batchSize]
  /\ batchSize' = 0                     \* local of run_once
  /\ UNCHANGED <<bufferVars, cursor, checked, visited, batch, last, since,
                 failures, openFor, stop, results, historyVars>>

Collect == VisitIdle \/ VisitStale \/ MarkStale \/ VisitFresh \/ EndCollect
Infer == InferSucceeds \/ InferFails
Put == PutResult \/ Evict \/ Enqueue \/ PutDone
Thread == Leave \/ BeginCollect \/ Collect \/ Infer \/ Put

Next ==
  \/ \E c \in Cameras : CaptureFrame(c)
  \/ Tick \/ GetResult \/ Stop
  \/ Thread

(***************************************************************************)
(* The thread keeps running and inference returns (a daemon thread with no *)
(* blocking call but the detector's); time passes.  Nothing is assumed of  *)
(* the cameras, of the consumer or of stop().                              *)
(***************************************************************************)
Fairness == WF_vars(Thread) /\ WF_vars(Tick)

Spec == Init /\ [][Next]_vars /\ Fairness
-----------------------------------------------------------------------------
(***************************************************************************)
(* Every published frame is in exactly one account: overwritten, refused   *)
(* as stale, taken into a batch, or still unread in the slot.  In          *)
(* particular no frame is taken twice or counted stale twice, and a frame  *)
(* skipped by the late read of buffer.sequence shows up in dropped_frames. *)
(***************************************************************************)
FrameAccounting ==
  \A c \in Cameras : sequence[c] = dropped[c] + stale[c] + taken[c] + Unread(c)

(***************************************************************************)
(* Every processed result was given to the consumer, evicted and counted,  *)
(* or is still queued, also while the consumer and the eviction of         *)
(* _put_result compete for the oldest result.                              *)
(***************************************************************************)
PutSoFar == IF pc \in {"put", "evict", "enqueue"} THEN batchSize - Len(batch) ELSE 0

ResultAccounting ==
  pc # "died" =>
    metrics.processed + PutSoFar = deliveries + metrics.drops + Len(results)

(***************************************************************************)
(* put_nowait never finds the queue full: queue.Full would end the         *)
(* scheduler thread, since neither run_once nor _run_loop catches it.      *)
(***************************************************************************)
NeverFull == pc # "died"

(***************************************************************************)
(* Round robin: while a camera has a frame ready to be taken, each other   *)
(* camera gets into a batch at most once before it, whatever the batch     *)
(* size, however fast the others publish and however batches fail.         *)
(***************************************************************************)
BoundedOvertaking == \A c, d \in Cameras : overtaken[c][d] <= 1

(***************************************************************************)
(* With the circuit open no frame is held and none is being collected.     *)
(***************************************************************************)
CircuitHolds == openFor > 0 => pc \in {"poll", "stopped"} /\ batch = <<>>

(***************************************************************************)
(* A camera with something newer than the scheduler has seen is caught up  *)
(* with (its newest frame taken or refused), unless the scheduler stops:   *)
(* neither busy peers, nor failing batches, nor an open circuit keep it    *)
(* out for ever.                                                           *)
(***************************************************************************)
EveryCameraServed ==
  \A c \in Cameras : sequence[c] > last[c] ~> (sequence[c] = last[c] \/ pc = "stopped")

\* After stop() the thread reaches the end of _run_loop.
StopEnds == stop ~> pc = "stopped"

(***************************************************************************)
(* The scheduler implements the promise of FrameDelivery: what has been    *)
(* collected but not put is the tail of the pipeline.                      *)
(***************************************************************************)
Pipeline == results \o batch

Delivery == INSTANCE FrameDelivery WITH
  published <- sequence, passed <- last, pipeline <- Pipeline

ImplementsDelivery == Delivery!Spec

(***************************************************************************)
(* What get_result hands out is newer than anything it handed out before   *)
(* of that camera: never an older frame, nor the same one twice.           *)
(***************************************************************************)
ConsumerForward ==
  [][GetResult => Head(results).frame > delivered[Head(results).camera]]_vars
=============================================================================

# TLA+ models of the camera analytics runtime

This directory holds TLA+ models of the program in `src/` (an edge runtime that
captures video from many cameras, runs shared detector and pose models, tracks
people and raises PPE, ROI and fall evidence; a small control plane; and the
older two-process pipeline and desktop application it grew out of), the TLC
configurations that check them, and proofs of their main properties for the
TLAPS proof system.

    tlc -workers 2 -config MCInferenceScheduler.cfg MCInferenceScheduler
    tlapm InferenceScheduler_proofs.tla

## The system

Paths are relative to `src/`.

### New runtime: `edge_runtime/`

| component | state | operations | interacts with |
|---|---|---|---|
| `LatestFrameBuffer` (`capture/latest_frame_buffer.py`) | one shared slot: sequence, consumed sequence, time, counters | `publish`, `read_latest`, `sequence`, `stale_frames`, `dropped_frames` | written by a capture process, read by the scheduler thread, under one multiprocessing lock |
| capture process (`capture/worker.py`) | its device, the frame being published | open, read, publish, back off, leave | publishes into the slot, writes `CameraHealth`, is told to stop by an event or SIGTERM |
| `CaptureWorker` (`capture/worker.py`) | the `Process` object, its event, its start time | `start`, `stop`, `restart`, `is_alive` | called by the watchdog and by the main thread, with no lock |
| `CameraHealth` (`capture/camera_health.py`) | state and counters in shared memory | one method per event, `snapshot` | written by the capture process and the workers, read by watchdog, readiness and metrics |
| `EdgeSupervisor` (`supervisor.py`) | the workers, the `_stop` event, the watchdog thread | `start`, `stop`, the watchdog loop | owns workers, buffers, health |
| `SharedInferenceScheduler` (`inference/scheduler.py`) | cursor, last sequences, circuit breaker, result queue | `run_once`, `get_result`, `start`, `stop` | reads every slot, calls the detector, feeds the consumer |
| `BoundedPoseQueue` (`inference/scheduler.py`) | a heap of at most 64 requests | `put`, `get` | between the consumer and the pose worker |
| `Phase2Runtime` (`phase2_runtime.py`) | time of each track's last request, two output queues | consumer thread, pose worker thread, `start`, `stop` | scheduler, trackers, pose queue, pose model |
| `ByteTracker` (`tracking/byte_tracker.py`) | the live tracks, the next identity, the frame counter | `update` | called by the consumer, one tracker per camera |
| `ModelRegistry`, `OnnxBackend` (`inference/`) | a record and a health per model | `load_enabled`, `load`, `get`, `statuses`, `close` | entry point, readiness |
| pipelines (`inference/pipelines/`), ROI analytics (`analytics/roi/`) | none | tensor and polygon arithmetic | detector, pose and rules |
| entry point, readiness, metrics (`main.py`, `health/`, `shutdown.py`) | the running flags | start and stop everything, answer `/ready` and `/metrics` | supervisor, registry, runtime |

### Control plane: `server/api/`

`InMemoryControlPlaneRepository` keeps events, heartbeats, metrics and
configurations under one lock; FastAPI runs the handlers in a pool of threads.
The routes make event ingestion idempotent on the event's id: 201 for a new
event, 200 for a known one, 409 for an Idempotency-Key that is not the id.

### Older code the repository still ships

| component | state | operations | interacts with |
|---|---|---|---|
| double buffer (`shared/memory.py`, `edge/capture_loop.py`, `inference/inference_worker.py`) | two slots with states, one result record per camera, in shared memory | P1 fills and shows, P2 locks, infers, answers | two processes, no lock |
| alert pipeline (`alert/`) | ROI cache, cooldowns, rows of the database | `process` per detection result | called by the capture thread of each camera; its ROI cache is invalidated by the dashboard |
| dashboard (`main.py`, `dashboard/server.py`) | list of sockets, the remote frames' queues and order (`inference/scheduler.py`), `stop_event` | endpoints, `broadcast_async`, `poll_remote_frames`, `main_async` | event loop, capture threads that post to it, MQTT and paho threads |
| desktop application (`gpu/`) | ROI list, preview queue and event, Qt signals, camera threads' flags | camera threads, `push_preview`, `/ws`, ROI save and reload | three kinds of threads and a database |
| capture sources and transport (`edge/`, `inference/`) | a thread per camera, sockets | read, publish | started by `main.py`, or by nothing that is shipped |

### What is hard

- Threads and processes share slots, health records and workers with locks
  around single methods only: sequences of calls interleave (the scheduler's
  `read_latest` and later `sequence`; `full`, `get_nowait`, `put_nowait`; the
  watchdog's `restart` and the main thread's `stop`).
- Processes crash, hang in a driver, lose their device, or are terminated in
  the middle of anything, also of a critical section.
- Every queue is bounded and lossy by design; what is lost must be counted, and
  losing must not reorder.
- Frames grow old, circuits open and close, tracks expire, requests wait: time
  decides, and time passes between a test and its use.
- Fairness between cameras, progress in spite of failures, and an end of all
  threads when asked.

`PROJECT.json` lists each hazard at its line with the properties that watch it.

## The modules

| module | models | lines up with the code as |
|---|---|---|
| `LatestFrameBuffer` | the slots | one operator per outcome of a method; a method is one step since it holds the lock |
| `InferenceScheduler` | `SharedInferenceScheduler` with its slots, capture processes, consumer and clock | `pc` is the place in `run_once`; one action per shared access: visit of a camera, the later read of `sequence`, inference, `full`, eviction, `put_nowait` |
| `FrameDelivery` | what the detector path promises: a lossy, ordered pipeline | abstract; implemented by `InferenceScheduler` |
| `InferenceScheduler_proofs` | theorems about the three | |
| `EdgeSupervisor` | supervisor, workers, capture processes and health states | `process[c]` is the place of a capture process in `_capture_process_main`, `at[t]` that of the watchdog or the main thread, both running the same worker methods |
| `EdgeSupervisor_proofs` | theorems | |
| `PosePath` | `Phase2Runtime` and `BoundedPoseQueue` | `pc` gives the place of the consumer and the pose worker; queue methods are one step, `_put_latest` is three |
| `ByteTracker` | one camera's tracker | one action, `update()`; an association is any one-to-one choice |
| `Phase2_proofs` | theorems about `PosePath` and `ByteTracker` | |
| `DoubleBuffer` | the old P1/P2 pair | every access to shared memory is a step |
| `EdgeStart` | the entry point: configuration, model loading, Phase 2's wiring, `/ready`, signals, shutdown, the interpreter's exit | `pc` is the place in `main`, one action per statement and, where a stop waits with a timeout, one for the order and one for the join; the load of a model is one step, a readiness request reads camera after camera |
| `ControlPlane` | ingestion and heartbeats, with senders and a network that loses, copies and reorders | a handler receives, calls the repository under its lock, and replies: three steps |
| `AlertPipeline` | `AlertPipeline.process` in each capture thread, against ROI updates of the dashboard | `pc[c]` is the place in `process`; the cache's test, load, store and lookup are apart, save and invalidation too |
| `Dashboard` | the event loop of the main process, its remote cameras and its shutdown | a task runs from `await` to `await`; `sending[s]` is the broadcast of the poller or of a posted message |
| `Desktop` | camera threads, Qt main thread, web thread | the steps between which another thread may look: reads of the ROI list, the steps of `push_preview`, wait, clear and send of a browser's coroutine |
| `EdgeStart_proofs`, `ControlPlane_proofs`, `Dashboard_proofs`, `Desktop_proofs` | theorems | |
| `LegacyPath_proofs` | theorems about `DoubleBuffer` and `AlertPipeline` | |
| `MC...` | instances for TLC | |

`EdgeStart` stands on top of the first modules: `EdgeSupervisor` is behind its
captures and watchdog, `InferenceScheduler` and `PosePath` behind `StartPhase2`,
`StopPhase2` and `JoinPhase2`. Here a camera is the state its capture process last
set, and a worker's `stop()` has the outcomes that `EdgeSupervisor` finds: it
returns with the process ended or dying (`StopCapture`), waits for ever for a lost
lock (`StopBlocks`), or raises (`StopRaises`). `Dashboard` takes over what capture threads post in `AlertPipeline`.

Operators whose comment begins with "A mutant" are not part of a model: each is
a plausible wrong version of the definition after it, used to see that a
property notices.

### Choices of granularity

- A method that holds a lock throughout is one step. A call on a `queue.Queue`
  is one step. Everything else that two actors can see is a step of its own.
- In the scheduler, the interval check, the two reads of `stale_frames` and
  `read_latest` are one step, because only the scheduler's thread writes what
  they read or, for the frame, `read_latest` decides alone.
- In `DoubleBuffer`, the two loads in `pick_free` and in `find_filled` are one
  step each, because a slot can only become more suitable in between; P2's
  attaching to the segments (which initialises them again) is one step.
- Time is in ticks. In `InferenceScheduler` and `EdgeSupervisor` only ages
  exist, capped one above the bound they are compared with; `PosePath` has a
  clock since it orders requests by time. A join with a timeout is a condition on
  what it waits for: it may give up exactly where the code it waits for can take
  longer than the timeout.
- Frames, results, boxes and texts are numbers or members of a small set.
- In `EdgeStart` the load of one model is one step, because nothing serves yet that
  could look; `Cameras` are numbers since they are read in an order. The watchdog's
  restart of a camera is one step or, with a process that is not started yet,
  what `StopRaises` needs of it: `EdgeSupervisor` has the steps. A thread of Phase 2
  is known by the role of the model it runs.
- In `Dashboard` queues are lengths, and a poll that finds nothing is no step: it
  brings the index back to where it was. In `AlertPipeline` the second cache lookup,
  the polygon test and the cooldown are one step, since only the camera's own
  thread touches its cooldown. In `Desktop` an image is what distinguishes it, and a
  frame lists at most one alert per person.
- Histories (`taken`, `delivered`, `deliveries`, `overtaken`, `gaveUp`, `cutOnce`,
  `overlapped`, `offered`, `fetched`, `posed`, `scores`, `returned`, `was`, `created`, `passed`, `told`,
  `lost`, `settled`, `at` of `rows`, `since`, `used`, `waited`, `undrained`, and in
  `EdgeStart` `was`, `outlived` and `unwound`) are read by properties only.

## The runs

| run | instance | shows |
|---|---|---|
| `scheduler` | 3 cameras, the first with an analytics interval and two frames, batch 2, queue 1 | `FrameAccounting`: every published frame is overwritten, stale, taken or unread, never two of these. `ResultAccounting`: the same for results while consumer and eviction compete. `BoundedOvertaking`: a waiting camera is overtaken at most once by each peer, and each peer is counted by itself. `EveryCameraServed` in spite of failing batches and open circuits, `StopEnds`, and `ImplementsDelivery`: the scheduler refines `FrameDelivery`, so that the consumer never sees a camera go back in time nor a frame twice. |
| `supervisor_stop` | 2 cameras, one hangs, `stop()` at any time | `NoOrphan`: no live process is replaced. `NothingLeftInTime`: if the watchdog ended in time, nothing is left running. `StopReturns`: unless a health lock is lost, `stop()` returns, or raises after it has given up waiting for the watchdog. |
| `supervisor_serving` | 2 cameras that hang, are slow, vanish, fail, mismatch, crash; no `stop()` | `Replaced`: every dead or hung process is replaced, unless a health lock is lost; in this run locks are lost, since a slow process is terminated within a health method. `HungNotExcused`: the watchdog's exception for DISCONNECTED never hides a hung process. |
| `supervisor_early_restart` | 1 camera, expects a violation | `RestartsOnlyHung`, see below |
| `pose_path` | 3 tracks of 2 cameras, 2 priorities, all queues of size 1 or 2 | `RequestsAccounted`: each request is posed, dropped, expired or on its way. `PosesForward`: a client never sees a track's poses go back, nor one twice. `StopEnds`. |
| `byte_tracker` | up to 3 detections per frame, 4 identities, buffer 2 | `ReportsFrame`, `WeakContinues`, `IdentitiesLast`. |
| `double_buffer` | the protocol access by access, P2 attaching at any time, results cut or torn | `SomeoneReleases`: P2 finds both slots locked only while P1 has a result to take or a slot to release. `KeepsShowing`: detection goes on for ever. Both unless a result was cut off. `ExactUnlessOverlapped`: until P1 reads a result while P2 writes one, results are drawn on their own frames (`ExactOverlay`) and a slot has one user (`Exclusive`). |
| `edge_start` | 2 cameras, ten configurations: for two of them (all models loaded, one failed) 3 changes of a camera's state, for the others (one detector, none; pose model that loads, fails, strands a session or does not fit; a disabled or failing model first) 3 signals | `InferenceBacked`: a thread of Phase 2 has its models open, unless it outlived the join of its stop. `ReturnReleases`: a `main` left by no exception, after the watchdog's end, leaves nothing but captures that are dying, for which the interpreter waits. `SignalEnds`: a handled signal ends the program, unless the watchdog outlived its join, a health lock is lost, or a second SIGINT broke off the shutdown. `ReadyIsHonest`: a ready reply names only cameras that were RUNNING during the request, and models that are READY. |
| `control_plane` | 1 event with 2 bodies, 2 handler threads, a wrong key, a restart | `CreatedOnce`, `FirstBodyStays`, `EveryEventAcknowledged` in spite of losses, conflicts and the restart. |
| `alert_pipeline` | 2 cameras, 3 results, two scenes, an ROI update, a clock that is set once, failing database and dispatch | `SettledRoiHolds`: an ROI update that ended while no load was under way is never undone. `EachAnnouncedOnce`: every stored violation is announced once, is about to be, or was given up by an exception of its own result. `AlertRate`: any two stored violations of a camera and type are a cooldown apart on the clock that `should_alert` reads. |
| `dashboard` | 2 clients, a configured and an unannounced remote camera with queues of 1, a posted message beside the poller, shutdown | `ListedWhileListening`, `EveryClientTold`, `FairTurns`, `StopEnds`. |
| `desktop` | 2 camera threads (one silent), 4 frames, skip 2 of both kinds, 2 browsers, an ROI update | `PreviewWakes`: no wake-up of the browsers is lost. `SaveTakesEffect`: persons in a frame received after the answer to a save, here of an ROI without points, are checked against the saved zone. `ClassifiedInTime`: two skips compose. `OutageShown`. |

Why the bounds are enough. The scheduler's camera loop is symmetric but for its
order; three cameras with a batch of two make a batch end in the middle of a
round, which two could not, and a queue of one makes every second result evict.
A camera publishes as many frames as it takes to have one overwritten, one
taken and one skipped. `MaxAge = 0` makes a frame stale after one tick. Two
cameras suffice for the supervisor since a camera's process only meets its
own worker and the threads that run all workers; one is broken, the other is
the peer. In `PosePath` two results make two requests of one track wait
together, two tracks and a third fill and overflow a queue of two at both of
its priorities, and the clock passes both the interval and the age limit. The
runtime itself only asks with MEDIUM priority; the run has two priorities because
the queue's code has. In `ByteTracker` a frame with three detections has one for
the first stage, one for the second and one left over, and a buffer of two
separates "lost" from "about to go"; detections are symmetric in the model, so
TLC uses that. The result counter of `DoubleBuffer` wraps at 5 instead of 2^64:
P1 is at most four results behind when it looks at the counter, so that a smaller one
could come round to the value P1 has.

In `edge_start` each configuration reaches another outcome of loading and
building; readiness only tells apart whether there are models and whether one
failed, so two configurations have the changes, one of them with a signal and a
shutdown under the requests, and the others the signals. Three changes let a camera leave RUNNING, come back and leave again while
the other is read; the shutdown does not look at camera states. A second signal meets
a shutdown under way, a third the exit of the interpreter; two cameras are what a
request needs to see one after the other change, and what a stop needs to have one
left when it fails. In `control_plane` two threads
ingest one event at once, which is all its lock is for, and events do not
interact. In `alert_pipeline` the first camera has two results, so that the
second falls into the cooldown of the first or after it; `MaxClock` equals the
cooldown of one tick, hence the type fires twice. The clock is set once, forward over the
cooldown or back before the first alert. In `dashboard` two clients and two
broadcasts are what lets one remove a socket that the other has in its copy; a
camera may send again as soon as it was polled, and a queue of one overflows at
the second frame (longer queues are covered by the proofs). In `desktop` four
frames are `FrameSkip * ClassifyEvery`; queue and list of one overflow at once. The
saved ROI has no point, so that the whole frame is cropped and nobody is inside; a
crop too narrow for the detector is in the model and in the proofs.

`ServingSpec` of `EdgeSupervisor` is `Spec` without the action `Stop`: it
leaves out the behaviours in which the supervisor is stopped, which the other
run has. `CHECK_DEADLOCK FALSE` stands where the system may really stop: threads that have
left after `stop()` (`pose_path`), a program that has returned or was killed
(`edge_start`, `dashboard`), or an environment that has used up its bounded frames,
requests or saves (`alert_pipeline`, `control_plane`, `desktop`).

### Fairness

- Threads and processes that can take a step eventually do: they are scheduled
  by the operating system and wait with timeouts only.
- Time passes; a signal that was sent arrives.
- Cameras need not deliver, consumers need not consume, nobody must call
  `stop()`, a device need not fail, and a hung call need not return.
- `WF` suffices: locks are held within one step, so no step is disabled again
  and again. A lock that is lost (its owner was killed) disables its steps for
  good, and fairness does not help.
- `EdgeStart` and `Dashboard` ask fairness of their main thread or task: it
  waits for threads with timeouts, and cancels the task it awaits. `EdgeStart` also
  asks that a process that was sent SIGTERM ends, since the interpreter waits for it
  at its exit. A send to a
  client owes nothing, since a client need not read.
- `ControlPlane` needs more, and says so: a sender that was not acknowledged sends
  again (`WF`), and a request or reply that is sent again and again gets through
  at last (`SF`), which is what retrying is for.
- `AlertPipeline` and `Desktop` promise nothing in the end, and have no fairness:
  `ClassifiedInTime` bounds by frames what would otherwise be a liveness property.

### Disagreement with the documentation

The run `supervisor_early_restart` expects a violation ("restart a hung camera",
`supervisor.py:1`): the last success of the previous process still counts after a
restart, so the new one may be stopped before it had `read_timeout_ms` for its
first frame.

Other claims fail too. The properties of the passing runs except exactly the cases
named here, and become false without the exception.

- "without affecting peers" (`supervisor.py:1`), excepted in `Replaced` and
  `StopReturns` by `lockLost`: a process terminated within a `CameraHealth` method
  leaves the lock held; the one watchdog waits for it, and a peer that dies is not
  replaced.
- "own capture processes" (`supervisor.py:1`), excepted in `NothingLeftInTime` by
  `gaveUp`: `stop()` waits two seconds for a watchdog that may be three or four
  seconds into a restart, and stops the workers beside it. The watchdog may start a
  process after `stop()` has passed its camera, or clear the event that `stop()` has set.
- "graceful edge shutdown" (`shutdown.py:1`), excepted in `StopReturns` by `gaveUp`: in
  the same race, `stop()` joins a `Process` that was made and not started, and the
  `AssertionError` leaves the cameras that follow running.
- "P1 reads EXACT frame back for overlay" (`shared/memory.py:4`) and "P1 won't overwrite"
  (`shared/memory.py:169`), excepted in `ExactUnlessOverlapped` by `overlapped`. P1 reads
  counter, text and slot of a result while P2 writes the next, and may draw a text on a
  frame it was not computed from. Or it takes the slot of a result that is not counted
  yet, and frees it while P2 holds it; when it sees the counter change it frees it
  again. `ExactOverlay` and `Exclusive`, put into the configuration as they are, are
  violated.
- "LOCKED (2) → FREE (0)" (`shared/memory.py:7`): a result that is overwritten unread, cut
  at 8191 bytes, or torn, leaves its slot LOCKED for ever. `KeepsShowing` shows that as
  long as none is cut (`cutOnce`), the other slot carries on.
- "call invalidate() when the ROI is updated" (`alert/roi_matcher.py:10`), excepted in
  `SettledRoiHolds` by the meaning of `settled`: a load of an ROI that was under way
  during an update is cached afterwards, and stays until the next update.

### Observations

What modelling showed about the code besides; no run depends on them.

Edge runtime.

- `/ready` may say ready with inference "unavailable": two enabled detectors, or
  none but another model, leave Phase 2 unbuilt (`main.py:90`) and every model
  READY. `ReadyIsHonest` is about cameras and models only.
- A SIGTERM outside the guarded wait ends the program where it is, and capture
  processes are left behind; a SIGINT there is a `KeyboardInterrupt`. During the
  shutdown it breaks off the stops that are left, and the interpreter, which joins
  processes that are not daemons (`worker.py:125`), then waits for captures that
  nobody has told to stop. The same follows when `supervisor.stop()` raises, and
  `registry.close()` is skipped in all these cases (`unwound`).
- Phase 2's threads are joined for two or three seconds each; one inside a longer
  inference outlives its join, and `registry.close()` closes its session meanwhile
  (`outlived`). It ends with the program.
- If the socket of the health server cannot be bound, `main` ends with an exception
  and the models are not closed.
- A failed warm-up strands its session (`onnx_backend.py:75`), and models after
  one that failed stay UNAVAILABLE.

Control plane.

- The repository lives in memory: after a restart an acknowledged event is
  unknown, so `CreatedOnce` promises storage only until the first restart.
- A heartbeat that arrives late replaces a newer one.

Older code.

- Results of P2 carry no keypoints, so that FALL cannot occur in P1. The detector
  that is shipped delivers no objects at all: `model_manager.py:153` calls `.get` on a
  list, which `InferenceWorker.step` swallows; and boxes are scaled twice
  (`model_manager.py:130`, `inference_worker.py:79`).
- The cooldown is measured with `datetime.now()`: when the host's clock is set, two
  alerts that are a cooldown apart by it may be closer, or farther, in real time
  (`AlertRate` is about the clock). An alert whose dispatch fails has used up the
  cooldown all the same; no property speaks of that.
- The dispatcher's own broadcast never finds a running loop; an exception in
  `process` gives up violations that are stored already (`lost`).
- `dashboard/server.py`: a slow client holds up remote previews for all. A server
  that raised makes `await dashboard_task` skip the rest of the cleanup; so does
  `close()` of a buffer a capture thread still has a view of. The model takes
  uvicorn to forward SIGTERM, as versions from 0.29 do.
- `gpu/`: mouse events never reach `ROIDrawer`, so its save and the `AlertManager` are
  not reachable; the web server's `ConnectionManager.broadcast` is scheduled where
  no loop runs, so its lock held over an `await` is never contended. A zone whose
  crop is narrower than 32 pixels is never looked at. A browser that fails while
  draining leaves previews queued (`undrained`). Drop-oldest may drop the image
  that shows an outage before a browser gets it; the widget gets it (`OutageShown`).

## The proofs

All theorems hold for every value of the constants that meets the named
assumptions (`BufferAssumption`, `SchedulerAssumption`, `SupervisorAssumption`,
`PoseAssumption`, `TrackerAssumption`, `EdgeStartAssumption`, `ControlAssumption`,
`DashboardAssumption`, `DoubleBufferAssumption`, `AlertAssumption`,
`DesktopAssumption`), which are the bounds the configuration
schema and the defaults in the code meet, or weaker. They are about
safety: the specification implies the box of a state predicate or of an action.
Every invariant and every action property of a run that must pass has a theorem.

`PosePath` and `ByteTracker` share a module of proofs, and so do `DoubleBuffer` and
`AlertPipeline`; therefore the tracker's and the double buffer's definitions have
names of their own (`TrackerSpec`, `BufferSpec`, `BufferTypeOK`, ...).

`InferenceScheduler_proofs`:

- `TypeCorrect`. `TypeOK` alone is not inductive: where the thread is putting, it
  holds a packet to put. `TypeInv` adds that (`HoldsPacket`).
- `FramesAccounted`, from `SlotInv`: besides the accounts it says where the
  reader stands in each slot (`ReaderPosition`), since the late read of
  `sequence` may run ahead of what `read_latest` consumed.
- `QueueNeverFull` and `ResultsAccounted`, from `QueueInv`: the queue is within its
  size, and below it where the thread is about to put. Consumers only help.
- `OvertakingBounded`, from `TurnInv`: a peer that has overtaken a waiting camera has
  gone to the end of the round, so it is further from the cursor than the camera
  (`Distance`) until the camera's own turn, and does not overtake again.
- `CircuitRespected`, from `CircuitInv`: a batch exists only inside `run_once`, and
  `run_once` goes on only with the circuit closed.
- `SchedulerImplementsDelivery`: each step of the scheduler is a step of the
  pipeline or leaves it alone, with `results` followed by `batch` as the pipeline.
- about `FrameDelivery` itself, as the instance `Delivery`: `DeliveryTypeCorrect`, and
  `DeliveryInOrder`, that a camera's frames are in order from the consumer back to
  the slot, which is inductive together with the type. What is delivered is then newer
  than all that was delivered of its camera (`DeliveryNeverBackwards`): neither an older
  frame nor the same one again. By the refinement this holds of what `get_result` hands
  out (`ConsumerForward`, by `ConsumerNeverBackwards`).

`EdgeSupervisor_proofs`:

- `TypeCorrect`, in three parts: the threads, the processes, the ages.
- `NoProcessOrphaned`, from `SpawnInv`: a thread about to spawn has seen its
  camera's process dead. No other thread starts it meanwhile, because main starts
  processes only while the watchdog is off, and never comes back to that.
- `HungSeen`, from `BetweenOutages`: a camera is shown as DISCONNECTED only while its
  process backs off, is gone or starts, and a process hangs at none of these.
- `StopLeavesNothing`, from `StopInv`: past its join main knows the watchdog's end, or
  has given up on it (`gaveUp`); if it has not, the cameras it is done with have no
  process, or one that a signal is about to end.
- `RaisesOnlyLate`, from `SpawnInv` and `StopInv`: with the watchdog ended nobody makes
  `Process` objects beside `stop()`, so it does not raise.

`Phase2_proofs`, about `PosePath`, all from one inductive invariant `IInv`:

- `TypeCorrect` and `NoRequestLost` (`QueueInv`). An accepted request adds one to
  the heap only if it is not in it already, which `PaceInv` tells: every request
  on the way was made at or before `lastAsked`, a new one an interval later.
- `RoomToPut`, from `RoomInv`: an output is within its size, and below it where
  its producer is about to enqueue, since a client only takes.
- `RequestsPaced`, from `PaceInv`, and `NumberInv`: whatever is on the way comes
  from the current result or an earlier one, and from the current one only for
  tracks the loop has passed.
- `PosesInOrder`, from `LineInv`: for each track, results get newer from what the
  client has, over the output and the batch, to the queue. The heap hands out the
  oldest request of a track because a track's requests have one priority and, by
  `PaceInv`, a request of a later result was made later.

`Phase2_proofs`, about `ByteTracker`: a lemma describes what `update()` leaves behind
(`Outcome`) and which detection went where (`Claims`); from it `TrackerTypeCorrect`,
`FrameReported` and `IdentitiesKept` need no more than the type, `StateIsCurrent`
that the state of a track says whether the last update returned it, and
`WeakOnlyContinues` follows from that.

`EdgeStart_proofs`, all from `StartInv`:

- `TypeCorrect`, in three parts.
- `PhaseTwoBacked`, from `Progress`: what the place of the main thread tells of what is
  loaded and of the threads that run. Past the joins of Phase 2 only threads are left that
  outlived theirs, and the models are closed only after that. `InferenceBacked` alone
  says nothing of the places before Phase 2 is started and after its joins.
- `ReturnsClean`, from `Stopped`: with the watchdog ended, the processes that live are those of
  cameras the stop has yet to visit, or dying; then those of cameras the exit has yet to join.
- `ReadyHonest`, from `Honest`: what the handler thread has found RUNNING was so since
  its request began, and so is what it will find.

`ControlPlane_proofs`: `TypeCorrect`; `EventsCreatedOnce`, from `Counted` (201 was
answered only for what is stored) and `Relied` (until a restart, every answer on
its way tells the truth); `BodiesStay`, since only an unknown event is stored.

`Dashboard_proofs`, everything safe the run checks:

- lemmas about `list.remove` on a list without duplicates;
- `TypeCorrect` and `ClientsListed` from `DashboardInv`. The two belong together:
  removal is known to leave no entry behind only if there was at most one;
- `ClientsTold`, from `AllReckoned`: before its place, a broadcast's copy holds only
  clients it wrote to or that left the list, and none of the copy can come back;
- `TurnsFair`, from `TurnsInv`: a camera that waits has fewer places to go in the ring
  (`Turn`) than each camera polled since; a poll brings all that wait nearer by the
  same number, and a camera that joins stands behind all.

`LegacyPath_proofs`, about `DoubleBuffer`:

- `BufferTypeCorrect`.
- `NeverBothWaiting` (`SomeoneReleases`), from `AnsweredInv` and a count of the results P1 has not
  looked at or may miss before it looks (`Pending`): there are at most four, so that
  the counter never comes round to the value P1 has. A result that is not cut is
  whole when P2 waits, and names a slot, which P1 then releases.

- `ExactUntilOverlap`, from `ExactInv`: a slot in use is in the state its user gave it, and
  the result P1 has not taken describes the pixels of its slot. Nothing is claimed of what
  follows an overlap, which no lock excludes: the exactness of the overlay and the
  exclusion of the two processes, as documented, do not hold.

`LegacyPath_proofs`, about `AlertPipeline`:

- `AlertTypeCorrect`, from `AlertTypes`: threads, ROIs and records each have their own
  part. The classifier is a recursive function over the persons of a scene. That it
  yields a list of violations takes an induction, which is done by hand: a set of
  numbers that is not empty has a least element (`LeastNumber`), so steps that lead
  from list to list do so as often as there are persons (`Iteration`).
- `SettledRoi`, from `VersionInv`: what is cached, or loaded and not yet cached, lies
  between the version that settled and the one saved last.
- `AtMostOncePerPeriod`, from `RateInv`: the rows of a camera and type were let through at or
  before its last alert, and a row that is due, for an alert noted and not yet inserted,
  keeps the distance. `AlertRate` itself is not inductive, since the alert is noted before the
  row is there.
- `AnnouncedOnce`, from `IdsInv`: every id is in one place only, lists included.

`Desktop_proofs`:

- `DesktopTypeCorrect`. That a frame's alerts are a number needs persons to be
  finitely many, and that the preview queue stays within its size needs it to be
  below where the main thread is about to put; so `put_nowait` never raises.
- `NoLostWakeUp`: `PreviewWakes` is inductive as it stands.
- `SavedRoiUsed`, from `ZoneInv`: what was acknowledged when the frame came is no newer
  than the zones in use, whose versions only grow.
- `ClassifiedOften`, from `SkipInv`: the moving frames without a classification are no
  more than `checks * FrameSkip + count`, what the two counters account for; the
  frame that is being checked has completed a turn.
- `OutageSeen`, from `OutInv`: `SaysOut` follows a camera's last image through the queue
  to the widget; a thread that handles a frame is in no outage.

Proved only, and in no run's list: `NeverFull`, `CircuitHolds`, `OutputsNeverFull`,
`Paced`, `StateTells`, `ConsumerForward`, `RaisesOnlyLate`, `FrameDelivery`'s properties, and `TypeOK` of the
modules whose runs do not list it.

Out of the prover's reach, and left to TLC: liveness (`EveryCameraServed`,
`StopEnds`, `StopReturns`, `Replaced`, `KeepsShowing`, `SignalEnds`,
`EveryEventAcknowledged`) and `ENABLED`. The library's induction theorems are out
of reach too, as they take an operator; where induction was needed, it is done
through `LeastNumber`.

## Not modelled

- Within modelled components: counters of the health record that decide
  nothing; a `release()` of a device that hangs; a process terminated inside
  `publish`, which loses the slot's lock as one inside a health method loses that
  one; two threads in `Process.poll` of one process at once; a second `start()` of
  a stopped scheduler, supervisor or runtime, which the entry point never calls;
  an exception in the tracker's arithmetic; a runtime without a pose model, which
  is `PosePath` without its worker; the end of P1 and P2.
- In `ControlPlane`: metrics, which are kept like heartbeats; of heartbeats the model has
  the arrival in any order, and no property: the code promises nothing of them; the configuration
  route, which only answers 404 or what nobody stores; the media presign, which
  always answers 503; `event_worker`, a placeholder.
- In `Dashboard`: the REST routes that read the database; `CaptureDisplay`'s threads,
  of which `DoubleBuffer` and `AlertPipeline` model what they do with a frame.
- In `Desktop`: `AlertManager` and `ROIDrawer`, which are not reachable; detector
  exceptions, which `Cam1Thread` does not catch and which end it.
- Capture sources and senders of the older code: a thread that reads OpenCV, or a
  loop that sends, with nobody who stops and restarts it.
- Tensor and polygon arithmetic (`pipelines/`, `analytics/roi/`), drawing, Qt
  widgets, configuration validation, command line scripts: no state to speak of,
  or arithmetic on floating-point data that TLC cannot enumerate.

## Plan

The plan is done but for its last point:

1. `LatestFrameBuffer`, `InferenceScheduler`, `FrameDelivery`: the core, with proofs.
2. `EdgeSupervisor`, with proofs: processes, watchdog, `stop()`.
3. `DoubleBuffer`, with proofs: the shared-memory protocol.
4. `PosePath`, with proofs: pose queue, consumer and worker.
5. `ByteTracker`, with proofs.
6. `EdgeStart`, with proofs: loading, readiness, shutdown.
7. `AlertPipeline`, with proofs: ROI cache, cooldown, failing dispatches.
8. `ControlPlane`, with proofs: idempotent ingestion over a faulty network.
9. `Dashboard` and `Desktop`, with proofs: event loops, threads and browsers.
10. Left: pure rules, that is the selection of ROI evidence per rule, as operators
    checked against a reference definition.

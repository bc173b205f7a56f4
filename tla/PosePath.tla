------------------------------- MODULE PosePath -------------------------------
(***************************************************************************)
(* From detector results to poses: Phase2Runtime (phase2_runtime.py) and   *)
(* the BoundedPoseQueue (inference/scheduler.py) between its two threads.  *)
(* The consumer takes a detector result, updates the camera's tracker,     *)
(* puts the tracks into track_results and requests a pose for every track  *)
(* that has had none for an interval.  The pose worker fetches up to a     *)
(* batch of requests, forgets those whose frame is too old, and puts the   *)
(* poses into pose_results.                                                *)
(*                                                                         *)
(* A method of BoundedPoseQueue is one step because it holds the lock; a   *)
(* _put_latest is three, the calls it makes on a queue.Queue that others   *)
(* empty.  What a track shows is abstracted: a request is a track, the     *)
(* number of the result it was made for, and the times the code compares.  *)
(***************************************************************************)
EXTENDS Integers, Sequences, FiniteSets

CONSTANTS
  NumTracks,     \* identities, numbered in the order of the trackers' lists
  Camera,        \* [Tracks -> Int]: the camera of each track
  Rank,          \* [Tracks -> Nat]: _PRIORITY_RANK of each track's requests
  QueueSize,     \* maxsize of pose_requests
  BatchSize,     \* most requests in one inference
  Size,          \* maxsize of the consumer's and the worker's output queue
  Interval,      \* _pose_interval_ns, in ticks
  MaxAge,        \* 1000 ms, in ticks
  MaxResults,    \* bound: detector results
  MaxTime,       \* bound: the clock
  MaxLatency     \* bound: ticks from a frame's capture to its result

Tracks == 1 .. NumTracks
Threads == {"consumer", "worker"}

ASSUME PoseAssumption ==
  /\ NumTracks \in Nat
  /\ Camera \in [Tracks -> Int]
  /\ Rank \in [Tracks -> Nat]
  /\ QueueSize \in Nat \ {0}
  /\ BatchSize \in Nat \ {0}
  /\ Size \in [Threads -> Nat \ {0}]
  /\ Interval \in Nat \ {0}
  /\ MaxAge \in Nat
  /\ MaxResults \in Nat
  /\ MaxTime \in Nat
  /\ MaxLatency \in Nat

VARIABLES
  now,           \* time.monotonic_ns(), in ticks
  pc,            \* [Threads -> Locations]
  stop,          \* the _stop event
  number,        \* detector results the consumer has taken
  captured,      \* local result.frame.monotonic_ns
  pending,       \* local: tracks of the result not yet looked at
  asked,         \* local now_ns of the consumer
  lastAsked,     \* [Tracks -> Nat]: _last_pose_request_ns
  requests,      \* pose_requests._heap, as a set
  dropped,       \* pose_requests.dropped
  batch,         \* local requests of the worker, then poses not yet put
  out,           \* [Threads -> Seq]: track_results and pose_results
  offered,       \* history: calls of put
  fetched,       \* history: requests the worker got
  posed          \* [Tracks -> Nat]: history: newest result posed for a client

clientVars == <<posed>>
queueVars == <<requests, dropped, offered, fetched>>
consumerVars == <<number, captured, pending, asked, lastAsked>>
vars == <<now, pc, stop, consumerVars, queueVars, batch, out, posed>>

Locations == {"poll", "get", "collect", "infer", "request", "put", "evict", "enqueue", "stopped"}
Requests == [track : Tracks, number : Nat, asked : Nat, captured : Nat]

TypeOK ==
  /\ now \in Nat
  /\ pc \in [Threads -> Locations]
  /\ stop \in BOOLEAN
  /\ number \in Nat
  /\ captured \in Nat
  /\ pending \in SUBSET Tracks
  /\ asked \in Nat
  /\ lastAsked \in [Tracks -> Nat]
  /\ requests \in SUBSET Requests /\ Cardinality(requests) <= QueueSize
  /\ dropped \in Nat
  /\ batch \in Seq(Requests) /\ Len(batch) <= BatchSize
  /\ DOMAIN out = Threads /\ out["consumer"] \in Seq(Nat) /\ out["worker"] \in Seq(Requests)
  /\ offered \in Nat
  /\ fetched \in Nat
  /\ posed \in [Tracks -> Nat]

\* The clock counts from the machine's start, which is longer ago than an interval.
Init ==
  /\ now = Interval
  /\ pc = [t \in Threads |-> "poll"]
  /\ stop = FALSE
  /\ number = 0
  /\ captured = 0
  /\ pending = {}
  /\ asked = 0
  /\ lastAsked = [t \in Tracks |-> 0]
  /\ requests = {}
  /\ dropped = 0
  /\ batch = <<>>
  /\ out = [t \in Threads |-> <<>>]
  /\ offered = 0
  /\ fetched = 0
  /\ posed = [t \in Tracks |-> 0]

At(t, location) == pc[t] = location
Move(t, location) == pc' = [pc EXCEPT ![t] = location]

\* The loops' test of the event.
Leave(t) ==
  /\ At(t, "poll")
  /\ stop
  /\ Move(t, "stopped")
  /\ UNCHANGED <<now, stop, consumerVars, queueVars, batch, out, clientVars>>
-----------------------------------------------------------------------------
(* _put_latest of track_results and pose_results, each with one producer. *)

Full(t) == Len(out[t]) >= Size[t]

\* full()
Put(t) ==
  /\ At(t, "put")
  /\ Move(t, IF Full(t) THEN "evict" ELSE "enqueue")
  /\ UNCHANGED <<now, stop, consumerVars, queueVars, batch, out, clientVars>>

\* A mutant: wait for the client to make room.
EvictWaits(t) ==
  /\ At(t, "evict")
  /\ ~Full(t)
  /\ Move(t, "enqueue")
  /\ UNCHANGED <<now, stop, consumerVars, queueVars, batch, out, clientVars>>

\* get_nowait(), which finds nothing if the client was quicker.
Evict(t) ==
  /\ At(t, "evict")
  /\ out' = IF out[t] = <<>> THEN out ELSE [out EXCEPT ![t] = Tail(@)]
  /\ Move(t, "enqueue")
  /\ UNCHANGED <<now, stop, consumerVars, queueVars, batch, clientVars>>

\* A client takes the oldest tracks or the oldest pose.
Fetch(t) ==
  /\ out[t] # <<>>
  /\ out' = [out EXCEPT ![t] = Tail(@)]
  /\ posed' = IF t = "worker"
              THEN [posed EXCEPT ![Head(out[t]).track] = Head(out[t]).number]
              ELSE posed
  /\ UNCHANGED <<now, pc, stop, consumerVars, queueVars, batch>>
-----------------------------------------------------------------------------
(* BoundedPoseQueue *)

\* The tuple order of _PrioritizedPoseRequest.
Before(r, s) ==
  \/ Rank[r.track] < Rank[s.track]
  \/ Rank[r.track] = Rank[s.track] /\ r.asked < s.asked

\* A mutant: the newest request of the best rank first.
NewestFirst == {r \in requests : \A s \in requests : r.asked >= s.asked}

\* What heappop may return; nothing orders requests of one rank and time.
Best == {r \in requests : \A s \in requests : ~Before(s, r)}

\* What a full queue gives up: the oldest of the worst rank.
Worst == {r \in requests : \A s \in requests :
            /\ Rank[s.track] <= Rank[r.track]
            /\ Rank[s.track] = Rank[r.track] => r.asked <= s.asked}

\* put of a request into a queue with room, or with someone to give up for it.
Accept(r) ==
  \/ /\ Cardinality(requests) < QueueSize
     /\ requests' = requests \union {r}
     /\ UNCHANGED dropped
  \/ /\ Cardinality(requests) >= QueueSize
     /\ \E w \in Worst : /\ Rank[r.track] <= Rank[w.track]
                         /\ requests' = (requests \ {w}) \union {r}
     /\ dropped' = dropped + 1

Refused(r) ==
  /\ Cardinality(requests) >= QueueSize
  /\ \A w \in Worst : Rank[r.track] > Rank[w.track]
-----------------------------------------------------------------------------
(* The consumer: _consume_detections. *)

\* The loop's test finds the event clear: get_result begins to wait.
BeginGet ==
  /\ At("consumer", "poll") /\ ~stop
  /\ Move("consumer", "get")
  /\ UNCHANGED <<now, stop, consumerVars, queueVars, batch, out, clientVars>>

\* get_result gives up after its timeout.
GetNothing ==
  /\ At("consumer", "get")
  /\ Move("consumer", "poll")
  /\ UNCHANGED <<now, stop, consumerVars, queueVars, batch, out, clientVars>>

\* get_result returns, and trackers.update: some tracks of one camera, seen in
\* a frame captured some time ago.
Receive ==
  /\ At("consumer", "get")
  /\ number < MaxResults
  /\ number' = number + 1
  /\ pending' \in {seen \in SUBSET Tracks : \A s, t \in seen : Camera[s] = Camera[t]}
  /\ captured' \in {time \in 0 .. now : now - time <= MaxLatency}
  /\ Move("consumer", "put")
  /\ UNCHANGED <<now, stop, asked, lastAsked, queueVars, batch, out, clientVars>>

\* The tracks are put, and now_ns is taken.
PutTracks ==
  /\ At("consumer", "enqueue")
  /\ out' = [out EXCEPT !["consumer"] = Append(@, number)]
  /\ asked' = IF pending = {} THEN 0 ELSE now
  /\ captured' = IF pending = {} THEN 0 ELSE captured
  /\ Move("consumer", IF pending = {} THEN "poll" ELSE "request")
  /\ UNCHANGED <<now, stop, number, pending, lastAsked, queueVars, batch, clientVars>>

TooSoon(t) == asked - lastAsked[t] < Interval

\* The next track of the loop: skipped, accepted or refused.  The locals are
\* forgotten with the last.
Request ==
  \E t \in pending :
    LET r == [track |-> t, number |-> number, asked |-> asked, captured |-> captured] IN
    /\ At("consumer", "request")
    /\ \A u \in pending : t <= u
    /\ \/ TooSoon(t) /\ UNCHANGED <<lastAsked, queueVars>>
       \/ /\ ~TooSoon(t)
          /\ Accept(r)
          /\ lastAsked' = [lastAsked EXCEPT ![t] = asked]
          /\ offered' = offered + 1
          /\ UNCHANGED fetched
       \/ /\ ~TooSoon(t)
          /\ Refused(r)
          /\ dropped' = dropped + 1
          /\ offered' = offered + 1
          /\ UNCHANGED <<lastAsked, requests, fetched>>
    /\ pending' = pending \ {t}
    /\ IF pending = {t}
       THEN Move("consumer", "poll") /\ asked' = 0 /\ captured' = 0
       ELSE UNCHANGED <<pc, asked, captured>>
    /\ UNCHANGED <<now, stop, number, batch, out, clientVars>>

Consumer == Leave("consumer") \/ BeginGet \/ GetNothing \/ Receive \/ Put("consumer") \/ Evict("consumer")
            \/ PutTracks \/ Request
-----------------------------------------------------------------------------
(* The pose worker: _run_pose. *)

BeginBatch ==
  /\ At("worker", "poll") /\ ~stop
  /\ Move("worker", "collect")
  /\ UNCHANGED <<now, stop, consumerVars, queueVars, batch, out, clientVars>>

\* age_ms <= 1000
Fresh(r) == now - r.captured <= MaxAge

\* A mutant: a request that is too old goes back.
GetReturnsStale ==
  /\ At("worker", "collect") /\ Len(batch) < BatchSize
  /\ \E r \in Best :
       /\ requests' = IF Fresh(r) THEN requests \ {r} ELSE requests
       /\ batch' = IF Fresh(r) THEN Append(batch, r) ELSE batch
  /\ fetched' = fetched + 1
  /\ UNCHANGED <<now, pc, stop, consumerVars, dropped, offered, out, clientVars>>

\* get() returns a request, kept if its frame is recent.
Get ==
  /\ At("worker", "collect") /\ Len(batch) < BatchSize
  /\ \E r \in Best :
       /\ requests' = requests \ {r}
       /\ batch' = IF Fresh(r) THEN Append(batch, r) ELSE batch
  /\ fetched' = fetched + 1
  /\ UNCHANGED <<now, pc, stop, consumerVars, dropped, offered, out, clientVars>>

\* The batch is full, or get() returned None: infer, or wait and start again.
EndBatch ==
  /\ At("worker", "collect")
  /\ Len(batch) = BatchSize \/ requests = {}
  /\ Move("worker", IF batch = <<>> THEN "poll" ELSE "infer")
  /\ UNCHANGED <<now, stop, consumerVars, queueVars, batch, out, clientVars>>

InferPoses ==
  /\ At("worker", "infer")
  /\ Move("worker", "put")
  /\ UNCHANGED <<now, stop, consumerVars, queueVars, batch, out, clientVars>>

\* infer_requests raises: the whole batch is given up.
InferFails ==
  /\ At("worker", "infer")
  /\ batch' = <<>>
  /\ Move("worker", "poll")
  /\ UNCHANGED <<now, stop, consumerVars, queueVars, out, clientVars>>

PutPose ==
  /\ At("worker", "enqueue")
  /\ out' = [out EXCEPT !["worker"] = Append(@, Head(batch))]
  /\ batch' = Tail(batch)
  /\ Move("worker", IF Len(batch) = 1 THEN "poll" ELSE "put")
  /\ UNCHANGED <<now, stop, consumerVars, queueVars, clientVars>>

Worker == Leave("worker") \/ BeginBatch \/ Get \/ EndBatch \/ InferPoses \/ InferFails
          \/ Put("worker") \/ Evict("worker") \/ PutPose
-----------------------------------------------------------------------------
Stop ==
  /\ ~stop
  /\ stop' = TRUE
  /\ UNCHANGED <<now, pc, consumerVars, queueVars, batch, out, clientVars>>

Tick ==
  /\ now < MaxTime
  /\ now' = now + 1
  /\ UNCHANGED <<pc, stop, consumerVars, queueVars, batch, out, clientVars>>

Next == Consumer \/ Worker \/ Stop \/ Tick \/ \E t \in Threads : Fetch(t)

(***************************************************************************)
(* The threads are scheduled; nobody has to read their output or to stop   *)
(* them.                                                                   *)
(***************************************************************************)
Fairness == WF_vars(Consumer) /\ WF_vars(Worker)

Spec == Init /\ [][Next]_vars /\ Fairness
-----------------------------------------------------------------------------
(***************************************************************************)
(* Every request offered to the queue is in it, was dropped and counted,   *)
(* or was fetched.                                                         *)
(***************************************************************************)
RequestsAccounted == offered = Cardinality(requests) + dropped + fetched

(***************************************************************************)
(* put_nowait never raises: nothing catches it, and the thread would end.  *)
(***************************************************************************)
OutputsNeverFull == \A t \in Threads : At(t, "enqueue") => ~Full(t)

(***************************************************************************)
(* However requests are queued, replaced and batched, no two of a track    *)
(* that the worker still has before it are closer than the interval.       *)
(***************************************************************************)
Paced ==
  LET ahead == requests \union {batch[i] : i \in DOMAIN batch} IN
  \A r, s \in ahead : r.track = s.track /\ r.number < s.number => s.asked - r.asked >= Interval

(***************************************************************************)
(* The pose a client takes is of a later result than any it was given of   *)
(* that track before: it never sees them go back in time, nor one twice.   *)
(***************************************************************************)
PosesForward ==
  [][Fetch("worker") => LET pose == Head(out["worker"]) IN
       pose.number > posed[pose.track]]_vars

(***************************************************************************)
(* stop() ends both threads, even if nobody reads what they produce.       *)
(***************************************************************************)
StopEnds == stop ~> \A t \in Threads : At(t, "stopped")
=============================================================================

---------------------------- MODULE FrameDelivery ----------------------------
(***************************************************************************)
(* What the detector path promises its consumer, without saying how: a     *)
(* lossy pipeline.  A camera's newest frame may enter it, once; whatever   *)
(* is in it may be lost from either end; what comes out comes out in       *)
(* order.  InferenceScheduler implements this specification with one slot  *)
(* per camera, round-robin batches and a bounded result queue.             *)
(***************************************************************************)
EXTENDS Integers, Sequences

CONSTANT Cameras

VARIABLES
  published,     \* [Cameras -> Nat]: newest frame of each camera
  passed,        \* [Cameras -> Nat]: newest frame that may no longer enter
  pipeline,      \* frames on their way to the consumer, oldest first
  delivered      \* [Cameras -> Nat]: newest frame the consumer was given

deliveryVars == <<published, passed, pipeline, delivered>>

Frames == [camera : Cameras, frame : Nat]

TypeOK ==
  /\ published \in [Cameras -> Nat]
  /\ passed \in [Cameras -> Nat]
  /\ pipeline \in Seq(Frames)
  /\ delivered \in [Cameras -> Nat]

Init ==
  /\ published = [c \in Cameras |-> 0]
  /\ passed = [c \in Cameras |-> 0]
  /\ pipeline = <<>>
  /\ delivered = [c \in Cameras |-> 0]

Publish(c) ==
  /\ published' = [published EXCEPT ![c] = @ + 1]
  /\ UNCHANGED <<passed, pipeline, delivered>>

\* Only the newest frame enters, and only if no frame as new has been passed.
Take(c) ==
  /\ published[c] > passed[c]
  /\ passed' = [passed EXCEPT ![c] = published[c]]
  /\ pipeline' = Append(pipeline, [camera |-> c, frame |-> published[c]])
  /\ UNCHANGED <<published, delivered>>

\* The newest frame is given up without entering.
Pass(c) ==
  /\ published[c] > passed[c]
  /\ passed' = [passed EXCEPT ![c] = published[c]]
  /\ UNCHANGED <<published, pipeline, delivered>>

\* The oldest frame in the pipeline makes room.
LoseOldest ==
  /\ pipeline # <<>>
  /\ pipeline' = Tail(pipeline)
  /\ UNCHANGED <<published, passed, delivered>>

\* The newest frames in the pipeline are lost together.
LoseNewest ==
  /\ \E n \in 0 .. Len(pipeline) - 1 : pipeline' = SubSeq(pipeline, 1, n)
  /\ UNCHANGED <<published, passed, delivered>>

Deliver ==
  /\ pipeline # <<>>
  /\ delivered' = [delivered EXCEPT ![Head(pipeline).camera] = Head(pipeline).frame]
  /\ pipeline' = Tail(pipeline)
  /\ UNCHANGED <<published, passed>>

Next ==
  \/ \E c \in Cameras : Publish(c) \/ Take(c) \/ Pass(c)
  \/ LoseOldest \/ LoseNewest \/ Deliver

Spec == Init /\ [][Next]_deliveryVars
-----------------------------------------------------------------------------
(***************************************************************************)
(* No frame is ahead of what was published, no frame enters twice, and a   *)
(* camera's frames are in order from the consumer back to the slot.        *)
(***************************************************************************)
InOrder ==
  /\ \A c \in Cameras : delivered[c] <= passed[c] /\ passed[c] <= published[c]
  /\ \A i \in 1 .. Len(pipeline) :
       LET f == pipeline[i] IN
         delivered[f.camera] < f.frame /\ f.frame <= passed[f.camera]
  /\ \A i, j \in 1 .. Len(pipeline) :
       i < j /\ pipeline[i].camera = pipeline[j].camera
         => pipeline[i].frame < pipeline[j].frame

(***************************************************************************)
(* Whatever is delivered is newer than all that was delivered of its       *)
(* camera: the consumer never sees it go back in time, nor a frame twice.  *)
(***************************************************************************)
NeverBackwards ==
  [][Deliver => Head(pipeline).frame > delivered[Head(pipeline).camera]]_deliveryVars
=============================================================================

-------------------------- MODULE LatestFrameBuffer --------------------------
(***************************************************************************)
(* The single shared frame slot each camera publishes into                 *)
(* (edge_runtime/capture/latest_frame_buffer.py).  One capture process      *)
(* writes it, the inference scheduler reads it; every method holds the     *)
(* slot's lock from its first shared access to its return, so a method is  *)
(* one step.  A frame is known by its sequence number; pixels, dimensions  *)
(* and unix time are left out.  Time is the frame's age in ticks, kept     *)
(* only up to the first value that counts as stale.                        *)
(***************************************************************************)
EXTENDS Integers

CONSTANTS
  NumCameras,    \* enabled cameras
  MaxAge         \* max_frame_age_ms, in ticks

ASSUME BufferAssumption ==
  /\ NumCameras \in Nat \ {0}
  /\ MaxAge \in Nat

Cameras == 0 .. NumCameras - 1

VARIABLES
  sequence,      \* [Cameras -> Nat]: frames published so far = id in the slot
  consumed,      \* [Cameras -> Nat]: newest id a reader has used up
  age,           \* [Cameras -> 0 .. MaxAge + 1]: age of the frame in the slot
  dropped,       \* [Cameras -> Nat]: frames overwritten before being consumed
  stale          \* [Cameras -> Nat]: frames refused because they were too old

bufferVars == <<sequence, consumed, age, dropped, stale>>

BufferTypeOK ==
  /\ sequence \in [Cameras -> Nat]
  /\ consumed \in [Cameras -> Nat]
  /\ age \in [Cameras -> 0 .. MaxAge + 1]
  /\ dropped \in [Cameras -> Nat]
  /\ stale \in [Cameras -> Nat]

BufferInit ==
  /\ sequence = [c \in Cameras |-> 0]
  /\ consumed = [c \in Cameras |-> 0]
  /\ age = [c \in Cameras |-> 0]
  /\ dropped = [c \in Cameras |-> 0]
  /\ stale = [c \in Cameras |-> 0]

\* publish: replace the slot, counting the frame it held if nobody consumed it.
Publish(c) ==
  /\ dropped' = IF sequence[c] > consumed[c]
                THEN [dropped EXCEPT ![c] = @ + 1] ELSE dropped
  /\ sequence' = [sequence EXCEPT ![c] = @ + 1]
  /\ age' = [age EXCEPT ![c] = 0]
  /\ UNCHANGED <<consumed, stale>>

HasNew(c, after) == sequence[c] > after
TooOld(c) == age[c] > MaxAge

\* read_latest returning None because the slot holds nothing newer.
ReadNothing(c, after) ==
  /\ ~HasNew(c, after)
  /\ UNCHANGED bufferVars

\* read_latest returning None because the frame is past max_age_ms: the frame
\* is used up and counted.
ReadStale(c, after) ==
  /\ HasNew(c, after)
  /\ TooOld(c)
  /\ stale' = [stale EXCEPT ![c] = @ + 1]
  /\ consumed' = [consumed EXCEPT ![c] = sequence[c]]
  /\ UNCHANGED <<sequence, age, dropped>>

\* read_latest returning a FramePacket whose frame_id is the sequence read.
ReadFresh(c, after) ==
  /\ HasNew(c, after)
  /\ ~TooOld(c)
  /\ consumed' = [consumed EXCEPT ![c] = sequence[c]]
  /\ UNCHANGED <<sequence, age, dropped, stale>>

\* Time passes for the frames in the slots.
FramesAge ==
  /\ age' = [c \in Cameras |-> IF TooOld(c) THEN age[c] ELSE age[c] + 1]
  /\ UNCHANGED <<sequence, consumed, dropped, stale>>

\* Frames of c that nobody has read, refused or overwritten: one or none.
Unread(c) == IF sequence[c] > consumed[c] THEN 1 ELSE 0
=============================================================================

----------------------------- MODULE DoubleBuffer -----------------------------
(***************************************************************************)
(* The deprecated two-process pipeline that the repository still ships:    *)
(* one camera's FrameBuffer (shared/memory.py), the capture process P1     *)
(* (edge/capture_loop.py) and the inference process P2                     *)
(* (inference/inference_worker.py).  They share two frame slots with a     *)
(* state byte each, one result text, the slot the result is for, and a     *)
(* result counter, all without a lock, so every shared access is a step.   *)
(*                                                                         *)
(* A frame is an identifier, given when it is written to a slot and reused *)
(* when nothing refers to it any more.  The result counter wraps.          *)
(***************************************************************************)
EXTENDS Integers

CONSTANT Wrap    \* bound: result_seq counts modulo Wrap (2^64 in the code)

ASSUME DoubleBufferAssumption == Wrap \in Nat /\ Wrap > 4

Slots == {0, 1}
None == -1
Frames == 0 .. 5                  \* one more than can be referred to
Cut == -2                         \* a text that did not fit RESULT_SIZE
Torn == -3                        \* bytes of two texts, while one is being written

VARIABLES
  state,         \* [Slots -> BufState]
  content,       \* [Slots -> Frames]: the pixels in the slot, None if none yet
  resultText,    \* the frame the result text describes, Cut or Torn
  resultFor,     \* result_for_buf
  resultSeq,     \* result_seq
  p1, p2,        \* where the two processes are
  writing,       \* P1: the slot being written
  lastSeq,       \* P1: _last_result_seq
  text, for,     \* P1: what read_result has read
  slot,          \* P2: buf_idx
  image,         \* P2: the frame being detected
  cutOnce,       \* history: some result did not fit
  overlapped     \* history: P1 was reading a result while P2 was writing one

sharedVars == <<state, content, resultText, resultFor, resultSeq>>
p1Vars == <<p1, writing, lastSeq, text, for>>
p2Vars == <<p2, slot, image, cutOnce>>
bufferVars == <<sharedVars, p1Vars, p2Vars, overlapped>>

BufferTypeOK ==
  /\ state \in [Slots -> {"free", "filled", "locked"}]
  /\ content \in [Slots -> Frames \union {None}]
  /\ resultText \in Frames \union {None, Cut, Torn}
  /\ resultFor \in Slots \union {None}
  /\ resultSeq \in 0 .. Wrap - 1
  /\ p1 \in {"capture", "pixels", "filled", "check", "text", "index", "show", "release"}
  /\ p2 \in {"loading", "find", "acquire", "read", "detect", "text", "bytes", "index", "seq"}
  /\ writing \in Slots
  /\ lastSeq \in 0 .. Wrap - 1
  /\ text \in Frames \union {None, Torn}
  /\ for \in Slots
  /\ slot \in Slots
  /\ image \in Frames \union {None}
  /\ cutOnce \in BOOLEAN /\ overlapped \in BOOLEAN

\* main.py creates the segments, starts P2 and then P1.
BufferInit ==
  /\ state = [s \in Slots |-> "free"]
  /\ content = [s \in Slots |-> None]
  /\ resultText = None /\ resultFor = None /\ resultSeq = 0
  /\ p1 = "capture" /\ p2 = "loading"
  /\ writing = 0 /\ lastSeq = 0 /\ text = None /\ for = 0
  /\ slot = 0 /\ image = None /\ cutOnce = FALSE /\ overlapped = FALSE

SetState(s, value) == state' = [state EXCEPT ![s] = value]
Having(value) == {s \in Slots : state[s] = value}
First(set) == CHOOSE s \in set : \A other \in set : s <= other

\* Identifiers nothing refers to.
Unused == Frames \ {content[0], content[1], resultText, text, image}

\* P1 has seen the counter and not yet the slot; P2 has begun a result and not
\* yet counted it.
Overlap == p1 \in {"text", "index"} /\ p2 \in {"bytes", "index", "seq"}
NoteOverlap == overlapped' = (overlapped \/ Overlap')
-----------------------------------------------------------------------------
(* P1: _handle_frame, once per captured frame. *)

\* A mutant: a frame that waits is replaced by the newer one.
CaptureOver ==
  /\ p1 = "capture"
  /\ IF Having("locked") = Slots THEN p1' = "check" /\ UNCHANGED writing
                                 ELSE p1' = "pixels" /\ writing' = First(Slots \ Having("locked"))
  /\ UNCHANGED <<sharedVars, lastSeq, text, for, p2Vars>>

\* pick_free, slot 0 first; without a free slot the frame is not written.
Capture ==
  /\ p1 = "capture"
  /\ IF Having("free") = {} THEN p1' = "check" /\ UNCHANGED writing
                            ELSE p1' = "pixels" /\ writing' = First(Having("free"))
  /\ UNCHANGED <<sharedVars, lastSeq, text, for, p2Vars>>

\* write_frame: the pixels, then the state.
WritePixels ==
  /\ p1 = "pixels"
  /\ content' = [content EXCEPT ![writing] = First(Unused)]
  /\ p1' = "filled"
  /\ UNCHANGED <<state, resultText, resultFor, resultSeq, writing, lastSeq, text,
                 for, p2Vars>>

SetFilled ==
  /\ p1 = "filled"
  /\ SetState(writing, "filled")
  /\ p1' = "check" /\ writing' = 0
  /\ UNCHANGED <<content, resultText, resultFor, resultSeq, lastSeq, text, for, p2Vars>>

\* read_result, its counter: nothing new ends the handling of the frame.
ReadSeq ==
  /\ p1 = "check"
  /\ lastSeq' = resultSeq
  /\ p1' = IF resultSeq = lastSeq THEN "capture" ELSE "text"
  /\ UNCHANGED <<sharedVars, writing, text, for, p2Vars>>

\* ... its text.  One that does not parse counts as no result, though the
\* counter has been taken; bytes of two texts may parse, or not.
ReadText ==
  /\ p1 = "text"
  /\ \/ resultText # Cut /\ p1' = "index" /\ text' = resultText
     \/ resultText \in {Cut, Torn} /\ p1' = "capture" /\ UNCHANGED text
  /\ UNCHANGED <<sharedVars, writing, lastSeq, for, p2Vars>>

\* A mutant: slot 0 counts as none.
ReadIndexTruth ==
  /\ p1 = "index"
  /\ IF resultFor \in {None, 0} THEN p1' = "capture" /\ UNCHANGED for
                               ELSE p1' = "show" /\ for' = resultFor
  /\ UNCHANGED <<sharedVars, writing, lastSeq, text, p2Vars>>

\* ... and the slot it is for.
ReadIndex ==
  /\ p1 = "index"
  /\ IF resultFor = None THEN p1' = "capture" /\ UNCHANGED for
                         ELSE p1' = "show" /\ for' = resultFor
  /\ UNCHANGED <<sharedVars, writing, lastSeq, text, p2Vars>>

\* read_frame of that slot, the overlay, the preview and the alerts.
Show ==
  /\ p1 = "show"
  /\ p1' = "release"
  /\ UNCHANGED <<sharedVars, writing, lastSeq, text, for, p2Vars>>

\* A mutant: the slot is never released.
ReleaseNothing ==
  /\ p1 = "release"
  /\ p1' = "capture"
  /\ UNCHANGED <<sharedVars, writing, lastSeq, text, for, p2Vars>>

Release ==
  /\ p1 = "release"
  /\ SetState(for, "free")
  /\ p1' = "capture" /\ text' = None /\ for' = 0      \* locals
  /\ UNCHANGED <<content, resultText, resultFor, resultSeq, writing, lastSeq, p2Vars>>

P1 ==
  /\ \/ Capture \/ WritePixels \/ SetFilled \/ ReadSeq \/ ReadText \/ ReadIndex
     \/ Show \/ Release
  /\ NoteOverlap
-----------------------------------------------------------------------------
(* P2: attaching, then InferenceWorker.step over and over. *)

\* FrameBuffer.__init__ in P2: frame_counter is 0, as nothing increments it,
\* so the segments P1 may be using already are initialised again.
Attach ==
  /\ p2 = "loading"
  /\ state' = [s \in Slots |-> "free"]
  /\ resultFor' = None /\ resultSeq' = 0
  /\ p2' = "find"
  /\ UNCHANGED <<content, resultText, p1Vars, slot, image, cutOnce>>

\* find_filled, slot 0 first.
Find ==
  /\ p2 = "find"
  /\ Having("filled") # {}
  /\ slot' = First(Having("filled"))
  /\ p2' = "acquire"
  /\ UNCHANGED <<sharedVars, p1Vars, image, cutOnce>>

Acquire ==
  /\ p2 = "acquire"
  /\ SetState(slot, "locked")
  /\ p2' = "read"
  /\ UNCHANGED <<content, resultText, resultFor, resultSeq, p1Vars, slot, image, cutOnce>>

\* read_frame copies the pixels, as they are then.
ReadFrame ==
  /\ p2 = "read"
  /\ image' = content[slot]
  /\ p2' = "detect"
  /\ UNCHANGED <<sharedVars, p1Vars, slot, cutOnce>>

\* detect returns or fails; both give a result.
DetectImage ==
  /\ p2 = "detect"
  /\ p2' = "text"
  /\ UNCHANGED <<sharedVars, p1Vars, slot, image, cutOnce>>

\* write_result: the bytes of the text, over those of the last one ...
WriteBytes ==
  /\ p2 = "text"
  /\ resultText' = Torn
  /\ p2' = "bytes"
  /\ UNCHANGED <<state, content, resultFor, resultSeq, p1Vars, slot, image, cutOnce>>

\* ... up to its end, whole or cut off, then the slot, then the counter.
WriteText ==
  /\ p2 = "bytes"
  /\ resultText' \in {image, Cut}
  /\ cutOnce' = (cutOnce \/ resultText' = Cut)
  /\ p2' = "index" /\ image' = None
  /\ UNCHANGED <<state, content, resultFor, resultSeq, p1Vars, slot>>

\* A mutant: slots are counted from one in the control segment.
WriteIndexFromOne ==
  /\ p2 = "index"
  /\ resultFor' = slot + 1
  /\ p2' = "seq"
  /\ UNCHANGED <<state, content, resultText, resultSeq, p1Vars, slot, image, cutOnce>>

WriteIndex ==
  /\ p2 = "index"
  /\ resultFor' = slot
  /\ p2' = "seq"
  /\ UNCHANGED <<state, content, resultText, resultSeq, p1Vars, slot, image, cutOnce>>

WriteSeq ==
  /\ p2 = "seq"
  /\ resultSeq' = (resultSeq + 1) % Wrap
  /\ p2' = "find" /\ slot' = 0
  /\ UNCHANGED <<state, content, resultText, resultFor, p1Vars, image, cutOnce>>

P2 ==
  /\ \/ Attach \/ Find \/ Acquire \/ ReadFrame \/ DetectImage \/ WriteBytes \/ WriteText
     \/ WriteIndex \/ WriteSeq
  /\ NoteOverlap

BufferNext == P1 \/ P2

\* The camera delivers, both processes run, the model loads and answers.
BufferSpec == BufferInit /\ [][BufferNext]_bufferVars /\ WF_bufferVars(P1) /\ WF_bufferVars(P2)
-----------------------------------------------------------------------------
\* "P1 reads EXACT frame back for overlay": the pixels a result is drawn on, and
\* the alert is raised with, are those it was computed from.
ExactOverlay == p1 = "show" => content[for] = text

\* "P1 won't overwrite": while P2 holds a slot, P1 neither writes into it nor
\* takes it for a result's and releases it.
HeldByP2 == IF p2 \in {"read", "detect", "text", "bytes", "index", "seq"} THEN {slot} ELSE {}
HeldByP1 == IF p1 \in {"pixels", "filled"} THEN {writing}
            ELSE IF p1 \in {"show", "release"} THEN {for} ELSE {}
Exclusive == HeldByP1 \intersect HeldByP2 = {}

(***************************************************************************)
(* The overlay is exact and a slot has one user at a time, whatever else   *)
(* the processes do: only the reading of a result during the writing of    *)
(* one, against which the code has no lock, can break that.                *)
(***************************************************************************)
ExactUnlessOverlapped == overlapped \/ (ExactOverlay /\ Exclusive)

(***************************************************************************)
(* The processes never wait on each other: when P2 finds both slots locked *)
(* there is a result P1 has not read, or is about to release, whatever it  *)
(* missed before; unless some result was cut off.                          *)
(***************************************************************************)
SomeoneReleases ==
  p2 = "find" /\ Having("locked") = Slots /\ ~cutOnce
    => resultSeq # lastSeq \/ p1 \in {"text", "index", "show", "release"}

(***************************************************************************)
(* Detection goes on for ever, as long as every result fits: a result P1   *)
(* misses costs one slot, and only one.                                    *)
(***************************************************************************)
KeepsShowing == []<>(p1 = "show") \/ <>cutOnce
=============================================================================

------------------------------- MODULE Desktop -------------------------------
(***************************************************************************)
(* The desktop application (gpu/): the threads of the two cameras, the     *)
(* main thread that handles their queued signals, and the web thread with  *)
(* its event loop, which saves ROIs and sends previews to browsers.        *)
(*                                                                         *)
(* Positions are horizontal only.  An image is what distinguishes it: raw, *)
(* with overlay, "disconnected" or "offline".  Merged into one step:       *)
(* check_person of all persons of a frame; the emission of a frame and its *)
(* alerts.  Kept apart: the reads of the ROI list by get_bounds and        *)
(* check_person; save_roi and the reload; full, get_nowait, put_nowait and *)
(* set of push_preview; the end of the wait, clear and each send of a      *)
(* browser's coroutine.                                                    *)
(***************************************************************************)
EXTENDS Integers, Sequences, SequencesExt

CONSTANTS
  Width,               \* of a frame
  Margin, MinCrop,     \* around the ROI; of the crop (16 and 32)
  Views,               \* sets of [at, lacks]: the persons a frame may show
  Areas, DefaultArea,  \* ROIs a user may save, as sets of positions
  FrameSkip, ClassifyEvery,    \* _frame_skip and _classify_every_n
  QueueSize, ListSize,         \* of preview_queue and of the alert list
  Clients,                     \* browsers
  MaxFrames, MaxPuts           \* bounds, of each camera

Cameras == {"cam1", "cam2"}
Positions == 0 .. Width - 1
Person == [at : Positions, lacks : BOOLEAN]

ASSUME DesktopAssumption ==
  /\ {Width, FrameSkip, ClassifyEvery, QueueSize, ListSize} \subseteq Nat \ {0}
  /\ {Margin, MinCrop} \subseteq Nat /\ {MaxFrames, MaxPuts} \subseteq [Cameras -> Nat]
  /\ Views \subseteq SUBSET Person
  /\ Areas \cup {DefaultArea} \subseteq SUBSET Positions

VARIABLES
  \* The camera threads.
  frames,          \* bound: frames received
  at,              \* where the thread is: "recv", "check" or "draw"
  count,           \* _frame_count, modulo FrameSkip
  disconnected,    \* _disconnected
  view,            \* the persons detected in the frame at hand
  alerts,          \* number of alerts the frame at hand will emit
  baseline, modelOk, checks,   \* cam2: a previous frame is there, model_ok,
                               \* _frame_counter modulo ClassifyEvery
  \* Shared.
  table,           \* roi_config: the default zone of each camera, [version, area]
  zones,           \* ROIChecker._rois
  saving,          \* cameras whose ROI is saved and not yet reloaded
  signals,         \* events queued for the main thread
  preview, event,  \* length of preview_queue, and _preview_event
  \* The main thread.
  main,            \* "idle", "full", "put" or "set"
  widget,          \* image each camera's widget shows
  entries,         \* length of the alert list
  \* The web thread.
  client,          \* where the coroutine of each browser is; it is connected
                   \* unless absent or ended
  \* History.
  since, used,     \* ROI version acknowledged before the frame at hand was
                   \* received, and the one its persons were checked against
  waited,          \* moving frames of cam2 in a row without a classification
  undrained        \* a browser failed with previews queued, and none came since

frameVars == <<at, count, disconnected, view, alerts, baseline, modelOk, checks,
               since, used, waited>>
roiVars == <<table, zones, saving>>
previewVars == <<preview, event, undrained>>
mainVars == <<main, widget, entries>>
vars == <<frames, frameVars, roiVars, signals, previewVars, mainVars, client>>

Roi == [version : Nat, area : Areas \cup {DefaultArea}]
Images == {"raw", "overlay", "disconnected", "offline"}

TypeOK ==
  /\ at \in [Cameras -> {"recv", "check", "draw"}]
  /\ count \in [Cameras -> 0 .. FrameSkip - 1] /\ checks \in 0 .. ClassifyEvery - 1
  /\ view \in [Cameras -> SUBSET Person] /\ alerts \in [Cameras -> Nat]
  /\ disconnected \in [Cameras -> BOOLEAN]
  /\ {baseline, modelOk, event, undrained} \subseteq BOOLEAN
  /\ {frames, since, used} \subseteq [Cameras -> Nat] /\ waited \in Nat
  /\ saving \subseteq Cameras /\ {table, zones} \subseteq [Cameras -> Roi]
  /\ \A c \in Cameras \ saving : zones[c] = table[c]
  /\ signals \in Seq([camera : Cameras, shows : Images \cup {"alert"}])
  /\ preview \in 0 .. (IF main = "put" THEN QueueSize - 1 ELSE QueueSize)
  /\ main \in {"idle", "full", "put", "set"} /\ entries \in 0 .. ListSize
  /\ widget \in [Cameras -> Images \cup {"none"}]
  /\ client \in [Clients -> {"absent", "waiting", "woken", "draining", "sending", "ended"}]

\* CVApp.__init__: tables dropped and created, default zones saved and loaded.
Init ==
  /\ frames = [c \in Cameras |-> 0]
  /\ at = [c \in Cameras |-> "recv"]
  /\ count = [c \in Cameras |-> 0]
  /\ disconnected = [c \in Cameras |-> FALSE]
  /\ view = [c \in Cameras |-> {}]
  /\ alerts = [c \in Cameras |-> 0]
  /\ baseline = FALSE /\ modelOk = TRUE /\ checks = 0
  /\ table = [c \in Cameras |-> [version |-> 0, area |-> DefaultArea]]
  /\ zones = table
  /\ saving = {}
  /\ signals = <<>>
  /\ preview = 0 /\ event = FALSE
  /\ main = "idle"
  /\ widget = [c \in Cameras |-> "none"]
  /\ entries = 0
  /\ client = [b \in Clients |-> "absent"]
  /\ since = [c \in Cameras |-> 0] /\ used = since
  /\ waited = 0 /\ undrained = FALSE

-----------------------------------------------------------------------------
(* The thread of camera c.                                                  *)

Signal(c, what) == [camera |-> c, shows |-> what]
Emit(c, what) == signals' = Append(signals, Signal(c, what))

Timeout(c) ==
  /\ at[c] = "recv" /\ ~disconnected[c]
  /\ disconnected' = [disconnected EXCEPT ![c] = TRUE]
  /\ Emit(c, "disconnected")
  /\ UNCHANGED <<frames, at, count, view, alerts, baseline, modelOk, checks, since,
                 used, waited, roiVars, previewVars, mainVars, client>>

\* A mutant: a frame does not end the outage.
ReceiveStillOut(c) ==
  /\ at[c] = "recv" /\ frames[c] < MaxFrames[c]
  /\ frames' = [frames EXCEPT ![c] = @ + 1]
  /\ UNCHANGED disconnected

Receive(c) ==
  /\ at[c] = "recv" /\ frames[c] < MaxFrames[c]
  /\ frames' = [frames EXCEPT ![c] = @ + 1]
  /\ disconnected' = [disconnected EXCEPT ![c] = FALSE]

Undecodable(c) ==
  /\ Receive(c)
  /\ UNCHANGED <<at, count, view, alerts, baseline, modelOk, checks, since, used,
                 waited, roiVars, signals, previewVars, mainVars, client>>

\* The frame counts, and is processed if the count is a multiple of FrameSkip.
Processed(c) == (count[c] + 1) % FrameSkip = 0
Count(c) == count' = [count EXCEPT ![c] = (@ + 1) % FrameSkip]

\* Moving frames are counted until the next classification.
Wait(c) == waited' = IF c = "cam2" THEN waited + 1 ELSE waited

Skip(c) ==
  /\ Receive(c) /\ Count(c) /\ ~Processed(c)
  /\ Emit(c, "raw")
  /\ Wait(c)
  /\ UNCHANGED <<at, view, alerts, baseline, modelOk, checks, since, used, roiVars,
                 previewVars, mainVars, client>>

\* _has_motion: the first frame always moves.
NoMotion(c) ==
  /\ Receive(c) /\ Count(c) /\ Processed(c)
  /\ c = "cam2" /\ baseline
  /\ Emit(c, "raw")
  /\ waited' = 0
  /\ UNCHANGED <<at, view, alerts, baseline, modelOk, checks, since, used, roiVars,
                 previewVars, mainVars, client>>

\* get_bounds and the crop of detect_roi: what the detector is shown.  Without a
\* point in the ROI it is the whole frame.
Crop(area) ==
  LET left == Max({0, Min(area) - Margin})
      right == Min({Width, Max(area) + Margin})
  IN CASE area = {} -> Positions
       [] area # {} /\ right - left < MinCrop -> {}
       [] OTHER -> left .. right - 1

Detect(c, seen) ==
  /\ Receive(c) /\ Count(c) /\ Processed(c)
  /\ at' = [at EXCEPT ![c] = "check"]
  /\ view' = [view EXCEPT ![c] = {p \in seen : p.at \in Crop(zones[c].area)}]
  /\ since' = [since EXCEPT ![c] = IF c \in saving THEN zones[c].version
                                                   ELSE table[c].version]
  /\ used' = [used EXCEPT ![c] = zones[c].version]
  /\ Wait(c)
  /\ IF c = "cam2" THEN baseline' = TRUE /\ modelOk' = TRUE
                   ELSE UNCHANGED <<baseline, modelOk>>
  /\ UNCHANGED <<alerts, checks, roiVars, signals, previewVars, mainVars, client>>

\* Cam2Thread only.
DetectFails(c) ==
  /\ Receive(c) /\ Count(c) /\ Processed(c)
  /\ c = "cam2"
  /\ baseline' = TRUE /\ modelOk' = FALSE
  /\ IF modelOk THEN Emit(c, "offline") ELSE UNCHANGED signals
  /\ waited' = 0
  /\ UNCHANGED <<at, view, alerts, checks, since, used, roiVars, previewVars,
                 mainVars, client>>

InZone(c) == Cardinality({p \in view[c] : p.at \in zones[c].area})
Lacking(c) == Cardinality({p \in view[c] : p.lacks})

\* A mutant: the counter advances on classified frames only.
PpeCheckStuck(c) ==
  IF c = "cam2"
  THEN LET classify == (checks + 1) % ClassifyEvery = 0
       IN /\ checks' = IF classify THEN 0 ELSE checks
          /\ alerts' = [alerts EXCEPT ![c] = InZone(c) + IF classify THEN Lacking(c) ELSE 0]
          /\ waited' = IF classify THEN 0 ELSE waited
  ELSE /\ alerts' = [alerts EXCEPT ![c] = InZone(c)]
       /\ UNCHANGED <<checks, waited>>

\* Zone alerts, and for cam2 those of PPEChecker.process_persons.
PpeCheck(c) ==
  IF c = "cam2"
  THEN LET classify == (checks + 1) % ClassifyEvery = 0
       IN /\ checks' = (checks + 1) % ClassifyEvery
          /\ alerts' = [alerts EXCEPT ![c] = InZone(c) + IF classify THEN Lacking(c) ELSE 0]
          /\ waited' = IF classify THEN 0 ELSE waited
  ELSE /\ alerts' = [alerts EXCEPT ![c] = InZone(c)]
       /\ UNCHANGED <<checks, waited>>

Check(c) ==
  /\ at[c] = "check"
  /\ at' = [at EXCEPT ![c] = "draw"]
  /\ used' = [used EXCEPT ![c] = zones[c].version]
  /\ PpeCheck(c)
  /\ UNCHANGED <<frames, count, disconnected, view, baseline, modelOk, since, roiVars,
                 signals, previewVars, mainVars, client>>

Draw(c) ==
  /\ at[c] = "draw"
  /\ at' = [at EXCEPT ![c] = "recv"]
  /\ signals' = Append(signals, Signal(c, "overlay"))
                  \o [i \in 1 .. alerts[c] |-> Signal(c, "alert")]
  /\ view' = [view EXCEPT ![c] = {}]
  /\ alerts' = [alerts EXCEPT ![c] = 0]
  /\ since' = [since EXCEPT ![c] = 0] /\ used' = [used EXCEPT ![c] = 0]
  /\ UNCHANGED <<frames, count, disconnected, baseline, modelOk, checks, waited, roiVars, previewVars, mainVars, client>>

Camera(c) ==
  \/ Undecodable(c) \/ Skip(c) \/ NoMotion(c) \/ DetectFails(c)
  \/ \E seen \in Views : Detect(c, seen)

-----------------------------------------------------------------------------
(* The main thread: _on_frame_ready with push_preview, and _on_alert, whose *)
(* broadcast finds no event loop in this thread.                            *)

ShowFrame ==
  /\ main = "idle" /\ signals # <<>> /\ Head(signals).shows # "alert"
  /\ signals' = Tail(signals)
  /\ widget' = [widget EXCEPT ![Head(signals).camera] = Head(signals).shows]
  /\ main' = IF preview = QueueSize THEN "full" ELSE "put"
  /\ UNCHANGED <<frames, frameVars, roiVars, previewVars, entries, client>>

\* get_nowait, which finds nothing if the browsers were faster.
DropOldest ==
  /\ main = "full"
  /\ preview' = Max({0, preview - 1})
  /\ main' = "put"
  /\ UNCHANGED <<frames, frameVars, roiVars, signals, event, undrained, widget,
                 entries, client>>

\* A mutant: the event is set before the preview is queued.
PushSignalsFirst ==
  \/ /\ main = "put" /\ event' = TRUE /\ undrained' = FALSE /\ main' = "set"
     /\ UNCHANGED preview
  \/ /\ main = "set" /\ preview' = preview + 1 /\ main' = "idle"
     /\ UNCHANGED <<event, undrained>>

\* Nothing is put, and no event set, if the image cannot be encoded.
Push ==
  \/ /\ main = "put" /\ preview' = preview + 1 /\ main' = "set"
     /\ UNCHANGED <<event, undrained>>
  \/ /\ main = "put" /\ main' = "idle"
     /\ UNCHANGED <<preview, event, undrained>>
  \/ /\ main = "set" /\ event' = TRUE /\ undrained' = FALSE /\ main' = "idle"
     /\ UNCHANGED preview

ListAlert ==
  /\ main = "idle" /\ signals # <<>> /\ Head(signals).shows = "alert"
  /\ signals' = Tail(signals)
  /\ entries' = Min({entries + 1, ListSize})
  /\ UNCHANGED <<frames, frameVars, roiVars, previewVars, main, widget, client>>

MainThread ==
  \/ ShowFrame \/ DropOldest \/ ListAlert
  \/ Push /\ UNCHANGED <<frames, frameVars, roiVars, signals, widget, entries, client>>

-----------------------------------------------------------------------------
(* The web thread: save_roi_api and dashboard_ws of each browser.           *)

SaveRoi(c, area) ==
  /\ saving = {} /\ table[c].version < MaxPuts[c]
  /\ table' = [table EXCEPT ![c] = [version |-> @.version + 1, area |-> area]]
  /\ saving' = {c}
  /\ UNCHANGED <<frames, frameVars, zones, signals, previewVars, mainVars, client>>

\* A mutant: the other camera's list is replaced.
ReloadOther ==
  /\ saving # {}
  /\ zones' = [c \in Cameras |-> IF c \in saving THEN zones[c] ELSE table[c]]
  /\ saving' = {}
  /\ UNCHANGED <<frames, frameVars, table, signals, previewVars, mainVars, client>>

\* _on_roi_saved_web: get_rois, update_rois and reload; then the reply.
Reload ==
  /\ saving # {}
  /\ zones' = [c \in Cameras |-> IF c \in saving THEN table[c] ELSE zones[c]]
  /\ saving' = {}
  /\ UNCHANGED <<frames, frameVars, table, signals, previewVars, mainVars, client>>

Become(b, state) == client' = [client EXCEPT ![b] = state]

Connect(b) ==
  /\ client[b] = "absent" /\ Become(b, "waiting")
  /\ UNCHANGED previewVars

\* The wait ends in an executor thread; the coroutine goes on later.
Wake(b) ==
  /\ client[b] = "waiting" /\ event /\ Become(b, "woken")
  /\ UNCHANGED previewVars

Clear(b) ==
  /\ client[b] = "woken" /\ Become(b, "draining")
  /\ event' = FALSE
  /\ UNCHANGED <<preview, undrained>>

\* After clear or a send: the next preview is taken, or the wait begins again.
Take(b) ==
  /\ client[b] \in {"draining", "sending"}
  /\ IF preview = 0 THEN Become(b, "waiting") /\ UNCHANGED preview
                       ELSE Become(b, "sending") /\ preview' = preview - 1
  /\ UNCHANGED <<event, undrained>>

\* Any exception of the send ends the coroutine; only WebSocketDisconnect also
\* removes the connection from a list that nothing reads.
SendFails(b) ==
  /\ client[b] = "sending" /\ Become(b, "ended")
  /\ undrained' = (undrained \/ preview > 0)
  /\ UNCHANGED <<preview, event>>

Browser(b) ==
  /\ Connect(b) \/ Wake(b) \/ Clear(b) \/ Take(b) \/ SendFails(b)
  /\ UNCHANGED <<frames, frameVars, roiVars, signals, mainVars>>

Next ==
  \/ \E c \in Cameras :
       \/ Timeout(c) \/ Camera(c) \/ Check(c) \/ Draw(c)
       \/ \E area \in Areas : SaveRoi(c, area)
  \/ MainThread
  \/ Reload
  \/ \E b \in Clients : Browser(b)

Spec == Init /\ [][Next]_vars
-----------------------------------------------------------------------------
(***************************************************************************)
(* No wake-up is lost between push_preview in the main thread and the      *)
(* browsers' coroutines, which share one queue and one event: when         *)
(* previews are queued and the event is clear, the event is about to be    *)
(* set, some browser is awake, or one failed while draining.               *)
(***************************************************************************)
PreviewWakes ==
  preview > 0 /\ ~event =>
    \/ main = "set" \/ undrained
    \/ \E b \in Clients : client[b] \in {"woken", "draining", "sending"}

(***************************************************************************)
(* A saved ROI takes effect: the persons of a frame that was received      *)
(* after the PUT was answered are never checked against an older ROI.      *)
(***************************************************************************)
SaveTakesEffect == \A c \in Cameras : at[c] = "draw" => used[c] >= since[c]

(***************************************************************************)
(* The skip of frames and the skip of classifications compose: among       *)
(* FrameSkip * ClassifyEvery decodable moving frames in a row that the     *)
(* detector accepts, one is classified.                                    *)
(***************************************************************************)
ClassifiedInTime == at["cam2"] = "recv" => waited < FrameSkip * ClassifyEvery

\* Signal i in the queue is an image of camera c.
ImageOf(c, i) == signals[i].camera = c /\ signals[i].shows # "alert"

(***************************************************************************)
(* An outage is shown, however often it recurs: while a thread is in its   *)
(* outage, the last image it has sent, shown by the widget or still queued *)
(* for the main thread behind alerts and other images, says disconnected.  *)
(***************************************************************************)
OutageShown ==
  \A c \in Cameras : disconnected[c] =>
    LET queued == {i \in 1 .. Len(signals) : ImageOf(c, i)}
    IN \/ queued = {} /\ widget[c] = "disconnected"
       \/ \E last \in queued : /\ signals[last].shows = "disconnected"
                               /\ \A i \in queued : i <= last
=============================================================================

---------------------------- MODULE AlertPipeline ----------------------------
(***************************************************************************)
(* The alert path of the legacy process P1 and the dashboard it shares     *)
(* state with: AlertPipeline.process (alert/__init__.py) with classifier,  *)
(* ROI cache, cooldown, dispatcher and database, called by the capture     *)
(* thread of each camera (edge/capture_loop.py); and the ROI updates of    *)
(* dashboard/server.py, made by the event loop thread.  What the threads   *)
(* hand to the loop is sent on in module Dashboard.                        *)
(*                                                                         *)
(* Merged into one step: the second cache lookup, the polygon test and the *)
(* cooldown, since a camera's cooldown is touched by its own thread only;  *)
(* writing the thumbnail and inserting the row.  Kept apart: the           *)
(* membership test of the cache, the database read, the store and the      *)
(* second lookup; saving an ROI and invalidating it; every announcement.   *)
(***************************************************************************)
EXTENDS Integers, Sequences, FiniteSets, SequencesExt

CONSTANTS
  Cameras, Places,
  Scenes,        \* set of Scene: what a detection result may show
  Areas,         \* the polygons a user may save, as subsets of Places
  Cooldown,      \* cooldown_seconds, in ticks
  MaxClock, MaxResults, MaxPuts, MaxSets    \* bounds

\* A scene is what the detector found: persons, each with its place and
\* confidence, and items with the persons they overlap.
Scene == [persons : Seq([place : Places, sure : BOOLEAN]),
          items : SUBSET [cls : {"helmet", "vest", "boot"}, sure : BOOLEAN,
                          on : SUBSET Nat, low : BOOLEAN],
          poses : Seq(BOOLEAN)]

ASSUME AlertAssumption ==
  /\ Scenes \subseteq Scene
  /\ Areas \subseteq SUBSET Places
  /\ Cooldown \in Nat \ {0}
  /\ MaxClock \in Nat /\ MaxSets \in Nat
  /\ MaxResults \in [Cameras -> Nat] /\ MaxPuts \in [Cameras -> Nat]

VARIABLES
  clock,         \* datetime.now(), in ticks: the clock on the wall
  sets,          \* bound: times that clock was set
  results,       \* bound: detection results each camera has handled
  pc,            \* where the capture thread of each camera is
  todo,          \* violations of the current result still to be looked at
  loaded,        \* what _load_polygon returned
  dispatched,    \* ids dispatched for the current result, not yet announced
  roi,           \* table roi_configs: [version, area]
  cache,         \* ROIMatcher._cache: a row of roi, or none (Missing)
  saved,         \* cameras whose ROI is saved and not yet invalidated
  lastAlert,     \* CooldownManager._last_alert, Never if there is none
  rows,          \* table violations; the id is the index, "at" (history) the
                 \* time should_alert() let it pass
  posted,        \* ids handed to the event loop, oldest first
  lost,          \* history: ids stored but never announced
  settled        \* history: newest ROI version of each camera whose update ended
                 \* while no load of that camera was under way

threadVars == <<results, pc, todo, loaded, dispatched, lastAlert, rows>>
vars == <<clock, sets, threadVars, roi, cache, saved, posted, lost, settled>>

Never == -1
Missing == [version |-> -1, area |-> {}]
\* No polygon, or one of fewer than three points: everything is inside.
Everywhere == Places
Types == {"NO_HELMET", "NO_VEST", "NO_BOOT", "FALL"}
Violation == [type : Types, place : Places]

Held(c) == ToSet(dispatched[c])

TypeOK ==
  /\ clock \in 0 .. MaxClock /\ sets \in 0 .. MaxSets
  /\ pc \in [Cameras -> {"idle", "test", "store", "look", "insert", "announce"}]
  /\ todo \in [Cameras -> Seq(Violation)]
  /\ \A c \in Cameras :
       /\ {roi[c].area, loaded[c].area, cache[c].area} \subseteq Areas \cup {Everywhere, {}}
       /\ cache[c] # Missing => cache[c].version \in 0 .. roi[c].version
       /\ pc[c] \in {"test", "store", "look", "insert"} => todo[c] # <<>>
  /\ Cardinality(saved) <= 1
  /\ lastAlert \in [Cameras -> [Types -> Never .. MaxClock]]
  /\ rows \in Seq([camera : Cameras, type : Types, at : Never .. MaxClock])

Init ==
  /\ clock = 0 /\ sets = 0
  /\ results = [c \in Cameras |-> 0]
  /\ pc = [c \in Cameras |-> "idle"]
  /\ todo = [c \in Cameras |-> <<>>]
  /\ loaded = [c \in Cameras |-> Missing]
  /\ dispatched = [c \in Cameras |-> <<>>]
  /\ roi = [c \in Cameras |-> [version |-> 0, area |-> Everywhere]]
  /\ cache = [c \in Cameras |-> Missing]
  /\ saved = {}
  /\ lastAlert = [c \in Cameras |-> [t \in Types |-> Never]]
  /\ rows = <<>>
  /\ posted = <<>>
  /\ lost = {}
  /\ settled = [c \in Cameras |-> 0]

-----------------------------------------------------------------------------
(* ViolationClassifier.                                                     *)

\* _parse_result_json takes objects only: results carry no keypoints here.
Parse(scene) == [scene EXCEPT !.poses = <<>>]

\* _iou(person.bbox, item.bbox) > IOU_THRESHOLD.
On(item, i) == i \in item.on

Wears(scene, i, cls) ==
  \E item \in scene.items :
    item.cls = cls /\ item.sure /\ On(item, i) /\ (cls = "boot" => item.low)

\* The fall score exceeds 0.6, if there are keypoints: those of a person are
\* looked up by its place among the persons that are sure.
Fallen(scene, i) ==
  LET rank == Cardinality({j \in 1 .. i : scene.persons[j].sure})
  IN rank \in DOMAIN scene.poses /\ scene.poses[rank]

Shows(scene, i, type) ==
  CASE type = "NO_HELMET" -> ~Wears(scene, i, "helmet")
    [] type = "NO_VEST" -> ~Wears(scene, i, "vest")
    [] type = "NO_BOOT" -> ~Wears(scene, i, "boot")
    [] type = "FALL" -> Fallen(scene, i)

OfPerson(scene, i) ==
  LET One(type) == IF Shows(scene, i, type)
                   THEN <<[type |-> type, place |-> scene.persons[i].place]>> ELSE <<>>
  IN One("NO_HELMET") \o One("NO_VEST") \o One("NO_BOOT") \o One("FALL")

Classify(scene) ==
  LET found[i \in 0 .. Len(scene.persons)] ==
        IF i = 0 THEN <<>>
        ELSE IF scene.persons[i].sure THEN found[i - 1] \o OfPerson(scene, i)
        ELSE found[i - 1]
  IN found[Len(scene.persons)]

-----------------------------------------------------------------------------
(* The capture thread of camera c, within AlertPipeline.process.            *)

Goto(c, location) == pc' = [pc EXCEPT ![c] = location]

\* The next violation of the list, or the announcements when it is empty.
AfterViolation(c) ==
  /\ todo' = [todo EXCEPT ![c] = Tail(@)]
  /\ Goto(c, IF Len(todo[c]) > 1 THEN "test" ELSE "announce")

\* A mutant: the list of dispatched violations outlives the exception.
RaiseKeepsList(c) ==
  /\ todo' = [todo EXCEPT ![c] = <<>>]
  /\ lost' = lost \cup Held(c)
  /\ Goto(c, "idle")
  /\ UNCHANGED dispatched

\* An exception leaves process(): the rest of the list is not looked at and
\* the list of dispatched violations is not returned.
Raise(c) ==
  /\ todo' = [todo EXCEPT ![c] = <<>>]
  /\ dispatched' = [dispatched EXCEPT ![c] = <<>>]
  /\ lost' = lost \cup Held(c)
  /\ Goto(c, "idle")

Detect(c) ==
  /\ pc[c] = "idle" /\ results[c] < MaxResults[c]
  /\ \E scene \in Scenes :
       /\ Classify(Parse(scene)) # <<>>
       /\ todo' = [todo EXCEPT ![c] = Classify(Parse(scene))]
  /\ results' = [results EXCEPT ![c] = @ + 1]
  /\ Goto(c, "test")
  /\ UNCHANGED <<clock, sets, loaded, dispatched, lastAlert, rows, roi, cache, saved,
                 posted, lost, settled>>

\* if camera_id not in self._cache
FindPolygon(c) ==
  /\ pc[c] = "test" /\ cache[c] # Missing
  /\ Goto(c, "look")
  /\ UNCHANGED <<clock, sets, results, todo, loaded, dispatched, lastAlert, rows, roi,
                 cache, saved, posted, lost, settled>>

LoadPolygon(c) ==
  /\ pc[c] = "test" /\ cache[c] = Missing
  /\ loaded' = [loaded EXCEPT ![c] = roi[c]]
  /\ Goto(c, "store")
  /\ UNCHANGED <<clock, sets, results, todo, dispatched, lastAlert, rows, roi, cache,
                 saved, posted, lost, settled>>

\* The database or the stored polygon cannot be read.
LoadFails(c) ==
  /\ pc[c] = "test" /\ cache[c] = Missing
  /\ Raise(c)
  /\ UNCHANGED <<clock, sets, results, loaded, lastAlert, rows, roi, cache, saved,
                 posted, settled>>

StorePolygon(c) ==
  /\ pc[c] = "store"
  /\ cache' = [cache EXCEPT ![c] = loaded[c]]
  /\ loaded' = [loaded EXCEPT ![c] = Missing]      \* a local
  /\ Goto(c, "look")
  /\ UNCHANGED <<clock, sets, results, todo, dispatched, lastAlert, rows, roi,
                 saved, posted, lost, settled>>

\* return self._cache[camera_id], after an invalidation: KeyError.
LookFails(c) ==
  /\ pc[c] = "look" /\ cache[c] = Missing
  /\ Raise(c)
  /\ UNCHANGED <<clock, sets, results, loaded, lastAlert, rows, roi, cache, saved,
                 posted, settled>>

InRoi(c) == Head(todo[c]).place \in cache[c].area

\* A mutant: the cooldown ends a tick early.
ShouldAlertEarly(c) ==
  LET last == lastAlert[c][Head(todo[c]).type]
  IN last = Never \/ clock - last >= Cooldown - 1

ShouldAlert(c) ==
  LET last == lastAlert[c][Head(todo[c]).type]
  IN last = Never \/ clock - last >= Cooldown

LookSkips(c) ==
  /\ pc[c] = "look" /\ cache[c] # Missing
  /\ ~(InRoi(c) /\ ShouldAlert(c))
  /\ AfterViolation(c)
  /\ UNCHANGED <<clock, sets, results, loaded, dispatched, lastAlert, rows, roi, cache,
                 saved, posted, lost, settled>>

LookAlerts(c) ==
  /\ pc[c] = "look" /\ cache[c] # Missing
  /\ InRoi(c) /\ ShouldAlert(c)
  /\ lastAlert' = [lastAlert EXCEPT ![c][Head(todo[c]).type] = clock]
  /\ Goto(c, "insert")
  /\ UNCHANGED <<clock, sets, results, todo, loaded, dispatched, rows, roi, cache, saved,
                 posted, lost, settled>>

\* Dispatcher.dispatch.  Its own broadcast finds no running event loop in
\* this thread and sends nothing.
Dispatch(c) ==
  /\ pc[c] = "insert"
  /\ LET type == Head(todo[c]).type
     IN rows' = Append(rows, [camera |-> c, type |-> type, at |-> lastAlert[c][type]])
  /\ dispatched' = [dispatched EXCEPT ![c] = Append(@, Len(rows) + 1)]
  /\ AfterViolation(c)
  /\ UNCHANGED <<clock, sets, results, loaded, lastAlert, roi, cache, saved, posted,
                 lost, settled>>

\* The disk or the database refuses (a full disk, "database is locked").
DispatchFails(c) ==
  /\ pc[c] = "insert"
  /\ Raise(c)
  /\ UNCHANGED <<clock, sets, results, loaded, lastAlert, rows, roi, cache, saved,
                 posted, settled>>

\* _handle_frame: for v in violations: self._send_ws(...)
Announce(c) ==
  /\ pc[c] = "announce"
  /\ IF dispatched[c] = <<>>
     THEN Goto(c, "idle") /\ UNCHANGED <<posted, dispatched>>
     ELSE /\ posted' = Append(posted, Head(dispatched[c]))
          /\ dispatched' = [dispatched EXCEPT ![c] = Tail(@)]
          /\ UNCHANGED pc
  /\ UNCHANGED <<clock, sets, results, todo, loaded, lastAlert, rows, roi, cache, saved,
                 lost, settled>>

Thread(c) ==
  \/ FindPolygon(c) \/ LoadPolygon(c) \/ LoadFails(c) \/ StorePolygon(c)
  \/ LookFails(c) \/ LookSkips(c) \/ LookAlerts(c)
  \/ Dispatch(c) \/ DispatchFails(c) \/ Announce(c)

-----------------------------------------------------------------------------
(* The event loop of the dashboard.  api_put_roi has no await: while an ROI *)
(* is saved and not yet invalidated, nothing else runs on the loop.         *)

SaveRoi(c, area) ==
  /\ saved = {} /\ roi[c].version < MaxPuts[c]
  /\ roi' = [roi EXCEPT ![c] = [version |-> @.version + 1, area |-> area]]
  /\ saved' = {c}
  /\ UNCHANGED <<clock, sets, threadVars, cache, posted, lost, settled>>

\* A mutant: only a camera whose thread is between two results is invalidated.
InvalidateIdle(c) ==
  /\ c \in saved
  /\ cache' = [cache EXCEPT ![c] = IF pc[c] = "idle" THEN Missing ELSE @]
  /\ settled' = IF pc[c] = "store" THEN settled
                ELSE [settled EXCEPT ![c] = roi[c].version]
  /\ saved' = saved \ {c}
  /\ UNCHANGED <<clock, sets, threadVars, roi, posted, lost>>

Invalidate(c) ==
  /\ c \in saved
  /\ cache' = [cache EXCEPT ![c] = Missing]
  /\ settled' = IF pc[c] = "store" THEN settled
                ELSE [settled EXCEPT ![c] = roi[c].version]
  /\ saved' = saved \ {c}
  /\ UNCHANGED <<clock, sets, threadVars, roi, posted, lost>>

Tick ==
  /\ clock < MaxClock
  /\ clock' = clock + 1
  /\ UNCHANGED <<sets, threadVars, roi, cache, saved, posted, lost, settled>>

\* datetime.now() is the local time of the host, which is set now and then.
SetClock ==
  /\ sets < MaxSets
  /\ clock' \in 0 .. MaxClock \ {clock}
  /\ sets' = sets + 1
  /\ UNCHANGED <<threadVars, roi, cache, saved, posted, lost, settled>>

Next ==
  \/ \E c \in Cameras :
       \/ Detect(c) \/ Thread(c) \/ Invalidate(c)
       \/ \E area \in Areas \cup {Everywhere} : SaveRoi(c, area)
  \/ Tick \/ SetClock

Spec == Init /\ [][Next]_vars

-----------------------------------------------------------------------------
(* Properties *)

\* A violation type of a camera fires at most once per cooldown period: any
\* two rows of it were let through at times a cooldown apart, whatever the
\* results show, whichever dispatches fail and however the clock is set
\* (CooldownManager).  A clock that is set may be off the real time by then.
AlertRate ==
  \A i, j \in 1 .. Len(rows) :
    i < j /\ rows[i].camera = rows[j].camera /\ rows[i].type = rows[j].type
      => rows[j].at - rows[i].at >= Cooldown

\* Once an ROI update has ended, and no load of the camera was under way at
\* that moment, no older polygon is in the cache, nor can one get there
\* (ROIMatcher with api_put_roi).
SettledRoiHolds ==
  \A c \in Cameras :
    /\ cache[c] # Missing => cache[c].version >= settled[c]
    /\ pc[c] = "store" => loaded[c].version >= settled[c]

\* Every stored violation is announced once, or is about to be, or was given
\* up by an exception later in its own result (process and _handle_frame).
EachAnnouncedOnce ==
  /\ IsInjective(posted)
  /\ \A c \in Cameras : IsInjective(dispatched[c])
  /\ LET held == UNION {Held(c) : c \in Cameras}
     IN /\ held \cap ToSet(posted) = {} /\ lost \cap (held \cup ToSet(posted)) = {}
        /\ held \cup lost \cup ToSet(posted) = 1 .. Len(rows)
=============================================================================

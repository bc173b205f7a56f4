----------------------------- MODULE ByteTracker -----------------------------
(***************************************************************************)
(* ByteTracker (edge_runtime/tracking/byte_tracker.py), one per camera.    *)
(* update() predicts every track, associates the confident detections with *)
(* all tracks and the weak ones with the tracks that were seen in the last *)
(* frame and have not been seen in this one, ages the others, and starts a *)
(* track for every confident detection left over.                          *)
(*                                                                         *)
(* Boxes, Kalman filters and IoU are abstracted to their outcome: an       *)
(* association is any one-to-one choice of detections for some tracks, the *)
(* rest having failed the IoU threshold or found no partner.  The frame    *)
(* counter is abstracted to the updates since a track was last matched.    *)
(***************************************************************************)
EXTENDS Integers, FiniteSets, Functions

CONSTANTS
  Detections,    \* the detections of one frame
  TrackBuffer,   \* track_buffer, in updates
  MaxTracks      \* bound: identities given out

ASSUME TrackerAssumption ==
  /\ IsFiniteSet(Detections)
  /\ TrackBuffer \in Nat
  /\ MaxTracks \in Nat

VARIABLES
  tracks,        \* id |-> track: _tracks
  nextId,        \* _next_track_id
  scores,        \* history: the argument of the last update
  returned       \* history: what it returned, id |-> detection

trackerVars == <<tracks, nextId, scores, returned>>

\* A score is at least track_threshold, at least low_threshold, or ignored.
Scores == {"high", "low", "ignored"}
Track == [state : {"tracked", "lost"}, missed : 0 .. TrackBuffer, of : Detections]

TrackerTypeOK ==
  /\ nextId \in Nat \ {0}
  /\ DOMAIN tracks \subseteq 1 .. nextId - 1
  /\ tracks \in [DOMAIN tracks -> Track]
  /\ scores \in [Detections -> Scores]
  /\ DOMAIN returned \subseteq DOMAIN tracks
  /\ returned \in [DOMAIN returned -> Detections]

Nothing == [i \in {} |-> 0]

TrackerInit ==
  /\ tracks = Nothing
  /\ nextId = 1
  /\ scores = [d \in Detections |-> "ignored"]
  /\ returned = Nothing
-----------------------------------------------------------------------------
\* The outcomes of _associate: the matched tracks, each with its detection.
Associations(ids, found) == UNION {Injection(S, found) : S \in SUBSET ids}

Scored(score, s) == {d \in Detections : score[d] = s}

\* A mutant: every track left over enters the second stage.
SecondStageAll(unmatched) == unmatched

\* A mutant: the second stage forgets the first.
SecondStageAgain(unmatched) == {i \in DOMAIN tracks : tracks[i].state = "tracked"}

\* second_stage_tracks
SecondStage(unmatched) == {i \in unmatched : tracks[i].state = "tracked"}

\* A mutant: a track is given up one update too soon.
ExpiredEarly(i) == tracks[i].missed + 1 >= TrackBuffer

\* frame_id - last_frame > track_buffer
Expired(i) == tracks[i].missed + 1 > TrackBuffer

Miss(track) == [state |-> "lost", missed |-> track.missed + 1, of |-> track.of]

Seen(d) == [state |-> "tracked", missed |-> 0, of |-> d]

\* unmatched_high
Unclaimed(high, matched) == high \ {matched[i] : i \in DOMAIN matched}

\* New tracks take the next identities, in the order of the list.
Births(fresh) == Bijection(nextId .. nextId + Cardinality(fresh) - 1, fresh)

\* The tracks that were not matched and do not expire by it.
Kept(matched) == {i \in DOMAIN tracks \ matched : ~Expired(i)}

\* What update() does once the associations are made.
Observe(score, first, second, born) ==
  LET matched == DOMAIN first \union DOMAIN second
      kept == Kept(matched)
      Of(i) == IF i \in DOMAIN born THEN born[i]
               ELSE IF i \in DOMAIN second THEN second[i] ELSE first[i]
  IN
  /\ tracks' = [i \in kept \union matched \union DOMAIN born |->
                  IF i \in kept THEN Miss(tracks[i]) ELSE Seen(Of(i))]
  /\ nextId' = nextId + Cardinality(DOMAIN born)
  /\ scores' = score
  /\ returned' = [i \in {j \in DOMAIN tracks' : tracks'[j].state = "tracked"}
                        \intersect (matched \union DOMAIN born) |-> tracks'[i].of]

Update(score) ==
  \E first \in Associations(DOMAIN tracks, Scored(score, "high")) :
  \E second \in Associations(SecondStage(DOMAIN tracks \ DOMAIN first), Scored(score, "low")) :
  \E born \in Births(Unclaimed(Scored(score, "high"), first)) :
    /\ nextId + Cardinality(DOMAIN born) <= MaxTracks + 1
    /\ Observe(score, first, second, born)

TrackerNext == \E score \in [Detections -> Scores] : Update(score)

TrackerSpec == TrackerInit /\ [][TrackerNext]_trackerVars
-----------------------------------------------------------------------------
(***************************************************************************)
(* Every confident detection is reported, under one identity; what is      *)
(* reported is exactly what this frame showed.                             *)
(***************************************************************************)
ReportsFrame ==
  /\ IsInjective(returned)
  /\ Scored(scores, "high") \subseteq {returned[i] : i \in DOMAIN returned}
  /\ \A i \in DOMAIN returned : scores[returned[i]] # "ignored"

(***************************************************************************)
(* The state alone tells whether a track was seen in the last update and   *)
(* returned by it: the filter on matched_track_ids drops no TRACKED track. *)
(***************************************************************************)
StateTells ==
  \A i \in DOMAIN tracks :
    /\ tracks[i].state = "tracked" <=> tracks[i].missed = 0
    /\ tracks[i].state = "tracked" <=> i \in DOMAIN returned

(***************************************************************************)
(* A weak detection only continues a track that the frame before it showed *)
(* (docs/phase2-model-and-geometry.md: it creates no track); a track that  *)
(* is lost takes a confident one to come back.                             *)
(***************************************************************************)
WeakContinues ==
  [][\A i \in DOMAIN returned' : scores'[returned'[i]] = "low" => i \in DOMAIN returned]_trackerVars

(***************************************************************************)
(* An identity is never given to a second person: new ones are larger than *)
(* all before, and one disappears only when its track has gone unseen for  *)
(* track_buffer updates.                                                   *)
(***************************************************************************)
IdentitiesLast ==
  [][/\ \A i \in DOMAIN tracks' \ DOMAIN tracks : i >= nextId
     /\ \A i \in DOMAIN tracks \ DOMAIN tracks' : tracks[i].missed = TrackBuffer]_trackerVars
=============================================================================

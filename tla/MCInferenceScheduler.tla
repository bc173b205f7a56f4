------------------------ MODULE MCInferenceScheduler ------------------------
(* Instances of InferenceScheduler for TLC. *)
EXTENDS InferenceScheduler

\* Two frames of the first camera, one of each other.
MCFrames == [c \in 0 .. NumCameras - 1 |-> IF c = 0 THEN 2 ELSE 1]

\* The first camera has an analytics interval, the others none.
MCFirstInterval == [c \in 0 .. NumCameras - 1 |-> IF c = 0 THEN 1 ELSE 0]
=============================================================================

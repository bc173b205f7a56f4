------------------------------ MODULE MCDesktop ------------------------------
(* An instance of Desktop for TLC. *)
EXTENDS Desktop, TLC

\* A user may remove every point of the default zone: the whole frame is cropped,
\* and nobody is inside.
MCDefault == {1, 2}
MCAreas == {{}}

\* A person inside the default zone without a helmet.
MCViews == {{[at |-> 1, lacks |-> TRUE]}}

\* cam2 has frames enough for every skip, and a save; cam1 is silent.
MCFrames == [c \in Cameras |-> IF c = "cam1" THEN 0 ELSE 4]
MCPuts == [c \in Cameras |-> IF c = "cam1" THEN 0 ELSE 1]

MCSymmetry == Permutations(Clients)
==============================================================================

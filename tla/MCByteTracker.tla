---------------------------- MODULE MCByteTracker ----------------------------
(***************************************************************************)
(* Instance of ByteTracker for TLC.                                        *)
(***************************************************************************)
EXTENDS ByteTracker, TLC

\* Nothing tells one detection from another but what each update says of it.
MCSymmetry == Permutations(Detections)
=============================================================================

--------------------------- MODULE MCEdgeSupervisor ---------------------------
(* Instances of EdgeSupervisor for TLC: the faults of each camera. *)
EXTENDS EdgeSupervisor

\* One device hangs; the peer works.
MCHangs == <<{"hang"}, {}>>

\* One device hangs, is slow and comes and goes; the peer fails in the other ways.
MCMany == <<{"hang", "slow", "absent"}, {"fails", "mismatch", "crash"}>>

\* A single device that hangs.
MCAlone == <<{"hang"}>>
=============================================================================

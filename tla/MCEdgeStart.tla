------------------------------ MODULE MCEdgeStart ------------------------------
(* An instance of EdgeStart for TLC. *)
EXTENDS EdgeStart

MCCameras == {1, 2}

MCModel(role, load) == [role |-> role, enabled |-> TRUE, load |-> load, fits |-> TRUE]
MCDetector == MCModel("DETECTOR", "loads")

\* For readiness, cameras that change: every model loaded, and a shutdown under
\* the requests; or one that failed.
MCReadyConfigurations ==
  {<<MCDetector, MCDetector>>, <<MCDetector, MCModel("PPE", "fails")>>}

\* For the shutdown, three signals: no model; a detector alone, after a disabled
\* model, or with a pose model that may fail to load or to fit; a PPE model first.
MCStopConfigurations ==
  {<<>>, <<MCDetector>>,
   <<[MCModel("PPE", "loads") EXCEPT !.enabled = FALSE], MCDetector>>,
   <<MCDetector, [MCModel("POSE", "loads") EXCEPT !.fits = FALSE]>>,
   <<MCModel("PPE", "fails"), MCDetector>>}
  \cup {<<MCDetector, MCModel("POSE", load)>> : load \in {"loads", "fails", "strands"}}

MCConfigurations == MCReadyConfigurations \cup MCStopConfigurations
MCMaxChanges(list) == IF list \in MCReadyConfigurations THEN 3 ELSE 0
MCMaxSignals(list) ==
  IF list \in MCStopConfigurations THEN 3 ELSE IF list[2] = MCDetector THEN 1 ELSE 0
================================================================================

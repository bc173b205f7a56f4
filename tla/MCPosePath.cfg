SPECIFICATION Spec
CONSTANTS
  NumTracks = 3
  Camera <- MCCamera
  Rank <- MCRank
  QueueSize = 2
  BatchSize = 2
  Size <- MCSize
  Interval = 1
  MaxAge = 1
  MaxResults = 2
  MaxTime = 3
  MaxLatency = 1
INVARIANTS
  RequestsAccounted
PROPERTIES
  PosesForward
  StopEnds
CHECK_DEADLOCK FALSE

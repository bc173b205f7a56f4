SPECIFICATION TrackerSpec
CONSTANTS
  Detections = {d1, d2, d3}
  TrackBuffer = 2
  MaxTracks = 4
INVARIANTS
  ReportsFrame
PROPERTIES
  WeakContinues
  IdentitiesLast
SYMMETRY MCSymmetry

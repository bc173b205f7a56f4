SPECIFICATION Spec
CONSTANTS
  NumCameras = 2
  Timeout = 1
  Faults <- MCHangs
INVARIANTS
  NoOrphan
  NothingLeftInTime
PROPERTY
  StopReturns

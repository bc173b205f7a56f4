SPECIFICATION ServingSpec
CONSTANTS
  NumCameras = 2
  Timeout = 1
  Faults <- MCMany
INVARIANT
  HungNotExcused
PROPERTY
  Replaced

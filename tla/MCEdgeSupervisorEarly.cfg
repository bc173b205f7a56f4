SPECIFICATION ServingSpec
CONSTANTS
  NumCameras = 1
  Timeout = 1
  Faults <- MCAlone
PROPERTY
  RestartsOnlyHung

SPECIFICATION Spec
CONSTANTS
  Cameras <- MCCameras
  Configurations <- MCConfigurations
  MaxChanges <- MCMaxChanges
  MaxSignals <- MCMaxSignals
INVARIANTS
  InferenceBacked
  ReturnReleases
PROPERTIES
  ReadyIsHonest
  SignalEnds
CHECK_DEADLOCK FALSE

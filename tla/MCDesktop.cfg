SPECIFICATION Spec
CONSTANTS
  Width = 4
  Margin = 1
  MinCrop = 2
  Views <- MCViews
  Areas <- MCAreas
  DefaultArea <- MCDefault
  FrameSkip = 2
  ClassifyEvery = 2
  QueueSize = 1
  ListSize = 1
  Clients = {b1, b2}
  MaxFrames <- MCFrames
  MaxPuts <- MCPuts
INVARIANTS
  TypeOK
  PreviewWakes
  SaveTakesEffect
  ClassifiedInTime
  OutageShown
SYMMETRY MCSymmetry
CHECK_DEADLOCK FALSE

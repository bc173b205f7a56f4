SPECIFICATION Spec
CONSTANTS
  NumCameras = 3
  MaxAge = 0
  MaxFrames <- MCFrames
  BatchSize = 2
  QueueSize = 1
  Interval <- MCFirstInterval
  Threshold = 2
  Reset = 1
INVARIANTS
  FrameAccounting
  ResultAccounting
  BoundedOvertaking
PROPERTIES
  EveryCameraServed
  StopEnds
  ImplementsDelivery

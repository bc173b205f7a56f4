SPECIFICATION Spec
CONSTANTS
  Sockets = {w1, w2}
  Posts = {p1}
  c1 = c1
  c2 = c2
  Cameras = {c1, c2}
  Poller = poller
  Registered <- MCRegistered
  QueueLimit = 1
INVARIANTS
  ListedWhileListening
PROPERTIES
  EveryClientTold
  FairTurns
  StopEnds
CHECK_DEADLOCK FALSE

SPECIFICATION Spec
CONSTANTS
  Events = {e1}
  Bodies = {b1, b2}
  Devices = {d}
  Handlers = {h1, h2}
  MaxBeats = 2
  MaxRestarts = 1
  MaxWrong = 1
INVARIANTS
  CreatedOnce
PROPERTIES
  FirstBodyStays
  EveryEventAcknowledged
CHECK_DEADLOCK FALSE

SPECIFICATION Spec
CONSTANTS
  c1 = c1
  c2 = c2
  here = here
  there = there
  Cameras = {c1, c2}
  Places = {here, there}
  Scenes <- MCScenes
  Areas <- MCAreas
  Cooldown = 1
  MaxClock = 1
  MaxSets = 1
  MaxResults <- MCResults
  MaxPuts <- MCPuts
INVARIANTS
  SettledRoiHolds
  EachAnnouncedOnce
  AlertRate
CHECK_DEADLOCK FALSE

SPECIFICATION MCFairSpec
CONSTANTS
  Procs = {p1}
  Calls = {c1, c2}
  Nobody = Nobody
  Admins = {a1}
  Crons = {1, 2}
  MaxTime = 1
  Hour = 0
  Day = 0
  KeepsSession = FALSE
  MaxStops = 0
  MaxFaults = 1
CHECK_DEADLOCK FALSE
PROPERTY LockReleased

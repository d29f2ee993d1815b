SPECIFICATION MCSpec
CONSTANTS
  Procs = {p1, p2}
  Calls = {c1, c2}
  Nobody = Nobody
  Admins = {}
  Crons = {1}
  MaxTime = 2
  Hour = 0
  Day = 2
  KeepsSession = TRUE
  MaxStops = 1
  MaxFaults = 1
SYMMETRY Symmetry
CHECK_DEADLOCK FALSE
INVARIANT TypeOK
INVARIANT TickRunsOnce
INVARIANT RunsAlone
PROPERTY SuccessStands

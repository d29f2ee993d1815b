SPECIFICATION MCFairSpec
CONSTANTS
  Tenants = {t1}
  Procs = {p1, p2}
  Runs = {r1, r2, r3, r4}
  Nobody = Nobody
  MaxConcurrent = 1
  KeepsPace = TRUE
  QuietLoads = TRUE
  MaxTroubles = 1
INVARIANT TypeOK
INVARIANT LoadedIsWhole
INVARIANT IdleIsEmpty
INVARIANT IdleWasAsked
PROPERTY StateSettles

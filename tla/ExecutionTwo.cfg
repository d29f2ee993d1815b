SPECIFICATION MCSpec
CONSTANTS
  NumActions = 2
  Sessions = {s1, s2}
  NoSession = NoSession
  Kinds = {"approve", "reject", "dismiss", "bulk"}
  MaxAttempts = 1
  ApplyAnyway = {2}
  ZonedClock = TRUE
  MaxVersion = 3
  MaxReviews = 2
  MaxCrashes = 1
  Unread = {{}, {2}}
SYMMETRY SessionSymmetry
CHECK_DEADLOCK FALSE
INVARIANT ClaimIsExclusive
INVARIANT ApprovedIsBacked

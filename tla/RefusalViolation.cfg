SPECIFICATION MCSpec
CONSTANTS
  NumActions = 1
  Sessions = {s1, s2}
  NoSession = NoSession
  Kinds = {"approve", "reject"}
  MaxAttempts = 1
  ApplyAnyway = {}
  ZonedClock = FALSE
  MaxVersion = 3
  MaxReviews = 2
  MaxCrashes = 0
  Unread = {{}}
SYMMETRY SessionSymmetry
CHECK_DEADLOCK FALSE
PROPERTY RefusalStands

SPECIFICATION MCSpec
CONSTANTS
  NumActions = 2
  Sessions = {s1}
  NoSession = NoSession
  Kinds = {"approve", "reject", "bulk", "sweep"}
  MaxAttempts = 2
  ApplyAnyway = {}
  ZonedClock = FALSE
  MaxVersion = 3
  MaxReviews = 2
  MaxCrashes = 1
  Unread = {{}, {2}}
PROPERTY KeepsContract

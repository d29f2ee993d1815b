SPECIFICATION MCFairSpec
CONSTANTS
  NumActions = 2
  Sessions = {s1}
  NoSession = NoSession
  Kinds = {"bulk", "sweep"}
  MaxAttempts = 2
  ApplyAnyway = {}
  ZonedClock = FALSE
  MaxVersion = 3
  MaxReviews = 1
  MaxCrashes = 1
  Unread = {{}, {2}}
PROPERTY QueuedSettles

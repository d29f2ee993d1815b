SPECIFICATION MCSpec
CONSTANTS
  NumActions = 1
  Sessions = {s1, s2}
  NoSession = NoSession
  Kinds = {"approve", "reject", "dismiss", "bulk", "sweep"}
  MaxAttempts = 1
  ApplyAnyway = {}
  ZonedClock = FALSE
  MaxVersion = 3
  MaxReviews = 2
  MaxCrashes = 2
  Unread = {{}, {1}}
SYMMETRY SessionSymmetry
INVARIANT TypeOK
INVARIANT WrittenOnce
INVARIANT ClaimIsExclusive
INVARIANT ApprovedIsBacked
INVARIANT ExecutingIsPrivate
INVARIANT ExecutedWasWritten

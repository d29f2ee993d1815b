SPECIFICATION MCSpec
CONSTANTS
  NumSteps = 4
  Deps <- MCDeps
  Sessions = {x1}
  Nobody = Nobody
  Width = 2
  LateErrors = {"refused", "busy"}
  MaxRequests = 1
  MaxAborts = 0
CHECK_DEADLOCK FALSE
INVARIANT ExecutedWasApplied

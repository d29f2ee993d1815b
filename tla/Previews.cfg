SPECIFICATION MCSpec
CONSTANTS
  NumSteps = 4
  Deps <- MCDeps
  Sessions = {x1, x2}
  Nobody = Nobody
  Width = 2
  LateErrors = {"refused"}
  MaxRequests = 3
  MaxAborts = 1
SYMMETRY Symmetry
CHECK_DEADLOCK FALSE
INVARIANT TypeOK
INVARIANT ExecutedWasApplied
INVARIANT AfterDependencies
INVARIANT PlanFollows
INVARIANT ExecutedIsRecorded
PROPERTY DecisionStands

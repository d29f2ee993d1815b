SPECIFICATION Spec
CONSTANTS
  Users = {a, b}
  Reviewers = {a, b}
  Approvers = {b}
  NoUser = NoUser
  MaxEdits = 2
  MaxReviews = 2
INVARIANT TypeOK
INVARIANT EveryoneDecides
 

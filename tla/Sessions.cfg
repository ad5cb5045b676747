CONSTANTS
  a  = a
  b  = b
  r1 = r1
  r2 = r2
  Users       <- MCUsers
  Logins      <- MCLogins
  Owner       <- MCOwner
  Requests    <- MCRequests
  Generations = 2
SPECIFICATION Spec
CHECK_DEADLOCK FALSE
INVARIANTS
  EndedForGood
  NoSelfEviction
  DeletionEndsSessions

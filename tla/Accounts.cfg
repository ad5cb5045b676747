SPECIFICATION FairSpec
CONSTANTS
  None = None
  u1 = u1
  u2 = u2
  n1 = n1
  n2 = n2
  n3 = n3
  b1 = b1
  b2 = b2
  r1 = r1
  r2 = r2
  Users <- MCUsers
  Numbers <- MCNumbers
  Places <- MCPlaces
  Verified <- MCVerified
  Holder <- MCHolder
  BVN <- MCBVN
  Seeded <- MCSeeded
  Requests <- MCRequests
INVARIANTS
  LinkAnswerTrue
  NothingOfUnlinked
  NameVouched
PROPERTY EnquiriesEnd
CHECK_DEADLOCK FALSE

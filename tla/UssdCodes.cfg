CONSTANTS
  Absent = Absent
  u1 = u1
  g1 = g1
  g2 = g2
  v1 = v1
  v2 = v2
  p1 = p1
  a1 = a1
  a2 = a2
  a3 = a3
  a4 = a4
  d1 = d1
  d2 = d2
  Clients  <- MCClients
  Calls    <- MCCalls
  Kind     <- MCKind
  User     <- MCUser
  Digits   <- MCDigits
  Limit     = 2
  Window    = 2
  AuthLimit = 2
  AuthWindow = 3
  MaxGenerated = 1
  GenWindow = 2
  Timeout   = 1
  Horizon   = 2
  Mixes     <- MCMixes
SPECIFICATION UssdSpec
SYMMETRY Alike
CHECK_DEADLOCK FALSE
INVARIANTS
  AdmittedWithinLimit
  ConsumedOnce
  CodeStaysOwn

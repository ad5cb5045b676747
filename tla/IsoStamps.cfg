CONSTANTS
  t1 = t1
  e1 = e1
  h1 = h1
  h2 = h2
  Transfers    <- MCTransfers
  Enquiries    <- MCEnquiries
  Handlers     <- MCHandlers
  SameInstance = TRUE
  MsgIdEchoed  = TRUE
  Configs      <- MCConfigs
  Unasked      <- MCUnasked
  MinRequests  = 1
  MaxProbes    = 1
SPECIFICATION IsoSpec
CHECK_DEADLOCK FALSE
INVARIANT
  SecondsOnly

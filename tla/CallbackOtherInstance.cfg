CONSTANTS
  t1 = t1
  t2 = t2
  e1 = e1
  h1 = h1
  h2 = h2
  Transfers    <- MCTransfers
  Enquiries    <- MCEnquiries
  Handlers     <- MCHandlers
  SameInstance = FALSE
  MsgIdEchoed  = TRUE
SPECIFICATION Spec
CHECK_DEADLOCK FALSE
PROPERTY FirstAnswerKept

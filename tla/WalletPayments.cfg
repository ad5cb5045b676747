CONSTANTS
  Accounts <- MCAccounts
  Opening  <- MCOpening
  Requests <- MCRequests
  Mode     <- MCMode
  TxId     <- MCTxId
  From     <- MCFrom
  To       <- MCTo
  Amount   <- MCAmount
  Code     <- MCCode
  Codes    <- MCCodes
  Accepted <- MCWithAirtime
SPECIFICATION FairSpec
CHECK_DEADLOCK FALSE
INVARIANTS
  UssdCodePaysOnce
  PaidAnswersTrue
  PaidOncePerId
  BalancesMatchRows
PROPERTY EveryRequestEnds

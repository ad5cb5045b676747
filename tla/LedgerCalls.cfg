CONSTANTS
  j1 = j1
  j2 = j2
  j3 = j3
  Accounts   <- MCAccounts
  FeeAccount = 1
  TxIds      <- MCTxIds
  Payment    <- MCPayment
  Room       <- MCRoom
  Opening    <- MCOpening
  Jobs       <- MCJobs
SPECIFICATION FairSpec
CHECK_DEADLOCK FALSE
INVARIANTS
  LedgerInv
  BalancesFollowEntries
  ReversedWasFounded
  Conservation
  TransfersNeverDeadlock
PROPERTIES
  AtomicLedger
  EveryCallEnds

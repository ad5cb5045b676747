CONSTANTS
  Transfers    <- MCTransfers
  TransferId   <- MCTransferId
  MaxOpenConns <- MCMaxConns
SPECIFICATION FairTransferSpec
CHECK_DEADLOCK FALSE
INVARIANTS
  CreditOnlyAfterDebit
  SuccessIsSettled
  OneRowPerId
PROPERTY EveryTransferEnds

CONSTANTS
  Transfers    <- MCTransfers
  TransferId   <- MCTransferId
  MaxOpenConns <- MCMaxConns
SPECIFICATION TransferSpec
CHECK_DEADLOCK FALSE
INVARIANT DebitedOncePerId

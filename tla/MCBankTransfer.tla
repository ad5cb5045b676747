--------------------------- MODULE MCBankTransfer ---------------------------
(* A pool of two connections, and three transfers of which two have one id. *)
EXTENDS BankTransfer

MCTransfers  == {"t1", "t2", "t3"}
MCTransferId == [t1 |-> "p", t2 |-> "p", t3 |-> "q"]
MCMaxConns   == 2

=============================================================================

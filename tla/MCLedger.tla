------------------------------ MODULE MCLedger ------------------------------
(* A small instance of Ledger: three local accounts, one of them the       *)
(* transit account; payments around the ring of the three, one from the    *)
(* transit account to another bank (both ends the same row) and one from   *)
(* an account that is not there; three calls.  Behind one id there is room *)
(* for "_REVERSAL" twice, behind others once or not at all.                *)
EXTENDS LedgerInvariant, TLC

CONSTANTS j1, j2, j3

MCAccounts == {1, 2, 3}
MCJobs     == {j1, j2, j3}
MCTxIds    == {"12", "23", "31", "1x", "52"}
MCRoom     == ("12" :> 2) @@ ("23" :> 0) @@ ("31" :> 1) @@ ("1x" :> 0) @@ ("52" :> 0)
MCOpening  == [a \in MCAccounts |-> 10 * a]
MCPayment  ==
  ("12" :> [from |-> 1, to |-> 2, amount |-> 4]) @@
  ("23" :> [from |-> 2, to |-> 3, amount |-> 3]) @@
  ("31" :> [from |-> 3, to |-> 1, amount |-> 2]) @@
  ("1x" :> [from |-> 1, to |-> 9, amount |-> 7]) @@
  ("52" :> [from |-> 5, to |-> 2, amount |-> 1])

=============================================================================

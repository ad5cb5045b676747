----------------------------- MODULE LedgerSpec -----------------------------
(***************************************************************************)
(* What DoubleLedgerService promises its callers: a transfer or a reversal *)
(* happens at one instant, on the balances of that instant, or not at all. *)
(* There are no locks, versions or entries here; the balances are those of *)
(* the accounts table.                                                     *)
(***************************************************************************)
EXTENDS Integers, Sequences

CONSTANTS Accounts, FeeAccount, TxIds, Payment, Room, Opening

VARIABLES
  balance,   \* accounts.balance
  executed,  \* how often what an id stands for took effect
  states     \* payment_states

vars == <<balance, executed, states>>

Payer(t) == Payment[t].from
Payee(t) == IF Payment[t].to \in Accounts THEN Payment[t].to ELSE FeeAccount

\* <<t, 0>> is the transfer of t, <<t, d + 1>> the reversals of <<t, d>>.
Ids == UNION {{t} \X (0..Room[t]) : t \in TxIds}

Init ==
  /\ balance  = Opening
  /\ executed = [id \in Ids |-> 0]
  /\ states   = [id \in Ids |-> << >>]

\* n times the amount of t goes from its payer to its payee.
Move(t, n) ==
  /\ Payer(t) \in Accounts /\ Payee(t) \in Accounts /\ Payer(t) # Payee(t)
  /\ balance' = [balance EXCEPT ![Payer(t)] = @ - n * Payment[t].amount,
                                ![Payee(t)] = @ + n * Payment[t].amount]

Transfer(t) ==
  /\ Move(t, 1)
  /\ executed' = [executed EXCEPT ![<<t, 0>>] = @ + 1]
  /\ states'   = [states EXCEPT ![<<t, 0>>] = @ \o <<"PENDING", "SUCCESS">>]

\* Takes back the executions the reversal has seen: of the transfer, or of
\* reversals of it, and so on.  Nothing keeps a second reversal of the same
\* id from taking them back again.
Reverse(t, d) ==
  \E n \in 1..executed[<<t, d>>] :
    /\ Move(t, IF d % 2 = 0 THEN 0 - n ELSE n)
    /\ executed' = [executed EXCEPT ![<<t, d + 1>>] = @ + n]
    /\ states'   = [states EXCEPT ![<<t, d>>] = @ \o <<"REVERSED">>]

Next ==
  \E t \in TxIds : Transfer(t) \/ \E d \in 0..(Room[t] - 1) : Reverse(t, d)

Spec == Init /\ [][Next]_vars

=============================================================================

-------------------------- MODULE LedgerInvariant --------------------------
(***************************************************************************)
(* The inductive invariant behind the theorems of LedgerProofs: what a     *)
(* transaction that has read a row under its lock may rely on until it     *)
(* ends, statement by statement.                                           *)
(***************************************************************************)
EXTENDS Ledger

\* Both ends of a payment have a row.
Movable(t) == Debited(t) \in Accounts /\ Credited(t) \in Accounts

\* What the statement a call is at says about its arguments.
ControlOK ==
  /\ \A t \in TxIds : \A d \in 0..Room[t] : posted[<<t, d>>] > 0 => Movable(t)
  /\ \A j \in Jobs :
       /\ Active(j) => op[j].tx \in TxIds /\ op[j].level \in 0..Room[op[j].tx]
       /\ op[j].kind = "transfer" => op[j].level = 0
       /\ pc[j] \in {"lock1", "lock2", "post", "debit", "credit"} =>
            op[j].kind = "transfer"
       /\ pc[j] \in {"revlock", "revpost"} => op[j].kind = "reverse"
       /\ pc[j] = "commit" => op[j].kind \in {"transfer", "reverse"}
       /\ pc[j] = "commit" /\ op[j].kind = "reverse" => op[j].level < Room[op[j].tx]
       /\ pc[j] = "lock2" => LockOrder(op[j].tx)[1] \in Accounts
       /\ pc[j] \in {"post", "debit", "credit", "revlock", "revpost", "commit"}
            => Movable(op[j].tx)

\* The entries of a as transaction j sees them.
Seen(j, a) == hist[a] \o went[j][a]

\* Read under the lock and not written since.
Fresh(j, a) ==
  /\ holder[a] = j
  /\ read[j][a] = row[a]
  /\ view[j][a] = row[a]
  /\ went[j][a] = << >>

\* j has entered delta for a.
Entered(j, a, delta) ==
  /\ Chained(Seen(j, a), Opening[a])
  /\ LastBalance(Seen(j, a), Opening[a]) = row[a].balance + delta

\* j has entered and written what makes a differ from its row by delta.
Written(j, a, delta) ==
  /\ Entered(j, a, delta)
  /\ view[j][a].balance = row[a].balance + delta

\* What n reversed entries of <<t, d>> have put back to a.
GivenBack(t, d, a, n) ==
  IF a = Debited(t) THEN ((n + 1) \div 2) * PutBack(t, d)
                    ELSE 0 - (n \div 2) * PutBack(t, d)

TransferOK(j) ==
  LET t == op[j].tx
      d == Debited(t)
      c == Credited(t)
  IN  /\ pc[j] \in {"lock1", "lock2", "post"} =>
           \A a \in Accounts : holder[a] = j => Fresh(j, a)
      /\ pc[j] = "lock2" => holder[LockOrder(t)[1]] = j
      /\ pc[j] \in {"post", "debit", "credit"} => holder[d] = j /\ holder[c] = j
      /\ pc[j] \in {"debit", "credit"} =>
           /\ d # c => Entered(j, d, 0 - Amount(t)) /\ Entered(j, c, Amount(t))
           /\ read[j][d] = row[d] /\ read[j][c] = row[c]
      /\ pc[j] = "debit" => view[j][d] = row[d] /\ view[j][c] = row[c]
      /\ pc[j] = "credit" =>
           /\ view[j][d].balance = row[d].balance - Amount(t)
           /\ view[j][d].version = row[d].version + 1
      /\ pc[j] = "commit" /\ op[j].kind = "transfer" =>
           /\ d # c /\ holder[d] = j /\ holder[c] = j
           /\ Written(j, d, 0 - Amount(t)) /\ Written(j, c, Amount(t))

ReverseOK(j) ==
  LET t == op[j].tx
      n == cursor[j]
  IN  (pc[j] \in {"revlock", "revpost"} \/ (pc[j] = "commit" /\ op[j].kind = "reverse"))
      => /\ found[j] \in 1..posted[Id(j)]
         /\ \A a \in Accounts :
              holder[a] = j => Written(j, a, GivenBack(t, op[j].level, a, n))
         /\ n > 0 => holder[Debited(t)] = j
         /\ n > 1 => holder[Credited(t)] = j
         /\ IF pc[j] = "commit" THEN n = 2 * found[j] ELSE n < 2 * found[j]
         /\ pc[j] = "revpost" =>
              /\ holder[ReversedAccount(t, n)] = j
              /\ read[j][ReversedAccount(t, n)] = view[j][ReversedAccount(t, n)]

JobOK(j) ==
  /\ pc[j] = "idle" => cursor[j] = 0
  /\ \A a \in Accounts :
       /\ holder[a] = j => /\ Active(j)
                           /\ a \in {Debited(op[j].tx), Credited(op[j].tx)}
       /\ holder[a] # j => went[j][a] = << >>
  /\ TransferOK(j)
  /\ ReverseOK(j)

LedgerInv ==
  /\ TypeOK
  /\ ControlOK
  /\ BalancesFollowEntries
  /\ \A t \in TxIds : \A d \in 0..Room[t] :
       posted[<<t, d>>] > 0 => Debited(t) # Credited(t)
  /\ \A j \in Jobs : JobOK(j)

=============================================================================

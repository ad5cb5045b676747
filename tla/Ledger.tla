------------------------------- MODULE Ledger -------------------------------
(***************************************************************************)
(* DoubleLedgerService (internal/services/ledger_service.go): concurrent   *)
(* calls of Transfer and Reverse, each one PostgreSQL transaction at READ  *)
(* COMMITTED, over the tables accounts, ledger_entries and payment_states. *)
(*                                                                         *)
(* One action is one SQL statement that another transaction can notice,    *)
(* or one that can fail on what it finds.  A transaction's own writes stay *)
(* in view/went until Commit; Rollback (the deferred tx.Rollback()) drops  *)
(* them.  A row lock is taken by SELECT ... FOR UPDATE and kept until the  *)
(* transaction ends.                                                       *)
(***************************************************************************)
EXTENDS Integers, Sequences, FiniteSets, Functions

CONSTANTS
  Accounts,     \* account_id of the rows of accounts, in the order of Go's <
  FeeAccount,   \* DoubleLedgerService.systemFeeAccount
  TxIds,        \* transaction ids the callers use
  Payment,      \* Payment[t] = [from, to, amount] asked for under the id t
  Room,         \* Room[t] = how often "_REVERSAL" fits behind the id t in the
                \* column ledger_entries.transaction_id, a VARCHAR(255)
  Opening,      \* Opening[a] = balance of a before the first entry
  Jobs          \* calls of Transfer and Reverse

\* Account ids are strings under a total order; of any of them, one is least.
ASSUME AccountsAssumption ==
  /\ Accounts \subseteq Int
  /\ \A S \in SUBSET Accounts : S # {} => \E m \in S : \A a \in S : m <= a
\* A table has finitely many rows.
ASSUME FiniteAssumption == IsFiniteSet(Accounts)
ASSUME OpeningAssumption == Opening \in [Accounts -> Int]
ASSUME PaymentAssumption ==
  Payment \in [TxIds -> [from : Int, to : Int, amount : Int]]
ASSUME FeeAssumption == FeeAccount \in Int
ASSUME RoomAssumption == Room \in [TxIds -> Nat]

\* The ids entries can be found under: <<t, d>> is t with d times "_REVERSAL"
\* behind it.  Reverse writes its entries under the id it was given and one
\* more "_REVERSAL", so what it wrote can be reversed in its turn.
Ids == UNION {{t} \X (0..Room[t]) : t \in TxIds}

None == "none"
ASSUME NoneAssumption == None \notin Jobs

VARIABLES
  row,      \* accounts: row[a] = [balance, version], committed
  hist,     \* ledger_entries of an account in order, committed
  posted,   \* debit/credit pairs ledger_entries holds under an id
  states,   \* payment_states of an id, committed
  holder,   \* holder[a] = transaction with the row lock of a, or None
  pc,       \* statement a call executes next
  op,       \* what was called: [kind, tx, level], for the id <<tx, level>>
  found,    \* Reverse: pairs of entries its SELECT returned
  cursor,   \* Reverse: entries already reversed
  read,     \* read[j][a] = the row as lockAccount returned it
  view,     \* view[j][a] = the row as transaction j sees it
  went      \* went[j][a] = entries j has inserted, not committed

tables == <<row, hist, posted, states>>
calls  == <<op, found, cursor>>
local  == <<read, view, went>>
vars   == <<tables, holder, pc, calls, local>>

Row   == [balance : Int, version : Nat]
Unread == [balance |-> 0, version |-> 0]
Entry == [id : Ids, amount : Int, balance : Int]
Op    == [kind : {"transfer", "reverse", "none"}, tx : TxIds \cup {None}, level : Nat]
State == {"PENDING", "SUCCESS", "REVERSED"}
PC    == {"idle", "lock1", "lock2", "post", "debit", "credit",
          "revlock", "revpost", "commit", "done"}

Active(j) == pc[j] \notin {"idle", "done"}

\* The id a call was given, and the one its entries go under.
Id(j)    == <<op[j].tx, op[j].level>>
Under(j) == IF op[j].kind = "transfer" THEN Id(j) ELSE <<op[j].tx, op[j].level + 1>>

-----------------------------------------------------------------------------
(* The accounts a payment touches.                                         *)

Debited(t) == Payment[t].from

\* A beneficiary without a local row is credited to the transit account.
Credited(t) == IF Payment[t].to \in Accounts THEN Payment[t].to ELSE FeeAccount

Amount(t) == Payment[t].amount

\* Fault: the accounts are locked in the order of the request.
RequestOrder(t) == <<Debited(t), Credited(t)>>

\* "Lock accounts in consistent order to prevent deadlocks."
LockOrder(t) == IF Debited(t) > Credited(t) THEN <<Credited(t), Debited(t)>>
                                            ELSE <<Debited(t), Credited(t)>>

\* The entry Reverse handles when it has handled n: a pair is written debited
\* account first, by a transfer and by a reversal of any level, so ORDER BY
\* created_at alternates between the two accounts.
ReversedAccount(t, n) == IF n % 2 = 0 THEN Debited(t) ELSE Credited(t)

\* What reversing one pair of entries of level d puts back to the debited
\* account: the entries of a reversal have the signs of the payment inverted.
PutBack(t, d) == IF d % 2 = 0 THEN Amount(t) ELSE 0 - Amount(t)

\* Fault: the credit entry is given back with the sign of the debit entry.
ReversalUnsigned(t, d, n) == PutBack(t, d)

ReversalAmount(t, d, n) == IF n % 2 = 0 THEN PutBack(t, d) ELSE 0 - PutBack(t, d)

-----------------------------------------------------------------------------
Init ==
  /\ row    = [a \in Accounts |-> [balance |-> Opening[a], version |-> 1]]
  /\ hist   = [a \in Accounts |-> << >>]
  /\ posted = [id \in Ids |-> 0]
  /\ states = [id \in Ids |-> << >>]
  /\ holder = [a \in Accounts |-> None]
  /\ pc     = [j \in Jobs |-> "idle"]
  /\ op     = [j \in Jobs |-> [kind |-> "none", tx |-> None, level |-> 0]]
  /\ found  = [j \in Jobs |-> 0]
  /\ cursor = [j \in Jobs |-> 0]
  /\ read   = [j \in Jobs |-> [a \in Accounts |-> Unread]]
  /\ view   = [j \in Jobs |-> [a \in Accounts |-> Unread]]
  /\ went   = [j \in Jobs |-> [a \in Accounts |-> << >>]]

Goto(j, next) == pc' = [pc EXCEPT ![j] = next]

\* The end of a transaction: nothing of it is left in memory.
Forget(j) ==
  /\ read' = [read EXCEPT ![j] = [a \in Accounts |-> Unread]]
  /\ view' = [view EXCEPT ![j] = [a \in Accounts |-> Unread]]
  /\ went' = [went EXCEPT ![j] = [a \in Accounts |-> << >>]]

\* Fault: no deferred Rollback, the transaction stays open.
LeftOpen(j) ==
  /\ Goto(j, "done")
  /\ UNCHANGED <<tables, holder, calls, local>>

\* Every way out of a call but Commit: the deferred Rollback releases the
\* row locks and forgets what the transaction wrote.  Transfer's FAILED row
\* in payment_states is written to that same transaction and goes with it.
Rollback(j) ==
  /\ Goto(j, "done")
  /\ holder' = [a \in Accounts |-> IF holder[a] = j THEN None ELSE holder[a]]
  /\ Forget(j)
  /\ UNCHANGED <<tables, calls>>

\* Fault: SELECT without FOR UPDATE.
ReadAccount(j, a) ==
  /\ holder' = [holder EXCEPT ![a] = j]
  /\ read' = [read EXCEPT ![j][a] = row[a]]
  /\ view' = [view EXCEPT ![j][a] = row[a]]

\* SELECT ... FOR UPDATE returns: the lock is free or already ours, and the
\* row read is the latest committed one, or our own version of it.
LockAccount(j, a) ==
  /\ holder[a] \in {None, j}
  /\ holder' = [holder EXCEPT ![a] = j]
  /\ LET seen == IF holder[a] = j THEN view[j][a] ELSE row[a]
     IN  /\ read' = [read EXCEPT ![j][a] = seen]
         /\ view' = [view EXCEPT ![j][a] = seen]

\* INSERT INTO ledger_entries by a transaction that has inserted w.
Insert(w, a, entry) == [w EXCEPT ![a] = Append(@, entry)]

\* Fault: UPDATE without the version, or rowsAffected not looked at.
AnyVersion(j, a) == TRUE

\* UPDATE accounts ... WHERE account_id = a AND version = v matches a row.
VersionMatches(j, a) == view[j][a].version = read[j][a].version

\* The row that UPDATE leaves.
Updated(j, a, bal) == [balance |-> bal, version |-> view[j][a].version + 1]

-----------------------------------------------------------------------------
(* Transfer and TransferTx                                                 *)

\* Begin, appendPaymentState(PENDING), SELECT EXISTS.
BeginTransfer(j, t) ==
  /\ pc[j] = "idle"
  /\ Goto(j, "lock1")
  /\ op' = [op EXCEPT ![j] = [kind |-> "transfer", tx |-> t, level |-> 0]]
  /\ UNCHANGED <<tables, holder, found, cursor, local>>

LockFirst(j) ==
  /\ pc[j] = "lock1"
  /\ LockOrder(op[j].tx)[1] \in Accounts
  /\ LockAccount(j, LockOrder(op[j].tx)[1])
  /\ Goto(j, "lock2")
  /\ UNCHANGED <<tables, calls, went>>

LockSecond(j) ==
  /\ pc[j] = "lock2"
  /\ LockOrder(op[j].tx)[2] \in Accounts
  /\ LockAccount(j, LockOrder(op[j].tx)[2])
  /\ Goto(j, "post")
  /\ UNCHANGED <<tables, calls, went>>

\* lockAccount finds no row: sql.ErrNoRows.
MissingAccount(j) ==
  /\ \/ pc[j] = "lock1" /\ LockOrder(op[j].tx)[1] \notin Accounts
     \/ pc[j] = "lock2" /\ LockOrder(op[j].tx)[2] \notin Accounts
  /\ Rollback(j)

\* The two createLedgerEntry calls, with the balances read under the locks.
DebitEntry(j) ==
  LET t == op[j].tx
  IN  [id |-> Under(j), amount |-> 0 - Amount(t),
       balance |-> read[j][Debited(t)].balance - Amount(t)]

CreditEntry(j) ==
  LET t == op[j].tx
  IN  [id |-> Under(j), amount |-> Amount(t),
       balance |-> read[j][Credited(t)].balance + Amount(t)]

PostEntries(j) ==
  /\ pc[j] = "post"
  /\ went' = [went EXCEPT ![j] =
                Insert(Insert(@, Debited(op[j].tx), DebitEntry(j)),
                       Credited(op[j].tx), CreditEntry(j))]
  /\ Goto(j, "debit")
  /\ UNCHANGED <<tables, holder, calls, read, view>>

\* updateAccountBalance of the debited, then of the credited account; on
\* rowsAffected = 0 the call fails.
UpdateDebit(j) ==
  LET a == Debited(op[j].tx)
  IN  /\ pc[j] = "debit"
      /\ VersionMatches(j, a)
      /\ view' = [view EXCEPT ![j][a] =
                    Updated(j, a, read[j][a].balance - Amount(op[j].tx))]
      /\ Goto(j, "credit")
      /\ UNCHANGED <<tables, holder, calls, read, went>>

\* Fault: the credited balance is computed from the debited account.
CreditFromDebited(j) ==
  LET a == Credited(op[j].tx)
  IN  /\ pc[j] = "credit"
      /\ VersionMatches(j, a)
      /\ view' = [view EXCEPT ![j][a] =
                    Updated(j, a, read[j][Debited(op[j].tx)].balance + Amount(op[j].tx))]
      /\ Goto(j, "commit")
      /\ UNCHANGED <<tables, holder, calls, read, went>>

UpdateCredit(j) ==
  LET a == Credited(op[j].tx)
  IN  /\ pc[j] = "credit"
      /\ VersionMatches(j, a)
      /\ view' = [view EXCEPT ![j][a] =
                    Updated(j, a, read[j][a].balance + Amount(op[j].tx))]
      /\ Goto(j, "commit")
      /\ UNCHANGED <<tables, holder, calls, read, went>>

OptimisticLockFailed(j) ==
  /\ \/ pc[j] = "debit"  /\ ~VersionMatches(j, Debited(op[j].tx))
     \/ pc[j] = "credit" /\ ~VersionMatches(j, Credited(op[j].tx))
  /\ Rollback(j)

-----------------------------------------------------------------------------
(* Reverse                                                                 *)

\* Fault: no check that any entries were found.
ReverseUnchecked(j, t, d) ==
  /\ pc[j] = "idle"
  /\ d < Room[t]
  /\ Goto(j, IF posted[<<t, d>>] = 0 THEN "commit" ELSE "revlock")
  /\ op'    = [op EXCEPT ![j] = [kind |-> "reverse", tx |-> t, level |-> d]]
  /\ found' = [found EXCEPT ![j] = posted[<<t, d>>]]
  /\ UNCHANGED <<tables, holder, cursor, local>>

\* Begin and the SELECT of the entries, which takes no lock.  All it asks of
\* the id is that it has entries: those of a reversal will do.
BeginReverse(j, t, d) ==
  /\ pc[j] = "idle"
  /\ posted[<<t, d>>] > 0
  /\ Goto(j, "revlock")
  /\ op'    = [op EXCEPT ![j] = [kind |-> "reverse", tx |-> t, level |-> d]]
  /\ found' = [found EXCEPT ![j] = posted[<<t, d>>]]
  /\ UNCHANGED <<tables, holder, cursor, local>>

\* "No Entries Found": the call returns before it writes anything.
NothingToReverse(j, t, d) ==
  /\ pc[j] = "idle"
  /\ posted[<<t, d>>] = 0
  /\ Goto(j, "done")
  /\ op'     = [op EXCEPT ![j] = [kind |-> "reverse", tx |-> t, level |-> d]]
  /\ UNCHANGED <<tables, holder, found, cursor, local>>

LockReversed(j) ==
  /\ pc[j] = "revlock"
  /\ LockAccount(j, ReversedAccount(op[j].tx, cursor[j]))
  /\ Goto(j, "revpost")
  /\ UNCHANGED <<tables, calls, went>>

\* The _REVERSAL entry and the balance that goes with it.
ReversalEntry(j) ==
  LET a == ReversedAccount(op[j].tx, cursor[j])
      m == ReversalAmount(op[j].tx, op[j].level, cursor[j])
  IN  [id |-> Under(j), amount |-> m, balance |-> read[j][a].balance + m]

PostReversal(j) ==
  LET a == ReversedAccount(op[j].tx, cursor[j])
  IN  /\ pc[j] = "revpost"
      /\ op[j].level < Room[op[j].tx]
      /\ VersionMatches(j, a)
      /\ went'   = [went EXCEPT ![j] = Insert(@, a, ReversalEntry(j))]
      /\ view'   = [view EXCEPT ![j][a] = Updated(j, a, ReversalEntry(j).balance)]
      /\ cursor' = [cursor EXCEPT ![j] = @ + 1]
      /\ Goto(j, IF cursor[j] + 1 = 2 * found[j] THEN "commit" ELSE "revlock")
      /\ UNCHANGED <<tables, holder, op, found, read>>

\* One more "_REVERSAL" does not fit: createLedgerEntry fails.
IdTooLong(j) ==
  /\ pc[j] = "revpost"
  /\ op[j].level = Room[op[j].tx]
  /\ Rollback(j)

-----------------------------------------------------------------------------
(* The end of a call                                                       *)

\* The states a transaction has appended by the time it commits.
NewStates(j) == IF op[j].kind = "transfer" THEN <<"PENDING", "SUCCESS">>
                                           ELSE <<"REVERSED">>

\* The pairs of entries it has inserted by then.
NewPairs(j) == IF op[j].kind = "transfer" THEN 1 ELSE found[j]

\* tx.Commit(): the writes become visible and the locks go, at once.
Commit(j) ==
  /\ pc[j] = "commit"
  /\ row'    = [a \in Accounts |-> IF holder[a] = j THEN view[j][a] ELSE row[a]]
  /\ hist'   = [a \in Accounts |-> hist[a] \o went[j][a]]
  /\ posted' = [posted EXCEPT ![Under(j)] = @ + NewPairs(j)]
  /\ states' = [states EXCEPT ![Id(j)] = @ \o NewStates(j)]
  /\ holder' = [a \in Accounts |-> IF holder[a] = j THEN None ELSE holder[a]]
  /\ Forget(j)
  /\ Goto(j, "done")
  /\ UNCHANGED calls

\* A statement, the connection or the process fails; PostgreSQL aborts.
StatementFails(j) == Active(j) /\ Rollback(j)

\* The row whose lock a call is asking for.
Wants(j, a) ==
  \/ pc[j] = "lock1"   /\ a = LockOrder(op[j].tx)[1]
  \/ pc[j] = "lock2"   /\ a = LockOrder(op[j].tx)[2]
  \/ pc[j] = "revlock" /\ a = ReversedAccount(op[j].tx, cursor[j])

WaitsFor(j, k) ==
  j # k /\ \E a \in Accounts : Wants(j, a) /\ holder[a] = k

\* A call waits for one other at most, so a set in which every member waits
\* and is waited for is made of cycles.
Cycle(S) ==
  \A k \in S : /\ \E l \in S : WaitsFor(k, l)
              /\ \E l \in S : WaitsFor(l, k)

Deadlocked(j) == \E S \in SUBSET Jobs : j \in S /\ Cycle(S)

\* PostgreSQL's deadlock detector picks a victim.
DeadlockVictim(j) == Deadlocked(j) /\ Rollback(j)

Step(j) ==
  \/ LockFirst(j) \/ LockSecond(j) \/ MissingAccount(j)
  \/ PostEntries(j) \/ UpdateDebit(j) \/ UpdateCredit(j)
  \/ OptimisticLockFailed(j)
  \/ LockReversed(j) \/ PostReversal(j) \/ IdTooLong(j)
  \/ Commit(j) \/ DeadlockVictim(j)

Next ==
  \E j \in Jobs :
    \/ \E t \in TxIds :
         \/ BeginTransfer(j, t)
         \/ \E d \in 0..Room[t] : BeginReverse(j, t, d) \/ NothingToReverse(j, t, d)
    \/ Step(j)
    \/ StatementFails(j)

Spec     == Init /\ [][Next]_vars
FairSpec == Spec /\ \A j \in Jobs : WF_vars(Step(j))

-----------------------------------------------------------------------------
(* Properties                                                              *)

TypeOK ==
  /\ row    \in [Accounts -> Row]
  /\ hist   \in [Accounts -> Seq(Entry)]
  /\ posted \in [Ids -> Nat]
  /\ states \in [Ids -> Seq(State)]
  /\ holder \in [Accounts -> Jobs \cup {None}]
  /\ pc     \in [Jobs -> PC]
  /\ op     \in [Jobs -> Op]
  /\ found  \in [Jobs -> Nat]
  /\ cursor \in [Jobs -> Nat]
  /\ read   \in [Jobs -> [Accounts -> Row]]
  /\ view   \in [Jobs -> [Accounts -> Row]]
  /\ went   \in [Jobs -> [Accounts -> Seq(Entry)]]

\* The entries of an account tell its history without a gap: each running
\* balance is the one before it plus the entry's amount.
Chained(s, open) ==
  \A i \in 1..Len(s) :
     s[i].balance = s[i].amount + (IF i = 1 THEN open ELSE s[i - 1].balance)

LastBalance(s, open) == IF s = << >> THEN open ELSE s[Len(s)].balance

\* accounts.balance (written by updateAccountBalance from a balance read
\* earlier) is never out of step with ledger_entries: no interleaving of
\* transfers and reversals loses an update or leaves a gap in the entries.
BalancesFollowEntries ==
  \A a \in Accounts :
     /\ Chained(hist[a], Opening[a])
     /\ row[a].balance = LastBalance(hist[a], Opening[a])

\* Money is neither made nor lost: what all accounts hold together is what
\* they opened with, after every commit (the two updateAccountBalance calls
\* of TransferTx and the mirrored ones of Reverse).
Conservation ==
  SumFunctionOnSet([a \in Accounts |-> row[a].balance], Accounts)
    = SumFunctionOnSet(Opening, Accounts)

\* What the entries under <<t, d>> rest on: a transfer that succeeded, or a
\* reversal, which is recorded for the id it was given, one level below.
Founded(t, d) ==
  IF d = 0 THEN \E k \in 1..Len(states[<<t, 0>>]) : states[<<t, 0>>][k] = "SUCCESS"
  ELSE \E k \in 1..Len(states[<<t, d - 1>>]) : states[<<t, d - 1>>][k] = "REVERSED"

\* payment_states: whatever calls raced, REVERSED is only recorded for an id
\* that something stands behind: a transfer recorded as SUCCESS or, for an id
\* with "_REVERSAL" behind it, a reversal recorded before.  (It is not only
\* recorded after a SUCCESS of the id itself: Reverse looks for entries, and
\* those of a reversal are entries too, ledger_service.go:101 and :118.)
ReversedWasFounded ==
  \A t \in TxIds : \A d \in 0..Room[t] :
     \A i \in 1..Len(states[<<t, d>>]) :
        states[<<t, d>>][i] = "REVERSED" => Founded(t, d)

\* TransferTx locks "in consistent order to prevent deadlocks"
\* (ledger_service.go:145): no set of transfers waits for itself, whatever
\* reversals run beside them.  With reversals in it a set can: Reverse locks
\* in the order of the entries (ledger_service.go:106).
TransfersNeverDeadlock ==
  \A S \in SUBSET {j \in Jobs : op[j].kind = "transfer"} : S = {} \/ ~Cycle(S)

\* Every call ends, whatever locks it meets: waits end because a holder
\* commits, rolls back or falls to the deadlock detector.
EveryCallEnds == \A j \in Jobs : Active(j) ~> (pc[j] = "done")

\* What callers see is atomic transfers and reversals on the balances.
Abstract == INSTANCE LedgerSpec WITH
              balance <- [a \in Accounts |-> row[a].balance],
              executed <- posted
AtomicLedger == Abstract!Spec

=============================================================================

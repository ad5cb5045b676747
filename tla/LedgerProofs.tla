---------------------------- MODULE LedgerProofs ----------------------------
(***************************************************************************)
(* Theorems about Ledger, for any accounts, payments and calls: its        *)
(* invariant, that no update is lost, that transfers never deadlock among  *)
(* themselves, and that it implements LedgerSpec.                          *)
(***************************************************************************)
EXTENDS LedgerInvariant, SequenceTheorems, Sums, TLAPS

TypeInv == TypeOK /\ ControlOK

USE AccountsAssumption, OpeningAssumption, PaymentAssumption, FeeAssumption,
    NoneAssumption, RoomAssumption

\* The ids are the payments' with as many suffixes as there is room for.
LEMMA IdIn ==
  ASSUME NEW t \in TxIds, NEW d \in 0..Room[t]
  PROVE  <<t, d>> \in Ids
  BY DEF Ids

LEMMA PaymentType ==
  ASSUME NEW t \in TxIds
  PROVE  /\ Debited(t) \in Int /\ Credited(t) \in Int /\ Amount(t) \in Int
         /\ LockOrder(t)[1] \in {Debited(t), Credited(t)}
         /\ LockOrder(t)[2] \in {Debited(t), Credited(t)}
         /\ {LockOrder(t)[1], LockOrder(t)[2]} = {Debited(t), Credited(t)}
         /\ LockOrder(t)[1] <= LockOrder(t)[2]
         /\ \A n \in Nat : ReversedAccount(t, n) \in {Debited(t), Credited(t)}
         /\ \A d, n \in Nat : PutBack(t, d) \in Int /\ ReversalAmount(t, d, n) \in Int
  <1>1. Debited(t) \in Int /\ Credited(t) \in Int /\ Amount(t) \in Int
    BY DEF Debited, Credited, Amount
  <1>2. QED
    BY <1>1 DEF LockOrder, ReversedAccount, ReversalAmount, PutBack

\* The id a call was given, and the one it writes under where that fits.
LEMMA IdsOf ==
  ASSUME TypeInv, NEW j \in Jobs, Active(j)
  PROVE  /\ op[j].tx \in TxIds /\ op[j].level \in 0..Room[op[j].tx]
         /\ Id(j) = <<op[j].tx, op[j].level>> /\ Id(j) \in Ids
         /\ op[j].kind = "transfer" => Under(j) = <<op[j].tx, 0>> /\ Under(j) \in Ids
         /\ op[j].kind # "transfer" => Under(j) = <<op[j].tx, op[j].level + 1>>
         /\ op[j].kind # "transfer" /\ op[j].level < Room[op[j].tx] => Under(j) \in Ids
         /\ pc[j] = "commit" => Under(j) \in Ids
         /\ NewPairs(j) \in Nat
  <1>1. op[j].tx \in TxIds /\ op[j].level \in 0..Room[op[j].tx]
    BY DEF TypeInv, ControlOK
  <1>2. op[j].kind = "transfer" => op[j].level = 0
    BY DEF TypeInv, ControlOK
  <1>3. NewPairs(j) \in Nat
    BY DEF TypeInv, TypeOK, NewPairs
  <1>4. Id(j) \in Ids
    BY <1>1, IdIn DEF Id
  <1>5. /\ op[j].kind = "transfer" => Under(j) = <<op[j].tx, 0>> /\ Under(j) = Id(j)
        /\ op[j].kind # "transfer" => Under(j) = <<op[j].tx, op[j].level + 1>>
    BY <1>2 DEF Under, Id
  <1>6. op[j].kind # "transfer" /\ op[j].level < Room[op[j].tx] => Under(j) \in Ids
    <2>1. Room[op[j].tx] \in Nat
      BY <1>1
    <2>2. op[j].level < Room[op[j].tx] => op[j].level + 1 \in 0..Room[op[j].tx]
      BY <1>1, <2>1
    <2>. QED  BY <1>1, <1>5, <2>2, IdIn
  <1>7. pc[j] = "commit" => Under(j) \in Ids
    <2>1. pc[j] = "commit" /\ op[j].kind # "transfer" => op[j].level < Room[op[j].tx]
      BY DEF TypeInv, ControlOK
    <2>. QED  BY <1>4, <1>5, <1>6, <2>1
  <1>. QED  BY <1>1, <1>3, <1>4, <1>5, <1>6, <1>7 DEF Id

LEMMA RollbackType ==
  ASSUME TypeInv, NEW j \in Jobs, Rollback(j)
  PROVE  TypeInv'
  <1>. USE DEF Rollback, Goto, Forget, tables, calls
  <1>1. TypeOK'
    BY DEF TypeInv, TypeOK, Unread, Row, Op, PC
  <1>2. ControlOK'
    BY DEF TypeInv, ControlOK, Active, TypeOK
  <1>. QED  BY <1>1, <1>2 DEF TypeInv

LEMMA InsertType ==
  ASSUME NEW w \in [Accounts -> Seq(Entry)], NEW a \in Accounts, NEW e \in Entry
  PROVE  Insert(w, a, e) \in [Accounts -> Seq(Entry)]
  <1>1. Append(w[a], e) \in Seq(Entry)
    OBVIOUS
  <1>. QED  BY <1>1 DEF Insert

LEMMA ReadBalance ==
  ASSUME TypeInv, NEW j \in Jobs, NEW a \in Accounts
  PROVE  read[j][a].balance \in Int /\ read[j][a].version \in Nat
  <1>1. read[j][a] \in Row
    BY DEF TypeInv, TypeOK
  <1>. QED  BY <1>1 DEF Row

LEMMA UpdatedType ==
  ASSUME TypeInv, NEW j \in Jobs, NEW a \in Accounts, NEW b \in Int,
         view' = [view EXCEPT ![j][a] = Updated(j, a, b)]
  PROVE  view' \in [Jobs -> [Accounts -> Row]]
  <1>1. view[j][a].version \in Nat
    BY DEF TypeInv, TypeOK, Row
  <1>2. Updated(j, a, b) \in Row
    BY <1>1 DEF Updated, Row
  <1>. QED  BY <1>2 DEF TypeInv, TypeOK

LEMMA LockType ==
  ASSUME TypeInv, NEW j \in Jobs, NEW a \in Accounts, LockAccount(j, a)
  PROVE  /\ holder' \in [Accounts -> Jobs \cup {None}]
         /\ read' \in [Jobs -> [Accounts -> Row]]
         /\ view' \in [Jobs -> [Accounts -> Row]]
  BY DEF LockAccount, TypeInv, TypeOK

LEMMA TypeStep ==
  ASSUME TypeInv, [Next]_vars
  PROVE  TypeInv'
<1>. USE DEF tables, calls, local, Goto
<1>1. ASSUME NEW j \in Jobs, NEW t \in TxIds, BeginTransfer(j, t)
      PROVE  TypeInv'
  <2>1. TypeOK'
    BY <1>1 DEF BeginTransfer, TypeInv, TypeOK, Op, PC
  <2>2. ControlOK'
    BY <1>1 DEF BeginTransfer, TypeInv, TypeOK, ControlOK, Active, Op, PC
  <2>. QED  BY <2>1, <2>2 DEF TypeInv
<1>2. ASSUME NEW j \in Jobs, NEW t \in TxIds, NEW d \in 0..Room[t], BeginReverse(j, t, d)
      PROVE  TypeInv'
  <2>1. TypeOK'
    BY <1>2, IdIn DEF BeginReverse, TypeInv, TypeOK, Op, PC
  <2>2. ControlOK'
    BY <1>2 DEF BeginReverse, TypeInv, TypeOK, ControlOK, Active, Op, PC
  <2>. QED  BY <2>1, <2>2 DEF TypeInv
<1>3. ASSUME NEW j \in Jobs, NEW t \in TxIds, NEW d \in 0..Room[t], NothingToReverse(j, t, d)
      PROVE  TypeInv'
  <2>1. TypeOK'
    <3>1. op' \in [Jobs -> Op]
      BY <1>3 DEF NothingToReverse, TypeInv, TypeOK, Op
    <3>2. pc' \in [Jobs -> PC]
      BY <1>3 DEF NothingToReverse, TypeInv, TypeOK, PC
    <3>. QED  BY <1>3, <3>1, <3>2 DEF NothingToReverse, TypeInv, TypeOK
  <2>2. ControlOK'
    BY <1>3 DEF NothingToReverse, TypeInv, TypeOK, ControlOK, Active, Op, PC
  <2>. QED  BY <2>1, <2>2 DEF TypeInv
<1>4. ASSUME NEW j \in Jobs, LockFirst(j)
      PROVE  TypeInv'
  <2>1. TypeOK'
    BY <1>4, LockType DEF LockFirst, TypeInv, TypeOK, PC
  <2>2. ControlOK'
    BY <1>4 DEF LockFirst, TypeInv, TypeOK, ControlOK, Active
  <2>. QED  BY <2>1, <2>2 DEF TypeInv
<1>5. ASSUME NEW j \in Jobs, LockSecond(j)
      PROVE  TypeInv'
  <2>1. TypeOK'
    BY <1>5, LockType DEF LockSecond, TypeInv, TypeOK, PC
  <2>1a. /\ op[j].tx \in TxIds
         /\ LockOrder(op[j].tx)[1] \in Accounts
         /\ LockOrder(op[j].tx)[2] \in Accounts
    BY <1>5 DEF LockSecond, TypeInv, ControlOK, Active
  <2>2. Movable(op[j].tx)
    BY <2>1a DEF LockOrder, Movable
  <2>3. ControlOK'
    BY <1>5, <2>2 DEF LockSecond, TypeInv, TypeOK, ControlOK, Active
  <2>. QED  BY <2>1, <2>3 DEF TypeInv
<1>6. ASSUME NEW j \in Jobs, PostEntries(j)
      PROVE  TypeInv'
  <2>1. op[j].tx \in TxIds /\ Movable(op[j].tx)
    BY <1>6 DEF PostEntries, TypeInv, ControlOK, Active
  <2>1b. Under(j) \in Ids
    BY <1>6, IdsOf DEF PostEntries, TypeInv, ControlOK, Active
  <2>1a. DebitEntry(j) \in Entry /\ CreditEntry(j) \in Entry
    BY <2>1, <2>1b, PaymentType, ReadBalance DEF DebitEntry, CreditEntry, Movable, Entry
  <2>2. went' \in [Jobs -> [Accounts -> Seq(Entry)]]
    <3>1. went[j] \in [Accounts -> Seq(Entry)]
      BY DEF TypeInv, TypeOK
    <3>2. Insert(went[j], Debited(op[j].tx), DebitEntry(j))
            \in [Accounts -> Seq(Entry)]
      BY <3>1, <2>1, <2>1a, InsertType DEF Movable
    <3>3. Insert(Insert(went[j], Debited(op[j].tx), DebitEntry(j)),
                 Credited(op[j].tx), CreditEntry(j)) \in [Accounts -> Seq(Entry)]
      BY <3>2, <2>1, <2>1a, InsertType DEF Movable
    <3>. QED  BY <1>6, <3>3 DEF PostEntries, TypeInv, TypeOK
  <2>3. TypeOK'
    BY <1>6, <2>2 DEF PostEntries, TypeInv, TypeOK, PC
  <2>4. ControlOK'
    BY <1>6 DEF PostEntries, TypeInv, TypeOK, ControlOK, Active
  <2>. QED  BY <2>3, <2>4 DEF TypeInv
<1>7. ASSUME NEW j \in Jobs, UpdateDebit(j)
      PROVE  TypeInv'
  <2>1. op[j].tx \in TxIds /\ Movable(op[j].tx)
    BY <1>7 DEF UpdateDebit, TypeInv, ControlOK, Active
  <2>2. view' \in [Jobs -> [Accounts -> Row]]
    <3>. DEFINE a == Debited(op[j].tx)
                b == read[j][a].balance - Amount(op[j].tx)
    <3>1. a \in Accounts
      BY <2>1 DEF Movable
    <3>2. b \in Int
      BY <2>1, <3>1, PaymentType, ReadBalance
    <3>3. view' = [view EXCEPT ![j][a] = Updated(j, a, b)]
      BY <1>7 DEF UpdateDebit
    <3>. HIDE DEF a, b
    <3>. QED  BY <3>1, <3>2, <3>3, UpdatedType
  <2>3. TypeOK'
    BY <1>7, <2>2 DEF UpdateDebit, TypeInv, TypeOK, PC
  <2>4. ControlOK'
    <3>1. /\ pc[j] = "debit" /\ pc' = [pc EXCEPT ![j] = "credit"]
          /\ UNCHANGED <<posted, op>>
      BY <1>7 DEF UpdateDebit
    <3>. QED  BY <3>1 DEF TypeInv, TypeOK, ControlOK, Active
  <2>. QED  BY <2>3, <2>4 DEF TypeInv
<1>8. ASSUME NEW j \in Jobs, UpdateCredit(j)
      PROVE  TypeInv'
  <2>1. op[j].tx \in TxIds /\ Movable(op[j].tx)
    BY <1>8 DEF UpdateCredit, TypeInv, ControlOK, Active
  <2>2. view' \in [Jobs -> [Accounts -> Row]]
    <3>. DEFINE a == Credited(op[j].tx)
                b == read[j][a].balance + Amount(op[j].tx)
    <3>1. a \in Accounts
      BY <2>1 DEF Movable
    <3>2. b \in Int
      BY <2>1, <3>1, PaymentType, ReadBalance
    <3>3. view' = [view EXCEPT ![j][a] = Updated(j, a, b)]
      BY <1>8 DEF UpdateCredit
    <3>. HIDE DEF a, b
    <3>. QED  BY <3>1, <3>2, <3>3, UpdatedType
  <2>3. TypeOK'
    BY <1>8, <2>2 DEF UpdateCredit, TypeInv, TypeOK, PC
  <2>4. ControlOK'
    <3>1. /\ pc[j] = "credit" /\ pc' = [pc EXCEPT ![j] = "commit"]
          /\ UNCHANGED <<posted, op>>
      BY <1>8 DEF UpdateCredit
    <3>. QED  BY <3>1 DEF TypeInv, TypeOK, ControlOK, Active
  <2>. QED  BY <2>3, <2>4 DEF TypeInv
<1>9. ASSUME NEW j \in Jobs, LockReversed(j)
      PROVE  TypeInv'
  <2>1. ReversedAccount(op[j].tx, cursor[j]) \in Accounts
    BY <1>9
       DEF LockReversed, TypeInv, ControlOK, ReversedAccount, Movable
  <2>2. TypeOK'
    BY <1>9, <2>1, LockType DEF LockReversed, TypeInv, TypeOK, PC
  <2>3. ControlOK'
    BY <1>9 DEF LockReversed, TypeInv, TypeOK, ControlOK, Active
  <2>. QED  BY <2>2, <2>3 DEF TypeInv
<1>10. ASSUME NEW j \in Jobs, PostReversal(j)
       PROVE  TypeInv'
  <2>1. op[j].tx \in TxIds /\ ReversedAccount(op[j].tx, cursor[j]) \in Accounts
    BY <1>10
       DEF PostReversal, TypeInv, ControlOK, Active, ReversedAccount, Movable
  <2>2. ReversalEntry(j) \in Entry
    <3>1. ReversalAmount(op[j].tx, op[j].level, cursor[j]) \in Int
      BY <2>1, PaymentType DEF TypeInv, TypeOK, Op
    <3>1a. Under(j) \in Ids
      BY <1>10, IdsOf DEF PostReversal, TypeInv, ControlOK, Active
    <3>2. read[j][ReversedAccount(op[j].tx, cursor[j])].balance \in Int
      BY <2>1, ReadBalance
    <3>. QED  BY <3>1, <3>1a, <3>2 DEF ReversalEntry, Entry
  <2>3. view' \in [Jobs -> [Accounts -> Row]]
    <3>1. ReversalEntry(j).balance \in Int
      BY <2>2 DEF Entry
    <3>. QED  BY <1>10, <2>1, <3>1, UpdatedType DEF PostReversal
  <2>4. went' \in [Jobs -> [Accounts -> Seq(Entry)]]
    BY <1>10, <2>1, <2>2, InsertType DEF PostReversal, TypeInv, TypeOK
  <2>5. TypeOK'
    <3>1. cursor' \in [Jobs -> Nat]
      BY <1>10 DEF PostReversal, TypeInv, TypeOK
    <3>2. pc' \in [Jobs -> PC]
      <4>1. \E q \in PC : pc' = [pc EXCEPT ![j] = q]
        BY <1>10 DEF PostReversal, PC
      <4>2. pc \in [Jobs -> PC]
        BY DEF TypeInv, TypeOK
      <4>. QED  BY <4>1, <4>2
    <3>3. UNCHANGED <<tables, holder, op, found, read>>
      BY <1>10 DEF PostReversal
    <3>. QED  BY <2>3, <2>4, <3>1, <3>2, <3>3 DEF TypeInv, TypeOK
  <2>6. ControlOK'
    BY <1>10 DEF PostReversal, TypeInv, TypeOK, ControlOK, Active
  <2>. QED  BY <2>5, <2>6 DEF TypeInv
<1>11. ASSUME NEW j \in Jobs, Commit(j)
       PROVE  TypeInv'
  <2>1. op[j].tx \in TxIds /\ Movable(op[j].tx)
    BY <1>11 DEF Commit, TypeInv, ControlOK, Active
  <2>2. hist' \in [Accounts -> Seq(Entry)]
    BY <1>11 DEF Commit, TypeInv, TypeOK
  <2>3. NewStates(j) \in Seq(State)
    <3>1. /\ "PENDING" \in State /\ "SUCCESS" \in State
          /\ "REVERSED" \in State
      BY DEF State
    <3>. QED  BY <3>1 DEF NewStates
  <2>3a. Id(j) \in Ids /\ Under(j) \in Ids /\ NewPairs(j) \in Nat
    BY <1>11, IdsOf DEF Commit, Active
  <2>4. states' \in [Ids -> Seq(State)]
    <3>1. states[Id(j)] \o NewStates(j) \in Seq(State)
      BY <2>3a, <2>3 DEF TypeInv, TypeOK
    <3>. QED  BY <1>11, <3>1 DEF Commit, TypeInv, TypeOK
  <2>5a. /\ row' \in [Accounts -> Row]
         /\ posted' \in [Ids -> Nat]
         /\ holder' \in [Accounts -> Jobs \cup {None}]
    BY <1>11, <2>3a DEF Commit, TypeInv, TypeOK
  <2>5b. /\ read' \in [Jobs -> [Accounts -> Row]]
         /\ view' \in [Jobs -> [Accounts -> Row]]
         /\ went' \in [Jobs -> [Accounts -> Seq(Entry)]]
    BY <1>11 DEF Commit, Forget, TypeInv, TypeOK, Row, Unread
  <2>5. TypeOK'
    BY <1>11, <2>2, <2>4, <2>5a, <2>5b DEF Commit, TypeInv, TypeOK, PC
  <2>6. ControlOK'
    <3>1. ASSUME NEW t \in TxIds, NEW d \in 0..Room[t], posted'[<<t, d>>] > 0
          PROVE  Movable(t)'
      <4>1. CASE <<t, d>> = Under(j)
        <5>1. t = op[j].tx
          BY <4>1 DEF Under, Id
        <5>. QED  BY <2>1, <5>1 DEF Movable, Debited, Credited
      <4>2. CASE <<t, d>> # Under(j)
        <5>1. posted'[<<t, d>>] = posted[<<t, d>>]
          BY <4>2, <1>11, IdIn DEF Commit, TypeInv, TypeOK
        <5>. QED  BY <3>1, <5>1 DEF TypeInv, ControlOK, Movable, Debited, Credited
      <4>. QED  BY <4>1, <4>2
    <3>. QED  BY <1>11, <2>1, <3>1 DEF Commit, TypeInv, TypeOK, ControlOK, Active
  <2>. QED  BY <2>5, <2>6 DEF TypeInv
<1>12. ASSUME NEW j \in Jobs, Rollback(j)
       PROVE  TypeInv'
  BY <1>12, RollbackType
<1>13. CASE UNCHANGED vars
  BY <1>13 DEF vars, TypeInv, TypeOK, ControlOK, Active
<1>. QED
  BY <1>1, <1>2, <1>3, <1>4, <1>5, <1>6, <1>7, <1>8, <1>9, <1>10, <1>11,
     <1>12, <1>13
     DEF Next, Step, MissingAccount, OptimisticLockFailed, StatementFails,
         DeadlockVictim, IdTooLong

\* Every variable keeps its type and a call is only ever at a statement
\* whose arguments exist: a posted payment has a row at both ends.
THEOREM TypeCorrect == Spec => []TypeInv
<1>1. Init => TypeInv
  BY IdIn DEF Init, TypeInv, TypeOK, ControlOK, Active, Row, Unread, Op, PC
<1>2. TypeInv /\ [Next]_vars => TypeInv'
  BY TypeStep
<1>. QED  BY <1>1, <1>2, PTL DEF Spec

-----------------------------------------------------------------------------
(* The inductive invariant.                                                *)

\* An entry whose balance continues the last one keeps a history chained.
LEMMA ChainAppend ==
  ASSUME NEW s \in Seq(Entry), NEW e \in Entry, NEW open \in Int,
         Chained(s, open), e.balance = e.amount + LastBalance(s, open)
  PROVE  /\ Chained(Append(s, e), open)
         /\ LastBalance(Append(s, e), open) = e.balance
<1>. DEFINE r == Append(s, e)
<1>1. /\ r \in Seq(Entry) /\ Len(r) = Len(s) + 1 /\ r # << >>
      /\ r[Len(s) + 1] = e
      /\ \A i \in 1..Len(s) : r[i] = s[i]
      /\ Len(s) \in Nat
  BY AppendProperties, LenProperties
<1>2. LastBalance(r, open) = e.balance
  BY <1>1 DEF LastBalance
<1>3. ASSUME NEW i \in 1..Len(r)
      PROVE  r[i].balance = r[i].amount + (IF i = 1 THEN open ELSE r[i - 1].balance)
  <2>1. CASE i \in 1..Len(s)
    BY <2>1, <1>1 DEF Chained
  <2>2. CASE i = Len(s) + 1
    <3>1. (s = << >>) <=> (Len(s) = 0)
      OBVIOUS
    <3>2. CASE Len(s) = 0
      BY <2>2, <3>1, <3>2, <1>1 DEF LastBalance
    <3>3. CASE Len(s) > 0
      BY <2>2, <3>1, <3>3, <1>1 DEF LastBalance
    <3>. QED  BY <3>2, <3>3, <1>1
  <2>. QED  BY <2>1, <2>2, <1>1
<1>. QED  BY <1>2, <1>3 DEF Chained

\* Inserting at the end of a transaction's entries is inserting at the end of
\* what it sees.
LEMMA ConcatAppend ==
  ASSUME NEW h \in Seq(Entry), NEW w \in Seq(Entry), NEW e \in Entry
  PROVE  h \o Append(w, e) = Append(h \o w, e)
<1>1. /\ h \o Append(w, e) \in Seq(Entry) /\ Append(h \o w, e) \in Seq(Entry)
      /\ Len(h \o Append(w, e)) = Len(Append(h \o w, e))
  OBVIOUS
<1>2. ASSUME NEW i \in 1..Len(h \o Append(w, e))
      PROVE  (h \o Append(w, e))[i] = Append(h \o w, e)[i]
  OBVIOUS
<1>. QED  BY <1>1, <1>2, SeqEqual

\* A call that a step of another leaves alone keeps its part of the
\* invariant: the rows it has locked are out of that step's reach.
LEMMA Untouched ==
  ASSUME LedgerInv, NEW k \in Jobs,
         pc'[k] = pc[k], op'[k] = op[k], found'[k] = found[k],
         cursor'[k] = cursor[k], read'[k] = read[k], view'[k] = view[k],
         went'[k] = went[k],
         \A id \in Ids : posted'[id] \in Nat /\ posted'[id] >= posted[id],
         \A a \in Accounts : holder'[a] = k <=> holder[a] = k,
         \A a \in Accounts : holder[a] = k => row'[a] = row[a] /\ hist'[a] = hist[a]
  PROVE  JobOK(k)'
<1>1. JobOK(k) /\ ControlOK /\ TypeOK
  BY DEF LedgerInv
<1>2. \A a \in Accounts : Seen(k, a)' = (IF holder[a] = k THEN Seen(k, a) ELSE Seen(k, a)')
  BY DEF Seen
<1>3. \A a \in Accounts : \A d :
        holder[a] = k => /\ Entered(k, a, d) <=> Entered(k, a, d)'
                         /\ Written(k, a, d) <=> Written(k, a, d)'
                         /\ Fresh(k, a) <=> Fresh(k, a)'
  BY DEF Entered, Written, Fresh, Seen
<1>4. TransferOK(k)'
  <2>1. TransferOK(k)
    BY <1>1 DEF JobOK
  <2>2. pc[k] \in {"post", "debit", "credit", "commit"} =>
          Debited(op[k].tx) \in Accounts /\ Credited(op[k].tx) \in Accounts
    BY <1>1 DEF ControlOK, Movable
  <2>3. pc[k] = "lock2" => LockOrder(op[k].tx)[1] \in Accounts
    BY <1>1 DEF ControlOK
  <2>4. pc[k] \in {"lock1", "lock2", "post"} =>
          \A a \in Accounts : holder'[a] = k => Fresh(k, a)'
    BY <1>3, <2>1 DEF TransferOK
  <2>5. /\ pc[k] = "lock2" => holder'[LockOrder(op[k].tx)[1]] = k
        /\ pc[k] \in {"post", "debit", "credit"} =>
             holder'[Debited(op[k].tx)] = k /\ holder'[Credited(op[k].tx)] = k
    BY <2>1, <2>2, <2>3 DEF TransferOK
  <2>. DEFINE d == Debited(op[k].tx)
              c == Credited(op[k].tx)
              m == Amount(op[k].tx)
  <2>6. pc[k] \in {"debit", "credit", "commit"} /\ (pc[k] = "commit" => op[k].kind = "transfer")
          => /\ d \in Accounts /\ c \in Accounts /\ holder[d] = k /\ holder[c] = k
             /\ row'[d] = row[d] /\ row'[c] = row[c]
    BY <2>1, <2>2 DEF TransferOK
  <2>7. /\ pc[k] \in {"debit", "credit"} =>
             /\ d # c => Entered(k, d, 0 - m)' /\ Entered(k, c, m)'
             /\ read'[k][d] = row'[d] /\ read'[k][c] = row'[c]
        /\ pc[k] = "debit" => view'[k][d] = row'[d] /\ view'[k][c] = row'[c]
        /\ pc[k] = "credit" =>
             /\ view'[k][d].balance = row'[d].balance - m
             /\ view'[k][d].version = row'[d].version + 1
    BY <1>3, <2>1, <2>6 DEF TransferOK
  <2>8. pc[k] = "commit" /\ op[k].kind = "transfer" =>
          /\ d # c /\ holder'[d] = k /\ holder'[c] = k
          /\ Written(k, d, 0 - m)' /\ Written(k, c, m)'
    BY <1>3, <2>1, <2>6 DEF TransferOK
  <2>9. /\ Debited(op[k].tx)' = d /\ Credited(op[k].tx)' = c /\ Amount(op[k].tx)' = m
        /\ LockOrder(op[k].tx)' = LockOrder(op[k].tx)
    BY DEF Debited, Credited, Amount, LockOrder
  <2>. HIDE DEF d, c, m
  <2>. QED  BY <2>4, <2>5, <2>7, <2>8, <2>9 DEF TransferOK, d, c, m
<1>5. ReverseOK(k)'
  <2>1. ReverseOK(k)
    BY <1>1 DEF JobOK
  <2>2. pc[k] \in {"revlock", "revpost", "commit"} =>
          /\ Id(k) \in Ids
          /\ Debited(op[k].tx) \in Accounts /\ Credited(op[k].tx) \in Accounts
          /\ ReversedAccount(op[k].tx, cursor[k]) \in Accounts
    BY <1>1, IdIn DEF ControlOK, Movable, Active, ReversedAccount, Id
  <2>3. /\ \A id \in Ids : posted[id] \in Nat
        /\ found[k] \in Nat
    BY <1>1 DEF TypeOK
  <2>. DEFINE G(a) == GivenBack(op[k].tx, op[k].level, a, cursor[k])
              R == ReversedAccount(op[k].tx, cursor[k])
              P == \/ pc[k] \in {"revlock", "revpost"}
                   \/ pc[k] = "commit" /\ op[k].kind = "reverse"
  <2>4. \A a : GivenBack(op[k].tx, op[k].level, a, cursor[k])' = G(a)
    BY DEF GivenBack, PutBack, Debited, Amount
  <2>5. ReversedAccount(op[k].tx, cursor[k])' = R
    BY DEF ReversedAccount, Debited, Credited
  <2>6. P => \A a \in Accounts : holder[a] = k => Written(k, a, G(a))
    BY <2>1 DEF ReverseOK
  <2>7. ASSUME P, NEW a \in Accounts, holder'[a] = k
        PROVE  Written(k, a, GivenBack(op[k].tx, op[k].level, a, cursor[k]))'
    <3>1. PICK d : d = G(a)
      OBVIOUS
    <3>2. Written(k, a, d)'
      BY <2>6, <2>7, <3>1, <1>3
    <3>3. GivenBack(op[k].tx, op[k].level, a, cursor[k])' = d
      BY <2>4, <3>1
    <3>. QED  BY <3>2, <3>3 DEF Written, Entered
  <2>8. P => found[k] \in 1..posted'[Id(k)]
    BY <2>1, <2>2, <2>3 DEF ReverseOK
  <2>9. Id(k)' = Id(k)
    BY DEF Id
  <2>. QED  BY <2>1, <2>2, <2>4, <2>5, <2>7, <2>8, <2>9 DEF ReverseOK
<1>. QED  BY <1>1, <1>4, <1>5 DEF JobOK, Active

\* What any statement of one call leaves of another call's part.
LEMMA OthersKeep ==
  ASSUME LedgerInv, NEW j \in Jobs, NEW k \in Jobs, k # j,
         \/ \E t \in TxIds : \/ BeginTransfer(j, t)
                             \/ \E d \in 0..Room[t] : BeginReverse(j, t, d) \/ NothingToReverse(j, t, d)
         \/ LockFirst(j) \/ LockSecond(j) \/ PostEntries(j) \/ UpdateDebit(j)
         \/ UpdateCredit(j) \/ LockReversed(j) \/ PostReversal(j)
         \/ Commit(j) \/ Rollback(j)
  PROVE  JobOK(k)'
<1>. USE DEF tables, calls, local, Goto
<1>1. TypeOK /\ ControlOK /\ \A i \in Jobs : JobOK(i)
  BY DEF LedgerInv
<1>2. \A id \in Ids : posted[id] \in Nat
  BY <1>1 DEF TypeOK
<1>3. \A a \in Accounts : holder[a] \in Jobs \cup {None}
  BY <1>1 DEF TypeOK
<1>3a. ASSUME NEW b, LockAccount(j, b)
       PROVE  /\ read'[k] = read[k] /\ view'[k] = view[k]
              /\ \A a \in Accounts : holder'[a] = k <=> holder[a] = k
  <2>1. read'[k] = read[k] /\ view'[k] = view[k]
    BY <1>3a, <1>1 DEF LockAccount, TypeOK
  <2>2. holder \in [Accounts -> Jobs \cup {None}]
    BY <1>1 DEF TypeOK
  <2>3. \A a \in Accounts : holder'[a] = k <=> holder[a] = k
    BY <1>3a, <2>2 DEF LockAccount
  <2>. QED  BY <2>1, <2>3
<1>3b. ASSUME Forget(j)
       PROVE  read'[k] = read[k] /\ view'[k] = view[k] /\ went'[k] = went[k]
  BY <1>3b, <1>1 DEF Forget, TypeOK
<1>3c. pc \in [Jobs -> PC]
  BY <1>1 DEF TypeOK
<1>4. ASSUME NEW t \in TxIds, BeginTransfer(j, t) PROVE JobOK(k)'
  BY <1>2, <1>4, Untouched DEF BeginTransfer
<1>5. ASSUME NEW t \in TxIds, NEW d \in 0..Room[t], BeginReverse(j, t, d) PROVE JobOK(k)'
  BY <1>2, <1>5, Untouched DEF BeginReverse
<1>6. ASSUME NEW t \in TxIds, NEW d \in 0..Room[t], NothingToReverse(j, t, d) PROVE JobOK(k)'
  BY <1>2, <1>6, Untouched DEF NothingToReverse
<1>7. CASE LockFirst(j)
  BY <1>2, <1>3a, <1>3c, <1>7, Untouched DEF LockFirst
<1>8. CASE LockSecond(j)
  BY <1>2, <1>3a, <1>3c, <1>8, Untouched DEF LockSecond
<1>9. CASE PostEntries(j)
  BY <1>1, <1>2, <1>9, Untouched DEF PostEntries, TypeOK
<1>10. CASE UpdateDebit(j)
  BY <1>1, <1>2, <1>10, Untouched DEF UpdateDebit, TypeOK
<1>11. CASE UpdateCredit(j)
  BY <1>1, <1>2, <1>11, Untouched DEF UpdateCredit, TypeOK
<1>12. CASE LockReversed(j)
  BY <1>2, <1>3a, <1>3c, <1>12, Untouched DEF LockReversed
<1>13. CASE PostReversal(j)
  BY <1>1, <1>2, <1>13, Untouched DEF PostReversal, TypeOK
<1>14. CASE Commit(j)
  <2>1. \A a \in Accounts : holder[a] # j => went[j][a] = << >>
    BY <1>1 DEF JobOK
  <2>2. \A a \in Accounts : hist[a] \in Seq(Entry)
    BY <1>1 DEF TypeOK
  <2>3. \A a \in Accounts : holder[a] # j => hist'[a] = hist[a]
    <3>1. \A s \in Seq(Entry) : s \o << >> = s
      BY ConcatEmptySeq
    <3>. QED  BY <1>14, <2>1, <2>2, <3>1 DEF Commit
  <2>4. Under(j) \in Ids /\ NewPairs(j) \in Nat
    BY <1>1, <1>14, IdsOf DEF Commit, TypeInv, Active
  <2>5. \A id \in Ids : posted'[id] \in Nat /\ posted'[id] >= posted[id]
    <3>1. posted \in [Ids -> Nat]
      BY <1>1 DEF TypeOK
    <3>. QED  BY <3>1, <1>14, <2>4 DEF Commit
  <2>6. \A a \in Accounts : holder'[a] = k <=> holder[a] = k
    BY <1>14 DEF Commit
  <2>7. \A a \in Accounts : holder[a] = k => row'[a] = row[a] /\ hist'[a] = hist[a]
    BY <1>14, <2>3 DEF Commit
  <2>. QED
    BY <1>3b, <1>3c, <1>14, <2>5, <2>6, <2>7, Untouched DEF Commit
<1>15. CASE Rollback(j)
  <2>1. \A a \in Accounts : holder'[a] = k <=> holder[a] = k
    BY <1>15 DEF Rollback
  <2>. QED  BY <1>2, <1>3b, <1>3c, <1>15, <2>1, Untouched DEF Rollback
<1>. QED
  BY <1>4, <1>5, <1>6, <1>7, <1>8, <1>9, <1>10, <1>11, <1>12, <1>13, <1>14, <1>15

\* Reversing one more entry gives its amount back to its account.
LEMMA GivenBackStep ==
  ASSUME NEW t \in TxIds, NEW d \in Nat, NEW n \in Nat, Debited(t) # Credited(t),
         NEW b \in {Debited(t), Credited(t)}
  PROVE  /\ GivenBack(t, d, b, n) \in Int
         /\ GivenBack(t, d, b, n + 1) =
              GivenBack(t, d, b, n) + (IF b = ReversedAccount(t, n)
                                    THEN ReversalAmount(t, d, n) ELSE 0)
<1>1. PutBack(t, d) \in Int
  BY PaymentType
<1>2. PICK m \in Nat : n = 2 * m \/ n = 2 * m + 1
  <2>1. n \div 2 \in Nat /\ (n = 2 * (n \div 2) \/ n = 2 * (n \div 2) + 1)
    OBVIOUS
  <2>. QED  BY <2>1
<1>. DEFINE A == PutBack(t, d)
<1>. HIDE DEF A
<1>3. A \in Int /\ (m + 1) * A = m * A + A /\ m * A \in Int
  BY <1>1 DEF A
<1>4. CASE n = 2 * m
  <2>1. /\ n % 2 = 0 /\ n \div 2 = m
        /\ (n + 1) \div 2 = m /\ ((n + 1) + 1) \div 2 = m + 1
    BY <1>4
  <2>2. CASE b = Debited(t)
    <3>1. GivenBack(t, d, b, n) = m * A /\ GivenBack(t, d, b, n + 1) = (m + 1) * A
      BY <2>1, <2>2 DEF GivenBack, A
    <3>2. b = ReversedAccount(t, n) /\ ReversalAmount(t, d, n) = A
      BY <2>1, <2>2 DEF ReversedAccount, ReversalAmount, A
    <3>. QED  BY <3>1, <3>2, <1>3
  <2>3. CASE b = Credited(t)
    <3>1. GivenBack(t, d, b, n) = 0 - m * A /\ GivenBack(t, d, b, n + 1) = 0 - m * A
      BY <2>1, <2>3 DEF GivenBack, A
    <3>2. b # ReversedAccount(t, n)
      BY <2>1, <2>3 DEF ReversedAccount
    <3>. QED  BY <3>1, <3>2, <1>3
  <2>. QED  BY <2>2, <2>3
<1>5. CASE n = 2 * m + 1
  <2>1. /\ n % 2 = 1 /\ n \div 2 = m
        /\ (n + 1) \div 2 = m + 1 /\ ((n + 1) + 1) \div 2 = m + 1
    BY <1>5
  <2>2. CASE b = Debited(t)
    <3>1. GivenBack(t, d, b, n) = (m + 1) * A /\ GivenBack(t, d, b, n + 1) = (m + 1) * A
      BY <2>1, <2>2 DEF GivenBack, A
    <3>2. b # ReversedAccount(t, n)
      BY <2>1, <2>2 DEF ReversedAccount
    <3>. QED  BY <3>1, <3>2, <1>3
  <2>3. CASE b = Credited(t)
    <3>1. GivenBack(t, d, b, n) = 0 - m * A /\ GivenBack(t, d, b, n + 1) = 0 - (m + 1) * A
      BY <2>1, <2>3 DEF GivenBack, A
    <3>2. b = ReversedAccount(t, n) /\ ReversalAmount(t, d, n) = 0 - A
      BY <2>1, <2>3 DEF ReversedAccount, ReversalAmount, A
    <3>. QED  BY <3>1, <3>2, <1>3
  <2>. QED  BY <2>2, <2>3
<1>. QED  BY <1>2, <1>4, <1>5

\* The rows a call holds, has read and sees after SELECT ... FOR UPDATE.
LEMMA Locked ==
  ASSUME LedgerInv, NEW j \in Jobs, NEW a \in Accounts, LockAccount(j, a)
  PROVE  /\ \A b \in Accounts :
              /\ holder'[b] = (IF b = a THEN j ELSE holder[b])
              /\ b # a => read'[j][b] = read[j][b] /\ view'[j][b] = view[j][b]
         /\ read'[j][a] = view'[j][a]
         /\ holder[a] = j => view'[j][a] = view[j][a]
         /\ holder[a] # j => view'[j][a] = row[a] /\ went[j][a] = << >>
<1>1. TypeOK /\ JobOK(j)
  BY DEF LedgerInv
<1>2. /\ holder \in [Accounts -> Jobs \cup {None}]
      /\ read \in [Jobs -> [Accounts -> Row]]
      /\ view \in [Jobs -> [Accounts -> Row]]
  BY <1>1 DEF TypeOK
<1>3. \A b \in Accounts : holder[b] # j => went[j][b] = << >>
  BY <1>1 DEF JobOK
<1>. QED  BY <1>2, <1>3 DEF LockAccount

\* The invariant after LockFirst and LockSecond.
LEMMA LockStepKeeps ==
  ASSUME LedgerInv, NEW j \in Jobs, LockFirst(j) \/ LockSecond(j)
  PROVE  JobOK(j)'
<1>1. TypeOK /\ ControlOK /\ JobOK(j)
  BY DEF LedgerInv
<1>2. PICK t \in TxIds : t = op[j].tx
  BY <1>1 DEF LockFirst, LockSecond, ControlOK, Active
<1>3. PICK a : a = IF pc[j] = "lock1" THEN LockOrder(t)[1] ELSE LockOrder(t)[2]
  OBVIOUS
<1>4. /\ pc[j] \in {"lock1", "lock2"} /\ a \in Accounts /\ LockAccount(j, a)
      /\ op' = op /\ cursor' = cursor /\ went' = went
      /\ row' = row /\ hist' = hist
      /\ pc'[j] = (IF pc[j] = "lock1" THEN "lock2" ELSE "post")
  <2>1. pc \in [Jobs -> PC]
    BY <1>1 DEF TypeOK
  <2>2. CASE LockFirst(j)
    BY <2>1, <2>2, <1>2, <1>3 DEF LockFirst, tables, calls, Goto
  <2>3. CASE LockSecond(j)
    BY <2>1, <2>3, <1>2, <1>3 DEF LockSecond, tables, calls, Goto
  <2>. QED  BY <2>2, <2>3
<1>5. /\ a \in {Debited(t), Credited(t)}
      /\ {LockOrder(t)[1], LockOrder(t)[2]} = {Debited(t), Credited(t)}
  BY <1>3, PaymentType
<1>6. \A b \in Accounts : holder[b] = j => Fresh(j, b)
  BY <1>1, <1>4 DEF JobOK, TransferOK
<1>7. \A b \in Accounts : holder'[b] = j => Fresh(j, b)'
  <2>1. /\ \A b \in Accounts :
              /\ holder'[b] = (IF b = a THEN j ELSE holder[b])
              /\ b # a => read'[j][b] = read[j][b] /\ view'[j][b] = view[j][b]
        /\ read'[j][a] = view'[j][a]
        /\ holder[a] = j => view'[j][a] = view[j][a]
        /\ holder[a] # j => view'[j][a] = row[a] /\ went[j][a] = << >>
    BY <1>4, Locked
  <2>2. ASSUME NEW b \in Accounts, holder'[b] = j, b # a
        PROVE  Fresh(j, b)'
    BY <1>4, <1>6, <2>1, <2>2 DEF Fresh
  <2>3. Fresh(j, a)'
    <3>1. CASE holder[a] = j
      BY <1>4, <1>6, <2>1, <3>1 DEF Fresh
    <3>2. CASE holder[a] # j
      BY <1>4, <2>1, <3>2 DEF Fresh
    <3>. QED  BY <3>1, <3>2
  <2>. QED  BY <2>2, <2>3
<1>8. /\ pc[j] = "lock1" => holder'[LockOrder(t)[1]] = j
      /\ pc[j] = "lock2" => holder'[Debited(t)] = j /\ holder'[Credited(t)] = j
  <2>1. holder'[a] = j
    BY <1>4, Locked
  <2>2. CASE pc[j] = "lock1"
    BY <2>1, <2>2, <1>3
  <2>3. CASE pc[j] = "lock2"
    <3>1. LockOrder(t)[1] \in Accounts /\ holder[LockOrder(t)[1]] = j
      BY <2>3, <1>1, <1>2 DEF ControlOK, JobOK, TransferOK
    <3>2. \A b \in Accounts : holder[b] = j => holder'[b] = j
      BY <1>4, Locked
    <3>3. holder'[LockOrder(t)[1]] = j /\ holder'[LockOrder(t)[2]] = j
      BY <2>1, <2>3, <3>1, <3>2, <1>3
    <3>. QED  BY <2>3, <3>3, <1>5
  <2>. QED  BY <1>4, <2>2, <2>3
<1>9. TransferOK(j)'
  <2>1. op'[j].tx = t
    BY <1>2, <1>4
  <2>. QED  BY <1>4, <1>7, <1>8, <2>1 DEF TransferOK
<1>10. ReverseOK(j)'
  BY <1>4 DEF ReverseOK
<1>11. \A b \in Accounts :
         /\ holder'[b] = j => b \in {Debited(t), Credited(t)}
         /\ holder'[b] # j => went[j][b] = << >>
  <2>1. \A b \in Accounts : holder[b] = j => b \in {Debited(t), Credited(t)}
    BY <1>1, <1>2 DEF JobOK
  <2>. QED  BY <1>1, <1>4, <1>5, <2>1, Locked DEF JobOK
<1>. QED
  BY <1>2, <1>4, <1>9, <1>10, <1>11 DEF JobOK, Active, Debited, Credited

\* An entry for a row that is read as it stands keeps the row's history
\* chained and moves its last balance by the entry's amount.
LEMMA EntryEntered ==
  ASSUME LedgerInv, NEW j \in Jobs, NEW a \in Accounts, NEW d \in Int,
         NEW e \in Entry, Entered(j, a, d),
         e.balance = row[a].balance + d + e.amount
  PROVE  /\ Chained(hist[a] \o Append(went[j][a], e), Opening[a])
         /\ LastBalance(hist[a] \o Append(went[j][a], e), Opening[a])
              = row[a].balance + (d + e.amount)
<1>1. /\ hist[a] \in Seq(Entry) /\ went[j][a] \in Seq(Entry)
      /\ row[a] \in Row /\ Opening[a] \in Int
  BY DEF LedgerInv, TypeOK
<1>2. row[a].balance \in Int /\ e.amount \in Int
  BY <1>1 DEF Row, Entry
<1>. DEFINE s == hist[a] \o went[j][a]
<1>2a. s \in Seq(Entry)
  BY <1>1
<1>3. hist[a] \o Append(went[j][a], e) = Append(s, e)
  <2>1. \A h, w \in Seq(Entry) : h \o Append(w, e) = Append(h \o w, e)
    BY ConcatAppend
  <2>. QED  BY <2>1, <1>1
<1>4. Chained(s, Opening[a]) /\ LastBalance(s, Opening[a]) = row[a].balance + d
  BY DEF Entered, Seen
<1>. HIDE DEF s
<1>5. e.balance = e.amount + LastBalance(s, Opening[a])
  BY <1>2, <1>4
<1>6. /\ Chained(Append(s, e), Opening[a])
      /\ LastBalance(Append(s, e), Opening[a]) = e.balance
  BY <1>1, <1>2a, <1>4, <1>5, ChainAppend
<1>. QED  BY <1>2, <1>3, <1>6

\* Before a call writes anything for a row, what it sees is the committed row.
LEMMA NothingEntered ==
  ASSUME LedgerInv, NEW j \in Jobs, NEW a \in Accounts, went[j][a] = << >>
  PROVE  Entered(j, a, 0)
<1>1. hist[a] \in Seq(Entry) /\ row[a] \in Row
  BY DEF LedgerInv, TypeOK
<1>2. Seen(j, a) = hist[a]
  BY <1>1, ConcatEmptySeq DEF Seen
<1>3. row[a].balance \in Int
  BY <1>1 DEF Row
<1>4. /\ Chained(hist[a], Opening[a])
      /\ row[a].balance = LastBalance(hist[a], Opening[a])
  BY DEF LedgerInv, BalancesFollowEntries
<1>. QED  BY <1>2, <1>3, <1>4 DEF Entered

\* The invariant after the two entries of a transfer.
LEMMA PostStepKeeps ==
  ASSUME LedgerInv, NEW j \in Jobs, PostEntries(j)
  PROVE  JobOK(j)'
<1>1. TypeOK /\ ControlOK /\ JobOK(j) /\ TypeInv
  BY DEF LedgerInv, TypeInv
<1>2. PICK t \in TxIds : t = op[j].tx
  BY <1>1 DEF PostEntries, ControlOK, Active
<1>3. PICK d \in Accounts : d = Debited(t)
  BY <1>1, <1>2 DEF PostEntries, ControlOK, Movable
<1>4. PICK c \in Accounts : c = Credited(t)
  BY <1>1, <1>2 DEF PostEntries, ControlOK, Movable
<1>5. /\ pc[j] = "post" /\ pc'[j] = "debit" /\ op' = op /\ cursor' = cursor
      /\ row' = row /\ hist' = hist /\ holder' = holder
      /\ read' = read /\ view' = view
  BY <1>1 DEF PostEntries, tables, calls, Goto, TypeOK
<1>6. /\ holder[d] = j /\ holder[c] = j
      /\ Fresh(j, d) /\ Fresh(j, c)
  BY <1>1, <1>2, <1>3, <1>4, <1>5 DEF JobOK, TransferOK
<1>7. /\ DebitEntry(j) \in Entry /\ CreditEntry(j) \in Entry
      /\ DebitEntry(j).amount = 0 - Amount(t)
      /\ DebitEntry(j).balance = row[d].balance - Amount(t)
      /\ CreditEntry(j).amount = Amount(t)
      /\ CreditEntry(j).balance = row[c].balance + Amount(t)
      /\ row[d].balance \in Int /\ row[c].balance \in Int
  <2>1. /\ read[j][d] = row[d] /\ read[j][c] = row[c]
        /\ read[j][d].balance \in Int /\ read[j][c].balance \in Int
    BY <1>1, <1>6, ReadBalance DEF Fresh
  <2>2. Amount(t) \in Int
    BY PaymentType
  <2>3. Under(j) \in Ids
    BY <1>1, <1>5, IdsOf DEF ControlOK, Active
  <2>. QED
    BY <2>1, <2>2, <2>3, <1>2, <1>3, <1>4 DEF DebitEntry, CreditEntry, Entry
<1>8. went[j] \in [Accounts -> Seq(Entry)] /\ went \in [Jobs -> [Accounts -> Seq(Entry)]]
  BY <1>1 DEF TypeOK
<1>9. went'[j] = Insert(Insert(went[j], d, DebitEntry(j)), c, CreditEntry(j))
  BY <1>2, <1>3, <1>4, <1>8 DEF PostEntries
<1>10. ASSUME d # c
       PROVE  /\ went'[j][d] = Append(went[j][d], DebitEntry(j))
              /\ went'[j][c] = Append(went[j][c], CreditEntry(j))
  BY <1>8, <1>9, <1>10 DEF Insert
<1>11. \A b \in Accounts : b \notin {d, c} => went'[j][b] = went[j][b]
  BY <1>8, <1>9 DEF Insert
<1>12. ASSUME d # c
       PROVE  Entered(j, d, 0 - Amount(t))' /\ Entered(j, c, Amount(t))'
  <2>1. Entered(j, d, 0) /\ Entered(j, c, 0)
    BY <1>6, NothingEntered DEF Fresh
  <2>2. Amount(t) \in Int
    BY PaymentType
  <2>3. /\ Chained(hist[d] \o Append(went[j][d], DebitEntry(j)), Opening[d])
        /\ LastBalance(hist[d] \o Append(went[j][d], DebitEntry(j)), Opening[d])
             = row[d].balance + (0 + DebitEntry(j).amount)
    <3>1. PICK e \in Entry : e = DebitEntry(j)
      BY <1>7
    <3>2. e.balance = row[d].balance + 0 + e.amount
      BY <3>1, <1>7, <2>2
    <3>. QED  BY <3>1, <3>2, <2>1, EntryEntered
  <2>4. /\ Chained(hist[c] \o Append(went[j][c], CreditEntry(j)), Opening[c])
        /\ LastBalance(hist[c] \o Append(went[j][c], CreditEntry(j)), Opening[c])
             = row[c].balance + (0 + CreditEntry(j).amount)
    <3>1. PICK e \in Entry : e = CreditEntry(j)
      BY <1>7
    <3>2. e.balance = row[c].balance + 0 + e.amount
      BY <3>1, <1>7, <2>2
    <3>. QED  BY <3>1, <3>2, <2>1, EntryEntered
  <2>3a. /\ Seen(j, d)' = hist[d] \o Append(went[j][d], DebitEntry(j))
         /\ Seen(j, c)' = hist[c] \o Append(went[j][c], CreditEntry(j))
    BY <1>5, <1>10, <1>12 DEF Seen
  <2>4a. /\ 0 + DebitEntry(j).amount = 0 - Amount(t)
         /\ 0 + CreditEntry(j).amount = Amount(t)
    BY <1>7, <2>2
  <2>5. Entered(j, d, 0 - Amount(t))'
    BY <1>5, <2>3, <2>3a, <2>4a DEF Entered
  <2>6. Entered(j, c, Amount(t))'
    BY <1>5, <2>4, <2>3a, <2>4a DEF Entered
  <2>. QED  BY <2>5, <2>6
<1>13. TransferOK(j)'
  <2>1. op'[j].tx = t
    BY <1>2, <1>5
  <2>2. read[j][d] = row[d] /\ read[j][c] = row[c] /\ view[j][d] = row[d] /\ view[j][c] = row[c]
    BY <1>6 DEF Fresh
  <2>. QED  BY <1>3, <1>4, <1>5, <1>6, <1>12, <2>1, <2>2 DEF TransferOK
<1>14. ReverseOK(j)'
  BY <1>5 DEF ReverseOK
<1>15. \A b \in Accounts :
         /\ holder[b] = j => b \in {d, c}
         /\ holder[b] # j => went'[j][b] = << >>
  BY <1>1, <1>2, <1>3, <1>4, <1>6, <1>11 DEF JobOK
<1>. QED
  BY <1>2, <1>3, <1>4, <1>5, <1>13, <1>14, <1>15
     DEF JobOK, Active, Debited, Credited

\* The invariant after updateAccountBalance of the debited account.
LEMMA DebitStepKeeps ==
  ASSUME LedgerInv, NEW j \in Jobs, UpdateDebit(j)
  PROVE  JobOK(j)'
<1>1. TypeOK /\ ControlOK /\ JobOK(j)
  BY DEF LedgerInv
<1>2. PICK t \in TxIds : t = op[j].tx
  BY <1>1 DEF UpdateDebit, ControlOK, Active
<1>3. PICK d \in Accounts : d = Debited(t)
  BY <1>1, <1>2 DEF UpdateDebit, ControlOK, Movable
<1>4. PICK c \in Accounts : c = Credited(t)
  BY <1>1, <1>2 DEF UpdateDebit, ControlOK, Movable
<1>5. /\ pc[j] = "debit" /\ pc'[j] = "credit" /\ op' = op /\ cursor' = cursor
      /\ row' = row /\ hist' = hist /\ holder' = holder
      /\ read' = read /\ went' = went
  BY <1>1 DEF UpdateDebit, tables, calls, Goto, TypeOK
<1>6. /\ holder[d] = j /\ holder[c] = j
      /\ d # c => Entered(j, d, 0 - Amount(t)) /\ Entered(j, c, Amount(t))
      /\ read[j][d] = row[d] /\ read[j][c] = row[c]
      /\ view[j][d] = row[d] /\ view[j][c] = row[c]
  BY <1>1, <1>2, <1>3, <1>4, <1>5 DEF JobOK, TransferOK
<1>7. /\ view'[j][d].balance = row[d].balance - Amount(t)
      /\ view'[j][d].version = row[d].version + 1
  <2>1. view \in [Jobs -> [Accounts -> Row]]
    BY <1>1 DEF TypeOK
  <2>2. view'[j][d] = Updated(j, d, read[j][d].balance - Amount(t))
    BY <2>1, <1>2, <1>3 DEF UpdateDebit
  <2>. QED  BY <2>2, <1>6 DEF Updated
<1>8. TransferOK(j)'
  <2>1. op'[j].tx = t
    BY <1>2, <1>5
  <2>2. d # c => Entered(j, d, 0 - Amount(t))' /\ Entered(j, c, Amount(t))'
    BY <1>5, <1>6 DEF Entered, Seen
  <2>. QED  BY <1>3, <1>4, <1>5, <1>6, <1>7, <2>1, <2>2 DEF TransferOK
<1>9. ReverseOK(j)'
  BY <1>5 DEF ReverseOK
<1>. QED
  BY <1>1, <1>2, <1>5, <1>8, <1>9 DEF JobOK, Active, Debited, Credited

\* The invariant after updateAccountBalance of the credited account; that it
\* succeeds shows that the two accounts differ.
LEMMA CreditStepKeeps ==
  ASSUME LedgerInv, NEW j \in Jobs, UpdateCredit(j)
  PROVE  JobOK(j)'
<1>1. TypeOK /\ ControlOK /\ JobOK(j)
  BY DEF LedgerInv
<1>2. PICK t \in TxIds : t = op[j].tx
  BY <1>1 DEF UpdateCredit, ControlOK, Active
<1>3. PICK d \in Accounts : d = Debited(t)
  BY <1>1, <1>2 DEF UpdateCredit, ControlOK, Movable
<1>4. PICK c \in Accounts : c = Credited(t)
  BY <1>1, <1>2 DEF UpdateCredit, ControlOK, Movable
<1>5. /\ pc[j] = "credit" /\ pc'[j] = "commit" /\ op' = op /\ cursor' = cursor
      /\ row' = row /\ hist' = hist /\ holder' = holder
      /\ read' = read /\ went' = went /\ op[j].kind = "transfer"
  BY <1>1 DEF UpdateCredit, tables, calls, Goto, TypeOK, ControlOK
<1>6. /\ holder[d] = j /\ holder[c] = j
      /\ d # c => Entered(j, d, 0 - Amount(t)) /\ Entered(j, c, Amount(t))
      /\ read[j][d] = row[d] /\ read[j][c] = row[c]
      /\ view[j][d].balance = row[d].balance - Amount(t)
      /\ view[j][d].version = row[d].version + 1
  BY <1>1, <1>2, <1>3, <1>4, <1>5 DEF JobOK, TransferOK
<1>7. d # c
  <2>1. view[j][c].version = read[j][c].version
    BY <1>2, <1>4 DEF UpdateCredit, VersionMatches
  <2>2. row[c] \in Row
    BY <1>1 DEF TypeOK
  <2>3. row[c].version \in Nat
    BY <2>2 DEF Row
  <2>. QED  BY <1>6, <2>1, <2>3
<1>8. /\ view'[j][c].balance = row[c].balance + Amount(t)
      /\ view'[j][d] = view[j][d]
  <2>1. view \in [Jobs -> [Accounts -> Row]]
    BY <1>1 DEF TypeOK
  <2>2. /\ view'[j][c] = Updated(j, c, read[j][c].balance + Amount(t))
        /\ view'[j][d] = view[j][d]
    BY <2>1, <1>2, <1>4, <1>7 DEF UpdateCredit
  <2>. QED  BY <2>2, <1>6 DEF Updated
<1>9. Written(j, d, 0 - Amount(t))' /\ Written(j, c, Amount(t))'
  <2>1. Entered(j, d, 0 - Amount(t))' /\ Entered(j, c, Amount(t))'
    BY <1>5, <1>6, <1>7 DEF Entered, Seen
  <2>2. row[d] \in Row /\ row[c] \in Row
    BY <1>1 DEF TypeOK
  <2>3. /\ row[d].balance \in Int /\ Amount(t) \in Int
        /\ row[d].balance - Amount(t) = row[d].balance + (0 - Amount(t))
    BY <2>2, PaymentType DEF Row
  <2>. QED  BY <1>5, <1>6, <1>8, <2>1, <2>3 DEF Written
<1>10. TransferOK(j)'
  <2>1. op'[j].tx = t
    BY <1>2, <1>5
  <2>. QED  BY <1>3, <1>4, <1>5, <1>6, <1>7, <1>9, <2>1 DEF TransferOK
<1>11. ReverseOK(j)'
  BY <1>5 DEF ReverseOK
<1>. QED
  BY <1>1, <1>2, <1>5, <1>10, <1>11 DEF JobOK, Active, Debited, Credited

\* The invariant after a lock of Reverse.
LEMMA LockReversedKeeps ==
  ASSUME LedgerInv, NEW j \in Jobs, LockReversed(j)
  PROVE  JobOK(j)'
<1>1. TypeOK /\ ControlOK /\ JobOK(j)
  BY DEF LedgerInv
<1>2. PICK t \in TxIds : t = op[j].tx
  BY <1>1 DEF LockReversed, ControlOK, Active
<1>2a. PICK v \in Nat : v = op[j].level /\ v \in 0..Room[t]
  BY <1>1, <1>2 DEF LockReversed, PostReversal, ControlOK, Active
<1>3. PICK n \in Nat : n = cursor[j]
  BY <1>1 DEF TypeOK
<1>4. /\ Debited(t) \in Accounts /\ Credited(t) \in Accounts
  BY <1>1, <1>2 DEF LockReversed, ControlOK, Movable
<1>5. PICK a \in Accounts : a = ReversedAccount(t, n)
  BY <1>4 DEF ReversedAccount
<1>6. /\ pc[j] = "revlock" /\ pc'[j] = "revpost" /\ op' = op /\ cursor' = cursor
      /\ row' = row /\ hist' = hist /\ posted' = posted /\ found' = found
      /\ went' = went /\ LockAccount(j, a)
  BY <1>1, <1>2, <1>3, <1>5 DEF LockReversed, tables, calls, Goto, TypeOK
<1>7. /\ found[j] \in 1..posted[<<t, v>>] /\ n < 2 * found[j]
      /\ \A b \in Accounts : holder[b] = j => Written(j, b, GivenBack(t, v, b, n))
      /\ n > 0 => holder[Debited(t)] = j
      /\ n > 1 => holder[Credited(t)] = j
  BY <1>1, <1>2, <1>2a, <1>3, <1>6 DEF JobOK, ReverseOK, Id
<1>8. Debited(t) # Credited(t)
  <2>1. PICK p \in Nat : p = posted[<<t, v>>]
    BY <1>1, <1>2a, IdIn DEF TypeOK
  <2>2. p > 0
    BY <2>1, <1>7
  <2>. QED  BY <2>1, <2>2, <1>2a DEF LedgerInv
<1>9. holder[a] # j => GivenBack(t, v, a, n) = 0
  <2>1. ASSUME holder[a] # j
        PROVE  \/ n = 0 /\ a = Debited(t)
               \/ n = 1 /\ a = Credited(t)
    BY <2>1, <1>5, <1>7 DEF ReversedAccount
  <2>2. PutBack(t, v) \in Int
    BY PaymentType
  <2>3. n = 0 => (n + 1) \div 2 = 0
    OBVIOUS
  <2>4. n = 1 => n \div 2 = 0
    OBVIOUS
  <2>. QED  BY <2>1, <2>2, <2>3, <2>4, <1>8 DEF GivenBack
<1>10. Written(j, a, GivenBack(t, v, a, n))'
  <2>1. CASE holder[a] = j
    <3>1. Written(j, a, GivenBack(t, v, a, n))
      BY <2>1, <1>7
    <3>2. view'[j][a] = view[j][a]
      BY <2>1, <1>6, Locked
    <3>. QED  BY <3>1, <3>2, <1>6 DEF Written, Entered, Seen
  <2>2. CASE holder[a] # j
    <3>1. Entered(j, a, 0)
      BY <2>2, <1>6, Locked, NothingEntered
    <3>2. view'[j][a] = row[a] /\ row[a] \in Row
      BY <2>2, <1>1, <1>6, Locked DEF TypeOK
    <3>3. row[a].balance \in Int
      BY <3>2 DEF Row
    <3>. QED
      BY <2>2, <3>1, <3>2, <3>3, <1>6, <1>9 DEF Written, Entered, Seen
  <2>. QED  BY <2>1, <2>2
<1>11. \A b \in Accounts :
         /\ holder'[b] = j => Written(j, b, GivenBack(t, v, b, n))'
         /\ holder'[b] = j => b \in {Debited(t), Credited(t)}
         /\ holder'[b] # j => went[j][b] = << >>
  <2>1. TAKE b \in Accounts
  <2>2. CASE b = a
    <3>1. holder'[a] = j
      BY <1>6, Locked
    <3>2. a \in {Debited(t), Credited(t)}
      BY <1>5 DEF ReversedAccount
    <3>. QED  BY <2>2, <3>1, <3>2, <1>10
  <2>3. CASE b # a
    <3>1. holder'[b] = holder[b] /\ view'[j][b] = view[j][b]
      BY <2>3, <1>6, Locked
    <3>2. /\ holder[b] = j => b \in {Debited(t), Credited(t)}
          /\ holder[b] # j => went[j][b] = << >>
      BY <1>1, <1>2 DEF JobOK
    <3>3. holder[b] = j => Written(j, b, GivenBack(t, v, b, n))'
      BY <3>1, <1>6, <1>7 DEF Written, Entered, Seen
    <3>. QED  BY <3>1, <3>2, <3>3
  <2>. QED  BY <2>2, <2>3
<1>12. ReverseOK(j)'
  <2>1. op'[j].tx = t /\ op'[j].level = v /\ Id(j)' = <<t, v>> /\ cursor'[j] = n /\ found'[j] = found[j]
    BY <1>2, <1>2a, <1>3, <1>6 DEF Id
  <2>2. \A b \in Accounts : holder[b] = j => holder'[b] = j
    BY <1>6, Locked
  <2>3. holder'[a] = j /\ read'[j][a] = view'[j][a]
    BY <1>6, Locked
  <2>. QED
    BY <1>4, <1>5, <1>6, <1>7, <1>11, <2>1, <2>2, <2>3 DEF ReverseOK
<1>13. TransferOK(j)'
  BY <1>6 DEF TransferOK
<1>. QED
  BY <1>2, <1>6, <1>11, <1>12, <1>13 DEF JobOK, Active, Debited, Credited

\* The invariant after a _REVERSAL entry and its updateAccountBalance.
LEMMA PostReversalKeeps ==
  ASSUME LedgerInv, NEW j \in Jobs, PostReversal(j)
  PROVE  JobOK(j)'
<1>1. TypeOK /\ ControlOK /\ JobOK(j) /\ TypeInv
  BY DEF LedgerInv, TypeInv
<1>2. PICK t \in TxIds : t = op[j].tx
  BY <1>1 DEF PostReversal, ControlOK, Active
<1>2a. PICK v \in Nat : v = op[j].level /\ v \in 0..Room[t]
  BY <1>1, <1>2 DEF LockReversed, PostReversal, ControlOK, Active
<1>3. PICK n \in Nat : n = cursor[j]
  BY <1>1 DEF TypeOK
<1>4. /\ Debited(t) \in Accounts /\ Credited(t) \in Accounts
  BY <1>1, <1>2 DEF PostReversal, ControlOK, Movable
<1>5. PICK a \in Accounts : a = ReversedAccount(t, n)
  BY <1>4 DEF ReversedAccount
<1>6. /\ pc[j] = "revpost" /\ op' = op /\ cursor'[j] = n + 1
      /\ pc'[j] = (IF n + 1 = 2 * found[j] THEN "commit" ELSE "revlock")
      /\ row' = row /\ hist' = hist /\ posted' = posted /\ found' = found
      /\ holder' = holder
      /\ op[j].kind = "reverse"
  BY <1>1, <1>3 DEF PostReversal, tables, Goto, TypeOK, ControlOK
<1>7. /\ found[j] \in 1..posted[<<t, v>>] /\ n < 2 * found[j]
      /\ \A b \in Accounts : holder[b] = j => Written(j, b, GivenBack(t, v, b, n))
      /\ n > 0 => holder[Debited(t)] = j
      /\ n > 1 => holder[Credited(t)] = j
      /\ holder[a] = j /\ read[j][a] = view[j][a]
  BY <1>1, <1>2, <1>2a, <1>3, <1>5, <1>6 DEF JobOK, ReverseOK, Id
<1>8. Debited(t) # Credited(t)
  <2>1. PICK p \in Nat : p = posted[<<t, v>>]
    BY <1>1, <1>2a, IdIn DEF TypeOK
  <2>2. p > 0
    BY <2>1, <1>7
  <2>. QED  BY <2>1, <2>2, <1>2a DEF LedgerInv
<1>9. PICK e \in Entry : /\ e = ReversalEntry(j)
                        /\ e.amount = ReversalAmount(t, v, n)
                        /\ e.balance = read[j][a].balance + ReversalAmount(t, v, n)
  <2>1. ReversalAmount(t, v, n) \in Int /\ read[j][a].balance \in Int
    BY <1>1, ReadBalance, PaymentType
  <2>1a. Under(j) \in Ids
    BY <1>1, <1>2, <1>6, IdsOf DEF PostReversal, Active
  <2>2. ReversalEntry(j) = [id |-> Under(j), amount |-> ReversalAmount(t, v, n),
                            balance |-> read[j][a].balance + ReversalAmount(t, v, n)]
    BY <1>2, <1>2a, <1>3, <1>5 DEF ReversalEntry
  <2>3. ReversalEntry(j) \in Entry
    BY <2>1, <2>1a, <2>2 DEF Entry
  <2>. QED  BY <2>2, <2>3
<1>10. /\ went'[j][a] = Append(went[j][a], e)
       /\ view'[j][a].balance = e.balance
       /\ \A b \in Accounts : b # a => went'[j][b] = went[j][b] /\ view'[j][b] = view[j][b]
  <2>1. went \in [Jobs -> [Accounts -> Seq(Entry)]] /\ view \in [Jobs -> [Accounts -> Row]]
    BY <1>1 DEF TypeOK
  <2>2. /\ went' = [went EXCEPT ![j] = Insert(@, a, e)]
        /\ view' = [view EXCEPT ![j][a] = Updated(j, a, e.balance)]
    BY <1>2, <1>3, <1>5, <1>9 DEF PostReversal
  <2>3. view'[j][a] = Updated(j, a, e.balance)
    BY <2>1, <2>2
  <2>. QED  BY <2>1, <2>2, <2>3 DEF Insert, Updated
<1>11. PICK g \in Int : g = GivenBack(t, v, a, n)
  BY <1>5, <1>8, GivenBackStep DEF ReversedAccount
<1>12. GivenBack(t, v, a, n + 1) = g + e.amount
  <2>1. a \in {Debited(t), Credited(t)}
    BY <1>5 DEF ReversedAccount
  <2>2. /\ GivenBack(t, v, a, n) \in Int
        /\ GivenBack(t, v, a, n + 1) =
             GivenBack(t, v, a, n) + (IF a = ReversedAccount(t, n)
                                      THEN ReversalAmount(t, v, n) ELSE 0)
    BY <2>1, <1>8, GivenBackStep
  <2>. QED  BY <2>2, <1>5, <1>9, <1>11
<1>13. Written(j, a, GivenBack(t, v, a, n + 1))'
  <2>1. Entered(j, a, g) /\ view[j][a].balance = row[a].balance + g
    BY <1>7, <1>11 DEF Written
  <2>2. row[a].balance \in Int /\ e.amount \in Int
    <3>1. row[a] \in Row
      BY <1>1 DEF TypeOK
    <3>. QED  BY <3>1 DEF Row, Entry
  <2>3. e.balance = row[a].balance + g + e.amount
    BY <1>7, <1>9, <2>1
  <2>4. /\ Chained(hist[a] \o Append(went[j][a], e), Opening[a])
        /\ LastBalance(hist[a] \o Append(went[j][a], e), Opening[a])
             = row[a].balance + (g + e.amount)
    BY <2>1, <2>3, EntryEntered
  <2>5. Seen(j, a)' = hist[a] \o Append(went[j][a], e)
    BY <1>6, <1>10 DEF Seen
  <2>6. view'[j][a].balance = row[a].balance + (g + e.amount)
    BY <1>10, <2>2, <2>3
  <2>7. PICK h : h = g + e.amount
    OBVIOUS
  <2>8. Written(j, a, h)'
    BY <1>6, <2>4, <2>5, <2>6, <2>7 DEF Written, Entered
  <2>. QED  BY <2>7, <2>8, <1>12
<1>14. \A b \in Accounts :
         /\ holder[b] = j => Written(j, b, GivenBack(t, v, b, n + 1))'
         /\ holder[b] = j => b \in {Debited(t), Credited(t)}
         /\ holder[b] # j => went'[j][b] = << >>
  <2>1. TAKE b \in Accounts
  <2>2. /\ holder[b] = j => b \in {Debited(t), Credited(t)}
        /\ holder[b] # j => went[j][b] = << >>
    BY <1>1, <1>2 DEF JobOK
  <2>3. CASE b = a
    BY <2>2, <2>3, <1>7, <1>13
  <2>4. CASE b # a
    <3>1. ASSUME holder[b] = j
          PROVE  GivenBack(t, v, b, n + 1) = GivenBack(t, v, b, n)
      <4>1. /\ GivenBack(t, v, b, n) \in Int
            /\ GivenBack(t, v, b, n + 1) =
                 GivenBack(t, v, b, n) + (IF b = ReversedAccount(t, n)
                                          THEN ReversalAmount(t, v, n) ELSE 0)
        <5>1. b \in {Debited(t), Credited(t)}
          BY <2>2, <3>1
        <5>. QED  BY <5>1, <1>8, GivenBackStep
      <4>. QED  BY <4>1, <2>4, <1>5
    <3>2. ASSUME holder[b] = j
          PROVE  Written(j, b, GivenBack(t, v, b, n))'
      BY <2>4, <3>2, <1>6, <1>7, <1>10 DEF Written, Entered, Seen
    <3>. QED  BY <2>2, <2>4, <3>1, <3>2, <1>10
  <2>. QED  BY <2>3, <2>4
<1>15. ReverseOK(j)'
  <2>1. op'[j].tx = t /\ op'[j].level = v /\ Id(j)' = <<t, v>> /\ cursor'[j] = n + 1 /\ found'[j] = found[j]
    BY <1>2, <1>2a, <1>6 DEF Id
  <2>2. /\ n + 1 > 0 => holder[Debited(t)] = j
        /\ n + 1 > 1 => holder[Credited(t)] = j
    <3>1. n = 0 => a = Debited(t)
      BY <1>5 DEF ReversedAccount
    <3>2. n = 1 => a = Credited(t)
      BY <1>5 DEF ReversedAccount
    <3>. QED  BY <3>1, <3>2, <1>7
  <2>3. found[j] \in Nat
    BY <1>1 DEF TypeOK
  <2>4. IF pc'[j] = "commit" THEN n + 1 = 2 * found[j] ELSE n + 1 < 2 * found[j]
    <3>1. PICK f \in Nat : f = found[j]
      BY <2>3
    <3>2. n < 2 * f
      BY <3>1, <1>7
    <3>3. n + 1 = 2 * f \/ n + 1 < 2 * f
      BY <3>2
    <3>. QED  BY <1>6, <3>1, <3>3
  <2>5. /\ found'[j] \in 1..posted'[<<t, v>>] /\ pc'[j] # "revpost"
    BY <1>6, <1>7
  <2>. QED
    BY <1>6, <1>14, <2>1, <2>2, <2>4, <2>5 DEF ReverseOK
<1>16. TransferOK(j)'
  BY <1>6 DEF TransferOK
<1>. QED
  BY <1>2, <1>6, <1>14, <1>15, <1>16 DEF JobOK, Active, Debited, Credited

\* The invariant after the commit of a call: the accounts it held now have
\* its rows and its entries, which belong together.
LEMMA CommitKeeps ==
  ASSUME LedgerInv, NEW j \in Jobs, Commit(j)
  PROVE  /\ BalancesFollowEntries'
         /\ \A t \in TxIds : \A d \in 0..Room[t] :
              posted'[<<t, d>>] > 0 => Debited(t) # Credited(t)
         /\ JobOK(j)'
<1>1. TypeOK /\ ControlOK /\ JobOK(j) /\ BalancesFollowEntries
  BY DEF LedgerInv
<1>2. PICK t \in TxIds : t = op[j].tx
  BY <1>1 DEF Commit, ControlOK, Active
<1>3. pc[j] = "commit" /\ op[j].kind \in {"transfer", "reverse"}
  BY <1>1 DEF Commit, ControlOK
<1>4. /\ pc'[j] = "done" /\ op' = op
      /\ \A a \in Accounts : holder'[a] # j /\ went'[j][a] = << >>
  BY <1>1 DEF Commit, Forget, Goto, TypeOK, calls
<1>5. ASSUME NEW a \in Accounts, holder[a] = j
      PROVE  \E d : Written(j, a, d)
  <2>1. a \in {Debited(t), Credited(t)}
    BY <1>1, <1>2, <1>5 DEF JobOK
  <2>2. CASE op[j].kind = "transfer"
    BY <1>1, <1>2, <1>3, <2>1, <2>2 DEF JobOK, TransferOK
  <2>3. CASE op[j].kind = "reverse"
    BY <1>1, <1>3, <1>5, <2>3 DEF JobOK, ReverseOK
  <2>. QED  BY <1>3, <2>2, <2>3
<1>6. ASSUME NEW a \in Accounts
      PROVE  /\ Chained(hist'[a], Opening[a])
             /\ row'[a].balance = LastBalance(hist'[a], Opening[a])
  <2>1. hist'[a] = Seen(j, a)
    BY DEF Commit, Seen
  <2>2. CASE holder[a] = j
    <3>1. row'[a] = view[j][a]
      BY <2>2 DEF Commit
    <3>. QED  BY <2>1, <2>2, <3>1, <1>5 DEF Written, Entered
  <2>3. CASE holder[a] # j
    <3>1. row'[a] = row[a] /\ went[j][a] = << >>
      BY <2>3, <1>1 DEF Commit, JobOK
    <3>2. hist[a] \in Seq(Entry)
      BY <1>1 DEF TypeOK
    <3>3. hist'[a] = hist[a]
      BY <2>1, <3>1, <3>2, ConcatEmptySeq DEF Seen
    <3>. QED  BY <3>1, <3>3, <1>1 DEF BalancesFollowEntries
  <2>. QED  BY <2>2, <2>3
<1>7. ASSUME NEW u \in TxIds, NEW d \in 0..Room[u], posted'[<<u, d>>] > 0
      PROVE  Debited(u) # Credited(u)
  <2>1. <<u, d>> \in Ids /\ Under(j) \in Ids
    BY <1>1, <1>3, IdIn, IdsOf DEF TypeInv, Active
  <2>2. CASE <<u, d>> = Under(j)
    <3>1. u = t
      BY <2>2, <1>2 DEF Under, Id
    <3>2. CASE op[j].kind = "transfer"
      BY <3>1, <3>2, <1>1, <1>2, <1>3 DEF JobOK, TransferOK
    <3>3. CASE op[j].kind = "reverse"
      <4>1. found[j] \in 1..posted[Id(j)]
        BY <3>3, <1>1, <1>3 DEF JobOK, ReverseOK
      <4>2. Id(j) \in Ids /\ op[j].level \in 0..Room[t]
        BY <1>1, <1>2, <1>3, IdsOf DEF TypeInv, Active
      <4>3. posted[Id(j)] \in Nat
        BY <4>2, <1>1 DEF TypeOK
      <4>4. posted[<<t, op[j].level>>] > 0
        BY <4>1, <4>3, <1>2 DEF Id
      <4>. QED  BY <3>1, <4>2, <4>4 DEF LedgerInv
    <3>. QED  BY <1>3, <3>2, <3>3
  <2>3. CASE <<u, d>> # Under(j)
    <3>1. posted \in [Ids -> Nat]
      BY <1>1 DEF TypeOK
    <3>2. posted'[<<u, d>>] = posted[<<u, d>>]
      BY <2>1, <2>3, <3>1 DEF Commit
    <3>. QED  BY <3>2, <1>7 DEF LedgerInv
  <2>. QED  BY <2>2, <2>3
<1>8. JobOK(j)'
  BY <1>4 DEF JobOK, TransferOK, ReverseOK
<1>. QED  BY <1>6, <1>7, <1>8 DEF BalancesFollowEntries

\* The invariant after the first statement of a call, and after its rollback.
LEMMA EndsKeep ==
  ASSUME LedgerInv, NEW j \in Jobs,
         \/ \E t \in TxIds : \/ BeginTransfer(j, t)
                             \/ \E d \in 0..Room[t] : BeginReverse(j, t, d) \/ NothingToReverse(j, t, d)
         \/ Rollback(j)
  PROVE  JobOK(j)'
<1>. USE DEF tables, calls, local, Goto
<1>1. TypeOK /\ ControlOK /\ JobOK(j)
  BY DEF LedgerInv
<1>2. CASE Rollback(j)
  <2>1. pc'[j] = "done" /\ \A a \in Accounts : holder'[a] # j /\ went'[j][a] = << >>
    BY <1>1, <1>2 DEF Rollback, Forget, TypeOK
  <2>. QED  BY <2>1 DEF JobOK, TransferOK, ReverseOK
<1>3. ASSUME pc[j] = "idle"
      PROVE  \A a \in Accounts : holder[a] # j /\ went[j][a] = << >>
  BY <1>1, <1>3 DEF JobOK, Active
<1>4. ASSUME NEW t \in TxIds, BeginTransfer(j, t) PROVE JobOK(j)'
  <2>1. /\ pc'[j] = "lock1" /\ \A a \in Accounts : holder'[a] # j /\ went'[j][a] = << >>
    BY <1>1, <1>3, <1>4 DEF BeginTransfer, TypeOK
  <2>. QED  BY <2>1 DEF JobOK, TransferOK, ReverseOK
<1>5. ASSUME NEW t \in TxIds, NEW d \in 0..Room[t], NothingToReverse(j, t, d) PROVE JobOK(j)'
  <2>1. /\ pc'[j] = "done" /\ \A a \in Accounts : holder'[a] # j /\ went'[j][a] = << >>
    BY <1>1, <1>3, <1>5 DEF NothingToReverse, TypeOK
  <2>. QED  BY <2>1 DEF JobOK, TransferOK, ReverseOK
<1>6. ASSUME NEW t \in TxIds, NEW d \in 0..Room[t], BeginReverse(j, t, d) PROVE JobOK(j)'
  <2>1. /\ pc'[j] = "revlock"
        /\ \A a \in Accounts : holder'[a] # j /\ went'[j][a] = << >>
    BY <1>1, <1>3, <1>6 DEF BeginReverse, TypeOK
  <2>2. /\ op'[j].tx = t /\ op'[j].level = d /\ Id(j)' = <<t, d>>
        /\ cursor'[j] = 0 /\ found'[j] = posted[<<t, d>>]
        /\ posted' = posted /\ posted[<<t, d>>] > 0
    BY <1>1, <1>6 DEF BeginReverse, TypeOK, JobOK, Id
  <2>3. posted[<<t, d>>] \in Nat
    BY <1>1, IdIn DEF TypeOK
  <2>4. found'[j] \in 1..posted'[<<t, d>>] /\ 0 < 2 * found'[j]
    BY <2>2, <2>3
  <2>5. ReverseOK(j)'
    BY <2>1, <2>2, <2>4 DEF ReverseOK
  <2>. QED  BY <2>1, <2>5 DEF JobOK, TransferOK
<1>. QED  BY <1>2, <1>4, <1>5, <1>6

\* A call that is not started holds nothing, whatever ran before.
LEMMA LedgerInit ==
  ASSUME Init PROVE LedgerInv
<1>1. TypeInv
  BY IdIn DEF Init, TypeInv, TypeOK, ControlOK, Active, Row, Unread, Op, PC
<1>2. BalancesFollowEntries
  <2>1. \A open : Chained(<< >>, open) /\ LastBalance(<< >>, open) = open
    BY DEF Chained, LastBalance
  <2>. QED  BY <2>1 DEF Init, BalancesFollowEntries
<1>3. ASSUME NEW j \in Jobs PROVE JobOK(j)
  <2>1. /\ pc[j] = "idle" /\ cursor[j] = 0
        /\ \A a \in Accounts : holder[a] # j /\ went[j][a] = << >>
    BY DEF Init
  <2>. QED  BY <2>1 DEF JobOK, TransferOK, ReverseOK
<1>. QED  BY <1>1, <1>2, <1>3, IdIn DEF LedgerInv, TypeInv, Init

\* Every statement of every call keeps the inductive invariant.
LEMMA LedgerStep ==
  ASSUME LedgerInv, [Next]_vars
  PROVE  LedgerInv'
<1>1. TypeOK' /\ ControlOK'
  BY TypeStep DEF LedgerInv, TypeInv
<1>2. CASE UNCHANGED vars
  <2>1. /\ row' = row /\ hist' = hist /\ posted' = posted /\ holder' = holder
        /\ pc' = pc /\ op' = op /\ found' = found /\ cursor' = cursor
        /\ read' = read /\ view' = view /\ went' = went
    BY <1>2 DEF vars, tables, calls, local
  <2>2. \A id \in Ids : posted[id] \in Nat
    BY DEF LedgerInv, TypeOK
  <2>3. \A k \in Jobs : JobOK(k)'
    BY <2>1, <2>2, Untouched
  <2>. QED  BY <1>1, <2>1, <2>3 DEF LedgerInv, BalancesFollowEntries
<1>3. ASSUME NEW j \in Jobs,
             \/ \E t \in TxIds : \/ BeginTransfer(j, t)
                                 \/ \E d \in 0..Room[t] : BeginReverse(j, t, d) \/ NothingToReverse(j, t, d)
             \/ LockFirst(j) \/ LockSecond(j) \/ PostEntries(j) \/ UpdateDebit(j)
             \/ UpdateCredit(j) \/ LockReversed(j) \/ PostReversal(j)
             \/ Commit(j) \/ Rollback(j)
      PROVE  LedgerInv'
  <2>1. JobOK(j)'
    BY <1>3, EndsKeep, LockStepKeeps, PostStepKeeps, DebitStepKeeps,
       CreditStepKeeps, LockReversedKeeps, PostReversalKeeps, CommitKeeps
  <2>2. \A k \in Jobs : JobOK(k)'
    BY <1>3, <2>1, OthersKeep
  <2>3. CASE Commit(j)
    BY <1>1, <2>2, <2>3, CommitKeeps DEF LedgerInv
  <2>4. CASE ~Commit(j)
    <3>1. row' = row /\ hist' = hist /\ posted' = posted
      BY <1>3, <2>4
         DEF BeginTransfer, BeginReverse, NothingToReverse, LockFirst, LockSecond,
             PostEntries, UpdateDebit, UpdateCredit, LockReversed, PostReversal,
             Rollback, tables
    <3>. QED  BY <1>1, <2>2, <3>1 DEF LedgerInv, BalancesFollowEntries
  <2>. QED  BY <2>3, <2>4
<1>. QED
  BY <1>2, <1>3
     DEF Next, Step, MissingAccount, OptimisticLockFailed, StatementFails,
         DeadlockVictim, IdTooLong

\* The inductive invariant holds of every behaviour: what a call read under
\* a row lock stays true until it commits or rolls back.
THEOREM InductiveInvariant == Spec => []LedgerInv
<1>1. Init => LedgerInv
  BY LedgerInit
<1>2. LedgerInv /\ [Next]_vars => LedgerInv'
  BY LedgerStep
<1>. QED  BY <1>1, <1>2, PTL DEF Spec

\* accounts.balance and the running balances of ledger_entries never drift
\* apart, for any accounts, payments and number of concurrent calls.
THEOREM NoLostUpdate == Spec => []BalancesFollowEntries
<1>1. LedgerInv => BalancesFollowEntries
  BY DEF LedgerInv
<1>. QED  BY <1>1, InductiveInvariant, PTL

-----------------------------------------------------------------------------
(* Transfers never deadlock among themselves: each holds at most the       *)
(* lesser of its two accounts while it waits for the greater, so of the    *)
(* accounts held on a cycle the least would have to be wanted by a holder  *)
(* of a lesser one.                                                        *)

HIDE RoomAssumption
HIDE NoneAssumption
HIDE FeeAssumption
HIDE PaymentAssumption
HIDE OpeningAssumption
HIDE AccountsAssumption

\* What a transfer holds while it may still wait.
LockInv ==
  /\ LedgerInv
  /\ \A j \in Jobs :
       /\ pc[j] = "lock1" => \A a \in Accounts : holder[a] # j
       /\ pc[j] = "lock2" => \A a \in Accounts :
                               holder[a] = j => a = LockOrder(op[j].tx)[1]

LEMMA LockInit ==
  ASSUME Init PROVE LockInv
BY LedgerInit, NoneAssumption DEF Init, LockInv

\* A call that waits for neither of its locks may do as it likes with its own.
LEMMA NotWaiting ==
  ASSUME LockInv, LedgerInv', op' = op, NEW j \in Jobs, pc'[j] \notin {"lock1", "lock2"},
         \A k \in Jobs : k = j \/ (/\ pc'[k] = pc[k]
                                  /\ \A a \in Accounts : holder'[a] = k => holder[a] = k)
  PROVE  LockInv'
<1>1. ASSUME NEW k \in Jobs
      PROVE  LockOrder(op[k].tx)' = LockOrder(op[k].tx)
  BY DEF LockOrder, Debited, Credited
<1>2. ASSUME NEW k \in Jobs
      PROVE  /\ pc'[k] = "lock1" => \A a \in Accounts : holder'[a] # k
             /\ pc'[k] = "lock2" => \A a \in Accounts :
                                     holder'[a] = k => a = LockOrder(op[k].tx)[1]
  <2>1. CASE k = j
    BY <2>1
  <2>2. CASE k # j
    BY <2>2 DEF LockInv
  <2>. QED  BY <2>1, <2>2
<1>. QED  BY <1>1, <1>2 DEF LockInv

\* No statement of a transfer lets a call wait with more than its first lock.
LEMMA LockStep ==
  ASSUME LockInv, [Next]_vars
  PROVE  LockInv'
<1>. USE DEF tables, calls, local, Goto
<1>1. TypeOK /\ LedgerInv
  BY DEF LockInv, LedgerInv
<1>2. LedgerInv'
  BY <1>1, LedgerStep
<1>3. /\ pc \in [Jobs -> PC] /\ holder \in [Accounts -> Jobs \cup {None}]
      /\ op \in [Jobs -> Op]
  BY <1>1 DEF TypeOK
<1>4. ASSUME NEW j \in Jobs, NEW t \in TxIds, BeginTransfer(j, t) PROVE LockInv'
  <2>1. \A a \in Accounts : holder[a] # j
    BY <1>1, <1>4 DEF LedgerInv, JobOK, Active, BeginTransfer
  <2>. QED  BY <1>2, <1>3, <1>4, <2>1 DEF LockInv, BeginTransfer, LockOrder, Debited, Credited
<1>5. ASSUME NEW j \in Jobs, LockFirst(j) PROVE LockInv'
  <2> DEFINE b == LockOrder(op[j].tx)[1]
  <2>1. /\ pc[j] = "lock1" /\ b \in Accounts /\ op' = op
        /\ pc' = [pc EXCEPT ![j] = "lock2"] /\ holder' = [holder EXCEPT ![b] = j]
    BY <1>5 DEF LockFirst, LockAccount
  <2>2. ASSUME NEW k \in Jobs
        PROVE  LockOrder(op[k].tx)' = LockOrder(op[k].tx)
    BY <2>1 DEF LockOrder, Debited, Credited
  <2>3. \A a \in Accounts : holder'[a] = (IF a = b THEN j ELSE holder[a])
    BY <1>3, <2>1
  <2>4. \A k \in Jobs : pc'[k] = (IF k = j THEN "lock2" ELSE pc[k])
    BY <1>3, <2>1
  <2>5. \A a \in Accounts : holder[a] # j
    BY <2>1 DEF LockInv
  <2> HIDE DEF b
  <2>6. ASSUME NEW k \in Jobs
        PROVE  /\ pc'[k] = "lock1" => \A a \in Accounts : holder'[a] # k
               /\ pc'[k] = "lock2" => \A a \in Accounts :
                                       holder'[a] = k => a = LockOrder(op[k].tx)[1]
    <3>1. CASE k = j
      BY <2>3, <2>4, <2>5, <3>1 DEF b
    <3>2. CASE k # j
      BY <2>3, <2>4, <3>2 DEF LockInv
    <3>. QED  BY <3>1, <3>2
  <2>. QED  BY <1>2, <2>2, <2>6 DEF LockInv
<1>6. ASSUME NEW j \in Jobs, LockSecond(j) PROVE LockInv'
  <2>1. /\ op' = op /\ pc' = [pc EXCEPT ![j] = "post"]
        /\ \A a \in Accounts : holder'[a] \in {holder[a], j}
    BY <1>3, <1>6 DEF LockSecond, LockAccount
  <2>2. pc'[j] = "post" /\ \A k \in Jobs : k = j \/ pc'[k] = pc[k]
    BY <1>3, <2>1
  <2>. QED  BY <1>2, <2>1, <2>2, NotWaiting
<1>7. ASSUME NEW j \in Jobs, PostEntries(j) \/ UpdateDebit(j) \/ UpdateCredit(j)
      PROVE  LockInv'
  <2>1. /\ op' = op /\ holder' = holder
        /\ \E q \in {"debit", "credit", "commit"} : pc' = [pc EXCEPT ![j] = q]
    BY <1>7 DEF PostEntries, UpdateDebit, UpdateCredit
  <2>2. /\ pc'[j] \notin {"lock1", "lock2"} /\ \A k \in Jobs : k = j \/ pc'[k] = pc[k]
    BY <1>3, <2>1
  <2>. QED  BY <1>2, <2>1, <2>2, NotWaiting
<1>8. ASSUME NEW j \in Jobs, Commit(j) \/ Rollback(j) PROVE LockInv'
  <2>1. /\ op' = op /\ pc' = [pc EXCEPT ![j] = "done"]
        /\ holder' = [a \in Accounts |-> IF holder[a] = j THEN None ELSE holder[a]]
    BY <1>8 DEF Commit, Rollback
  <2>2. /\ pc'[j] = "done" /\ \A k \in Jobs : k = j \/ pc'[k] = pc[k]
        /\ \A k \in Jobs : \A a \in Accounts : holder'[a] = k => holder[a] = k
    BY <2>1, <1>3, NoneAssumption
  <2>. QED  BY <1>2, <2>1, <2>2, NotWaiting
<1>9. ASSUME NEW j \in Jobs, LockReversed(j) \/ PostReversal(j) PROVE LockInv'
  <2>1. /\ op' = op
        /\ \E q \in {"revpost", "revlock", "commit"} : pc' = [pc EXCEPT ![j] = q]
        /\ \A a \in Accounts : holder'[a] \in {holder[a], j}
    <3>1. CASE LockReversed(j)
      BY <1>3, <3>1 DEF LockReversed, LockAccount
    <3>2. CASE PostReversal(j)
      <4>1. /\ op' = op /\ holder' = holder
            /\ \E q \in {"revpost", "revlock", "commit"} : pc' = [pc EXCEPT ![j] = q]
        BY <3>2 DEF PostReversal
      <4>. QED  BY <4>1
    <3>. QED  BY <1>9, <3>1, <3>2
  <2>2. /\ pc'[j] \notin {"lock1", "lock2"} /\ \A k \in Jobs : k = j \/ pc'[k] = pc[k]
    BY <1>3, <2>1
  <2>. QED  BY <1>2, <2>1, <2>2, NotWaiting
<1>11. ASSUME NEW j \in Jobs, NEW t \in TxIds, NEW d \in 0..Room[t],
              BeginReverse(j, t, d) \/ NothingToReverse(j, t, d)
       PROVE  LockInv'
  <2>1. \A a \in Accounts : holder[a] # j
    BY <1>1, <1>11 DEF LedgerInv, JobOK, Active, BeginReverse, NothingToReverse
  <2>. QED  BY <1>2, <1>3, <1>11, <2>1
            DEF LockInv, BeginReverse, NothingToReverse, LockOrder, Debited, Credited
<1>10. CASE UNCHANGED vars
  BY <1>2, <1>10 DEF LockInv, vars, LockOrder, Debited, Credited
<1>. QED
  BY <1>4, <1>5, <1>6, <1>7, <1>8, <1>9, <1>10, <1>11
     DEF Next, Step, MissingAccount, OptimisticLockFailed, StatementFails,
         DeadlockVictim, IdTooLong

\* Waiting calls that hold their first lock only cannot close a cycle.
LEMMA NoCycle ==
  ASSUME LockInv
  PROVE  TransfersNeverDeadlock
<1>0. SUFFICES ASSUME NEW S \in SUBSET Jobs, S # {},
                     \A k \in S : op[k].kind = "transfer",
                     \A k \in S : \E l \in S : WaitsFor(k, l),
                     \A k \in S : \E l \in S : WaitsFor(l, k)
              PROVE  FALSE
  BY DEF TransfersNeverDeadlock, Cycle
<1>1. ASSUME NEW k \in S
      PROVE  \E b \in Accounts : holder[b] = k
  BY <1>0, <1>1 DEF WaitsFor
<1>2. ASSUME NEW k \in S
      PROVE  /\ pc[k] = "lock2" /\ op[k].tx \in TxIds
             /\ \E b \in Accounts :
                  b = LockOrder(op[k].tx)[2] /\ holder[b] \in S /\ holder[b] # k
             /\ LockOrder(op[k].tx)[1] \in Accounts
             /\ holder[LockOrder(op[k].tx)[1]] = k
             /\ \A b \in Accounts : holder[b] = k => b = LockOrder(op[k].tx)[1]
  <2>1. PICK l \in S : WaitsFor(k, l)
    BY <1>0, <1>2
  <2>2. PICK b \in Accounts : Wants(k, b) /\ holder[b] = l /\ k # l
    BY <2>1 DEF WaitsFor
  <2>3. pc[k] = "lock2"
    BY <1>0, <1>1, <2>2 DEF Wants, LockInv, LedgerInv, ControlOK
  <2>4. b = LockOrder(op[k].tx)[2]
    BY <2>2, <2>3 DEF Wants
  <2>5. op[k].tx \in TxIds
    BY <2>3 DEF LockInv, LedgerInv, ControlOK, Active
  <2>6. \A x \in Accounts : holder[x] = k => x = LockOrder(op[k].tx)[1]
    BY <2>3 DEF LockInv
  <2>. QED  BY <1>1, <2>2, <2>3, <2>4, <2>5, <2>6
<1>3. ASSUME NEW k \in S
      PROVE  LockOrder(op[k].tx)[1] < LockOrder(op[k].tx)[2]
  <2>1. PICK t \in TxIds : t = op[k].tx
    BY <1>2
  <2>2. LockOrder(t)[1] # LockOrder(t)[2]
    <3>1. PICK b \in Accounts : b = LockOrder(t)[2] /\ holder[b] # k
      BY <1>2, <2>1
    <3>2. holder[LockOrder(t)[1]] = k
      BY <1>2, <2>1
    <3>. QED  BY <3>1, <3>2
  <2>3. /\ LockOrder(t)[1] <= LockOrder(t)[2]
        /\ LockOrder(t)[1] \in Int /\ LockOrder(t)[2] \in Int
    BY PaymentType
  <2>. QED  BY <2>1, <2>2, <2>3
<1>. DEFINE H == {a \in Accounts : holder[a] \in S}
<1>4. PICK m \in H : \A a \in H : m <= a
  <2>1. PICK k \in S : TRUE
    BY <1>0
  <2>2. H # {}
    BY <1>1, <2>1
  <2>. QED  BY <2>2, AccountsAssumption
<1>5. PICK k \in S : WaitsFor(k, holder[m])
  BY <1>0, <1>4
<1>6. m = LockOrder(op[k].tx)[2]
  <2>1. PICK b \in Accounts : Wants(k, b) /\ holder[b] = holder[m]
    BY <1>5 DEF WaitsFor
  <2>2. b = LockOrder(op[k].tx)[2]
    BY <1>2, <2>1 DEF Wants
  <2>3. b = m
    BY <1>2, <1>4, <2>1
  <2>. QED  BY <2>2, <2>3
<1>7. LockOrder(op[k].tx)[1] \in H
  BY <1>2
<1>. QED
  <2>1. LockOrder(op[k].tx)[1] \in Int /\ m \in Int
    BY <1>2, <1>4, AccountsAssumption
  <2>2. m <= LockOrder(op[k].tx)[1]
    BY <1>4, <1>7
  <2>3. LockOrder(op[k].tx)[1] < m
    BY <1>3, <1>6
  <2>. QED  BY <2>1, <2>2, <2>3

\* TransferTx locks "in consistent order to prevent deadlocks"
\* (ledger_service.go:145): transfers never wait for each other in a cycle,
\* for any accounts, payments and number of calls, reversals among them.
THEOREM NoTransferDeadlock == Spec => []TransfersNeverDeadlock
<1>1. Init => LockInv
  BY LockInit
<1>2. LockInv /\ [Next]_vars => LockInv'
  BY LockStep
<1>3. LockInv => TransfersNeverDeadlock
  BY NoCycle
<1>. QED  BY <1>1, <1>2, <1>3, PTL DEF Spec

-----------------------------------------------------------------------------
(* Ledger implements LedgerSpec: the commit of a call is the instant at    *)
(* which its whole transfer or reversal happens, every other statement is  *)
(* a stutter.                                                              *)

bal == [a \in Accounts |-> row[a].balance]

\* A step that commits nothing is a stutter of the abstract ledger.
LEMMA Stutter ==
  ASSUME UNCHANGED tables
  PROVE  UNCHANGED Abstract!vars
BY DEF tables, Abstract!vars

\* What a commit makes of the balances: g goes to the debited account and is
\* taken from the credited one, and no other account changes.
LEMMA CommitMoves ==
  ASSUME LedgerInv, NEW j \in Jobs, Commit(j),
         NEW t \in TxIds, t = op[j].tx, NEW g \in Int,
         Debited(t) # Credited(t),
         holder[Debited(t)] = j, holder[Credited(t)] = j,
         Written(j, Debited(t), g), Written(j, Credited(t), 0 - g)
  PROVE  /\ Debited(t) \in Accounts /\ Credited(t) \in Accounts
         /\ bal' = [bal EXCEPT ![Debited(t)] = @ + g, ![Credited(t)] = @ - g]
<1>1. TypeOK /\ ControlOK /\ JobOK(j)
  BY DEF LedgerInv
<1>2. Debited(t) \in Accounts /\ Credited(t) \in Accounts
  BY <1>1 DEF Commit, ControlOK, Movable
<1>3. /\ row'[Debited(t)] = view[j][Debited(t)]
      /\ row'[Credited(t)] = view[j][Credited(t)]
      /\ \A a \in Accounts : a \notin {Debited(t), Credited(t)} => row'[a] = row[a]
  BY <1>1, <1>2 DEF Commit, JobOK
<1>4. \A a \in Accounts : row[a].balance \in Int
  <2>1. \A a \in Accounts : row[a] \in Row
    BY <1>1 DEF TypeOK
  <2>. QED  BY <2>1 DEF Row
<1>5. /\ row'[Debited(t)].balance = row[Debited(t)].balance + g
      /\ row'[Credited(t)].balance = row[Credited(t)].balance - g
  BY <1>2, <1>3, <1>4 DEF Written
<1>6. \A a \in Accounts :
        row'[a].balance = (IF a = Debited(t) THEN row[a].balance + g
                           ELSE IF a = Credited(t) THEN row[a].balance - g
                           ELSE row[a].balance)
  BY <1>3, <1>5
<1>. HIDE DEF Debited, Credited
<1>. QED  BY <1>2, <1>6 DEF bal

\* The commit of a transfer is an abstract transfer.
LEMMA TransferCommits ==
  ASSUME LedgerInv, NEW j \in Jobs, Commit(j), op[j].kind = "transfer",
         NEW t \in TxIds, t = op[j].tx
  PROVE  Abstract!Transfer(t)
<1>1. TypeOK /\ ControlOK /\ JobOK(j)
  BY DEF LedgerInv
<1>2. Amount(t) \in Int /\ 0 - (0 - Amount(t)) = Amount(t)
  BY PaymentType
<1>3. /\ Debited(t) # Credited(t)
      /\ holder[Debited(t)] = j /\ holder[Credited(t)] = j
      /\ Written(j, Debited(t), 0 - Amount(t)) /\ Written(j, Credited(t), Amount(t))
  BY <1>1 DEF Commit, JobOK, TransferOK
<1>4. PICK g \in Int : g = 0 - Amount(t) /\ 0 - g = Amount(t)
  BY <1>2
<1>5. /\ Debited(t) \in Accounts /\ Credited(t) \in Accounts
      /\ bal' = [bal EXCEPT ![Debited(t)] = @ + g, ![Credited(t)] = @ - g]
  BY <1>3, <1>4, CommitMoves
<1>6. /\ Abstract!Payer(t) = Debited(t) /\ Abstract!Payee(t) = Credited(t)
  BY DEF Abstract!Payer, Abstract!Payee, Debited, Credited
<1>7. \A b \in Int : b + g = b - 1 * Payment[t].amount /\ b - g = b + 1 * Payment[t].amount
  BY <1>2, <1>4 DEF Amount
<1>8. \A a \in Accounts : bal[a] \in Int
  <2>1. \A a \in Accounts : row[a] \in Row
    BY <1>1 DEF TypeOK
  <2>. QED  BY <2>1 DEF Row, bal
<1>9. bal' = [bal EXCEPT ![Debited(t)] = @ - 1 * Payment[t].amount,
                         ![Credited(t)] = @ + 1 * Payment[t].amount]
  <2>1. bal[Debited(t)] + g = bal[Debited(t)] - 1 * Payment[t].amount
    BY <1>5, <1>7, <1>8
  <2>2. bal[Credited(t)] - g = bal[Credited(t)] + 1 * Payment[t].amount
    BY <1>5, <1>7, <1>8
  <2>. QED  BY <1>3, <1>5, <2>1, <2>2
<1>10. Abstract!Move(t, 1)
  BY <1>3, <1>5, <1>6, <1>9 DEF Abstract!Move, bal
<1>11. Id(j) = <<t, 0>> /\ Under(j) = <<t, 0>> /\ NewPairs(j) = 1
  <2>1. op[j].level = 0
    BY <1>1 DEF ControlOK
  <2>. QED  BY <2>1 DEF Id, Under, NewPairs
<1>. QED  BY <1>10, <1>11 DEF Commit, NewStates, Abstract!Transfer

\* The commit of a reversal is an abstract reversal of what it found.
LEMMA ReverseCommits ==
  ASSUME LedgerInv, NEW j \in Jobs, Commit(j), op[j].kind = "reverse",
         NEW t \in TxIds, t = op[j].tx, NEW v, v = op[j].level
  PROVE  v \in 0..(Room[t] - 1) /\ Abstract!Reverse(t, v)
<1>1. TypeOK /\ ControlOK /\ JobOK(j)
  BY DEF LedgerInv
<1>1a. v \in 0..(Room[t] - 1) /\ v \in Nat
  <2>1. v \in 0..Room[t] /\ v < Room[t] /\ Room[t] \in Nat
    BY <1>1, RoomAssumption DEF Commit, ControlOK, Active
  <2>. QED  BY <2>1
<1>1b. Id(j) = <<t, v>> /\ Under(j) = <<t, v + 1>> /\ NewPairs(j) = found[j]
  BY DEF Id, Under, NewPairs
<1>2. PICK n \in Nat : n = found[j]
  BY <1>1 DEF TypeOK
<1>3. /\ n \in 1..posted[<<t, v>>] /\ cursor[j] = 2 * n
      /\ \A a \in Accounts : holder[a] = j => Written(j, a, GivenBack(t, v, a, 2 * n))
      /\ holder[Debited(t)] = j /\ holder[Credited(t)] = j
  BY <1>1, <1>1b, <1>2 DEF Commit, JobOK, ReverseOK
<1>4. Debited(t) # Credited(t)
  <2>1. <<t, v>> \in Ids /\ v \in 0..Room[t]
    BY <1>1, <1>1b, IdsOf DEF TypeInv, Commit, Active
  <2>2. posted[<<t, v>>] \in Nat
    BY <1>1, <2>1 DEF TypeOK
  <2>3. posted[<<t, v>>] > 0
    BY <1>3, <2>2
  <2>. QED  BY <2>1, <2>3 DEF LedgerInv
<1>5. Debited(t) \in Accounts /\ Credited(t) \in Accounts
  BY <1>1 DEF Commit, ControlOK, Movable
<1>6. PICK m \in Int : m = n * PutBack(t, v)
  BY <1>1a, PaymentType
<1>7. /\ GivenBack(t, v, Debited(t), 2 * n) = m
      /\ GivenBack(t, v, Credited(t), 2 * n) = 0 - m
  <2>1. (2 * n + 1) \div 2 = n /\ (2 * n) \div 2 = n
    OBVIOUS
  <2>. QED  BY <2>1, <1>4, <1>6 DEF GivenBack
<1>8. Written(j, Debited(t), m) /\ Written(j, Credited(t), 0 - m)
  BY <1>3, <1>5, <1>7
<1>9. bal' = [bal EXCEPT ![Debited(t)] = @ + m, ![Credited(t)] = @ - m]
  BY <1>3, <1>4, <1>8, CommitMoves
<1>10. /\ Abstract!Payer(t) = Debited(t) /\ Abstract!Payee(t) = Credited(t)
  BY DEF Abstract!Payer, Abstract!Payee, Debited, Credited
<1>11. PICK r \in Int : r = IF v % 2 = 0 THEN 0 - n ELSE n
  OBVIOUS
<1>12. r * Payment[t].amount = 0 - m
  <2>1. PICK z \in Int : z = Payment[t].amount
    BY PaymentAssumption
  <2>2. (0 - n) * z = 0 - n * z /\ n * (0 - z) = 0 - n * z
    OBVIOUS
  <2>3. CASE v % 2 = 0
    BY <2>1, <2>2, <2>3, <1>6, <1>11 DEF PutBack, Amount
  <2>4. CASE v % 2 # 0
    <3>1. m = n * (0 - z) /\ r = n
      BY <2>1, <2>4, <1>6, <1>11 DEF PutBack, Amount
    <3>2. n * z \in Int
      OBVIOUS
    <3>. QED  BY <2>1, <2>2, <3>1, <3>2
  <2>. QED  BY <2>3, <2>4
<1>13. bal[Debited(t)] \in Int /\ bal[Credited(t)] \in Int
  <2>1. \A a \in Accounts : row[a] \in Row
    BY <1>1 DEF TypeOK
  <2>. QED  BY <2>1, <1>5 DEF Row, bal
<1>14. bal' = [bal EXCEPT ![Debited(t)] = @ - r * Payment[t].amount,
                          ![Credited(t)] = @ + r * Payment[t].amount]
  <2>1. bal[Debited(t)] + m = bal[Debited(t)] - r * Payment[t].amount
    BY <1>12, <1>13
  <2>2. bal[Credited(t)] - m = bal[Credited(t)] + r * Payment[t].amount
    BY <1>12, <1>13
  <2>. QED  BY <1>4, <1>9, <2>1, <2>2
<1>15. Abstract!Move(t, r)
  BY <1>4, <1>5, <1>10, <1>14 DEF Abstract!Move, bal
<1>16. /\ states' = [states EXCEPT ![<<t, v>>] = @ \o <<"REVERSED">>]
       /\ posted' = [posted EXCEPT ![<<t, v + 1>>] = @ + n]
  BY <1>1b, <1>2 DEF Commit, NewStates
<1>. QED  BY <1>1a, <1>3, <1>11, <1>15, <1>16 DEF Abstract!Reverse

\* A step of a call maps to a step of the abstract ledger or to a stutter.
LEMMA AbstractStep ==
  ASSUME LedgerInv, [Next]_vars
  PROVE  [Abstract!Next]_Abstract!vars
<1>1. ASSUME NEW j \in Jobs, Commit(j)
      PROVE  Abstract!Next
  <2>1. PICK t \in TxIds : t = op[j].tx
    BY <1>1 DEF LedgerInv, ControlOK, Active, Commit
  <2>2. op[j].kind \in {"transfer", "reverse"}
    BY <1>1 DEF LedgerInv, ControlOK, Commit
  <2>. QED
    BY <1>1, <2>1, <2>2, TransferCommits, ReverseCommits DEF Abstract!Next
<1>2. CASE UNCHANGED tables
  BY <1>2, Stutter
<1>3. ASSUME NEW j \in Jobs, Step(j) \/ StatementFails(j), ~Commit(j)
      PROVE  UNCHANGED tables
  <2>1. CASE LockFirst(j) \/ LockSecond(j) \/ PostEntries(j) \/ UpdateDebit(j) \/ UpdateCredit(j)
    BY <2>1 DEF LockFirst, LockSecond, PostEntries, UpdateDebit, UpdateCredit
  <2>2. CASE LockReversed(j) \/ PostReversal(j)
    BY <2>2 DEF LockReversed, PostReversal
  <2>3. CASE \/ MissingAccount(j) \/ OptimisticLockFailed(j) \/ StatementFails(j)
             \/ DeadlockVictim(j) \/ IdTooLong(j)
    BY <2>3 DEF MissingAccount, OptimisticLockFailed, StatementFails, DeadlockVictim, IdTooLong,
       Rollback
  <2>. QED  BY <1>3, <2>1, <2>2, <2>3 DEF Step
<1>4. ASSUME NEW j \in Jobs, NEW t \in TxIds, NEW d \in 0..Room[t],
             BeginTransfer(j, t) \/ BeginReverse(j, t, d) \/ NothingToReverse(j, t, d)
      PROVE  UNCHANGED tables
  BY <1>4 DEF BeginTransfer, BeginReverse, NothingToReverse
<1>4a. \A t \in TxIds : 0 \in 0..Room[t]
  BY RoomAssumption
<1>5. CASE UNCHANGED vars
  BY <1>2, <1>5 DEF vars
<1>6. ASSUME NEW j \in Jobs, ~Commit(j),
             \/ Step(j) \/ StatementFails(j)
             \/ \E t \in TxIds : \/ BeginTransfer(j, t)
                               \/ \E d \in 0..Room[t] : BeginReverse(j, t, d) \/ NothingToReverse(j, t, d)
      PROVE  UNCHANGED tables
  BY <1>3, <1>4, <1>4a, <1>6
<1>7. CASE Next
  <2>1. PICK j \in Jobs :
             \/ Step(j) \/ StatementFails(j)
             \/ \E t \in TxIds : \/ BeginTransfer(j, t)
                               \/ \E d \in 0..Room[t] : BeginReverse(j, t, d) \/ NothingToReverse(j, t, d)
    BY <1>7 DEF Next
  <2>2. CASE Commit(j)
    BY <1>1, <2>2
  <2>3. CASE ~Commit(j)
    BY <1>2, <1>6, <2>1, <2>3
  <2>. QED  BY <2>2, <2>3
<1>. QED  BY <1>2, <1>5, <1>7

\* Concurrent calls of Transfer and Reverse are, to every reader of the
\* committed tables, atomic transfers and reversals.
THEOREM LedgerIsAtomic == Spec => AtomicLedger
<1>1. Init => Abstract!Init
  BY OpeningAssumption DEF Init, Abstract!Init, Ids, Abstract!Ids
<1>2. LedgerInv /\ [Next]_vars => [Abstract!Next]_Abstract!vars
  BY AbstractStep
<1>. QED
  BY <1>1, <1>2, InductiveInvariant, PTL DEF Spec, AtomicLedger, Abstract!Spec

-----------------------------------------------------------------------------
(* What holds of the atomic transfers and reversals holds of the tables.   *)

\* What is moved from one account to another is still there.
LEMMA MoveConserves ==
  ASSUME bal \in [Accounts -> Int], NEW t \in TxIds, NEW n \in Int, Abstract!Move(t, n)
  PROVE  SumFunctionOnSet(bal', Accounts) = SumFunctionOnSet(bal, Accounts)
<1>1. PICK m \in Int : m = n * Payment[t].amount
  BY PaymentAssumption
<1>2. PICK x \in Accounts, y \in Accounts :
        /\ x # y
        /\ bal' = [bal EXCEPT ![x] = @ - m, ![y] = @ + m]
  BY <1>1 DEF Abstract!Move, bal
<1>3. /\ \A a \in Accounts : bal[a] \in Int /\ bal'[a] \in Int
      /\ \A a \in Accounts \ {x, y} : bal[a] = bal'[a]
      /\ (bal'[x] - bal[x]) + (bal'[y] - bal[y]) = 0
  <2>1. bal'[x] = bal[x] - m /\ bal'[y] = bal[y] + m
    BY <1>2
  <2>2. \A a \in Accounts \ {x, y} : bal'[a] = bal[a]
    BY <1>2
  <2> HIDE DEF bal
  <2> QED BY <1>2, <2>1, <2>2
<1> HIDE DEF bal
<1>4. IsFiniteSet(Accounts)
  BY FiniteAssumption
<1>5. ASSUME NEW f, NEW g, NEW d \in Accounts, NEW c \in Accounts, d # c,
             \A z \in Accounts : f[z] \in Int /\ g[z] \in Int,
             \A z \in Accounts \ {d, c} : f[z] = g[z],
             (g[d] - f[d]) + (g[c] - f[c]) = 0
      PROVE  SumFunctionOnSet(g, Accounts) = SumFunctionOnSet(f, Accounts)
  BY <1>4, <1>5, SumMoves
<1> QED BY <1>2, <1>3, <1>5

\* Money is neither made nor lost by any interleaving of transfers and
\* reversals, whatever the accounts and the amounts.
THEOREM MoneyConserved == Spec => []Conservation
<1>1. Init => Conservation
  <2>. SUFFICES ASSUME Init PROVE Conservation
    OBVIOUS
  <2>1. [a \in Accounts |-> row[a].balance] = Opening
    BY OpeningAssumption DEF Init
  <2>. QED  BY <2>1 DEF Conservation
<1>2. LedgerInv /\ Conservation /\ [Next]_vars => Conservation'
  <2>. SUFFICES ASSUME LedgerInv, Conservation, [Next]_vars PROVE Conservation'
    OBVIOUS
  <2>1. bal \in [Accounts -> Int]
    <3>1. \A a \in Accounts : row[a] \in Row
      BY DEF LedgerInv, TypeOK
    <3>. QED  BY <3>1 DEF Row, bal
  <2>2. SumFunctionOnSet(bal', Accounts) = SumFunctionOnSet(bal, Accounts)
    <3>1. [Abstract!Next]_Abstract!vars
      BY AbstractStep
    <3>2. CASE UNCHANGED Abstract!vars
      BY <3>2 DEF Abstract!vars, bal
    <3>3. ASSUME NEW t \in TxIds, Abstract!Transfer(t)
          PROVE  SumFunctionOnSet(bal', Accounts) = SumFunctionOnSet(bal, Accounts)
      BY <2>1, <3>3, MoveConserves DEF Abstract!Transfer
    <3>4. ASSUME NEW t \in TxIds, NEW v \in 0..(Room[t] - 1), Abstract!Reverse(t, v)
          PROVE  SumFunctionOnSet(bal', Accounts) = SumFunctionOnSet(bal, Accounts)
      <4>1. PICK n \in 1..posted[<<t, v>>] :
              Abstract!Move(t, IF v % 2 = 0 THEN 0 - n ELSE n)
        BY <3>4 DEF Abstract!Reverse
      <4>2. PICK r \in Int : r = IF v % 2 = 0 THEN 0 - n ELSE n
        BY <4>1
      <4>. QED  BY <2>1, <4>1, <4>2, MoveConserves
    <3>. QED  BY <3>1, <3>2, <3>3, <3>4 DEF Abstract!Next
  <2>. QED  BY <2>2 DEF Conservation, bal
<1>. QED  BY <1>1, <1>2, InductiveInvariant, PTL DEF Spec

-----------------------------------------------------------------------------
(* What is behind an id that is recorded REVERSED.                         *)

\* Entries under an id have something behind them.
EntriesFounded ==
  \A t \in TxIds : \A d \in 0..Room[t] : posted[<<t, d>>] > 0 => Founded(t, d)

\* States appended to those of one id.
LEMMA StatesAppend ==
  ASSUME TypeOK, NEW id \in Ids, NEW s \in Seq(State),
         states' = [states EXCEPT ![id] = @ \o s]
  PROVE  /\ \A u \in Ids : \A i \in 1..Len(states[u]) :
              i \in 1..Len(states'[u]) /\ states'[u][i] = states[u][i]
         /\ \A i \in 1..Len(s) :
              /\ Len(states[id]) + i \in 1..Len(states'[id])
              /\ states'[id][Len(states[id]) + i] = s[i]
         /\ \A i \in 1..Len(states'[id]) :
              \/ i \in 1..Len(states[id]) /\ states'[id][i] = states[id][i]
              \/ \E k \in 1..Len(s) : states'[id][i] = s[k]
         /\ \A u \in Ids \ {id} : states'[u] = states[u]
<1>1. PICK h \in Seq(State) : h = states[id]
  BY DEF TypeOK
<1>2. /\ states'[id] = h \o s
      /\ \A u \in Ids \ {id} : states'[u] = states[u]
  BY <1>1 DEF TypeOK
<1>3. /\ Len(h \o s) = Len(h) + Len(s)
      /\ \A i \in 1..Len(h) : (h \o s)[i] = h[i]
      /\ \A i \in 1..Len(s) : (h \o s)[Len(h) + i] = s[i]
      /\ Len(h) \in Nat /\ Len(s) \in Nat
  <2>1. \A i \in 1..Len(s) : (h \o s)[Len(h) + i] = s[i]
    OBVIOUS
  <2>. QED  BY <2>1, ConcatProperties, LenProperties
<1>4. ASSUME NEW i \in 1..Len(h \o s), i \notin 1..Len(h)
      PROVE  \E k \in 1..Len(s) : (h \o s)[i] = s[k]
  <2>1. i - Len(h) \in 1..Len(s) /\ Len(h) + (i - Len(h)) = i
    BY <1>3, <1>4
  <2>. QED  BY <1>3, <2>1
<1>5. \A u \in Ids : u = id \/ states'[u] = states[u]
  BY <1>2
<1>6. \A i \in 1..Len(h) : i \in 1..Len(h \o s)
  BY <1>3
<1>7. \A i \in 1..Len(s) : Len(h) + i \in 1..Len(h \o s)
  BY <1>3
<1>. QED  BY <1>1, <1>2, <1>3, <1>4, <1>5, <1>6, <1>7

\* What is behind an id stays behind it.
LEMMA FoundedStays ==
  ASSUME TypeOK, NEW id \in Ids, NEW s \in Seq(State),
         states' = [states EXCEPT ![id] = @ \o s],
         NEW t \in TxIds, NEW d \in 0..Room[t], Founded(t, d)
  PROVE  Founded(t, d)'
<1>1. <<t, 0>> \in Ids /\ (d # 0 => <<t, d - 1>> \in Ids)
  <2>1. 0 \in 0..Room[t] /\ (d # 0 => d - 1 \in 0..Room[t])
    BY RoomAssumption
  <2>. QED  BY <2>1, IdIn
<1>2. \A u \in Ids : \A i \in 1..Len(states[u]) :
        i \in 1..Len(states'[u]) /\ states'[u][i] = states[u][i]
  BY StatesAppend
<1>3. CASE d = 0
  BY <1>1, <1>2, <1>3 DEF Founded
<1>4. CASE d # 0
  BY <1>1, <1>2, <1>4 DEF Founded
<1>. QED  BY <1>3, <1>4

\* A transfer is what the entries it writes rest on.
LEMMA TransferFounds ==
  ASSUME TypeOK, ReversedWasFounded, EntriesFounded, NEW t \in TxIds,
         states' = [states EXCEPT ![<<t, 0>>] = @ \o <<"PENDING", "SUCCESS">>],
         posted' = [posted EXCEPT ![<<t, 0>>] = @ + 1]
  PROVE  ReversedWasFounded' /\ EntriesFounded'
<1>. DEFINE s == <<"PENDING", "SUCCESS">>
<1>1. s \in Seq(State) /\ Len(s) = 2 /\ s[1] = "PENDING" /\ s[2] = "SUCCESS"
  BY DEF State
<1>2. <<t, 0>> \in Ids
  <2>1. 0 \in 0..Room[t]
    BY RoomAssumption
  <2>. QED  BY <2>1, IdIn
<1>. HIDE DEF s
<1>3. states' = [states EXCEPT ![<<t, 0>>] = @ \o s]
  BY DEF s
<1>4. Founded(t, 0)'
  <2>1. 2 \in 1..Len(s)
    BY <1>1
  <2>2. /\ Len(states[<<t, 0>>]) + 2 \in 1..Len(states'[<<t, 0>>])
        /\ states'[<<t, 0>>][Len(states[<<t, 0>>]) + 2] = "SUCCESS"
    <3>1. \A i \in 1..Len(s) :
            /\ Len(states[<<t, 0>>]) + i \in 1..Len(states'[<<t, 0>>])
            /\ states'[<<t, 0>>][Len(states[<<t, 0>>]) + i] = s[i]
      BY <1>1, <1>2, <1>3, StatesAppend
    <3>. QED  BY <1>1, <2>1, <3>1
  <2>. QED  BY <2>2 DEF Founded
<1>5. ASSUME NEW u \in TxIds, NEW d \in 0..Room[u],
             NEW i \in 1..Len(states'[<<u, d>>]), states'[<<u, d>>][i] = "REVERSED"
      PROVE  Founded(u, d)'
  <2>1. <<u, d>> \in Ids
    BY IdIn
  <2>2. i \in 1..Len(states[<<u, d>>]) /\ states[<<u, d>>][i] = "REVERSED"
    <3>1. CASE <<u, d>> = <<t, 0>>
      <4>1. \/ i \in 1..Len(states[<<t, 0>>]) /\ states'[<<t, 0>>][i] = states[<<t, 0>>][i]
            \/ \E k \in 1..Len(s) : states'[<<t, 0>>][i] = s[k]
        BY <1>1, <1>2, <1>3, <1>5, <3>1, StatesAppend
      <4>2. \A k \in 1..Len(s) : s[k] # "REVERSED"
        BY <1>1
      <4>. QED  BY <1>5, <3>1, <4>1, <4>2
    <3>2. CASE <<u, d>> # <<t, 0>>
      <4>1. states'[<<u, d>>] = states[<<u, d>>]
        BY <1>1, <1>2, <1>3, <2>1, <3>2, StatesAppend
      <4>. QED  BY <1>5, <4>1
    <3>. QED  BY <3>1, <3>2
  <2>3. Founded(u, d)
    BY <2>2 DEF ReversedWasFounded
  <2>. QED  BY <1>1, <1>2, <1>3, <2>3, FoundedStays
<1>6. ASSUME NEW u \in TxIds, NEW d \in 0..Room[u], posted'[<<u, d>>] > 0
      PROVE  Founded(u, d)'
  <2>1. CASE <<u, d>> = <<t, 0>>
    <3>1. u = t /\ d = 0
      BY <2>1
    <3>. QED  BY <3>1, <1>4
  <2>2. CASE <<u, d>> # <<t, 0>>
    <3>1. posted'[<<u, d>>] = posted[<<u, d>>]
      BY <2>2, IdIn DEF TypeOK
    <3>2. Founded(u, d)
      BY <1>6, <3>1 DEF EntriesFounded
    <3>. QED  BY <1>1, <1>2, <1>3, <3>2, FoundedStays
  <2>. QED  BY <2>1, <2>2
<1>. QED  BY <1>5, <1>6 DEF ReversedWasFounded, EntriesFounded

\* A reversal finds entries with something behind them, and is what the ones
\* it writes rest on.
LEMMA ReversalFounds ==
  ASSUME TypeOK, ReversedWasFounded, EntriesFounded, NEW t \in TxIds,
         NEW v \in 0..(Room[t] - 1), NEW n \in Nat, posted[<<t, v>>] > 0,
         states' = [states EXCEPT ![<<t, v>>] = @ \o <<"REVERSED">>],
         posted' = [posted EXCEPT ![<<t, v + 1>>] = @ + n]
  PROVE  ReversedWasFounded' /\ EntriesFounded'
<1>. DEFINE s == <<"REVERSED">>
<1>1. s \in Seq(State) /\ Len(s) = 1 /\ s[1] = "REVERSED"
  BY DEF State
<1>2. v \in 0..Room[t] /\ v + 1 \in 0..Room[t] /\ (v + 1) - 1 = v /\ v + 1 # 0
  BY RoomAssumption
<1>3. <<t, v>> \in Ids /\ <<t, v + 1>> \in Ids
  BY <1>2, IdIn
<1>. HIDE DEF s
<1>4. states' = [states EXCEPT ![<<t, v>>] = @ \o s]
  BY DEF s
<1>5. Founded(t, v)'
  <2>1. Founded(t, v)
    BY <1>2 DEF EntriesFounded
  <2>. QED  BY <1>1, <1>2, <1>3, <1>4, <2>1, FoundedStays
<1>6. Founded(t, v + 1)'
  <2>1. 1 \in 1..Len(s)
    BY <1>1
  <2>2. /\ Len(states[<<t, v>>]) + 1 \in 1..Len(states'[<<t, v>>])
        /\ states'[<<t, v>>][Len(states[<<t, v>>]) + 1] = "REVERSED"
    <3>1. \A i \in 1..Len(s) :
            /\ Len(states[<<t, v>>]) + i \in 1..Len(states'[<<t, v>>])
            /\ states'[<<t, v>>][Len(states[<<t, v>>]) + i] = s[i]
      BY <1>1, <1>3, <1>4, StatesAppend
    <3>. QED  BY <1>1, <2>1, <3>1
  <2>. QED  BY <1>2, <2>2 DEF Founded
<1>7. ASSUME NEW u \in TxIds, NEW d \in 0..Room[u],
             NEW i \in 1..Len(states'[<<u, d>>]), states'[<<u, d>>][i] = "REVERSED"
      PROVE  Founded(u, d)'
  <2>1. CASE <<u, d>> = <<t, v>>
    <3>1. u = t /\ d = v
      BY <2>1
    <3>. QED  BY <3>1, <1>5
  <2>2. CASE <<u, d>> # <<t, v>>
    <3>1. states'[<<u, d>>] = states[<<u, d>>]
      BY <1>1, <1>3, <1>4, <2>2, IdIn, StatesAppend
    <3>2. Founded(u, d)
      BY <1>7, <3>1 DEF ReversedWasFounded
    <3>. QED  BY <1>1, <1>3, <1>4, <3>2, FoundedStays
  <2>. QED  BY <2>1, <2>2
<1>8. ASSUME NEW u \in TxIds, NEW d \in 0..Room[u], posted'[<<u, d>>] > 0
      PROVE  Founded(u, d)'
  <2>1. CASE <<u, d>> = <<t, v + 1>>
    <3>1. u = t /\ d = v + 1
      BY <2>1
    <3>. QED  BY <3>1, <1>6
  <2>2. CASE <<u, d>> # <<t, v + 1>>
    <3>1. posted'[<<u, d>>] = posted[<<u, d>>]
      BY <2>2, IdIn DEF TypeOK
    <3>2. Founded(u, d)
      BY <1>8, <3>1 DEF EntriesFounded
    <3>. QED  BY <1>1, <1>3, <1>4, <3>2, FoundedStays
  <2>. QED  BY <2>1, <2>2
<1>. QED  BY <1>7, <1>8 DEF ReversedWasFounded, EntriesFounded

\* payment_states tells of no reversal without a ground: REVERSED is recorded
\* for the id of a transfer that succeeded or, since Reverse only looks for
\* entries, for an id whose entries an earlier reversal wrote.
THEOREM ReversalsAreFounded == Spec => []ReversedWasFounded
<1>. DEFINE SInv == ReversedWasFounded /\ EntriesFounded
<1>1. Init => SInv
  BY IdIn DEF Init, ReversedWasFounded, EntriesFounded
<1>2. LedgerInv /\ SInv /\ [Next]_vars => SInv'
  <2>. SUFFICES ASSUME LedgerInv, SInv, [Next]_vars PROVE SInv'
    OBVIOUS
  <2>1. TypeOK /\ [Abstract!Next]_Abstract!vars
    BY AbstractStep DEF LedgerInv
  <2>2. CASE UNCHANGED Abstract!vars
    <3>1. states' = states /\ posted' = posted
      BY <2>2 DEF Abstract!vars
    <3>2. ASSUME NEW t \in TxIds, NEW d \in 0..Room[t], Founded(t, d) PROVE Founded(t, d)'
      BY <3>1, <3>2 DEF Founded
    <3>3. EntriesFounded'
      BY <3>1, <3>2 DEF EntriesFounded
    <3>4. ReversedWasFounded'
      BY <3>1, <3>2 DEF ReversedWasFounded
    <3>. QED  BY <3>3, <3>4
  <2>3. ASSUME NEW t \in TxIds, Abstract!Transfer(t) PROVE SInv'
    BY <2>1, <2>3, TransferFounds DEF Abstract!Transfer
  <2>4. ASSUME NEW t \in TxIds, NEW v \in 0..(Room[t] - 1), Abstract!Reverse(t, v)
        PROVE  SInv'
    <3>1. PICK n \in 1..posted[<<t, v>>] :
            /\ posted' = [posted EXCEPT ![<<t, v + 1>>] = @ + n]
            /\ states' = [states EXCEPT ![<<t, v>>] = @ \o <<"REVERSED">>]
      BY <2>4 DEF Abstract!Reverse
    <3>2. v \in 0..Room[t]
      BY RoomAssumption
    <3>3. posted[<<t, v>>] \in Nat
      BY <2>1, <3>2, IdIn DEF TypeOK
    <3>4. posted[<<t, v>>] > 0 /\ n \in Nat
      <4>1. PICK p \in Nat : p = posted[<<t, v>>]
        BY <3>3
      <4>2. n \in 1..p
        BY <4>1
      <4>3. p > 0 /\ n \in Nat
        BY <4>2
      <4>. QED  BY <4>1, <4>3
    <3>. QED  BY <2>1, <3>1, <3>4, ReversalFounds
  <2>. QED  BY <2>1, <2>2, <2>3, <2>4 DEF Abstract!Next
<1>3. SInv => ReversedWasFounded
  OBVIOUS
<1>. QED  BY <1>1, <1>2, <1>3, InductiveInvariant, PTL DEF Spec

=============================================================================

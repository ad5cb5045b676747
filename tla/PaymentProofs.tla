---------------------------- MODULE PaymentProofs ----------------------------
(***************************************************************************)
(* Proofs about the two ways to pay.                                       *)
(*                                                                         *)
(* About WalletPayment, for any requests, accounts and codes: types and    *)
(* the invariant WalletInv, and from it that an id is paid once, that a    *)
(* USSD code pays once, that who is told "paid" is told the truth, and     *)
(* that the balances are what the committed rows make of them.             *)
(*                                                                         *)
(* About BankTransfer, for any transfers, ids and size of the pool:        *)
(* types, the invariant TransferInv, and from it that nobody is credited   *)
(* without a debit, that a success and a record are settled at NIBSS, and  *)
(* that an id is on record once.                                           *)
(***************************************************************************)
EXTENDS WalletPayment, BankTransfer, Sums, TLAPS

\* What a transaction writes are balances of accounts that exist.
LEMMA WritesTyped ==
  ASSUME TypeOK, NEW r \in Requests, NEW a \in Accounts, NEW d \in Int, AddTo(r, a, d)
  PROVE  /\ DOMAIN new' = Requests
         /\ \A q \in Requests : \A b \in DOMAIN new'[q] : b \in Accounts /\ new'[q][b] \in Int
<1>1. Seen(r, a) + d \in Int
  BY DEF Seen, TypeOK
<1>2. new' = [new EXCEPT ![r] = With(new[r], a, Seen(r, a) + d)]
  BY DEF AddTo
<1>3. \A b \in DOMAIN new'[r] : b \in Accounts /\ new'[r][b] \in Int
  BY <1>1, <1>2 DEF TypeOK, With
<1>4. \A q \in Requests : q # r => new'[q] = new[q]
  BY <1>2 DEF TypeOK
<1> QED BY <1>2, <1>3, <1>4 DEF TypeOK

\* A commit leaves every balance an integer.
LEMMA CommitTyped ==
  ASSUME TypeOK, NEW r \in Requests, Commit(r)
  PROVE  balance' \in [Accounts -> Int]
BY DEF TypeOK, Commit, Seen

\* Every action keeps the types.
THEOREM TypeCorrect == Spec => []TypeOK
<1>1. Init => TypeOK
  BY RequestsAssumption DEF Init, TypeOK, Nothing, CodesOf
<1>2. TypeOK /\ [Next]_vars => TypeOK'
  <2> SUFFICES ASSUME TypeOK, [Next]_vars PROVE TypeOK'
    OBVIOUS
  <2> USE RequestsAssumption DEF TypeOK, database, cache
  <2>0. ASSUME NEW r \in Requests, Undecoded(r) PROVE TypeOK'
    BY <2>0 DEF Undecoded, Finish
  <2>1. ASSUME NEW r \in Requests, AnsweredAlready(r) PROVE TypeOK'
    BY <2>1 DEF AnsweredAlready, Finish
  <2>2. ASSUME NEW r \in Requests, Route(r) PROVE TypeOK'
    BY <2>2 DEF Route, Goto
  <2>3. ASSUME NEW r \in Requests, Refuse(r) PROVE TypeOK'
    BY <2>3 DEF Refuse, Finish
  <2>4. ASSUME NEW r \in Requests, CodeGone(r) PROVE TypeOK'
    BY <2>4 DEF CodeGone, Finish
  <2>5. ASSUME NEW r \in Requests, ReadQRCode(r) PROVE TypeOK'
    BY <2>5 DEF ReadQRCode, Goto
  <2>6. ASSUME NEW r \in Requests, ReadUssdCode(r) PROVE TypeOK'
    BY <2>6 DEF ReadUssdCode, Goto
  <2>7. ASSUME NEW r \in Requests, RejectUssdCode(r) PROVE TypeOK'
    BY <2>7 DEF RejectUssdCode, Rollback, Finish, Release, Nothing
  <2>8. ASSUME NEW r \in Requests, ConsumeUssdCode(r) PROVE TypeOK'
    BY <2>8 DEF ConsumeUssdCode, Release, Nothing, Goto
  <2>9. ASSUME NEW r \in Requests, FundsShort(r) PROVE TypeOK'
    BY <2>9 DEF FundsShort, Finish
  <2>10. ASSUME NEW r \in Requests, FundsSuffice(r) PROVE TypeOK'
    BY <2>10 DEF FundsSuffice, Goto
  <2>11. ASSUME NEW r \in Requests, Debit(r) PROVE TypeOK'
    <3>1. AddTo(r, From[r], -Amount[r]) /\ From[r] \in Accounts /\ -Amount[r] \in Int
      BY <2>11 DEF Debit
    <3>2. /\ DOMAIN new' = Requests
          /\ \A q \in Requests : \A b \in DOMAIN new'[q] : b \in Accounts /\ new'[q][b] \in Int
      BY <3>1, WritesTyped
    <3> QED BY <2>11, <3>1, <3>2 DEF Debit, AddTo, Goto
  <2>12. ASSUME NEW r \in Requests, Credit(r) PROVE TypeOK'
    <3>1. AddTo(r, To[r], Amount[r]) /\ To[r] \in Accounts /\ Amount[r] \in Int
      BY <2>12 DEF Credit
    <3>2. /\ DOMAIN new' = Requests
          /\ \A q \in Requests : \A b \in DOMAIN new'[q] : b \in Accounts /\ new'[q][b] \in Int
      BY <3>1, WritesTyped
    <3> QED BY <2>12, <3>1, <3>2 DEF Credit, AddTo, Goto
  <2>13. ASSUME NEW r \in Requests, CreditNobody(r) PROVE TypeOK'
    BY <2>13 DEF CreditNobody, Goto
  <2>14. ASSUME NEW r \in Requests, Insert(r) PROVE TypeOK'
    BY <2>14 DEF Insert, Goto
  <2>15. ASSUME NEW r \in Requests, DuplicateId(r) PROVE TypeOK'
    BY <2>15 DEF DuplicateId, Rollback, Finish, Release, Nothing
  <2>16. ASSUME NEW r \in Requests, StatementFails(r) PROVE TypeOK'
    BY <2>16 DEF StatementFails, Rollback, Finish, Release, Nothing
  <2>17. ASSUME NEW r \in Requests, Committed(r) PROVE TypeOK'
    <3>1. balance' \in [Accounts -> Int]
      BY <2>17, CommitTyped DEF Committed
    <3> QED BY <2>17, <3>1 DEF Committed, Commit, Goto, Release, Nothing
  <2>18. ASSUME NEW r \in Requests, CommitUnsure(r) PROVE TypeOK'
    <3>1. balance' \in [Accounts -> Int]
      BY <2>18, CommitTyped DEF CommitUnsure
    <3> QED BY <2>18, <3>1 DEF CommitUnsure, Commit, Finish, Release, Nothing
  <2>19. ASSUME NEW r \in Requests, Succeed(r) PROVE TypeOK'
    BY <2>19 DEF Succeed, Finish, Ids
  <2>20. ASSUME NEW r \in Requests, DeadlockVictim(r) PROVE TypeOK'
    BY <2>20 DEF DeadlockVictim, Rollback, Finish, Release, Nothing
  <2>21. CASE Crash
    BY <2>21 DEF Crash, Nothing
  <2>22. CASE KeyExpires
    BY <2>22 DEF KeyExpires
  <2>23. CASE UNCHANGED vars
    BY <2>23 DEF vars
  <2> QED
    BY <2>0, <2>1, <2>2, <2>3, <2>4, <2>5, <2>6, <2>7, <2>8, <2>9, <2>10, <2>11, <2>12,
       <2>13, <2>14, <2>15, <2>16, <2>17, <2>18, <2>19, <2>20, <2>21, <2>22, <2>23 DEF Next,
       Step, ValidatePayment, ProcessPayment
<1> QED BY <1>1, <1>2, PTL DEF Spec

-----------------------------------------------------------------------------
(* The invariant, with the types already kept                              *)

Kept == RowsOfEnded /\ PaidOncePerId /\ CodesKept /\ KeysTrue /\ PaidAnswersTrue

\* A request that has not paid and gives up, with or without the end of a
\* transaction, disturbs nothing: it frees its own locks only.
LEMMA GivesUp ==
  ASSUME TypeOK, Kept, NEW r \in Requests,
         Finish(r, "failed"), pc[r] \notin {"after", "done"},
         UNCHANGED <<rows, used, idem>>,
         \A x \in Codes : locks[x] # r => locks'[x] = locks[x]
  PROVE  Kept'
<1> USE RequestsAssumption DEF Finish
<1>1. r \notin rows
  BY DEF Kept, RowsOfEnded
<1>2. \A q \in Requests : pc'[q] = IF q = r THEN "done" ELSE pc[q]
  BY DEF TypeOK
<1>3. \A q \in Requests : answer'[q] = IF q = r THEN "failed" ELSE answer[q]
  BY DEF TypeOK
<1>4. RowsOfEnded'
  BY <1>1, <1>2 DEF Kept, RowsOfEnded, Paid, InsertedBy
<1>5. PaidOncePerId'
  BY DEF Kept, PaidOncePerId
<1>6. \A q \in Requests : Consumer(q)' => Consumer(q)
  BY <1>2 DEF Consumer
<1>7. \A q \in Requests : pc'[q] = "mark" => pc[q] = "mark" /\ q # r
  BY <1>2
<1>8. \A q \in Requests : pc[q] = "mark" /\ q # r =>
        locks[Code[q]] = q /\ Code[q] \in Codes
  BY DEF Kept, CodesKept, TypeOK
<1>9. CodesKept'
  BY <1>6, <1>7, <1>8 DEF Kept, CodesKept
<1>10. KeysTrue' /\ PaidAnswersTrue'
  BY <1>3 DEF Kept, KeysTrue, PaidAnswersTrue, Paid
<1> QED BY <1>4, <1>5, <1>9, <1>10 DEF Kept

\* A request that goes on to a step before its INSERT disturbs nothing either,
\* unless it begins to be the consumer of a USSD code.
LEMMA GoesOn ==
  ASSUME TypeOK, Kept, NEW r \in Requests, NEW l \in {"code", "funds", "debit", "credit", "insert"},
         Goto(r, l), pc[r] \notin {"mark", "after", "done"},
         l # "code" => Consumer(r) \/ Mode[r] # "USSD",
         UNCHANGED <<rows, used, idem>>,
         \A x \in Codes : locks'[x] = locks[x]
  PROVE  Kept'
<1> USE RequestsAssumption DEF Goto
<1>1. r \notin rows
  BY DEF Kept, RowsOfEnded
<1>2. \A q \in Requests : pc'[q] = IF q = r THEN l ELSE pc[q]
  BY DEF TypeOK
<1>3. RowsOfEnded'
  BY <1>1, <1>2 DEF Kept, RowsOfEnded, Paid, InsertedBy
<1>4. PaidOncePerId'
  BY DEF Kept, PaidOncePerId
<1>5. \A q \in Requests : Consumer(q)' => Consumer(q)
  BY <1>1, <1>2 DEF Consumer
<1>6. \A q \in Requests : pc'[q] = "mark" => pc[q] = "mark" /\ Code[q] \in Codes
  BY <1>2 DEF TypeOK
<1>7. CodesKept'
  BY <1>5, <1>6 DEF Kept, CodesKept
<1>8. KeysTrue' /\ PaidAnswersTrue'
  BY DEF Kept, KeysTrue, PaidAnswersTrue, Paid
<1> QED BY <1>3, <1>4, <1>7, <1>8 DEF Kept

\* Who is told "already" has found a key, and keys are true.
LEMMA AnsweredKeeps ==
  ASSUME TypeOK, Kept, NEW r \in Requests, AnsweredAlready(r)
  PROVE  Kept'
<1> USE RequestsAssumption DEF AnsweredAlready, Finish, database, cache
<1>1. r \notin rows
  BY DEF Kept, RowsOfEnded
<1>2. \A q \in Requests : pc'[q] = IF q = r THEN "done" ELSE pc[q]
  BY DEF TypeOK
<1>3. \A q \in Requests : answer'[q] = IF q = r THEN "already" ELSE answer[q]
  BY DEF TypeOK
<1>4. Paid(TxId[r])
  BY DEF Kept, KeysTrue
<1>5. RowsOfEnded'
  BY <1>1, <1>2 DEF Kept, RowsOfEnded, Paid, InsertedBy
<1>6. PaidOncePerId'
  BY DEF Kept, PaidOncePerId
<1>7. \A q \in Requests : Consumer(q)' => Consumer(q)
  BY <1>2 DEF Consumer
<1>8. CodesKept'
  BY <1>2, <1>7 DEF Kept, CodesKept
<1>9. KeysTrue' /\ PaidAnswersTrue'
  BY <1>3, <1>4 DEF Kept, KeysTrue, PaidAnswersTrue, Paid
<1> QED BY <1>5, <1>6, <1>8, <1>9 DEF Kept

\* The lock of a code is taken when it is free: nobody else decides on it.
LEMMA ReadUssdCodeKeeps ==
  ASSUME TypeOK, Kept, NEW r \in Requests, ReadUssdCode(r)
  PROVE  Kept'
<1> USE RequestsAssumption DEF ReadUssdCode, Goto, cache
<1>1. r \notin rows
  BY DEF Kept, RowsOfEnded
<1>2. \A q \in Requests : pc'[q] = IF q = r THEN "mark" ELSE pc[q]
  BY DEF TypeOK
<1>3. \A x \in Codes : locks'[x] = IF x = Code[r] THEN r ELSE locks[x]
  BY DEF TypeOK
<1>4. RowsOfEnded'
  BY <1>1, <1>2 DEF Kept, RowsOfEnded, Paid, InsertedBy
<1>5. PaidOncePerId'
  BY DEF Kept, PaidOncePerId
<1>6. \A q \in Requests : Consumer(q)' => Consumer(q)
  BY <1>1, <1>2 DEF Consumer
<1>7. ASSUME NEW q \in Requests, pc'[q] = "mark"
      PROVE  Mode[q] = "USSD" /\ locks'[Code[q]] = q /\ Code[q] \notin used
  <2>1. CASE q = r
    BY <2>1, <1>3
  <2>2. CASE q # r
    <3>1. pc[q] = "mark" /\ locks[Code[q]] = q /\ Code[q] \in Codes
      BY <1>2, <1>7, <2>2 DEF Kept, CodesKept
    <3>2. Code[q] # Code[r]
      BY <3>1
    <3> QED BY <1>3, <3>1, <3>2 DEF Kept, CodesKept
  <2> QED BY <2>1, <2>2
<1>8. CodesKept'
  BY <1>6, <1>7 DEF Kept, CodesKept
<1>9. KeysTrue' /\ PaidAnswersTrue'
  BY DEF Kept, KeysTrue, PaidAnswersTrue, Paid
<1> QED BY <1>4, <1>5, <1>8, <1>9 DEF Kept

\* A code is marked used by one request, the holder of its lock: the code
\* had no consumer and now has that one.
LEMMA ConsumeUssdCodeKeeps ==
  ASSUME TypeOK, Kept, NEW r \in Requests, ConsumeUssdCode(r)
  PROVE  Kept'
<1> USE RequestsAssumption DEF ConsumeUssdCode, Goto, cache
<1>1. r \notin rows
  BY DEF Kept, RowsOfEnded
<1>2. \A q \in Requests : pc'[q] = IF q = r THEN "funds" ELSE pc[q]
  BY DEF TypeOK
<1>3. \A x \in Codes : locks'[x] = IF locks[x] = r THEN None ELSE locks[x]
  BY DEF TypeOK, Release
<1>4. Mode[r] = "USSD" /\ locks[Code[r]] = r /\ Code[r] \notin used /\ Code[r] \in Codes
  BY DEF Kept, CodesKept, TypeOK
<1>5. RowsOfEnded'
  BY <1>1, <1>2 DEF Kept, RowsOfEnded, Paid, InsertedBy
<1>6. PaidOncePerId'
  BY DEF Kept, PaidOncePerId
<1>7. \A q \in Requests : Consumer(q)' => q = r \/ Consumer(q)
  BY <1>2 DEF Consumer
<1>8. \A q \in Requests : Consumer(q) => Code[q] # Code[r]
  BY <1>4 DEF Kept, CodesKept
<1>9. \A q \in Requests : Consumer(q)' =>
        /\ Code[q] \in used'
        /\ \A p \in Requests : Consumer(p)' /\ Code[p] = Code[q] => p = q
  BY <1>7, <1>8 DEF Kept, CodesKept
<1>10. ASSUME NEW q \in Requests, pc'[q] = "mark"
       PROVE  Mode[q] = "USSD" /\ locks'[Code[q]] = q /\ Code[q] \notin used'
  <2>1. q # r /\ pc[q] = "mark"
    BY <1>2, <1>10
  <2>2. Mode[q] = "USSD" /\ locks[Code[q]] = q /\ Code[q] \notin used /\ Code[q] \in Codes
    BY <2>1 DEF Kept, CodesKept
  <2>3. Code[q] # Code[r]
    BY <1>4, <2>1, <2>2
  <2> QED BY <1>3, <2>1, <2>2, <2>3
<1>11. CodesKept'
  BY <1>9, <1>10 DEF CodesKept
<1>12. KeysTrue' /\ PaidAnswersTrue'
  BY DEF Kept, KeysTrue, PaidAnswersTrue, Paid
<1> QED BY <1>5, <1>6, <1>11, <1>12 DEF Kept

\* The unique index lets an id be inserted by one open transaction, and only
\* while no row has it.
LEMMA InsertKeeps ==
  ASSUME TypeOK, Kept, NEW r \in Requests, Insert(r)
  PROVE  Kept'
<1> USE RequestsAssumption DEF Insert, Goto, database, cache
<1>1. r \notin rows
  BY DEF Kept, RowsOfEnded
<1>2. \A q \in Requests : pc'[q] = IF q = r THEN "commit" ELSE pc[q]
  BY DEF TypeOK
<1>3. RowsOfEnded'
  <2>1. \A q \in Requests : pc'[q] = "commit" => ~Paid(TxId[q])'
    BY <1>2 DEF Kept, RowsOfEnded, Paid
  <2>2. \A q, p \in Requests : pc'[q] = "commit" => ~InsertedBy(p, q)'
    BY <1>2 DEF Kept, RowsOfEnded, InsertedBy
  <2> QED BY <1>1, <1>2, <2>1, <2>2 DEF Kept, RowsOfEnded, TypeOK
<1>4. PaidOncePerId'
  BY DEF Kept, PaidOncePerId
<1>5. \A q \in Requests : Consumer(q)' => Consumer(q)
  BY <1>1, <1>2 DEF Consumer
<1>6. CodesKept'
  BY <1>2, <1>5 DEF Kept, CodesKept
<1>7. KeysTrue' /\ PaidAnswersTrue'
  BY DEF Kept, KeysTrue, PaidAnswersTrue, Paid
<1> QED BY <1>3, <1>4, <1>6, <1>7 DEF Kept

\* A commit adds the one row of its id.  What the request answers is "failed"
\* or comes later.
LEMMA CommitKeeps ==
  ASSUME TypeOK, Kept, NEW r \in Requests, Commit(r),
         Goto(r, "after") \/ Finish(r, "failed")
  PROVE  Kept'
<1> USE RequestsAssumption DEF Goto, Finish, Commit, cache
<1>1. \A q \in Requests : q # r => pc'[q] = pc[q]
  BY DEF TypeOK
<1>2. pc'[r] \in {"after", "done"}
  BY DEF TypeOK
<1>3. \A q \in Requests : answer'[q] \in {"paid", "already"} => answer[q] = answer'[q]
  BY DEF TypeOK
<1>4. \A x \in Codes : locks'[x] = IF locks[x] = r THEN None ELSE locks[x]
  BY DEF TypeOK, Release
<1>5. ~Paid(TxId[r]) /\ \A q \in Requests : ~InsertedBy(q, r)
  BY DEF Kept, RowsOfEnded
<1>6. RowsOfEnded'
  <2>1. \A q \in rows' : q \in Requests /\ pc'[q] \in {"after", "done"}
    BY <1>1, <1>2 DEF Kept, RowsOfEnded, TypeOK
  <2>2. \A q \in Requests : pc'[q] = "after" => q \in rows'
    BY <1>1 DEF Kept, RowsOfEnded
  <2>3. ASSUME NEW q \in Requests, pc'[q] = "commit"
        PROVE  ~Paid(TxId[q])' /\ \A p \in Requests : ~InsertedBy(p, q)'
    <3>1. q # r /\ pc[q] = "commit"
      BY <1>1, <1>2, <2>3
    <3>2. TxId[q] # TxId[r]
      BY <1>5, <3>1 DEF InsertedBy
    <3>3. ~Paid(TxId[q])'
      BY <3>1, <3>2 DEF Kept, RowsOfEnded, Paid
    <3>4. \A p \in Requests : ~InsertedBy(p, q)'
      BY <1>1, <1>2, <3>1 DEF Kept, RowsOfEnded, InsertedBy
    <3> QED BY <3>3, <3>4
  <2> QED BY <2>1, <2>2, <2>3 DEF RowsOfEnded
<1>7. PaidOncePerId'
  BY <1>5 DEF Kept, PaidOncePerId, Paid
<1>8. \A q \in Requests : Consumer(q)' => Consumer(q)
  BY <1>1 DEF Consumer
<1>9. \A q \in Requests : pc'[q] = "mark" => pc[q] = "mark" /\ q # r /\ Code[q] \in Codes
  BY <1>1, <1>2 DEF TypeOK
<1>10. CodesKept'
  BY <1>4, <1>8, <1>9 DEF Kept, CodesKept
<1>11. KeysTrue' /\ PaidAnswersTrue'
  BY <1>3 DEF Kept, KeysTrue, PaidAnswersTrue, Paid
<1> QED BY <1>6, <1>7, <1>10, <1>11 DEF Kept

\* The key of an id and the answer "paid" come after its row.
LEMMA SucceedKeeps ==
  ASSUME TypeOK, Kept, NEW r \in Requests, Succeed(r)
  PROVE  Kept'
<1> USE RequestsAssumption DEF Succeed, Finish, database
<1>1. r \in rows
  BY DEF Kept, RowsOfEnded
<1>2. \A q \in Requests : pc'[q] = IF q = r THEN "done" ELSE pc[q]
  BY DEF TypeOK
<1>3. \A q \in Requests : answer'[q] = IF q = r THEN "paid" ELSE answer[q]
  BY DEF TypeOK
<1>4. Paid(TxId[r])
  BY <1>1 DEF Paid
<1>5. RowsOfEnded'
  BY <1>2 DEF Kept, RowsOfEnded, Paid, InsertedBy
<1>6. PaidOncePerId'
  BY DEF Kept, PaidOncePerId
<1>7. \A q \in Requests : Consumer(q)' => Consumer(q)
  BY <1>2 DEF Consumer
<1>8. CodesKept'
  BY <1>2, <1>7 DEF Kept, CodesKept
<1>9. KeysTrue' /\ PaidAnswersTrue'
  BY <1>3, <1>4 DEF Kept, KeysTrue, PaidAnswersTrue, Paid
<1> QED BY <1>5, <1>6, <1>8, <1>9 DEF Kept

\* A crash ends every request and keeps what is committed.
LEMMA CrashKeeps ==
  ASSUME TypeOK, Kept, Crash
  PROVE  Kept'
<1> USE RequestsAssumption DEF Crash, Busy, cache
<1>1. \A q \in Requests : pc'[q] \in {"idle", "done"} /\ (pc[q] = "done" => pc'[q] = "done")
  BY DEF TypeOK
<1>2. \A q \in Requests : pc[q] = "after" => pc'[q] = "done"
  OBVIOUS
<1>3. \A q \in Requests : answer'[q] \in {"paid", "already"} => answer'[q] = answer[q]
  BY DEF TypeOK
<1>4. RowsOfEnded'
  BY <1>1, <1>2 DEF Kept, RowsOfEnded, TypeOK
<1>5. PaidOncePerId'
  BY DEF Kept, PaidOncePerId
<1>6. \A q \in Requests : Consumer(q)' => Consumer(q)
  BY <1>1 DEF Consumer
<1>7. CodesKept'
  BY <1>1, <1>6 DEF Kept, CodesKept
<1>8. KeysTrue' /\ PaidAnswersTrue'
  BY <1>3 DEF Kept, KeysTrue, PaidAnswersTrue, Paid
<1> QED BY <1>4, <1>5, <1>7, <1>8 DEF Kept

\* A key that expires makes no row and no lock.
LEMMA KeyExpiresKeeps ==
  ASSUME TypeOK, Kept, KeyExpires
  PROVE  Kept'
<1> USE DEF KeyExpires, database
<1>1. idem' \subseteq idem
  OBVIOUS
<1>2. RowsOfEnded'
  BY DEF Kept, RowsOfEnded, Paid, InsertedBy
<1>3. PaidOncePerId'
  BY DEF Kept, PaidOncePerId
<1>4. CodesKept'
  BY DEF Kept, CodesKept, Consumer
<1>5. KeysTrue' /\ PaidAnswersTrue'
  BY <1>1 DEF Kept, KeysTrue, PaidAnswersTrue, Paid
<1> QED BY <1>2, <1>3, <1>4, <1>5 DEF Kept

\* The invariant of WalletPayment: rows, codes and keys agree in every state.
THEOREM InductiveInvariant == Spec => []WalletInv
<1>1. Init => Kept
  BY DEF Init, Kept, RowsOfEnded, PaidOncePerId, CodesKept, Consumer, KeysTrue,
     PaidAnswersTrue, None
<1>2. TypeOK /\ Kept /\ [Next]_vars => Kept'
  <2> SUFFICES ASSUME TypeOK, Kept, [Next]_vars PROVE Kept'
    OBVIOUS
  <2> USE RequestsAssumption
  <2>0. ASSUME NEW r \in Requests, Undecoded(r) PROVE Kept'
    BY <2>0, GivesUp DEF Undecoded, database, cache
  <2>1. ASSUME NEW r \in Requests, AnsweredAlready(r) PROVE Kept'
    BY <2>1, AnsweredKeeps
  <2>2. ASSUME NEW r \in Requests, Route(r) PROVE Kept'
    <3>1. CASE Mode[r] \in {"QR", "USSD"}
      BY <2>2, <3>1, GoesOn DEF Route, database, cache
    <3>2. CASE Mode[r] \notin {"QR", "USSD"}
      BY <2>2, <3>2, GoesOn DEF Route, database, cache
    <3> QED BY <3>1, <3>2
  <2>3. ASSUME NEW r \in Requests, Refuse(r) PROVE Kept'
    BY <2>3, GivesUp DEF Refuse, database, cache
  <2>4. ASSUME NEW r \in Requests, CodeGone(r) PROVE Kept'
    BY <2>4, GivesUp DEF CodeGone, database, cache
  <2>5. ASSUME NEW r \in Requests, ReadQRCode(r) PROVE Kept'
    BY <2>5, GoesOn DEF ReadQRCode, database, cache
  <2>6. ASSUME NEW r \in Requests, ReadUssdCode(r) PROVE Kept'
    BY <2>6, ReadUssdCodeKeeps
  <2>7. ASSUME NEW r \in Requests, RejectUssdCode(r) PROVE Kept'
    BY <2>7, GivesUp DEF RejectUssdCode, Rollback, Release, cache, TypeOK
  <2>8. ASSUME NEW r \in Requests, ConsumeUssdCode(r) PROVE Kept'
    BY <2>8, ConsumeUssdCodeKeeps
  <2>9. ASSUME NEW r \in Requests, FundsShort(r) PROVE Kept'
    BY <2>9, GivesUp DEF FundsShort, database, cache
  <2>10. ASSUME NEW r \in Requests, FundsSuffice(r) PROVE Kept'
    BY <2>10, GoesOn DEF FundsSuffice, database, cache, Consumer
  <2>11. ASSUME NEW r \in Requests, Debit(r) PROVE Kept'
    <3>1. \A x \in Codes : locks'[x] = locks[x]
      BY <2>11 DEF Debit, AddTo
    <3>2. Consumer(r) \/ Mode[r] # "USSD"
      BY <2>11 DEF Debit, Consumer
    <3>3. \E l \in {"insert", "credit"} : Goto(r, l)
      BY <2>11 DEF Debit
    <3> QED BY <2>11, <3>1, <3>2, <3>3, GoesOn DEF Debit, AddTo, cache
  <2>12. ASSUME NEW r \in Requests, Credit(r) PROVE Kept'
    <3>1. \A x \in Codes : locks'[x] = locks[x]
      BY <2>12 DEF Credit, AddTo
    <3>2. Consumer(r) \/ Mode[r] # "USSD"
      BY <2>12 DEF Credit, Consumer
    <3> QED BY <2>12, <3>1, <3>2, GoesOn DEF Credit, AddTo, cache
  <2>13. ASSUME NEW r \in Requests, CreditNobody(r) PROVE Kept'
    BY <2>13, GoesOn DEF CreditNobody, database, cache, Consumer
  <2>14. ASSUME NEW r \in Requests, Insert(r) PROVE Kept'
    BY <2>14, InsertKeeps
  <2>15. ASSUME NEW r \in Requests, DuplicateId(r) PROVE Kept'
    BY <2>15, GivesUp DEF DuplicateId, Rollback, Release, cache, TypeOK
  <2>16. ASSUME NEW r \in Requests, StatementFails(r) PROVE Kept'
    BY <2>16, GivesUp DEF StatementFails, Rollback, Release, cache, TypeOK, InTx
  <2>17. ASSUME NEW r \in Requests, Committed(r) PROVE Kept'
    BY <2>17, CommitKeeps DEF Committed
  <2>18. ASSUME NEW r \in Requests, CommitUnsure(r) PROVE Kept'
    BY <2>18, CommitKeeps DEF CommitUnsure
  <2>19. ASSUME NEW r \in Requests, Succeed(r) PROVE Kept'
    BY <2>19, SucceedKeeps
  <2>20. ASSUME NEW r \in Requests, DeadlockVictim(r) PROVE Kept'
    BY <2>20, GivesUp DEF DeadlockVictim, Rollback, Release, cache, TypeOK, WaitsFor
  <2>21. CASE Crash
    BY <2>21, CrashKeeps
  <2>22. CASE KeyExpires
    BY <2>22, KeyExpiresKeeps
  <2>23. CASE UNCHANGED vars
    BY <2>23 DEF vars, database, cache, Kept, RowsOfEnded, Paid, InsertedBy, PaidOncePerId,
       CodesKept, Consumer, KeysTrue, PaidAnswersTrue
  <2> QED
    BY <2>0, <2>1, <2>2, <2>3, <2>4, <2>5, <2>6, <2>7, <2>8, <2>9, <2>10, <2>11, <2>12,
       <2>13, <2>14, <2>15, <2>16, <2>17, <2>18, <2>19, <2>20, <2>21, <2>22, <2>23 DEF Next,
       Step, ValidatePayment, ProcessPayment
<1>3. TypeOK /\ Kept => WalletInv
  BY DEF Kept, WalletInv
<1> QED BY <1>1, <1>2, <1>3, TypeCorrect, PTL DEF Spec

\* An id is paid once (the INSERT shares the transaction of the payment).
THEOREM PaidOnce == Spec => []PaidOncePerId
<1>1. WalletInv => PaidOncePerId
  BY DEF WalletInv
<1> QED BY <1>1, InductiveInvariant, PTL

\* A USSD code pays once (ValidatePayment's FOR UPDATE and used = true).
THEOREM CodePaysOnce == Spec => []UssdCodePaysOnce
<1>1. WalletInv => UssdCodePaysOnce
  <2> SUFFICES ASSUME WalletInv, NEW r \in rows, NEW q \in rows,
                      Mode[r] = "USSD", Mode[q] = "USSD", Code[r] = Code[q]
               PROVE  r = q
    BY DEF UssdCodePaysOnce
  <2>1. r \in Requests /\ q \in Requests
    BY DEF WalletInv, TypeOK
  <2>2. Consumer(r) /\ Consumer(q)
    BY DEF Consumer
  <2> QED BY <2>1, <2>2 DEF WalletInv, CodesKept
<1> QED BY <1>1, InductiveInvariant, PTL

\* Who is told "paid" or "already" is told the truth (the key and the answer
\* come after the commit).
THEOREM AnswersTrue == Spec => []PaidAnswersTrue
<1>1. WalletInv => PaidAnswersTrue
  BY DEF WalletInv
<1> QED BY <1>1, InductiveInvariant, PTL

-----------------------------------------------------------------------------
(* The books: balances and committed rows                                  *)

\* What q has written stays what it was, if its locks are kept and the
\* balances under them.
LEMMA WritesStay ==
  ASSUME NEW q \in Requests, WritesOf(q), new'[q] = new[q],
         \A a \in DOMAIN new[q] : locks'[a] = q /\ balance'[a] = balance[a],
         \/ pc'[q] = pc[q]
         \/ ~InTx(q) /\ ~InTx(q)'
         \/ pc[q] = "insert" /\ pc'[q] = "commit"
  PROVE  WritesOf(q)'
<1>1. /\ \A a \in DOMAIN new'[q] : locks'[a] = q
      /\ ~InTx(q)' => DOMAIN new'[q] = {}
  BY DEF WritesOf, InTx
<1>2. pc'[q] = "credit" =>
        /\ Mode[q] \notin TopUp
        /\ DOMAIN new'[q] = {From[q]}
        /\ new'[q][From[q]] = balance'[From[q]] - Amount[q]
  BY DEF WritesOf, InTx
<1>3. pc'[q] \in {"insert", "commit"} => \A a \in Accounts :
        IF a \in DOMAIN new'[q] THEN new'[q][a] = balance'[a] + Effect(a, q)
                               ELSE Effect(a, q) = 0
  <2>1. pc'[q] \in {"insert", "commit"} => pc[q] \in {"insert", "commit"}
    BY DEF InTx
  <2>2. pc[q] \in {"insert", "commit"} => \A a \in Accounts :
          IF a \in DOMAIN new[q] THEN new[q][a] = balance[a] + Effect(a, q)
                                ELSE Effect(a, q) = 0
    BY DEF WritesOf
  <2> QED BY <2>1, <2>2
<1>4. \A a \in Accounts : Effect(a, q)' = Effect(a, q)
  BY DEF Effect
<1> QED BY <1>1, <1>2, <1>3, <1>4 DEF WritesOf

\* The locks under which a request has written are its own.
LEMMA LocksApart ==
  ASSUME TypeOK, WritesKept, NEW q \in Requests, NEW a \in DOMAIN new[q]
  PROVE  a \in Accounts /\ a \in DOMAIN locks /\ locks[a] = q /\ q # None /\ a \notin Codes
<1>1. a \in Accounts /\ locks[a] = q
  BY DEF TypeOK, WritesKept, WritesOf
<1>2. Accounts \cap Codes = {} /\ q # None
  BY RequestsAssumption
<1>3. DOMAIN locks = Accounts \cup Codes
  BY DEF TypeOK
<1> QED BY <1>1, <1>2, <1>3

\* A step of r that writes no balance and ends no transaction.
LEMMA MovesOn ==
  ASSUME TypeOK, WritesKept, NEW r \in Requests,
         \A q \in Requests : q # r => pc'[q] = pc[q],
         \/ ~InTx(r) /\ ~InTx(r)'
         \/ pc[r] = "insert" /\ pc'[r] = "commit",
         UNCHANGED <<balance, new, locks>>
  PROVE  WritesKept'
<1>1. ASSUME NEW q \in Requests PROVE WritesOf(q)'
  <2>1. WritesOf(q) /\ \A a \in DOMAIN new[q] : locks'[a] = q
    BY DEF WritesKept, WritesOf
  <2> QED BY <2>1, WritesStay
<1> QED BY <1>1 DEF WritesKept

\* r ends its transaction; balances change, if at all, where r holds the lock.
LEMMA ReleaseKeeps ==
  ASSUME TypeOK, WritesKept, NEW r \in Requests, Release(r),
         \A q \in Requests : q # r => pc'[q] = pc[q], ~InTx(r)',
         \A a \in Accounts : locks[a] # r => balance'[a] = balance[a]
  PROVE  WritesKept'
<1>1. /\ \A q \in Requests : q # r => new'[q] = new[q]
      /\ DOMAIN new'[r] = {}
  BY DEF Release, Nothing, TypeOK
<1>2. WritesOf(r)'
  BY <1>1 DEF WritesOf, InTx
<1>3. ASSUME NEW q \in Requests, q # r PROVE WritesOf(q)'
  <2>1. \A a \in DOMAIN new[q] : locks'[a] = q /\ balance'[a] = balance[a]
    BY <1>3, LocksApart DEF Release
  <2>2. WritesOf(q)
    BY DEF WritesKept
  <2> QED BY <1>1, <1>3, <2>1, <2>2, WritesStay
<1> QED BY <1>2, <1>3 DEF WritesKept

\* An UPDATE of r leaves what the others have written, and adds its own.
LEMMA UpdateWrites ==
  ASSUME TypeOK, WritesKept, NEW r \in Requests, NEW a \in Accounts, NEW d \in Int,
         AddTo(r, a, d), \A q \in Requests : q # r => pc'[q] = pc[q]
  PROVE  /\ \A q \in Requests \ {r} : WritesOf(q)'
         /\ DOMAIN new'[r] = DOMAIN new[r] \cup {a}
         /\ \A b \in DOMAIN new'[r] :
              /\ locks'[b] = r
              /\ new'[r][b] = IF b = a THEN Seen(r, a) + d ELSE new[r][b]
<1>1. /\ \A q \in Requests \ {r} : new'[q] = new[q]
      /\ new'[r] = With(new[r], a, Seen(r, a) + d)
  BY DEF AddTo, TypeOK
<1>2. /\ DOMAIN new'[r] = DOMAIN new[r] \cup {a}
      /\ \A b \in DOMAIN new'[r] : new'[r][b] = IF b = a THEN Seen(r, a) + d ELSE new[r][b]
  BY <1>1 DEF With
<1>3. /\ locks[a] \in {None, r}
      /\ \A b \in DOMAIN locks : locks'[b] = IF b = a THEN r ELSE locks[b]
      /\ a \in DOMAIN locks
  BY DEF AddTo, TypeOK
<1>4. \A b \in DOMAIN new'[r] : locks'[b] = r
  BY <1>2, <1>3, LocksApart
<1>5. ASSUME NEW q \in Requests \ {r} PROVE WritesOf(q)'
  <2>1. \A b \in DOMAIN new[q] : b # a /\ locks'[b] = q
    BY <1>3, LocksApart
  <2>2. WritesOf(q) /\ balance' = balance
    BY DEF WritesKept, AddTo
  <2> QED BY <1>1, <2>1, <2>2, WritesStay
<1> QED BY <1>2, <1>4, <1>5

\* A debit writes what its own row will account for.
LEMMA DebitWrites ==
  ASSUME TypeOK, WritesKept, NEW r \in Requests, Debit(r)
  PROVE  WritesKept'
<1>1. From[r] \in Accounts /\ Amount[r] \in Int /\ 0 - Amount[r] = -Amount[r]
  BY RequestsAssumption
<1>2. /\ \A q \in Requests : q # r => pc'[q] = pc[q]
      /\ pc'[r] = IF Mode[r] \in TopUp THEN "insert" ELSE "credit"
  BY DEF Debit, Goto, TypeOK
<1>3. DOMAIN new[r] = {} /\ balance' = balance /\ balance[From[r]] \in Int
  BY <1>1 DEF Debit, AddTo, WritesKept, WritesOf, InTx, TypeOK
<1>4. /\ \A q \in Requests \ {r} : WritesOf(q)'
      /\ DOMAIN new'[r] = {From[r]}
      /\ locks'[From[r]] = r
      /\ new'[r][From[r]] = balance[From[r]] - Amount[r]
  <2>1. -Amount[r] \in Int /\ AddTo(r, From[r], -Amount[r])
    BY <1>1 DEF Debit
  <2>2. /\ \A q \in Requests \ {r} : WritesOf(q)'
        /\ DOMAIN new'[r] = DOMAIN new[r] \cup {From[r]}
        /\ \A b \in DOMAIN new'[r] :
             /\ locks'[b] = r
             /\ new'[r][b] = IF b = From[r] THEN Seen(r, From[r]) + (-Amount[r]) ELSE new[r][b]
    BY <1>1, <1>2, <2>1, UpdateWrites
  <2>3. Seen(r, From[r]) = balance[From[r]]
    BY <1>3 DEF Seen
  <2> QED BY <1>1, <1>3, <2>2, <2>3
<1>5. Mode[r] \in TopUp => \A a \in Accounts :
        Effect(a, r) = IF a = From[r] THEN 0 - Amount[r] ELSE 0
  BY <1>1 DEF Effect
<1>6. WritesOf(r)'
  <2>1. \A a \in Accounts : Effect(a, r)' = Effect(a, r)
    BY DEF Effect
  <2> QED BY <1>1, <1>2, <1>3, <1>4, <1>5, <2>1 DEF WritesOf, InTx
<1> QED BY <1>4, <1>6 DEF WritesKept

\* So does a credit.
LEMMA CreditWrites ==
  ASSUME TypeOK, WritesKept, NEW r \in Requests, Credit(r)
  PROVE  WritesKept'
<1>1. From[r] \in Accounts /\ To[r] \in Accounts /\ Amount[r] \in Int
  BY RequestsAssumption DEF Credit
<1>2. /\ \A q \in Requests : q # r => pc'[q] = pc[q]
      /\ pc'[r] = "insert"
  BY DEF Credit, Goto, TypeOK
<1>3. /\ Mode[r] \notin TopUp
      /\ DOMAIN new[r] = {From[r]}
      /\ new[r][From[r]] = balance[From[r]] - Amount[r]
      /\ balance' = balance
      /\ balance[From[r]] \in Int /\ balance[To[r]] \in Int
  BY <1>1 DEF Credit, AddTo, WritesKept, WritesOf, TypeOK
<1>4. /\ \A q \in Requests \ {r} : WritesOf(q)'
      /\ DOMAIN new'[r] = DOMAIN new[r] \cup {To[r]}
      /\ \A b \in DOMAIN new'[r] :
           /\ locks'[b] = r
           /\ new'[r][b] = IF b = To[r] THEN Seen(r, To[r]) + Amount[r] ELSE new[r][b]
  <2>1. AddTo(r, To[r], Amount[r])
    BY DEF Credit
  <2> QED BY <1>1, <1>2, <2>1, UpdateWrites
<1>5. \A a \in Accounts :
        Effect(a, r) = (IF a = To[r] THEN Amount[r] ELSE 0) - (IF a = From[r] THEN Amount[r] ELSE 0)
  BY <1>3 DEF Effect
<1>6. \A a \in Accounts :
        IF a \in DOMAIN new'[r] THEN new'[r][a] = balance[a] + Effect(a, r)
                               ELSE Effect(a, r) = 0
  <2>1. CASE To[r] = From[r]
    <3>1. Seen(r, To[r]) = balance[From[r]] - Amount[r]
      BY <1>3, <2>1 DEF Seen
    <3> QED BY <1>1, <1>3, <1>4, <1>5, <2>1, <3>1
  <2>2. CASE To[r] # From[r]
    <3>1. Seen(r, To[r]) = balance[To[r]]
      BY <1>3, <2>2 DEF Seen
    <3> QED BY <1>1, <1>3, <1>4, <1>5, <2>2, <3>1
  <2> QED BY <2>1, <2>2
<1>7. WritesOf(r)'
  <2>1. \A a \in Accounts : Effect(a, r)' = Effect(a, r)
    BY DEF Effect
  <2> QED BY <1>2, <1>3, <1>4, <1>6, <2>1 DEF WritesOf, InTx
<1> QED BY <1>4, <1>7 DEF WritesKept

\* A credit of an account that is missing writes nothing.
LEMMA CreditNobodyWrites ==
  ASSUME TypeOK, WritesKept, NEW r \in Requests, CreditNobody(r)
  PROVE  WritesKept'
<1>1. From[r] \in Accounts /\ Amount[r] \in Int
  BY RequestsAssumption
<1>2. /\ \A q \in Requests : q # r => pc'[q] = pc[q]
      /\ pc'[r] = "insert"
      /\ UNCHANGED <<balance, new, locks>>
  BY DEF CreditNobody, Goto, database, TypeOK
<1>3. ASSUME NEW q \in Requests \ {r} PROVE WritesOf(q)'
  <2>1. WritesOf(q) /\ \A a \in DOMAIN new[q] : locks'[a] = q
    BY <1>2 DEF WritesKept, WritesOf
  <2> QED BY <1>2, <2>1, WritesStay
<1>4. \A a \in Accounts : Effect(a, r) = IF a = From[r] THEN 0 - Amount[r] ELSE 0
  BY <1>1 DEF Effect, CreditNobody
<1>5. /\ DOMAIN new[r] = {From[r]} /\ locks[From[r]] = r
      /\ new[r][From[r]] = balance[From[r]] - Amount[r]
      /\ balance[From[r]] \in Int
  BY <1>1 DEF CreditNobody, WritesKept, WritesOf, TypeOK
<1>6. WritesOf(r)'
  <2>1. \A a \in Accounts : Effect(a, r)' = Effect(a, r)
    BY DEF Effect
  <2> QED BY <1>1, <1>2, <1>4, <1>5, <2>1 DEF WritesOf, InTx
<1> QED BY <1>3, <1>6 DEF WritesKept

\* The balance of a that the rows in S make.
Made(a, S) == Opening[a] + SumFunctionOnSet([r \in S |-> Effect(a, r)], S)

\* One more row makes its effect.
LEMMA RowAdded ==
  ASSUME NEW S \in SUBSET Requests, IsFiniteSet(S), NEW r \in Requests, r \notin S,
         NEW a \in Accounts
  PROVE  Made(a, S \cup {r}) = Made(a, S) + Effect(a, r)
<1> DEFINE T == S \cup {r}
           f == [q \in S |-> Effect(a, q)]
           g == [q \in T |-> Effect(a, q)]
<1>1. \A q \in Requests : Effect(a, q) \in Int
  BY RequestsAssumption DEF Effect
<1>2. /\ IsFiniteSet(T) /\ r \in T /\ T \ {r} = S
      /\ \A q \in T : g[q] \in Int
      /\ \A q \in S : f[q] \in Int /\ f[q] = g[q]
      /\ g[r] = Effect(a, r)
  BY <1>1, FS_AddElement
<1> HIDE DEF f, g, T
<1>3. SumFunctionOnSet(g, T) = g[r] + SumFunctionOnSet(g, S)
  <2>1. \A q \in T : SumFunctionOnSet(g, T) = g[q] + SumFunctionOnSet(g, T \ {q})
    BY <1>2, SumSplit
  <2> QED BY <1>2, <2>1
<1>4. SumFunctionOnSet(g, S) = SumFunctionOnSet(f, S)
  BY <1>2, SumSame
<1>5. SumFunctionOnSet(f, S) \in Int
  BY <1>2, SumType
<1>6. Opening[a] \in Int /\ Effect(a, r) \in Int
  BY <1>1, RequestsAssumption
<1>7. Opening[a] + SumFunctionOnSet(g, T) = (Opening[a] + SumFunctionOnSet(f, S)) + Effect(a, r)
  BY <1>2, <1>3, <1>4, <1>5, <1>6
<1> QED BY <1>7 DEF Made, f, g, T

\* What a transaction commits is its effect on every balance.
LEMMA CommitMatches ==
  ASSUME WalletInv, BooksInv, NEW r \in Requests, Commit(r)
  PROVE  IsFiniteSet(rows)' /\ BalancesMatchRows'
<1>1. /\ pc[r] = "commit" /\ rows' = rows \cup {r}
      /\ rows \in SUBSET Requests /\ IsFiniteSet(rows)
      /\ r \notin rows
  BY DEF Commit, WalletInv, RowsOfEnded, BooksInv, TypeOK
<1>2. IsFiniteSet(rows)'
  BY <1>1, FS_AddElement
<1>3. ASSUME NEW a \in Accounts PROVE balance'[a] = Made(a, rows')
  <2>1. balance[a] \in Int /\ WritesOf(r)
    BY DEF WalletInv, TypeOK, BooksInv, WritesKept
  <2>2. Effect(a, r) \in Int
    BY RequestsAssumption DEF Effect
  <2>3. Seen(r, a) = balance[a] + Effect(a, r)
    BY <1>1, <2>1, <2>2 DEF Seen, WritesOf
  <2>4. balance'[a] = balance[a] + Effect(a, r)
    BY <2>3 DEF Commit
  <2>5. balance[a] = Made(a, rows)
    BY DEF BooksInv, BalancesMatchRows, Made
  <2>6. Made(a, rows \cup {r}) = Made(a, rows) + Effect(a, r)
    BY <1>1, RowAdded
  <2> QED BY <1>1, <2>4, <2>5, <2>6
<1>4. \A a \in Accounts : Made(a, rows)' = Made(a, rows')
  BY DEF Made, Effect
<1> QED BY <1>2, <1>3, <1>4 DEF BalancesMatchRows, Made

\* Who commits leaves the balances that it has not locked.
LEMMA CommitWrites ==
  ASSUME TypeOK, WritesKept, NEW r \in Requests, Commit(r),
         \A q \in Requests : q # r => pc'[q] = pc[q], ~InTx(r)'
  PROVE  WritesKept'
<1>1. \A a \in Accounts : locks[a] # r => balance'[a] = balance[a]
  BY DEF Commit, Seen, WritesKept, WritesOf
<1> QED BY <1>1, ReleaseKeeps DEF Commit

\* A transaction that is rolled back has written nothing.
LEMMA RollbackWrites ==
  ASSUME TypeOK, WritesKept, NEW r \in Requests, NEW a, Rollback(r, a)
  PROVE  WritesKept'
<1>1. /\ \A q \in Requests : q # r => pc'[q] = pc[q]
      /\ ~InTx(r)'
      /\ balance' = balance
  BY DEF Rollback, Finish, InTx, TypeOK
<1> QED BY <1>1, ReleaseKeeps DEF Rollback

\* Nor has one that a crash ends.
LEMMA CrashWrites ==
  ASSUME TypeOK, WritesKept, Crash
  PROVE  WritesKept'
<1>1. \A q \in Requests : ~InTx(q)' /\ DOMAIN new'[q] = {}
  BY DEF Crash, Busy, InTx, Nothing, TypeOK
<1> QED BY <1>1 DEF WritesKept, WritesOf, InTx

\* A request outside a transaction moves on and writes no balance.
LEMMA OutsideWrites ==
  ASSUME TypeOK, WritesKept, NEW r \in Requests, NEW l,
         pc' = [pc EXCEPT ![r] = l], ~InTx(r), l \notin {"credit", "insert", "commit"},
         UNCHANGED <<balance, new, locks>>
  PROVE  WritesKept'
<1>1. /\ \A q \in Requests : q # r => pc'[q] = pc[q]
      /\ ~InTx(r)'
  BY DEF InTx, TypeOK
<1> QED BY <1>1, MovesOn

\* The lock of a code is none of an account.
LEMMA ReadCodeWrites ==
  ASSUME TypeOK, WritesKept, NEW r \in Requests, ReadUssdCode(r)
  PROVE  WritesKept'
<1>1. ASSUME NEW q \in Requests PROVE WritesOf(q)'
  <2>1. \A a \in DOMAIN new[q] : locks'[a] = q
    <3>1. Code[r] \in Codes
      BY RequestsAssumption DEF ReadUssdCode
    <3> QED BY <3>1, LocksApart DEF ReadUssdCode
  <2>2. WritesOf(q) /\ new' = new /\ balance' = balance
    BY DEF WritesKept, ReadUssdCode
  <2>3. pc'[q] = pc[q] \/ (~InTx(q) /\ ~InTx(q)')
    <3>1. pc[r] = "code" /\ pc'[r] = "mark" /\ (q # r => pc'[q] = pc[q])
      BY DEF ReadUssdCode, Goto, TypeOK
    <3> QED BY <3>1 DEF InTx
  <2> QED BY <2>1, <2>2, <2>3, WritesStay
<1> QED BY <1>1 DEF WritesKept

\* What transactions have written is accounted for after every step.
LEMMA WritesStep ==
  ASSUME TypeOK, WritesKept, [Next]_vars
  PROVE  WritesKept'
<1> USE DEF database, cache
<1> DEFINE Outside(r) == \/ Undecoded(r) \/ AnsweredAlready(r) \/ Route(r) \/ Refuse(r)
                         \/ CodeGone(r) \/ ReadQRCode(r) \/ FundsShort(r)
                         \/ FundsSuffice(r) \/ Succeed(r)
<1>1. ASSUME NEW r \in Requests, Outside(r) PROVE WritesKept'
  <2>1. \E l \in {"code", "funds", "debit", "done"} :
          /\ pc' = [pc EXCEPT ![r] = l] /\ ~InTx(r) /\ UNCHANGED <<balance, new, locks>>
    BY <1>1 DEF Undecoded, AnsweredAlready, Route, Refuse, CodeGone, ReadQRCode, FundsShort,
                FundsSuffice, Succeed, Goto, Finish, InTx
  <2> QED BY <2>1, OutsideWrites
<1>2. ASSUME NEW r \in Requests, ReadUssdCode(r) PROVE WritesKept'
  BY <1>2, ReadCodeWrites
<1>3. ASSUME NEW r \in Requests, RejectUssdCode(r) PROVE WritesKept'
  BY <1>3, RollbackWrites DEF RejectUssdCode
<1>4. ASSUME NEW r \in Requests, ConsumeUssdCode(r) PROVE WritesKept'
  <2>1. /\ \A q \in Requests : q # r => pc'[q] = pc[q]
        /\ ~InTx(r)' /\ Release(r) /\ balance' = balance
    BY <1>4 DEF ConsumeUssdCode, Goto, InTx, TypeOK
  <2> QED BY <2>1, ReleaseKeeps
<1>5. ASSUME NEW r \in Requests, Debit(r) PROVE WritesKept'
  BY <1>5, DebitWrites
<1>6. ASSUME NEW r \in Requests, Credit(r) PROVE WritesKept'
  BY <1>6, CreditWrites
<1>7. ASSUME NEW r \in Requests, CreditNobody(r) PROVE WritesKept'
  BY <1>7, CreditNobodyWrites
<1>8. ASSUME NEW r \in Requests, Insert(r) PROVE WritesKept'
  <2>1. /\ \A q \in Requests : q # r => pc'[q] = pc[q]
        /\ pc[r] = "insert" /\ pc'[r] = "commit"
        /\ UNCHANGED <<balance, new, locks>>
    BY <1>8 DEF Insert, Goto, TypeOK
  <2> QED BY <2>1, MovesOn
<1>9. ASSUME NEW r \in Requests, DuplicateId(r) PROVE WritesKept'
  BY <1>9, RollbackWrites DEF DuplicateId
<1>10. ASSUME NEW r \in Requests, StatementFails(r) PROVE WritesKept'
  BY <1>10, RollbackWrites DEF StatementFails
<1>11. ASSUME NEW r \in Requests, Committed(r) \/ CommitUnsure(r) PROVE WritesKept'
  <2>1. /\ \A q \in Requests : q # r => pc'[q] = pc[q]
        /\ ~InTx(r)' /\ Commit(r)
    BY <1>11 DEF Committed, CommitUnsure, Goto, Finish, InTx, TypeOK
  <2> QED BY <2>1, CommitWrites
<1>12. ASSUME NEW r \in Requests, DeadlockVictim(r) PROVE WritesKept'
  BY <1>12, RollbackWrites DEF DeadlockVictim
<1>13. CASE Crash
  BY <1>13, CrashWrites
<1>14. CASE UNCHANGED <<pc, balance, new, locks>>
  <2>1. \A q \in Requests : WritesOf(q) /\ \A a \in DOMAIN new[q] : locks'[a] = q
    BY <1>14 DEF WritesKept, WritesOf
  <2> QED BY <1>14, <2>1, WritesStay DEF WritesKept
<1>15. \/ \E r \in Requests :
             \/ Outside(r) \/ ReadUssdCode(r) \/ RejectUssdCode(r) \/ ConsumeUssdCode(r)
             \/ Debit(r) \/ Credit(r) \/ CreditNobody(r) \/ Insert(r) \/ DuplicateId(r)
             \/ StatementFails(r) \/ Committed(r) \/ CommitUnsure(r) \/ DeadlockVictim(r)
       \/ Crash \/ UNCHANGED <<pc, balance, new, locks>>
  BY DEF Next, Step, ValidatePayment, ProcessPayment, KeyExpires, vars
<1> HIDE DEF Outside
<1> QED
  BY <1>1, <1>2, <1>3, <1>4, <1>5, <1>6, <1>7, <1>8, <1>9, <1>10, <1>11, <1>12, <1>13,
     <1>14, <1>15

\* Balances and rows change at a COMMIT only.
LEMMA BooksStep ==
  ASSUME WalletInv, BooksInv, [Next]_vars
  PROVE  BooksInv'
<1>1. WritesKept'
  BY WritesStep DEF WalletInv, BooksInv
<1>2. IsFiniteSet(rows)' /\ BalancesMatchRows'
  <2>1. ASSUME NEW r \in Requests, Commit(r) PROVE IsFiniteSet(rows)' /\ BalancesMatchRows'
    BY <2>1, CommitMatches
  <2>2. CASE UNCHANGED <<balance, rows>>
    BY <2>2 DEF BooksInv, BalancesMatchRows, Effect
  <2>3. (\E r \in Requests : Commit(r)) \/ UNCHANGED <<balance, rows>>
    BY DEF Next, Step, ValidatePayment, ProcessPayment, vars, database, cache, Undecoded,
           AnsweredAlready, Route, Refuse, CodeGone, ReadQRCode, FundsShort, FundsSuffice,
           Succeed, ReadUssdCode, RejectUssdCode, ConsumeUssdCode, Debit, Credit, AddTo,
           CreditNobody, Insert, DuplicateId, StatementFails, Committed, CommitUnsure,
           DeadlockVictim, Rollback, Crash, KeyExpires
  <2> QED BY <2>1, <2>2, <2>3
<1> QED BY <1>1, <1>2 DEF BooksInv

\* Money moves with the rows of its payments and not otherwise, for any
\* accounts, requests and amounts, through failures and crashes.
THEOREM BooksBalance == Spec => []BalancesMatchRows
<1>1. Init => BooksInv
  <2> SUFFICES ASSUME Init PROVE BooksInv
    OBVIOUS
  <2>1. IsFiniteSet(rows) /\ rows = {}
    BY FS_EmptySet DEF Init
  <2>2. WritesKept
    BY DEF Init, WritesKept, WritesOf, InTx, Nothing
  <2>3. BalancesMatchRows
    <3>1. \A a \in Accounts : SumFunctionOnSet([r \in {} |-> Effect(a, r)], {}) = 0
      BY SumEmpty
    <3>2. \A a \in Accounts : balance[a] = Opening[a] /\ Opening[a] \in Int
      BY RequestsAssumption DEF Init
    <3> QED BY <2>1, <3>1, <3>2 DEF BalancesMatchRows
  <2> QED BY <2>1, <2>2, <2>3 DEF BooksInv
<1>2. WalletInv /\ BooksInv /\ [Next]_vars => BooksInv'
  BY BooksStep
<1>3. BooksInv => BalancesMatchRows
  BY DEF BooksInv
<1> QED BY <1>1, <1>2, <1>3, InductiveInvariant, PTL DEF Spec

-----------------------------------------------------------------------------
(* Bank transfers                                                          *)

\* Every action keeps the types.
THEOREM TransferTypes == TransferSpec => []TransferTypeOK
<1>1. TransferInit => TransferTypeOK
  BY DEF TransferInit, TransferTypeOK
<1>2. TransferTypeOK /\ [TransferNext]_transferVars => TransferTypeOK'
  <2> SUFFICES ASSUME TransferTypeOK, [TransferNext]_transferVars PROVE TransferTypeOK'
    OBVIOUS
  <2> USE DEF TransferTypeOK, nibss
  <2>1. ASSUME NEW t \in Transfers, Validate(t) PROVE TransferTypeOK'
    BY <2>1 DEF Validate, MoveTo
  <2>2. ASSUME NEW t \in Transfers, Invalid(t) PROVE TransferTypeOK'
    BY <2>2 DEF Invalid, Return, MoveTo
  <2>3. ASSUME NEW t \in Transfers, Begin(t) PROVE TransferTypeOK'
    BY <2>3 DEF Begin, MoveTo
  <2>4. ASSUME NEW t \in Transfers, Enquire(t) PROVE TransferTypeOK'
    BY <2>4 DEF Enquire, MoveTo
  <2>5. ASSUME NEW t \in Transfers, LookUp(t) PROVE TransferTypeOK'
    BY <2>5 DEF LookUp, MoveTo
  <2>6. ASSUME NEW t \in Transfers, GiveUpEarly(t) PROVE TransferTypeOK'
    BY <2>6 DEF GiveUpEarly, Return, MoveTo
  <2>7. ASSUME NEW t \in Transfers, NEW l \in {"debit", "credit"}, Send(t, l)
        PROVE  TransferTypeOK'
    <3>1. <<t, l>> \in Legs
      BY DEF Legs
    <3>2. sent' \in SUBSET Legs /\ posted' \in SUBSET sent' /\ declined' \in SUBSET sent'
      BY <2>7, <3>1 DEF Send
    <3>3. CASE l = "debit"
      BY <2>7, <3>2, <3>3 DEF Send, MoveTo
    <3>4. CASE l = "credit"
      BY <2>7, <3>2, <3>4 DEF Send, MoveTo
    <3> QED BY <3>3, <3>4
  <2>8. ASSUME NEW t \in Transfers, DebitDone(t) PROVE TransferTypeOK'
    BY <2>8 DEF DebitDone, MoveTo
  <2>9. ASSUME NEW t \in Transfers, CreditDone(t) PROVE TransferTypeOK'
    BY <2>9 DEF CreditDone, MoveTo
  <2>10. ASSUME NEW t \in Transfers, LegFails(t) PROVE TransferTypeOK'
    BY <2>10 DEF LegFails, Return, MoveTo
  <2>11. ASSUME NEW t \in Transfers, InsertRow(t) PROVE TransferTypeOK'
    BY <2>11 DEF InsertRow, MoveTo
  <2>12. ASSUME NEW t \in Transfers, CommitRow(t) PROVE TransferTypeOK'
    BY <2>12 DEF CommitRow, Return, MoveTo
  <2>13. ASSUME NEW t \in Transfers, LogFails(t) PROVE TransferTypeOK'
    BY <2>13 DEF LogFails, Return, MoveTo
  <2>14. ASSUME NEW m \in Legs, NibssPosts(m) PROVE TransferTypeOK'
    BY <2>14 DEF NibssPosts
  <2>15. ASSUME NEW m \in Legs, NibssDeclines(m) PROVE TransferTypeOK'
    BY <2>15 DEF NibssDeclines
  <2>16. CASE Stop
    BY <2>16 DEF Stop
  <2>17. CASE UNCHANGED transferVars
    BY <2>17 DEF transferVars
  <2> QED
    BY <2>1, <2>2, <2>3, <2>4, <2>5, <2>6, <2>7, <2>8, <2>9, <2>10, <2>11, <2>12,
       <2>13, <2>14, <2>15, <2>16, <2>17 DEF TransferNext, TransferStep
<1> QED BY <1>1, <1>2, PTL DEF TransferSpec

-----------------------------------------------------------------------------
(* The invariant, with the types already kept                              *)

TransferKept == LegsInOrder /\ RowsInOrder /\ SuccessIsSettled /\ OneRowPerId

\* A transfer that gives up, unless it says success, disturbs nothing.
LEMMA TransferGivesUp ==
  ASSUME TransferTypeOK, TransferKept, NEW t \in Transfers, NEW a \in {"failed", "success"},
         Return(t, a),
         at[t] # "done", a = "success" => Debited(t) /\ Credited(t),
         UNCHANGED <<sent, nibss, recorded>>
  PROVE  TransferKept'
<1> USE DEF Return, MoveTo, nibss
<1>1. \A q \in Transfers : at'[q] = IF q = t THEN "done" ELSE at[q]
  BY DEF TransferTypeOK
<1>2. \A q \in Transfers : told'[q] = IF q = t THEN a ELSE told[q]
  BY DEF TransferTypeOK
<1>3. posted' = posted /\ sent' = sent
  OBVIOUS
<1>4. LegsInOrder'
  <2> SUFFICES ASSUME NEW q \in Transfers
               PROVE  /\ at'[q] \in {"credit", "await credit", "insert", "commit"} => Debited(q)'
                      /\ at'[q] \in {"insert", "commit"} => Credited(q)'
                      /\ <<q, "credit">> \in sent' => Debited(q)'
    BY DEF LegsInOrder
  <2>1. (Debited(q)' <=> Debited(q)) /\ (Credited(q)' <=> Credited(q))
    BY <1>3 DEF Debited, Credited
  <2>2. /\ at[q] \in {"credit", "await credit", "insert", "commit"} => Debited(q)
        /\ at[q] \in {"insert", "commit"} => Credited(q)
        /\ <<q, "credit">> \in sent => Debited(q)
    BY DEF TransferKept, LegsInOrder
  <2>3. at'[q] = "done" \/ at'[q] = at[q]
    BY <1>1
  <2> HIDE DEF Return, MoveTo
  <2> QED BY <1>3, <2>1, <2>2, <2>3
<1>5. RowsInOrder'
  BY <1>1 DEF TransferKept, RowsInOrder, IdRecorded, RowInsertedBy, TransferTypeOK
<1>6. SuccessIsSettled'
  BY <1>2 DEF TransferKept, SuccessIsSettled, Debited, Credited
<1>7. OneRowPerId'
  BY DEF TransferKept, OneRowPerId
<1> QED BY <1>4, <1>5, <1>6, <1>7 DEF TransferKept

\* A transfer that goes on to a step before its INSERT disturbs nothing if the
\* legs that step supposes are posted.
LEMMA TransferGoesOn ==
  ASSUME TransferTypeOK, TransferKept, NEW t \in Transfers,
         NEW l \in {"begin", "enquire", "lookup", "debit", "credit", "insert"}, MoveTo(t, l),
         at[t] # "done", l \in {"credit", "insert"} => Debited(t), l = "insert" => Credited(t),
         UNCHANGED <<told, sent, nibss, recorded>>
  PROVE  TransferKept'
<1> USE DEF MoveTo, nibss
<1>1. \A q \in Transfers : at'[q] = IF q = t THEN l ELSE at[q]
  BY DEF TransferTypeOK
<1>2. LegsInOrder'
  BY <1>1 DEF TransferKept, LegsInOrder, Debited, Credited
<1>3. RowsInOrder'
  BY <1>1 DEF TransferKept, RowsInOrder, IdRecorded, RowInsertedBy, TransferTypeOK
<1>4. SuccessIsSettled' /\ OneRowPerId'
  BY DEF TransferKept, SuccessIsSettled, OneRowPerId, Debited, Credited
<1> QED BY <1>2, <1>3, <1>4 DEF TransferKept

\* The credit is sent by a transfer that has seen its debit posted.
LEMMA SendKeeps ==
  ASSUME TransferTypeOK, TransferKept, NEW t \in Transfers, NEW l \in {"debit", "credit"},
         Send(t, l)
  PROVE  TransferKept'
<1> USE DEF Send, MoveTo, nibss
<1>1. \A q \in Transfers : at'[q] = IF q # t THEN at[q]
                                    ELSE IF l = "debit" THEN "await debit" ELSE "await credit"
  BY DEF TransferTypeOK
<1>2. l = "credit" => Debited(t)
  BY DEF TransferKept, LegsInOrder
<1>3. LegsInOrder'
  <2> SUFFICES ASSUME NEW q \in Transfers
               PROVE  /\ at'[q] \in {"credit", "await credit", "insert", "commit"} => Debited(q)
                      /\ at'[q] \in {"insert", "commit"} => Credited(q)
                      /\ <<q, "credit">> \in sent' => Debited(q)
    BY DEF LegsInOrder, Debited, Credited
  <2>1. <<q, "credit">> \in sent' => <<q, "credit">> \in sent \/ (q = t /\ l = "credit")
    OBVIOUS
  <2>2. /\ at[q] \in {"credit", "await credit", "insert", "commit"} => Debited(q)
        /\ at[q] \in {"insert", "commit"} => Credited(q)
        /\ <<q, "credit">> \in sent => Debited(q)
    BY DEF TransferKept, LegsInOrder
  <2>3. \/ at'[q] = at[q] \/ at'[q] = "await debit"
        \/ at'[q] = "await credit" /\ q = t /\ l = "credit"
    BY <1>1
  <2> HIDE DEF Send, MoveTo
  <2> QED BY <1>2, <2>1, <2>2, <2>3
<1>4. RowsInOrder'
  BY <1>1 DEF TransferKept, RowsInOrder, IdRecorded, RowInsertedBy, TransferTypeOK
<1>5. SuccessIsSettled' /\ OneRowPerId'
  BY DEF TransferKept, SuccessIsSettled, OneRowPerId, Debited, Credited
<1> QED BY <1>3, <1>4, <1>5 DEF TransferKept

\* What NIBSS has posted stays posted.
LEMMA NibssKeeps ==
  ASSUME TransferTypeOK, TransferKept, posted \subseteq posted',
         UNCHANGED <<at, told, sent, recorded>>
  PROVE  TransferKept'
BY DEF TransferKept, LegsInOrder, RowsInOrder, SuccessIsSettled, OneRowPerId,
       Debited, Credited,
       IdRecorded, RowInsertedBy

\* An id is inserted by one open transaction, while no row has it.
LEMMA InsertKeepsTransfers ==
  ASSUME TransferTypeOK, TransferKept, NEW t \in Transfers, InsertRow(t)
  PROVE  TransferKept'
<1> USE DEF InsertRow, MoveTo, nibss
<1>1. \A q \in Transfers : at'[q] = IF q = t THEN "commit" ELSE at[q]
  BY DEF TransferTypeOK
<1>2. LegsInOrder'
  BY <1>1 DEF TransferKept, LegsInOrder, Debited, Credited
<1>3. RowsInOrder'
  <2>1. \A q \in recorded' : at'[q] = "done"
    BY <1>1 DEF TransferKept, RowsInOrder, TransferTypeOK
  <2>2. \A q \in Transfers : at'[q] = "commit" => ~IdRecorded(TransferId[q])'
    BY <1>1 DEF TransferKept, RowsInOrder, IdRecorded
  <2>3. \A q, p \in Transfers : at'[q] = "commit" => ~RowInsertedBy(p, q)'
    BY <1>1 DEF TransferKept, RowsInOrder, RowInsertedBy
  <2> QED BY <2>1, <2>2, <2>3 DEF RowsInOrder
<1>4. SuccessIsSettled' /\ OneRowPerId'
  BY DEF TransferKept, SuccessIsSettled, OneRowPerId, Debited, Credited
<1> QED BY <1>2, <1>3, <1>4 DEF TransferKept

\* A commit adds the one row of its id.
LEMMA CommitKeepsTransfers ==
  ASSUME TransferTypeOK, TransferKept, NEW t \in Transfers, CommitRow(t)
  PROVE  TransferKept'
<1> USE DEF CommitRow, Return, MoveTo, nibss
<1>1. \A q \in Transfers : at'[q] = IF q = t THEN "done" ELSE at[q]
  BY DEF TransferTypeOK
<1>2. \A q \in Transfers : told'[q] = IF q = t THEN "success" ELSE told[q]
  BY DEF TransferTypeOK
<1>3. ~IdRecorded(TransferId[t]) /\ \A q \in Transfers : ~RowInsertedBy(q, t)
  BY DEF TransferKept, RowsInOrder
<1>4. LegsInOrder'
  BY <1>1 DEF TransferKept, LegsInOrder, Debited, Credited
<1>5. RowsInOrder'
  <2>1. \A q \in recorded' : at'[q] = "done"
    BY <1>1 DEF TransferKept, RowsInOrder, TransferTypeOK
  <2>2. ASSUME NEW q \in Transfers, at'[q] = "commit"
        PROVE  ~IdRecorded(TransferId[q])' /\ \A p \in Transfers : ~RowInsertedBy(p, q)'
    <3>1. q # t /\ at[q] = "commit"
      BY <1>1, <2>2
    <3>2. TransferId[q] # TransferId[t]
      BY <1>3, <3>1 DEF RowInsertedBy
    <3>3. ~IdRecorded(TransferId[q])'
      BY <3>1, <3>2 DEF TransferKept, RowsInOrder, IdRecorded
    <3>4. \A p \in Transfers : ~RowInsertedBy(p, q)'
      BY <1>1, <3>1 DEF TransferKept, RowsInOrder, RowInsertedBy
    <3> QED BY <3>3, <3>4
  <2> QED BY <2>1, <2>2 DEF RowsInOrder
<1>6. Debited(t) /\ Credited(t)
  BY DEF TransferKept, LegsInOrder
<1>7. SuccessIsSettled'
  BY <1>2, <1>6 DEF TransferKept, SuccessIsSettled, Debited, Credited
<1>8. OneRowPerId'
  BY <1>3 DEF TransferKept, OneRowPerId, IdRecorded
<1> QED BY <1>4, <1>5, <1>7, <1>8 DEF TransferKept

\* A crash ends every transfer; NIBSS and the committed rows stay.
LEMMA CrashKeepsTransfers ==
  ASSUME TransferTypeOK, TransferKept, Stop
  PROVE  TransferKept'
<1> USE DEF Stop, UnderWay, nibss
<1>1. \A q \in Transfers : at'[q] \in {"idle", "done"} /\ (at[q] = "done" => at'[q] = "done")
  BY DEF TransferTypeOK
<1>2. \A q \in Transfers : told'[q] = "success" => told[q] = "success"
  BY DEF TransferTypeOK
<1>3. LegsInOrder'
  BY <1>1 DEF TransferKept, LegsInOrder, Debited, Credited
<1>4. RowsInOrder'
  BY <1>1 DEF TransferKept, RowsInOrder, TransferTypeOK
<1>5. SuccessIsSettled'
  BY <1>2 DEF TransferKept, SuccessIsSettled, Debited, Credited
<1>6. OneRowPerId'
  BY DEF TransferKept, OneRowPerId
<1> QED BY <1>3, <1>4, <1>5, <1>6 DEF TransferKept

\* The invariant of BankTransfer: who is where, what NIBSS has posted and what
\* is on record agree in every state.
THEOREM TransferInductive == TransferSpec => []TransferInv
<1>1. TransferInit => TransferKept
  BY DEF TransferInit, TransferKept, LegsInOrder, RowsInOrder, SuccessIsSettled,
         OneRowPerId, Untold
<1>2. TransferTypeOK /\ TransferKept /\ [TransferNext]_transferVars => TransferKept'
  <2> SUFFICES ASSUME TransferTypeOK, TransferKept, [TransferNext]_transferVars PROVE TransferKept'
    OBVIOUS
  <2>1. ASSUME NEW t \in Transfers, Validate(t) PROVE TransferKept'
    BY <2>1, TransferGoesOn DEF Validate
  <2>2. ASSUME NEW t \in Transfers, Invalid(t) PROVE TransferKept'
    BY <2>2, TransferGivesUp DEF Invalid
  <2>3. ASSUME NEW t \in Transfers, Begin(t) PROVE TransferKept'
    BY <2>3, TransferGoesOn DEF Begin
  <2>4. ASSUME NEW t \in Transfers, Enquire(t) PROVE TransferKept'
    BY <2>4, TransferGoesOn DEF Enquire
  <2>5. ASSUME NEW t \in Transfers, LookUp(t) PROVE TransferKept'
    BY <2>5, TransferGoesOn DEF LookUp
  <2>6. ASSUME NEW t \in Transfers, GiveUpEarly(t) PROVE TransferKept'
    BY <2>6, TransferGivesUp DEF GiveUpEarly
  <2>7. ASSUME NEW t \in Transfers, NEW l \in {"debit", "credit"}, Send(t, l)
        PROVE  TransferKept'
    BY <2>7, SendKeeps
  <2>8. ASSUME NEW t \in Transfers, DebitDone(t) PROVE TransferKept'
    BY <2>8, TransferGoesOn DEF DebitDone, Debited
  <2>9. ASSUME NEW t \in Transfers, CreditDone(t) PROVE TransferKept'
    <3>1. Debited(t) /\ Credited(t)
      BY <2>9 DEF CreditDone, TransferKept, LegsInOrder, Credited
    <3> QED BY <2>9, <3>1, TransferGoesOn DEF CreditDone
  <2>10. ASSUME NEW t \in Transfers, LegFails(t) PROVE TransferKept'
    BY <2>10, TransferGivesUp DEF LegFails
  <2>11. ASSUME NEW t \in Transfers, InsertRow(t) PROVE TransferKept'
    BY <2>11, InsertKeepsTransfers
  <2>12. ASSUME NEW t \in Transfers, CommitRow(t) PROVE TransferKept'
    BY <2>12, CommitKeepsTransfers
  <2>13. ASSUME NEW t \in Transfers, LogFails(t) PROVE TransferKept'
    <3>1. Debited(t) /\ Credited(t)
      BY <2>13 DEF LogFails, TransferKept, LegsInOrder
    <3> QED BY <2>13, <3>1, TransferGivesUp DEF LogFails
  <2>14. ASSUME NEW m \in Legs, NibssPosts(m) PROVE TransferKept'
    BY <2>14, NibssKeeps DEF NibssPosts
  <2>15. ASSUME NEW m \in Legs, NibssDeclines(m) PROVE TransferKept'
    BY <2>15, NibssKeeps DEF NibssDeclines
  <2>16. CASE Stop
    BY <2>16, CrashKeepsTransfers
  <2>17. CASE UNCHANGED transferVars
    BY <2>17, NibssKeeps DEF transferVars, nibss
  <2> QED
    BY <2>1, <2>2, <2>3, <2>4, <2>5, <2>6, <2>7, <2>8, <2>9, <2>10, <2>11, <2>12,
       <2>13, <2>14, <2>15, <2>16, <2>17 DEF TransferNext, TransferStep
<1>3. TransferTypeOK /\ TransferKept => TransferInv
  BY DEF TransferKept, TransferInv
<1> QED BY <1>1, <1>2, <1>3, TransferTypes, PTL DEF TransferSpec

\* Nobody is credited without a debit (the order of the two legs, and the
\* response code between them).
THEOREM CreditNeedsDebit == TransferSpec => []CreditOnlyAfterDebit
<1>1. TransferInv => CreditOnlyAfterDebit
  BY DEF TransferInv, TransferTypeOK, LegsInOrder, CreditOnlyAfterDebit, Credited
<1> QED BY <1>1, TransferInductive, PTL

\* A success and a record are settled at NIBSS (the response codes of both
\* legs come before LogTransaction and the answer).
THEOREM Settled == TransferSpec => []SuccessIsSettled
<1>1. TransferInv => SuccessIsSettled
  BY DEF TransferInv
<1> QED BY <1>1, TransferInductive, PTL

\* An id is on record once (the primary key of the transactions table).
THEOREM RecordedOnce == TransferSpec => []OneRowPerId
<1>1. TransferInv => OneRowPerId
  BY DEF TransferInv
<1> QED BY <1>1, TransferInductive, PTL

=============================================================================

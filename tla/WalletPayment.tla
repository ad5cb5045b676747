--------------------------- MODULE WalletPayment ---------------------------
(***************************************************************************)
(* Payments out of the accounts table: HandlePayment of PaymentHandler and *)
(* the QR, USSD, voice, airtime and data providers behind it.  (The data   *)
(* provider is the airtime provider but for its texts.)                    *)
(*                                                                         *)
(* HandlePayment refuses a body with a field that models.PaymentRequest    *)
(* does not have, and an airtime or data request has some (debitAccount).  *)
(* Accepted says which modes get through: in the repository QR, USSD and   *)
(* voice, so that a model with airtime shows what its provider does once   *)
(* the handler lets it.                                                    *)
(*                                                                         *)
(* A request looks its transaction id up in Redis, validates (a QR code is *)
(* read from Redis, a USSD code consumed in a transaction of its own),     *)
(* reads the balance outside any transaction, and then in a second         *)
(* transaction debits, credits and inserts the row of the payment.  The    *)
(* transactions run at PostgreSQL's READ COMMITTED: an UPDATE takes the    *)
(* lock of its row and reads the value last committed; an INSERT of an id  *)
(* waits for the transaction that has inserted it too.                     *)
(*                                                                         *)
(* Any statement may fail, and the server may stop at any moment.  (It     *)
(* does so by itself when BeginTx, the INSERT or COMMIT fails for a QR,    *)
(* USSD or voice payment: ProcessPayment then returns a nil response, which *)
(* the goroutine of provider.go:116 dereferences.)                         *)
(***************************************************************************)
EXTENDS Integers, FiniteSets, Functions

CONSTANTS
  Requests,      \* HTTP requests; a retry is another request with the same id
  Accounts,      \* rows of the accounts table
  Codes,         \* QR and USSD codes that have been generated
  Opening,       \* the balance of each account
  Mode, TxId, From, To, Amount, Code,   \* what each request asks for
  Accepted       \* modes whose bodies HandlePayment can decode

Modes == {"QR", "USSD", "VOICE", "AIRTIME", "DATA"}
TopUp == {"AIRTIME", "DATA"}
None  == "none"

Ids == {TxId[r] : r \in Requests}

ASSUME RequestsAssumption ==
  /\ None \notin Requests
  /\ Accounts \cap Codes = {}
  /\ Opening \in [Accounts -> Nat]
  /\ Accepted \subseteq Modes
  /\ Mode    \in [Requests -> Modes]
  /\ From    \in [Requests -> Accounts]      \* verifyAccountAndKYC found it
  /\ Amount  \in [Requests -> Nat \ {0}]
  /\ \A r \in Requests : Mode[r] \in {"QR", "USSD"} => Code[r] \in Codes

VARIABLES
  pc,        \* where a request is
  answer,    \* what it was answered
  balance,   \* committed balances
  rows,      \* requests whose row in transactions is committed
  new,       \* balances a request has written and not committed
  locks,     \* who holds the lock of an account or USSD code row
  used,      \* USSD codes with used = true
  live,      \* QR codes in Redis
  idem       \* ids with an idempotency key, all of status SUCCESS

database == <<balance, rows, new, locks, used>>
cache    == <<live, idem>>
vars     == <<pc, answer, database, cache>>

InTx(r)  == pc[r] \in {"credit", "insert", "commit"}
Busy(r)  == pc[r] \notin {"idle", "done"}
Paid(id) == \E r \in rows : TxId[r] = id

\* The codes that requests of a mode bring.
CodesOf(m) == {Code[r] : r \in {q \in Requests : Mode[q] = m}}

TypeOK ==
  /\ pc      \in [Requests -> {"idle", "code", "mark", "funds", "debit", "credit",
                               "insert", "commit", "after", "done"}]
  /\ \A r \in Requests : pc[r] \in {"code", "mark"} => Code[r] \in Codes
  /\ answer  \in [Requests -> {None, "already", "paid", "failed", "lost"}]
  /\ balance \in [Accounts -> Int]
  /\ rows    \in SUBSET Requests
  /\ DOMAIN new = Requests
  /\ \A r \in Requests : \A a \in DOMAIN new[r] : a \in Accounts /\ new[r][a] \in Int
  /\ locks   \in [Accounts \cup Codes -> Requests \cup {None}]
  /\ used    \in SUBSET Codes
  /\ live    \in SUBSET Codes
  /\ idem    \in SUBSET Ids

Nothing == [a \in {} |-> 0]

Init ==
  /\ pc      = [r \in Requests |-> "idle"]
  /\ answer  = [r \in Requests |-> None]
  /\ balance = Opening
  /\ rows    = {}
  /\ new     = [r \in Requests |-> Nothing]
  /\ locks   = [x \in Accounts \cup Codes |-> None]
  /\ used    = {}
  /\ live    = CodesOf("QR")
  /\ idem    = {}

-----------------------------------------------------------------------------
(* Ends                                                                    *)

Goto(r, l) == pc' = [pc EXCEPT ![r] = l] /\ UNCHANGED answer

Finish(r, a) ==
  /\ pc' = [pc EXCEPT ![r] = "done"]
  /\ answer' = [answer EXCEPT ![r] = a]

\* Fault: the transaction is left open on the way out.
KeepLocks(r) == UNCHANGED <<locks, new>>

\* The end of a transaction.
Release(r) ==
  /\ locks' = [x \in DOMAIN locks |-> IF locks[x] = r THEN None ELSE locks[x]]
  /\ new' = [new EXCEPT ![r] = Nothing]

\* The deferred tx.Rollback on an error return.
Rollback(r, a) ==
  /\ Finish(r, a)
  /\ Release(r)
  /\ UNCHANGED <<balance, rows, used, cache>>

-----------------------------------------------------------------------------
(* Before the payment's transaction                                        *)

\* A body that HandlePayment's decoder does not know.
Undecoded(r) ==
  /\ pc[r] = "idle" /\ Mode[r] \notin Accepted
  /\ Finish(r, "failed")
  /\ UNCHANGED <<database, cache>>

\* HandlePayment: an id with a key is answered at once.
AnsweredAlready(r) ==
  /\ pc[r] = "idle" /\ Mode[r] \in Accepted /\ TxId[r] \in idem
  /\ Finish(r, "already")
  /\ UNCHANGED <<database, cache>>

\* An id without one goes to its provider; so does any id when Redis fails.
Route(r) ==
  /\ pc[r] = "idle" /\ Mode[r] \in Accepted
  /\ Goto(r, IF Mode[r] \in {"QR", "USSD"} THEN "code" ELSE "funds")
  /\ UNCHANGED <<database, cache>>

\* Not the owner, no KYC, account not active; Redis, a SELECT or BeginTx fails.
Refuse(r) ==
  /\ pc[r] \in {"code", "funds", "debit"}
  /\ Finish(r, "failed")
  /\ UNCHANGED <<database, cache>>

\* The QR code has expired or paid, the USSD code is used.
CodeGone(r) ==
  /\ pc[r] = "code"
  /\ \/ Mode[r] = "QR"   /\ Code[r] \notin live
     \/ Mode[r] = "USSD" /\ locks[Code[r]] = None /\ Code[r] \in used
  /\ Finish(r, "failed")
  /\ UNCHANGED <<database, cache>>

FundsShort(r) ==
  /\ pc[r] = "funds" /\ balance[From[r]] < Amount[r]
  /\ Finish(r, "failed")
  /\ UNCHANGED <<database, cache>>

ReadQRCode(r) ==
  /\ pc[r] = "code" /\ Mode[r] = "QR" /\ Code[r] \in live
  /\ Goto(r, "funds")
  /\ UNCHANGED <<database, cache>>

\* Fault: SELECT without FOR UPDATE.
ReadCodeUnlocked(r) ==
  /\ pc[r] = "code" /\ Mode[r] = "USSD" /\ Code[r] \notin used
  /\ Goto(r, "mark")
  /\ UNCHANGED <<database, cache>>

\* SELECT ... FOR UPDATE of a code that has not been used.
ReadUssdCode(r) ==
  /\ pc[r] = "code" /\ Mode[r] = "USSD"
  /\ locks[Code[r]] = None /\ Code[r] \notin used
  /\ locks' = [locks EXCEPT ![Code[r]] = r]
  /\ Goto(r, "mark")
  /\ UNCHANGED <<balance, rows, new, used, cache>>

\* Expired, another user's or for another amount, or a statement fails.
RejectUssdCode(r) == pc[r] = "mark" /\ Rollback(r, "failed")

\* UPDATE ussd_codes SET used = true; COMMIT.
ConsumeUssdCode(r) ==
  /\ pc[r] = "mark"
  /\ used' = used \cup {Code[r]}
  /\ Release(r)
  /\ Goto(r, "funds")
  /\ UNCHANGED <<balance, rows, cache>>

\* Fault: the key is set before the transaction, as card_provider.go does,
\* but with the status of a payment that is made.
ReservedPaid(r) ==
  /\ pc[r] = "funds" /\ balance[From[r]] >= Amount[r]
  /\ idem' = idem \cup {TxId[r]}
  /\ Goto(r, "debit")
  /\ UNCHANGED <<database, live>>

\* SELECT balance: enough.
FundsSuffice(r) ==
  /\ pc[r] = "funds" /\ balance[From[r]] >= Amount[r]
  /\ Goto(r, "debit")
  /\ UNCHANGED <<database, cache>>

-----------------------------------------------------------------------------
(* The payment's transaction                                               *)

\* What r sees of an account: its own write, or what is committed.
Seen(r, a) == IF a \in DOMAIN new[r] THEN new[r][a] ELSE balance[a]

\* f with value v at a.
With(f, a, v) == [b \in DOMAIN f \cup {a} |-> IF b = a THEN v ELSE f[b]]

\* UPDATE accounts SET balance = balance + d WHERE account_id = a.
AddTo(r, a, d) ==
  /\ locks[a] \in {None, r}
  /\ locks' = [locks EXCEPT ![a] = r]
  /\ new' = [new EXCEPT ![r] = With(@, a, Seen(r, a) + d)]
  /\ UNCHANGED <<balance, rows, used, cache>>

Debit(r) ==
  /\ pc[r] = "debit"
  /\ AddTo(r, From[r], -Amount[r])
  /\ Goto(r, IF Mode[r] \in TopUp THEN "insert" ELSE "credit")

Credit(r) ==
  /\ pc[r] = "credit" /\ To[r] \in Accounts
  /\ AddTo(r, To[r], Amount[r])
  /\ Goto(r, "insert")

\* The UPDATE matches no row, which is no error.
CreditNobody(r) ==
  /\ pc[r] = "credit" /\ To[r] \notin Accounts
  /\ Goto(r, "insert")
  /\ UNCHANGED <<database, cache>>

\* Another transaction has inserted the id and has not ended.
InsertedBy(q, r) == q # r /\ pc[q] = "commit" /\ TxId[q] = TxId[r]

\* Fault: no unique transaction_id.
InsertUnchecked(r) ==
  /\ pc[r] = "insert"
  /\ Goto(r, "commit")
  /\ UNCHANGED <<database, cache>>

Insert(r) ==
  /\ pc[r] = "insert"
  /\ ~Paid(TxId[r]) /\ \A q \in Requests : ~InsertedBy(q, r)
  /\ Goto(r, "commit")
  /\ UNCHANGED <<database, cache>>

\* Fault: ON CONFLICT DO NOTHING.
DuplicateIgnored(r) ==
  /\ pc[r] = "insert" /\ Paid(TxId[r])
  /\ balance' = [a \in Accounts |-> Seen(r, a)]
  /\ Release(r)
  /\ Finish(r, "paid")
  /\ UNCHANGED <<rows, used, cache>>

DuplicateId(r) ==
  /\ pc[r] = "insert" /\ Paid(TxId[r])
  /\ Rollback(r, "failed")

StatementFails(r) ==
  /\ InTx(r)
  /\ Rollback(r, "failed")

Commit(r) ==
  /\ pc[r] = "commit"
  /\ balance' = [a \in Accounts |-> Seen(r, a)]
  /\ rows' = rows \cup {r}
  /\ Release(r)
  /\ UNCHANGED <<used, cache>>

Committed(r)    == Commit(r) /\ Goto(r, "after")
\* The answer to COMMIT is lost, and its error is returned.
CommitUnsure(r) == Commit(r) /\ Finish(r, "failed")

-----------------------------------------------------------------------------
(* After it                                                                *)

\* Redis.Del of the QR code and setIdempotency of a top-up; neither looks at
\* an error, and no other provider calls setIdempotency.
Succeed(r) ==
  /\ pc[r] = "after"
  /\ live' \in IF Mode[r] = "QR" THEN {live, live \ {Code[r]}} ELSE {live}
  /\ idem' \in IF Mode[r] \in TopUp THEN {idem, idem \cup {TxId[r]}} ELSE {idem}
  /\ Finish(r, "paid")
  /\ UNCHANGED database

-----------------------------------------------------------------------------
(* The rest of the system                                                  *)

WaitsFor(r, q) ==
  /\ q # r
  /\ \/ pc[r] = "code"   /\ Mode[r] = "USSD"      /\ locks[Code[r]] = q
     \/ pc[r] = "debit"  /\ locks[From[r]] = q
     \/ pc[r] = "credit" /\ To[r] \in Accounts    /\ locks[To[r]] = q
     \/ pc[r] = "insert" /\ InsertedBy(q, r)

\* r waits in a cycle: PostgreSQL finds it and cancels a statement.
DeadlockVictim(r) ==
  /\ \E S \in SUBSET Requests :
       /\ r \in S
       /\ \A p \in S : \E q \in S : WaitsFor(p, q)
       /\ \A p \in S : \E q \in S : WaitsFor(q, p)
  /\ Rollback(r, "failed")

\* The server stops and is started again: the requests under way are lost,
\* PostgreSQL rolls their transactions back, Redis stays.
Crash ==
  /\ \E r \in Requests : Busy(r)
  /\ pc' = [r \in Requests |-> IF Busy(r) THEN "done" ELSE pc[r]]
  /\ answer' = [r \in Requests |-> IF Busy(r) THEN "lost" ELSE answer[r]]
  /\ locks' = [x \in DOMAIN locks |-> None]
  /\ new' = [r \in Requests |-> Nothing]
  /\ UNCHANGED <<balance, rows, used, cache>>

KeyExpires ==
  /\ \/ \E c \in live : live' = live \ {c} /\ UNCHANGED idem
     \/ \E i \in idem : idem' = idem \ {i} /\ UNCHANGED live
  /\ UNCHANGED <<pc, answer, database>>

\* What a provider does to decide on a request.
ValidatePayment(r) ==
  \/ CodeGone(r) \/ ReadQRCode(r) \/ ReadUssdCode(r) \/ ConsumeUssdCode(r)
  \/ FundsShort(r) \/ FundsSuffice(r)

\* What it does to pay.
ProcessPayment(r) ==
  \/ Debit(r) \/ Credit(r) \/ CreditNobody(r) \/ Insert(r) \/ DuplicateId(r)
  \/ Committed(r) \/ Succeed(r)

\* A step the code takes by itself, once no lock is in its way.
Step(r) == ValidatePayment(r) \/ ProcessPayment(r) \/ DeadlockVictim(r)

Next ==
  \/ \E r \in Requests :
       \/ Undecoded(r) \/ AnsweredAlready(r) \/ Route(r) \/ Step(r)
       \/ Refuse(r) \/ RejectUssdCode(r) \/ StatementFails(r) \/ CommitUnsure(r)
  \/ Crash \/ KeyExpires

Spec == Init /\ [][Next]_vars

\* net/http runs each request in a goroutine of its own; nothing has to fail.
FairSpec == Spec /\ \A r \in Requests : WF_vars(Step(r))

-----------------------------------------------------------------------------
(* Properties                                                              *)

\* No id is paid twice, whatever its requests, retries and modes: the keys
\* in Redis come late or never, the INSERT is in the payment's transaction.
PaidOncePerId ==
  \A r, q \in rows : TxId[r] = TxId[q] => r = q

\* A USSD code pays once, whatever ids it is used with.
UssdCodePaysOnce ==
  \A r, q \in rows :
    Mode[r] = "USSD" /\ Mode[q] = "USSD" /\ Code[r] = Code[q] => r = q

\* Who is told that an id is paid, now or already, is told the truth, through
\* any crash between the database and Redis.
PaidAnswersTrue ==
  \A r \in Requests : answer[r] \in {"paid", "already"} => Paid(TxId[r])

\* What the payment of r makes of account a.
Effect(a, r) ==
  (IF To[r] = a /\ Mode[r] \notin TopUp THEN Amount[r] ELSE 0)
    - (IF From[r] = a THEN Amount[r] ELSE 0)

\* Money moves with the row of its payment and not otherwise: at any time a
\* balance is what the committed rows make of the opening one.  (ProcessPayment:
\* both UPDATEs and the INSERT are in one transaction.)
BalancesMatchRows ==
  \A a \in Accounts :
    balance[a] = Opening[a] + SumFunctionOnSet([r \in rows |-> Effect(a, r)], rows)

\* Every request that goes to work ends, once: at last none is under way.  No
\* lock is kept and no cycle of waits for accounts, codes and ids stays.
EveryRequestEnds == <>[](\A r \in Requests : ~Busy(r))

-----------------------------------------------------------------------------
(* What the proofs of PaymentProofs carry from step to step                *)

\* A committed row belongs to a request that has committed, the row of a
\* request at its COMMIT has no twin, committed or not.
RowsOfEnded ==
  /\ \A r \in rows : pc[r] \in {"after", "done"}
  /\ \A r \in Requests : pc[r] = "after" => r \in rows
  /\ \A r \in Requests : pc[r] = "commit" =>
       ~Paid(TxId[r]) /\ \A q \in Requests : ~InsertedBy(q, r)

\* r has consumed its USSD code and may pay with it, or has.
Consumer(r) ==
  /\ Mode[r] = "USSD"
  /\ pc[r] \in {"funds", "debit", "credit", "insert", "commit", "after"} \/ r \in rows

\* While a request decides on a code its lock keeps the others out, and a
\* used code has one consumer.
CodesKept ==
  /\ \A r \in Requests : pc[r] = "mark" =>
       Mode[r] = "USSD" /\ locks[Code[r]] = r /\ Code[r] \notin used
  /\ \A r \in Requests : Consumer(r) =>
       /\ Code[r] \in used
       /\ \A q \in Requests : Consumer(q) /\ Code[q] = Code[r] => q = r

KeysTrue == \A i \in idem : Paid(i)

\* What the transaction of r has written is under its lock, and is, once it
\* has written all, what its payment makes of the committed balances.
WritesOf(r) ==
  /\ \A a \in DOMAIN new[r] : locks[a] = r
  /\ ~InTx(r) => DOMAIN new[r] = {}
  /\ pc[r] = "credit" =>
       /\ Mode[r] \notin TopUp
       /\ DOMAIN new[r] = {From[r]}
       /\ new[r][From[r]] = balance[From[r]] - Amount[r]
  /\ pc[r] \in {"insert", "commit"} => \A a \in Accounts :
       IF a \in DOMAIN new[r] THEN new[r][a] = balance[a] + Effect(a, r)
                              ELSE Effect(a, r) = 0

WritesKept == \A r \in Requests : WritesOf(r)

BooksInv == IsFiniteSet(rows) /\ WritesKept /\ BalancesMatchRows

WalletInv ==
  /\ TypeOK /\ RowsOfEnded /\ PaidOncePerId
  /\ CodesKept /\ KeysTrue /\ PaidAnswersTrue

=============================================================================

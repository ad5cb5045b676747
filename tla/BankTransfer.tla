---------------------------- MODULE BankTransfer ----------------------------
(***************************************************************************)
(* Bank transfers over the NIP switch: ProcessPayment of the bank transfer *)
(* provider, DoTransaction of NIPFundsTransferImpl and LogTransaction.     *)
(*                                                                         *)
(* A transfer takes a connection of the pool for a database transaction,   *)
(* and holds it while it asks NIBSS for the name, looks up the account to  *)
(* debit through a second connection, and has NIBSS post first the debit   *)
(* and then the credit.  The transaction is used at the end only, for the  *)
(* row and the audit event.  An error there is logged, and the transfer is *)
(* answered a success.                                                     *)
(*                                                                         *)
(* Each request to NIBSS is three POSTs (encrypt, the request, decrypt): a *)
(* leg may be posted although the caller has given it up, before or after. *)
(* The accounts table keeps out of it: the ledger calls are commented out. *)
(***************************************************************************)
EXTENDS Integers, FiniteSets

CONSTANTS
  Transfers,     \* HTTP requests; a retry is another request with the same id
  TransferId,    \* the transaction id of each
  MaxOpenConns   \* connections of the pool

ASSUME PoolAssumption == MaxOpenConns \in Nat \ {0}

VARIABLES
  at,        \* where a transfer is
  told,      \* what it was answered
  inTx,      \* transfers that hold a connection for their transaction
  sent,      \* legs on their way to NIBSS or there
  posted,    \* legs that NIBSS has posted
  declined,  \* legs that NIBSS has declined
  recorded   \* transfers whose row and audit event are committed

nibss        == <<posted, declined>>
transferVars == <<at, told, inTx, sent, nibss, recorded>>

Untold == "none"
Legs == Transfers \X {"debit", "credit"}

UnderWay(t) == at[t] \notin {"idle", "done"}

\* A connection of the pool is free.
ConnFree == Cardinality(inTx) < MaxOpenConns

TransferTypeOK ==
  /\ at \in [Transfers -> {"idle", "begin", "enquire", "lookup", "debit", "await debit",
                           "credit", "await credit", "insert", "commit", "done"}]
  /\ told     \in [Transfers -> {Untold, "success", "failed", "lost"}]
  /\ inTx     \in SUBSET Transfers
  /\ sent     \in SUBSET Legs
  /\ posted   \in SUBSET sent
  /\ declined \in SUBSET sent
  /\ recorded \in SUBSET Transfers

TransferInit ==
  /\ at   = [t \in Transfers |-> "idle"]
  /\ told = [t \in Transfers |-> Untold]
  /\ inTx = {} /\ sent = {} /\ posted = {} /\ declined = {} /\ recorded = {}

MoveTo(t, l) == at' = [at EXCEPT ![t] = l]

\* ProcessPayment returns: the deferred tx.Rollback gives the connection back.
Return(t, a) ==
  /\ MoveTo(t, "done")
  /\ told' = [told EXCEPT ![t] = a]
  /\ inTx' = inTx \ {t}

-----------------------------------------------------------------------------
(* Before NIBSS                                                            *)

\* Account and KYC, then ValidatePayment: second factor, fields, an active
\* account.  No balance is compared.
Validate(t) ==
  /\ at[t] = "idle" /\ ConnFree
  /\ MoveTo(t, "begin")
  /\ UNCHANGED <<told, inTx, sent, nibss, recorded>>

Invalid(t) ==
  /\ at[t] = "idle"
  /\ Return(t, "failed")
  /\ UNCHANGED <<sent, nibss, recorded>>

\* BeginTx: waits for a connection.
Begin(t) ==
  /\ at[t] = "begin" /\ ConnFree
  /\ inTx' = inTx \cup {t}
  /\ MoveTo(t, "enquire")
  /\ UNCHANGED <<told, sent, nibss, recorded>>

\* EnquireName knows the beneficiary.
Enquire(t) ==
  /\ at[t] = "enquire"
  /\ MoveTo(t, "lookup")
  /\ UNCHANGED <<told, inTx, sent, nibss, recorded>>

\* GetDebitAccountInfo asks the pool, not the transaction, for a connection.
LookUp(t) ==
  /\ at[t] = "lookup" /\ ConnFree
  /\ MoveTo(t, "debit")
  /\ UNCHANGED <<told, inTx, sent, nibss, recorded>>

\* Fault: QueryRow in place of QueryRowContext.
LookUpUntimed(t) ==
  /\ at[t] \in {"begin", "enquire"}
  /\ Return(t, "failed")
  /\ UNCHANGED <<sent, nibss, recorded>>

\* No connection before the request's deadline, no name, no such account.
GiveUpEarly(t) ==
  /\ at[t] \in {"begin", "enquire", "lookup"}
  /\ Return(t, "failed")
  /\ UNCHANGED <<sent, nibss, recorded>>

-----------------------------------------------------------------------------
(* The legs                                                                *)

\* The leg is sent.
Send(t, leg) ==
  /\ at[t] = leg
  /\ sent' = sent \cup {<<t, leg>>}
  /\ MoveTo(t, IF leg = "debit" THEN "await debit" ELSE "await credit")
  /\ UNCHANGED <<told, inTx, nibss, recorded>>

Decided(m) == m \in posted \cup declined

\* NIBSS decides on a leg, at any time after it was sent or never.
NibssPosts(m) ==
  /\ m \in sent /\ ~Decided(m)
  /\ posted' = posted \cup {m}
  /\ UNCHANGED <<at, told, inTx, sent, declined, recorded>>

NibssDeclines(m) ==
  /\ m \in sent /\ ~Decided(m)
  /\ declined' = declined \cup {m}
  /\ UNCHANGED <<at, told, inTx, sent, posted, recorded>>

\* Fault: the response code is not looked at.
DebitAnswered(t) ==
  /\ at[t] = "await debit" /\ Decided(<<t, "debit">>)
  /\ MoveTo(t, "credit")
  /\ UNCHANGED <<told, inTx, sent, nibss, recorded>>

\* Response code 00.
DebitDone(t) ==
  /\ at[t] = "await debit" /\ <<t, "debit">> \in posted
  /\ MoveTo(t, "credit")
  /\ UNCHANGED <<told, inTx, sent, nibss, recorded>>

\* Fault: any answer to the credit will do.
CreditAnswered(t) ==
  /\ at[t] = "await credit" /\ Decided(<<t, "credit">>)
  /\ MoveTo(t, "insert")
  /\ UNCHANGED <<told, inTx, sent, nibss, recorded>>

CreditDone(t) ==
  /\ at[t] = "await credit" /\ <<t, "credit">> \in posted
  /\ MoveTo(t, "insert")
  /\ UNCHANGED <<told, inTx, sent, nibss, recorded>>

\* Another response code; an encryption, a POST, a decryption or the parsing
\* fails; the deadline.  Nothing is reversed.
LegFails(t) ==
  /\ at[t] \in {"debit", "await debit", "credit", "await credit"}
  /\ Return(t, "failed")
  /\ UNCHANGED <<sent, nibss, recorded>>

-----------------------------------------------------------------------------
(* LogTransaction                                                          *)

IdRecorded(id) == \E q \in recorded : TransferId[q] = id
RowInsertedBy(q, t) == q # t /\ at[q] = "commit" /\ TransferId[q] = TransferId[t]

\* Fault: no unique transaction_id.
InsertRowUnchecked(t) ==
  /\ at[t] = "insert"
  /\ MoveTo(t, "commit")
  /\ UNCHANGED <<told, inTx, sent, nibss, recorded>>

\* The signature and the INSERT of the row, which waits for a transaction
\* that has inserted the id too.
InsertRow(t) ==
  /\ at[t] = "insert"
  /\ ~IdRecorded(TransferId[t]) /\ \A q \in Transfers : ~RowInsertedBy(q, t)
  /\ MoveTo(t, "commit")
  /\ UNCHANGED <<told, inTx, sent, nibss, recorded>>

\* The audit event, COMMIT, and the answer.
CommitRow(t) ==
  /\ at[t] = "commit"
  /\ recorded' = recorded \cup {t}
  /\ Return(t, "success")
  /\ UNCHANGED <<sent, nibss>>

\* Signing, a statement (of an id that is there, for one) or COMMIT fails, or
\* the request's context has ended the transaction; the answer is a success.
LogFails(t) ==
  /\ at[t] \in {"insert", "commit"}
  /\ Return(t, "success")
  /\ UNCHANGED <<sent, nibss, recorded>>

-----------------------------------------------------------------------------
(* The rest of the system                                                  *)

\* The server stops and is started again.
Stop ==
  /\ \E t \in Transfers : UnderWay(t)
  /\ at' = [t \in Transfers |-> IF UnderWay(t) THEN "done" ELSE at[t]]
  /\ told' = [t \in Transfers |-> IF UnderWay(t) THEN "lost" ELSE told[t]]
  /\ inTx' = {}
  /\ UNCHANGED <<sent, nibss, recorded>>

TransferStep(t) ==
  \/ Begin(t) \/ Enquire(t) \/ LookUp(t) \/ GiveUpEarly(t)
  \/ Send(t, "debit") \/ DebitDone(t) \/ Send(t, "credit") \/ CreditDone(t) \/ LegFails(t)
  \/ InsertRow(t) \/ CommitRow(t) \/ LogFails(t)

TransferNext ==
  \/ \E t \in Transfers : Validate(t) \/ Invalid(t) \/ TransferStep(t)
  \/ \E m \in Legs : NibssPosts(m) \/ NibssDeclines(m)
  \/ Stop

TransferSpec == TransferInit /\ [][TransferNext]_transferVars

\* Every transfer's goroutine makes progress, its deadline of 60 s included.
FairTransferSpec == TransferSpec /\ \A t \in Transfers : WF_transferVars(TransferStep(t))

-----------------------------------------------------------------------------
(* Properties                                                              *)

Debited(t)  == <<t, "debit">> \in posted
Credited(t) == <<t, "credit">> \in posted

\* Nobody's bank is credited without a debit, whatever answers are lost and
\* whenever NIBSS comes round to a leg.
CreditOnlyAfterDebit == \A t \in Transfers : Credited(t) => Debited(t)

\* Who is told that a transfer succeeded has been debited and the beneficiary
\* credited, and so has everything that is on record.
SuccessIsSettled ==
  \A t \in Transfers : told[t] = "success" \/ t \in recorded => Debited(t) /\ Credited(t)

\* Requests and retries with one id leave one record at most.
OneRowPerId == \A t, q \in recorded : TransferId[t] = TransferId[q] => t = q

\* Transfers that hold all connections and each want one more do end.
EveryTransferEnds == \A t \in Transfers : UnderWay(t) ~> (at[t] = "done")

\* "... the same result without side effects, preventing double-charging."
DebitedOncePerId ==
  \A t, q \in Transfers : Debited(t) /\ Debited(q) /\ TransferId[t] = TransferId[q] => t = q

-----------------------------------------------------------------------------
(* What the proofs of PaymentProofs carry from step to step                *)

\* A leg is sent only by a transfer that has come to it, the credit by one
\* whose debit is posted.
LegsInOrder ==
  \A t \in Transfers :
    /\ at[t] \in {"credit", "await credit", "insert", "commit"} => Debited(t)
    /\ at[t] \in {"insert", "commit"} => Credited(t)
    /\ <<t, "credit">> \in sent => Debited(t)

RowsInOrder ==
  /\ \A t \in recorded : at[t] = "done"
  /\ \A t \in Transfers : at[t] = "commit" =>
       ~IdRecorded(TransferId[t]) /\ \A q \in Transfers : ~RowInsertedBy(q, t)

TransferInv ==
  /\ TransferTypeOK /\ LegsInOrder /\ RowsInOrder
  /\ SuccessIsSettled /\ OneRowPerId

=============================================================================

# RuralPay backend: specifications, model checks and proofs

TLA+ modules of the RuralPay backend (Go, `src/`), the TLC runs that check them
on small instances, and TLAPS proofs of their safety properties for instances of
any size. Everything is translated from the source; `PROJECT.json` names, for
every definition, the lines it stands for. Paths below are relative to `src/`;
`services/`, `providers/`, `handlers/`, `middleware/`, `hsm/` and
`circuitbreaker/` are under `internal/`.

Contents: 1 the system, 2 the modules and how they correspond to the code,
3 the runs, 4 fairness, 5 what is proved, 6 what was found, 7 what is not
modelled, 8 the plan.

## 1. The system

One HTTP server (`cmd/server/main.go`, chi). Each request is a goroutine; a
handler runs SQL in PostgreSQL at READ COMMITTED, commands in Redis, and POSTs
to NIBSS, the national switch. Goroutines meet in the database, in Redis, in a
few maps and variables in memory, and in the pool of database connections. There
is no persistent queue and no job that repairs anything at start-up: what a crash
leaves half done stays so.

| Component | State | Operations | Hard about it | Correct when |
|---|---|---|---|---|
| Double-entry ledger, `services/ledger_service.go` | tables accounts (balance, version), ledger_entries, payment_states | Transfer, TransferTx, Reverse | two row locks per call, balances computed in Go, reversals of what others still write, and of reversals | no lost update, balance = chain of entries, each call atomic, no deadlock among transfers, every call ends |
| Wait for NIBSS's asynchronous answer, `services/funds_transfer.go`, `services/name_enquiry.go`, `handlers/iso20022_callback_handler.go` | a sync.Map of channels per service object | DoTransaction, EnquireName, callbacks pacs.002, acmt.024, admi.002 | answers before the response, late, lost, twice; a timer racing an answer | nobody blocks or waits for ever, each call gets its own answer, the first answer counts, nothing leaks |
| ISO 20022 messages, `services/iso20022_service.go`, `middleware/iso20022_callback_auth.go`; breaker, `circuitbreaker/breaker.go` | the process-wide timestamp format; generations and counts of a breaker | convert, sign, POST, authenticate, decrypt; messages NIBSS sends of its own; `/iso20022/convert`, `/iso20022/settlement` | conversions that overlap; two readers of one body; one breaker for payments and enquiries | a sealed answer is read, no conversion leaves its format behind, the breaker opens again |
| Payments from the accounts table, `handlers/payment_handler.go`, `providers/` (QR, USSD, voice, airtime, data) | accounts, transactions, ussd_codes; Redis `qr:`, idempotency keys | HandlePayment, ProcessPayment of each provider | checks outside the transaction, retries, crash between COMMIT and Redis, lock cycles | an id is paid once, a code pays once, answers are true, balances are what the rows say, every request ends |
| Bank transfers over NIP, `providers/bank_transfer_provider.go`, `services/nibss_nip_service.go`, `services/funds_transfer.go`, `hsm/audit_event_logger.go` | the connection pool, legs at NIBSS, tables transactions and audit_events | ProcessPayment, the debit and the credit leg, LogTransaction | a transaction held open across the network, an answer lost after a leg is posted, an error after the money moved | no credit without debit, success and records only for settled transfers, every transfer ends |
| Sessions and tokens, `services/user_service.go`, `middleware/auth.go` | Redis `session:`, `blacklist:`; users.status, deleted_at | UserLogin, RefreshToken, LogoutUser, DeleteUserProfile, AuthSessionMiddleware | each handler makes several Redis and SQL calls; a deletion scans keys while others log in | what is over stays over; a deletion ends all sessions; no session evicts itself |
| Account service, `services/account_service.go`, `name_enquiry.go`, `mandate_advice.go`, `balance_enquiry.go`, `virtual_account_helper.go` | accounts, mandates at NIBSS, the name cache, Redis `va:` | LinkAccount, UnlinkAccount, AccountNameEnquiry, AccountBalanceEnquiry, GetVirtualAccount, GetDebitAccountInfo | the mandate is made before the row; the cache is written before the verdict is looked at; parallel enquiries counted by hand | a link is what was answered, an unlinked account is out, names are vouched for, every enquiry ends |
| One-time codes, `account_service.go`, `user_service.go`, `qr_service.go`, `providers/qr_provider.go` | Redis `<action>:USER_2FA:`, `RESET_USER:`, `qr:`, `qr:used:` | generate and use each | read, compare and delete are separate calls, whose failure is ignored | what is over lets in nobody who comes later; a use deletes the code that let it in; a QR token is processed once |
| USSD codes and the rate limiter, `services/ussd_service.go`, `middleware/ratelimit.go` | ussd_codes; Redis `ussd:ratelimit:`, `rl:<path>:<ip>` | GenerateUSSDCode, ValidateUSSDCode, the payment's consumption, RateLimiter | counters read, used and incremented in separate calls; TTLs; two limiters on one key; digits drawn twice | a window of the global limiter admits no more than its limit; a code is consumed once; a user's digits stay his |
| Key store, `hsm/hsm.go`, `services/hsm_key_service.go` | keys in memory under a RWMutex, key files, a pair of PEM files | start, sign, verify, rotate, delete, synchronise, generate the pair, decrypt logins | a crash between memory and file; RotateKeys locks the mutex twice; two writers of two files | what was signed stays verifiable; a login is refused only for a renewed pair; nobody waits for ever |
| Merchants, cards, ISO 8583, status query, vouchers, notifications, banks and voice, small handlers, server, models | | | | not modelled, see section 7 |

How they meet. HandlePayment chooses a provider; the QR provider pays for a token
of the one-time codes, the USSD provider consumes a USSD code, the bank transfer
provider asks for a name, looks the account up and sends two legs, or one
pacs.008 over ISO 20022. Every authenticated request passes the sessions, every
request the rate limiter. Audit records and logins with an encrypted password
use the key store.

`PROJECT.json` lists every component with its status, and every hazard with its
line and the properties that would catch it.

## 2. Modules

Conventions. A handler is a process with a program counter `pc[r]`; each action
is one statement, Redis command or message whose outcome another process can
notice, with everything the code does up to the next one. Error returns are
actions (`StatementFails`, `Refuse`, `LegFails`, ...). Constants give the
requests and what they ask for. Operators marked "Fault" are not used by the
specifications: they are the plausible bugs that `PROJECT.json` puts in place of
a definition to show that a property notices it. "History" variables are written
only to state properties. At the end of a module stands the inductive invariant
its proofs carry from step to step. `BankTransfer`, `IsoExchange` and `UssdCode`
give their specification, program counter and helpers names of their own
(`TransferSpec`, `at`, `MoveTo`, ...; `Clients` and `Calls` are the users and
requests of `UssdCode`), so that one module can extend them and another.

### Ledger (`Ledger`, `LedgerSpec`, `LedgerInvariant`, `MCLedger`)

| Code | Model |
|---|---|
| `accounts` rows, `ledger_entries`, `payment_states` | `row`, `hist`/`posted`, `states` (committed) |
| what a transaction has written and not committed | `view`, `went`; what `lockAccount` returned: `read` |
| `SELECT ... FOR UPDATE` | `LockFirst`, `LockSecond`, `LockReversed`; `holder` |
| TransferTx, `ledger_service.go:127-197` | `BeginTransfer`, locks in the order of ids, `PostEntries`, `UpdateDebit`, `UpdateCredit` (with `VersionMatches`), `Commit` |
| Reverse, `:75-125` | `BeginReverse` (reads the entries without a lock), then per entry `LockReversed`, `PostReversal`; `NothingToReverse`; `IdTooLong` |
| `transaction_id`, with `"_REVERSAL"` behind it for what Reverse writes (`:118`) | `<<t, d>>`, the id `t` with `d` suffixes; `Ids` |
| deferred Rollback, a failing statement, PostgreSQL's deadlock detector | `Rollback` in `OptimisticLockFailed`, `MissingAccount`, `StatementFails`, `DeadlockVictim` |

`LedgerSpec` is the abstract ledger: a transfer or reversal happens at one
instant on the balances of that instant. `AtomicLedger` is `LedgerSpec!Spec`
with `balance`, `executed` and `states` read off the committed tables. It
deliberately allows what the code allows: an id transferred twice and reversed
more than once. Entries that a reversal wrote are found under their id like any
others, so `Reverse("t_REVERSAL")` is a call of `BeginReverse` too, and what it
records rests on a reversal instead of a success (`Founded`). `Room[t]` is how
many suffixes fit the column, a VARCHAR(255); beyond it the INSERT fails
(`IdTooLong`). It is a fact of the schema and the id, not a bound of the model.

### Waiting for NIBSS (`CallbackWait`, `MCCallbackWait`)

`pending` is the sync.Map, `chan[c]` the channel (capacity one), `pc`/`result`
the call, `hpc`/`answer`/`reached` a callback request. `Register` stores the
channel and sends; `NibssDecides`, `Deliver` are the environment; `Sent`,
`SendFails`, `TakeAnswer`, `TimesOut` are the caller; `LoadAndDelete`,
`SendToCaller`, `DropAnswer` the handler. Both services share the code, so
`Transfers` and `Enquiries` are kinds of one process. Two constants describe the
wiring: `SameInstance` (the callback handler has the service object that waits)
and `MsgIdEchoed` (NIBSS's OrgnlTxId is the key); `Wired(c)` says that an answer
about `c` can be found. Neither constant is TRUE of `main.go` as it stands
(section 6). The proofs assume nothing of them: whatever the wiring, nobody
blocks or leaks, a result is the call's own, an answer is dropped only if its
call is over, answered or not wired (`DropsExplained`), and a call that is not
wired gets no answer at all (`AnsweredOnlyIfWired`). That the first answer is
kept (`FirstAnswerKept`) is so of the correct wiring only: `callback_answers`
checks it there, `callback_other_instance` refutes it for `main.go`'s.

What NIBSS decides (`Verdicts`) is `accepted` (ACSC, ACCP), `pending` (PDNG, and
any other status or none, which the code treats alike), `rejected` (RJCT) or
`malformed` (admi.002). The handler makes a result of the first two, which
carries its status (`Outcome`): `OwnVerdict` says that it is the status NIBSS gave
this call, not that it is a settlement. What the provider makes of a pending one
is in section 6.

### The exchange around it (`IsoExchange`, `MCIsoExchange`)

Extends `CallbackWait`, whose steps are steps here, with what it takes to get to
them. A call converts its message: `SetFormat`, `Marshal`, `Restore` work on
`format`, the package variable `common.DateTimeFormatString`; `Seen` is what
`Marshal` may find while another conversion races with it. `Execute`, `Refuse`,
`Accepted`, `PostFails` run the POST under the breaker: `breaker` is gobreaker's
generation with its counts, `Report` its bookkeeping, `ReadyToTrip` the setting
of `breaker.go`, `IntervalOver` and `CoolDown` its two timers. A callback request
is authenticated (`VerifyHMAC` reads the body and puts it back, `VerifyTLS`,
`Unauthorized`), decoded (`Opened`, `Decoded`) and then `Read`, which is
`Deliver` of `CallbackWait`, or `Misread`. A request of NIBSS's own
(`ReceivePacs008`, `ReceivePacs028`, `ReceiveAcmt023`) takes the same way and is
confirmed; the code behind it only logs. A user may ask for a conversion
(`ConvertToISO20022`), which sets no format and marshals with the one it finds,
or for a settlement (`ProcessSettlement`), which always fails for want of a
client. `config` is how the server was started: kind of authentication, and
whether NIBSS shares the key pair with which the service opens envelopes.

`CallbackWait` is the abstract specification here: `IsoSpec => Spec` is proved
(`ExchangeImplementsWait`), so its safety properties hold of the exchange.

### Payments (`WalletPayment`, `MCWalletPayment`)

A request is a process: `Undecoded`, `AnsweredAlready` (idempotency key) or
`Route`; then code (`ReadQRCode`; `ReadUssdCode`, `ConsumeUssdCode` in their own
transaction), `FundsSuffice` (outside any transaction), and the payment's
transaction `Debit`, `Credit`, `Insert`, `Commit`; then `Succeed` (Redis). `new`
holds uncommitted balances, `locks` the rows of accounts and codes; two INSERTs
of an id wait as PostgreSQL's unique index makes them (`InsertedBy`).
`CommitUnsure` is a COMMIT that took effect and reports an error. `Crash` stops
the server: all requests end, uncommitted work is gone, Redis stays. `Accepted`
is the set of modes whose body `HandlePayment` can decode; in the repository
QR, USSD and voice, since airtime, data and card bodies have fields the handler's
type refuses. The run lets airtime in so that there are idempotency keys to be
wrong about.

### Bank transfers (`BankTransfer`, `MCBankTransfer`)

`inTx` are the transfers that hold a connection for their transaction; every
other statement needs a free one at that moment (`ConnFree`). `Send` puts a leg
under way; NIBSS posts or declines it whenever it likes, also after the caller
has given up; `DebitDone`, `CreditDone` and `LegFails` are what the caller makes
of it. `InsertRow`, `CommitRow`, `LogFails` are LogTransaction; `LogFails` still
answers a success, as the code does. `GiveUpEarly` is the request's deadline.

### Sessions (`Session`, `MCSession`)

A login (`LoginChecks`, `LoginStores`, `LoginFails`) stands for the random
session id it draws. Any other request (`Begin`) is a use or a deletion behind
AuthSessionMiddleware (`CheckBlacklist`, `SessionValid`, `SessionDropped`,
`SessionLocked`, `CheckUser`), a refresh (`RefreshExists`, `RefreshReads`,
`RefreshMints`) or a logout (`LogoutDrops`, `Revoke`). A deletion goes on with
`DeleteVerifies`, `SoftDelete`, `Revoke`, `ScanStarts`, `Sweep`. `Sweep` is the
whole SCAN iteration: it finds what was there when it began and any of what came
since, which is Redis's guarantee. Each Redis command may fail. A key's TTL
(`KeyExpires`) and `expires_at` (`Ages`) are separate events.

### Accounts (`Accounts`, `MCAccounts`)

`row[n]` is the row of an account number, found by the number alone as the code
does; `cache[p]` the name cached for number and bank; `mandates` what NIBSS has
created, whether or not a row came of it. EnquireName is `CacheHit`/`CacheMiss`,
`Ask`, `Resolved`, `Put`, `Expire`, with `iso` for which of its two
implementations the server was started with: over ISO 20022 it stores before it
looks at the verdict, over NIP after. LinkAccount goes on with `Check`,
`CreateMandate`, `Insert`; AccountNameEnquiry with `VirtualFound`, `RowFound` and
their opposites; AccountBalanceEnquiry reads rows (`ReadRows`), runs one process
per account (`Balance(r, n)`) and counts what comes in (`Receive`, `Reply`). Any
call or query may fail (`Fails`), a client may go away (`Lost`).

### One-time codes (`OneTimeCode`, `MCOneTimeCode`)

A code is known by the request that drew it; `Value` is its digits, which two
requests may share. `otp`, `reset`, `token`, `nonce` are the four families of
Redis keys, each GET, SET, DEL and SCAN a step. `dead` collects codes that were
superseded, expired or deleted, `stale[r]` those dead when `r` began. Time is the
four expiries. `Flows` (2FA, reset, QR) are explored one at a time, since a flow
touches the keys of its own only.

### USSD codes and the limiter (`UssdCode`, `MCUssdCode`)

`now` is a clock of `Horizon` ticks; a counter in Redis is a number with the tick
it lasts until. `main.go` puts a limiter with GlobalLimit before every route
(`:220`), and a second one with AuthStrict or AuthGeneral before those of
`/auth` (`:300`, `:308`). Both make their key of the path and the address
(`ratelimit.go:51`), so they share a counter: a request of kind `auth` passes
`AtGlobal` and `AtGroup`, and each increments the same `hits[Key(r)]` and sets its
own TTL (`LimitOf`, `WindowOf`). `Hit` is the INCR and EXPIRE of one of them
(`Increment`), followed by `Pass` or `TooMany`; `FailOpen` lets a request through
when Redis fails. `passed` counts what GlobalLimit's has let through, which is
what `AdmittedWithinLimit` is about, on keys with one limiter and with two; the
second limiter's own limit is not kept (section 6). `Mixes` says which kinds of
request come in one behaviour: codes and logins share no key, row or step.
GenerateUSSDCode is `LimitReached` or `Insert`/`Collision` and `Answer`; a
validation and a payment both run `Lookup` (SELECT ... FOR UPDATE), `Consume`,
`Unlocked`. `main.go` builds no USSDService, so the two handlers of
AccountService end in a panic in the server as it stands; the module is of the
service as they call it.

### Key store (`KeyStore`, `MCKeyStore`)

`srv` is the server's start (`Load`, `Generate`, `Save`, `SaveFails`, `Sync`) and
what `Crash` makes of it; `mem`, `file`, `db` the signing key in memory, on disk
and in the database; `lock` who holds the store's mutex for more than a step.
`Sign` is one request that signs an audit record. `OpenPrivate`, `WritePrivate`,
`OpenPublic`, `WritePublic` are the steps of
GenerateAndSaveKeyPairExternal, which takes no lock: two of them interleave, and
`Torn` is a file between being opened and written. `FetchPublic` and `Login` are
an app with an encrypted password.

## 3. Runs

`tlc -workers 2 -config X.cfg M`.

| Run | Question | Bounds | States |
|---|---|---|---|
| `ledger_calls` | Do concurrent transfers and reversals lose updates, break the chain of entries or the sum, record a reversal with nothing behind it, wait in a cycle, or show a state no atomic ledger has? Does every call end? | 3 accounts, 5 payments (a ring, one to another bank from the transit account, one from an account that is missing), 3 calls of any kind and id, a reversal's included; room for two suffixes, one or none | 51 121 |
| `callback_answers` | Blocking, leaks, crossed or dropped answers, a pending payment told as an accepted one, calls that never return; a sealed answer refused; a format left behind; a breaker that stays open | a transfer and an enquiry, correctly wired, 2 requests, one of which may be NIBSS's own or a user's; HMAC with the shared key pair or TLS without | 1 589 908 |
| `callback_other_instance` | Does the wiring of `main.go` deliver the first answer? No. | 2 transfers, 1 enquiry, 2 callback requests | counterexample |
| `iso_stamps` | Do all messages go out with NIBSS's timestamps? No. | as `callback_answers` | counterexample |
| `wallet_payments` | Double payments, double use of a code, false answers, balances, stuck requests | 2 accounts (and one that is missing), 5 requests, 2 ids, 2 codes | 48 536 |
| `bank_transfers` | Credit without debit, success without settlement, two records, stuck pool | 3 transfers, 2 ids, pool of 2 | 19 802 |
| `transfer_twice` | Is a transfer id debited once? No. | as above | counterexample |
| `sessions` | Does anything that ended come back? Does a deletion end all? Does a session evict itself? | 1 user, 2 logins, 2 requests of any kind, 2 token pairs per session | 568 056 |
| `accounts` | Is a link what was answered, is an unlinked account out, are names vouched for, does every enquiry end? | 2 users, 3 numbers, 2 banks, 2 requests of any kind, either switch | 71 303 |
| `codes` | Does a code that is over let anybody in, does a use delete another code than the one that let it in, is a token processed twice? | 2 users, 4 requests of one flow, two of them with equal digits | 267 240 |
| `ussd_codes` | Does a window of the global limiter admit more than its limit, also beside a second limiter, is a code consumed twice, do a user's digits become another's? | 2 generations, 2 validations, a payment, 2 digits; or 4 logins behind two limiters; limit 2 in 2 of 3 ticks, the second's 2 in 3 | 2 093 606 |
| `keys` | Is what was signed still verifiable, is a login refused without a renewal, who can block the store? | 2 signing keys, 1 signer, 2 generations of the pair, 1 app, crashes at any step | 585 620 |

Why these bounds are enough to be interesting. The races are between two
processes over one object, with a third that changes the outcome: two calls and
a reversal of the same id, two callbacks for one call while another waits, a
payment and a retry of its id crossing a payment the other way, as many transfers
as connections plus one, two links of one number at two banks, a code resent
while it is being used, a crash while a key is written. Each run has at least
these; every action of every module is taken in some passing run, and for every
property a mutant of the code is found by the same run. The proofs of section 5
take away the bounds for all safety properties. Bounds on counters:
`Generations` (`Session`), `Horizon` and `Mixes` (`UssdCode`), and otherwise each process is
used once. `MinRequests` is 1 in `callback_answers` where `breaker.go` has 5, so
that one failure trips the breaker for the other call; the proofs hold for any.
`CHECK_DEADLOCK FALSE` is set since all processes may have finished.

The invariants at the end of the modules are proved inductive, which says more
than checking them on the reachable states; TLC checks `LedgerInv` all the same.

## 4. Fairness

`FairSpec` (`IsoFairSpec`, `FairTransferSpec`) asks weak fairness of each process by itself, never of
the environment: a goroutine that can go on is scheduled by the Go runtime, a
statement or an HTTP call returns or fails within its timeout, a timer that has
started runs out (`TimesOut` is a step of the caller), and PostgreSQL's deadlock
detector aborts a waiter in a cycle (`DeadlockVictim` is a step of the victim).
NIBSS may never answer, crashes may or may not come, and no request has to begin.
Per module: `Ledger`, `WalletPayment`, `BankTransfer` each handler;
`IsoExchange` each call, each callback request, and `CoolDown`, the breaker's
timer (not `IntervalOver`, which nothing needs); `Accounts` each handler and each
goroutine of a balance enquiry, whose calls have timeouts; `KeyStore` a request
that signs, because `sync.RWMutex` starves nobody, and the end of a deletion; not
the writers of the pair, whose progress nothing depends on. No strong fairness is
used: a waiter for a lock need not win it while others keep taking it, but there
are finitely many calls. `Session`, `OneTimeCode` and `UssdCode` state no
liveness: their handlers wait for nothing but single commands (a row lock of
`UssdCode` is released by a statement that follows).

## 5. Proofs

All theorems are about `Spec` (`IsoSpec`, `TransferSpec`, `UssdSpec`) of the module, for every value of its
constants that satisfies its assumptions. `PaymentProofs` and `CodeProofs` are
about two components each, whose constants and variables are their own, so that
nothing is said of the two together.

| Module | Theorem | States |
|---|---|---|
| `LedgerProofs` | `TypeCorrect`, `InductiveInvariant`, `NoLostUpdate` | `[]LedgerInv`, `[]BalancesFollowEntries` |
| | `MoneyConserved` | `[]Conservation`, a sum over all accounts |
| | `ReversalsAreFounded` | `[]ReversedWasFounded`: what is reversed is a success or a reversal |
| | `NoTransferDeadlock` | `[]TransfersNeverDeadlock` |
| | `LedgerIsAtomic` | `Spec => AtomicLedger`: the ledger implements the abstract one |
| `CallbackProofs` | `TypeCorrect`, `InductiveInvariant`, `NeverBlocked`, `NothingLeft`, `OwnAnswer` | the safety properties of `CallbackWait`, for every wiring |
| | `DroppedOnlyUnwired`, `UnwiredUnanswered` | `DropsExplained`, `[]AnsweredOnlyIfWired`: what is dropped, and that a call without wiring is never answered |
| | `ExchangeImplementsWait`, `ExchangeSafe`, `ExchangeDropsNoMore` | `IsoSpec => Spec`, and with it those properties of the exchange |
| | `ExchangeInvariant`, `FormatIsRestored`, `TimestampsOwn`, `EnvelopesRead` | the safety properties of `IsoExchange` |
| `PaymentProofs` | `TypeCorrect`, `InductiveInvariant`, `PaidOnce`, `CodePaysOnce`, `AnswersTrue` | the safety properties of `WalletPayment` |
| | `BooksBalance` | `[]BalancesMatchRows`, a sum over the committed rows |
| | `TransferTypes`, `TransferInductive`, `CreditNeedsDebit`, `Settled`, `RecordedOnce` | the safety properties of `BankTransfer` |
| `SessionProofs` | `TypeCorrect`, `InductiveInvariant`, `EndedStaysEnded`, `NoneEvictsItself`, `DeletionEndsAll` | the safety properties of `Session` |
| `AccountsProofs` | `TypeCorrect`, `InductiveInvariant`, `LinksAreTrue`, `UnlinkedStaysUnlinked`, `NamesAreVouched`, `NamesExpire` | the safety properties of `Accounts` |
| `CodeProofs` | `TypeCorrect`, `InductiveInvariant`, `OverIsOver`, `DeletesItsOwn`, `ProcessedNoMore` | the properties of `OneTimeCode` |
| | `UssdInductive`, `UssdConsumedOnce`, `UssdStaysOwn` | `[]UssdInv`, `[]ConsumedOnce`, `[]CodeStaysOwn` of `UssdCode` |
| | `LimitHolds` | `[]AdmittedWithinLimit` of GlobalLimit's limiter, a sum over every window, whether one limiter counts on a key or two |
| `KeyStoreProofs` | `TypeCorrect`, `InductiveInvariant`, `SignaturesStay`, `RefusedForRenewal` | the safety properties of `KeyStore` |
| `Sums` | `SumEmpty`, `SumSplit`, `SumSame`, `SumChange`, `SumMoves`, `SumZeros`, `SumGrows` | what `SumFunctionOnSet` is and how it changes, for any finite set |

Assumptions, each a named ASSUME of the module that declares the constant: a
total order on account ids in which every set has a least (`AccountsAssumption`
of the ledger), finitely many accounts (`FiniteAssumption`; a table has finitely
many rows, and a sum needs it), positive limits, windows and timeouts,
and a second limiter's window no shorter than GlobalLimit's, as the three
configurations have it (`UssdAssumption`), the types of the requests and of
`Room` (`RoomAssumption`), `None` not a process, a pool of at
least one connection, two kinds of calls that are disjoint, a breaker that counts
at least one request and one probe.

The arguments. *Ledger*: a transaction that has read a row under its lock may
rely on it until it ends (`Fresh`, `Written`), statement by statement
(`TransferOK`, `ReverseOK`); with `ControlOK` this makes "the balance is the last
entry's" inductive, which alone it is not, since an UPDATE writes a balance
computed from an earlier read. The refinement follows: only `Commit` changes the
tables, and what it writes is what the row then holds plus or minus the amount.
Without reversals locks are taken in ascending order, so in a set of transfers
that all wait for one another the one waiting for the greatest account would
wait for a greater one. *Callbacks*: a channel is in the map, or in the hands of
exactly one callback request, or filled, or its call is over (`WaitersFound`,
`SendersApart`); so a send never finds it full. *Exchange*: a call's stage says
where `CallbackWait` has it (`IsoInv`), so each step is one of `CallbackWait` or
leaves its variables alone; the format is the seconds' one only while some call
is between `SetFormat` and `Restore`. *Payments*: a code row's lock separates its
consumers (`CodesKept`), the unique index those of an id (`RowsOfEnded`). *Bank
transfers*: a leg is under way only if what precedes it is posted (`LegsInOrder`).
*Sessions*: a key is set once, when its login is answered (`KeysSetOnce`), so
what was removed cannot return; a late request is stopped by the session or by
the user's status (`LateRequests`); what a deletion has to end is among what its
scan found (`DeletionCovers`). *Accounts*: an unlinked row keeps its number taken
for ever (`GoneStays`), a mandate is created before the row that names it
(`MandateMade`), and the switch and the cache tell of an unverified account under
ISO 20022 only (`AnswersHonest`). *One-time codes*: a key never holds a dead code
(`KeysHoldLive`), what a DEL will find was read by its request or stored since
(`DelFinds`), and the replay key outlives the token (`ReplayHeld`). *Key store*:
what was signed, archived or published is the key in the file or gone
(`PastHeld`), and a generation that runs alone leaves a pair (`PairAlone`).

*USSD codes*: a row that is being consumed is locked by who consumes it, and a
consumed one is used (`RowsKept`); drawn digits have their row for ever, so the
same digits are refused to everybody else. *Rate limiter*: that a window admits
no more than the limit is not inductive, for a window may begin before the key
of the counter. A counter says enough of the past all the same (`CounterKept`):
the key was made at some tick c since which it has counted every pass, and what
had passed before c did so a whole window before c. That second half is what
renewing the TTL with every request gives: a key is gone only when a whole window
has passed since the last hit, so a window either holds no pass from before c or
does not reach now. A hit of the second limiter is to this argument what a
refused one is: it counts, lets nothing through, and sets a TTL of at least a
window.

*Sums.* Three of the properties are sums over a set whose size no constant
bounds. `SumFunctionOnSet` of the community modules takes its elements in an
order CHOOSE picks, and the library's induction theorems take the statement to be
proved as a parameter, which these provers cannot instantiate. `Sums` therefore
goes by a least counterexample: `Grown` and `GrownFromNothing` say, of a *set* of
subsets that holds the empty one and whatever its parts make, that it holds every
finite set, from `WFMin` and `NatLessThanWellFounded`, whose parameters are sets.
From it follow that the definition is total (`SumIsTotal`, `TotalsAgree`) and does
not depend on the order (`SumSplit`: any element may be taken last). In *Ledger*,
a commit moves an amount from one account to another, which a sum does not notice
(`SumMoves`); `BalancesFollowEntries` and `Written` say that this is what a commit
writes. A reversal that finds entries finds those of a transfer that has succeeded or
of a reversal that is recorded (`EntriesFounded`), which is what makes
`ReversedWasFounded` inductive. In
*Payments*, a balance is the opening one and the effect of the committed rows, and
what a transaction is about to write is that and the effect of its own row
(`BooksInv`, `WritesOf`).

Only model-checked: liveness (`EveryCallEnds`, `EveryoneReturns`, `AdmitsAgain`,
`EveryRequestEnds`, `EveryTransferEnds`, `EnquiriesEnd`, `OnlyRotationBlocks`),
which is out of this prover's reach, as ENABLED is; and `FirstAnswerKept`, which
holds of the correct wiring only, while the theorems are about every wiring
(`DropsExplained` says the same of the calls that are wired). Every other property
of a passing run is stated by a theorem. `UssdInv` and `BooksInv` were model-checked
on the instances of their runs before they were proved, and are not kept in them.

## 6. What was found

Violation runs, each of a property that quotes the repository:

- `callback_other_instance`: `main.go:152` gives the callback handler another
  service object than the one payments wait on, so every pacs.002 is dropped and
  every call times out.
- `iso_stamps`: conversions set and reset one package variable without a lock, so
  a message can go out with other timestamps than `iso20022_service.go:587-588`
  promises.
- `transfer_twice`: bank transfers have no idempotency key, and the row that
  would refuse a second one comes after NIBSS has posted both legs.

Disagreements the models show or follow without a run of their own:

- Ledger: Reverse locks in the order of the entries, not of the ids, against the
  comment at `ledger_service.go:145`, so a reversal and a transfer can deadlock;
  PostgreSQL aborts one of them. Reverse asks only for entries (`:101`), and those
  of a reversal are entries too (`:118`): `Reverse("X_REVERSAL")` is accepted,
  moves the money back again and records REVERSED for an id that never had a
  SUCCESS.
- Payments: the balance is compared outside the transaction that debits it
  (`qr_provider.go:85`), so two payments in flight overdraw an account. A USSD
  code is burnt by a payment that fails. A nil response is dereferenced in a
  goroutine (`provider.go:116`), outside any recoverer.
- Sessions: a consumed refresh token is put on the blacklist, which only the
  middleware reads and only for access tokens (`user_service.go:758`): it can be
  used again.
- Callbacks: `ReceivePacs002` looks up OrgnlTxId where the caller stored the
  MsgId. Any status but RJCT becomes a result
  (`iso20022_callback_handler.go:165-168`), and BankTransferProvider, which does
  not look at the status, records it and answers a success
  (`bank_transfer_provider.go:161-216`): a payment that is PDNG too, where
  `docs/ISO20022_README.md:181-183` has PDNG still processing and whatever is not
  ACSC or ACCP an error. Only the settlement path refuses those
  (`SendToSettlement`). Name enquiries over ISO 20022 wait on an object of
  NIBSSClient's own (`nibss_client.go:103`), the handler has another
  (`main.go:151`), and the two switches that turn it on have different names.
  `docs/ISO20022_README.md:118` allows raw
  XML, but `decryptBody` lets the JSON decoder consume its first 512 bytes.
  `VerifyAndOpenXML` checks the signature with the service's own public key.
  admi.002 is not authenticated. Inbound pacs.008 and pacs.028 are confirmed and
  only logged. The settlement endpoint always fails: its service has no client.
  The breaker counts refused business requests as failures, for payments and
  enquiries together.
- Limits: the comment of `increment` has the TTL set on first access, the code
  renews it with every request (`ratelimit.go:88`). `ratelimit.go:40` calls
  GlobalLimit the limit of "all other routes", but `main.go:220` puts it before
  every route. With AuthStrict or AuthGeneral on the same key each login counts
  twice, so only two quick ones get through where `main.go:298` promises five;
  and as GlobalLimit's INCR cuts the TTL to its minute, also when it refuses, many
  more than five get through in 15 minutes. `UssdCode` has these behaviours
  (with `AuthLimit` 2 and `AuthWindow` 5, three logins are served within two
  ticks); the property is about GlobalLimit's own limit, which is kept.
  `docs/PAYMENT_QUICK_REFERENCE.md:191` says 10 USSD codes per hour, the default
  is 5, and requests under way together pass the check anyhow
  (`ussd_service.go:158`). `main.go` builds no USSDService, so both USSD handlers
  of AccountService panic.
- Key store: `docs/HSM_SECURITY.md:10` promises automatic rotation, `:16` a manual
  one; nothing calls RotateKeys, and the first call would lock the store for good (`hsm.go:617`).
- Accounts: over ISO 20022 the name of an unverified account is cached and then
  believed (`name_enquiry.go:218`); a failed INSERT leaves a mandate at NIBSS.
- Codes: ResetPassword knows the user by the digits alone
  (`user_service.go:954-999`). If two users hold equal digits, a request changes
  the password, and deletes the code, of whichever its scan comes to.
  `DeletedByUse` says what is left: the code deleted is the one whose digits were
  found equal, or one stored since for its user. The EMVCo text GenerateQRCode answers is never readable to
  ProcessQRCode, whose `parseTag26` compares seven characters with six.
- Users and merchants: RegisterNewUser's query has no final SELECT, so every
  registration is answered a conflict; OnboardMerchant inserts a status the CHECK
  of migration 021 refuses.

## 7. Not modelled

- `docs/docs.go` (3 812 lines, generated) and `services/iso8583_service_old.go`
  (557 lines, commented out), which is a fifth of the lines; models,
  configuration, logging, response and validation helpers.
- Code no request reaches: the card provider and the ISO 8583 switch behind it
  (HandlePayment refuses the body of every card payment), `NIBSSClient`'s BVN and
  mandate calls, the transaction status query, vouchers, `RotateRefreshToken`,
  three of the four breakers.
- Handlers of one statement, or that only read: merchants (whose INSERT is always
  refused, so there is never one), feedback, beneficiaries, banks, QR landing,
  health; UpdateUserLimits, whose limits are only shown; RegisterNewUser, as
  above.
- Notifications and mail: sent from goroutines whose outcome nothing reads.
- Cryptography, message formats and wording; the HTTP layer beyond the refusals
  that matter. `models.PaymentRequest` versus the providers' types is modelled
  only as which modes are accepted. Amounts are integers without overflow: they
  are int64 kobo and nothing multiplies them.

The reasons per component are in `PROJECT.json`.

## 8. Plan

Done, in this order: `Ledger` with its specification and proofs, `CallbackWait`,
`WalletPayment`, `BankTransfer`, `Session`, `OneTimeCode`, `Accounts`,
`KeyStore`, `IsoExchange`, `UssdCode`. What could follow:

1. `BankTransfer` over the ISO 20022 switch, composed with `IsoExchange`, where a
   timeout says nothing about what NIBSS did.
2. The codes of `OneTimeCode` and `UssdCode` composed with `WalletPayment`: a
   payment whose token expires between its validation and its COMMIT.
3. Cards and merchants, once the server can reach them.

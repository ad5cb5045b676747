------------------------------- MODULE Accounts -------------------------------
(***************************************************************************)
(* The accounts users link and what is asked about them: LinkAccount,      *)
(* UnlinkAccount, AccountNameEnquiry, AccountBalanceEnquiry,               *)
(* GetVirtualAccount and GetDebitAccountInfo of account_service.go, with   *)
(* EnquireName of name_enquiry.go, its cache in Redis, the mandates        *)
(* created at NIBSS and the balance enquiries run in parallel.             *)
(*                                                                         *)
(* An account is asked about by number and bank; a row of the accounts     *)
(* table is found by its number alone, which is UNIQUE.  Any query or call *)
(* may fail.  Time is two events, the TTL of a cached name running out and *)
(* the hour of a virtual account passing.                                  *)
(***************************************************************************)
EXTENDS Naturals, FiniteSets

CONSTANTS
  Users, Numbers,
  Places,       \* the accounts there are to ask about: [number, bank]
  Verified,     \* those NIBSS vouches for
  Holder,       \* the BVN of an account's holder
  BVN,          \* the BVN of a user; None if the users table has none
  Seeded,       \* rows there are from the start: number -> [user, bank],
                \* with bank None for a wallet of the system
  Requests,
  None

Banks  == {p.bank : p \in Places}
Row    == [user : Users, bank : Banks \cup {None}, mandate : Requests \cup {None},
           active : BOOLEAN]
Cached == [verified : BOOLEAN, bvn : BOOLEAN, ttl : BOOLEAN]
Name   == [verified : BOOLEAN, bvn : BOOLEAN, from : {"cache", "switch"}]

ASSUME AccountsAssumption ==
  /\ Places \subseteq [number : Numbers, bank : Banks]
  /\ Verified \subseteq Places
  /\ DOMAIN Seeded \subseteq Numbers
  /\ \A n \in DOMAIN Seeded : Seeded[n] \in [user : Users, bank : Banks \cup {None}]
  /\ None \notin Requests \cup Users \cup Numbers \cup Banks
  /\ None \notin Row /\ None \notin Name

VARIABLES
  iso,       \* useNIBSSISOzNIPSwitch: which EnquireName was constructed
  row,       \* accounts: [user, bank, mandate, active], or None
  cache,     \* the name cached for a place: [verified, bvn, ttl], or None
  va,        \* numbers with a virtual account: "fresh", "over" or None
  mandates,  \* requests NIBSS created a mandate for
  pc, kind, who, place,
  name,      \* what EnquireName found: [verified, bvn, from]
  rows,      \* AccountBalanceEnquiry: the numbers of the rows read
  running,   \* its goroutines
  sent,      \* their results in the channel
  live,      \* the balances received: nipBalances
  gone,      \* history: numbers whose account was unlinked when it began
  unset      \* history: places whose EXPIRE failed or was never called

store   == <<row, cache, va, mandates, unset>>
asked   == <<kind, who, place, gone, iso>>
balance == <<rows, running, sent, live>>
vars    == <<store, asked, balance, pc, name>>

Kinds  == {"link", "unlink", "enquire", "balance", "virtual", "debit"}
Ends   == {"linked", "unlinked", "virtual", "local", "named", "balances", "stored",
           "debited", "failed", "lost"}

TypeOK ==
  /\ iso      \in BOOLEAN
  /\ row      \in [Numbers -> Row \cup {None}]
  /\ cache    \in [Places -> Cached \cup {None}]
  /\ va       \in [Numbers -> {"fresh", "over", None}]
  /\ mandates \in SUBSET Requests
  /\ pc       \in [Requests -> {"idle", "check", "va", "row", "cache", "ask", "put",
                                "expire", "mandate", "insert", "unlink", "rows",
                                "gather", "store", "debit"} \cup Ends]
  /\ kind     \in [Requests -> Kinds \cup {None}]
  /\ who      \in [Requests -> Users \cup {None}]
  /\ place    \in [Requests -> Places \cup {None}]
  /\ name     \in [Requests -> Name \cup {None}]
  /\ rows     \in [Requests -> SUBSET Numbers]
  /\ running  \in [Requests -> SUBSET Numbers]
  /\ sent     \in [Requests -> SUBSET (Numbers \X BOOLEAN)]
  /\ live     \in [Requests -> SUBSET (Numbers \X BOOLEAN)]
  /\ gone     \in [Requests -> SUBSET Numbers]
  /\ unset    \in SUBSET Places

Init ==
  /\ iso      \in BOOLEAN
  /\ row      = [n \in Numbers |->
                   IF n \in DOMAIN Seeded
                   THEN [user |-> Seeded[n].user, bank |-> Seeded[n].bank,
                         mandate |-> None, active |-> TRUE]
                   ELSE None]
  /\ cache    = [p \in Places |-> None]
  /\ va       = [n \in Numbers |-> None]
  /\ mandates = {}
  /\ pc       = [r \in Requests |-> "idle"]
  /\ kind     = [r \in Requests |-> None]
  /\ who      = [r \in Requests |-> None]
  /\ place    = [r \in Requests |-> None]
  /\ name     = [r \in Requests |-> None]
  /\ rows     = [r \in Requests |-> {}]
  /\ running  = [r \in Requests |-> {}]
  /\ sent     = [r \in Requests |-> {}]
  /\ live     = [r \in Requests |-> {}]
  /\ gone     = [r \in Requests |-> {}]
  /\ unset    = {}

Goto(r, l) == pc' = [pc EXCEPT ![r] = l]
Number(r)  == place[r].number
Active(n)  == row[n] # None /\ row[n].active
Unlinked   == {n \in Numbers : row[n] # None /\ ~row[n].active}

-----------------------------------------------------------------------------
(* Requests come, fail, and are cut short                                  *)

Begin(r, k, u, p) ==
  /\ pc[r] = "idle"
  /\ kind'  = [kind EXCEPT ![r] = k]
  /\ who'   = [who EXCEPT ![r] = IF k \in {"link", "unlink", "balance"} THEN u ELSE None]
  /\ place' = [place EXCEPT ![r] = IF k \in {"balance", "virtual"} THEN None ELSE p]
  /\ gone'  = [gone EXCEPT ![r] = Unlinked]
  /\ Goto(r, CASE k = "link" -> "check"    [] k = "enquire" -> "va"
               [] k = "unlink" -> "unlink" [] k = "balance" -> "rows"
               [] k = "virtual" -> "store" [] k = "debit" -> "debit")
  /\ UNCHANGED <<iso, store, balance, name>>

\* A query or a call fails, and the request is answered an error.
Fails(r) ==
  /\ pc[r] \in {"check", "ask", "insert", "unlink", "rows", "store", "debit"}
  /\ Goto(r, "failed")
  /\ UNCHANGED <<store, asked, balance, name>>

\* The server stops while it works on the request.
Lost(r) ==
  /\ pc[r] \notin Ends \cup {"idle"}
  /\ Goto(r, "lost")
  /\ unset' = IF pc[r] = "expire" THEN unset \cup {place[r]} ELSE unset
  /\ UNCHANGED <<row, cache, va, mandates, asked, balance, name>>

-----------------------------------------------------------------------------
(* EnquireName                                                             *)

\* LinkAccount compares the BVN when both are known; the others answer.
Enquired(r, e) ==
  /\ name' = [name EXCEPT ![r] = e]
  /\ Goto(r, IF kind[r] = "enquire" THEN "named"
             ELSE IF e.bvn /\ BVN[who[r]] # None /\ BVN[who[r]] # Holder[place[r]]
             THEN "failed" ELSE "mandate")

FromCache(r) ==
  LET c == cache[place[r]]
  IN  [verified |-> c.verified, bvn |-> c.bvn, from |-> "cache"]

\* cachedNameEnquiry finds the hash,
CacheHit(r) ==
  /\ pc[r] = "cache" /\ cache[place[r]] # None
  /\ Enquired(r, FromCache(r))
  /\ UNCHANGED <<store, asked, balance>>

\* or finds none, or fails.
CacheMiss(r) ==
  /\ pc[r] = "cache"
  /\ Goto(r, "ask")
  /\ UNCHANGED <<store, asked, balance, name>>

\* NIP is answered "00" only for an account NIBSS vouches for, with its BVN;
\* an acmt.024 comes for any, and without a BVN.
Ask(r) ==
  /\ pc[r] = "ask"
  /\ iso \/ place[r] \in Verified
  /\ name' = [name EXCEPT ![r] = [verified |-> place[r] \in Verified, bvn |-> ~iso,
                                  from |-> "switch"]]
  /\ Goto(r, "put")
  /\ UNCHANGED <<store, asked, balance>>

\* Fault: nobody looks at Verified.
ResolvedUnseen(r) == Enquired(r, name[r])

\* The end of EnquireName: only ISO20022NameEnquiry looks at Verified here.
Resolved(r) ==
  IF name[r].verified THEN Enquired(r, name[r])
  ELSE Goto(r, "failed") /\ UNCHANGED name

\* HSET; on a hash that is there it changes the fields and keeps the TTL.
\* ISO20022NameEnquiry does this before it looks at Verified.
Put(r) ==
  LET p == place[r]
  IN  /\ pc[r] = "put"
      /\ cache' = [cache EXCEPT ![p] =
                     [verified |-> name[r].verified, bvn |-> name[r].bvn,
                      ttl |-> cache[p] # None /\ cache[p].ttl]]
      /\ Goto(r, "expire")
      /\ UNCHANGED <<row, va, mandates, unset, asked, balance, name>>

PutFails(r) ==
  /\ pc[r] = "put"
  /\ Resolved(r)
  /\ UNCHANGED <<store, asked, balance>>

\* EXPIRE, a command of its own whose error is not looked at; it does nothing
\* for a key that has gone.
Expire(r) ==
  LET p == place[r]
  IN  /\ pc[r] = "expire"
      /\ \/ /\ cache' = IF cache[p] = None THEN cache ELSE [cache EXCEPT ![p].ttl = TRUE]
            /\ UNCHANGED unset
         \/ unset' = unset \cup {p} /\ UNCHANGED cache
      /\ Resolved(r)
      /\ UNCHANGED <<row, va, mandates, asked, balance>>

\* The TTL of a cached name runs out, also before HSET's own EXPIRE.
CacheExpires(p) ==
  /\ cache[p] # None /\ cache[p].ttl
  /\ cache' = [cache EXCEPT ![p] = None]
  /\ UNCHANGED <<row, va, mandates, unset, pc, asked, balance, name>>

-----------------------------------------------------------------------------
(* LinkAccount                                                             *)

\* Not linked to this user at this bank.
Check(r) ==
  /\ pc[r] = "check"
  /\ ~ /\ Active(Number(r))
       /\ row[Number(r)].user = who[r] /\ row[Number(r)].bank = place[r].bank
  /\ Goto(r, "cache")
  /\ UNCHANGED <<store, asked, balance, name>>

\* ExecuteMandateAdvice: NIBSS has the mandate if it answers so, and perhaps
\* if its answer is lost.
MandateAdvice(r, answered) ==
  mandates' \in {mandates \cup {r}} \cup (IF answered THEN {} ELSE {mandates})

CreateMandate(r) ==
  /\ pc[r] = "mandate"
  /\ \/ MandateAdvice(r, TRUE)  /\ Goto(r, "insert")
     \/ MandateAdvice(r, FALSE) /\ Goto(r, "failed")
  /\ UNCHANGED <<row, cache, va, unset, asked, balance, name>>

Linked(r) == [row EXCEPT ![Number(r)] =
                [user |-> who[r], bank |-> place[r].bank, mandate |-> r, active |-> TRUE]]

\* Fault: ON CONFLICT (account_id) DO UPDATE.
InsertOrUpdate(r) ==
  /\ pc[r] = "insert"
  /\ row' = Linked(r)
  /\ Goto(r, "linked")
  /\ UNCHANGED <<cache, va, mandates, unset, asked, balance, name>>

\* The INSERT; account_id is UNIQUE, and a row is never deleted.
Insert(r) ==
  /\ pc[r] = "insert" /\ row[Number(r)] = None
  /\ row' = Linked(r)
  /\ Goto(r, "linked")
  /\ UNCHANGED <<cache, va, mandates, unset, asked, balance, name>>

-----------------------------------------------------------------------------
(* UnlinkAccount, GetVirtualAccount, GetDebitAccountInfo                   *)

\* The status becomes 0; the row stays.
Unlink(r) ==
  /\ pc[r] = "unlink"
  /\ row[Number(r)] # None /\ row[Number(r)].user = who[r]
  /\ row' = [row EXCEPT ![Number(r)].active = FALSE]
  /\ Goto(r, "unlinked")
  /\ UNCHANGED <<cache, va, mandates, unset, asked, balance, name>>

\* The number is drawn at random and not looked up anywhere.
StoreVirtual(r) ==
  /\ pc[r] = "store"
  /\ \E n \in Numbers : va' = [va EXCEPT ![n] = "fresh"]
  /\ Goto(r, "stored")
  /\ UNCHANGED <<row, cache, mandates, unset, asked, balance, name>>

\* expiresAt passes, and then the key goes.
VirtualAges(n) ==
  /\ va[n] # None
  /\ va' = [va EXCEPT ![n] = IF va[n] = "fresh" THEN "over" ELSE None]
  /\ UNCHANGED <<row, cache, mandates, unset, pc, asked, balance, name>>

\* Fault: the status is not asked for.
DebitAnyRow(r) ==
  /\ pc[r] = "debit" /\ row[Number(r)] # None
  /\ Goto(r, "debited")
  /\ UNCHANGED <<store, asked, balance, name>>

\* FundTransferService reads the account it debits.
DebitInfo(r) ==
  /\ pc[r] = "debit" /\ Active(Number(r))
  /\ Goto(r, "debited")
  /\ UNCHANGED <<store, asked, balance, name>>

-----------------------------------------------------------------------------
(* AccountNameEnquiry                                                      *)

\* ValidateVirtualAccount; an error of GET counts as none.
VirtualFound(r) ==
  /\ pc[r] = "va" /\ va[Number(r)] = "fresh"
  /\ Goto(r, "virtual")
  /\ UNCHANGED <<store, asked, balance, name>>

VirtualMissing(r) ==
  /\ pc[r] = "va"
  /\ Goto(r, "row")
  /\ UNCHANGED <<store, asked, balance, name>>

\* The row of that number, whatever the bank asked about.
RowFound(r) ==
  /\ pc[r] = "row" /\ row[Number(r)] # None
  /\ Goto(r, IF row[Number(r)].active THEN "local" ELSE "failed")
  /\ UNCHANGED <<store, asked, balance, name>>

\* No row, or the query fails; and no bank was given, or it is asked.
RowMissing(r) ==
  /\ pc[r] = "row"
  /\ Goto(r, "cache") \/ Goto(r, "failed")
  /\ UNCHANGED <<store, asked, balance, name>>

-----------------------------------------------------------------------------
(* AccountBalanceEnquiry                                                   *)

External(S) == {n \in S : row[n].bank # None}

\* The rows are read, and a goroutine started for each account at a bank.
ReadRows(r) ==
  LET mine == {n \in Numbers : Active(n) /\ row[n].user = who[r]}
  IN  /\ pc[r] = "rows"
      /\ rows'    = [rows EXCEPT ![r] = mine]
      /\ running' = [running EXCEPT ![r] = External(mine)]
      /\ Goto(r, "gather")
      /\ UNCHANGED <<store, asked, sent, live, name>>

\* ExecuteBalanceEnquiry answers about the account, or fails.
BalanceAdvice(n) == {<<n, TRUE>>, <<n, FALSE>>}

\* Fault: nothing is sent for an enquiry that fails.
BalanceOrNothing(r, n) ==
  /\ pc[r] = "gather" /\ n \in running[r]
  /\ running' = [running EXCEPT ![r] = @ \ {n}]
  /\ sent' \in {sent, [sent EXCEPT ![r] = @ \cup {<<n, TRUE>>}]}
  /\ UNCHANGED <<store, asked, rows, live, pc, name>>

\* The result of GetBalance goes into the buffered channel.
Balance(r, n) ==
  /\ pc[r] = "gather" /\ n \in running[r]
  /\ running' = [running EXCEPT ![r] = @ \ {n}]
  /\ \E b \in BalanceAdvice(n) : sent' = [sent EXCEPT ![r] = @ \cup {b}]
  /\ UNCHANGED <<store, asked, rows, live, pc, name>>

\* The handler waits for as many results as it started goroutines.
Receive(r) ==
  /\ pc[r] = "gather"
  /\ \E x \in sent[r] : /\ sent' = [sent EXCEPT ![r] = @ \ {x}]
                        /\ live' = [live EXCEPT ![r] = @ \cup {x}]
  /\ UNCHANGED <<store, asked, rows, running, pc, name>>

Reply(r) ==
  /\ pc[r] = "gather"
  /\ Cardinality(live[r]) = Cardinality(External(rows[r]))
  /\ Goto(r, "balances")
  /\ UNCHANGED <<store, asked, balance, name>>

-----------------------------------------------------------------------------
EnquireName(r) ==
  CacheHit(r) \/ CacheMiss(r) \/ Ask(r) \/ Put(r) \/ PutFails(r) \/ Expire(r)

Handler(r) ==
  \/ EnquireName(r) \/ Fails(r)
  \/ Check(r) \/ CreateMandate(r) \/ Insert(r)
  \/ Unlink(r) \/ StoreVirtual(r) \/ DebitInfo(r)
  \/ VirtualFound(r) \/ VirtualMissing(r) \/ RowFound(r) \/ RowMissing(r)
  \/ ReadRows(r) \/ Receive(r) \/ Reply(r)

Next ==
  \/ \E r \in Requests, k \in Kinds, u \in Users, p \in Places : Begin(r, k, u, p)
  \/ \E r \in Requests : Handler(r) \/ Lost(r)
  \/ \E r \in Requests, n \in Numbers : Balance(r, n)
  \/ \E p \in Places : CacheExpires(p)
  \/ \E n \in Numbers : VirtualAges(n)

Spec == Init /\ [][Next]_vars

\* Every call of a handler has a timeout (the client's, Redis's, the
\* request's context), so that it goes on.
FairSpec ==
  /\ Spec
  /\ \A r \in Requests : WF_vars(Handler(r))
  /\ \A r \in Requests, n \in Numbers : WF_vars(Balance(r, n))

-----------------------------------------------------------------------------
(* Properties                                                              *)

\* A LinkAccount answered "Account Linked Successfully" is what the row says,
\* with the mandate this request had created, whoever else was linking that
\* number, at whichever bank (account_service.go:150-181).
LinkAnswerTrue ==
  \A r \in Requests : pc[r] = "linked" =>
    LET a == row[Number(r)]
    IN  /\ a # None /\ r \in mandates
        /\ a.mandate = r /\ a.user = who[r] /\ a.bank = place[r].bank

\* Nothing that begins after an account was unlinked links it again, names it
\* from its row, reports its balance or debits it: the row UnlinkAccount
\* leaves behind keeps its number taken (account_service.go:210).
NothingOfUnlinked ==
  \A r \in Requests :
    /\ pc[r] \in {"linked", "local", "debited"} => Number(r) \notin gone[r]
    /\ pc[r] = "balances" => rows[r] \cap gone[r] = {}

\* A name is answered or linked by only if NIBSS vouched for the account,
\* except that ISO20022NameEnquiry also caches what it is told of an account
\* that is not, and the next enquiry believes the cache (name_enquiry.go:218).
NameVouched ==
  \A r \in Requests :
    pc[r] \in {"named", "mandate", "insert", "linked"} =>
      name[r].verified \/ (iso /\ name[r].from = "cache")

\* Under NIP nobody links the account of a holder with another BVN, whether
\* the name came from NIBSS or from the cache (account_service.go:144).
LinkedByHolder ==
  ~iso => \A r \in Requests : pc[r] = "linked" =>
            BVN[who[r]] \in {None, Holder[place[r]]}

\* A cached name stays for ever only when its EXPIRE failed or was never
\* called; until then its writer is still to call it (name_enquiry.go:121).
NameExpires ==
  \A p \in Places : cache[p] # None /\ ~cache[p].ttl =>
    p \in unset \/ \E r \in Requests : pc[r] = "expire" /\ place[r] = p

\* Every request is answered, a balance enquiry too whose calls to NIBSS
\* fail: each goroutine sends one result (account_service.go:435-454).
EnquiriesEnd == \A r \in Requests : pc[r] # "idle" ~> pc[r] \in Ends

-----------------------------------------------------------------------------
(* What the handlers keep between them                                     *)

Asking == {"cache", "ask", "put", "expire"}

\* A request is where its kind leads it, about an account and for a user.
Placed ==
  \A r \in Requests :
    /\ pc[r] = "idle" => rows[r] = {}
    /\ pc[r] \in Asking => kind[r] \in {"link", "enquire"}
    /\ pc[r] \in Asking \cup {"check", "va", "row", "named", "mandate", "insert", "linked",
                           "unlink", "local", "debit", "debited"} => place[r] \in Places
    /\ pc[r] \in {"va", "row"} => kind[r] = "enquire"
    /\ pc[r] \in {"check", "mandate", "insert", "linked"} => kind[r] = "link"
    /\ pc[r] # "idle" /\ kind[r] \in {"link", "unlink"} => who[r] \in Users
    /\ pc[r] \in {"put", "expire", "named", "mandate", "insert", "linked"} => name[r] # None
    /\ pc[r] \in {"put", "expire"} => name[r].from = "switch"

\* An unlinked account has a row, and it stays unlinked; nothing read it.
GoneStays ==
  \A r \in Requests : gone[r] \subseteq Unlinked /\ rows[r] \cap gone[r] = {}

\* The switch and the cache tell of an unverified account under ISO 20022
\* only, and under NIP always with the BVN.
AnswersHonest ==
  /\ \A p \in Places : cache[p] # None /\ ~iso => cache[p].verified /\ cache[p].bvn
  /\ \A r \in Requests :
       /\ pc[r] \in {"put", "expire"} => iso \/ (name[r].verified /\ name[r].bvn)
       /\ pc[r] \in {"mandate", "insert", "linked"} /\ ~iso
             => BVN[who[r]] \in {None, Holder[place[r]]}

MandateMade == \A r \in Requests : pc[r] = "insert" => r \in mandates

\* The accounts, the cache and the requests agree, whatever overlaps: who
\* may link, what was vouched for, which mandate was made and what is gone
\* stay true from one call of a handler to the next.
AccountsInv ==
  /\ TypeOK /\ Placed /\ GoneStays /\ AnswersHonest /\ MandateMade
  /\ LinkAnswerTrue /\ NothingOfUnlinked /\ NameVouched /\ LinkedByHolder /\ NameExpires

=============================================================================

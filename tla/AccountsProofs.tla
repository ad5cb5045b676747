--------------------------- MODULE AccountsProofs ----------------------------
(***************************************************************************)
(* Accounts, for any users, accounts and requests: what a link was         *)
(* answered is so, nothing of an unlinked account comes back, and a name   *)
(* is believed as far as it was vouched for.                               *)
(***************************************************************************)
EXTENDS Accounts, TLAPS

Labels == {"idle", "check", "va", "row", "cache", "ask", "put", "expire", "mandate",
           "insert", "unlink", "rows", "gather", "store", "debit"} \cup Ends

\* An account that is asked about has a number.
LEMMA Numbered ==
  ASSUME NEW r \in Requests, place[r] \in Places
  PROVE  Number(r) \in Numbers /\ place[r].bank \in Banks
BY AccountsAssumption DEF Number

\* The initial states keep the invariant.
LEMMA Initially == Init => AccountsInv
<1> SUFFICES ASSUME Init PROVE AccountsInv
  OBVIOUS
<1>1. row \in [Numbers -> Row \cup {None}]
  <2> SUFFICES ASSUME NEW n \in Numbers PROVE row[n] \in Row \cup {None}
    BY DEF Init
  <2> QED BY AccountsAssumption DEF Init, Row
<1>2. TypeOK
  BY <1>1 DEF Init, TypeOK, Ends
<1> QED
  BY <1>2 DEF Init, AccountsInv, Placed, GoneStays, AnswersHonest, MandateMade,
       LinkAnswerTrue, NothingOfUnlinked, NameVouched, LinkedByHolder, NameExpires, Asking

\* What a request may do next at the label q, the tables as they are.
MayGo(r, q) ==
  /\ q \in {"va", "row"} => kind[r] = "enquire"
  /\ q \in {"check", "mandate", "insert"} => kind[r] = "link"
  /\ q \in Asking => kind[r] \in {"link", "enquire"}
  /\ q \in Asking \cup {"check", "va", "row", "named", "mandate", "insert", "unlink",
                        "local", "debit", "debited"} => place[r] \in Places
  /\ q \in {"named", "mandate", "insert"} =>
       name[r] # None /\ (name[r].verified \/ (iso /\ name[r].from = "cache"))
  /\ q \in {"mandate", "insert"} /\ ~iso => BVN[who[r]] \in {None, Holder[place[r]]}
  /\ q = "insert" => r \in mandates
  /\ q \in {"local", "debited"} => Number(r) \notin gone[r]

\* A request moves on, and nothing else changes.
LEMMA Moves ==
  ASSUME AccountsInv, NEW r \in Requests, pc[r] \notin {"idle", "expire"},
         NEW q \in Labels \ {"idle", "put", "expire", "linked"},
         pc' = [pc EXCEPT ![r] = q], UNCHANGED <<store, asked, balance, name>>,
         MayGo(r, q)
  PROVE  AccountsInv'
<1> USE DEF AccountsInv, store, asked, balance
<1>1. TypeOK'
  BY DEF TypeOK, Labels
<1>2. \A x \in Requests : pc'[x] = IF x = r THEN q ELSE pc[x]
  BY DEF TypeOK
<1>3. Placed'
  BY <1>2 DEF Placed, MayGo, Asking
<1>4. GoneStays' /\ MandateMade' /\ AnswersHonest'
  BY <1>2 DEF GoneStays, Unlinked, MandateMade, AnswersHonest, MayGo
<1>5. LinkAnswerTrue' /\ NothingOfUnlinked'
  BY <1>2 DEF LinkAnswerTrue, NothingOfUnlinked, GoneStays, Number, MayGo
<1>6. NameVouched' /\ LinkedByHolder'
  BY <1>2 DEF NameVouched, LinkedByHolder, MayGo
<1>7. NameExpires'
  BY <1>2 DEF NameExpires
<1> QED BY <1>1, <1>3, <1>4, <1>5, <1>6, <1>7

-----------------------------------------------------------------------------
(* Requests come, fail, and are cut short                                  *)

LEMMA BeginStep ==
  ASSUME AccountsInv, NEW r \in Requests, NEW k \in Kinds, NEW u \in Users, NEW p \in Places,
         Begin(r, k, u, p)
  PROVE  AccountsInv'
<1> USE DEF AccountsInv, store, balance, Begin
<1>1. PICK q \in {"check", "va", "unlink", "rows", "store", "debit"} :
         /\ pc' = [pc EXCEPT ![r] = q]
         /\ q = "check" => k = "link"
         /\ q = "va" => k = "enquire"
         /\ q \in {"rows", "store"} <=> k \in {"balance", "virtual"}
  <2>1. /\ k = "link"    => pc' = [pc EXCEPT ![r] = "check"]
        /\ k = "enquire" => pc' = [pc EXCEPT ![r] = "va"]
        /\ k = "unlink"  => pc' = [pc EXCEPT ![r] = "unlink"]
        /\ k = "balance" => pc' = [pc EXCEPT ![r] = "rows"]
        /\ k = "virtual" => pc' = [pc EXCEPT ![r] = "store"]
        /\ k = "debit"   => pc' = [pc EXCEPT ![r] = "debit"]
    BY DEF Goto
  <2>2. k \in {"link", "unlink", "enquire", "balance", "virtual", "debit"}
    BY DEF Kinds
  <2> HIDE DEF Begin, AccountsInv
  <2> QED BY <2>1, <2>2
<1>2. TypeOK'
  BY <1>1 DEF TypeOK, Unlinked
<1>3. \A x \in Requests :
        /\ pc'[x] = IF x = r THEN q ELSE pc[x]
        /\ kind'[x] = IF x = r THEN k ELSE kind[x]
        /\ gone'[x] = IF x = r THEN Unlinked ELSE gone[x]
        /\ x # r => who'[x] = who[x] /\ place'[x] = place[x]
        /\ x = r /\ k \in {"link", "unlink", "balance"} => who'[x] = u
        /\ x = r /\ k \notin {"balance", "virtual"} => place'[x] = p
  BY <1>1 DEF TypeOK
<1>4. Placed'
  BY <1>1, <1>3 DEF Placed, Asking
<1>5. GoneStays' /\ MandateMade' /\ AnswersHonest'
  BY <1>1, <1>3 DEF GoneStays, Unlinked, MandateMade, AnswersHonest, Placed, Asking
<1>6. LinkAnswerTrue' /\ NothingOfUnlinked'
  BY <1>1, <1>3 DEF LinkAnswerTrue, NothingOfUnlinked, Number
<1>7. NameVouched' /\ LinkedByHolder'
  BY <1>1, <1>3 DEF NameVouched, LinkedByHolder
<1>8. NameExpires'
  BY <1>1, <1>3 DEF NameExpires
<1> QED BY <1>2, <1>4, <1>5, <1>6, <1>7, <1>8

LEMMA FailsStep ==
  ASSUME AccountsInv, NEW r \in Requests, Fails(r)
  PROVE  AccountsInv'
<1>1. MayGo(r, "failed")
  BY DEF MayGo, Asking
<1> QED BY <1>1, Moves DEF Fails, Goto, Labels, Ends

LEMMA LostStep ==
  ASSUME AccountsInv, NEW r \in Requests, Lost(r)
  PROVE  AccountsInv'
<1>1. CASE pc[r] # "expire"
  <2>1. MayGo(r, "lost")
    BY DEF MayGo, Asking
  <2> QED BY <1>1, <2>1, Moves DEF Lost, Goto, Labels, Ends, store
<1>2. CASE pc[r] = "expire"
  <2> USE DEF AccountsInv, asked, balance
  <2>1. pc' = [pc EXCEPT ![r] = "lost"] /\ unset' = unset \cup {place[r]} /\ place[r] \in Places
        /\ UNCHANGED <<row, cache, va, mandates, asked, balance, name>>
    BY <1>2 DEF Lost, Goto, Placed, Asking
  <2>2. TypeOK'
    BY <2>1 DEF TypeOK, Ends
  <2>3. \A x \in Requests : pc'[x] = IF x = r THEN "lost" ELSE pc[x]
    BY <2>1 DEF TypeOK
  <2>7. Placed'
    BY <1>2, <2>1, <2>3 DEF Placed, Asking
  <2>4. GoneStays' /\ MandateMade' /\ AnswersHonest'
    BY <2>1, <2>3 DEF GoneStays, Unlinked, MandateMade, AnswersHonest
  <2>5. LinkAnswerTrue' /\ NothingOfUnlinked' /\ NameVouched' /\ LinkedByHolder'
    BY <2>1, <2>3 DEF LinkAnswerTrue, NothingOfUnlinked, NameVouched, LinkedByHolder, Number
  <2>6. NameExpires'
    BY <2>1, <2>3 DEF NameExpires
  <2> QED BY <2>2, <2>4, <2>5, <2>6, <2>7
<1> QED BY <1>1, <1>2

LEMMA TimeStep ==
  ASSUME AccountsInv,
         (\E p \in Places : CacheExpires(p)) \/ (\E n \in Numbers : VirtualAges(n))
  PROVE  AccountsInv'
<1> USE DEF AccountsInv, asked, balance, CacheExpires, VirtualAges
<1>1. TypeOK'
  BY DEF TypeOK
<1>2. UNCHANGED <<row, mandates, unset, pc, asked, balance, name>>
      /\ \A p \in Places : cache'[p] \in {cache[p], None}
  BY DEF TypeOK
<1>3. Placed' /\ GoneStays' /\ MandateMade' /\ AnswersHonest'
  BY <1>2 DEF Placed, GoneStays, Unlinked, MandateMade, AnswersHonest
<1>4. LinkAnswerTrue' /\ NothingOfUnlinked' /\ NameVouched' /\ LinkedByHolder'
  BY <1>2 DEF LinkAnswerTrue, NothingOfUnlinked, NameVouched, LinkedByHolder, Number
<1>5. NameExpires'
  BY <1>2 DEF NameExpires
<1> QED BY <1>1, <1>3, <1>4, <1>5

-----------------------------------------------------------------------------
(* EnquireName                                                             *)

\* What was found is answered, or leads on to the mandate.
LEMMA Finds ==
  ASSUME AccountsInv, NEW r \in Requests, pc[r] \in {"cache", "put"},
         NEW e \in Name, Enquired(r, e), UNCHANGED <<store, asked, balance>>,
         e.verified \/ (iso /\ e.from = "cache"), iso \/ e.bvn
  PROVE  AccountsInv'
<1> USE DEF AccountsInv, store, asked, balance
<1>1. kind[r] \in {"link", "enquire"} /\ place[r] \in Places
  BY DEF Placed, Asking
<1>2. PICK q \in {"named", "failed", "mandate"} :
        /\ pc' = [pc EXCEPT ![r] = q]
        /\ q = "mandate" => kind[r] = "link" /\
             (~iso => BVN[who[r]] \in {None, Holder[place[r]]})
  BY <1>1 DEF Enquired, Goto
<1>3. name' = [name EXCEPT ![r] = e]
  BY DEF Enquired
<1>4. TypeOK'
  BY <1>2, <1>3 DEF TypeOK, Ends
<1>5. \A x \in Requests : /\ pc'[x] = IF x = r THEN q ELSE pc[x]
                          /\ name'[x] = IF x = r THEN e ELSE name[x]
  BY <1>2, <1>3 DEF TypeOK
<1>6. e # None
  BY AccountsAssumption
<1>7. Placed'
  BY <1>1, <1>2, <1>5, <1>6 DEF Placed, Asking
<1>8. GoneStays' /\ MandateMade' /\ AnswersHonest'
  BY <1>2, <1>5 DEF GoneStays, Unlinked, MandateMade, AnswersHonest
<1>9. LinkAnswerTrue' /\ NothingOfUnlinked' /\ NameVouched' /\ LinkedByHolder'
  BY <1>2, <1>5 DEF LinkAnswerTrue, NothingOfUnlinked, NameVouched, LinkedByHolder, Number
<1>10. NameExpires'
  BY <1>2, <1>5 DEF NameExpires
<1> QED BY <1>4, <1>7, <1>8, <1>9, <1>10

LEMMA CacheStep ==
  ASSUME AccountsInv, NEW r \in Requests, CacheHit(r) \/ CacheMiss(r)
  PROVE  AccountsInv'
<1>1. CASE CacheMiss(r)
  <2>1. MayGo(r, "ask")
    BY <1>1 DEF CacheMiss, MayGo, Asking, AccountsInv, Placed
  <2> QED BY <1>1, <2>1, Moves DEF CacheMiss, Goto, Labels
<1>2. CASE CacheHit(r)
  <2>1. place[r] \in Places
    BY <1>2 DEF CacheHit, AccountsInv, Placed, Asking
  <2>2. cache[place[r]] \in Cached /\ FromCache(r) \in Name
    BY <1>2, <2>1 DEF CacheHit, AccountsInv, TypeOK, FromCache, Cached, Name
  <2>3. /\ FromCache(r).verified \/ (iso /\ FromCache(r).from = "cache")
        /\ iso \/ FromCache(r).bvn
    BY <1>2, <2>1 DEF CacheHit, AccountsInv, AnswersHonest, FromCache
  <2> QED BY <1>2, <2>2, <2>3, Finds DEF CacheHit
<1> QED BY <1>1, <1>2

LEMMA AskStep ==
  ASSUME AccountsInv, NEW r \in Requests, Ask(r)
  PROVE  AccountsInv'
<1> DEFINE e == [verified |-> place[r] \in Verified, bvn |-> ~iso, from |-> "switch"]
<1> USE DEF AccountsInv, store, asked, balance
<1>1. /\ kind[r] \in {"link", "enquire"} /\ place[r] \in Places
      /\ pc[r] = "ask" /\ pc' = [pc EXCEPT ![r] = "put"] /\ name' = [name EXCEPT ![r] = e]
      /\ UNCHANGED <<store, asked, balance>> /\ (iso \/ e.verified) /\ (iso \/ e.bvn)
  BY DEF Ask, Goto, Placed, Asking
<1>2. e \in Name /\ e # None /\ e.from = "switch"
  <2>1. (place[r] \in Verified) \in BOOLEAN
    <3>1. CASE place[r] \in Verified
      BY <3>1
    <3>2. CASE place[r] \notin Verified
      BY <3>2
    <3> QED BY <3>1, <3>2
  <2>3. (~iso) \in BOOLEAN
    BY SMT DEF TypeOK
  <2>4. "switch" \in {"cache", "switch"}
    OBVIOUS
  <2>2. e \in Name
    BY <2>1, <2>3, <2>4, Zenon DEF Name
  <2> QED BY <2>2, AccountsAssumption
<1> HIDE DEF e
<1>3. TypeOK'
  BY <1>1, <1>2 DEF TypeOK
<1>4. \A x \in Requests : /\ pc'[x] = IF x = r THEN "put" ELSE pc[x]
                          /\ name'[x] = IF x = r THEN e ELSE name[x]
  BY <1>1 DEF TypeOK
<1>5. Placed'
  BY <1>1, <1>2, <1>4 DEF Placed, Asking
<1>6. GoneStays' /\ MandateMade' /\ AnswersHonest'
  BY <1>1, <1>4 DEF GoneStays, Unlinked, MandateMade, AnswersHonest
<1>7. LinkAnswerTrue' /\ NothingOfUnlinked' /\ NameVouched' /\ LinkedByHolder'
  BY <1>1, <1>4 DEF LinkAnswerTrue, NothingOfUnlinked, NameVouched, LinkedByHolder, Number
<1>8. NameExpires'
  BY <1>1, <1>4, Ask(r) DEF NameExpires, Ask
<1> QED BY <1>3, <1>5, <1>6, <1>7, <1>8


LEMMA PutStep ==
  ASSUME AccountsInv, NEW r \in Requests, Put(r)
  PROVE  AccountsInv'
<1> DEFINE p == place[r]
           c == [verified |-> name[r].verified, bvn |-> name[r].bvn,
                 ttl |-> cache[p] # None /\ cache[p].ttl]
<1> USE DEF AccountsInv, asked, balance
<1>1. /\ p \in Places /\ name[r] \in Name /\ pc[r] = "put" /\ kind[r] \in {"link", "enquire"}
      /\ iso \/ (name[r].verified /\ name[r].bvn)
  BY AccountsAssumption DEF Put, Placed, Asking, TypeOK, AnswersHonest
<1>2. /\ cache' = [cache EXCEPT ![p] = c] /\ pc' = [pc EXCEPT ![r] = "expire"]
      /\ UNCHANGED <<row, va, mandates, unset, asked, balance, name>>
  BY DEF Put, Goto
<1>3. c \in Cached /\ c.verified = name[r].verified /\ c.bvn = name[r].bvn
  <2>1. (cache[p] # None /\ cache[p].ttl) \in BOOLEAN
    <3>1. CASE cache[p] # None /\ cache[p].ttl
      BY <3>1
    <3>2. CASE ~(cache[p] # None /\ cache[p].ttl)
      BY <3>2
    <3> QED BY <3>1, <3>2
  <2>2. name[r].verified \in BOOLEAN /\ name[r].bvn \in BOOLEAN
    BY <1>1 DEF Name
  <2> QED BY <2>1, <2>2, Zenon DEF Cached
<1> HIDE DEF c
<1>4. TypeOK'
  BY <1>1, <1>2, <1>3 DEF TypeOK
<1>5. /\ \A x \in Requests : pc'[x] = IF x = r THEN "expire" ELSE pc[x]
      /\ \A x \in Places : cache'[x] = IF x = p THEN c ELSE cache[x]
  BY <1>2 DEF TypeOK
<1>6. Placed'
  BY <1>1, <1>2, <1>5 DEF Placed, Asking
<1>7. GoneStays' /\ MandateMade' /\ AnswersHonest'
  BY <1>1, <1>2, <1>3, <1>5 DEF GoneStays, Unlinked, MandateMade, AnswersHonest
<1>8. LinkAnswerTrue' /\ NothingOfUnlinked' /\ NameVouched' /\ LinkedByHolder'
  BY <1>2, <1>5 DEF LinkAnswerTrue, NothingOfUnlinked, NameVouched, LinkedByHolder, Number
<1>9. NameExpires'
  BY <1>1, <1>2, <1>5 DEF NameExpires
<1> QED BY <1>4, <1>6, <1>7, <1>8, <1>9

LEMMA PutFailsStep ==
  ASSUME AccountsInv, NEW r \in Requests, PutFails(r)
  PROVE  AccountsInv'
<1>1. name[r] \in Name /\ (iso \/ name[r].bvn)
  BY AccountsAssumption DEF PutFails, AccountsInv, Placed, AnswersHonest, TypeOK
<1>2. CASE name[r].verified
  BY <1>1, <1>2, Finds DEF PutFails, Resolved
<1>3. CASE ~name[r].verified
  <2>1. MayGo(r, "failed")
    BY DEF MayGo, Asking
  <2> QED BY <1>3, <2>1, Moves DEF PutFails, Resolved, Goto, Labels, Ends, store
<1> QED BY <1>2, <1>3

LEMMA ExpireStep ==
  ASSUME AccountsInv, NEW r \in Requests, Expire(r)
  PROVE  AccountsInv'
<1> DEFINE p == place[r]
<1> USE DEF AccountsInv, asked, balance
<1>1. /\ p \in Places /\ name[r] \in Name /\ pc[r] = "expire" /\ kind[r] \in {"link", "enquire"}
      /\ iso \/ (name[r].verified /\ name[r].bvn)
  BY AccountsAssumption DEF Expire, Placed, Asking, TypeOK, AnswersHonest
<1>2. UNCHANGED <<row, va, mandates, asked, balance>>
  BY DEF Expire
<1>3. PICK q \in {"named", "failed", "mandate"} :
        /\ pc' = [pc EXCEPT ![r] = q] /\ name' = [name EXCEPT ![r] = name[r]]
        /\ q # "failed" => name[r].verified
        /\ q = "mandate" => kind[r] = "link" /\
             (~iso => BVN[who[r]] \in {None, Holder[place[r]]})
  <2>1. name = [name EXCEPT ![r] = name[r]]
    BY DEF TypeOK
  <2>2. CASE name[r].verified
    BY <1>1, <2>2 DEF Expire, Resolved, Enquired, Goto
  <2>3. CASE ~name[r].verified
    BY <2>1, <2>3 DEF Expire, Resolved, Goto
  <2> QED BY <2>2, <2>3
<1>4. /\ cache' \in [Places -> Cached \cup {None}] /\ unset \subseteq unset'
      /\ unset' \subseteq unset \cup {p}
      /\ \A x \in Places :
           /\ cache[x] = None => cache'[x] = None
           /\ cache[x] # None => cache'[x].verified = cache[x].verified
                                 /\ cache'[x].bvn = cache[x].bvn
           /\ x # p => cache'[x] = cache[x]
      /\ cache'[p] # None => cache'[p].ttl \/ p \in unset'
  <2>1. CASE cache' = cache
    <3>1. unset' = unset \cup {p} \/ (cache[p] = None /\ unset' = unset)
          \/ (unset' = unset /\ cache[p] # None /\ cache' = [cache EXCEPT ![p].ttl = TRUE])
      BY DEF Expire
    <3>2. cache[p] # None /\ cache' = [cache EXCEPT ![p].ttl = TRUE] => cache'[p].ttl
      BY <1>1 DEF TypeOK, Cached
    <3> QED BY <1>1, <2>1, <3>1, <3>2 DEF TypeOK
  <2>2. CASE cache[p] # None /\ cache' = [cache EXCEPT ![p].ttl = TRUE] /\ unset' = unset
    <3>1. cache[p] \in Cached /\ cache \in [Places -> Cached \cup {None}]
      BY <1>1, <2>2 DEF TypeOK
    <3>2. /\ [cache[p] EXCEPT !.ttl = TRUE] \in Cached
          /\ [cache[p] EXCEPT !.ttl = TRUE].verified = cache[p].verified
          /\ [cache[p] EXCEPT !.ttl = TRUE].bvn = cache[p].bvn
          /\ [cache[p] EXCEPT !.ttl = TRUE].ttl
      BY <3>1 DEF Cached
    <3>3. /\ \A x \in Places : x # p => cache'[x] = cache[x]
          /\ cache'[p] = [cache[p] EXCEPT !.ttl = TRUE]
          /\ cache' \in [Places -> Cached \cup {None}]
      BY <1>1, <2>2, <3>1, <3>2
    <3> QED BY <2>2, <3>2, <3>3
  <2> QED BY <2>1, <2>2 DEF Expire
<1>5. TypeOK'
  BY <1>1, <1>2, <1>3, <1>4 DEF TypeOK, Ends
<1>6. \A x \in Requests : pc'[x] = (IF x = r THEN q ELSE pc[x]) /\ name'[x] = name[x]
  BY <1>3 DEF TypeOK
<1>7. Placed'
  BY <1>1, <1>2, <1>3, <1>6 DEF Placed, Asking
<1>8. GoneStays' /\ MandateMade'
  BY <1>2, <1>3, <1>6 DEF GoneStays, Unlinked, MandateMade
<1>9. AnswersHonest'
  BY <1>2, <1>3, <1>4, <1>6 DEF AnswersHonest
<1>10. LinkAnswerTrue' /\ NothingOfUnlinked' /\ NameVouched' /\ LinkedByHolder'
  BY <1>2, <1>3, <1>6 DEF LinkAnswerTrue, NothingOfUnlinked, NameVouched, LinkedByHolder, Number
<1>11. NameExpires'
  BY <1>1, <1>2, <1>4, <1>6 DEF NameExpires
<1> QED BY <1>5, <1>7, <1>8, <1>9, <1>10, <1>11

-----------------------------------------------------------------------------
(* LinkAccount, UnlinkAccount and the tables                               *)

LEMMA MandateStep ==
  ASSUME AccountsInv, NEW r \in Requests, CreateMandate(r)
  PROVE  AccountsInv'
<1> USE DEF AccountsInv, asked, balance
<1>1. PICK q \in {"insert", "failed"} :
        /\ pc' = [pc EXCEPT ![r] = q] /\ mandates \subseteq mandates'
        /\ mandates' \subseteq mandates \cup {r} /\ (q = "insert" => r \in mandates')
  BY DEF CreateMandate, MandateAdvice, Goto
<1>2. pc[r] = "mandate" /\ UNCHANGED <<row, cache, va, unset, asked, balance, name>>
  BY DEF CreateMandate
<1>3. TypeOK'
  BY <1>1, <1>2 DEF TypeOK, Ends
<1>4. \A x \in Requests : pc'[x] = IF x = r THEN q ELSE pc[x]
  BY <1>1 DEF TypeOK
<1>5. Placed' /\ GoneStays'
  BY <1>1, <1>2, <1>4 DEF Placed, Asking, GoneStays, Unlinked
<1>6. MandateMade' /\ AnswersHonest'
  BY <1>1, <1>2, <1>4 DEF MandateMade, AnswersHonest
<1>7. LinkAnswerTrue' /\ NothingOfUnlinked' /\ NameVouched' /\ LinkedByHolder'
  BY <1>1, <1>2, <1>4
  DEF LinkAnswerTrue, NothingOfUnlinked, NameVouched, LinkedByHolder, Number
<1>8. NameExpires'
  BY <1>2, <1>4 DEF NameExpires
<1> QED BY <1>3, <1>5, <1>6, <1>7, <1>8


LEMMA InsertStep ==
  ASSUME AccountsInv, NEW r \in Requests, Insert(r)
  PROVE  AccountsInv'
<1> DEFINE n == Number(r)
           a == [user |-> who[r], bank |-> place[r].bank, mandate |-> r, active |-> TRUE]
<1> USE DEF AccountsInv, asked, balance
<1>1. /\ pc[r] = "insert" /\ place[r] \in Places /\ n \in Numbers /\ who[r] \in Users
      /\ row[n] = None /\ place[r].bank \in Banks /\ r \in mandates
      /\ pc' = [pc EXCEPT ![r] = "linked"] /\ row' = [row EXCEPT ![n] = a]
      /\ UNCHANGED <<cache, va, mandates, unset, asked, balance, name>>
  BY Numbered DEF Insert, Linked, Goto, Placed, MandateMade
<1>2. a \in Row /\ a # None
  <2>1. a \in Row
    BY <1>1, Zenon DEF Row
  <2> QED BY <2>1, AccountsAssumption
<1>3. a.mandate = r /\ a.user = who[r] /\ a.bank = place[r].bank
  OBVIOUS
<1> HIDE DEF a
<1>4. TypeOK'
  BY <1>1, <1>2 DEF TypeOK, Ends
<1>5. /\ \A x \in Requests : pc'[x] = IF x = r THEN "linked" ELSE pc[x]
      /\ \A x \in Numbers : row'[x] = IF x = n THEN a ELSE row[x]
  BY <1>1 DEF TypeOK
<1>6. Unlinked \subseteq Unlinked'
  BY <1>1, <1>5 DEF Unlinked
<1>7. n \notin gone[r]
  BY <1>1 DEF GoneStays, Unlinked
<1>8. Placed'
  BY <1>1, <1>5 DEF Placed, Asking
<1>9. GoneStays' /\ MandateMade' /\ AnswersHonest'
  BY <1>1, <1>5, <1>6 DEF GoneStays, MandateMade, AnswersHonest
<1>10. LinkAnswerTrue'
  <2> SUFFICES ASSUME NEW x \in Requests, pc'[x] = "linked"
               PROVE  /\ row'[Number(x)] # None /\ x \in mandates
                      /\ row'[Number(x)].mandate = x /\ row'[Number(x)].user = who[x]
                      /\ row'[Number(x)].bank = place[x].bank
    BY <1>1 DEF LinkAnswerTrue, Number
  <2>1. CASE x = r
    BY <1>1, <1>2, <1>3, <1>5, <2>1
  <2>2. CASE x # r
    <3>1. pc[x] = "linked" /\ Number(x) \in Numbers /\ row[Number(x)] # None
      BY <1>5, <2>2, Numbered DEF LinkAnswerTrue, Placed
    <3>2. row'[Number(x)] = row[Number(x)]
      BY <1>1, <1>5, <3>1
    <3> QED BY <3>1, <3>2 DEF LinkAnswerTrue
  <2> QED BY <2>1, <2>2
<1>11. NothingOfUnlinked'
  BY <1>1, <1>5, <1>7 DEF NothingOfUnlinked, Number
<1>12. NameVouched' /\ LinkedByHolder'
  BY <1>1, <1>5 DEF NameVouched, LinkedByHolder, AnswersHonest
<1>13. NameExpires'
  BY <1>1, <1>5 DEF NameExpires
<1> QED BY <1>4, <1>8, <1>9, <1>10, <1>11, <1>12, <1>13

LEMMA UnlinkStep ==
  ASSUME AccountsInv, NEW r \in Requests, Unlink(r)
  PROVE  AccountsInv'
<1> DEFINE n == Number(r)
<1> USE DEF AccountsInv, asked, balance
<1>1. /\ pc[r] = "unlink" /\ place[r] \in Places /\ n \in Numbers /\ row[n] \in Row
      /\ pc' = [pc EXCEPT ![r] = "unlinked"] /\ row' = [row EXCEPT ![n].active = FALSE]
      /\ UNCHANGED <<cache, va, mandates, unset, asked, balance, name>>
  BY Numbered DEF Unlink, Goto, Placed, TypeOK
<1>2. /\ row'[n] \in Row /\ row'[n] # None /\ ~row'[n].active
      /\ row'[n].mandate = row[n].mandate /\ row'[n].user = row[n].user
      /\ row'[n].bank = row[n].bank
      /\ \A x \in Numbers : x # n => row'[x] = row[x]
  <2> DEFINE w == [row[n] EXCEPT !.active = FALSE]
  <2>1. /\ w \in Row /\ ~w.active /\ w.mandate = row[n].mandate
        /\ w.user = row[n].user /\ w.bank = row[n].bank
    BY <1>1 DEF Row
  <2>2. row'[n] = w /\ \A x \in Numbers : x # n => row'[x] = row[x]
    BY <1>1 DEF TypeOK
  <2>3. w # None
    BY <2>1, AccountsAssumption
  <2> QED BY <2>1, <2>2, <2>3
<1>3. TypeOK'
  <2>1. /\ row' \in [Numbers -> Row \cup {None}]
        /\ pc' \in [Requests -> {"idle", "check", "va", "row", "cache", "ask", "put",
                                "expire", "mandate", "insert", "unlink", "rows",
                                "gather", "store", "debit"} \cup Ends]
    <3>1. /\ row \in [Numbers -> Row \cup {None}] /\ row' = [row EXCEPT ![n] = row'[n]]
          /\ row'[n] \in Row
      BY <1>1, <1>2 DEF TypeOK
    <3>2. row' \in [Numbers -> Row \cup {None}]
      BY <3>1
    <3> QED BY <1>1, <3>2 DEF TypeOK, Ends
  <2> QED BY <1>1, <2>1 DEF TypeOK
<1>4. \A x \in Requests : pc'[x] = IF x = r THEN "unlinked" ELSE pc[x]
  BY <1>1 DEF TypeOK
<1>5. Unlinked \subseteq Unlinked'
  BY <1>1, <1>2 DEF Unlinked
<1>6. Placed'
  BY <1>1, <1>4 DEF Placed, Asking
<1>7. GoneStays' /\ MandateMade' /\ AnswersHonest'
  BY <1>1, <1>4, <1>5 DEF GoneStays, MandateMade, AnswersHonest
<1>8. LinkAnswerTrue'
  <2> SUFFICES ASSUME NEW x \in Requests, pc'[x] = "linked"
               PROVE  /\ row'[Number(x)] # None /\ x \in mandates
                      /\ row'[Number(x)].mandate = x /\ row'[Number(x)].user = who[x]
                      /\ row'[Number(x)].bank = place[x].bank
    BY <1>1 DEF LinkAnswerTrue, Number
  <2>1. /\ pc[x] = "linked" /\ Number(x) \in Numbers /\ row[Number(x)] # None /\ x \in mandates
        /\ row[Number(x)].mandate = x /\ row[Number(x)].user = who[x]
        /\ row[Number(x)].bank = place[x].bank
    BY <1>4, Numbered DEF LinkAnswerTrue, Placed
  <2> QED BY <1>2, <2>1
<1>9. NothingOfUnlinked' /\ NameVouched' /\ LinkedByHolder'
  BY <1>1, <1>4 DEF NothingOfUnlinked, NameVouched, LinkedByHolder, Number
<1>10. NameExpires'
  BY <1>1, <1>4 DEF NameExpires
<1> QED BY <1>3, <1>6, <1>7, <1>8, <1>9, <1>10

LEMMA StoreVirtualStep ==
  ASSUME AccountsInv, NEW r \in Requests, StoreVirtual(r)
  PROVE  AccountsInv'
<1> USE DEF AccountsInv, asked, balance
<1>1. /\ pc[r] = "store" /\ pc' = [pc EXCEPT ![r] = "stored"]
      /\ UNCHANGED <<row, cache, mandates, unset, asked, balance, name>>
  BY DEF StoreVirtual, Goto
<1>2. TypeOK'
  BY <1>1 DEF StoreVirtual, TypeOK, Ends
<1>3. \A x \in Requests : pc'[x] = IF x = r THEN "stored" ELSE pc[x]
  BY <1>1 DEF TypeOK
<1>4. Placed' /\ GoneStays' /\ MandateMade' /\ AnswersHonest'
  BY <1>1, <1>3 DEF Placed, Asking, GoneStays, Unlinked, MandateMade, AnswersHonest
<1>5. LinkAnswerTrue' /\ NothingOfUnlinked' /\ NameVouched' /\ LinkedByHolder'
  BY <1>1, <1>3 DEF LinkAnswerTrue, NothingOfUnlinked, NameVouched, LinkedByHolder, Number
<1>6. NameExpires'
  BY <1>1, <1>3 DEF NameExpires
<1> QED BY <1>2, <1>4, <1>5, <1>6

-----------------------------------------------------------------------------
(* The steps that only read, and the balance enquiries                     *)

\* A row that is active was not unlinked before the request began.
LEMMA ActiveIsNotGone ==
  ASSUME AccountsInv, NEW r \in Requests, row[Number(r)].active
  PROVE  Number(r) \notin gone[r]
BY DEF AccountsInv, GoneStays, Unlinked

LEMMA ReadStep ==
  ASSUME AccountsInv, NEW r \in Requests,
         Check(r) \/ DebitInfo(r) \/ VirtualFound(r) \/ VirtualMissing(r)
           \/ RowFound(r) \/ RowMissing(r) \/ Reply(r)
  PROVE  AccountsInv'
<1> USE DEF Labels, Ends, Goto
<1>1. pc[r] \in {"check", "va", "row", "debit"} => place[r] \in Places
  BY DEF AccountsInv, Placed
<1>2. CASE Check(r)
  <2>1. MayGo(r, "cache")
    BY <1>1, <1>2 DEF Check, MayGo, Asking, AccountsInv, Placed
  <2> QED BY <1>2, <2>1, Moves DEF Check
<1>3. CASE DebitInfo(r)
  <2>1. MayGo(r, "debited")
    BY <1>1, <1>3, ActiveIsNotGone DEF DebitInfo, Active, MayGo, Asking
  <2> QED BY <1>3, <2>1, Moves DEF DebitInfo
<1>4. CASE VirtualFound(r)
  <2>1. MayGo(r, "virtual")
    BY DEF MayGo, Asking
  <2> QED BY <1>4, <2>1, Moves DEF VirtualFound
<1>5. CASE VirtualMissing(r)
  <2>1. MayGo(r, "row")
    BY <1>1, <1>5 DEF VirtualMissing, MayGo, Asking, AccountsInv, Placed
  <2> QED BY <1>5, <2>1, Moves DEF VirtualMissing
<1>6. CASE RowFound(r)
  <2>1. MayGo(r, "failed") /\ (row[Number(r)].active => MayGo(r, "local"))
    BY <1>1, <1>6, ActiveIsNotGone DEF RowFound, MayGo, Asking
  <2> QED BY <1>6, <2>1, Moves DEF RowFound
<1>7. CASE RowMissing(r)
  <2>1. kind[r] = "enquire"
    BY <1>7 DEF RowMissing, AccountsInv, Placed
  <2>2. MayGo(r, "cache") /\ MayGo(r, "failed")
    BY <1>1, <1>7, <2>1 DEF RowMissing, MayGo, Asking
  <2>3. CASE Goto(r, "cache")
    BY <1>7, <2>2, <2>3, Moves DEF RowMissing
  <2>4. CASE Goto(r, "failed")
    BY <1>7, <2>2, <2>4, Moves DEF RowMissing
  <2> QED BY <1>7, <2>3, <2>4 DEF RowMissing
<1>8. CASE Reply(r)
  <2>1. MayGo(r, "balances")
    BY DEF MayGo, Asking
  <2> QED BY <1>8, <2>1, Moves DEF Reply
<1> QED BY <1>2, <1>3, <1>4, <1>5, <1>6, <1>7, <1>8

LEMMA ReadRowsStep ==
  ASSUME AccountsInv, NEW r \in Requests, ReadRows(r)
  PROVE  AccountsInv'
<1> DEFINE mine == {n \in Numbers : Active(n) /\ row[n].user = who[r]}
<1> USE DEF AccountsInv, store, asked
<1>1. /\ pc[r] = "rows" /\ pc' = [pc EXCEPT ![r] = "gather"]
      /\ rows' = [rows EXCEPT ![r] = mine]
      /\ running' = [running EXCEPT ![r] = External(mine)]
      /\ UNCHANGED <<store, asked, sent, live, name>>
  BY DEF ReadRows, Goto
<1>2. mine \in SUBSET Numbers /\ External(mine) \in SUBSET Numbers
      /\ mine \cap Unlinked = {}
  BY DEF External, Active, Unlinked
<1> HIDE DEF mine
<1>3. TypeOK'
  BY <1>1, <1>2 DEF TypeOK
<1>4. \A x \in Requests : /\ pc'[x] = IF x = r THEN "gather" ELSE pc[x]
                          /\ rows'[x] = IF x = r THEN mine ELSE rows[x]
  BY <1>1 DEF TypeOK
<1>5. GoneStays' /\ MandateMade' /\ AnswersHonest'
  BY <1>1, <1>2, <1>4 DEF GoneStays, Unlinked, MandateMade, AnswersHonest
<1>6. Placed'
  BY <1>1, <1>4 DEF Placed, Asking
<1>7. LinkAnswerTrue' /\ NothingOfUnlinked' /\ NameVouched' /\ LinkedByHolder'
  BY <1>1, <1>4 DEF LinkAnswerTrue, NothingOfUnlinked, NameVouched, LinkedByHolder, Number
<1>8. NameExpires'
  BY <1>1, <1>4 DEF NameExpires
<1> QED BY <1>3, <1>5, <1>6, <1>7, <1>8

LEMMA GatherStep ==
  ASSUME AccountsInv, NEW r \in Requests,
         (\E n \in Numbers : Balance(r, n)) \/ Receive(r)
  PROVE  AccountsInv'
<1> USE DEF AccountsInv, store, asked
<1>1. UNCHANGED <<store, asked, rows, pc, name>>
  BY DEF Balance, Receive
<1>2. TypeOK'
  <2>1. CASE Receive(r)
    BY <2>1 DEF TypeOK, Receive
  <2>2. ASSUME NEW n \in Numbers, Balance(r, n) PROVE TypeOK'
    <3>1. BalanceAdvice(n) \subseteq Numbers \X BOOLEAN
      <4>1. <<n, TRUE>> \in Numbers \X BOOLEAN /\ <<n, FALSE>> \in Numbers \X BOOLEAN
        OBVIOUS
      <4> QED BY <4>1 DEF BalanceAdvice
    <3>2. PICK b \in BalanceAdvice(n) : sent' = [sent EXCEPT ![r] = @ \cup {b}]
      BY <2>2 DEF Balance
    <3>3. sent' \in [Requests -> SUBSET (Numbers \X BOOLEAN)]
      BY <3>1, <3>2 DEF TypeOK
    <3> QED BY <2>2, <3>3 DEF TypeOK, Balance
  <2> QED BY <2>1, <2>2
<1>3. Placed' /\ GoneStays' /\ MandateMade' /\ AnswersHonest'
  BY <1>1 DEF Placed, GoneStays, Unlinked, MandateMade, AnswersHonest
<1>4. LinkAnswerTrue' /\ NothingOfUnlinked' /\ NameVouched' /\ LinkedByHolder'
  BY <1>1 DEF LinkAnswerTrue, NothingOfUnlinked, NameVouched, LinkedByHolder, Number
<1>5. NameExpires'
  BY <1>1 DEF NameExpires
<1> QED BY <1>2, <1>3, <1>4, <1>5

LEMMA Stutters == AccountsInv /\ UNCHANGED vars => AccountsInv'
BY DEF AccountsInv, vars, store, asked, balance, TypeOK, Placed, GoneStays, Unlinked,
       AnswersHonest, MandateMade, LinkAnswerTrue, NothingOfUnlinked, NameVouched,
       LinkedByHolder, NameExpires, Number

-----------------------------------------------------------------------------
(* The theorems                                                            *)

\* The accounts, the cache and the requests agree in every reachable state,
\* whatever requests overlap, fail or are cut short (account_service.go:89-574).
THEOREM InductiveInvariant == Spec => []AccountsInv
<1>1. AccountsInv /\ [Next]_vars => AccountsInv'
  <2> SUFFICES ASSUME AccountsInv, [Next]_vars PROVE AccountsInv'
    OBVIOUS
  <2>1. CASE UNCHANGED vars
    BY <2>1, Stutters
  <2>2. ASSUME NEW r \in Requests, NEW k \in Kinds, NEW u \in Users, NEW p \in Places,
               Begin(r, k, u, p)
        PROVE  AccountsInv'
    BY <2>2, BeginStep
  <2>3. ASSUME NEW r \in Requests, Handler(r) PROVE AccountsInv'
    <3>1. CASE EnquireName(r)
      BY <3>1, CacheStep, AskStep, PutStep, PutFailsStep, ExpireStep DEF EnquireName
    <3>2. CASE Fails(r)
      BY <3>2, FailsStep
    <3>3. CASE CreateMandate(r) \/ Insert(r) \/ Unlink(r) \/ StoreVirtual(r)
      BY <3>3, MandateStep, InsertStep, UnlinkStep, StoreVirtualStep
    <3>4. CASE ReadRows(r) \/ Receive(r)
      BY <3>4, ReadRowsStep, GatherStep
    <3> QED BY <2>3, <3>1, <3>2, <3>3, <3>4, ReadStep DEF Handler
  <2>4. ASSUME NEW r \in Requests, Lost(r) PROVE AccountsInv'
    BY <2>4, LostStep
  <2>5. ASSUME NEW r \in Requests, NEW n \in Numbers, Balance(r, n) PROVE AccountsInv'
    BY <2>5, GatherStep
  <2> QED BY <2>1, <2>2, <2>3, <2>4, <2>5, TimeStep DEF Next
<1> QED BY <1>1, Initially, PTL DEF Spec

\* Types of the accounts' state (account_service.go).
THEOREM TypeCorrect == Spec => []TypeOK
BY InductiveInvariant, PTL DEF AccountsInv

\* LinkAccount says that it linked an account only when the row and the
\* mandate are this request's, for good (account_service.go:150-181).
THEOREM LinksAreTrue == Spec => []LinkAnswerTrue
BY InductiveInvariant, PTL DEF AccountsInv

\* Nothing that begins after UnlinkAccount links, names, reports or debits the
\* account again (account_service.go:210).
THEOREM UnlinkedStaysUnlinked == Spec => []NothingOfUnlinked
BY InductiveInvariant, PTL DEF AccountsInv

\* A name that is answered was vouched for, but for what ISO 20022 has cached
\* (name_enquiry.go:218), and under NIP an account is linked by its holder
\* (account_service.go:144).
THEOREM NamesAreVouched == Spec => [](NameVouched /\ LinkedByHolder)
BY InductiveInvariant, PTL DEF AccountsInv

\* A cached name outlives its TTL only when its EXPIRE did not happen
\* (name_enquiry.go:121).
THEOREM NamesExpire == Spec => []NameExpires
BY InductiveInvariant, PTL DEF AccountsInv

=============================================================================

------------------------------ MODULE UssdCode ------------------------------
(***************************************************************************)
(* The rate limiter (ratelimit.go), and USSD codes behind it, from being   *)
(* generated to being consumed: GenerateUSSDCode and ValidateUSSDCode      *)
(* (account_service.go), generateCode and ValidateAndConsume               *)
(* (ussd_service.go), and the transaction in which ValidatePayment of the  *)
(* USSD provider consumes a code (ussd_provider.go; the payment that       *)
(* follows is WalletPayment's).                                            *)
(*                                                                         *)
(* main.go puts RateLimiter with GlobalLimit before every route, and a     *)
(* second one, with AuthStrict or AuthGeneral, before a login and the      *)
(* other requests to authenticate.  A key is made of the path and the      *)
(* address, so the two increment one counter and each sets its own TTL.    *)
(*                                                                         *)
(* main.go builds no USSDService: AccountService holds a nil one, and the  *)
(* two handlers end in a panic.  The module is of the service as they call *)
(* it; the limiter and the payments are what the server runs.              *)
(*                                                                         *)
(* A row of ussd_codes is known by the digits of its code, whose hash is   *)
(* UNIQUE.  No row is ever deleted: CleanupExpiredCodes has no caller.  A  *)
(* user stands for an IP address too.  POST and GET /account/ussd share    *)
(* the counter of their path, with one limiter before it; a payment is     *)
(* past that of its own and at its lookup; an "auth" request has the two,  *)
(* and what it does once it is served is Session's and OneTimeCode's.      *)
(*                                                                         *)
(* Bounds: Horizon, the last tick of the clock; Mixes, the kinds of        *)
(* request that come in one behaviour (codes and logins share no key).     *)
(***************************************************************************)
EXTENDS Integers, FiniteSets, Functions

CONSTANTS
  Clients,
  Calls,             \* requests
  Kind, User,        \* what each request asks for, and who it is from
  Digits,
  Limit, Window,     \* GlobalLimit
  AuthLimit, AuthWindow,    \* AuthStrict or AuthGeneral
  MaxGenerated, GenWindow,  \* MaxGenerationPerUser, RateLimitWindow
  Timeout,           \* CodeTimeout
  Horizon, Mixes,    \* bounds
  Absent

Types == {"PUSH", "PULL"}
UssdKinds == Types \cup {"validate", "pay", "auth"}   \* a generation is known by its type
Times == 0..Horizon

\* rl:<path>:<ip>
Counted == Clients \X {"ussd", "auth"}

\* Rows of ussd_codes.
CodeRow == [owner : Clients, type : Types, until : Nat, used : BOOLEAN]

ASSUME UssdAssumption ==
  /\ {Limit, Window, AuthLimit, MaxGenerated, GenWindow, Timeout} \subseteq Nat \ {0}
  /\ AuthWindow \in Nat /\ AuthWindow >= Window
  /\ Mixes \subseteq SUBSET UssdKinds
  /\ Horizon \in Nat
  /\ Kind \in [Calls -> UssdKinds]
  /\ User \in [Calls -> Clients]
  /\ Absent \notin Clients \cup Calls \cup Digits \cup CodeRow

VARIABLES
  now,
  hits,      \* the counters of the limiters: [n, until]
  made,      \* ussd:ratelimit:<user>, likewise
  row,       \* ussd_codes: a CodeRow, or Absent
  lock,      \* who holds the lock of a row
  at,
  drawn,     \* the digits a request brings or has drawn
  passed     \* history: requests that GlobalLimit's limiter counted and let
             \* through, by key and tick

limits   == <<hits, made, passed>>
table    == <<row, lock>>
ussdVars == <<now, limits, table, at, drawn>>

NoKey   == [n |-> 0, until |-> 0]
Counter == [n : Nat, until : Nat]

UssdTypeOK ==
  /\ now    \in Times
  /\ hits   \in [Counted -> Counter]
  /\ made   \in [Clients -> Counter]
  /\ row    \in [Digits -> CodeRow \cup {Absent}]
  /\ lock   \in [Digits -> Calls \cup {Absent}]
  /\ at     \in [Calls -> {"never", "idle", "auth", "check", "insert", "count", "lookup",
                              "mark", "answered", "valid", "spent", "served", "refused"}]
  /\ drawn  \in [Calls -> Digits \cup {Absent}]
  /\ passed \in [Counted -> [Times -> Nat]]

UssdInit ==
  /\ now    = 0
  /\ hits   = [k \in Counted |-> NoKey]
  /\ made   = [u \in Clients |-> NoKey]
  /\ row    = [d \in Digits |-> Absent]
  /\ lock   = [d \in Digits |-> Absent]
  /\ \E mix \in Mixes :
       at = [r \in Calls |-> CASE Kind[r] \notin mix -> "never"
                               [] Kind[r] \in mix \ {"pay"} -> "idle"
                               [] Kind[r] \in mix \cap {"pay"} -> "lookup"]
  /\ drawn  = [r \in Calls |-> Absent]
  /\ passed = [k \in Counted |-> [t \in Times |-> 0]]

MoveTo(r, l) == at' = [at EXCEPT ![r] = l]

-----------------------------------------------------------------------------
(* Redis and the clock                                                     *)

\* Fault: EXPIRE when INCR has answered 1.
FirstAccess(c, window) ==
  IF c = NoKey THEN [n |-> 1, until |-> now + window] ELSE [c EXCEPT !.n = @ + 1]

\* INCR and EXPIRE, which every request sends.
Increment(c, window) == [n |-> c.n + 1, until |-> now + window]

\* Keys whose time is over are gone.
Kept(c) == IF c.until <= now + 1 THEN NoKey ELSE c

Tick ==
  /\ now < Horizon
  /\ now'  = now + 1
  /\ hits' = [k \in Counted |-> Kept(hits[k])]
  /\ made' = [u \in Clients |-> Kept(made[u])]
  /\ UNCHANGED <<table, at, drawn, passed>>

-----------------------------------------------------------------------------
(* The rate limiters                                                       *)

Key(r) == <<User[r], IF Kind[r] = "auth" THEN "auth" ELSE "ussd">>

\* GlobalLimit's comes first, and then the one of the group of routes.
AtGlobal(r) == at[r] = "idle"
AtGroup(r)  == at[r] = "auth"
Limited(r)  == AtGlobal(r) \/ AtGroup(r)

LimitOf(r)  == IF AtGlobal(r) THEN Limit ELSE AuthLimit
WindowOf(r) == IF AtGlobal(r) THEN Window ELSE AuthWindow

Serve(r) ==
  MoveTo(r, CASE Kind[r] \in Types -> "check"
              [] Kind[r] \in {"validate", "pay"} -> "lookup"
              [] Kind[r] = "auth" -> IF AtGlobal(r) THEN "auth" ELSE "served")

Hit(r) == hits' = [hits EXCEPT ![Key(r)] = Increment(@, WindowOf(r))]

Pass(r) ==
  /\ Limited(r) /\ hits[Key(r)].n + 1 <= LimitOf(r)
  /\ Hit(r)
  /\ passed' = IF AtGlobal(r) THEN [passed EXCEPT ![Key(r)][now] = @ + 1] ELSE passed
  /\ Serve(r)
  /\ UNCHANGED <<now, made, table, drawn>>

\* 429: counted all the same.
TooMany(r) ==
  /\ Limited(r) /\ hits[Key(r)].n + 1 > LimitOf(r)
  /\ Hit(r)
  /\ MoveTo(r, "refused")
  /\ UNCHANGED <<now, made, passed, table, drawn>>

\* Redis cannot be reached, or its answer is lost: the request goes on.
FailOpen(r) ==
  /\ Limited(r)
  /\ Hit(r) \/ UNCHANGED hits
  /\ Serve(r)
  /\ UNCHANGED <<now, made, passed, table, drawn>>

-----------------------------------------------------------------------------
(* GenerateUSSDCode                                                        *)

\* checkRateLimit, which counts nothing.
MayGenerate(r) ==
  /\ at[r] = "check" /\ made[User[r]].n < MaxGenerated
  /\ MoveTo(r, "insert")
  /\ UNCHANGED <<now, limits, table, drawn>>

LimitReached(r) ==
  /\ at[r] = "check" /\ made[User[r]].n >= MaxGenerated
  /\ MoveTo(r, "refused")
  /\ UNCHANGED <<now, limits, table, drawn>>

Row(r) == [owner |-> User[r], type |-> Kind[r], until |-> now + Timeout, used |-> FALSE]

\* Fault: ON CONFLICT (code_hash) DO UPDATE.
Upsert(r, d) ==
  /\ at[r] = "insert"
  /\ row'  = [row EXCEPT ![d] = Row(r)]
  /\ drawn' = [drawn EXCEPT ![r] = d]
  /\ MoveTo(r, "count")
  /\ UNCHANGED <<now, limits, lock>>

Insert(r, d) ==
  /\ at[r] = "insert" /\ row[d] = Absent
  /\ row'  = [row EXCEPT ![d] = Row(r)]
  /\ drawn' = [drawn EXCEPT ![r] = d]
  /\ MoveTo(r, "count")
  /\ UNCHANGED <<now, limits, lock>>

\* The digits have been drawn before, whenever that was: 424, no second draw.
Collision(r) ==
  /\ at[r] = "insert" /\ \E d \in Digits : row[d] # Absent
  /\ MoveTo(r, "refused")
  /\ UNCHANGED <<now, limits, table, drawn>>

\* incrementRateLimit, whose error nobody sees; the code is answered.
Answer(r) ==
  /\ at[r] = "count"
  /\ \/ made' = [made EXCEPT ![User[r]] = Increment(@, GenWindow)]
     \/ UNCHANGED made
  /\ MoveTo(r, "answered")
  /\ UNCHANGED <<now, hits, passed, table, drawn>>

-----------------------------------------------------------------------------
(* ValidateAndConsume, and the same transaction of a payment               *)

\* ValidateUSSDCode asks for a PULL code, a payment for the type its metadata
\* names; only a payment looks whose code it is.
Usable(r, d) ==
  LET c == row[d] IN
  /\ c # Absent
  /\ ~c.used /\ now <= c.until
  /\ Kind[r] = "validate" => c.type = "PULL"
  /\ Kind[r] = "pay"      => c.owner = User[r]

\* Fault: SELECT without FOR UPDATE.
LookupUnlocked(r, d) ==
  /\ at[r] = "lookup" /\ Usable(r, d)
  /\ drawn' = [drawn EXCEPT ![r] = d]
  /\ MoveTo(r, "mark")
  /\ UNCHANGED <<now, limits, table>>

\* SELECT ... FOR UPDATE of the code the request brings.
Lookup(r, d) ==
  /\ at[r] = "lookup" /\ lock[d] = Absent /\ Usable(r, d)
  /\ lock' = [lock EXCEPT ![d] = r]
  /\ drawn' = [drawn EXCEPT ![r] = d]
  /\ MoveTo(r, "mark")
  /\ UNCHANGED <<now, limits, row>>

NotUsable(r) ==
  /\ at[r] = "lookup" /\ \E d \in Digits : lock[d] = Absent /\ ~Usable(r, d)
  /\ MoveTo(r, "refused")
  /\ UNCHANGED <<now, limits, table, drawn>>

Unlocked(r) == [d \in Digits |-> IF lock[d] = r THEN Absent ELSE lock[d]]

\* UPDATE ussd_codes SET used = true; COMMIT, whose answer may be lost.
Consume(r) ==
  /\ at[r] = "mark"
  /\ row'  = [row EXCEPT ![drawn[r]].used = TRUE]
  /\ lock' = Unlocked(r)
  /\ MoveTo(r, IF Kind[r] = "pay" THEN "spent" ELSE "valid") \/ MoveTo(r, "refused")
  /\ UNCHANGED <<now, limits, drawn>>

\* Redis or a statement fails, the amount is another one, or the server stops:
\* a transaction is rolled back.
GiveUp(r) ==
  /\ at[r] \in {"check", "insert", "count", "lookup", "mark"}
  /\ lock' = Unlocked(r)
  /\ MoveTo(r, "refused")
  /\ UNCHANGED <<now, limits, row, drawn>>

Step(r) ==
  \/ Pass(r) \/ TooMany(r) \/ FailOpen(r)
  \/ MayGenerate(r) \/ LimitReached(r) \/ Collision(r) \/ Answer(r)
  \/ \E d \in Digits : Insert(r, d) \/ Lookup(r, d)
  \/ NotUsable(r) \/ Consume(r) \/ GiveUp(r)

UssdNext == Tick \/ \E r \in Calls : Step(r)

UssdSpec == UssdInit /\ [][UssdNext]_ussdVars

-----------------------------------------------------------------------------
(* Properties                                                              *)

\* What GlobalLimit's limiter counts and lets through of one path and address
\* is at most Limit in any Window, wherever the window begins, and not Limit on
\* each side of a boundary: also where a second limiter counts on the same key
\* and sets its TTL, before or after, as no TTL is shorter than Window.
\* (ratelimit.go:29: "Max number of requests allowed within Window."  It is not
\* so of the second limiter: the TTL it has set is the one that GlobalLimit's
\* cuts short, also as it refuses.)
AdmittedWithinLimit ==
  \A k \in Counted : \A t \in Times :
    SumFunctionOnSet(passed[k], {s \in Times : t <= s /\ s < t + Window}) <= Limit

\* A code is consumed once, by a validation or by a payment: neither finds
\* valid what the other has taken, also while both are under way.
ConsumedOnce ==
  \A r, q \in Calls :
    {at[r], at[q]} \subseteq {"valid", "spent"} /\ drawn[r] = drawn[q] => r = q

\* The code a user was given stays his: the same digits drawn again, for
\* whomever and however much later, are refused.
CodeStaysOwn ==
  \A r, q \in Calls :
    /\ at[r] = "answered" => row[drawn[r]].owner = User[r]
    /\ at[r] = "answered" /\ at[q] = "answered" /\ drawn[r] = drawn[q] => r = q

-----------------------------------------------------------------------------
(* What the proofs of CodeProofs carry from step to step                   *)

\* What the limiter has let through from tick c on.
PassedFrom(k, c) == SumFunctionOnSet(passed[k], {s \in Times : c <= s})

\* A key counts what has passed since it was made, at a tick c; whatever had
\* passed before that did so a whole window earlier, and when the key goes a
\* whole window has gone by since the last pass.
CounterKept(k) ==
  /\ \A s \in Times : passed[k][s] # 0 =>
       s <= now /\ s + Window <= (IF hits[k].n = 0 THEN now ELSE hits[k].until)
  /\ hits[k].n = 0 => hits[k] = NoKey
  /\ hits[k].n > 0 =>
       /\ now < hits[k].until
       /\ \E c \in 0..now :
            /\ \A s \in Times : passed[k][s] # 0 => c <= s \/ s + Window <= c
            /\ PassedFrom(k, c) <= hits[k].n
            /\ PassedFrom(k, c) <= Limit

LimiterInv == AdmittedWithinLimit /\ \A k \in Counted : CounterKept(k)

Drawn(r)    == at[r] \in {"count", "answered"}
Consumed(r) == at[r] \in {"valid", "spent"}

\* Only who asked for a code draws digits.  Drawn digits have their row, and
\* no two have drawn the same; a row that is being consumed is locked by who
\* consumes it, and a consumed one is used.
RowsKept ==
  /\ \A r \in Calls : at[r] \in {"check", "insert", "count", "answered"} =>
       Kind[r] \in Types
  /\ \A r \in Calls : at[r] \in {"mark", "count", "answered", "valid", "spent"} =>
       drawn[r] \in Digits /\ row[drawn[r]] # Absent
  /\ \A r \in Calls : at[r] = "mark" => lock[drawn[r]] = r /\ ~row[drawn[r]].used
  /\ \A r \in Calls : Consumed(r) => row[drawn[r]].used
  /\ \A r \in Calls : Drawn(r) => row[drawn[r]].owner = User[r]
  /\ \A r, q \in Calls : Drawn(r) /\ Drawn(q) /\ drawn[r] = drawn[q] => r = q

RowsInv == RowsKept /\ ConsumedOnce

UssdInv == UssdTypeOK /\ RowsInv /\ LimiterInv

=============================================================================

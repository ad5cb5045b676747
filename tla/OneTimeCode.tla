----------------------------- MODULE OneTimeCode -----------------------------
(***************************************************************************)
(* Codes that are meant to be used once: the 2FA codes of GenerateUserOTP  *)
(* and ValidateUser2FA (account_service.go), the reset codes of            *)
(* ForgotPassword and ResetPassword (user_service.go), and the QR tokens   *)
(* that GenerateQRCode stores, ProcessQRCode answers once (qr_service.go)  *)
(* and QRPaymentProvider pays for (qr_provider.go).                        *)
(*                                                                         *)
(* A code is known by the request that drew it, and Value is the six       *)
(* digits drawn, which two requests may share.  All of them are keys of    *)
(* Redis that are read, compared and deleted by separate commands.  A      *)
(* handler that is cut short, or answers an error because a command or a   *)
(* query fails, takes no further step; the error of a DEL is never looked  *)
(* at.                                                                     *)
(*                                                                         *)
(* Bounds: Flows, the kinds of request that come in one behaviour (a kind  *)
(* touches the keys of its own flow only).                                 *)
(***************************************************************************)
EXTENDS Naturals

CONSTANTS
  Users,
  Requests,
  Values,
  Value,     \* the digits a request draws
  Flows,     \* bound
  None

Issuing  == {"otp", "forgot", "qr"}
Using    == {"validate", "reset", "process", "pay"}
Kinds    == Issuing \cup Using

ASSUME CodesAssumption ==
  /\ Value \in [Requests -> Values]
  /\ Flows \subseteq SUBSET Kinds
  /\ None \notin Requests \cup Users \cup Kinds \cup {"fresh", "over"}

VARIABLES
  flow,      \* the kinds of request there are
  otp,       \* 2FA-CODE:USER_2FA:<user>, the code it holds
  reset,     \* RESET_USER:<user>, likewise
  token,     \* qr:<token>: "fresh", "over" (its expiresAt has passed) or None
  nonce,     \* qr:used:<nonce>: the tokens that were processed
  known,     \* codes that have been mailed or answered
  pc, kind, user,
  code,      \* the code a request brings
  picked,    \* the code it has read and found equal
  scanned,   \* ResetPassword: users whose key is on the first page of its SCAN
  dead,      \* history: codes superseded, expired or deleted
  stale,     \* history: codes dead when it began
  spent,     \* history: tokens a ProcessQRCode was answered with
  replay,    \* history: tokens spent when it began
  killer,    \* history: the request whose DEL a code was hit by
  after      \* history: codes stored since it read the one it brought

keys    == <<otp, reset, token, nonce>>
request == <<kind, user, code, stale, replay>>
deaths  == <<dead, killer>>
vars    == <<flow, keys, known, pc, request, picked, scanned, deaths, spent, after>>

Ends == {"answered", "refused", "accepted", "changed", "processed", "paid"}

TypeOK ==
  /\ flow    \in Flows
  /\ otp     \in [Users -> Requests \cup {None}]
  /\ reset   \in [Users -> Requests \cup {None}]
  /\ token   \in [Requests -> {"fresh", "over", None}]
  /\ nonce   \in SUBSET Requests
  /\ known   \in SUBSET Requests
  /\ pc      \in [Requests -> {"idle", "get", "set", "send", "store", "draw",
                               "read", "delete", "scan", "match", "update", "forget",
                               "fetch", "seen", "mark", "drop",
                               "validate", "commit", "clear"} \cup Ends]
  /\ kind    \in [Requests -> Kinds \cup {None}]
  /\ user    \in [Requests -> Users \cup {None}]
  /\ code    \in [Requests -> Requests \cup {None}]
  /\ picked  \in [Requests -> Requests \cup {None}]
  /\ scanned \in [Requests -> SUBSET Users]
  /\ dead    \in SUBSET Requests
  /\ stale   \in [Requests -> SUBSET Requests]
  /\ spent   \in SUBSET Requests
  /\ replay  \in [Requests -> SUBSET Requests]
  /\ killer  \in [Requests -> Requests \cup {None}]
  /\ after   \in [Requests -> SUBSET Requests]

Init ==
  /\ flow    \in Flows
  /\ otp     = [u \in Users |-> None]
  /\ reset   = [u \in Users |-> None]
  /\ token   = [r \in Requests |-> None]
  /\ nonce   = {}
  /\ known   = {}
  /\ pc      = [r \in Requests |-> "idle"]
  /\ kind    = [r \in Requests |-> None]
  /\ user    = [r \in Requests |-> None]
  /\ code    = [r \in Requests |-> None]
  /\ picked  = [r \in Requests |-> None]
  /\ scanned = [r \in Requests |-> {}]
  /\ dead    = {}
  /\ stale   = [r \in Requests |-> {}]
  /\ spent   = {}
  /\ replay  = [r \in Requests |-> {}]
  /\ killer  = [r \in Requests |-> None]
  /\ after   = [r \in Requests |-> {}]

Goto(r, l)     == pc' = [pc EXCEPT ![r] = l]
Matches(i, r)  == i # None /\ Value[i] = Value[code[r]]
Pick(r, i)     == picked' = [picked EXCEPT ![r] = i]

\* The code a key held is superseded or expires.
Dies(i)        == dead' = dead \cup ({i} \ {None})

\* The DEL of r hits the code i.
Deletes(r, i)  ==
  /\ dead'   = dead \cup ({i} \ {None})
  /\ killer' = IF i = None THEN killer ELSE [killer EXCEPT ![i] = r]

\* A code is stored while others are past the reading of theirs.
Stored(i) ==
  after' = [r \in Requests |-> IF pc[r] \in {"delete", "update", "forget"}
                               THEN after[r] \cup {i} ELSE after[r]]

-----------------------------------------------------------------------------
(* Requests come                                                           *)

\* A code is brought by who was told it, for the user it was drawn for.
Begin(r, k, u, c) ==
  /\ pc[r] = "idle" /\ k \in flow
  /\ k \in Using => c \in known /\ user[c] = u
  /\ k \in Issuing => c = r
  /\ kind'   = [kind EXCEPT ![r] = k]
  /\ user'   = [user EXCEPT ![r] = u]
  /\ code'   = [code EXCEPT ![r] = c]
  /\ stale'  = [stale EXCEPT ![r] = IF k \in Using THEN dead ELSE {}]
  /\ replay' = [replay EXCEPT ![r] = IF k = "process" THEN spent ELSE {}]
  /\ Goto(r, CASE k = "otp" -> "set"       [] k = "forgot" -> "get"
               [] k = "qr" -> "draw"       [] k = "validate" -> "read"
               [] k = "reset" -> "scan"    [] k = "process" -> "fetch"
               [] k = "pay" -> "validate")
  /\ UNCHANGED <<flow, keys, known, picked, scanned, deaths, spent, after>>

-----------------------------------------------------------------------------
(* GenerateUserOTP and ForgotPassword                                      *)

\* The SET replaces a code that is still there.
SetOtp(r) ==
  /\ pc[r] = "set"
  /\ otp' = [otp EXCEPT ![user[r]] = r]
  /\ Dies(otp[user[r]]) /\ Stored(r) /\ Pick(r, r)
  /\ Goto(r, "send")
  /\ UNCHANGED <<flow, reset, token, nonce, known, request, scanned, killer, spent>>

\* ForgotPassword sends the code there is once more, its TTL as it was,
GetReset(r) ==
  /\ pc[r] = "get"
  /\ reset[user[r]] # None
  /\ Pick(r, reset[user[r]])
  /\ Goto(r, "send")
  /\ UNCHANGED <<flow, keys, known, request, scanned, deaths, spent, after>>

\* or, when there is none or the GET fails, stores its own.
NoReset(r) ==
  /\ pc[r] = "get"
  /\ Goto(r, "store")
  /\ UNCHANGED <<flow, keys, known, request, picked, scanned, deaths, spent, after>>

StoreReset(r, i) ==
  /\ pc[r] = "store"
  /\ reset' = [reset EXCEPT ![user[r]] = i]
  /\ Dies(reset[user[r]]) /\ Stored(i) /\ Pick(r, i)
  /\ Goto(r, "send")
  /\ UNCHANGED <<flow, otp, token, nonce, known, request, scanned, killer, spent>>

\* Fault: the code there is is stored again, to renew its TTL.
RenewReset(r) ==
  \/ StoreReset(r, IF picked[r] = None THEN r ELSE picked[r])
  \/ /\ pc[r] = "get" /\ reset[user[r]] # None
     /\ Pick(r, reset[user[r]])
     /\ Goto(r, "store")
     /\ UNCHANGED <<flow, keys, known, request, scanned, deaths, spent, after>>

SetReset(r) == StoreReset(r, r)

\* A goroutine mails it, or fails to.
Send(r) ==
  /\ pc[r] = "send"
  /\ known' \in {known, known \cup {picked[r]}}
  /\ Goto(r, "answered")
  /\ UNCHANGED <<flow, keys, request, picked, scanned, deaths, spent, after>>

-----------------------------------------------------------------------------
(* ValidateUser2FA                                                         *)

ReadOtp(r) ==
  LET i == otp[user[r]]
  IN  /\ pc[r] = "read"
      /\ IF Matches(i, r) THEN Pick(r, i) /\ Goto(r, "delete")
                          ELSE UNCHANGED picked /\ Goto(r, "refused")
      /\ UNCHANGED <<flow, keys, known, request, scanned, deaths, spent, after>>

\* Whatever the key holds by now is deleted, or nothing is.
DeleteOtp(r) ==
  /\ pc[r] = "delete"
  /\ \/ /\ otp' = [otp EXCEPT ![user[r]] = None]
        /\ Deletes(r, otp[user[r]])
     \/ UNCHANGED <<otp, deaths>>
  /\ Goto(r, "accepted")
  /\ UNCHANGED <<flow, reset, token, nonce, known, request, picked, scanned, spent, after>>

-----------------------------------------------------------------------------
(* ResetPassword                                                           *)

\* One page of a SCAN over all the keys of Redis.
Scan(r) ==
  /\ pc[r] = "scan"
  /\ \E S \in SUBSET {u \in Users : reset[u] # None} :
       scanned' = [scanned EXCEPT ![r] = S]
  /\ Goto(r, "match")
  /\ UNCHANGED <<flow, keys, known, request, picked, deaths, spent, after>>

\* The first key that holds the digits names the user.
Match(r) ==
  /\ pc[r] = "match"
  /\ \E u \in scanned[r] : Matches(reset[u], r) /\ Pick(r, reset[u])
  /\ Goto(r, "update")
  /\ UNCHANGED <<flow, keys, known, request, scanned, deaths, spent, after>>

\* None does, each read on its own, or none on the page.
NoMatch(r) ==
  /\ pc[r] = "match"
  /\ Goto(r, "refused")
  /\ UNCHANGED <<flow, keys, known, request, picked, scanned, deaths, spent, after>>

\* The new password is committed for the user that was found.
Update(r) ==
  /\ pc[r] = "update"
  /\ Goto(r, "forget")
  /\ UNCHANGED <<flow, keys, known, request, picked, scanned, deaths, spent, after>>

Found(r) == user[picked[r]]

\* Fault: the key the loop over the page ended with, not the one it matched.
DeleteLast(r) ==
  /\ pc[r] = "forget"
  /\ \/ \E u \in scanned[r] : reset' = [reset EXCEPT ![u] = None] /\ Deletes(r, reset[u])
     \/ UNCHANGED <<reset, deaths>>
  /\ Goto(r, "changed")
  /\ UNCHANGED <<flow, otp, token, nonce, known, request, picked, scanned, spent, after>>

DeleteReset(r) ==
  /\ pc[r] = "forget"
  /\ \/ /\ reset' = [reset EXCEPT ![Found(r)] = None]
        /\ Deletes(r, reset[Found(r)])
     \/ UNCHANGED <<reset, deaths>>
  /\ Goto(r, "changed")
  /\ UNCHANGED <<flow, otp, token, nonce, known, request, picked, scanned, spent, after>>

-----------------------------------------------------------------------------
(* GenerateQRCode, ProcessQRCode, QRPaymentProvider                        *)

\* The token is stored, and answered unless its image fails.
DrawQR(r) ==
  /\ pc[r] = "draw"
  /\ token' = [token EXCEPT ![r] = "fresh"]
  /\ Stored(r)
  /\ known' = known \cup {r} /\ Goto(r, "answered")
  /\ UNCHANGED <<flow, otp, reset, nonce, request, picked, scanned, deaths, spent>>

\* Only the bare token is understood: of the EMVCo text that buildEMVCoQR makes,
\* parseTag26 compares seven characters with the six of token=, and always
\* refuses it.
Unreadable(r) ==
  /\ pc[r] = "fetch"
  /\ Goto(r, "refused")
  /\ UNCHANGED <<flow, keys, known, request, picked, scanned, deaths, spent, after>>

Fetch(r) ==
  /\ pc[r] = "fetch" /\ token[code[r]] = "fresh"
  /\ Pick(r, code[r])
  /\ Goto(r, "seen")
  /\ UNCHANGED <<flow, keys, known, request, scanned, deaths, spent, after>>

\* The DEL of a token that is over by the clock of the server, or none.
FetchOver(r) ==
  /\ pc[r] = "fetch" /\ token[code[r]] # "fresh"
  /\ \/ /\ token[code[r]] = "over"
        /\ token' = [token EXCEPT ![code[r]] = None] /\ Dies(code[r])
     \/ UNCHANGED <<token, dead>>
  /\ Goto(r, "refused")
  /\ UNCHANGED <<flow, otp, reset, nonce, known, request, picked, scanned, killer, spent,
                 after>>

\* EXISTS on the replay key.
Seen(r) ==
  /\ pc[r] = "seen"
  /\ Goto(r, IF code[r] \in nonce THEN "refused" ELSE "mark")
  /\ UNCHANGED <<flow, keys, known, request, picked, scanned, deaths, spent, after>>

Mark(r) ==
  /\ pc[r] = "mark"
  /\ nonce' = nonce \cup {code[r]}
  /\ Goto(r, "drop")
  /\ UNCHANGED <<flow, otp, reset, token, known, request, picked, scanned, deaths, spent,
                 after>>

DropToken(r) ==
  \/ /\ token' = [token EXCEPT ![code[r]] = None]
     /\ IF token[code[r]] = None THEN UNCHANGED deaths ELSE Deletes(r, code[r])
  \/ UNCHANGED <<token, deaths>>

Drop(r) ==
  /\ pc[r] = "drop"
  /\ DropToken(r)
  /\ spent' = spent \cup {code[r]}
  /\ Goto(r, "processed")
  /\ UNCHANGED <<flow, otp, reset, nonce, known, request, picked, scanned, after>>

\* The provider's ValidatePayment reads the token and does not look at its
\* expiresAt or at the replay key.
ValidatePayment(r) ==
  /\ pc[r] = "validate"
  /\ IF token[code[r]] = None THEN Goto(r, "refused") /\ UNCHANGED picked
     ELSE Goto(r, "commit") /\ Pick(r, code[r])
  /\ UNCHANGED <<flow, keys, known, request, scanned, deaths, spent, after>>

\* ProcessPayment commits, and then deletes the token.
Commit(r) ==
  /\ pc[r] = "commit"
  /\ Goto(r, "clear")
  /\ UNCHANGED <<flow, keys, known, request, picked, scanned, deaths, spent, after>>

Clear(r) ==
  /\ pc[r] = "clear"
  /\ DropToken(r)
  /\ Goto(r, "paid")
  /\ UNCHANGED <<flow, otp, reset, nonce, known, request, picked, scanned, spent, after>>

-----------------------------------------------------------------------------
(* Time                                                                    *)

OtpExpires(u) ==
  /\ otp[u] # None
  /\ otp' = [otp EXCEPT ![u] = None] /\ Dies(otp[u])
  /\ UNCHANGED <<flow, reset, token, nonce, known, pc, request, picked, scanned, killer,
                 spent, after>>

ResetExpires(u) ==
  /\ reset[u] # None
  /\ reset' = [reset EXCEPT ![u] = None] /\ Dies(reset[u])
  /\ UNCHANGED <<flow, otp, token, nonce, known, pc, request, picked, scanned, killer,
                 spent, after>>

\* First the expiresAt inside the token, to the second, then its key.
TokenAges(i) ==
  /\ token[i] # None
  /\ IF token[i] = "fresh"
     THEN token' = [token EXCEPT ![i] = "over"] /\ UNCHANGED dead
     ELSE token' = [token EXCEPT ![i] = None] /\ Dies(i)
  /\ UNCHANGED <<flow, otp, reset, nonce, known, pc, request, picked, scanned, killer,
                 spent, after>>

\* Fault: a replay key that does not outlive the token.
NonceExpiresEarly(i) ==
  /\ i \in nonce
  /\ nonce' = nonce \ {i}
  /\ UNCHANGED <<flow, otp, reset, token, known, pc, request, picked, scanned, deaths,
                 spent, after>>

\* The replay key lasts twice as long as a token, so the token has gone, and
\* no handler takes the difference, minutes, from its GET to its EXISTS.
NonceExpires(i) ==
  /\ i \in nonce /\ token[i] = None
  /\ \A r \in Requests : pc[r] = "seen" => code[r] # i
  /\ nonce' = nonce \ {i}
  /\ UNCHANGED <<flow, otp, reset, token, known, pc, request, picked, scanned, deaths,
                 spent, after>>

-----------------------------------------------------------------------------
Handler(r) ==
  \/ SetOtp(r) \/ GetReset(r) \/ NoReset(r) \/ SetReset(r) \/ Send(r)
  \/ ReadOtp(r) \/ DeleteOtp(r)
  \/ Scan(r) \/ Match(r) \/ NoMatch(r) \/ Update(r) \/ DeleteReset(r)
  \/ DrawQR(r) \/ Unreadable(r) \/ Fetch(r) \/ FetchOver(r) \/ Seen(r) \/ Mark(r) \/ Drop(r)
  \/ ValidatePayment(r) \/ Commit(r) \/ Clear(r)

Time ==
  \/ \E u \in Users : OtpExpires(u) \/ ResetExpires(u)
  \/ \E i \in Requests : TokenAges(i) \/ NonceExpires(i)

Next ==
  \/ \E r, c \in Requests, k \in Kinds, u \in Users : Begin(r, k, u, c)
  \/ \E r \in Requests : Handler(r)
  \/ Time

Spec == Init /\ [][Next]_vars

-----------------------------------------------------------------------------
(* Properties                                                              *)

Granted == {"delete", "accepted", "update", "forget", "changed", "seen", "mark", "drop",
            "processed", "commit", "clear", "paid"}

\* Whatever a request is let in by was a code with the digits it brings that
\* was still good when it began: not superseded, not expired, and not deleted
\* after an earlier use.  Two uses of a code overlap, or the DEL of the first
\* has failed (account_service.go:733-744, user_service.go:948-999,
\* qr_provider.go:46-157).
DeadStaysDead ==
  \A r \in Requests : pc[r] \in Granted =>
    picked[r] # None /\ Value[picked[r]] = Value[code[r]] /\ picked[r] \notin stale[r]

\* What a use deletes is what it was let in by: the DEL of a request comes after
\* its success and hits the code whose digits it brought, or one stored for the
\* same user since that was read; no other user's code goes with it
\* (account_service.go:744, user_service.go:999, qr_service.go:242).  Whose code
\* that is, ResetPassword knows by the digits alone: with equal digits it lets
\* the request in by another user's, and then deletes that.
DeletedByUse ==
  \A i \in Requests : killer[i] # None =>
    LET r == killer[i]
    IN  /\ pc[r] \in {"accepted", "changed", "processed", "paid"}
        /\ picked[r] # None /\ Value[picked[r]] = Value[code[r]]
        /\ user[i] = user[picked[r]]
        /\ i = picked[r] \/ i \in after[r]

\* A token that ProcessQRCode was answered with is not answered to a request
\* that begins later, not even when its DEL failed: the replay key is there
\* for as long as the token can be (qr_service.go:228-242).
ProcessedOnce ==
  \A r \in Requests : pc[r] \in {"mark", "drop", "processed"} => code[r] \notin replay[r]

-----------------------------------------------------------------------------
(* What the handlers keep between them                                     *)

Unissued == {"idle", "get", "set", "store", "draw"}

\* A key holds a code of its own user and flow, and no dead one.
KeysHoldLive ==
  /\ \A u \in Users :
       /\ otp[u]   # None => user[otp[u]] = u /\ kind[otp[u]] = "otp"
                             /\ otp[u] \notin dead /\ pc[otp[u]] \notin Unissued
       /\ reset[u] # None => user[reset[u]] = u /\ kind[reset[u]] = "forgot"
                             /\ reset[u] \notin dead /\ pc[reset[u]] \notin Unissued
  /\ \A i \in Requests : token[i] # None =>
       kind[i] = "qr" /\ i \notin dead /\ pc[i] \notin Unissued

\* A request is where its kind leads it, for a user and with a code.
Placed ==
  /\ \A i \in dead \cup known \cup spent : pc[i] \notin Unissued
  /\ \A r \in Requests :
       /\ stale[r] \subseteq dead /\ replay[r] \subseteq spent
       /\ pc[r] = "idle" <=> kind[r] = None
       /\ pc[r] = "idle" => user[r] = None
       /\ pc[r] # "idle" => user[r] \in Users /\ code[r] \in Requests
       /\ pc[r] = "set" => kind[r] = "otp"
       /\ pc[r] \in {"get", "store"} => kind[r] = "forgot"
       /\ pc[r] = "draw" => kind[r] = "qr"
       /\ pc[r] \in {"fetch", "seen", "mark", "drop"} => pc[code[r]] \notin Unissued
       /\ pc[r] = "send" => picked[r] # None /\ pc[picked[r]] \notin Unissued

\* What the DEL of a request will find was read by it, or stored since, for a
\* user of its own.
DelFinds ==
  /\ \A r \in Requests :
       /\ pc[r] = "delete" => otp[user[r]] \in {None, picked[r]} \cup after[r]
       /\ pc[r] \in {"update", "forget"} =>
            picked[r] # None /\ user[picked[r]] \in Users
            /\ reset[Found(r)] \in {None, picked[r]} \cup after[r]
       /\ pc[r] = "delete" => user[picked[r]] = user[r]
       /\ pc[r] \in {"seen", "mark", "drop", "commit", "clear"} => picked[r] = code[r]
       /\ killer[r] # None => user[r] \in Users

\* While a token that was processed is there, so is its replay key.
ReplayHeld ==
  /\ \A i \in spent : i \in nonce \/ token[i] = None
  /\ \A r \in Requests :
       /\ pc[r] = "drop" => code[r] \in nonce \/ token[code[r]] = None
       /\ pc[r] = "seen" /\ code[r] \in replay[r] => code[r] \in nonce

\* The keys, the codes that are over and the requests agree, whatever
\* overlaps, expires or fails to be deleted.
CodesInv ==
  /\ TypeOK /\ KeysHoldLive /\ Placed /\ DelFinds /\ ReplayHeld
  /\ DeadStaysDead /\ DeletedByUse /\ ProcessedOnce

=============================================================================

------------------------------- MODULE Session -------------------------------
(***************************************************************************)
(* Sessions of users: UserLogin, RefreshToken, LogoutUser and              *)
(* DeleteUserProfile of user_service.go and the AuthSessionMiddleware that *)
(* every other request passes.                                             *)
(*                                                                         *)
(* A login stores a session in Redis under a fresh random id and answers   *)
(* an access and a refresh token that name it; a refresh answers one more  *)
(* of each.  Redis and the users table are not changed together, and every *)
(* handler makes its calls to them one after the other.  Any command of    *)
(* Redis may fail; only a session that cannot be read stops a handler.     *)
(*                                                                         *)
(* Bound: Generations, the pairs of tokens a session is given.  The time   *)
(* of a session is two events, its key expiring (TTL, reset by every       *)
(* request that is let in) and its expires_at passing.                     *)
(***************************************************************************)
EXTENDS Naturals, Sequences

CONSTANTS
  Users,
  Logins,       \* login requests; each stands for the session id it draws
  Owner,        \* whose login it is
  Requests,     \* all other requests
  Generations   \* bound

ASSUME OwnerAssumption == Owner \in [Logins -> Users]

None == "none"
ASSUME NoneAssumption == None \notin Logins

VARIABLES
  lpc,       \* a login: idle, checked, answered or failed
  live,      \* sessions whose key is in Redis
  old,       \* sessions whose expires_at has passed
  minted,    \* the tokens a session was given: [device, parent]; the device
             \* is "" to the program both when "gone" and when "unread"
  revoked,   \* access tokens on the blacklist: [sid, gen]
  deleted,   \* users with a deleted_at, and so with status inactive
  pc, kind,  \* a request: where it is, what it is
  token,     \* the token it brings: [sid, gen]
  device,    \* RefreshToken: the device read from the session
  scanned,   \* DeleteUserProfile: session keys its SCAN has to find
  ended,     \* history: sessions whose key has been removed
  late,      \* history: began when its session was over, or (RefreshToken does
             \* not look at the status) its user deleted
  had        \* history: sessions its user had when a deletion was made

user    == <<lpc, old, deleted>>
request == <<kind, token, device, scanned, late, had>>
vars    == <<lpc, live, old, minted, revoked, deleted, pc, kind, token,
             device, scanned, ended, late, had>>

Devices == {"own", "gone", "unread"}
Kinds   == {"use", "delete", "refresh", "logout"}
Token   == [sid : Logins, gen : Nat]
NoToken == [sid |-> None, gen |-> 0]

TypeOK ==
  /\ lpc     \in [Logins -> {"idle", "checked", "answered", "failed"}]
  /\ live    \in SUBSET Logins
  /\ old     \in SUBSET Logins
  /\ minted  \in [Logins -> Seq([device : Devices, parent : Nat])]
  /\ revoked \in SUBSET Token
  /\ deleted \in SUBSET Users
  /\ pc      \in [Requests -> {"idle", "blacklist", "session", "user", "verify",
                               "update", "revoke", "scan", "sweep", "exists",
                               "device", "mint", "drop",
                               "served", "refused", "deleted", "unswept", "done",
                               "lost"}]
  /\ kind    \in [Requests -> Kinds \cup {None}]
  /\ token   \in [Requests -> Token \cup {NoToken}]
  /\ device  \in [Requests -> Devices]
  /\ scanned \in [Requests -> SUBSET Logins]
  /\ ended   \in SUBSET Logins
  /\ late    \in [Requests -> BOOLEAN]
  /\ had     \in [Requests -> SUBSET Logins]

Init ==
  /\ lpc     = [l \in Logins |-> "idle"]
  /\ live    = {}
  /\ old     = {}
  /\ minted  = [l \in Logins |-> << >>]
  /\ revoked = {}
  /\ deleted = {}
  /\ pc      = [r \in Requests |-> "idle"]
  /\ kind    = [r \in Requests |-> None]
  /\ token   = [r \in Requests |-> NoToken]
  /\ device  = [r \in Requests |-> "unread"]
  /\ scanned = [r \in Requests |-> {}]
  /\ ended   = {}
  /\ late    = [r \in Requests |-> FALSE]
  /\ had     = [r \in Requests |-> {}]

Goto(r, l) == pc' = [pc EXCEPT ![r] = l]
Sid(r)     == token[r].sid
Device(r)  == minted[Sid(r)][token[r].gen].device

\* The keys of S are deleted from Redis.
Remove(S) ==
  /\ live'  = live \ S
  /\ ended' = ended \cup (live \cap S)

-----------------------------------------------------------------------------
(* UserLogin                                                               *)

\* The user is read (deleted_at IS NULL) and the password is right.
LoginChecks(l) ==
  /\ lpc[l] = "idle" /\ Owner[l] \notin deleted
  /\ lpc' = [lpc EXCEPT ![l] = "checked"]
  /\ UNCHANGED <<live, old, minted, revoked, deleted, pc, request, ended>>

\* The session is stored, or its error only logged, and the tokens answered.
LoginStores(l) ==
  /\ lpc[l] = "checked"
  /\ lpc' = [lpc EXCEPT ![l] = "answered"]
  /\ minted' = [minted EXCEPT ![l] = <<[device |-> "own", parent |-> 0]>>]
  /\ live' \in {live, live \cup {l}}
  /\ UNCHANGED <<old, revoked, deleted, pc, request, ended>>

\* A query for the user's status fails.
LoginFails(l) ==
  /\ lpc[l] = "checked"
  /\ lpc' = [lpc EXCEPT ![l] = "failed"]
  /\ UNCHANGED <<live, old, minted, revoked, deleted, pc, request, ended>>

-----------------------------------------------------------------------------
(* AuthSessionMiddleware                                                   *)

\* A request comes with a token that was given out.
Begin(r, k, t) ==
  /\ pc[r] = "idle"
  /\ t.gen \in 1..Len(minted[t.sid])
  /\ kind'  = [kind EXCEPT ![r] = k]
  /\ token' = [token EXCEPT ![r] = t]
  /\ late'  = [late EXCEPT ![r] = \/ t.sid \in ended
                             \/ (k # "refresh" /\ Owner[t.sid] \in deleted)]
  /\ Goto(r, CASE k = "refresh" -> "exists" [] k = "logout" -> "drop"
               [] OTHER -> "blacklist")
  /\ UNCHANGED <<user, live, minted, revoked, device, scanned, ended, had>>

\* The token has expired, or a query or the connection has failed.
Refuse(r) ==
  /\ pc[r] \in {"blacklist", "user", "verify", "update", "exists", "mint"}
  /\ Goto(r, "refused")
  /\ UNCHANGED <<user, live, minted, revoked, request, ended>>

\* checkTokenBlacklist; an error of EXISTS counts as not on it.
CheckBlacklist(r) ==
  /\ pc[r] = "blacklist"
  /\ \/ Goto(r, "session")
     \/ token[r] \in revoked /\ Goto(r, "refused")
  /\ UNCHANGED <<user, live, minted, revoked, request, ended>>

\* validateSession: the session is there, not too old, and of this device.
SessionValid(r) ==
  /\ pc[r] = "session"
  /\ Sid(r) \in live /\ Sid(r) \notin old /\ Device(r) = "own"
  /\ Goto(r, "user")
  /\ UNCHANGED <<user, live, minted, revoked, request, ended>>

\* Too old, or of another device: it is deleted.
SessionDropped(r) ==
  /\ pc[r] = "session" /\ Sid(r) \in live
  /\ Sid(r) \in old \/ Device(r) # "own"
  /\ Remove({Sid(r)}) \/ UNCHANGED <<live, ended>>
  /\ Goto(r, "refused")
  /\ UNCHANGED <<user, minted, revoked, request>>

\* It is not there, or its GET fails.
SessionLocked(r) ==
  /\ pc[r] = "session"
  /\ Goto(r, "refused")
  /\ UNCHANGED <<user, live, minted, revoked, request, ended>>

LetIn(r) == Goto(r, IF kind[r] = "delete" THEN "verify" ELSE "served")

\* Fault: whoever has a session is let in.
UserUnchecked(r) ==
  /\ pc[r] = "user"
  /\ LetIn(r)
  /\ UNCHANGED <<user, live, minted, revoked, request, ended>>

\* CheckUserStatusAndPrivileges; then the handler runs.
CheckUser(r) ==
  /\ pc[r] = "user"
  /\ IF Owner[Sid(r)] \in deleted THEN Goto(r, "refused") ELSE LetIn(r)
  /\ UNCHANGED <<user, live, minted, revoked, request, ended>>

-----------------------------------------------------------------------------
(* RefreshToken                                                            *)

\* An error of EXISTS is Refuse's.
RefreshExists(r) ==
  /\ pc[r] = "exists"
  /\ Goto(r, IF Sid(r) \in live THEN "device" ELSE "refused")
  /\ UNCHANGED <<user, live, minted, revoked, request, ended>>

\* The session is read once more, for its device; an error leaves it "".
RefreshReads(r) ==
  /\ pc[r] = "device"
  /\ \E d \in {"unread", IF Sid(r) \in live THEN "own" ELSE "gone"} :
       device' = [device EXCEPT ![r] = d]
  /\ Goto(r, "mint")
  /\ UNCHANGED <<user, live, minted, revoked, kind, token, scanned, late, had, ended>>

Mint(r) ==
  LET s == Sid(r)
  IN  /\ Len(minted[s]) < Generations
      /\ minted' = [minted EXCEPT ![s] =
                      Append(@, [device |-> device[r], parent |-> token[r].gen])]

\* Fault: the session is stored anew.
RefreshRevives(r) ==
  /\ pc[r] = "mint"
  /\ Mint(r)
  /\ live' = live \cup {Sid(r)}
  /\ Goto(r, "served")
  /\ UNCHANGED <<user, revoked, request, ended>>

\* The refresh token goes on the blacklist, which no refresh reads, and a new
\* pair is answered.
RefreshMints(r) ==
  /\ pc[r] = "mint"
  /\ Mint(r)
  /\ Goto(r, "served")
  /\ UNCHANGED <<user, live, revoked, request, ended>>

-----------------------------------------------------------------------------
(* LogoutUser                                                              *)

\* The session is deleted; an error is not looked at.
LogoutDrops(r) ==
  /\ pc[r] = "drop"
  /\ Remove({Sid(r)}) \/ UNCHANGED <<live, ended>>
  /\ Goto(r, "revoke")
  /\ UNCHANGED <<user, minted, revoked, request>>

\* blacklistToken, by a logout (not for an expired token) or a deletion.
Revoke(r) ==
  /\ pc[r] = "revoke"
  /\ revoked' \in {revoked, revoked \cup {token[r]}}
  /\ Goto(r, IF kind[r] = "logout" THEN "done" ELSE "scan")
  /\ UNCHANGED <<user, live, minted, request, ended>>

-----------------------------------------------------------------------------
(* DeleteUserProfile                                                       *)

SessionsOf(u) == {l \in Logins : Owner[l] = u}
Answered(u)   == {l \in SessionsOf(u) : lpc[l] = "answered"}

\* Password, deleted_at, balances and pending payments; Refuse is their "no".
DeleteVerifies(r) ==
  /\ pc[r] = "verify" /\ Owner[Sid(r)] \notin deleted
  /\ Goto(r, "update")
  /\ UNCHANGED <<user, live, minted, revoked, request, ended>>

SoftDelete(r) ==
  /\ pc[r] = "update"
  /\ deleted' = deleted \cup {Owner[Sid(r)]}
  /\ had' = [had EXCEPT ![r] = Answered(Owner[Sid(r)])]
  /\ Goto(r, "revoke")
  /\ UNCHANGED <<lpc, old, live, minted, revoked, kind, token, device, scanned, late, ended>>

\* The first SCAN: what is there now the whole iteration will find.
ScanStarts(r) ==
  /\ pc[r] = "scan"
  /\ scanned' = [scanned EXCEPT ![r] = live \cap SessionsOf(Owner[Sid(r)])]
  /\ Goto(r, "sweep")
  /\ UNCHANGED <<user, live, minted, revoked, kind, token, device, late, had, ended>>

\* Fault: one page of the iteration and no more.
SweepOnePage(r) ==
  /\ pc[r] = "sweep"
  /\ \E S \in SUBSET scanned[r] : Remove(S)
  /\ Goto(r, "deleted")
  /\ UNCHANGED <<user, minted, revoked, request>>

\* All it finds is deleted; what has been stored since it may or may not find.
Sweep(r) ==
  /\ pc[r] = "sweep"
  /\ \E S \in SUBSET (live \cap SessionsOf(Owner[Sid(r)])) : Remove(scanned[r] \cup S)
  /\ Goto(r, "deleted")
  /\ UNCHANGED <<user, minted, revoked, request>>

\* SCAN or DEL fails on the way; the deletion is answered just the same.
SweepFails(r) ==
  /\ pc[r] \in {"scan", "sweep"}
  /\ \E S \in SUBSET (live \cap SessionsOf(Owner[Sid(r)])) : Remove(S)
  /\ Goto(r, "unswept")
  /\ UNCHANGED <<user, minted, revoked, request>>

-----------------------------------------------------------------------------

\* The client gives up or the server stops.
Lost(r) ==
  /\ pc[r] \notin {"idle", "served", "refused", "deleted", "unswept", "done", "lost"}
  /\ Goto(r, "lost")
  /\ UNCHANGED <<user, live, minted, revoked, request, ended>>

KeyExpires(s) ==
  /\ s \in live
  /\ Remove({s})
  /\ UNCHANGED <<user, minted, revoked, pc, request>>

Ages(s) ==
  /\ s \in live /\ s \notin old
  /\ old' = old \cup {s}
  /\ UNCHANGED <<lpc, live, minted, revoked, deleted, pc, request, ended>>

Login(l) == LoginChecks(l) \/ LoginStores(l) \/ LoginFails(l)

Middleware(r) ==
  \/ CheckBlacklist(r) \/ SessionValid(r) \/ SessionDropped(r)
  \/ SessionLocked(r) \/ CheckUser(r)

Handler(r) ==
  \/ RefreshExists(r) \/ RefreshReads(r) \/ RefreshMints(r)
  \/ LogoutDrops(r) \/ Revoke(r)
  \/ DeleteVerifies(r) \/ SoftDelete(r)
  \/ ScanStarts(r) \/ Sweep(r) \/ SweepFails(r)

Next ==
  \/ \E l \in Logins : Login(l) \/ KeyExpires(l) \/ Ages(l)
  \/ \E r \in Requests :
       \/ \E k \in Kinds, l \in Logins, g \in 1..Generations :
            Begin(r, k, [sid |-> l, gen |-> g])
       \/ Middleware(r) \/ Handler(r) \/ Refuse(r) \/ Lost(r)

Spec == Init /\ [][Next]_vars

-----------------------------------------------------------------------------
(* Properties                                                              *)

\* No request gets through, and no refresh gives tokens out, that began when
\* its session had been taken out of Redis, by a logout, a deletion, another
\* request or its TTL; nor a request that began when its user was deleted.
\* This whatever logins, refreshes and requests were under way at the time.
\* (AuthSessionMiddleware and RefreshToken)
EndedForGood ==
  \A r \in Requests :
    late[r] /\ kind[r] # "logout" =>
      pc[r] \notin {"device", "mint", "served", "verify", "update", "revoke", "scan",
                    "sweep", "deleted", "unswept"}

\* validateSession deletes a session whose device is not the token's.  A token
\* for which RefreshToken found no session to take the device from is never
\* one of a session that is there: the check and the reading are two calls,
\* and the session may go in between.
NoSelfEviction ==
  \A s \in live : \A n \in 1..Len(minted[s]) : minted[s][n].device # "gone"

\* An account deletion, its SCAN and DELs not failing, ends every session its
\* user had: none whose login was answered before the UPDATE is left when the
\* deletion is answered, with logins, requests and refreshes under way.
\* (DeleteUserProfile)
DeletionEndsSessions ==
  \A r \in Requests : pc[r] = "deleted" => had[r] \cap live = {}

\* A login's key is set once, when it is answered; a key that was removed
\* stays away.
KeysSetOnce ==
  /\ live \cup ended \subseteq {l \in Logins : lpc[l] = "answered"}
  /\ live \cap ended = {}
  /\ \A l \in Logins : minted[l] # << >> => lpc[l] = "answered"

\* Where a late request can be: the two reasons for being late stop it at the
\* session and at the user.
LateRequests ==
  \A r \in Requests :
    /\ pc[r] # "idle" => kind[r] \in Kinds /\ token[r] \in Token
    /\ pc[r] \in {"exists", "device", "mint"} => kind[r] = "refresh"
    /\ pc[r] \in {"verify", "update"} => kind[r] = "delete"
    /\ late[r] /\ kind[r] = "refresh" =>
         Sid(r) \in ended /\ pc[r] \in {"exists", "refused", "lost"}
    /\ late[r] /\ kind[r] \in {"use", "delete"} =>
         /\ pc[r] \in {"blacklist", "session", "user", "refused", "lost"}
         /\ Sid(r) \in ended \/ Owner[Sid(r)] \in deleted
         /\ pc[r] = "user" => Owner[Sid(r)] \in deleted

\* A token without a device for want of a session is of a session that was
\* answered and is not in Redis.
GoneIsGone ==
  /\ \A r \in Requests : pc[r] = "mint" /\ device[r] = "gone" => Sid(r) \notin live
  /\ \A r \in Requests : pc[r] \in {"exists", "device", "mint"} => lpc[Sid(r)] = "answered"
  /\ NoSelfEviction

\* What a deletion has to end is still to be deleted, or in what it has found.
DeletionCovers ==
  \A r \in Requests :
    /\ had[r] # {} => /\ kind[r] = "delete"
                      /\ pc[r] \in {"revoke", "scan", "sweep", "deleted", "unswept", "lost"}
    /\ \A l \in had[r] : lpc[l] = "answered" /\ Owner[l] = Owner[Sid(r)]
    /\ pc[r] = "sweep"   => had[r] \cap live \subseteq scanned[r]
    /\ pc[r] = "deleted" => had[r] \cap live = {}

\* All of it together is inductive.
SessionInv == TypeOK /\ KeysSetOnce /\ LateRequests /\ GoneIsGone /\ DeletionCovers

=============================================================================

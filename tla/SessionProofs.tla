---------------------------- MODULE SessionProofs ----------------------------
(***************************************************************************)
(* Session, for any users, logins and requests: a session that has ended   *)
(* stays ended, and a deletion ends all of its user's.                     *)
(***************************************************************************)
EXTENDS Session, SequenceTheorems, TLAPS

Labels ==
  {"idle", "blacklist", "session", "user", "verify", "update", "revoke", "scan",
   "sweep", "exists", "device", "mint", "drop", "served", "refused", "deleted",
   "unswept", "done", "lost"}

\* A token that was given out is of a session that was answered.
LEMMA TokenAnswered ==
  ASSUME KeysSetOnce, NEW t \in Token, t.gen \in 1..Len(minted[t.sid])
  PROVE  t.sid \in Logins /\ lpc[t.sid] = "answered"
<1>1. t.sid \in Logins
  BY DEF Token
<1>2. minted[t.sid] # << >>
  BY SMT
<1> QED BY <1>1, <1>2 DEF KeysSetOnce

\* A request that is on its way has its token.
LEMMA OnItsWay ==
  ASSUME LateRequests, NEW r \in Requests, pc[r] # "idle"
  PROVE  kind[r] \in Kinds /\ token[r] \in Token /\ Sid(r) \in Logins
BY DEF LateRequests, Sid, Token

-----------------------------------------------------------------------------
(* The steps of logins and of time                                         *)

LEMMA LoginStep ==
  ASSUME SessionInv, NEW l \in Logins, Login(l)
  PROVE  SessionInv'
<1> USE DEF SessionInv, user, request
<1>1. CASE LoginChecks(l) \/ LoginFails(l)
  <2>1. TypeOK'
    BY <1>1 DEF LoginChecks, LoginFails, TypeOK
  <2>2. \A x \in Logins : lpc[x] = "answered" <=> lpc'[x] = "answered"
    BY <1>1 DEF LoginChecks, LoginFails, TypeOK
  <2>3. KeysSetOnce'
    BY <1>1, <2>2 DEF LoginChecks, LoginFails, TypeOK, KeysSetOnce
  <2>4. LateRequests'
    BY <1>1 DEF LoginChecks, LoginFails, LateRequests, Sid
  <2>5. GoneIsGone' /\ DeletionCovers'
    BY <1>1, <2>2, OnItsWay
    DEF LoginChecks, LoginFails, TypeOK, GoneIsGone, NoSelfEviction, DeletionCovers, Sid
  <2> QED BY <2>1, <2>3, <2>4, <2>5
<1>2. CASE LoginStores(l)
  <2> DEFINE m == [device |-> "own", parent |-> 0]
  <2>1. m \in [device : Devices, parent : Nat] /\ <<m>> \in Seq([device : Devices, parent : Nat])
    BY DEF Devices
  <2>2. /\ lpc' = [lpc EXCEPT ![l] = "answered"] /\ minted' = [minted EXCEPT ![l] = <<m>>]
        /\ live' \subseteq live \cup {l} /\ lpc[l] = "checked"
        /\ UNCHANGED <<old, revoked, deleted, pc, request, ended>>
    BY <1>2 DEF LoginStores
  <2>3. TypeOK'
    BY <2>1, <2>2 DEF TypeOK
  <2>4. \A x \in Logins : lpc[x] = "answered" => lpc'[x] = "answered" /\ x # l
    BY <2>2 DEF TypeOK
  <2>5. KeysSetOnce'
    BY <2>2, <2>4 DEF TypeOK, KeysSetOnce
  <2>6. LateRequests'
    BY <2>2 DEF LateRequests, Sid
  <2>7. GoneIsGone'
    <3>1. \A r \in Requests : pc[r] \in {"exists", "device", "mint"} =>
             Sid(r) \in Logins /\ Sid(r) # l /\ lpc'[Sid(r)] = "answered"
      BY <2>4, OnItsWay DEF GoneIsGone
    <3>2. minted'[l][1].device = "own" /\ Len(minted'[l]) = 1
      BY <2>2 DEF TypeOK
    <3>3. ASSUME NEW s \in live', NEW n \in 1..Len(minted'[s])
          PROVE  minted'[s][n].device # "gone"
      <4>1. CASE s = l
        BY <3>2, <4>1
      <4>2. CASE s # l
        BY <2>2, <4>2, <3>3 DEF GoneIsGone, NoSelfEviction, TypeOK
      <4> QED BY <4>1, <4>2
    <3> QED BY <2>2, <3>1, <3>3 DEF GoneIsGone, NoSelfEviction, Sid
  <2>8. DeletionCovers'
    BY <2>2, <2>4 DEF DeletionCovers, Sid, TypeOK
  <2> QED BY <2>3, <2>5, <2>6, <2>7, <2>8
<1> QED BY <1>1, <1>2 DEF Login

LEMMA TimeStep ==
  ASSUME SessionInv, NEW l \in Logins, KeyExpires(l) \/ Ages(l)
  PROVE  SessionInv'
<1> USE DEF SessionInv, user, request
<1>1. TypeOK'
  BY DEF TypeOK, KeyExpires, Ages, Remove
<1>2. live' \subseteq live /\ ended \subseteq ended' /\ live' \cap ended' = {}
      /\ live' \cup ended' \subseteq live \cup ended
  BY DEF KeyExpires, Ages, Remove, KeysSetOnce
<1>3. UNCHANGED <<lpc, minted, deleted, pc, kind, token, device, scanned, late, had>>
  BY DEF KeyExpires, Ages
<1>4. KeysSetOnce'
  BY <1>2, <1>3 DEF KeysSetOnce
<1>5. LateRequests'
  BY <1>2, <1>3 DEF LateRequests, Sid
<1>6. GoneIsGone'
  BY <1>2, <1>3 DEF GoneIsGone, NoSelfEviction, Sid
<1>7. DeletionCovers'
  BY <1>2, <1>3 DEF DeletionCovers, Sid
<1> QED BY <1>1, <1>4, <1>5, <1>6, <1>7

-----------------------------------------------------------------------------
(* The steps of requests                                                   *)

\* What a request may do next at the label q.
MayGo(r, q) ==
  /\ q \in {"exists", "device", "mint"} => kind[r] = "refresh" /\ lpc[Sid(r)] = "answered"
  /\ q \in {"verify", "update"} => kind[r] = "delete"
  /\ late[r] /\ kind[r] = "refresh" => q \in {"exists", "refused", "lost"}
  /\ late[r] /\ kind[r] \in {"use", "delete"} =>
       /\ q \in {"blacklist", "session", "user", "refused", "lost"}
       /\ q = "user" => Owner[Sid(r)] \in deleted
  /\ q = "mint" /\ device[r] = "gone" => Sid(r) \notin live'
  /\ had[r] # {} => q \in {"revoke", "scan", "sweep", "deleted", "unswept", "lost"}
  /\ q = "sweep"   => had[r] \cap live' \subseteq scanned[r]
  /\ q = "deleted" => had[r] \cap live' = {}

\* A request goes to where it may, and at most removes sessions.
LEMMA Moves ==
  ASSUME SessionInv, NEW r \in Requests, pc[r] # "idle",
         NEW q \in Labels, pc' = [pc EXCEPT ![r] = q],
         UNCHANGED <<lpc, old, minted, deleted, kind, token, device, scanned, late, had>>,
         revoked' \subseteq Token,
         (UNCHANGED <<live, ended>>) \/ \E S \in SUBSET Logins : Remove(S),
         MayGo(r, q)
  PROVE  SessionInv'
<1> USE DEF SessionInv
<1>1. /\ live' \subseteq live /\ ended \subseteq ended' /\ live' \cap ended' = {}
      /\ live' \cup ended' \subseteq live \cup ended
  BY DEF Remove, KeysSetOnce
<1>2. TypeOK'
  BY <1>1 DEF TypeOK, Labels
<1>3. KeysSetOnce'
  BY <1>1 DEF KeysSetOnce
<1>4. \A x \in Requests : pc'[x] = IF x = r THEN q ELSE pc[x]
  BY DEF TypeOK
<1>5. LateRequests'
  BY <1>1, <1>4 DEF LateRequests, Sid, MayGo
<1>6. GoneIsGone'
  BY <1>1, <1>4 DEF GoneIsGone, NoSelfEviction, Sid, MayGo
<1>7. DeletionCovers'
  BY <1>1, <1>4 DEF DeletionCovers, Sid, MayGo
<1> QED BY <1>2, <1>3, <1>5, <1>6, <1>7

LEMMA MiddlewareStep ==
  ASSUME SessionInv, NEW r \in Requests, Middleware(r) \/ Refuse(r) \/ Lost(r)
  PROVE  SessionInv'
<1> USE DEF SessionInv
<1>0. pc[r] # "idle" /\ UNCHANGED <<user, minted, request>> /\ revoked' \subseteq Token
  BY DEF Middleware, Refuse, Lost, CheckBlacklist, SessionValid, SessionDropped,
         SessionLocked, CheckUser, TypeOK
<1>1. kind[r] \in Kinds /\ Sid(r) \in Logins
  BY <1>0, OnItsWay
<1>2. (UNCHANGED <<live, ended>>) \/ \E S \in SUBSET Logins : Remove(S)
  BY <1>1 DEF Middleware, Refuse, Lost, CheckBlacklist, SessionValid, SessionDropped,
         SessionLocked, CheckUser
<1>3. PICK q \in Labels : pc' = [pc EXCEPT ![r] = q] /\ MayGo(r, q)
  <2>1. CASE Refuse(r) \/ Lost(r) \/ SessionDropped(r) \/ SessionLocked(r)
    <3>1. \E q \in {"refused", "lost"} : pc' = [pc EXCEPT ![r] = q]
      BY <2>1 DEF Refuse, Lost, SessionDropped, SessionLocked, Goto
    <3>2. had[r] = {} \/ pc' = [pc EXCEPT ![r] = "lost"]
      BY <2>1 DEF Refuse, Lost, SessionDropped, SessionLocked, Goto, DeletionCovers
    <3> QED BY <3>1, <3>2 DEF MayGo, Labels
  <2>2. CASE CheckBlacklist(r)
    <3>1. \E q \in {"session", "refused"} : pc' = [pc EXCEPT ![r] = q]
      BY <2>2 DEF CheckBlacklist, Goto
    <3>2. ~(late[r] /\ kind[r] = "refresh")
      BY <2>2 DEF CheckBlacklist, LateRequests
    <3> QED BY <2>2, <3>1, <3>2 DEF MayGo, Labels, CheckBlacklist, DeletionCovers
  <2>3. CASE SessionValid(r)
    <3>1. pc' = [pc EXCEPT ![r] = "user"] /\ pc[r] = "session" /\ Sid(r) \in live
      BY <2>3 DEF SessionValid, Goto
    <3> QED BY <3>1 DEF MayGo, Labels, LateRequests, KeysSetOnce, DeletionCovers
  <2>4. CASE CheckUser(r)
    <3>0. had[r] = {}
      BY <2>4 DEF CheckUser, DeletionCovers
    <3>1. CASE Owner[Sid(r)] \in deleted
      BY <2>4, <3>0, <3>1 DEF CheckUser, Goto, MayGo, Labels
    <3>2. CASE Owner[Sid(r)] \notin deleted
      <4>1. ~late[r] \/ kind[r] = "logout"
        BY <1>1, <2>4, <3>2 DEF CheckUser, LateRequests, Kinds
      <4>2. \E q \in {"verify", "served"} : pc' = [pc EXCEPT ![r] = q]
                                         /\ (q = "verify" => kind[r] = "delete")
        BY <2>4, <3>2 DEF CheckUser, LetIn, Goto
      <4> QED BY <3>0, <4>1, <4>2 DEF MayGo, Labels
    <3> QED BY <3>1, <3>2
  <2> QED BY <2>1, <2>2, <2>3, <2>4 DEF Middleware
<1> HIDE DEF SessionInv
<1> QED BY <1>0, <1>2, <1>3, Moves DEF user, request

LEMMA BeginStep ==
  ASSUME SessionInv, NEW r \in Requests, NEW k \in Kinds, NEW l \in Logins,
         NEW g \in 1..Generations, Begin(r, k, [sid |-> l, gen |-> g])
  PROVE  SessionInv'
<1> USE DEF SessionInv, user
<1> DEFINE t == [sid |-> l, gen |-> g]
           q == CASE k = "refresh" -> "exists" [] k = "logout" -> "drop"
                  [] OTHER -> "blacklist"
<1>1. t \in Token /\ t.sid = l /\ t.gen = g
  BY DEF Token
<1>2. lpc[l] = "answered"
  BY <1>1, TokenAnswered DEF Begin
<1>3. /\ pc[r] = "idle" /\ pc' = [pc EXCEPT ![r] = q]
      /\ kind' = [kind EXCEPT ![r] = k] /\ token' = [token EXCEPT ![r] = t]
      /\ late' = [late EXCEPT ![r] = \/ l \in ended
                                     \/ (k # "refresh" /\ Owner[l] \in deleted)]
      /\ UNCHANGED <<lpc, old, deleted, live, minted, revoked, device, scanned, ended, had>>
  BY <1>1 DEF Begin, Goto
<1>4. q \in Labels /\ q \in {"exists", "drop", "blacklist"}
      /\ (q = "exists" <=> k = "refresh") /\ (k \in {"use", "delete"} => q = "blacklist")
  BY DEF Labels, Kinds
<1> HIDE DEF q, t
<1>5. TypeOK'
  BY <1>1, <1>3, <1>4 DEF TypeOK, Labels
<1>6. KeysSetOnce'
  BY <1>3 DEF KeysSetOnce
<1>7. /\ pc'[r] = q /\ kind'[r] = k /\ token'[r] = t
      /\ late'[r] = (l \in ended \/ (k # "refresh" /\ Owner[l] \in deleted))
      /\ \A x \in Requests \ {r} : /\ pc'[x] = pc[x] /\ kind'[x] = kind[x]
                                  /\ token'[x] = token[x] /\ late'[x] = late[x]
  BY <1>3 DEF TypeOK
<1>8. LateRequests'
  <2>1. ASSUME NEW x \in Requests, x # r
        PROVE  /\ pc'[x] = pc[x] /\ kind'[x] = kind[x] /\ token'[x] = token[x]
               /\ late'[x] = late[x]
    BY <1>7, <2>1
  <2>2. ASSUME NEW x \in Requests
        PROVE  /\ pc'[x] # "idle" => kind'[x] \in Kinds /\ token'[x] \in Token
               /\ pc'[x] \in {"exists", "device", "mint"} => kind'[x] = "refresh"
               /\ pc'[x] \in {"verify", "update"} => kind'[x] = "delete"
    BY <1>1, <1>4, <1>7, <2>1 DEF LateRequests
  <2>3. ASSUME NEW x \in Requests, late'[x], kind'[x] = "refresh"
        PROVE  token'[x].sid \in ended /\ pc'[x] \in {"exists", "refused", "lost"}
    BY <1>1, <1>4, <1>7, <2>1, <2>3 DEF LateRequests, Sid
  <2>4. ASSUME NEW x \in Requests, late'[x], kind'[x] \in {"use", "delete"}
        PROVE  /\ pc'[x] \in {"blacklist", "session", "user", "refused", "lost"}
               /\ token'[x].sid \in ended \/ Owner[token'[x].sid] \in deleted
               /\ pc'[x] = "user" => Owner[token'[x].sid] \in deleted
    BY <1>1, <1>4, <1>7, <2>1, <2>4 DEF LateRequests, Sid
  <2> QED BY <1>3, <2>2, <2>3, <2>4 DEF LateRequests, Sid
<1>9. GoneIsGone'
  <2>1. \A x \in Requests : pc'[x] \in {"exists", "device", "mint"} =>
          lpc[token'[x].sid] = "answered"
    BY <1>1, <1>2, <1>7 DEF GoneIsGone, Sid
  <2>2. \A x \in Requests : pc'[x] = "mint" /\ device[x] = "gone" => token'[x].sid \notin live
    BY <1>4, <1>7 DEF GoneIsGone, Sid
  <2> QED BY <1>3, <2>1, <2>2 DEF GoneIsGone, NoSelfEviction, Sid
<1>10. DeletionCovers'
  <2>1. had[r] = {}
    BY <1>3 DEF DeletionCovers
  <2> QED BY <1>3, <1>4, <1>7, <2>1 DEF DeletionCovers, Sid
<1> QED BY <1>5, <1>6, <1>8, <1>9, <1>10

\* The steps of RefreshToken, LogoutUser and DeleteUserProfile that only move
\* on and remove sessions.
LEMMA SimpleHandlerStep ==
  ASSUME SessionInv, NEW r \in Requests,
         \/ RefreshExists(r) \/ LogoutDrops(r) \/ Revoke(r)
         \/ DeleteVerifies(r) \/ Sweep(r) \/ SweepFails(r)
  PROVE  SessionInv'
<1> USE DEF SessionInv
<1>0. pc[r] # "idle" /\ UNCHANGED <<user, minted, request>>
  BY DEF RefreshExists, LogoutDrops, Revoke, DeleteVerifies, Sweep, SweepFails
<1>1. kind[r] \in Kinds /\ token[r] \in Token /\ Sid(r) \in Logins
  BY <1>0, OnItsWay
<1>2. revoked' \subseteq Token
  BY <1>1 DEF RefreshExists, LogoutDrops, Revoke, DeleteVerifies, Sweep, SweepFails, TypeOK
<1>3. (UNCHANGED <<live, ended>>) \/ \E S \in SUBSET Logins : Remove(S)
  BY <1>1 DEF RefreshExists, LogoutDrops, Revoke, DeleteVerifies, Sweep, SweepFails, TypeOK
<1>4. PICK q \in Labels : pc' = [pc EXCEPT ![r] = q] /\ MayGo(r, q)
  <2>1. CASE RefreshExists(r)
    <3>1. had[r] = {} /\ kind[r] = "refresh" /\ lpc[Sid(r)] = "answered"
      BY <2>1 DEF RefreshExists, DeletionCovers, LateRequests, GoneIsGone
    <3>2. CASE Sid(r) \in live
      <4>1. ~late[r]
        BY <3>1, <3>2 DEF LateRequests, KeysSetOnce
      <4> QED BY <2>1, <3>1, <3>2, <4>1 DEF RefreshExists, Goto, MayGo, Labels
    <3>3. CASE Sid(r) \notin live
      BY <2>1, <3>1, <3>3 DEF RefreshExists, Goto, MayGo, Labels
    <3> QED BY <3>2, <3>3
  <2>2. CASE LogoutDrops(r) \/ DeleteVerifies(r)
    <3>1. had[r] = {} /\ (~late[r] \/ kind[r] = "logout")
      BY <1>1, <2>2 DEF LogoutDrops, DeleteVerifies, DeletionCovers, LateRequests, Kinds
    <3>2. \E q \in {"revoke", "update"} : pc' = [pc EXCEPT ![r] = q]
                                       /\ (q = "update" => kind[r] = "delete")
      BY <2>2 DEF LogoutDrops, DeleteVerifies, Goto, LateRequests
    <3> QED BY <3>1, <3>2 DEF MayGo, Labels
  <2>3. CASE Revoke(r)
    <3>1. (~late[r] \/ kind[r] = "logout") /\ (kind[r] = "logout" => had[r] = {})
      BY <1>1, <2>3 DEF Revoke, DeletionCovers, LateRequests, Kinds
    <3>2. \/ kind[r] = "logout" /\ pc' = [pc EXCEPT ![r] = "done"]
          \/ kind[r] # "logout" /\ pc' = [pc EXCEPT ![r] = "scan"]
      BY <2>3 DEF Revoke, Goto
    <3> QED BY <3>1, <3>2 DEF MayGo, Labels
  <2>4. CASE Sweep(r)
    <3>1. pc[r] = "sweep" /\ pc' = [pc EXCEPT ![r] = "deleted"]
      BY <2>4 DEF Sweep, Goto
    <3>2. ~late[r] \/ kind[r] = "logout"
      BY <1>1, <3>1 DEF LateRequests, Kinds
    <3>3. had[r] \cap live' = {}
      BY <2>4, <3>1 DEF Sweep, Remove, DeletionCovers
    <3> QED BY <3>1, <3>2, <3>3 DEF MayGo, Labels
  <2>5. CASE SweepFails(r)
    <3>1. pc[r] \in {"scan", "sweep"} /\ pc' = [pc EXCEPT ![r] = "unswept"]
      BY <2>5 DEF SweepFails, Goto
    <3>2. ~late[r] \/ kind[r] = "logout"
      BY <1>1, <3>1 DEF LateRequests, Kinds
    <3> QED BY <3>1, <3>2 DEF MayGo, Labels
  <2> QED BY <2>1, <2>2, <2>3, <2>4, <2>5
<1> HIDE DEF SessionInv
<1> QED BY <1>0, <1>2, <1>3, <1>4, Moves DEF user, request

LEMMA RefreshReadsStep ==
  ASSUME SessionInv, NEW r \in Requests, RefreshReads(r)
  PROVE  SessionInv'
<1> USE DEF SessionInv, user
<1>1. PICK d \in {"unread", IF Sid(r) \in live THEN "own" ELSE "gone"} :
        device' = [device EXCEPT ![r] = d]
  BY DEF RefreshReads
<1>2. /\ pc[r] = "device" /\ pc' = [pc EXCEPT ![r] = "mint"]
      /\ UNCHANGED <<lpc, old, deleted, live, minted, revoked, kind, token, scanned, late,
                     had, ended>>
  BY DEF RefreshReads, Goto
<1>3. d \in Devices /\ (d = "gone" => Sid(r) \notin live)
  BY DEF Devices
<1>4. kind[r] = "refresh" /\ ~late[r] /\ lpc[Sid(r)] = "answered" /\ had[r] = {}
  BY <1>2 DEF LateRequests, GoneIsGone, DeletionCovers
<1>5. /\ pc'[r] = "mint" /\ device'[r] = d
      /\ \A x \in Requests \ {r} : pc'[x] = pc[x] /\ device'[x] = device[x]
  BY <1>1, <1>2 DEF TypeOK
<1>6. TypeOK'
  BY <1>1, <1>2, <1>3 DEF TypeOK
<1>7. KeysSetOnce'
  BY <1>2 DEF KeysSetOnce
<1>8. LateRequests'
  BY <1>2, <1>4, <1>5 DEF LateRequests, Sid
<1>9. GoneIsGone'
  BY <1>2, <1>3, <1>4, <1>5 DEF GoneIsGone, NoSelfEviction, Sid
<1>10. DeletionCovers'
  BY <1>2, <1>4, <1>5 DEF DeletionCovers, Sid
<1> QED BY <1>6, <1>7, <1>8, <1>9, <1>10

LEMMA RefreshMintsStep ==
  ASSUME SessionInv, NEW r \in Requests, RefreshMints(r)
  PROVE  SessionInv'
<1> USE DEF SessionInv, user, request
<1> DEFINE s == Sid(r)
           m == [device |-> device[r], parent |-> token[r].gen]
           M == [device : Devices, parent : Nat]
<1>1. /\ pc[r] = "mint" /\ pc' = [pc EXCEPT ![r] = "served"]
      /\ minted' = [minted EXCEPT ![s] = Append(@, m)]
      /\ UNCHANGED <<lpc, old, deleted, live, revoked, kind, token, device, scanned, late,
                     had, ended>>
  BY DEF RefreshMints, Mint, Goto
<1>2. kind[r] = "refresh" /\ ~late[r] /\ lpc[s] = "answered" /\ had[r] = {}
  BY <1>1 DEF LateRequests, GoneIsGone, DeletionCovers
<1>3. s \in Logins /\ m \in M /\ (device[r] = "gone" => s \notin live)
  BY <1>1, OnItsWay DEF TypeOK, GoneIsGone, Token
<1>4. minted[s] \in Seq(M)
  BY <1>3 DEF TypeOK
<1>5. /\ Append(minted[s], m) \in Seq(M) /\ Len(Append(minted[s], m)) = Len(minted[s]) + 1
      /\ Append(minted[s], m)[Len(minted[s]) + 1] = m
      /\ \A n \in 1..Len(minted[s]) : Append(minted[s], m)[n] = minted[s][n]
  <2> HIDE DEF m, M
  <2> QED BY <1>3, <1>4, AppendProperties
<1>6. /\ minted'[s] = Append(minted[s], m)
      /\ \A x \in Logins \ {s} : minted'[x] = minted[x]
  BY <1>1, <1>3 DEF TypeOK
<1>7. /\ pc'[r] = "served" /\ \A x \in Requests \ {r} : pc'[x] = pc[x]
  BY <1>1 DEF TypeOK
<1>8. TypeOK'
  <2>1. minted' \in [Logins -> Seq(M)]
    <3> HIDE DEF m, M
    <3>1. minted \in [Logins -> Seq(M)]
      BY DEF TypeOK, M
    <3> QED BY <1>1, <1>5, <3>1
  <2> QED BY <1>1, <2>1 DEF TypeOK
<1>9. KeysSetOnce'
  BY <1>1, <1>2, <1>6 DEF KeysSetOnce
<1>10. LateRequests'
  BY <1>1, <1>2, <1>7 DEF LateRequests, Sid
<1>11. GoneIsGone'
  <2>1. ASSUME NEW x \in live, NEW n \in 1..Len(minted'[x])
        PROVE  minted'[x][n].device # "gone"
    <3>0. x \in Logins
      BY DEF TypeOK
    <3>1. CASE x # s
      BY <1>6, <2>1, <3>0, <3>1 DEF GoneIsGone, NoSelfEviction
    <3>2. CASE x = s /\ n \in 1..Len(minted[s])
      BY <1>5, <1>6, <3>2 DEF GoneIsGone, NoSelfEviction
    <3>3. CASE x = s /\ n = Len(minted[s]) + 1
      BY <1>3, <1>5, <1>6, <3>3
    <3>4. Len(minted[s]) \in Nat
      BY <1>4, LenProperties
    <3> HIDE DEF s, m, M
    <3>5. x = s => n \in 1..Len(minted[s]) \/ n = Len(minted[s]) + 1
      BY <1>5, <1>6, <2>1, <3>4
    <3> QED BY <3>1, <3>2, <3>3, <3>5
  <2> QED BY <1>1, <1>7, <2>1 DEF GoneIsGone, NoSelfEviction, Sid
<1>12. DeletionCovers'
  BY <1>1, <1>2, <1>7 DEF DeletionCovers, Sid
<1> QED BY <1>8, <1>9, <1>10, <1>11, <1>12

LEMMA SoftDeleteStep ==
  ASSUME SessionInv, NEW r \in Requests, SoftDelete(r)
  PROVE  SessionInv'
<1> USE DEF SessionInv
<1>1. /\ pc[r] = "update" /\ pc' = [pc EXCEPT ![r] = "revoke"]
      /\ deleted' = deleted \cup {Owner[Sid(r)]}
      /\ had' = [had EXCEPT ![r] = Answered(Owner[Sid(r)])]
      /\ UNCHANGED <<lpc, old, live, minted, revoked, kind, token, device, scanned, late,
                     ended>>
  BY DEF SoftDelete, Goto
<1>2. kind[r] = "delete" /\ ~late[r] /\ Sid(r) \in Logins
  <2>1. kind[r] = "delete" /\ ~late[r]
    BY <1>1 DEF LateRequests
  <2> QED BY <1>1, <2>1, OnItsWay
<1>3. Answered(Owner[Sid(r)]) = {l \in Logins : Owner[l] = Owner[Sid(r)] /\ lpc[l] = "answered"}
  BY DEF Answered, SessionsOf
<1>4. /\ pc'[r] = "revoke" /\ had'[r] = Answered(Owner[Sid(r)])
      /\ \A x \in Requests \ {r} : pc'[x] = pc[x] /\ had'[x] = had[x]
  BY <1>1 DEF TypeOK
<1>5. TypeOK'
  <2>1. Owner[Sid(r)] \in Users /\ Answered(Owner[Sid(r)]) \subseteq Logins
    <3> DEFINE u == Owner[Sid(r)]
    <3>1. u \in Users
      BY <1>2, OwnerAssumption
    <3> HIDE DEF u
    <3>2. Answered(u) \subseteq Logins
      BY DEF Answered, SessionsOf
    <3> QED BY <3>1, <3>2 DEF u
  <2>2. deleted' \in SUBSET Users /\ had' \in [Requests -> SUBSET Logins]
    BY <1>1, <2>1 DEF TypeOK
  <2>3. pc' \in [Requests -> Labels]
    BY <1>1 DEF TypeOK, Labels
  <2> QED BY <1>1, <2>2, <2>3 DEF TypeOK, Labels
<1>6. KeysSetOnce'
  BY <1>1 DEF KeysSetOnce
<1>7. LateRequests'
  BY <1>1, <1>2, <1>4 DEF LateRequests, Sid
<1>8. GoneIsGone'
  BY <1>1, <1>4 DEF GoneIsGone, NoSelfEviction, Sid
<1>9. DeletionCovers'
  BY <1>1, <1>2, <1>3, <1>4 DEF DeletionCovers, Sid
<1> QED BY <1>5, <1>6, <1>7, <1>8, <1>9

LEMMA ScanStartsStep ==
  ASSUME SessionInv, NEW r \in Requests, ScanStarts(r)
  PROVE  SessionInv'
<1> USE DEF SessionInv, user
<1>1. /\ pc[r] = "scan" /\ pc' = [pc EXCEPT ![r] = "sweep"]
      /\ scanned' = [scanned EXCEPT ![r] = live \cap SessionsOf(Owner[Sid(r)])]
      /\ UNCHANGED <<lpc, old, deleted, live, minted, revoked, kind, token, device, late, had,
                     ended>>
  BY DEF ScanStarts, Goto
<1>2. /\ pc'[r] = "sweep" /\ scanned'[r] = live \cap SessionsOf(Owner[Sid(r)])
      /\ \A x \in Requests \ {r} : pc'[x] = pc[x] /\ scanned'[x] = scanned[x]
  BY <1>1 DEF TypeOK
<1>3. TypeOK'
  BY <1>1 DEF TypeOK, SessionsOf
<1>4. KeysSetOnce'
  BY <1>1 DEF KeysSetOnce
<1>5. LateRequests'
  BY <1>1, <1>2 DEF LateRequests, Sid
<1>6. GoneIsGone'
  BY <1>1, <1>2 DEF GoneIsGone, NoSelfEviction, Sid
<1>7. had[r] \cap live \subseteq SessionsOf(Owner[Sid(r)])
  BY DEF DeletionCovers, SessionsOf, TypeOK
<1>8. DeletionCovers'
  BY <1>1, <1>2, <1>7 DEF DeletionCovers, Sid
<1> QED BY <1>3, <1>4, <1>5, <1>6, <1>8

-----------------------------------------------------------------------------
(* The theorems                                                            *)

\* The invariant holds at the start and is kept by every step: what keeps a
\* session over once it is over, whichever handlers overlap.
THEOREM InductiveInvariant == Spec => []SessionInv
<1>1. Init => SessionInv
  <2> SUFFICES ASSUME Init PROVE SessionInv
    OBVIOUS
  <2> USE DEF Init
  <2>1. TypeOK
    BY DEF TypeOK, NoToken, Devices
  <2>2. KeysSetOnce
    BY DEF KeysSetOnce
  <2>3. LateRequests
    BY DEF LateRequests
  <2>4. GoneIsGone
    BY DEF GoneIsGone, NoSelfEviction
  <2>5. DeletionCovers
    BY DEF DeletionCovers
  <2> QED BY <2>1, <2>2, <2>3, <2>4, <2>5 DEF SessionInv
<1>2. SessionInv /\ [Next]_vars => SessionInv'
  <2> SUFFICES ASSUME SessionInv, [Next]_vars PROVE SessionInv'
    OBVIOUS
  <2>1. CASE UNCHANGED vars
    <3> USE <2>1 DEF vars, SessionInv, Sid
    <3>1. TypeOK'
      BY DEF TypeOK
    <3>2. KeysSetOnce' /\ LateRequests'
      BY DEF KeysSetOnce, LateRequests
    <3>3. GoneIsGone' /\ DeletionCovers'
      BY DEF GoneIsGone, NoSelfEviction, DeletionCovers
    <3> QED BY <3>1, <3>2, <3>3
  <2>2. ASSUME NEW l \in Logins, Login(l) \/ KeyExpires(l) \/ Ages(l)
        PROVE  SessionInv'
    BY <2>2, LoginStep, TimeStep
  <2>3. ASSUME NEW r \in Requests, NEW k \in Kinds, NEW l \in Logins,
               NEW g \in 1..Generations, Begin(r, k, [sid |-> l, gen |-> g])
        PROVE  SessionInv'
    BY <2>3, BeginStep
  <2>4. ASSUME NEW r \in Requests, Middleware(r) \/ Refuse(r) \/ Lost(r)
        PROVE  SessionInv'
    BY <2>4, MiddlewareStep
  <2>5. ASSUME NEW r \in Requests, Handler(r)
        PROVE  SessionInv'
    BY <2>5, SimpleHandlerStep, RefreshReadsStep, RefreshMintsStep, SoftDeleteStep,
       ScanStartsStep DEF Handler
  <2> QED BY <2>1, <2>2, <2>3, <2>4, <2>5 DEF Next
<1> QED BY <1>1, <1>2, PTL DEF Spec

\* Types of the sessions' state.
THEOREM TypeCorrect == Spec => []TypeOK
<1>1. SessionInv => TypeOK
  BY DEF SessionInv
<1> QED BY <1>1, InductiveInvariant, PTL

\* What began when its session, or its user, was over gets nothing
\* (AuthSessionMiddleware, RefreshToken).
THEOREM EndedStaysEnded == Spec => []EndedForGood
<1>1. SessionInv => EndedForGood
  BY DEF SessionInv, TypeOK, LateRequests, EndedForGood, Kinds, None
<1> QED BY <1>1, InductiveInvariant, PTL

\* RefreshToken gives no live session a token that would end it.
THEOREM NoneEvictsItself == Spec => []NoSelfEviction
<1>1. SessionInv => NoSelfEviction
  BY DEF SessionInv, GoneIsGone
<1> QED BY <1>1, InductiveInvariant, PTL

\* DeleteUserProfile leaves no session its user had.
THEOREM DeletionEndsAll == Spec => []DeletionEndsSessions
<1>1. SessionInv => DeletionEndsSessions
  BY DEF SessionInv, DeletionCovers, DeletionEndsSessions
<1> QED BY <1>1, InductiveInvariant, PTL

=============================================================================

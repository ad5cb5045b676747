----------------------------- MODULE CodeProofs -----------------------------
(***************************************************************************)
(* Proofs about codes that let in once.                                    *)
(*                                                                         *)
(* About OneTimeCode, for any users, requests and digits: a code that is   *)
(* over lets nobody in, only who was let in deletes one, and a token is    *)
(* processed once.                                                         *)
(*                                                                         *)
(* About UssdCode, for any users, requests, digits and limits: types       *)
(* and the invariant UssdInv, and from it that a code is consumed once,    *)
(* that the digits a user was given stay his, and that no window admits    *)
(* more than the limit.                                                    *)
(***************************************************************************)
EXTENDS OneTimeCode, UssdCode, Sums, TLAPS

-----------------------------------------------------------------------------
(* One-time codes                                                          *)

Labels ==
  {"idle", "get", "set", "send", "store", "draw", "read", "delete", "scan", "match",
   "update", "forget", "fetch", "seen", "mark", "drop", "validate", "commit", "clear"}
  \cup Ends

USE CodesAssumption

\* The initial states keep the invariant.
LEMMA Initially == Init => CodesInv
BY DEF Init, CodesInv, TypeOK, KeysHoldLive, Placed, DelFinds, ReplayHeld, DeadStaysDead,
       DeletedByUse, ProcessedOnce, Granted, Unissued, Ends

\* The stored codes are requests past the storing of their own.
LEMMA Issued ==
  ASSUME CodesInv
  PROVE  /\ \A u \in Users : otp[u] # None => otp[u] \in Requests
         /\ \A u \in Users : reset[u] # None => reset[u] \in Requests
BY DEF CodesInv, TypeOK

\* What a request may do next, at the label q and having picked z, the keys
\* as they are.
MayGo(r, q, z) ==
  /\ q \notin {"idle", "get", "set", "draw"}
  /\ q = "store" => pc[r] = "get"
  /\ q = "send"  => z # None /\ pc[z] \notin Unissued
  /\ q = "delete" => otp[user[r]] \in {None, z} \cup after[r] /\ user[z] = user[r]
  /\ q \in {"update", "forget"} =>
       z # None /\ user[z] \in Users /\ reset[user[z]] \in {None, z} \cup after[r]
  /\ q \in {"seen", "mark", "drop", "commit", "clear"} => z = code[r]
  /\ q \in {"fetch", "seen", "mark", "drop"} => pc[code[r]] \notin Unissued
  /\ q = "drop" => code[r] \in nonce \/ token[code[r]] = None
  /\ q = "seen" /\ code[r] \in replay[r] => code[r] \in nonce
  /\ q \in Granted => z # None /\ Value[z] = Value[code[r]] /\ z \notin stale[r]
  /\ q \in {"mark", "drop", "processed"} => code[r] \notin replay[r]

\* A request moves on, and at most tells of a code that was issued.
LEMMA Moves ==
  ASSUME CodesInv, NEW r \in Requests, NEW q \in Labels, NEW z \in Requests \cup {None},
         pc[r] \notin {"idle"} \cup Ends,
         pc' = [pc EXCEPT ![r] = q], picked' = [picked EXCEPT ![r] = z],
         scanned' \in [Requests -> SUBSET Users],
         known \subseteq known', known' \subseteq Requests,
         \A i \in known' \ known : pc[i] \notin Unissued,
         UNCHANGED <<flow, keys, request, deaths, spent, after>>,
         MayGo(r, q, z)
  PROVE  CodesInv'
<1> USE DEF CodesInv, keys, request, deaths
<1>1. TypeOK'
  BY DEF TypeOK, Labels
<1>2. \A x \in Requests : /\ pc'[x] = IF x = r THEN q ELSE pc[x]
                          /\ picked'[x] = IF x = r THEN z ELSE picked[x]
  BY DEF TypeOK
<1>3. \A x \in Requests : pc[x] \notin Unissued => pc'[x] \notin Unissued
  BY <1>2 DEF MayGo, Unissued
<1>4. KeysHoldLive'
  BY <1>3 DEF KeysHoldLive, TypeOK
<1>5. Placed'
  <2>1. \A i \in dead' \cup known' \cup spent' : pc'[i] \notin Unissued
    BY <1>3 DEF Placed, TypeOK
  <2>2. ASSUME NEW x \in Requests, pc'[x] = "send"
        PROVE  picked'[x] # None /\ pc'[picked'[x]] \notin Unissued
    BY <1>2, <1>3, <2>2 DEF Placed, MayGo, TypeOK
  <2>3. ASSUME NEW x \in Requests
        PROVE  /\ stale'[x] \subseteq dead' /\ replay'[x] \subseteq spent'
               /\ pc'[x] \in {"fetch", "seen", "mark", "drop"} => pc'[code'[x]] \notin Unissued
               /\ pc'[x] = "idle" <=> kind'[x] = None
               /\ pc'[x] = "idle" => user'[x] = None
               /\ pc'[x] # "idle" => user'[x] \in Users /\ code'[x] \in Requests
               /\ pc'[x] = "set" => kind'[x] = "otp"
               /\ pc'[x] \in {"get", "store"} => kind'[x] = "forgot"
               /\ pc'[x] = "draw" => kind'[x] = "qr"
    BY <1>2, <1>3 DEF Placed, MayGo, TypeOK, Unissued
  <2> QED BY <2>1, <2>2, <2>3 DEF Placed
<1>6. DelFinds'
  BY <1>2 DEF DelFinds, MayGo, Found
<1>7. ReplayHeld'
  BY <1>2 DEF ReplayHeld, MayGo
<1>8. DeadStaysDead' /\ ProcessedOnce'
  BY <1>2 DEF DeadStaysDead, ProcessedOnce, MayGo
<1>9. DeletedByUse'
  BY <1>2 DEF DeletedByUse, TypeOK, Ends
<1> QED BY <1>1, <1>4, <1>5, <1>6, <1>7, <1>8, <1>9


Used == {"accepted", "changed", "processed", "paid"}

\* A use has been let in by a code with the digits it brought.
LEMMA UsedGranted ==
  /\ Used = {"accepted", "changed", "processed", "paid"}
  /\ DeadStaysDead => \A r \in Requests : pc[r] \in Used =>
       picked[r] # None /\ Value[picked[r]] = Value[code[r]]
  /\ DeadStaysDead' => \A r \in Requests : pc'[r] \in Used =>
       picked'[r] # None /\ Value[picked'[r]] = Value[code'[r]]
BY DEF Used, DeadStaysDead, Granted

\* The keys lose codes; a request deletes at most what it has read or what
\* was stored since.
LEMMA Loses ==
  ASSUME CodesInv, pc' \in [Requests -> Labels],
         \A x \in Requests :
            \/ pc'[x] = pc[x]
            \/ /\ pc[x] \notin {"idle"} \cup Ends /\ pc'[x] \in Used \cup {"refused"}
               /\ MayGo(x, pc'[x], picked[x]),
         otp' \in [Users -> Requests \cup {None}],
         reset' \in [Users -> Requests \cup {None}],
         token' \in [Requests -> {"fresh", "over", None}],
         \A u \in Users : otp'[u] \in {otp[u], None} /\ reset'[u] \in {reset[u], None},
         \A i \in Requests : token[i] = None => token'[i] = None,
         dead \subseteq dead', dead' \subseteq Requests,
         \A i \in dead' \ dead : /\ pc[i] \notin Unissued /\ token'[i] = None
                                 /\ \A u \in Users : otp'[u] # i /\ reset'[u] # i,
         spent \subseteq spent', spent' \subseteq Requests,
         \A i \in spent' \ spent : /\ i \in nonce \/ token'[i] = None
                                   /\ pc[i] \notin Unissued,
         killer' \in [Requests -> Requests \cup {None}],
         \A i \in Requests :
            \/ killer'[i] = killer[i]
            \/ /\ killer'[i] \in Requests /\ pc'[killer'[i]] \in Used
               /\ i = picked[killer'[i]] \/ i \in after[killer'[i]]
               /\ user[i] \in Users /\ user[i] = user[picked[killer'[i]]],
         UNCHANGED <<flow, nonce, known, request, picked, scanned, after>>
  PROVE  CodesInv'
<1> USE DEF CodesInv, request
<1>1. TypeOK'
  BY DEF TypeOK, Labels
<1>3. /\ \A x \in Requests : pc[x] \notin Unissued => pc'[x] \notin Unissued
      /\ \A x \in Requests : pc'[x] = pc[x] \/ pc'[x] \in Used \cup {"refused"}
  BY DEF Unissued, Used
<1>4. KeysHoldLive'
  BY <1>3 DEF KeysHoldLive, TypeOK
<1>5. Placed'
  <2>1. \A i \in dead' \cup known' \cup spent' : pc'[i] \notin Unissued
    BY <1>3 DEF Placed, TypeOK
  <2>2. ASSUME NEW x \in Requests
        PROVE  /\ stale'[x] \subseteq dead' /\ replay'[x] \subseteq spent'
               /\ pc'[x] \in {"fetch", "seen", "mark", "drop"} => pc'[code'[x]] \notin Unissued
               /\ pc'[x] = "idle" <=> kind'[x] = None
               /\ pc'[x] = "idle" => user'[x] = None
               /\ pc'[x] # "idle" => user'[x] \in Users /\ code'[x] \in Requests
               /\ pc'[x] = "set" => kind'[x] = "otp"
               /\ pc'[x] \in {"get", "store"} => kind'[x] = "forgot"
               /\ pc'[x] = "draw" => kind'[x] = "qr"
    <3>1. /\ stale[x] \subseteq dead /\ replay[x] \subseteq spent
          /\ pc[x] \in {"fetch", "seen", "mark", "drop"} =>
               code[x] \in Requests /\ pc[code[x]] \notin Unissued
          /\ pc[x] = "idle" <=> kind[x] = None
          /\ pc[x] = "idle" => user[x] = None
          /\ pc[x] # "idle" => user[x] \in Users /\ code[x] \in Requests
          /\ pc[x] = "set" => kind[x] = "otp"
          /\ pc[x] \in {"get", "store"} => kind[x] = "forgot"
          /\ pc[x] = "draw" => kind[x] = "qr"
      BY DEF Placed
    <3>2. CASE pc'[x] = pc[x]
      BY <1>3, <3>1, <3>2
    <3>3. CASE pc'[x] # pc[x]
      BY <1>3, <3>1, <3>3 DEF Used
    <3> QED BY <3>2, <3>3
  <2>3. ASSUME NEW x \in Requests, pc'[x] = "send"
        PROVE  picked'[x] # None /\ pc'[picked'[x]] \notin Unissued
    <3>1. pc[x] = "send"
      BY <1>3, <2>3 DEF Used
    <3>2. picked[x] # None /\ picked[x] \in Requests /\ pc[picked[x]] \notin Unissued
      BY <3>1 DEF Placed, TypeOK
    <3> QED BY <1>3, <3>2
  <2> QED BY <2>1, <2>2, <2>3 DEF Placed
<1>6. DelFinds'
  <2> SUFFICES ASSUME NEW x \in Requests
               PROVE  /\ pc'[x] = "delete" =>
                           /\ otp'[user[x]] \in {None, picked[x]} \cup after[x]
                           /\ user[picked[x]] = user[x]
                      /\ killer'[x] # None => user[x] \in Users
                      /\ pc'[x] \in {"update", "forget"} =>
                           /\ picked[x] # None /\ user[picked[x]] \in Users
                           /\ reset'[user[picked[x]]] \in {None, picked[x]} \cup after[x]
                      /\ pc'[x] \in {"seen", "mark", "drop", "commit", "clear"} =>
                           picked[x] = code[x]
    BY DEF DelFinds, Found
  <2>1. killer'[x] # None => user[x] \in Users
    BY DEF DelFinds
  <2>2. CASE pc'[x] # pc[x]
    BY <1>3, <2>1, <2>2 DEF Used
  <2>3. CASE pc'[x] = pc[x]
    <3>1. pc[x] # "idle" => user[x] \in Users
      BY DEF Placed
    <3> QED BY <2>1, <2>3, <3>1 DEF DelFinds, Found
  <2> QED BY <2>2, <2>3
<1>7. ReplayHeld'
  BY <1>3 DEF ReplayHeld, Used, Placed, TypeOK
<1>8. DeadStaysDead' /\ ProcessedOnce'
  BY DEF DeadStaysDead, ProcessedOnce, MayGo
<1>9. DeletedByUse'
  <2> SUFFICES ASSUME NEW i \in Requests, killer'[i] # None
               PROVE  /\ killer'[i] \in Requests /\ pc'[killer'[i]] \in Used
                      /\ user[i] = user[picked[killer'[i]]]
                      /\ i = picked[killer'[i]] \/ i \in after[killer'[i]]
    BY <1>1, <1>8, UsedGranted DEF DeletedByUse
  <2>1. CASE killer'[i] = killer[i]
    <3>1. /\ killer[i] \in Requests /\ pc[killer[i]] \in Used
          /\ user[i] = user[picked[killer[i]]]
          /\ i = picked[killer[i]] \/ i \in after[killer[i]]
      BY <2>1 DEF DeletedByUse, TypeOK, Used
    <3>2. pc'[killer[i]] = pc[killer[i]]
      BY <3>1 DEF Used, Ends
    <3> QED BY <2>1, <3>1, <3>2
  <2>2. CASE killer'[i] # killer[i]
    BY <2>2
  <2> QED BY <2>1, <2>2
<1> QED BY <1>1, <1>4, <1>5, <1>6, <1>7, <1>8, <1>9

-----------------------------------------------------------------------------
(* Time                                                                    *)

LEMMA KeyExpiresStep ==
  ASSUME CodesInv, NEW u \in Users, OtpExpires(u) \/ ResetExpires(u)
  PROVE  CodesInv'
<1> USE DEF CodesInv, Dies, request
<1>1. CASE OtpExpires(u)
  <2> DEFINE i == otp[u]
  <2>1. /\ i \in Requests /\ otp' = [otp EXCEPT ![u] = None] /\ dead' = dead \cup {i}
        /\ UNCHANGED <<flow, reset, token, nonce, known, pc, request, picked, scanned, killer,
                       spent, after>>
    BY <1>1 DEF OtpExpires, TypeOK
  <2>2. pc[i] \notin Unissued /\ token[i] = None
        /\ \A v \in Users : otp'[v] # i /\ reset[v] # i
    BY <2>1 DEF KeysHoldLive, TypeOK, Labels
  <2>3. pc' \in [Requests -> Labels]
    BY <2>1 DEF TypeOK, Labels
  <2>4. /\ otp' \in [Users -> Requests \cup {None}] /\ reset' \in [Users -> Requests \cup {None}]
        /\ token' \in [Requests -> {"fresh", "over", None}]
        /\ \A v \in Users : otp'[v] \in {otp[v], None} /\ reset'[v] \in {reset[v], None}
        /\ dead' \subseteq Requests /\ spent' \subseteq Requests
        /\ killer' \in [Requests -> Requests \cup {None}]
    BY <2>1 DEF TypeOK
  <2> HIDE DEF i, CodesInv
  <2> QED BY <2>1, <2>2, <2>3, <2>4, Loses
<1>2. CASE ResetExpires(u)
  <2> DEFINE i == reset[u]
  <2>1. /\ i \in Requests /\ reset' = [reset EXCEPT ![u] = None] /\ dead' = dead \cup {i}
        /\ UNCHANGED <<flow, otp, token, nonce, known, pc, request, picked, scanned, killer,
                       spent, after>>
    BY <1>2 DEF ResetExpires, TypeOK
  <2>2. pc[i] \notin Unissued /\ token[i] = None
        /\ \A v \in Users : reset'[v] # i /\ otp[v] # i
    BY <2>1 DEF KeysHoldLive, TypeOK, Labels
  <2>3. pc' \in [Requests -> Labels]
    BY <2>1 DEF TypeOK, Labels
  <2>4. /\ otp' \in [Users -> Requests \cup {None}] /\ reset' \in [Users -> Requests \cup {None}]
        /\ token' \in [Requests -> {"fresh", "over", None}]
        /\ \A v \in Users : otp'[v] \in {otp[v], None} /\ reset'[v] \in {reset[v], None}
        /\ dead' \subseteq Requests /\ spent' \subseteq Requests
        /\ killer' \in [Requests -> Requests \cup {None}]
    BY <2>1 DEF TypeOK
  <2> HIDE DEF i, CodesInv
  <2> QED BY <2>1, <2>2, <2>3, <2>4, Loses
<1> QED BY <1>1, <1>2

LEMMA TokenAgesStep ==
  ASSUME CodesInv, NEW i \in Requests, TokenAges(i)
  PROVE  CodesInv'
<1> USE DEF CodesInv, Dies, request
<1>1. /\ token[i] # None
      /\ UNCHANGED <<flow, otp, reset, nonce, known, pc, request, picked, scanned, killer,
                     spent, after>>
  BY DEF TokenAges
<1>2. pc[i] \notin Unissued
      /\ \A v \in Users : reset[v] # i /\ otp[v] # i
  BY <1>1 DEF KeysHoldLive, TypeOK, Labels
<1>3. pc' \in [Requests -> Labels]
  BY <1>1 DEF TypeOK, Labels
<1>4. /\ token' \in [Requests -> {"fresh", "over", None}]
      /\ \A x \in Requests : token[x] = None => token'[x] = None
      /\ dead' = dead \/ (dead' = dead \cup {i} /\ token'[i] = None)
  BY DEF TokenAges, TypeOK
<1>5. /\ otp' \in [Users -> Requests \cup {None}] /\ reset' \in [Users -> Requests \cup {None}]
      /\ \A v \in Users : otp'[v] \in {otp[v], None} /\ reset'[v] \in {reset[v], None}
      /\ dead \subseteq dead' /\ dead' \subseteq Requests /\ spent' \subseteq Requests
      /\ killer' \in [Requests -> Requests \cup {None}]
  BY <1>1, <1>4 DEF TypeOK
<1> HIDE DEF CodesInv
<1> QED BY <1>1, <1>2, <1>3, <1>4, <1>5, Loses

LEMMA NonceExpiresStep ==
  ASSUME CodesInv, NEW i \in Requests, NonceExpires(i)
  PROVE  CodesInv'
<1> USE DEF CodesInv, request, deaths
<1>1. /\ token[i] = None /\ nonce' = nonce \ {i}
      /\ \A r \in Requests : pc[r] = "seen" => code[r] # i
      /\ UNCHANGED <<flow, otp, reset, token, known, pc, request, picked, scanned, deaths,
                     spent, after>>
  BY DEF NonceExpires
<1>2. TypeOK'
  BY <1>1 DEF TypeOK
<1>3. ReplayHeld'
  BY <1>1 DEF ReplayHeld
<1>4. KeysHoldLive' /\ Placed' /\ DelFinds' /\ DeadStaysDead' /\ DeletedByUse'
      /\ ProcessedOnce'
  BY <1>1 DEF KeysHoldLive, Placed, DelFinds, Found, DeadStaysDead, DeletedByUse,
              ProcessedOnce
<1> QED BY <1>2, <1>3, <1>4


-----------------------------------------------------------------------------
(* A key is deleted                                                        *)

LEMMA DeleteStep ==
  ASSUME CodesInv, NEW r \in Requests, DeleteOtp(r) \/ DeleteReset(r)
  PROVE  CodesInv'
<1> DEFINE q == IF pc[r] = "delete" THEN "accepted" ELSE "changed"
           i == IF pc[r] = "delete" THEN otp[user[r]] ELSE reset[Found(r)]
<1>1. /\ pc[r] \in {"delete", "forget"} /\ pc' = [pc EXCEPT ![r] = q]
      /\ UNCHANGED <<flow, token, nonce, known, request, picked, scanned, spent, after>>
  BY DEF DeleteOtp, DeleteReset, Goto
<1>2. /\ user[r] \in Users /\ i \in Requests \cup {None} /\ i \in {None, picked[r]} \cup after[r]
      /\ pc[r] = "forget" => Found(r) \in Users
      /\ i # None => user[i] \in Users /\ user[i] = user[picked[r]]
  <2>1. /\ user[r] \in Users /\ i \in Requests \cup {None} /\ i \in {None, picked[r]} \cup after[r]
        /\ pc[r] = "forget" => Found(r) \in Users
    BY <1>1 DEF CodesInv, TypeOK, Placed, DelFinds, Found
  <2>2. CASE pc[r] = "delete"
    <3>1. i # None => user[i] = user[r] /\ user[picked[r]] = user[r]
      BY <2>1, <2>2 DEF CodesInv, KeysHoldLive, DelFinds
    <3> QED BY <2>1, <2>2, <3>1
  <2>3. CASE pc[r] = "forget"
    <3>1. i # None => user[i] = Found(r)
      BY <2>1, <2>3 DEF CodesInv, KeysHoldLive
    <3> QED BY <2>1, <2>3, <3>1 DEF Found
  <2> QED BY <1>1, <2>2, <2>3
<1>3. i # None => pc[i] \notin Unissued /\ token[i] = None
  BY <1>1, <1>2 DEF CodesInv, KeysHoldLive
<1>4. /\ otp' \in [Users -> Requests \cup {None}] /\ reset' \in [Users -> Requests \cup {None}]
      /\ \A u \in Users : otp'[u] \in {otp[u], None} /\ reset'[u] \in {reset[u], None}
  <2>1. /\ otp \in [Users -> Requests \cup {None}] /\ reset \in [Users -> Requests \cup {None}]
    BY DEF CodesInv, TypeOK
  <2>2. /\ otp' = otp \/ \E u : otp' = [otp EXCEPT ![u] = None]
        /\ reset' = reset \/ \E u : reset' = [reset EXCEPT ![u] = None]
    BY DEF DeleteOtp, DeleteReset
  <2>3. /\ otp' \in [Users -> Requests \cup {None}]
        /\ \A u \in Users : otp'[u] \in {otp[u], None}
    BY <2>1, <2>2
  <2>4. /\ reset' \in [Users -> Requests \cup {None}]
        /\ \A u \in Users : reset'[u] \in {reset[u], None}
    BY <2>1, <2>2
  <2> QED BY <2>3, <2>4
<1>5. dead' = dead \/ (i # None /\ dead' = dead \cup {i}
                       /\ \A u \in Users : otp'[u] # i /\ reset'[u] # i)
  <2>1. CASE pc[r] = "delete"
    <3>1. /\ UNCHANGED reset /\ i = otp[user[r]]
          /\ \/ UNCHANGED <<otp, deaths>>
             \/ otp' = [otp EXCEPT ![user[r]] = None] /\ dead' = dead \cup ({i} \ {None})
      BY <2>1 DEF DeleteOtp, DeleteReset, Deletes
    <3>2. i # None => \A u \in Users : (otp[u] = i => u = user[r]) /\ reset[u] # i
      BY <1>2, <3>1 DEF CodesInv, KeysHoldLive
    <3>3. otp \in [Users -> Requests \cup {None}]
      BY DEF CodesInv, TypeOK
    <3>4. user[r] \in Users
      BY <1>2
    <3> HIDE DEF i
    <3>5. CASE i = None
      BY <3>1, <3>5 DEF deaths
    <3>6. CASE i # None
      BY <3>1, <3>2, <3>3, <3>4, <3>6 DEF deaths
    <3> QED BY <3>5, <3>6
  <2>2. CASE pc[r] = "forget"
    <3>1. /\ UNCHANGED otp /\ i = reset[Found(r)]
          /\ \/ UNCHANGED <<reset, deaths>>
             \/ reset' = [reset EXCEPT ![Found(r)] = None] /\ dead' = dead \cup ({i} \ {None})
      BY <2>2 DEF DeleteOtp, DeleteReset, Deletes
    <3>2. i # None => \A u \in Users : (reset[u] = i => u = Found(r)) /\ otp[u] # i
      BY <1>2, <2>2, <3>1 DEF CodesInv, KeysHoldLive
    <3>3. reset \in [Users -> Requests \cup {None}]
      BY DEF CodesInv, TypeOK
    <3>4. Found(r) \in Users
      BY <1>2, <2>2
    <3> HIDE DEF i
    <3>5. CASE i = None
      BY <3>1, <3>5 DEF deaths
    <3>6. CASE i # None
      BY <3>1, <3>2, <3>3, <3>4, <3>6 DEF deaths
    <3> QED BY <3>5, <3>6
  <2> QED BY <1>1, <2>1, <2>2
<1>6. killer' = killer \/ (i # None /\ killer' = [killer EXCEPT ![i] = r])
  BY <1>1 DEF DeleteOtp, DeleteReset, Deletes, deaths
<1>7. /\ pc' \in [Requests -> Labels] /\ q \in Used
      /\ \A x \in Requests : pc'[x] = IF x = r THEN q ELSE pc[x]
  BY <1>1 DEF CodesInv, TypeOK, Labels, Ends, Used
<1>8. MayGo(r, q, picked[r])
  BY <1>1 DEF MayGo, CodesInv, DeadStaysDead, Granted
<1> HIDE DEF q, i
<1>9. \A x \in Requests :
         \/ pc'[x] = pc[x]
         \/ /\ pc[x] \notin {"idle"} \cup Ends /\ pc'[x] \in Used \cup {"refused"}
            /\ MayGo(x, pc'[x], picked[x])
  BY <1>1, <1>7, <1>8 DEF Ends
<1>10. /\ killer' \in [Requests -> Requests \cup {None}]
       /\ \A x \in Requests :
            \/ killer'[x] = killer[x]
            \/ /\ killer'[x] \in Requests /\ pc'[killer'[x]] \in Used
               /\ x = picked[killer'[x]] \/ x \in after[killer'[x]]
               /\ user[x] \in Users /\ user[x] = user[picked[killer'[x]]]
  BY <1>2, <1>6, <1>7 DEF CodesInv, TypeOK
<1>11. /\ token' \in [Requests -> {"fresh", "over", None}]
       /\ \A x \in Requests : token[x] = None => token'[x] = None
       /\ dead \subseteq dead' /\ dead' \subseteq Requests
       /\ spent \subseteq spent' /\ spent' \subseteq Requests
       /\ \A x \in dead' \ dead : /\ pc[x] \notin Unissued /\ token'[x] = None
                                  /\ \A u \in Users : otp'[u] # x /\ reset'[u] # x
  BY <1>1, <1>2, <1>3, <1>5 DEF CodesInv, TypeOK
<1> QED BY <1>1, <1>4, <1>7, <1>9, <1>10, <1>11, Loses

\* A token is dropped by a request that read it.
LEMMA DropStep ==
  ASSUME CodesInv, NEW r \in Requests, Drop(r) \/ Clear(r)
  PROVE  CodesInv'
<1> DEFINE q == IF pc[r] = "drop" THEN "processed" ELSE "paid"
           i == code[r]
<1>1. /\ pc[r] \in {"drop", "clear"} /\ pc' = [pc EXCEPT ![r] = q] /\ DropToken(r)
      /\ UNCHANGED <<flow, otp, reset, nonce, known, request, picked, scanned, after>>
      /\ spent' = spent \/ (pc[r] = "drop" /\ spent' = spent \cup {i})
  BY DEF Drop, Clear, Goto
<1>2. /\ i \in Requests /\ i = picked[r]
      /\ pc[r] = "drop" => (i \in nonce \/ token[i] = None) /\ pc[i] \notin Unissued
  BY <1>1 DEF CodesInv, TypeOK, Placed, DelFinds, ReplayHeld
<1>3. token[i] # None => /\ pc[i] \notin Unissued /\ user[i] \in Users
                         /\ \A u \in Users : otp[u] # i /\ reset[u] # i
  <2>1. token[i] # None => pc[i] \notin Unissued /\ \A u \in Users : otp[u] # i /\ reset[u] # i
    BY <1>2 DEF CodesInv, KeysHoldLive, TypeOK
  <2>2. pc[i] \notin Unissued => user[i] \in Users
    BY <1>2 DEF CodesInv, Placed, Unissued
  <2> QED BY <2>1, <2>2
<1>4. /\ token' \in [Requests -> {"fresh", "over", None}]
      /\ \A x \in Requests : token[x] = None => token'[x] = None
  BY <1>1 DEF DropToken, CodesInv, TypeOK
<1>5. \/ UNCHANGED deaths
      \/ token[i] # None /\ token'[i] = None /\ i # None
         /\ dead' = dead \cup {i} /\ killer' = [killer EXCEPT ![i] = r]
  BY <1>1, <1>2 DEF DropToken, Deletes, CodesInv, TypeOK
<1>6. /\ pc' \in [Requests -> Labels] /\ q \in Used
      /\ \A x \in Requests : pc'[x] = IF x = r THEN q ELSE pc[x]
  BY <1>1 DEF CodesInv, TypeOK, Labels, Ends, Used
<1>7. MayGo(r, q, picked[r])
  BY <1>1 DEF MayGo, CodesInv, DeadStaysDead, ProcessedOnce, Granted
<1> HIDE DEF q, i
<1>8. \A x \in Requests :
         \/ pc'[x] = pc[x]
         \/ /\ pc[x] \notin {"idle"} \cup Ends /\ pc'[x] \in Used \cup {"refused"}
            /\ MayGo(x, pc'[x], picked[x])
  BY <1>1, <1>6, <1>7 DEF Ends
<1>9. /\ killer' \in [Requests -> Requests \cup {None}]
      /\ \A x \in Requests :
           \/ killer'[x] = killer[x]
           \/ /\ killer'[x] \in Requests /\ pc'[killer'[x]] \in Used
              /\ x = picked[killer'[x]] \/ x \in after[killer'[x]]
              /\ user[x] \in Users /\ user[x] = user[picked[killer'[x]]]
  BY <1>2, <1>3, <1>5, <1>6 DEF CodesInv, TypeOK, deaths
<1>10. /\ otp' \in [Users -> Requests \cup {None}] /\ reset' \in [Users -> Requests \cup {None}]
       /\ \A u \in Users : otp'[u] \in {otp[u], None} /\ reset'[u] \in {reset[u], None}
       /\ dead \subseteq dead' /\ dead' \subseteq Requests
       /\ spent \subseteq spent' /\ spent' \subseteq Requests
       /\ \A x \in dead' \ dead : /\ pc[x] \notin Unissued /\ token'[x] = None
                                  /\ \A u \in Users : otp'[u] # x /\ reset'[u] # x
       /\ \A x \in spent' \ spent : (x \in nonce \/ token'[x] = None) /\ pc[x] \notin Unissued
  BY <1>1, <1>2, <1>3, <1>4, <1>5 DEF CodesInv, TypeOK, deaths
<1> QED BY <1>1, <1>4, <1>6, <1>8, <1>9, <1>10, Loses

LEMMA FetchOverStep ==
  ASSUME CodesInv, NEW r \in Requests, FetchOver(r)
  PROVE  CodesInv'
<1> DEFINE i == code[r]
<1>1. /\ pc[r] = "fetch" /\ pc' = [pc EXCEPT ![r] = "refused"]
      /\ UNCHANGED <<flow, otp, reset, nonce, known, request, picked, scanned, killer, spent,
                     after>>
      /\ \/ UNCHANGED <<token, dead>>
         \/ token[i] = "over" /\ token' = [token EXCEPT ![i] = None]
            /\ dead' = dead \cup ({i} \ {None})
  BY DEF FetchOver, Goto, Dies
<1>2. i \in Requests /\ i # None
  BY <1>1 DEF CodesInv, Placed
<1>3. CASE UNCHANGED <<token, dead>>
  <2>1. MayGo(r, "refused", picked[r])
    BY DEF MayGo, Granted
  <2>2. picked' = [picked EXCEPT ![r] = picked[r]] /\ picked[r] \in Requests \cup {None}
        /\ scanned' \in [Requests -> SUBSET Users] /\ known' \subseteq Requests
    BY <1>1 DEF CodesInv, TypeOK
  <2> HIDE DEF i
  <2> QED BY <1>1, <1>3, <2>1, <2>2, Moves DEF Labels, Ends, keys, deaths
<1>4. CASE token[i] = "over" /\ token' = [token EXCEPT ![i] = None]
           /\ dead' = dead \cup ({i} \ {None})
  <2>1. token[i] # None /\ pc[i] \notin Unissued /\ dead' = dead \cup {i} /\ token'[i] = None
        /\ \A u \in Users : otp[u] # i /\ reset[u] # i
    BY <1>2, <1>4 DEF CodesInv, KeysHoldLive, TypeOK, Kinds
  <2>2. MayGo(r, "refused", picked[r])
    BY DEF MayGo, Granted
  <2>3. /\ pc' \in [Requests -> Labels]
        /\ \A x \in Requests : pc'[x] = IF x = r THEN "refused" ELSE pc[x]
    BY <1>1 DEF CodesInv, TypeOK, Labels, Ends
  <2>4. \A x \in Requests :
           \/ pc'[x] = pc[x]
           \/ /\ pc[x] \notin {"idle"} \cup Ends /\ pc'[x] \in Used \cup {"refused"}
              /\ MayGo(x, pc'[x], picked[x])
    BY <1>1, <2>2, <2>3 DEF Ends
  <2>5. /\ otp' \in [Users -> Requests \cup {None}] /\ reset' \in [Users -> Requests \cup {None}]
        /\ \A u \in Users : otp'[u] \in {otp[u], None} /\ reset'[u] \in {reset[u], None}
        /\ token' \in [Requests -> {"fresh", "over", None}]
        /\ \A x \in Requests : token[x] = None => token'[x] = None
        /\ killer' \in [Requests -> Requests \cup {None}]
        /\ dead \subseteq dead' /\ dead' \subseteq Requests /\ spent' \subseteq Requests
    BY <1>1, <1>2, <1>4, <2>1 DEF CodesInv, TypeOK
  <2> HIDE DEF i
  <2> QED BY <1>1, <2>1, <2>3, <2>4, <2>5, Loses
<1> QED BY <1>1, <1>3, <1>4


-----------------------------------------------------------------------------
(* A code is stored                                                        *)

\* r stores its own code i = r in one of the keys; the one it supersedes is
\* over.
LEMMA Stores ==
  ASSUME CodesInv, NEW r \in Requests, NEW q \in Labels,
         pc[r] \in {"set", "store", "draw"}, q \in {"send", "answered"},
         pc' = [pc EXCEPT ![r] = q], Stored(r),
         q = "send" => picked' = [picked EXCEPT ![r] = r],
         q = "answered" => picked' = picked,
         TypeOK', KeysHoldLive',
         dead \subseteq dead', \A i \in dead' \ dead : pc[i] \notin Unissued,
         \A i \in Requests : i # r => token'[i] = token[i],
         known \subseteq known', known' \subseteq known \cup {r},
         \A u \in Users : otp'[u] \in {otp[u], r} /\ reset'[u] \in {reset[u], r},
         UNCHANGED <<flow, nonce, request, scanned, killer, spent>>
  PROVE  CodesInv'
<1> USE DEF CodesInv, request
<1>1. /\ \A x \in Requests : pc'[x] = IF x = r THEN q ELSE pc[x]
      /\ \A x \in Requests : x # r => picked'[x] = picked[x]
      /\ q = "send" => picked'[r] = r
  BY DEF TypeOK
<1>2. /\ \A x \in Requests : pc[x] \notin Unissued => pc'[x] \notin Unissued
      /\ pc[r] \in Unissued /\ pc'[r] \notin Unissued
  BY <1>1 DEF Unissued
<1>3. /\ \A x \in Requests : after[x] \subseteq after'[x]
      /\ \A x \in Requests : pc[x] \in {"delete", "update", "forget"} => r \in after'[x]
  BY DEF Stored, TypeOK
<1>4. Placed'
  <2>1. \A i \in dead' \cup known' \cup spent' : pc'[i] \notin Unissued
    BY <1>2 DEF Placed, TypeOK
  <2>2. ASSUME NEW x \in Requests, pc'[x] = "send"
        PROVE  picked'[x] # None /\ pc'[picked'[x]] \notin Unissued
    <3>1. CASE x = r
      BY <1>1, <1>2, <2>2, <3>1
    <3>2. CASE x # r
      BY <1>1, <1>2, <2>2, <3>2 DEF Placed, TypeOK
    <3> QED BY <3>1, <3>2
  <2>3. ASSUME NEW x \in Requests
        PROVE  /\ stale'[x] \subseteq dead' /\ replay'[x] \subseteq spent'
               /\ pc'[x] \in {"fetch", "seen", "mark", "drop"} => pc'[code'[x]] \notin Unissued
               /\ pc'[x] = "idle" <=> kind'[x] = None
               /\ pc'[x] = "idle" => user'[x] = None
               /\ pc'[x] # "idle" => user'[x] \in Users /\ code'[x] \in Requests
               /\ pc'[x] = "set" => kind'[x] = "otp"
               /\ pc'[x] \in {"get", "store"} => kind'[x] = "forgot"
               /\ pc'[x] = "draw" => kind'[x] = "qr"
    BY <1>1, <1>2 DEF Placed, TypeOK
  <2> QED BY <2>1, <2>2, <2>3 DEF Placed
<1>5. DelFinds'
  <2> SUFFICES ASSUME NEW x \in Requests
               PROVE  /\ pc'[x] = "delete" =>
                           /\ otp'[user[x]] \in {None, picked'[x]} \cup after'[x]
                           /\ user[picked'[x]] = user[x]
                      /\ killer[x] # None => user[x] \in Users
                      /\ pc'[x] \in {"update", "forget"} =>
                           picked'[x] # None /\ user[picked'[x]] \in Users
                           /\ reset'[user[picked'[x]]] \in {None, picked'[x]} \cup after'[x]
                      /\ pc'[x] \in {"seen", "mark", "drop", "commit", "clear"} =>
                           picked'[x] = code[x]
    BY <1>1 DEF DelFinds, Found
  <2>0. killer[x] # None => user[x] \in Users
    BY DEF DelFinds
  <2>1. CASE x = r
    BY <1>1, <2>0, <2>1
  <2>2. CASE x # r
    <3>1. /\ pc'[x] = pc[x] /\ picked'[x] = picked[x] /\ after[x] \subseteq after'[x]
          /\ killer[x] # None => user[x] \in Users
      BY <1>1, <1>3, <2>0, <2>2
    <3>2. CASE pc[x] = "delete"
      <4>1. user[x] \in Users /\ r \in after'[x] /\ user[picked[x]] = user[x]
            /\ otp[user[x]] \in {None, picked[x]} \cup after[x]
        BY <1>3, <3>2 DEF DelFinds, Placed
      <4> QED BY <3>1, <3>2, <4>1
    <3>3. CASE pc[x] \in {"update", "forget"}
      <4>1. picked[x] # None /\ user[picked[x]] \in Users /\ r \in after'[x]
            /\ reset[user[picked[x]]] \in {None, picked[x]} \cup after[x]
        BY <1>3, <3>3 DEF DelFinds, Found
      <4> QED BY <3>1, <3>3, <4>1
    <3>4. CASE pc[x] \notin {"delete", "update", "forget"}
      BY <3>1, <3>4 DEF DelFinds
    <3> QED BY <3>2, <3>3, <3>4
  <2> QED BY <2>1, <2>2
<1>6. ReplayHeld'
  BY <1>1, <1>2 DEF ReplayHeld, Placed, TypeOK
<1>7. DeadStaysDead' /\ ProcessedOnce'
  BY <1>1 DEF DeadStaysDead, ProcessedOnce, Granted
<1>8. DeletedByUse'
  <2> SUFFICES ASSUME NEW i \in Requests, killer[i] # None
               PROVE  /\ killer[i] \in Requests /\ pc'[killer[i]] \in Used
                      /\ user[i] = user[picked'[killer[i]]]
                      /\ i = picked'[killer[i]] \/ i \in after'[killer[i]]
    BY <1>1, <1>7, UsedGranted DEF DeletedByUse
  <2>1. /\ killer[i] \in Requests /\ pc[killer[i]] \in Used
        /\ user[i] = user[picked[killer[i]]]
        /\ i = picked[killer[i]] \/ i \in after[killer[i]]
    BY DEF DeletedByUse, TypeOK, Used
  <2>2. killer[i] # r
    BY <2>1 DEF Used
  <2> QED BY <1>1, <1>3, <2>1, <2>2
<1> QED BY <1>4, <1>5, <1>6, <1>7, <1>8

LEMMA SetStep ==
  ASSUME CodesInv, NEW r \in Requests, SetOtp(r) \/ SetReset(r) \/ DrawQR(r)
  PROVE  CodesInv'
<1> USE DEF CodesInv, request, Goto, Pick, Dies
<1>1. user[r] \in Users /\ pc[r] \in Unissued /\ r # None
  BY DEF SetOtp, SetReset, StoreReset, DrawQR, Placed, Unissued
<1>2. r \notin dead /\ token[r] = None /\ \A u \in Users : otp[u] # r /\ reset[u] # r
  BY <1>1 DEF Placed, KeysHoldLive
<1>3. CASE SetOtp(r)
  <2>1. /\ pc[r] = "set" /\ kind[r] = "otp" /\ pc' = [pc EXCEPT ![r] = "send"]
        /\ otp' = [otp EXCEPT ![user[r]] = r] /\ dead' = dead \cup ({otp[user[r]]} \ {None})
        /\ picked' = [picked EXCEPT ![r] = r] /\ Stored(r)
        /\ UNCHANGED <<flow, reset, token, nonce, known, request, scanned, killer, spent>>
    BY <1>3 DEF SetOtp, Placed
  <2>2. TypeOK'
    BY <1>1, <2>1 DEF TypeOK, Stored
  <2>3. /\ \A x \in Requests : pc[x] \notin Unissued => pc'[x] \notin Unissued
        /\ pc'[r] \notin Unissued
    BY <2>1 DEF TypeOK, Unissued
  <2>4. KeysHoldLive'
    <3>1. \A x \in dead' \ dead : x = otp[user[r]] /\ x # None
      BY <2>1
    <3>2. ASSUME NEW u \in Users, otp'[u] # None
          PROVE  user'[otp'[u]] = u /\ kind'[otp'[u]] = "otp" /\ otp'[u] \notin dead'
                 /\ pc'[otp'[u]] \notin Unissued
      BY <1>1, <1>2, <2>1, <2>3, <3>1, <3>2 DEF KeysHoldLive, TypeOK
    <3>3. ASSUME NEW u \in Users, reset'[u] # None
          PROVE  user'[reset'[u]] = u /\ kind'[reset'[u]] = "forgot" /\ reset'[u] \notin dead'
                 /\ pc'[reset'[u]] \notin Unissued
      BY <1>1, <2>1, <2>3, <3>1, <3>3 DEF KeysHoldLive, TypeOK
    <3>4. ASSUME NEW i \in Requests, token'[i] # None
          PROVE  kind'[i] = "qr" /\ i \notin dead' /\ pc'[i] \notin Unissued
      BY <1>1, <2>1, <2>3, <3>1, <3>4 DEF KeysHoldLive, TypeOK
    <3> QED BY <3>2, <3>3, <3>4 DEF KeysHoldLive
  <2>5. \A x \in dead' \ dead : pc[x] \notin Unissued
    BY <1>1, <2>1 DEF KeysHoldLive
  <2>6. \A u \in Users : otp'[u] \in {otp[u], r} /\ reset'[u] \in {reset[u], r}
    BY <2>1 DEF TypeOK
  <2> HIDE DEF CodesInv
  <2> QED BY <2>1, <2>2, <2>4, <2>5, <2>6, Stores DEF Labels
<1>4. CASE SetReset(r)
  <2>1. /\ pc[r] = "store" /\ kind[r] = "forgot" /\ pc' = [pc EXCEPT ![r] = "send"]
        /\ reset' = [reset EXCEPT ![user[r]] = r]
        /\ dead' = dead \cup ({reset[user[r]]} \ {None})
        /\ picked' = [picked EXCEPT ![r] = r] /\ Stored(r)
        /\ UNCHANGED <<flow, otp, token, nonce, known, request, scanned, killer, spent>>
    BY <1>4 DEF SetReset, StoreReset, Placed
  <2>2. TypeOK'
    BY <1>1, <2>1 DEF TypeOK, Stored
  <2>3. /\ \A x \in Requests : pc[x] \notin Unissued => pc'[x] \notin Unissued
        /\ pc'[r] \notin Unissued
    BY <2>1 DEF TypeOK, Unissued
  <2>4. KeysHoldLive'
    <3>1. \A x \in dead' \ dead : x = reset[user[r]] /\ x # None
      BY <2>1
    <3>2. ASSUME NEW u \in Users, reset'[u] # None
          PROVE  user'[reset'[u]] = u /\ kind'[reset'[u]] = "forgot" /\ reset'[u] \notin dead'
                 /\ pc'[reset'[u]] \notin Unissued
      BY <1>1, <1>2, <2>1, <2>3, <3>1, <3>2 DEF KeysHoldLive, TypeOK
    <3>3. ASSUME NEW u \in Users, otp'[u] # None
          PROVE  user'[otp'[u]] = u /\ kind'[otp'[u]] = "otp" /\ otp'[u] \notin dead'
                 /\ pc'[otp'[u]] \notin Unissued
      BY <1>1, <2>1, <2>3, <3>1, <3>3 DEF KeysHoldLive, TypeOK
    <3>4. ASSUME NEW i \in Requests, token'[i] # None
          PROVE  kind'[i] = "qr" /\ i \notin dead' /\ pc'[i] \notin Unissued
      BY <1>1, <2>1, <2>3, <3>1, <3>4 DEF KeysHoldLive, TypeOK
    <3> QED BY <3>2, <3>3, <3>4 DEF KeysHoldLive
  <2>5. \A x \in dead' \ dead : pc[x] \notin Unissued
    BY <1>1, <2>1 DEF KeysHoldLive
  <2>6. \A u \in Users : otp'[u] \in {otp[u], r} /\ reset'[u] \in {reset[u], r}
    BY <2>1 DEF TypeOK
  <2> HIDE DEF CodesInv
  <2> QED BY <2>1, <2>2, <2>4, <2>5, <2>6, Stores DEF Labels
<1>5. CASE DrawQR(r)
  <2>1. /\ pc[r] = "draw" /\ kind[r] = "qr" /\ pc' = [pc EXCEPT ![r] = "answered"]
        /\ token' = [token EXCEPT ![r] = "fresh"] /\ known' = known \cup {r} /\ Stored(r)
        /\ UNCHANGED <<flow, otp, reset, nonce, request, picked, scanned, dead, killer, spent>>
    BY <1>5 DEF DrawQR, Placed, deaths
  <2>2. TypeOK'
    BY <2>1 DEF TypeOK, Stored, Ends
  <2>3. /\ \A x \in Requests : pc[x] \notin Unissued => pc'[x] \notin Unissued
        /\ pc'[r] \notin Unissued
    BY <2>1 DEF TypeOK, Unissued
  <2>4. KeysHoldLive'
    BY <1>2, <2>1, <2>3 DEF KeysHoldLive, TypeOK
  <2>5. /\ \A u \in Users : otp'[u] \in {otp[u], r} /\ reset'[u] \in {reset[u], r}
        /\ \A x \in Requests : x # r => token'[x] = token[x]
    BY <2>1 DEF TypeOK
  <2> HIDE DEF CodesInv
  <2> QED BY <2>1, <2>2, <2>4, <2>5, Stores DEF Labels, Ends
<1> QED BY <1>3, <1>4, <1>5


-----------------------------------------------------------------------------
(* The other steps                                                         *)

\* A request that has not begun is no user's.
LEMMA Unstarted ==
  ASSUME CodesInv, NEW r \in Requests, pc[r] = "idle"
  PROVE  user[r] \notin Users
BY DEF CodesInv, Placed

LEMMA BeginStep ==
  ASSUME CodesInv, NEW r \in Requests, NEW k \in Kinds, NEW u \in Users, NEW c \in Requests,
         Begin(r, k, u, c)
  PROVE  CodesInv'
<1> USE DEF CodesInv, keys, deaths
<1> DEFINE q == CASE k = "otp" -> "set"       [] k = "forgot" -> "get"
                  [] k = "qr" -> "draw"       [] k = "validate" -> "read"
                  [] k = "reset" -> "scan"    [] k = "process" -> "fetch"
                  [] k = "pay" -> "validate"
           First == {"set", "get", "draw", "read", "scan", "fetch", "validate"}
<1>1. /\ pc[r] = "idle" /\ pc' = [pc EXCEPT ![r] = q]
      /\ kind' = [kind EXCEPT ![r] = k] /\ user' = [user EXCEPT ![r] = u]
      /\ code' = [code EXCEPT ![r] = c]
      /\ stale' = [stale EXCEPT ![r] = IF k \in Using THEN dead ELSE {}]
      /\ replay' = [replay EXCEPT ![r] = IF k = "process" THEN spent ELSE {}]
      /\ k \in Using => c \in known
      /\ UNCHANGED <<flow, keys, known, picked, scanned, deaths, spent, after>>
  BY DEF Begin, Goto
<1>2. /\ q \in First
      /\ q = "set" => k = "otp"
      /\ q = "get" => k = "forgot"
      /\ q = "draw" => k = "qr"
      /\ q = "fetch" => k \in Using
  <2>1. k \in {"otp", "forgot", "qr", "validate", "reset", "process", "pay"}
    BY DEF Kinds, Issuing, Using
  <2> QED BY <2>1 DEF Using
<1> HIDE DEF q
<1>3. TypeOK'
  BY <1>1, <1>2 DEF TypeOK
<1>4. \A x \in Requests :
        /\ pc'[x] = IF x = r THEN q ELSE pc[x]
        /\ x # r => /\ kind'[x] = kind[x] /\ user'[x] = user[x] /\ code'[x] = code[x]
                    /\ stale'[x] = stale[x] /\ replay'[x] = replay[x]
  BY <1>1 DEF TypeOK
<1>5. /\ kind'[r] = k /\ user'[r] = u /\ code'[r] = c /\ k # None /\ c # None
      /\ stale'[r] \subseteq dead /\ replay'[r] \subseteq spent
  BY <1>1 DEF TypeOK
<1>6. pc[r] \in Unissued /\ \A x \in Requests : pc[x] \notin Unissued => x # r
  BY <1>1 DEF Unissued
<1>7. KeysHoldLive'
  BY <1>1, <1>4, <1>6 DEF KeysHoldLive, TypeOK
<1>8. Placed'
  <2>1. \A i \in dead' \cup known' \cup spent' : pc'[i] \notin Unissued
    BY <1>1, <1>4, <1>6 DEF Placed, TypeOK
  <2>2. ASSUME NEW x \in Requests, pc'[x] = "send"
        PROVE  picked'[x] # None /\ pc'[picked'[x]] \notin Unissued
    BY <1>1, <1>2, <1>4, <1>6, <2>2 DEF Placed, TypeOK
  <2>3. ASSUME NEW x \in Requests
        PROVE  /\ stale'[x] \subseteq dead' /\ replay'[x] \subseteq spent'
               /\ pc'[x] \in {"fetch", "seen", "mark", "drop"} => pc'[code'[x]] \notin Unissued
               /\ pc'[x] = "idle" <=> kind'[x] = None
               /\ pc'[x] = "idle" => user'[x] = None
               /\ pc'[x] # "idle" => user'[x] \in Users /\ code'[x] \in Requests
               /\ pc'[x] = "set" => kind'[x] = "otp"
               /\ pc'[x] \in {"get", "store"} => kind'[x] = "forgot"
               /\ pc'[x] = "draw" => kind'[x] = "qr"
    <3>1. CASE x = r
      <4>1. q = "fetch" => pc'[c] \notin Unissued
        BY <1>1, <1>2, <2>1
      <4> QED BY <1>1, <1>2, <1>4, <1>5, <3>1, <4>1
    <3>2. CASE x # r
      <4>1. pc[x] \in {"fetch", "seen", "mark", "drop"} => code[x] \in Requests /\ code[x] # r
        BY <1>6 DEF Placed
      <4> QED BY <1>1, <1>4, <3>2, <4>1 DEF Placed
    <3> QED BY <3>1, <3>2
  <2> QED BY <2>1, <2>2, <2>3 DEF Placed
<1>9. DelFinds'
  <2> SUFFICES ASSUME NEW x \in Requests
               PROVE  /\ pc'[x] = "delete" =>
                           /\ otp[user'[x]] \in {None, picked[x]} \cup after[x]
                           /\ user'[picked[x]] = user'[x]
                      /\ killer[x] # None => user'[x] \in Users
                      /\ pc'[x] \in {"update", "forget"} =>
                           picked[x] # None /\ user'[picked[x]] \in Users
                           /\ reset[user'[picked[x]]] \in {None, picked[x]} \cup after[x]
                      /\ pc'[x] \in {"seen", "mark", "drop", "commit", "clear"} =>
                           picked[x] = code'[x]
    BY <1>1 DEF DelFinds, Found
  <2>1. CASE x = r
    BY <1>2, <1>4, <1>5, <2>1
  <2>2. CASE x # r
    <3>1. /\ pc'[x] = pc[x] /\ user'[x] = user[x] /\ code'[x] = code[x]
      BY <1>4, <2>2
    <3>2. pc[x] \in {"update", "forget"} => picked[x] \in Requests /\ picked[x] # r
      BY <1>1 DEF Placed, TypeOK, DelFinds, Found
    <3>3. pc[x] = "delete" => picked[x] \in Requests /\ picked[x] # r
      <4>1. pc[x] = "delete" => /\ picked[x] \in Requests
                                /\ user[picked[x]] = user[x] /\ user[x] \in Users
        BY DEF DelFinds, Placed, TypeOK, DeadStaysDead, Granted
      <4>2. user[r] \notin Users
        BY <1>1, Unstarted
      <4> QED BY <4>1, <4>2
    <3> QED BY <1>4, <3>1, <3>2, <3>3 DEF DelFinds, Found
  <2> QED BY <2>1, <2>2
<1>10. ReplayHeld'
  BY <1>1, <1>2, <1>4 DEF ReplayHeld
<1>11. DeadStaysDead' /\ ProcessedOnce'
  BY <1>1, <1>2, <1>4 DEF DeadStaysDead, ProcessedOnce, Granted
<1>12. DeletedByUse'
  <2> SUFFICES ASSUME NEW i \in Requests, killer[i] # None
               PROVE  /\ killer[i] \in Requests /\ pc'[killer[i]] \in Used
                      /\ user'[i] = user'[picked[killer[i]]]
                      /\ i = picked[killer[i]] \/ i \in after[killer[i]]
    BY <1>1, <1>11, UsedGranted DEF DeletedByUse
  <2>1. /\ killer[i] \in Requests /\ pc[killer[i]] \in Used
        /\ picked[killer[i]] \in Requests
        /\ user[i] = user[picked[killer[i]]]
        /\ i = picked[killer[i]] \/ i \in after[killer[i]]
    BY DEF DeletedByUse, TypeOK, Used
  <2>2. user[i] \in Users
    BY DEF DelFinds
  <2>3. i # r /\ picked[killer[i]] # r /\ killer[i] # r
    BY <1>1, <2>1, <2>2, Unstarted DEF Used
  <2> QED BY <1>4, <2>1, <2>3
<1> QED BY <1>3, <1>7, <1>8, <1>9, <1>10, <1>11, <1>12


\* The codes there are to find belong to a user and are not over.
LEMMA Brought ==
  ASSUME CodesInv, NEW r \in Requests, pc[r] # "idle"
  PROVE  /\ code[r] \in Requests /\ user[r] \in Users
         /\ picked[r] \in Requests \cup {None} /\ picked = [picked EXCEPT ![r] = picked[r]]
         /\ scanned \in [Requests -> SUBSET Users] /\ known \subseteq Requests
BY DEF CodesInv, TypeOK, Placed

LEMMA FindStep ==
  ASSUME CodesInv, NEW r \in Requests,
         ReadOtp(r) \/ Match(r) \/ Fetch(r) \/ ValidatePayment(r)
  PROVE  CodesInv'
<1> USE DEF Labels, Ends, Goto, Pick, keys, deaths
<1>1. CASE ReadOtp(r)
  <2> DEFINE i == otp[user[r]]
  <2>1. pc[r] = "read" /\ user[r] \in Users /\ i \in Requests \cup {None}
    BY <1>1 DEF ReadOtp, CodesInv, Placed, TypeOK
  <2>2. i # None => i \notin dead /\ stale[r] \subseteq dead /\ user[i] = user[r]
    BY <2>1 DEF CodesInv, KeysHoldLive, Placed
  <2>3. CASE Matches(i, r)
    <3>1. MayGo(r, "delete", i)
      BY <2>1, <2>2, <2>3 DEF Matches, MayGo, Granted
    <3>2. picked' = [picked EXCEPT ![r] = i] /\ pc' = [pc EXCEPT ![r] = "delete"]
          /\ UNCHANGED <<flow, keys, known, request, scanned, deaths, spent, after>>
      BY <1>1, <2>3 DEF ReadOtp
    <3> HIDE DEF i
    <3> QED BY <2>1, <3>1, <3>2, Brought, Moves
  <2>4. CASE ~Matches(i, r)
    <3>1. MayGo(r, "refused", picked[r])
      BY DEF MayGo, Granted
    <3> QED BY <1>1, <2>1, <2>4, <3>1, Brought, Moves DEF ReadOtp
  <2> QED BY <2>3, <2>4
<1>2. CASE Match(r)
  <2>1. PICK u \in scanned[r] :
          /\ Matches(reset[u], r) /\ picked' = [picked EXCEPT ![r] = reset[u]]
    BY <1>2 DEF Match
  <2>2. /\ pc[r] = "match" /\ pc' = [pc EXCEPT ![r] = "update"]
        /\ UNCHANGED <<flow, keys, known, request, scanned, deaths, spent, after>>
    BY <1>2 DEF Match
  <2>3. u \in Users /\ reset[u] # None /\ reset[u] \in Requests
        /\ user[reset[u]] = u /\ reset[u] \notin dead /\ stale[r] \subseteq dead
    BY <2>1 DEF CodesInv, TypeOK, KeysHoldLive, Placed, Matches
  <2>4. MayGo(r, "update", reset[u])
    BY <2>1, <2>2, <2>3 DEF Matches, MayGo, Granted
  <2> QED BY <2>1, <2>2, <2>3, <2>4, Brought, Moves
<1>3. CASE Fetch(r)
  <2>1. /\ pc[r] = "fetch" /\ token[code[r]] = "fresh"
        /\ picked' = [picked EXCEPT ![r] = code[r]] /\ pc' = [pc EXCEPT ![r] = "seen"]
        /\ UNCHANGED <<flow, keys, known, request, scanned, deaths, spent, after>>
    BY <1>3 DEF Fetch
  <2>2. token[code[r]] # None /\ code[r] \in Requests /\ code[r] # None
    BY <2>1, Brought
  <2>3. code[r] \notin dead /\ pc[code[r]] \notin Unissued /\ stale[r] \subseteq dead
        /\ (code[r] \in replay[r] => code[r] \in nonce)
    BY <2>2 DEF CodesInv, KeysHoldLive, Placed, ReplayHeld
  <2>4. MayGo(r, "seen", code[r])
    BY <2>2, <2>3 DEF MayGo, Granted
  <2> QED BY <2>1, <2>2, <2>4, Brought, Moves
<1>4. CASE ValidatePayment(r)
  <2>1. /\ pc[r] = "validate" /\ code[r] \in Requests /\ code[r] # None
        /\ UNCHANGED <<flow, keys, known, request, scanned, deaths, spent, after>>
    BY <1>4, Brought DEF ValidatePayment
  <2>2. CASE token[code[r]] = None
    <3>1. MayGo(r, "refused", picked[r])
      BY DEF MayGo, Granted
    <3> QED BY <1>4, <2>1, <2>2, <3>1, Brought, Moves DEF ValidatePayment
  <2>3. CASE token[code[r]] # None
    <3>1. code[r] \notin dead /\ stale[r] \subseteq dead
      BY <2>1, <2>3 DEF CodesInv, KeysHoldLive, Placed
    <3>2. MayGo(r, "commit", code[r])
      BY <2>1, <3>1 DEF MayGo, Granted
    <3> QED BY <1>4, <2>1, <2>3, <3>2, Brought, Moves DEF ValidatePayment
  <2> QED BY <2>2, <2>3
<1> QED BY <1>1, <1>2, <1>3, <1>4

LEMMA MoveStep ==
  ASSUME CodesInv, NEW r \in Requests,
         GetReset(r) \/ NoReset(r) \/ Send(r) \/ Scan(r) \/ NoMatch(r) \/ Update(r)
           \/ Unreadable(r) \/ Seen(r) \/ Commit(r)
  PROVE  CodesInv'
<1> USE DEF Labels, Ends, Goto, Pick, keys, deaths
<1>1. CASE GetReset(r)
  <2> DEFINE i == reset[user[r]]
  <2>1. /\ pc[r] = "get" /\ i # None /\ user[r] \in Users
        /\ picked' = [picked EXCEPT ![r] = i] /\ pc' = [pc EXCEPT ![r] = "send"]
        /\ UNCHANGED <<flow, keys, known, request, scanned, deaths, spent, after>>
    BY <1>1, Brought DEF GetReset
  <2>2. i \in Requests /\ pc[i] \notin Unissued
    BY <2>1 DEF CodesInv, TypeOK, KeysHoldLive
  <2>3. MayGo(r, "send", i)
    BY <2>1, <2>2 DEF MayGo, Granted
  <2> HIDE DEF i
  <2> QED BY <2>1, <2>2, <2>3, Brought, Moves
<1>2. CASE NoReset(r)
  <2>1. MayGo(r, "store", picked[r])
    BY <1>2 DEF NoReset, MayGo, Granted
  <2> QED BY <1>2, <2>1, Brought, Moves DEF NoReset
<1>3. CASE Send(r)
  <2>1. MayGo(r, "answered", picked[r])
    BY DEF MayGo, Granted
  <2>2. picked[r] # None /\ pc[picked[r]] \notin Unissued
    BY <1>3 DEF Send, CodesInv, Placed
  <2>3. /\ pc[r] = "send" /\ pc' = [pc EXCEPT ![r] = "answered"]
        /\ known \subseteq known' /\ known' \subseteq known \cup {picked[r]}
        /\ UNCHANGED <<flow, keys, request, picked, scanned, deaths, spent, after>>
    BY <1>3 DEF Send
  <2>4. known' \subseteq Requests /\ \A x \in known' \ known : pc[x] \notin Unissued
    BY <2>2, <2>3, Brought
  <2> QED BY <2>1, <2>3, <2>4, Brought, Moves
<1>4. CASE Scan(r)
  <2>1. MayGo(r, "match", picked[r])
    BY DEF MayGo, Granted
  <2>2. scanned' \in [Requests -> SUBSET Users]
    BY <1>4, Brought DEF Scan
  <2> QED BY <1>4, <2>1, <2>2, Brought, Moves DEF Scan
<1>5. CASE NoMatch(r)
  <2>1. MayGo(r, "refused", picked[r])
    BY DEF MayGo, Granted
  <2> QED BY <1>5, <2>1, Brought, Moves DEF NoMatch
<1>6. CASE Update(r)
  <2>1. MayGo(r, "forget", picked[r])
    BY <1>6 DEF Update, MayGo, Granted, CodesInv, DelFinds, Found, DeadStaysDead
  <2> QED BY <1>6, <2>1, Brought, Moves DEF Update
<1>7. CASE Unreadable(r)
  <2>1. MayGo(r, "refused", picked[r])
    BY DEF MayGo, Granted
  <2> QED BY <1>7, <2>1, Brought, Moves DEF Unreadable
<1>8. CASE Seen(r)
  <2>1. MayGo(r, "refused", picked[r])
    BY DEF MayGo, Granted
  <2>2. code[r] \notin nonce => MayGo(r, "mark", picked[r])
    BY <1>8 DEF Seen, MayGo, Granted, CodesInv, DelFinds, DeadStaysDead, ReplayHeld, Placed
  <2> QED BY <1>8, <2>1, <2>2, Brought, Moves DEF Seen
<1>9. CASE Commit(r)
  <2>1. MayGo(r, "clear", picked[r])
    BY <1>9 DEF Commit, MayGo, Granted, CodesInv, DelFinds, DeadStaysDead
  <2> QED BY <1>9, <2>1, Brought, Moves DEF Commit
<1> QED BY <1>1, <1>2, <1>3, <1>4, <1>5, <1>6, <1>7, <1>8, <1>9

LEMMA MarkStep ==
  ASSUME CodesInv, NEW r \in Requests, Mark(r)
  PROVE  CodesInv'
<1> USE DEF CodesInv, request, deaths
<1>1. /\ pc[r] = "mark" /\ code[r] \in Requests /\ pc' = [pc EXCEPT ![r] = "drop"]
      /\ nonce' = nonce \cup {code[r]}
      /\ UNCHANGED <<flow, otp, reset, token, known, request, picked, scanned, deaths, spent,
                     after>>
  BY DEF Mark, Goto, Placed
<1>2. TypeOK'
  BY <1>1 DEF TypeOK
<1>3. \A x \in Requests : pc'[x] = IF x = r THEN "drop" ELSE pc[x]
  BY <1>1 DEF TypeOK
<1>4. \A x \in Requests : pc[x] \notin Unissued => pc'[x] \notin Unissued
  BY <1>3 DEF Unissued
<1>5. KeysHoldLive'
  BY <1>1, <1>4 DEF KeysHoldLive, TypeOK
<1>6. Placed'
  <2>1. ASSUME NEW x \in Requests, pc'[x] = "send"
        PROVE  picked'[x] # None /\ pc'[picked'[x]] \notin Unissued
    BY <1>1, <1>3, <1>4, <2>1 DEF Placed, TypeOK
  <2>2. ASSUME NEW x \in Requests,  pc'[x] \in {"fetch", "seen", "mark", "drop"}
        PROVE  pc'[code'[x]] \notin Unissued
    BY <1>1, <1>3, <1>4, <2>2 DEF Placed, TypeOK
  <2> QED BY <1>1, <1>3, <1>4, <2>1, <2>2 DEF Placed, TypeOK
<1>7. DelFinds' /\ ReplayHeld'
  BY <1>1, <1>3 DEF DelFinds, Found, ReplayHeld
<1>8. DeadStaysDead' /\ ProcessedOnce'
  BY <1>1, <1>3 DEF DeadStaysDead, ProcessedOnce, Granted
<1>9. DeletedByUse'
  BY <1>1, <1>3 DEF DeletedByUse, TypeOK
<1> QED BY <1>2, <1>5, <1>6, <1>7, <1>8, <1>9

LEMMA Stutters == CodesInv /\ UNCHANGED vars => CodesInv'
BY DEF CodesInv, vars, keys, request, deaths, TypeOK, KeysHoldLive, Placed, DelFinds, Found,
       ReplayHeld, DeadStaysDead, DeletedByUse, ProcessedOnce

-----------------------------------------------------------------------------
(* The theorems                                                            *)

\* The keys, the codes that are over and the requests agree in every reachable
\* state (account_service.go:669-760, user_service.go:850-1005,
\* qr_service.go:37-246, qr_provider.go:33-172).
THEOREM InductiveInvariant == Spec => []CodesInv
<1>1. CodesInv /\ [Next]_vars => CodesInv'
  <2> SUFFICES ASSUME CodesInv, [Next]_vars PROVE CodesInv'
    OBVIOUS
  <2>1. CASE UNCHANGED vars
    BY <2>1, Stutters
  <2>2. ASSUME NEW r \in Requests, NEW c \in Requests, NEW k \in Kinds, NEW u \in Users,
               Begin(r, k, u, c)
        PROVE  CodesInv'
    BY <2>2, BeginStep
  <2>3. ASSUME NEW r \in Requests, Handler(r) PROVE CodesInv'
    BY <2>3, SetStep, MoveStep, FindStep, DeleteStep, DropStep, FetchOverStep, MarkStep
    DEF Handler
  <2>4. CASE Time
    BY <2>4, KeyExpiresStep, TokenAgesStep, NonceExpiresStep DEF Time
  <2> QED BY <2>1, <2>2, <2>3, <2>4 DEF Next
<1> QED BY <1>1, Initially, PTL DEF Spec

\* Types of the codes' state.
THEOREM TypeCorrect == Spec => []TypeOK
BY InductiveInvariant, PTL DEF CodesInv

\* A code that was superseded, had expired or was deleted lets in nobody who
\* comes after (account_service.go:733-744, user_service.go:948-999,
\* qr_provider.go:46-157).
THEOREM OverIsOver == Spec => []DeadStaysDead
BY InductiveInvariant, PTL DEF CodesInv

\* Only a request that was let in deletes a code: the one whose digits it was
\* found to bring, or one stored since for the same user
\* (account_service.go:744, user_service.go:999, qr_service.go:242).
THEOREM DeletesItsOwn == Spec => []DeletedByUse
BY InductiveInvariant, PTL DEF CodesInv

\* A QR token is not answered again to who comes after its first answer
\* (qr_service.go:228-242).
THEOREM ProcessedNoMore == Spec => []ProcessedOnce
BY InductiveInvariant, PTL DEF CodesInv

-----------------------------------------------------------------------------
(* USSD codes                                                              *)

HIDE CodesAssumption
USE UssdAssumption

\* The types, as the steps below use them.
LEMMA UssdTypes ==
  ASSUME UssdTypeOK
  PROVE  /\ now \in Nat /\ now <= Horizon /\ Horizon \in Nat
         /\ Window \in Nat /\ Window > 0 /\ Limit \in Nat /\ Limit > 0
         /\ GenWindow \in Nat /\ Timeout \in Nat
         /\ AuthWindow \in Nat /\ AuthWindow >= Window
         /\ \A r \in Calls : User[r] \in Clients /\ Kind[r] \in UssdKinds /\ Key(r) \in Counted
         /\ \A u \in Counted : /\ hits[u].n \in Nat /\ hits[u].until \in Nat
                               /\ \A s \in Times : passed[u][s] \in Nat
         /\ now \in Times
BY DEF UssdTypeOK, Times, Counter, Key, Counted

\* The kinds there are, one by one.
LEMMA UssdKindsAre ==
  \A r \in Calls : Kind[r] \in Types \/ Kind[r] \in {"validate", "pay"} \/ Kind[r] = "auth"
BY DEF UssdKinds

\* A counter stays one.
LEMMA CounterStep ==
  ASSUME UssdTypeOK, NEW c \in Counter, NEW w \in Nat
  PROVE  Increment(c, w) \in Counter /\ Kept(c) \in Counter
BY UssdTypes DEF Increment, Kept, Counter, NoKey

\* A consumed row is what it was, and used.
LEMMA UsedRow ==
  ASSUME NEW x \in CodeRow
  PROVE  /\ [x EXCEPT !.used = TRUE] \in CodeRow
         /\ [x EXCEPT !.used = TRUE].used = TRUE
         /\ [x EXCEPT !.used = TRUE].owner = x.owner
BY DEF CodeRow

\* Every step keeps the types.
LEMMA UssdTypeStep ==
  ASSUME UssdTypeOK, RowsKept, [UssdNext]_ussdVars
  PROVE  UssdTypeOK'
<1> DEFINE Places == {"never", "idle", "auth", "check", "insert", "count", "lookup", "mark",
                      "answered", "valid", "spent", "served", "refused"}
<1> USE DEF limits, table
<1>1. CASE Tick
  <2>1. now' \in Times
    BY <1>1, UssdTypes DEF Tick, Times
  <2>2. hits' \in [Counted -> Counter] /\ made' \in [Clients -> Counter]
    BY <1>1, CounterStep DEF Tick, UssdTypeOK
  <2> QED BY <1>1, <2>1, <2>2 DEF Tick, UssdTypeOK
<1>2. ASSUME NEW r \in Calls, Pass(r) \/ TooMany(r) \/ FailOpen(r) PROVE UssdTypeOK'
  <2>1. hits' \in [Counted -> Counter]
    <3>1. Increment(hits[Key(r)], WindowOf(r)) \in Counter
      BY CounterStep, UssdTypes DEF UssdTypeOK, WindowOf
    <3>2. hits' = hits \/ hits' = [hits EXCEPT ![Key(r)] = Increment(@, WindowOf(r))]
      BY <1>2 DEF Pass, TooMany, FailOpen, Hit
    <3> QED BY <3>1, <3>2 DEF UssdTypeOK
  <2>2. passed' \in [Counted -> [Times -> Nat]]
    <3>1. CASE passed' = passed
      BY <3>1 DEF UssdTypeOK
    <3>2. CASE passed' = [passed EXCEPT ![Key(r)][now] = @ + 1]
      <4>1. Key(r) \in Counted /\ now \in Times
        BY UssdTypes
      <4> QED BY <3>2, <4>1 DEF UssdTypeOK
    <3> QED BY <1>2, <3>1, <3>2 DEF Pass, TooMany, FailOpen
  <2>3. at' \in [Calls -> Places]
    BY <1>2, UssdKindsAre DEF Pass, TooMany, FailOpen, Serve, MoveTo, UssdTypeOK
  <2> QED BY <1>2, <2>1, <2>2, <2>3 DEF Pass, TooMany, FailOpen, UssdTypeOK
<1>3. ASSUME NEW r \in Calls,
             MayGenerate(r) \/ LimitReached(r) \/ Collision(r) \/ NotUsable(r)
      PROVE  UssdTypeOK'
  <2>1. /\ at' \in [Calls -> Places]
        /\ UNCHANGED <<now, hits, made, passed, row, lock, drawn>>
    BY <1>3 DEF MayGenerate, LimitReached, Collision, NotUsable, MoveTo, UssdTypeOK
  <2> QED BY <2>1 DEF UssdTypeOK
<1>4. ASSUME NEW r \in Calls, Answer(r) PROVE UssdTypeOK'
  <2>1. Increment(made[User[r]], GenWindow) \in Counter
    BY CounterStep, UssdTypes DEF UssdTypeOK
  <2>2. made' = made \/ made' = [made EXCEPT ![User[r]] = Increment(@, GenWindow)]
    BY <1>4 DEF Answer
  <2>3. made' \in [Clients -> Counter]
    BY <2>1, <2>2 DEF UssdTypeOK
  <2>4. at' \in [Calls -> Places]
    BY <1>4 DEF Answer, MoveTo, UssdTypeOK
  <2> QED BY <1>4, <2>3, <2>4 DEF Answer, UssdTypeOK
<1>5. ASSUME NEW r \in Calls, NEW d \in Digits, Insert(r, d) PROVE UssdTypeOK'
  <2>1. Kind[r] \in Types
    BY <1>5 DEF Insert, RowsKept
  <2>2. Row(r) \in CodeRow
    <3>1. now + Timeout \in Nat /\ User[r] \in Clients
      BY UssdTypes
    <3> QED BY <2>1, <3>1 DEF Row, CodeRow
  <2>3. row' \in [Digits -> CodeRow \cup {Absent}] /\ drawn' \in [Calls -> Digits \cup {Absent}]
    BY <1>5, <2>2 DEF Insert, UssdTypeOK
  <2>4. at' \in [Calls -> Places]
    BY <1>5 DEF Insert, MoveTo, UssdTypeOK
  <2> QED BY <1>5, <2>3, <2>4 DEF Insert, UssdTypeOK
<1>6. ASSUME NEW r \in Calls, NEW d \in Digits, Lookup(r, d) PROVE UssdTypeOK'
  <2>1. /\ lock' \in [Digits -> Calls \cup {Absent}]
        /\ drawn' \in [Calls -> Digits \cup {Absent}]
        /\ at' \in [Calls -> Places]
    BY <1>6 DEF Lookup, MoveTo, UssdTypeOK
  <2> QED BY <1>6, <2>1 DEF Lookup, UssdTypeOK
<1>7. ASSUME NEW r \in Calls, Consume(r) PROVE UssdTypeOK'
  <2>1. drawn[r] \in Digits /\ row[drawn[r]] \in CodeRow
    BY <1>7 DEF Consume, RowsKept, UssdTypeOK
  <2>2. [row[drawn[r]] EXCEPT !.used = TRUE] \in CodeRow
    BY <2>1, UsedRow
  <2>3. row' = [row EXCEPT ![drawn[r]] = [row[drawn[r]] EXCEPT !.used = TRUE]]
    BY <1>7 DEF Consume
  <2>4. row' \in [Digits -> CodeRow \cup {Absent}]
    BY <2>1, <2>2, <2>3 DEF UssdTypeOK
  <2>5. lock' \in [Digits -> Calls \cup {Absent}] /\ at' \in [Calls -> Places]
    BY <1>7 DEF Consume, Unlocked, MoveTo, UssdTypeOK
  <2> QED BY <1>7, <2>4, <2>5 DEF Consume, UssdTypeOK
<1>8. ASSUME NEW r \in Calls, GiveUp(r) PROVE UssdTypeOK'
  <2>1. lock' \in [Digits -> Calls \cup {Absent}] /\ at' \in [Calls -> Places]
    BY <1>8 DEF GiveUp, Unlocked, MoveTo, UssdTypeOK
  <2> QED BY <1>8, <2>1 DEF GiveUp, UssdTypeOK
<1>9. CASE UNCHANGED ussdVars
  BY <1>9 DEF ussdVars, UssdTypeOK
<1> QED BY <1>1, <1>2, <1>3, <1>4, <1>5, <1>6, <1>7, <1>8, <1>9 DEF UssdNext, Step

-----------------------------------------------------------------------------
(* Rows of ussd_codes                                                      *)

\* What RowsKept and ConsumedOnce say of a request and of two of them.
RowOf(r) ==
  /\ at[r] \in {"check", "insert", "count", "answered"} => Kind[r] \in Types
  /\ at[r] \in {"mark", "count", "answered", "valid", "spent"} =>
       drawn[r] \in Digits /\ row[drawn[r]] # Absent
  /\ at[r] = "mark" => lock[drawn[r]] = r /\ ~row[drawn[r]].used
  /\ Consumed(r) => row[drawn[r]].used
  /\ Drawn(r) => row[drawn[r]].owner = User[r]

Apart(r, q) ==
  /\ Drawn(r) /\ Drawn(q) /\ drawn[r] = drawn[q] => r = q
  /\ Consumed(r) /\ Consumed(q) /\ drawn[r] = drawn[q] => r = q

\* RowsInv, one request or two at a time,
LEMMA CodesByRequest ==
  ASSUME RowsInv
  PROVE  \A r \in Calls : RowOf(r) /\ \A q \in Calls : Apart(r, q)
BY DEF RowsInv, RowsKept, ConsumedOnce, RowOf, Apart, Consumed, Drawn

\* and put together again.
LEMMA CodesGathered ==
  ASSUME \A r \in Calls : RowOf(r)', \A r, q \in Calls : Apart(r, q)'
  PROVE  RowsInv'
<1>1. RowsKept'
  BY DEF RowsKept, RowOf, Apart
<1>2. ConsumedOnce'
  BY DEF ConsumedOnce, Apart, Consumed
<1> QED BY <1>1, <1>2 DEF RowsInv

\* A request that is where it was stays right, if its row is what it was, and
\* its lock while it needs that.
LEMMA RowStays ==
  ASSUME NEW q \in Calls, RowOf(q), at'[q] = at[q], drawn'[q] = drawn[q],
         drawn[q] \in Digits => row'[drawn[q]] = row[drawn[q]],
         at[q] = "mark" => lock'[drawn[q]] = lock[drawn[q]]
  PROVE  RowOf(q)'
BY DEF RowOf, Consumed, Drawn

\* One request moves on to a place where no digits are held, rows and codes
\* stay.
LEMMA LetsGo ==
  ASSUME UssdTypeOK, RowsInv, NEW r \in Calls,
         NEW l \in {"auth", "served", "check", "insert", "lookup", "refused"},
         at' = [at EXCEPT ![r] = l], l \in {"check", "insert"} => Kind[r] \in Types,
         row' = row, drawn' = drawn,
         \A d \in Digits : lock'[d] = lock[d] \/ lock[d] = r
  PROVE  RowsInv'
<1>1. \A q \in Calls : RowOf(q) /\ \A p \in Calls : Apart(q, p)
  BY CodesByRequest
<1>2. \A q \in Calls : at'[q] = IF q = r THEN l ELSE at[q]
  BY DEF UssdTypeOK
<1>3. RowOf(r)'
  BY <1>2 DEF RowOf, Consumed, Drawn
<1>4. ASSUME NEW q \in Calls, q # r PROVE RowOf(q)'
  <2>1. at[q] = "mark" => lock'[drawn[q]] = lock[drawn[q]]
    BY <1>1, <1>4 DEF RowOf
  <2> QED BY <1>1, <1>2, <1>4, <2>1, RowStays
<1>5. ASSUME NEW q \in Calls, NEW p \in Calls PROVE Apart(q, p)'
  BY <1>1, <1>2 DEF Apart, Consumed, Drawn
<1> QED BY <1>3, <1>4, <1>5, CodesGathered

\* Digits without a row are no one's.
LEMMA InsertKeepsRows ==
  ASSUME UssdTypeOK, RowsInv, NEW r \in Calls, NEW d \in Digits, Insert(r, d)
  PROVE  RowsInv'
<1>1. \A q \in Calls : RowOf(q) /\ \A p \in Calls : Apart(q, p)
  BY CodesByRequest
<1>2. /\ \A q \in Calls : at'[q] = IF q = r THEN "count" ELSE at[q]
      /\ \A q \in Calls : drawn'[q] = IF q = r THEN d ELSE drawn[q]
      /\ \A e \in Digits : row'[e] = IF e = d THEN Row(r) ELSE row[e]
      /\ row[d] = Absent /\ lock' = lock /\ at[r] = "insert"
  BY DEF Insert, MoveTo, UssdTypeOK
<1>3. /\ Row(r).owner = User[r] /\ Row(r) # Absent
      /\ Kind[r] \in Types
  <2>1. Kind[r] \in Types
    BY <1>1, <1>2 DEF RowOf
  <2>2. Row(r) \in CodeRow
    <3>1. now + Timeout \in Nat /\ User[r] \in Clients
      BY UssdTypes
    <3> QED BY <2>1, <3>1 DEF Row, CodeRow
  <2> QED BY <2>1, <2>2 DEF Row
<1>4. RowOf(r)'
  BY <1>2, <1>3 DEF RowOf, Consumed, Drawn
<1>5. ASSUME NEW q \in Calls, q # r,
             at[q] \in {"mark", "count", "answered", "valid", "spent"}
      PROVE  drawn[q] # d
  BY <1>1, <1>2, <1>5 DEF RowOf
<1>6. ASSUME NEW q \in Calls, q # r PROVE RowOf(q)'
  BY <1>1, <1>2, <1>5, <1>6 DEF RowOf, Consumed, Drawn
<1>7. ASSUME NEW q \in Calls, NEW p \in Calls PROVE Apart(q, p)'
  BY <1>1, <1>2, <1>5 DEF Apart, Consumed, Drawn
<1> QED BY <1>4, <1>6, <1>7, CodesGathered

\* A row that is not used and not locked is consumed by no one.
LEMMA LookupKeepsRows ==
  ASSUME UssdTypeOK, RowsInv, NEW r \in Calls, NEW d \in Digits, Lookup(r, d)
  PROVE  RowsInv'
<1>1. \A q \in Calls : RowOf(q) /\ \A p \in Calls : Apart(q, p)
  BY CodesByRequest
<1>2. /\ \A q \in Calls : at'[q] = IF q = r THEN "mark" ELSE at[q]
      /\ \A q \in Calls : drawn'[q] = IF q = r THEN d ELSE drawn[q]
      /\ \A e \in Digits : lock'[e] = IF e = d THEN r ELSE lock[e]
      /\ lock[d] = Absent /\ row' = row /\ row[d] # Absent /\ ~row[d].used
  BY DEF Lookup, Usable, MoveTo, UssdTypeOK
<1>3. RowOf(r)'
  BY <1>2 DEF RowOf, Consumed, Drawn
<1>4. \A q \in Calls : q # Absent
  OBVIOUS
<1>5. ASSUME NEW q \in Calls, q # r PROVE RowOf(q)'
  <2>1. at[q] = "mark" => lock'[drawn[q]] = lock[drawn[q]]
    BY <1>1, <1>2, <1>4 DEF RowOf
  <2> QED BY <1>1, <1>2, <1>5, <2>1, RowStays
<1>6. ASSUME NEW q \in Calls, NEW p \in Calls PROVE Apart(q, p)'
  BY <1>1, <1>2 DEF Apart, Consumed, Drawn
<1> QED BY <1>3, <1>5, <1>6, CodesGathered

\* Who consumes a row has its lock, and no one has consumed it before.
LEMMA ConsumeKeepsRows ==
  ASSUME UssdTypeOK, RowsInv, NEW r \in Calls, Consume(r)
  PROVE  RowsInv'
<1>1. \A q \in Calls : RowOf(q) /\ \A p \in Calls : Apart(q, p)
  BY CodesByRequest
<1>2. PICK l \in {"spent", "valid", "refused"} : at' = [at EXCEPT ![r] = l]
  BY DEF Consume, MoveTo
<1>3. /\ \A q \in Calls : at'[q] = IF q = r THEN l ELSE at[q]
      /\ at[r] = "mark" /\ drawn' = drawn
  BY <1>2 DEF Consume, UssdTypeOK
<1>4. /\ drawn[r] \in Digits /\ row[drawn[r]] # Absent
      /\ lock[drawn[r]] = r /\ ~row[drawn[r]].used
  BY <1>1, <1>3 DEF RowOf
<1>5. /\ row[drawn[r]] \in CodeRow
      /\ row' = [row EXCEPT ![drawn[r]] = [row[drawn[r]] EXCEPT !.used = TRUE]]
  BY <1>4 DEF Consume, UssdTypeOK
<1>6. /\ \A e \in Digits : e # drawn[r] => row'[e] = row[e]
      /\ row'[drawn[r]] = [row[drawn[r]] EXCEPT !.used = TRUE]
  BY <1>4, <1>5 DEF UssdTypeOK
<1>7. /\ row'[drawn[r]].used = TRUE /\ row'[drawn[r]].owner = row[drawn[r]].owner
      /\ row'[drawn[r]] \in CodeRow
  BY <1>5, <1>6, UsedRow
<1>8. row'[drawn[r]] # Absent
  BY <1>7
<1>9. RowOf(r)'
  BY <1>3, <1>4, <1>7, <1>8 DEF RowOf, Consumed, Drawn
<1>10. ASSUME NEW q \in Calls, q # r PROVE RowOf(q)'
  <2>1. at[q] = "mark" => drawn[q] # drawn[r]
    BY <1>1, <1>4, <1>10 DEF RowOf
  <2>2. at[q] = "mark" => lock'[drawn[q]] = lock[drawn[q]]
    BY <1>1, <1>10 DEF RowOf, Consume, Unlocked
  <2>3. CASE drawn[q] = drawn[r]
    BY <1>1, <1>3, <1>7, <1>8, <1>10, <2>1, <2>3 DEF RowOf, Consumed, Drawn
  <2>4. CASE drawn[q] # drawn[r]
    BY <1>1, <1>3, <1>6, <1>10, <2>2, <2>4, RowStays
  <2> QED BY <2>3, <2>4
<1>11. ASSUME NEW q \in Calls, q # r, Consumed(q) PROVE drawn[q] # drawn[r]
  BY <1>1, <1>4, <1>11 DEF RowOf
<1>12. ASSUME NEW q \in Calls, NEW p \in Calls PROVE Apart(q, p)'
  BY <1>1, <1>3, <1>11 DEF Apart, Consumed, Drawn
<1> QED BY <1>9, <1>10, <1>12, CodesGathered

\* An answer leaves rows and digits as they are.
LEMMA AnswerKeepsRows ==
  ASSUME UssdTypeOK, RowsInv, NEW r \in Calls, Answer(r)
  PROVE  RowsInv'
<1>1. \A q \in Calls : RowOf(q) /\ \A p \in Calls : Apart(q, p)
  BY CodesByRequest
<1>2. /\ \A q \in Calls : at'[q] = IF q = r THEN "answered" ELSE at[q]
      /\ at[r] = "count" /\ UNCHANGED <<row, lock, drawn>>
  BY DEF Answer, MoveTo, table, UssdTypeOK
<1>3. ASSUME NEW q \in Calls PROVE RowOf(q)'
  BY <1>1, <1>2 DEF RowOf, Consumed, Drawn
<1>4. ASSUME NEW q \in Calls, NEW p \in Calls PROVE Apart(q, p)'
  BY <1>1, <1>2 DEF Apart, Consumed, Drawn
<1> QED BY <1>3, <1>4, CodesGathered

\* Every step keeps what is known of rows.
LEMMA CodesStep ==
  ASSUME UssdTypeOK, RowsInv, [UssdNext]_ussdVars
  PROVE  RowsInv'
<1>1. ASSUME NEW r \in Calls, NEW d \in Digits, Insert(r, d) PROVE RowsInv'
  BY <1>1, InsertKeepsRows
<1>2. ASSUME NEW r \in Calls, NEW d \in Digits, Lookup(r, d) PROVE RowsInv'
  BY <1>2, LookupKeepsRows
<1>3. ASSUME NEW r \in Calls, Consume(r) PROVE RowsInv'
  BY <1>3, ConsumeKeepsRows
<1>4. ASSUME NEW r \in Calls, Answer(r) PROVE RowsInv'
  BY <1>4, AnswerKeepsRows
<1>5. ASSUME NEW r \in Calls, GiveUp(r) PROVE RowsInv'
  <2>1. \A d \in Digits : lock'[d] = lock[d] \/ lock[d] = r
    BY <1>5 DEF GiveUp, Unlocked
  <2> QED BY <1>5, <2>1, LetsGo DEF GiveUp, MoveTo
<1>6. ASSUME NEW r \in Calls,
             \/ Pass(r) \/ TooMany(r) \/ FailOpen(r) \/ MayGenerate(r) \/ LimitReached(r)
             \/ Collision(r) \/ NotUsable(r)
      PROVE  RowsInv'
  <2>1. PICK l \in {"auth", "served", "check", "insert", "lookup", "refused"} :
          /\ at' = [at EXCEPT ![r] = l]
          /\ l = "check" => Kind[r] \in Types
          /\ l = "insert" => at[r] = "check"
          /\ UNCHANGED <<row, lock, drawn>>
    BY <1>6, UssdKindsAre DEF Pass, TooMany, FailOpen, Serve, MayGenerate, LimitReached,
                              Collision, NotUsable, MoveTo, table
  <2>2. l \in {"check", "insert"} => Kind[r] \in Types
    BY <2>1 DEF RowsInv, RowsKept
  <2> QED BY <2>1, <2>2, LetsGo
<1>7. CASE UNCHANGED <<row, lock, at, drawn>>
  BY <1>7 DEF RowsInv, RowsKept, ConsumedOnce, Consumed, Drawn
<1> QED
  BY <1>1, <1>2, <1>3, <1>4, <1>5, <1>6, <1>7 DEF UssdNext, Step, Tick, table, ussdVars

-----------------------------------------------------------------------------
(* The rate limiter                                                        *)

WindowAt(t) == {s \in Times : t <= s /\ s < t + Window}
Since(c)  == {s \in Times : c <= s}

\* There are finitely many ticks, so sums over them are numbers.
LEMMA TimesFinite ==
  /\ IsFiniteSet(Times)
  /\ \A S \in SUBSET Times : IsFiniteSet(S)
<1>1. IsFiniteSet(Times)
  BY FS_Interval DEF Times
<1> QED BY <1>1, FS_Subset

\* What has passed adds up to a number.
LEMMA PassedSums ==
  ASSUME UssdTypeOK, NEW u \in Counted, NEW S \in SUBSET Times
  PROVE  SumFunctionOnSet(passed[u], S) \in Int
<1>1. IsFiniteSet(S) /\ \A s \in S : passed[u][s] \in Int
  BY TimesFinite, UssdTypes
<1> QED BY <1>1, SumType

\* There is a tick from which a hit counts: what has passed since is in the
\* counter, what had before did so a window earlier.
LEMMA Origin ==
  ASSUME UssdTypeOK, NEW u \in Counted, CounterKept(u)
  PROVE  \E c \in 0..now :
           /\ \A s \in Times : passed[u][s] # 0 => c <= s \/ s + Window <= c
           /\ PassedFrom(u, c) <= hits[u].n
           /\ PassedFrom(u, c) <= Limit
<1>1. CASE hits[u].n > 0
  BY <1>1 DEF CounterKept
<1>2. CASE hits[u].n = 0
  <2>1. \A s \in Times : passed[u][s] # 0 => s + Window <= now
    BY <1>2 DEF CounterKept
  <2>2. \A s \in Since(now) : passed[u][s] = 0
    BY <2>1, UssdTypes DEF Since, Times
  <2>3. SumFunctionOnSet(passed[u], Since(now)) = SumFunctionOnSet(passed[u], {})
    <3>1. IsFiniteSet(Since(now))
      BY TimesFinite DEF Since
    <3>2. PICK E \in SUBSET Since(now) : E = {}
      OBVIOUS
    <3>3. SumFunctionOnSet(passed[u], Since(now)) = SumFunctionOnSet(passed[u], E)
      BY <2>2, <3>1, SumZeros
    <3> QED BY <3>2, <3>3
  <2>4. PassedFrom(u, now) = 0
    BY <2>3, SumEmpty DEF PassedFrom, Since
  <2>5. now \in 0..now
    BY UssdTypes
  <2> QED BY <1>2, <2>1, <2>4, <2>5, UssdTypes
<1> QED BY <1>1, <1>2, UssdTypes

\* A hit that lets nothing through.
LEMMA HitCounted ==
  ASSUME UssdTypeOK, NEW u \in Counted, CounterKept(u),
         NEW w \in Nat, w >= Window,
         now' = now, passed'[u] = passed[u], hits'[u] = Increment(hits[u], w)
  PROVE  CounterKept(u)'
<1>1. hits'[u].n = hits[u].n + 1 /\ hits'[u].until = now + w
  BY DEF Increment
<1>2. hits'[u].n > 0 /\ now' < hits'[u].until
  BY <1>1, UssdTypes
<1>3. \A s \in Times : passed'[u][s] # 0 =>
        s <= now' /\ s + Window <= (IF hits'[u].n = 0 THEN now' ELSE hits'[u].until)
  <2>1. \A s \in Times : passed[u][s] # 0 => s <= now
    BY DEF CounterKept
  <2> QED BY <1>1, <1>2, <2>1, UssdTypes DEF Times
<1>4. PICK c \in 0..now :
        /\ \A s \in Times : passed[u][s] # 0 => c <= s \/ s + Window <= c
        /\ PassedFrom(u, c) <= hits[u].n
        /\ PassedFrom(u, c) <= Limit
  BY Origin
<1>5. PassedFrom(u, c)' = PassedFrom(u, c) /\ PassedFrom(u, c) \in Int
  <2>1. Since(c) \in SUBSET Times
    BY DEF Since
  <2>2. PassedFrom(u, c) \in Int
    BY <2>1, PassedSums DEF PassedFrom, Since
  <2> QED BY <2>2 DEF PassedFrom
<1>6. PassedFrom(u, c)' <= hits'[u].n /\ PassedFrom(u, c)' <= Limit
  BY <1>1, <1>4, <1>5, UssdTypes
<1>7. hits'[u].n # 0
  BY <1>1, UssdTypes
<1> QED BY <1>2, <1>3, <1>4, <1>6, <1>7 DEF CounterKept

\* A pass: the counter has room for it.
LEMMA PassCounted ==
  ASSUME UssdTypeOK, NEW u \in Counted, CounterKept(u),
         now' = now, hits[u].n + 1 <= Limit,
         hits'[u] = Increment(hits[u], Window),
         passed'[u] = [passed[u] EXCEPT ![now] = @ + 1],
         \A t \in Times : SumFunctionOnSet(passed[u], WindowAt(t)) <= Limit
  PROVE  /\ CounterKept(u)'
         /\ \A t \in Times : SumFunctionOnSet(passed'[u], WindowAt(t)) <= Limit
<1>1. /\ hits'[u].n = hits[u].n + 1 /\ hits'[u].until = now + Window
      /\ hits'[u].n > 0 /\ hits'[u].n # 0 /\ now' < hits'[u].until
  BY UssdTypes DEF Increment
<1>2. \A s \in Times : passed'[u][s] = IF s = now THEN passed[u][s] + 1 ELSE passed[u][s]
  BY DEF UssdTypeOK
<1>3. \A s \in Times : passed[u][s] \in Nat /\ passed'[u][s] \in Nat
  BY <1>2, UssdTypes
<1>4. \A s \in Times : passed'[u][s] # 0 =>
        s <= now' /\ s + Window <= (IF hits'[u].n = 0 THEN now' ELSE hits'[u].until)
  <2>1. \A s \in Times : passed[u][s] # 0 => s <= now
    BY DEF CounterKept
  <2>2. \A s \in Times : passed'[u][s] # 0 => s <= now
    BY <1>2, <2>1, UssdTypes
  <2> QED BY <1>1, <2>2, UssdTypes DEF Times
<1>5. PICK c \in 0..now :
        /\ \A s \in Times : passed[u][s] # 0 => c <= s \/ s + Window <= c
        /\ PassedFrom(u, c) <= hits[u].n
        /\ PassedFrom(u, c) <= Limit
  BY Origin
<1>6. \A s \in Times : passed'[u][s] # 0 => c <= s \/ s + Window <= c
  BY <1>2, <1>5, UssdTypes
<1>7. SumFunctionOnSet(passed'[u], Since(c)) = SumFunctionOnSet(passed[u], Since(c)) + 1
  <2>1. IsFiniteSet(Since(c)) /\ now \in Since(c)
    BY TimesFinite, UssdTypes DEF Since
  <2>2. /\ \A s \in Since(c) : passed[u][s] \in Int /\ passed'[u][s] \in Int
        /\ \A s \in Since(c) \ {now} : passed[u][s] = passed'[u][s]
        /\ passed'[u][now] - passed[u][now] = 1
    BY <1>2, <1>3, UssdTypes DEF Since
  <2>3. PICK f, g : f = passed[u] /\ g = passed'[u]
    OBVIOUS
  <2>4. /\ \A s \in Since(c) : f[s] \in Int /\ g[s] \in Int
        /\ \A s \in Since(c) \ {now} : f[s] = g[s]
        /\ g[now] - f[now] = 1
    BY <2>2, <2>3
  <2>5. SumFunctionOnSet(g, Since(c)) = SumFunctionOnSet(f, Since(c)) + (g[now] - f[now])
    BY <2>1, <2>4, SumChange
  <2> QED BY <2>3, <2>4, <2>5
<1>8. /\ PassedFrom(u, c) = SumFunctionOnSet(passed[u], Since(c))
      /\ PassedFrom(u, c)' = SumFunctionOnSet(passed'[u], Since(c))
      /\ PassedFrom(u, c) \in Int
  <2>1. Since(c) \in SUBSET Times
    BY DEF Since
  <2>2. SumFunctionOnSet(passed[u], Since(c)) \in Int
    BY <2>1, PassedSums
  <2> QED BY <2>2 DEF PassedFrom, Since
<1>9. PassedFrom(u, c)' <= hits'[u].n /\ PassedFrom(u, c)' <= Limit
  BY <1>1, <1>5, <1>7, <1>8, UssdTypes
<1>10. CounterKept(u)'
  BY <1>1, <1>4, <1>5, <1>6, <1>9 DEF CounterKept
<1>11. ASSUME NEW t \in Times PROVE SumFunctionOnSet(passed'[u], WindowAt(t)) <= Limit
  <2> DEFINE W == WindowAt(t)
             R == {s \in W : c <= s}
  <2>1. /\ W \in SUBSET Times /\ IsFiniteSet(W) /\ R \in SUBSET W
        /\ IsFiniteSet(Since(c)) /\ R \in SUBSET Since(c) /\ Since(c) \in SUBSET Times
    BY TimesFinite DEF WindowAt, Since
  <2>2. CASE now \notin W
    <3>1. \A s \in W : passed'[u][s] = passed[u][s]
      BY <1>2, <2>1, <2>2
    <3> HIDE DEF W
    <3>2. PICK f, g : f = passed[u] /\ g = passed'[u]
      OBVIOUS
    <3>3. SumFunctionOnSet(g, W) = SumFunctionOnSet(f, W)
      <4>1. \A s \in W : g[s] = f[s]
        BY <3>1, <3>2
      <4> QED BY <2>1, <4>1, SumSame
    <3> QED BY <3>2, <3>3 DEF W
  <2>3. CASE now \in W
    <3>1. \A s \in W \ R : passed'[u][s] = 0
      <4> SUFFICES ASSUME NEW s \in W, s < c, passed'[u][s] # 0 PROVE FALSE
        BY <2>1, UssdTypes DEF Times
      <4>1. s \in Times /\ t <= s /\ now < t + Window
        BY <2>3 DEF WindowAt
      <4>2. s + Window <= c
        BY <1>6, <4>1 DEF Times
      <4> QED BY <4>1, <4>2, UssdTypes DEF Times
    <3> HIDE DEF W, R
    <3>2. SumFunctionOnSet(passed'[u], W) = SumFunctionOnSet(passed'[u], R)
      <4>1. \A s \in W : passed'[u][s] \in Int
        BY <1>3, <2>1
      <4> QED BY <2>1, <3>1, <4>1, SumZeros
    <3>3. SumFunctionOnSet(passed'[u], R) <= SumFunctionOnSet(passed'[u], Since(c))
      <4>1. \A s \in Since(c) : passed'[u][s] \in Nat
        BY <1>3, <2>1
      <4> QED BY <2>1, <4>1, SumGrows
    <3>4. SumFunctionOnSet(passed'[u], R) \in Int
      <4>1. IsFiniteSet(R) /\ \A s \in R : passed'[u][s] \in Int
        BY <1>3, <2>1, FS_Subset
      <4> QED BY <4>1, SumType
    <3>5. SumFunctionOnSet(passed'[u], Since(c)) \in Int
      BY <1>7, <1>8
    <3> QED BY <1>8, <1>9, <3>2, <3>3, <3>4, <3>5, UssdTypes DEF W
  <2> QED BY <2>2, <2>3
<1> QED BY <1>10, <1>11

\* A tick: the key goes only when its window is over.
LEMMA TickKeepsCounter ==
  ASSUME UssdTypeOK, NEW u \in Counted, CounterKept(u),
         now' = now + 1, passed'[u] = passed[u], hits'[u] = Kept(hits[u])
  PROVE  CounterKept(u)'
<1>1. CASE hits[u].until <= now + 1
  <2>1. hits'[u] = NoKey /\ hits'[u].n = 0
    BY <1>1 DEF Kept, NoKey
  <2>2. \A s \in Times : passed[u][s] # 0 => s <= now' /\ s + Window <= now'
    BY <1>1, UssdTypes DEF CounterKept, Times
  <2> QED BY <2>1, <2>2 DEF CounterKept
<1>2. CASE ~(hits[u].until <= now + 1)
  <2>1. hits'[u] = hits[u] /\ hits[u].n # 0 /\ hits[u].n > 0
    BY <1>2, UssdTypes DEF Kept, CounterKept, NoKey
  <2>2. now' < hits'[u].until
    BY <1>2, <2>1, UssdTypes
  <2>3. \A s \in Times : passed'[u][s] # 0 => s <= now' /\ s + Window <= hits'[u].until
    BY <2>1, UssdTypes DEF CounterKept, Times
  <2>4. \E c \in 0..now' :
          /\ \A s \in Times : passed'[u][s] # 0 => c <= s \/ s + Window <= c
          /\ PassedFrom(u, c)' <= hits'[u].n
          /\ PassedFrom(u, c)' <= Limit
    <3>1. PICK c \in 0..now :
            /\ \A s \in Times : passed[u][s] # 0 => c <= s \/ s + Window <= c
            /\ PassedFrom(u, c) <= hits[u].n
            /\ PassedFrom(u, c) <= Limit
      BY Origin
    <3>2. PassedFrom(u, c)' = PassedFrom(u, c) /\ c \in 0..now'
      BY UssdTypes DEF PassedFrom
    <3> QED BY <2>1, <3>1, <3>2
  <2> QED BY <2>1, <2>2, <2>3, <2>4 DEF CounterKept
<1> QED BY <1>1, <1>2

\* Every step keeps what is known of counters.
LEMMA LimiterStep ==
  ASSUME UssdTypeOK, LimiterInv, [UssdNext]_ussdVars
  PROVE  LimiterInv'
<1> DEFINE Admits(u) == \A t \in Times : SumFunctionOnSet(passed[u], WindowAt(t)) <= Limit
<1>1. \A u \in Counted : CounterKept(u) /\ Admits(u)
  BY DEF LimiterInv, AdmittedWithinLimit, WindowAt
<1>2. ASSUME NEW u \in Counted, now' = now, hits'[u] = hits[u], passed'[u] = passed[u]
      PROVE  CounterKept(u)' /\ Admits(u)'
  BY <1>1, <1>2 DEF CounterKept, PassedFrom
<1>3. ASSUME NEW r \in Calls, NEW u \in Counted,
             now' = now, passed' = passed, hits' = hits \/ Hit(r)
      PROVE  CounterKept(u)' /\ Admits(u)'
  <2>1. CASE hits'[u] = hits[u]
    BY <1>2, <1>3, <2>1
  <2>2. CASE hits'[u] = Increment(hits[u], WindowOf(r))
    <3>1. WindowOf(r) \in Nat /\ WindowOf(r) >= Window
      BY UssdTypes DEF WindowOf
    <3>2. passed'[u] = passed[u]
      BY <1>3
    <3>3. CounterKept(u)'
      BY <1>1, <1>3, <2>2, <3>1, <3>2, HitCounted
    <3>4. Admits(u)'
      BY <1>1, <3>2
    <3> QED BY <3>3, <3>4
  <2> QED BY <1>3, <2>1, <2>2 DEF Hit, UssdTypeOK
<1>4. ASSUME NEW r \in Calls, Pass(r), AtGlobal(r), NEW u \in Counted
      PROVE  CounterKept(u)' /\ Admits(u)'
  <2>1. CASE u = Key(r)
    <3>1. /\ now' = now /\ hits[u].n + 1 <= Limit
          /\ hits'[u] = Increment(hits[u], Window)
          /\ passed'[u] = [passed[u] EXCEPT ![now] = @ + 1]
      BY <1>4, <2>1 DEF Pass, Hit, LimitOf, WindowOf, UssdTypeOK
    <3> QED BY <1>1, <3>1, PassCounted
  <2>2. CASE u # Key(r)
    BY <1>2, <1>4, <2>2 DEF Pass, Hit, UssdTypeOK
  <2> QED BY <2>1, <2>2
<1>5. ASSUME Tick, NEW u \in Counted PROVE CounterKept(u)' /\ Admits(u)'
  <2>1. now' = now + 1 /\ passed' = passed /\ hits'[u] = Kept(hits[u])
    BY <1>5 DEF Tick, UssdTypeOK
  <2> QED BY <1>1, <2>1, TickKeepsCounter
<1>6. ASSUME UNCHANGED <<now, hits, passed>>, NEW u \in Counted
      PROVE  CounterKept(u)' /\ Admits(u)'
  BY <1>2, <1>6
<1> HIDE DEF Admits
<1>7. ASSUME NEW r \in Calls, NEW u \in Counted, Pass(r) \/ TooMany(r) \/ FailOpen(r)
      PROVE  CounterKept(u)' /\ Admits(u)'
  <2>1. CASE Pass(r) /\ AtGlobal(r)
    BY <1>4, <2>1
  <2>2. CASE ~(Pass(r) /\ AtGlobal(r))
    <3>1. now' = now /\ passed' = passed /\ (hits' = hits \/ Hit(r))
      BY <1>7, <2>2 DEF Pass, TooMany, FailOpen
    <3> QED BY <1>3, <3>1
  <2> QED BY <2>1, <2>2
<1>8. \A u \in Counted : CounterKept(u)' /\ Admits(u)'
  BY <1>5, <1>6, <1>7
     DEF UssdNext, Step, MayGenerate, LimitReached, Collision, Answer, Insert, Lookup, NotUsable,
         Consume, GiveUp, limits, ussdVars
<1> QED BY <1>8 DEF LimiterInv, AdmittedWithinLimit, Admits, WindowAt

\* The initial states keep the invariant.
LEMMA UssdInitially ==
  ASSUME UssdInit
  PROVE  UssdInv
<1>1. UssdTypeOK
  BY DEF UssdInit, UssdTypeOK, Times, Counter, NoKey
<1>2. RowsInv
  BY DEF UssdInit, RowsInv, RowsKept, ConsumedOnce, Consumed, Drawn
<1>3. \A u \in Counted : /\ hits[u] = NoKey /\ hits[u].n = 0
                         /\ \A s \in Times : passed[u][s] = 0
  BY DEF UssdInit, NoKey
<1>4. ASSUME NEW u \in Counted PROVE CounterKept(u)
  <2>1. /\ hits[u].n = 0 /\ ~(hits[u].n > 0) /\ hits[u] = NoKey
        /\ \A s \in Times : ~(passed[u][s] # 0)
    BY <1>3
  <2> QED BY ONLY <2>1 DEF CounterKept
<1>5. AdmittedWithinLimit
  <2> SUFFICES ASSUME NEW u \in Counted, NEW t \in Times
               PROVE  SumFunctionOnSet(passed[u], WindowAt(t)) <= Limit
    BY DEF AdmittedWithinLimit, WindowAt
  <2>1. IsFiniteSet(WindowAt(t)) /\ \A s \in WindowAt(t) : passed[u][s] = 0
    BY <1>3, TimesFinite DEF WindowAt
  <2>2. PICK E \in SUBSET WindowAt(t) : E = {}
    OBVIOUS
  <2>3. SumFunctionOnSet(passed[u], WindowAt(t)) = SumFunctionOnSet(passed[u], E)
    BY <2>1, SumZeros
  <2> QED BY <2>2, <2>3, SumEmpty, <1>1, UssdTypes
<1> QED BY <1>1, <1>2, <1>4, <1>5 DEF UssdInv, LimiterInv

\* Codes, rows, locks and counters agree in every state, for any users,
\* requests, digits, limits and windows.
THEOREM UssdInductive == UssdSpec => []UssdInv
<1>1. UssdInit => UssdInv
  BY UssdInitially
<1>2. UssdInv /\ [UssdNext]_ussdVars => UssdInv'
  BY UssdTypeStep, CodesStep, LimiterStep DEF UssdInv, RowsInv
<1> QED BY <1>1, <1>2, PTL DEF UssdSpec

\* A code is consumed once, by a validation or by a payment.
THEOREM UssdConsumedOnce == UssdSpec => []ConsumedOnce
<1>1. UssdInv => ConsumedOnce
  BY DEF UssdInv, RowsInv
<1> QED BY <1>1, UssdInductive, PTL

\* The digits a user was given are nobody else's.
THEOREM UssdStaysOwn == UssdSpec => []CodeStaysOwn
<1>1. UssdInv => CodeStaysOwn
  BY DEF UssdInv, RowsInv, RowsKept, Drawn, CodeStaysOwn
<1> QED BY <1>1, UssdInductive, PTL

\* No window of GlobalLimit admits more than Limit on any key, wherever it
\* begins, whatever a second limiter does to the key (ratelimit.go:51-68,
\* main.go:220).
THEOREM LimitHolds == UssdSpec => []AdmittedWithinLimit
<1>1. UssdInv => AdmittedWithinLimit
  BY DEF UssdInv, LimiterInv
<1> QED BY <1>1, UssdInductive, PTL

=============================================================================

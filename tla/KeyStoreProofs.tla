---------------------------- MODULE KeyStoreProofs ---------------------------
(***************************************************************************)
(* KeyStore, for any keys, requests and clients: what was signed can be    *)
(* verified, and a login is refused only for a pair that was renewed.      *)
(***************************************************************************)
EXTENDS KeyStore, TLAPS

USE KeyStoreAssumption DEF Opened, Verifying, Known, GetPublicKey, GetPrivateKey, Decrypts

\* The part of the invariant about the signing key, and that about the pair.
KeysOK == FileHolds /\ PastHeld /\ SignedStaysVerifiable /\ PublishedOrLost
PairOK == PairAlone /\ PairMatches /\ RefusedWhenRenewed

LEMMA Initially == Init => KeyStoreInv
BY DEF Init, KeyStoreInv, TypeOK, FileHolds, PastHeld, PastKeys, PairAlone, Writing,
       SignedStaysVerifiable, PublishedOrLost, PairMatches, RefusedWhenRenewed

\* The pair is not touched.
LEMMA PairKept ==
  ASSUME PairOK, UNCHANGED <<pair, clients>>
  PROVE  PairOK'
BY DEF PairOK, pair, clients, PairAlone, PairMatches, RefusedWhenRenewed, Writing

\* The signing key is not touched.
LEMMA KeysKept ==
  ASSUME KeysOK, UNCHANGED <<srv, signing>>
  PROVE  KeysOK'
BY DEF KeysOK, signing, FileHolds, PastHeld, PastKeys, SignedStaysVerifiable, PublishedOrLost

-----------------------------------------------------------------------------
(* The server and its signing key                                          *)

LEMMA ProcessStep ==
  ASSUME TypeOK, KeysOK, Process
  PROVE  TypeOK' /\ KeysOK'
<1> USE DEF signing, pair, clients, KeysOK
<1>1. CASE Load
  <2>1. TypeOK'
    BY <1>1 DEF Load, TypeOK
  <2>2. /\ srv = "down" /\ mem = None /\ archive = {} /\ lock = None
        /\ PastKeys \subseteq gone \cup {file}
        /\ PastKeys' \subseteq PastKeys \cup archived
    BY <1>1 DEF Load, FileHolds, PastHeld, PastKeys
  <2>3. /\ srv' = IF mem' = None /\ archive' = {} THEN "empty" ELSE "sync"
        /\ mem' \in {file, None} /\ archive' \subseteq archived /\ gone \subseteq gone'
        /\ mem' = None => {file} \cap Keys \subseteq gone'
        /\ UNCHANGED <<file, archived, db, lock, signed>>
    BY <1>1 DEF Load
  <2>4. FileHolds'
    BY <2>2, <2>3 DEF FileHolds
  <2>5. PastKeys' \subseteq Keys
    BY <2>1 DEF TypeOK, PastKeys
  <2>6. PastHeld'
    BY <2>2, <2>3, <2>5 DEF PastHeld, PastKeys
  <2> QED BY <2>1, <2>3, <2>4, <2>6 DEF PastHeld, PastKeys, SignedStaysVerifiable, PublishedOrLost
<1>2. CASE Generate
  <2>1. TypeOK'
    BY <1>2 DEF Generate, TypeOK
  <2>2. FileHolds' /\ PastHeld'
    BY <1>2 DEF Generate, FileHolds, PastHeld, PastKeys
  <2> QED BY <1>2, <2>1, <2>2 DEF Generate, SignedStaysVerifiable, PublishedOrLost
<1>3. CASE Save
  <2>1. TypeOK'
    BY <1>3 DEF Save, TypeOK
  <2>2. FileHolds' /\ PastHeld'
    BY <1>3 DEF Save, FileHolds, PastHeld, PastKeys
  <2> QED BY <1>3, <2>1, <2>2 DEF Save, SignedStaysVerifiable, PublishedOrLost
<1>4. CASE SaveFails
  <2>1. TypeOK'
    BY <1>4 DEF SaveFails, TypeOK
  <2>2. FileHolds' /\ PastHeld'
    BY <1>4 DEF SaveFails, FileHolds, PastHeld, PastKeys
  <2> QED BY <1>4, <2>1, <2>2 DEF SaveFails, SignedStaysVerifiable, PublishedOrLost
<1>5. CASE Sync
  <2>1. TypeOK'
    BY <1>5 DEF Sync, TypeOK
  <2>2. FileHolds' /\ PastHeld'
    BY <1>5 DEF Sync, FileHolds, PastHeld, PastKeys
  <2>3. SignedStaysVerifiable' /\ PublishedOrLost'
    BY <1>5, <2>1, <2>2
    DEF Sync, PastHeld, PastKeys, SignedStaysVerifiable, PublishedOrLost, TypeOK
  <2> QED BY <2>1, <2>2, <2>3
<1> QED BY <1>1, <1>2, <1>3, <1>4, <1>5 DEF Process

LEMMA CrashStep ==
  ASSUME TypeOK, KeysOK, PairOK, Crash
  PROVE  TypeOK' /\ KeysOK' /\ PairOK'
<1>1. TypeOK'
  BY DEF Crash, TypeOK, clients
<1>2. KeysOK'
  BY DEF Crash, KeysOK, FileHolds, PastHeld, PastKeys, SignedStaysVerifiable, PublishedOrLost,
         TypeOK
<1>3. PairOK'
  <2>1. settled => Writing' = {}
    BY DEF Crash, PairOK, PairAlone, Writing, TypeOK
  <2>2. UNCHANGED <<priv, pub, settled, renewed, cpc, got>> /\ solo' = None
    BY DEF Crash, clients
  <2> QED BY <2>1, <2>2 DEF PairOK, PairAlone, PairMatches, RefusedWhenRenewed
<1> QED BY <1>1, <1>2, <1>3

LEMMA SigningStep ==
  ASSUME TypeOK, KeysOK,
         (\E s \in Signers : Asks(s) \/ Sign(s)) \/ Rotate \/ Delete \/ Remove
  PROVE  TypeOK' /\ KeysOK'
<1> USE DEF signing, pair, clients
<1>1. TypeOK'
  <2>1. ASSUME NEW s \in Signers, Asks(s) PROVE TypeOK'
    BY <2>1 DEF Asks, TypeOK
  <2>2. ASSUME NEW s \in Signers, Sign(s) PROVE TypeOK'
    BY <2>2 DEF Sign, TypeOK
  <2>3. CASE Rotate
    BY <2>3 DEF Rotate, TypeOK
  <2>4. CASE Delete
    BY <2>4 DEF Delete, TypeOK
  <2>5. CASE Remove
    BY <2>5 DEF Remove, TypeOK
  <2> QED BY <2>1, <2>2, <2>3, <2>4, <2>5
<1>2. ASSUME NEW s \in Signers, Asks(s) PROVE KeysOK'
  BY <1>1, <1>2, KeysKept DEF Asks
<1>3. ASSUME NEW s \in Signers, Sign(s) PROVE KeysOK'
  BY <1>1, <1>3 DEF Sign, KeysOK, FileHolds, PastHeld, PastKeys, SignedStaysVerifiable,
                    PublishedOrLost, TypeOK
<1>4. CASE Rotate
  BY <1>1, <1>4 DEF Rotate, KeysOK, FileHolds, PastHeld, PastKeys, SignedStaysVerifiable,
                    PublishedOrLost, TypeOK
<1>5. CASE Delete
  BY <1>1, <1>5 DEF Delete, KeysOK, FileHolds, PastHeld, PastKeys, SignedStaysVerifiable,
                    PublishedOrLost, TypeOK
<1>6. CASE Remove
  BY <1>1, <1>6 DEF Remove, KeysOK, FileHolds, PastHeld, PastKeys, SignedStaysVerifiable,
                    PublishedOrLost, TypeOK
<1> QED BY <1>1, <1>2, <1>3, <1>4, <1>5, <1>6

-----------------------------------------------------------------------------
(* The pair and its clients                                                *)

LEMMA GenerationStep ==
  ASSUME TypeOK, PairOK, NEW g \in Generators, Generation(g)
  PROVE  TypeOK' /\ PairOK'
<1> USE DEF signing, clients
<1>1. CASE OpenPrivate(g)
  <2>1. TypeOK'
    BY <1>1 DEF OpenPrivate, TypeOK
  <2>2. gpc' = [gpc EXCEPT ![g] = "private"] /\ Writing' = Writing \cup {g}
    BY <1>1 DEF OpenPrivate, TypeOK, Writing
  <2> QED
    BY <1>1, <2>1, <2>2
    DEF OpenPrivate, PairOK, PairAlone, PairMatches, RefusedWhenRenewed, TypeOK
<1>2. CASE WritePrivate(g)
  <2>1. Written(g) \subseteq Generators \cup {Torn}
    BY DEF Written
  <2>2. TypeOK'
    BY <1>2, <2>1 DEF WritePrivate, TypeOK
  <2>3. Writing' = Writing /\ g \in Writing
    BY <1>2 DEF WritePrivate, TypeOK, Writing
  <2>4. /\ priv' \in Written(g) /\ \A h \in Generators : h # g => gpc'[h] = gpc[h]
        /\ UNCHANGED <<pub, solo, settled, renewed, cpc, got>>
    BY <1>2 DEF WritePrivate, TypeOK
  <2>5. solo # None => solo = g /\ priv' = g
    BY <2>3, <2>4 DEF PairOK, PairAlone, Written
  <2>6. ~settled
    BY <2>3 DEF PairOK, PairAlone
  <2> QED BY <2>2, <2>3, <2>4, <2>5, <2>6 DEF PairOK, PairAlone, PairMatches, RefusedWhenRenewed
<1>3. CASE OpenPublic(g)
  <2>1. TypeOK'
    BY <1>3 DEF OpenPublic, TypeOK
  <2>2. Writing' = Writing /\ g \in Writing
    BY <1>3 DEF OpenPublic, TypeOK, Writing
  <2>3. ~settled
    BY <2>2 DEF PairOK, PairAlone
  <2>4. solo # None => solo = g /\ priv = g
    BY <1>3, <2>2 DEF OpenPublic, PairOK, PairAlone
  <2> QED
    BY <1>3, <2>1, <2>2, <2>3, <2>4
    DEF OpenPublic, PairOK, PairAlone, PairMatches, RefusedWhenRenewed
<1>4. CASE WritePublic(g)
  <2>1. Written(g) \subseteq Generators \cup {Torn}
    BY DEF Written
  <2>2. TypeOK'
    BY <1>4, <2>1, Zenon DEF WritePublic, TypeOK
  <2>3. Writing' = Writing \ {g} /\ g \in Writing /\ g # None
    BY <1>4 DEF WritePublic, TypeOK, Writing
  <2>4. /\ pub' \in Written(g) /\ settled' = (solo = g) /\ solo' = None
        /\ UNCHANGED <<priv, renewed, cpc, got>> /\ gpc[g] = "finish"
    BY <1>4 DEF WritePublic
  <2>5. ~settled
    BY <2>3 DEF PairOK, PairAlone
  <2>6. solo = g => Writing = {g} /\ priv = g /\ pub' = g
    BY <2>3, <2>4 DEF PairOK, PairAlone, Written
  <2> QED BY <2>2, <2>3, <2>4, <2>5, <2>6 DEF PairOK, PairAlone, PairMatches, RefusedWhenRenewed
<1> QED BY <1>1, <1>2, <1>3, <1>4 DEF Generation

LEMMA ClientStep ==
  ASSUME TypeOK, PairOK, NEW c \in Clients, FetchPublic(c) \/ Login(c)
  PROVE  TypeOK' /\ PairOK'
<1> USE DEF signing, pair
<1>1. CASE FetchPublic(c)
  <2>1. TypeOK'
    BY <1>1 DEF FetchPublic, TypeOK
  <2> QED
    BY <1>1, <2>1
    DEF FetchPublic, PairOK, PairAlone, PairMatches, RefusedWhenRenewed, Writing, TypeOK
<1>2. CASE Login(c)
  <2>1. TypeOK'
    BY <1>2 DEF Login, TypeOK
  <2> QED
    BY <1>2, <2>1
    DEF Login, PairOK, PairAlone, PairMatches, RefusedWhenRenewed, Writing, TypeOK
<1> QED BY <1>1, <1>2

-----------------------------------------------------------------------------
(* The theorems                                                            *)

\* The files, the memory and the database agree in every reachable state, over
\* starts, crashes and writes that fail (hsm.go:124-205, 589-838).
THEOREM InductiveInvariant == Spec => []KeyStoreInv
<1>1. KeyStoreInv /\ [Next]_vars => KeyStoreInv'
  <2> SUFFICES ASSUME TypeOK, KeysOK, PairOK, [Next]_vars PROVE TypeOK' /\ KeysOK' /\ PairOK'
    BY DEF KeyStoreInv, KeysOK, PairOK
  <2>1. CASE UNCHANGED vars
    <3>1. TypeOK'
      BY <2>1 DEF vars, signing, pair, clients, TypeOK
    <3> QED BY <2>1, <3>1, PairKept, KeysKept DEF vars
  <2>2. CASE Process
    BY <2>2, ProcessStep, PairKept
    DEF Process, Load, Generate, Save, SaveFails, Sync
  <2>3. CASE Crash
    BY <2>3, CrashStep
  <2>4. CASE Rotate \/ Delete \/ Remove
    <3>1. UNCHANGED <<pair, clients>>
      BY <2>4 DEF Rotate, Delete, Remove
    <3>2. TypeOK' /\ KeysOK'
      BY <2>4, SigningStep
    <3> QED BY <3>1, <3>2, PairKept
  <2>5. ASSUME NEW s \in Signers, Asks(s) \/ Sign(s) PROVE TypeOK' /\ KeysOK' /\ PairOK'
    BY <2>5, SigningStep, PairKept DEF Asks, Sign
  <2>6. ASSUME NEW g \in Generators, Generation(g) PROVE TypeOK' /\ KeysOK' /\ PairOK'
    BY <2>6, GenerationStep, KeysKept
    DEF Generation, OpenPrivate, WritePrivate, OpenPublic, WritePublic
  <2>7. ASSUME NEW c \in Clients, FetchPublic(c) \/ Login(c)
        PROVE  TypeOK' /\ KeysOK' /\ PairOK'
    BY <2>7, ClientStep, KeysKept DEF FetchPublic, Login, pair
  <2> QED BY <2>1, <2>2, <2>3, <2>4, <2>5, <2>6, <2>7 DEF Next
<1> QED BY <1>1, Initially, PTL DEF Spec

\* Types of the store's state.
THEOREM TypeCorrect == Spec => []TypeOK
BY InductiveInvariant, PTL DEF KeyStoreInv

\* What was signed can be verified, unless its key was deleted or a start
\* could not read its file (hsm.go:150-205, 663-703).
THEOREM SignaturesStay == Spec => []SignedStaysVerifiable
BY InductiveInvariant, PTL DEF KeyStoreInv

\* A login is refused for its key only when a generation came between
\* (hsm.go:781-838, user_service.go:270).
THEOREM RefusedForRenewal == Spec => [](PairMatches /\ RefusedWhenRenewed)
BY InductiveInvariant, PTL DEF KeyStoreInv

=============================================================================

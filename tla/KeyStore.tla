------------------------------ MODULE KeyStore -------------------------------
(***************************************************************************)
(* The software key store of hsm.go: the key that signs audit records, its *)
(* file and its copy in the database, over starts and crashes of the       *)
(* server; RotateKeys and DeleteKey; and the pair of PEM files that PUT    *)
(* /encryption/keys writes and that logins with an encrypted password use. *)
(*                                                                         *)
(* A file is written by a truncating open and a write, so that a crash     *)
(* leaves it torn, and read whole or not at all: loadKeys goes on without  *)
(* a file that it cannot read.  The PEM files are written under no lock.   *)
(*                                                                         *)
(* Bound: Keys, the signing keys that can be drawn.                        *)
(***************************************************************************)
EXTENDS Naturals

CONSTANTS
  Keys,        \* bound
  Signers,     \* requests that sign an audit record
  Generators,  \* requests to generate the pair; each stands for the pair it draws
  Clients,     \* apps that fetch the public key and log in with it
  None, Torn

ASSUME KeyStoreAssumption ==
  /\ None \notin {Torn, "rotate", "delete"}
  /\ {None, Torn} \cap (Keys \cup Generators) = {}

VARIABLES
  srv,       \* the server: down, empty, saving, sync or up
  mem,       \* transaction_signing in memory
  archive,   \* archived keys in memory
  file,      \* transaction_signing.key
  archived,  \* files of archived keys
  db,        \* the public key in the database
  lock,      \* who holds the store's mutex: "rotate", "delete" or None
  drawn,     \* keys that have been generated
  spc,       \* a signer
  gpc,       \* a generator
  priv, pub, \* app_signing_private.pem and app_signing_public.pem
  cpc,       \* a client
  got,       \* the public key a client has fetched
  signed,    \* history: keys that have signed
  gone,      \* history: keys that were deleted or that a load has left out
  solo,      \* history: the generation under way, if it has run alone so far
  settled,   \* history: none began since one ran alone to its end
  renewed    \* history: clients a generation came between

signing == <<mem, archive, file, archived, db, lock, drawn, signed, gone>>
pair    == <<gpc, priv, pub, solo, settled, renewed>>
clients == <<cpc, got>>
vars    == <<srv, signing, spc, pair, clients>>

TypeOK ==
  /\ srv      \in {"down", "empty", "saving", "sync", "up"}
  /\ mem      \in Keys \cup {None}
  /\ archive  \in SUBSET Keys
  /\ file     \in Keys \cup {None, Torn}
  /\ archived \in SUBSET Keys
  /\ db       \in Keys \cup {None}
  /\ lock     \in {"rotate", "delete", None}
  /\ drawn    \in SUBSET Keys
  /\ spc      \in [Signers -> {"idle", "waiting", "ended"}]
  /\ gpc      \in [Generators -> {"idle", "private", "public", "finish", "ended"}]
  /\ priv     \in Generators \cup {None, Torn}
  /\ pub      \in Generators \cup {None, Torn}
  /\ cpc      \in [Clients -> {"idle", "fetched", "in", "refused"}]
  /\ got      \in [Clients -> Generators \cup {None}]
  /\ signed   \in SUBSET Keys
  /\ gone     \in SUBSET Keys
  /\ solo     \in Generators \cup {None}
  /\ settled  \in BOOLEAN
  /\ renewed  \in SUBSET Clients

Init ==
  /\ srv = "down" /\ mem = None /\ archive = {} /\ file = None /\ archived = {}
  /\ db = None /\ lock = None /\ drawn = {}
  /\ spc = [s \in Signers |-> "idle"]
  /\ gpc = [g \in Generators |-> "idle"]
  /\ priv = None /\ pub = None
  /\ cpc = [c \in Clients |-> "idle"]
  /\ got = [c \in Clients |-> None]
  /\ signed = {} /\ gone = {}
  /\ solo = None /\ settled = FALSE /\ renewed = {}

Writing == {g \in Generators : gpc[g] \in {"private", "public", "finish"}}

-----------------------------------------------------------------------------
(* Starting and stopping                                                   *)

\* decryptWithMasterKey opens a file that is whole; any may fail to be read.
Opened == {None} \cup ({file} \cap Keys)

\* loadKeys leaves out what it cannot open.
Load ==
  /\ srv = "down"
  /\ mem' \in Opened
  /\ archive' \in SUBSET archived
  /\ gone' = gone \cup (archived \ archive')
                  \cup (IF mem' = None THEN {file} \cap Keys ELSE {})
  /\ srv' = IF mem' = None /\ archive' = {} THEN "empty" ELSE "sync"
  /\ UNCHANGED <<file, archived, db, lock, drawn, signed, spc, pair, clients>>

\* generateDefaultKeys, when no key at all was loaded: the file is opened,
Generate ==
  /\ srv = "empty"
  /\ \E k \in Keys \ drawn : mem' = k /\ drawn' = drawn \cup {k}
  /\ file' = Torn
  /\ srv' = "saving"
  /\ UNCHANGED <<archive, archived, db, lock, signed, gone, spc, pair,
                 clients>>

\* and written,
Save ==
  /\ srv = "saving"
  /\ file' = mem
  /\ srv' = "sync"
  /\ UNCHANGED <<mem, archive, archived, db, lock, drawn, signed, gone,
                 spc, pair, clients>>

\* Fault: a key that could not be saved is used all the same.
SaveFailsUsed ==
  /\ srv = "saving"
  /\ srv' = "sync"
  /\ UNCHANGED <<signing, spc, pair, clients>>

\* or not, and then the server does not start.
SaveFails ==
  /\ srv = "saving"
  /\ mem' = None /\ srv' = "down"
  /\ UNCHANGED <<archive, file, archived, db, lock, drawn, signed, gone,
                 spc, pair, clients>>

\* SyncKeysToDatabase; that it failed is only logged.
Sync ==
  /\ srv = "sync"
  /\ db' \in IF mem = None THEN {db} ELSE {mem, db}
  /\ srv' = "up"
  /\ UNCHANGED <<mem, archive, file, archived, lock, drawn, signed, gone,
                 spc, pair, clients>>

\* The process ends, with its requests; the clients and the files stay.
Crash ==
  /\ srv # "down"
  /\ srv' = "down" /\ mem' = None /\ archive' = {} /\ lock' = None
  /\ spc' = [s \in Signers |-> IF spc[s] = "waiting" THEN "ended" ELSE spc[s]]
  /\ gpc' = [g \in Generators |-> IF g \in Writing THEN "ended" ELSE gpc[g]]
  /\ solo' = None
  /\ UNCHANGED <<file, archived, db, drawn, signed, gone, priv, pub,
                 settled, renewed, clients>>

-----------------------------------------------------------------------------
(* SignData, RotateKeys, DeleteKey                                         *)

Asks(s) ==
  /\ srv = "up" /\ spc[s] = "idle"
  /\ spc' = [spc EXCEPT ![s] = "waiting"]
  /\ UNCHANGED <<srv, signing, pair, clients>>

Sign(s) ==
  /\ srv = "up" /\ lock = None /\ spc[s] = "waiting"
  /\ spc' = [spc EXCEPT ![s] = "ended"]
  /\ signed' = signed \cup ({mem} \ {None})
  /\ UNCHANGED <<srv, mem, archive, file, archived, db, lock, drawn, gone,
                 pair, clients>>

\* VerifySignature has the key only while it is in memory,
Known(k) == k = mem \/ k \in archive

\* and VerifyTransaction tries the key in use and then the archived ones.
Verifying == {k \in Keys : Known(k)}

\* RotateKeys archives a key past its ExpiresAt (any may be), and then calls
\* generateKeyPairInternal, which waits for the mutex that RotateKeys holds.
Rotate ==
  /\ srv = "up" /\ lock = None /\ mem # None
  /\ lock' = "rotate"
  /\ archive' = archive \cup {mem}
  /\ archived' \in {archived, archived \cup {mem}}
  /\ UNCHANGED <<srv, mem, file, db, drawn, signed, gone, spc, pair,
                 clients>>

\* DeleteKey takes the key out of memory,
Delete ==
  /\ srv = "up" /\ lock = None /\ mem # None
  /\ lock' = "delete" /\ mem' = None /\ gone' = gone \cup {mem}
  /\ UNCHANGED <<srv, archive, file, archived, db, drawn, signed, spc, pair,
                 clients>>

\* Fault: the mutex is not released when the file cannot be removed.
RemoveHolds ==
  /\ lock = "delete"
  /\ file' \in {None, file}
  /\ lock' = IF file' = None THEN None ELSE "held"
  /\ UNCHANGED <<srv, mem, archive, archived, db, drawn, signed, gone, spc,
                 pair, clients>>

\* and removes its file, or fails to.
Remove ==
  /\ lock = "delete"
  /\ file' \in {None, file} /\ lock' = None
  /\ UNCHANGED <<srv, mem, archive, archived, db, drawn, signed, gone, spc,
                 pair, clients>>

-----------------------------------------------------------------------------
(* GenerateAndSaveKeyPairExternal                                          *)

\* A key was drawn, and the private file is opened.
OpenPrivate(g) ==
  /\ srv = "up" /\ gpc[g] = "idle"
  /\ gpc' = [gpc EXCEPT ![g] = "private"]
  /\ priv' = Torn
  /\ solo' = IF Writing = {} THEN g ELSE None
  /\ settled' = FALSE
  /\ renewed' = renewed \cup {c \in Clients : cpc[c] = "fetched"}
  /\ UNCHANGED <<srv, signing, spc, pub, clients>>

\* What two writers leave is the last one's, or neither's.
Written(g) == IF Writing = {g} THEN {g} ELSE {g, Torn}

\* It is written, and the public file opened,
WritePrivate(g) ==
  /\ gpc[g] = "private"
  /\ gpc' = [gpc EXCEPT ![g] = "public"]
  /\ priv' \in Written(g)
  /\ UNCHANGED <<srv, signing, spc, pub, solo, settled, renewed, clients>>

\* Fault: a public file that is there already is kept.
OpenPublicNew(g) ==
  /\ gpc[g] = "public"
  /\ gpc' = [gpc EXCEPT ![g] = IF pub = None THEN "finish" ELSE "ended"]
  /\ pub' = IF pub = None THEN Torn ELSE pub
  /\ settled' = (pub # None /\ solo = g)
  /\ UNCHANGED <<srv, signing, spc, priv, solo, renewed, clients>>

OpenPublic(g) ==
  /\ gpc[g] = "public"
  /\ gpc' = [gpc EXCEPT ![g] = "finish"]
  /\ pub' = Torn
  /\ UNCHANGED <<srv, signing, spc, priv, solo, settled, renewed, clients>>

WritePublic(g) ==
  /\ gpc[g] = "finish"
  /\ gpc' = [gpc EXCEPT ![g] = "ended"]
  /\ pub' \in Written(g)
  /\ settled' = (solo = g) /\ solo' = None
  /\ UNCHANGED <<srv, signing, spc, priv, renewed, clients>>

-----------------------------------------------------------------------------
(* GetUserPublicKeys and logins with an encrypted password                 *)

\* A PEM file is read at each call; one that is torn or missing is an error.
GetPublicKey  == IF pub  \in Generators THEN pub  ELSE None
GetPrivateKey == IF priv \in Generators THEN priv ELSE None

\* DecryptData opens what was sealed for the private key of the moment.
Decrypts(k) == GetPrivateKey = k

FetchPublic(c) ==
  /\ srv = "up" /\ lock = None /\ cpc[c] = "idle" /\ GetPublicKey # None
  /\ cpc' = [cpc EXCEPT ![c] = "fetched"]
  /\ got' = [got EXCEPT ![c] = GetPublicKey]
  /\ renewed' = IF settled THEN renewed ELSE renewed \cup {c}
  /\ UNCHANGED <<srv, signing, spc, gpc, priv, pub, solo, settled>>

\* LoginUser calls DecryptPII.
Login(c) ==
  /\ srv = "up" /\ lock = None /\ cpc[c] = "fetched"
  /\ cpc' = [cpc EXCEPT ![c] = IF Decrypts(got[c]) THEN "in" ELSE "refused"]
  /\ UNCHANGED <<srv, signing, spc, pair, got>>

-----------------------------------------------------------------------------
Process == Load \/ Generate \/ Save \/ SaveFails \/ Sync

Generation(g) == OpenPrivate(g) \/ WritePrivate(g) \/ OpenPublic(g) \/ WritePublic(g)

Next ==
  \/ Process \/ Crash \/ Rotate \/ Delete \/ Remove
  \/ \E s \in Signers : Asks(s) \/ Sign(s)
  \/ \E g \in Generators : Generation(g)
  \/ \E c \in Clients : FetchPublic(c) \/ Login(c)

Spec == Init /\ [][Next]_vars

\* A goroutine that can have the mutex gets it in the end (sync.RWMutex lets
\* no reader and no writer starve), and a removal of a file returns.
FairSpec ==
  /\ Spec
  /\ \A s \in Signers : WF_vars(Sign(s))
  /\ WF_vars(Remove)

-----------------------------------------------------------------------------
(* Properties                                                              *)

\* What has been signed can be verified by the server that is up, with the
\* key in use or an archived one, over starts, crashes, failed writes and a
\* rotation that never ends: only a key that was deleted, or whose file a
\* start could not read, is lost (hsm.go:150-205, 663-703).
SignedStaysVerifiable ==
  srv = "up" => signed \subseteq Verifying \cup gone

\* The public key in the database is the signing key's, also when the last
\* SyncKeysToDatabase has failed, unless the one it was published for is lost
\* as above (hsm_key_service.go:45-79).
PublishedOrLost ==
  srv = "up" /\ mem # None => db \in {None, mem} \cup gone

\* The two PEM files are a pair once a generation has run alone to its end,
\* until the next begins (hsm.go:781-838).
PairMatches == settled => priv \in Generators /\ priv = pub

\* A login with an encrypted password is refused for its key only when a
\* generation has begun since the app fetched the public key, or the pair was
\* not settled then (user_service.go:270).
RefusedWhenRenewed == \A c \in Clients : cpc[c] = "refused" => c \in renewed

\* A request that signs gets its answer, unless the server stops or somebody
\* has called RotateKeys, which holds the mutex for ever (hsm.go:589-617).
OnlyRotationBlocks ==
  \A s \in Signers : spc[s] = "waiting" ~> (spc[s] # "waiting" \/ lock = "rotate")

-----------------------------------------------------------------------------
(* What holds between the steps                                            *)

\* The key in use is in its file, and who holds the mutex has said why.
FileHolds ==
  /\ srv \in {"down", "empty"} => mem = None
  /\ srv \in {"sync", "up"} => mem \in {None, file}
  /\ srv \in {"down", "empty", "saving"} => archive = {}
  /\ lock # None => srv = "up"
  /\ lock = "delete" => mem = None /\ {file} \cap Keys \subseteq gone

\* What was signed with, archived or published is the key in use, or gone.
PastKeys == signed \cup archive \cup archived \cup ({db} \ {None})
PastHeld ==
  /\ srv \in {"sync", "up"} => PastKeys \subseteq gone \cup {mem}
  /\ srv = "down" => PastKeys \subseteq gone \cup {file}
  /\ srv \in {"empty", "saving"} => PastKeys \subseteq gone

\* A generation that has run alone so far has written its private key, and
\* while none has begun what a client has fetched is what there is.
PairAlone ==
  /\ solo # None => Writing = {solo} /\ (gpc[solo] # "private" => priv = solo)
  /\ settled => Writing = {}
  /\ \A c \in Clients : cpc[c] = "fetched" /\ c \notin renewed => settled /\ got[c] = pub

\* The files, the memory and the clients agree from one step to the next.
KeyStoreInv ==
  /\ TypeOK /\ FileHolds /\ PastHeld /\ PairAlone
  /\ SignedStaysVerifiable /\ PublishedOrLost /\ PairMatches /\ RefusedWhenRenewed

=============================================================================

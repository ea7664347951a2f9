------------------------------ MODULE Keystore ------------------------------
(***************************************************************************)
(* The bridge's store of paired sites: metadata in paired_sites.json, each *)
(* site's token and HMAC secret in the OS keychain or, when the keychain   *)
(* refuses, in the file paired_sites.json.tokens.                          *)
(*                                                                         *)
(* HandlePair calls AddSite, which holds Keystore.mu throughout, and then  *)
(* SetHMACSecret, which takes no lock.  Both rewrite the token file by     *)
(* loading it all and calling os.WriteFile, which truncates the file first *)
(* and writes it afterwards; readers take no lock for it and see a torn    *)
(* file as an empty one.  The process may stop between any two steps.      *)
(*                                                                         *)
(* A secret is the number of the pairing that stored it, 0 for none.       *)
(***************************************************************************)
EXTENDS Naturals, FiniteSets

CONSTANTS
    Writers,         \* handler goroutines that pair or remove
    Sites,           \* site URLs
    MaxPairings,     \* bound on pairings begun
    MaxCrashes,      \* bound on process restarts
    KeychainStates,  \* subset of BOOLEAN: can the keychain be up, down, both
    FileFaults,      \* os.WriteFile may fail
    Removal,         \* RemoveSite is called too (only tests call it)
    Truncated, Torn, \* contents of an emptied file, of one with mixed writes
    None             \* nobody holds the mutex; no key chosen

ASSUME KeystoreAssumption ==
    /\ MaxPairings \in Nat /\ MaxCrashes \in Nat
    /\ KeychainStates \in (SUBSET BOOLEAN) \ {{}}
    /\ FileFaults \in BOOLEAN /\ Removal \in BOOLEAN
    /\ None \notin Writers
    /\ \A listed \in SUBSET Sites : listed # Truncated
    /\ \A map \in [{"token", "hmac"} \X Sites -> 0..MaxPairings] :
         map \notin {Truncated, Torn}

VARIABLES
    pc, op,     \* per writer: where it is, and in "pair" or "remove"
    site,       \* per writer: the site it works for
    gen,        \* per writer: its pairing, i.e. the new token
    hs,         \* per writer: the HMAC secret, 0 from servers without HMAC
    kind,       \* per writer: which of a site's two entries is at hand
    buf,        \* per writer: the token file as setTokenFile rewrites it
    mu,         \* Keystore.mu: the writer that holds it
    sites,      \* Keystore.sites
    meta,       \* contents of paired_sites.json
    keychain,   \* entries of the OS keychain
    kcUp,       \* the keychain answers
    tokFile,    \* contents of paired_sites.json.tokens
    failed,     \* NewKeystore could not parse paired_sites.json at startup
    pairings, crashes,
    added,      \* history: the token of a site stored or deleted last
    secretOf,   \* history: its HMAC secret stored or deleted last
    acked,      \* history: what the last call that succeeded did to a site
    spoiled     \* history: what has gone wrong (Upsets)

Keys  == {"token", "hmac"} \X Sites
Gens  == 0..MaxPairings
Empty == [k \in Keys |-> 0]

writerVars == <<op, site, gen, hs>>
memVars    == <<mu, sites>>
diskVars   == <<meta, keychain, tokFile>>
envVars    == <<kcUp, failed, pairings, crashes>>
valueVars  == <<added, secretOf>>
histVars   == <<valueVars, acked, spoiled>>
vars == <<pc, writerVars, kind, buf, memVars, diskVars, envVars, histVars>>

(* A write of the token file failed or was cut short; a removal found its
   entry in a keychain that does not answer; the keychain began or ceased to
   answer; a removal failed or was cut short.                              *)
Upsets == {"file", "keychain", "moved", "removal"}

Points == {"idle", "lock", "forget", "erase", "keychain", "load", "truncate",
           "write", "register", "saveTruncate", "saveWrite", "ack"}

(* What a reader of the token file sees, and the two lookups. *)
Parsed(f) == IF f \in {Truncated, Torn} THEN Empty ELSE f

Lookup(k) == IF kcUp /\ keychain[k] # 0 THEN keychain[k] ELSE Parsed(tokFile)[k]

Token(s)      == IF s \in sites THEN Lookup(<<"token", s>>) ELSE 0
HMACSecret(s) == IF s \in sites THEN Lookup(<<"hmac", s>>) ELSE 0
-----------------------------------------------------------------------------
TypeOK ==
    /\ pc \in [Writers -> Points]
    /\ op \in [Writers -> {"pair", "remove"}]
    /\ site \in [Writers -> Sites \cup {None}]
    /\ gen \in [Writers -> Gens] /\ hs \in [Writers -> Gens]
    /\ kind \in [Writers -> {"token", "hmac"}]
    /\ buf \in [Writers -> [Keys -> Gens]]
    /\ mu \in Writers \cup {None}
    /\ sites \in SUBSET Sites
    /\ meta \in {Truncated} \cup SUBSET Sites
    /\ keychain \in [Keys -> Gens]
    /\ tokFile \in {Truncated, Torn} \cup [Keys -> Gens]
    /\ kcUp \in BOOLEAN /\ failed \in BOOLEAN
    /\ pairings \in Gens /\ crashes \in 0..MaxCrashes
    /\ added \in [Sites -> Gens] /\ secretOf \in [Sites -> Gens]
    /\ acked \in [Sites -> {"none", "paired", "removed"}]
    /\ spoiled \in SUBSET Upsets

NoWriters ==
    /\ pc = [w \in Writers |-> "idle"]
    /\ op = [w \in Writers |-> "pair"]
    /\ site = [w \in Writers |-> None]
    /\ gen = [w \in Writers |-> 0]
    /\ hs = [w \in Writers |-> 0]
    /\ kind = [w \in Writers |-> "token"]
    /\ buf = [w \in Writers |-> Empty]

Init ==
    /\ NoWriters
    /\ mu = None /\ sites = {}
    /\ meta = {} /\ keychain = Empty /\ tokFile = Empty
    /\ kcUp \in KeychainStates
    /\ failed = FALSE /\ pairings = 0 /\ crashes = 0
    /\ added = [s \in Sites |-> 0] /\ secretOf = [s \in Sites |-> 0]
    /\ acked = [s \in Sites |-> "none"]
    /\ spoiled = {}
-----------------------------------------------------------------------------
GoTo(w, p) == pc' = [pc EXCEPT ![w] = p]

Reset(W) ==
    /\ pc' = [w \in Writers |-> IF w \in W THEN "idle" ELSE pc[w]]
    /\ op' = [w \in Writers |-> IF w \in W THEN "pair" ELSE op[w]]
    /\ site' = [w \in Writers |-> IF w \in W THEN None ELSE site[w]]
    /\ gen' = [w \in Writers |-> IF w \in W THEN 0 ELSE gen[w]]
    /\ hs' = [w \in Writers |-> IF w \in W THEN 0 ELSE hs[w]]
    /\ kind' = [w \in Writers |-> IF w \in W THEN "token" ELSE kind[w]]
    /\ buf' = [w \in Writers |-> IF w \in W THEN Empty ELSE buf[w]]

BeginPairNull(w, s, legacy) ==   \* slip: a missing hmac_secret stays null
    /\ pc[w] = "idle" /\ ~failed /\ pairings < MaxPairings
    /\ pairings' = pairings + 1
    /\ site' = [site EXCEPT ![w] = s]
    /\ gen' = [gen EXCEPT ![w] = pairings + 1]
    /\ hs' = [hs EXCEPT ![w] = IF legacy THEN None ELSE pairings + 1]
    /\ GoTo(w, "lock")
    /\ acked' = [acked EXCEPT ![s] = IF @ = "removed" THEN "none" ELSE @]
    /\ UNCHANGED <<op, kind, buf, memVars, diskVars, kcUp, failed, crashes,
                   valueVars, spoiled>>

(* HandlePair got a token for s from the site, and an HMAC secret unless
   the server predates them.                                               *)
BeginPair(w, s, legacy) ==
    /\ pc[w] = "idle" /\ ~failed /\ pairings < MaxPairings
    /\ pairings' = pairings + 1
    /\ site' = [site EXCEPT ![w] = s]
    /\ gen' = [gen EXCEPT ![w] = pairings + 1]
    /\ hs' = [hs EXCEPT ![w] = IF legacy THEN 0 ELSE pairings + 1]
    /\ acked' = [acked EXCEPT ![s] = IF @ = "removed" THEN "none" ELSE @]
    /\ GoTo(w, "lock")
    /\ UNCHANGED <<op, kind, buf, memVars, diskVars, kcUp, failed, crashes,
                   valueVars, spoiled>>

BeginRemove(w, s) ==
    /\ pc[w] = "idle" /\ ~failed /\ Removal /\ s \in sites
    /\ op' = [op EXCEPT ![w] = "remove"]
    /\ site' = [site EXCEPT ![w] = s]
    /\ GoTo(w, "lock")
    /\ UNCHANGED <<gen, hs, kind, buf, memVars, diskVars, envVars, histVars>>

LockSkippingToken(w) ==   \* slip: the token is not stored first
    /\ pc[w] = "lock" /\ mu = None
    /\ mu' = w
    /\ GoTo(w, IF op[w] = "pair" THEN "register" ELSE "forget")
    /\ UNCHANGED <<writerVars, kind, buf, sites, diskVars, envVars, histVars>>

Lock(w) ==
    /\ pc[w] = "lock" /\ mu = None
    /\ mu' = w
    /\ GoTo(w, IF op[w] = "pair" THEN "keychain" ELSE "forget")
    /\ UNCHANGED <<writerVars, kind, buf, sites, diskVars, envVars, histVars>>
-----------------------------------------------------------------------------
(* Storing or deleting one entry: the part AddSite, SetHMACSecret and
   RemoveSite share.                                                       *)
Key(w)   == <<kind[w], site[w]>>
Value(w) == IF op[w] = "remove" THEN 0
            ELSE IF kind[w] = "token" THEN gen[w] ELSE hs[w]

(* One entry is dealt with: AddSite and RemoveSite go on, SetHMACSecret is
   done and with it HandlePair.                                            *)
Stored(w) ==
    /\ kind' = IF op[w] = "remove" THEN [kind EXCEPT ![w] = "hmac"] ELSE kind
    /\ GoTo(w, CASE op[w] = "remove" /\ kind[w] = "token" -> "load"
                 [] op[w] = "remove" /\ kind[w] = "hmac"  -> "saveTruncate"
                 [] op[w] = "pair" /\ kind[w] = "token"   -> "register"
                 [] op[w] = "pair" /\ kind[w] = "hmac"    -> "ack")

Record(w) ==
    /\ added' = IF kind[w] = "hmac" THEN added
                ELSE [added EXCEPT ![site[w]] = Value(w)]
    /\ secretOf' = IF kind[w] = "token" THEN secretOf
                   ELSE [secretOf EXCEPT ![site[w]] = Value(w)]

(* keyring.Set, with the token file as its fallback. *)
StoreKeychain(w) ==
    /\ pc[w] = "keychain"
    /\ IF kcUp
       THEN /\ keychain' = [keychain EXCEPT ![Key(w)] = Value(w)]
            /\ Stored(w) /\ Record(w)
       ELSE GoTo(w, "load") /\ UNCHANGED <<keychain, kind, valueVars>>
    /\ UNCHANGED <<writerVars, buf, memVars, meta, tokFile, envVars, acked,
                   spoiled>>

(* loadTokenFile and the change to the map.  A delete is done if the entry
   is not there, and removes the file with its last entry.                 *)
LoadTokens(w) ==
    LET old == Parsed(tokFile)
        map == [old EXCEPT ![Key(w)] = Value(w)]
    IN
    /\ pc[w] = "load"
    /\ \/ /\ op[w] = "remove" /\ map \in {old, Empty}
          /\ tokFile' = IF map = old THEN tokFile ELSE Empty
          /\ Stored(w) /\ Record(w)
          /\ UNCHANGED buf
       \/ /\ op[w] = "pair" \/ map \notin {old, Empty}
          /\ buf' = [buf EXCEPT ![w] = map]
          /\ GoTo(w, "truncate")
          /\ UNCHANGED <<tokFile, kind, valueVars>>
    /\ UNCHANGED <<writerVars, memVars, meta, keychain, envVars, acked, spoiled>>

(* os.WriteFile opens the file with O_TRUNC ... *)
TruncateTokens(w) ==
    /\ pc[w] = "truncate"
    /\ tokFile' = Truncated
    /\ GoTo(w, "write")
    /\ UNCHANGED <<writerVars, kind, buf, memVars, meta, keychain, envVars,
                   histVars>>

(* ... and writes it.  If another writer's contents are there by now, the
   longer of the two shows through unless both have the same length.       *)
WriteTokensMerged(w) ==   \* slip: only this writer's entry reaches the file
    /\ pc[w] = "write"
    /\ tokFile' = [Empty EXCEPT ![Key(w)] = Value(w)]
    /\ Stored(w) /\ Record(w)
    /\ UNCHANGED <<writerVars, buf, memVars, meta, keychain, envVars, acked,
                   spoiled>>

WriteTokens(w) ==
    /\ pc[w] = "write"
    /\ tokFile' \in IF tokFile = Truncated THEN {buf[w]} ELSE {buf[w], Torn}
    /\ Stored(w) /\ Record(w)
    /\ UNCHANGED <<writerVars, buf, memVars, meta, keychain, envVars, acked,
                   spoiled>>

(* The open fails, or the write, perhaps half-way. *)
TokensBroken(w) ==
    /\ FileFaults /\ pc[w] \in {"truncate", "write"}
    /\ tokFile' \in IF pc[w] = "write" THEN {tokFile, Torn} ELSE {tokFile}
    /\ spoiled' = spoiled \cup {"file"}
    /\ UNCHANGED <<sites, meta, keychain, envVars, valueVars, acked>>

(* AddSite gives up, its mutex released; HandlePair only logs a failing
   SetHMACSecret, RemoveSite ignores the error.                            *)
TokensFail(w) ==
    /\ TokensBroken(w)
    /\ \/ /\ op[w] = "pair" /\ kind[w] = "token"
          /\ mu' = None
          /\ Reset({w})
       \/ /\ op[w] = "remove" \/ kind[w] = "hmac"
          /\ Stored(w)
          /\ UNCHANGED <<mu, writerVars, buf>>
-----------------------------------------------------------------------------
(* RemoveSite: the memory first, then the keychain, best effort ... *)
Forget(w) ==
    /\ pc[w] = "forget"
    /\ sites' = sites \ {site[w]}
    /\ GoTo(w, "erase")
    /\ acked' = [acked EXCEPT ![site[w]] = "none"]
    /\ UNCHANGED <<writerVars, kind, buf, mu, diskVars, envVars, valueVars,
                   spoiled>>

EraseNext(w) ==
    IF kind[w] = "token"
    THEN kind' = [kind EXCEPT ![w] = "hmac"] /\ UNCHANGED pc
    ELSE kind' = [kind EXCEPT ![w] = "token"] /\ GoTo(w, "load")

Erase(w, k) ==
    /\ pc[w] = "erase"
    /\ EraseNext(w)
    /\ IF kcUp
       THEN /\ keychain' = [keychain EXCEPT ![k] = 0]
            /\ Record(w)
            /\ UNCHANGED spoiled
       ELSE /\ spoiled' = IF keychain[k] = 0 THEN spoiled
                          ELSE spoiled \cup {"keychain"}
            /\ UNCHANGED <<keychain, valueVars>>
    /\ UNCHANGED <<writerVars, buf, memVars, meta, tokFile, envVars, acked>>

EraseTokenTwice(w) ==     \* slip: the HMAC entry's name lacks its prefix
    Erase(w, <<"token", site[w]>>)

EraseKeychain(w) == Erase(w, Key(w))

(* ... AddSite: the memory once the token is stored; then both save(). *)
Register(w) ==
    /\ pc[w] = "register"
    /\ sites' = sites \cup {site[w]}
    /\ GoTo(w, "saveTruncate")
    /\ UNCHANGED <<writerVars, kind, buf, mu, diskVars, envVars, histVars>>

SaveTruncate(w) ==
    /\ pc[w] = "saveTruncate"
    /\ meta' = Truncated
    /\ GoTo(w, "saveWrite")
    /\ UNCHANGED <<writerVars, kind, buf, memVars, keychain, tokFile, envVars,
                   histVars>>

(* The last step under the mutex.  A pairing goes on to SetHMACSecret, which
   returns at once without a secret.                                       *)
SaveWrite(w) ==
    /\ pc[w] = "saveWrite"
    /\ meta' = sites
    /\ mu' = None
    /\ IF op[w] = "remove" \/ hs[w] = 0
       THEN GoTo(w, "ack") /\ UNCHANGED kind
       ELSE GoTo(w, "keychain") /\ kind' = [kind EXCEPT ![w] = "hmac"]
    /\ UNCHANGED <<writerVars, buf, sites, keychain, tokFile, envVars, histVars>>

SaveFailSilent(w) ==      \* slip: the error of save() is dropped
    /\ FileFaults /\ pc[w] \in {"saveTruncate", "saveWrite"}
    /\ mu' = None
    /\ GoTo(w, "ack")
    /\ UNCHANGED <<writerVars, kind, buf, sites, diskVars, envVars, histVars>>

SaveFailLocked(w) ==      \* slip: no deferred Unlock
    /\ FileFaults /\ pc[w] \in {"saveTruncate", "saveWrite"}
    /\ Reset({w})
    /\ UNCHANGED <<memVars, diskVars, envVars, histVars>>

SaveFail(w) ==
    /\ FileFaults /\ pc[w] \in {"saveTruncate", "saveWrite"}
    /\ mu' = None
    /\ spoiled' = spoiled \cup IF op[w] = "remove" THEN {"removal"} ELSE {}
    /\ Reset({w})
    /\ UNCHANGED <<sites, diskVars, envVars, valueVars, acked>>

(* HandlePair answers 200, RemoveSite returns. *)
Ack(w) ==
    /\ pc[w] = "ack"
    /\ acked' = [acked EXCEPT ![site[w]] =
                    IF op[w] = "pair" THEN "paired" ELSE "removed"]
    /\ Reset({w})
    /\ UNCHANGED <<memVars, diskVars, envVars, valueVars, spoiled>>
-----------------------------------------------------------------------------
(* The process stops at any point and is started again: NewKeystore loads
   paired_sites.json, and main exits if that does not parse.               *)
Restart ==
    /\ crashes < MaxCrashes
    /\ crashes' = crashes + 1
    /\ Reset(Writers)
    /\ mu' = None
    /\ failed' = (meta = Truncated)
    /\ sites' = IF meta = Truncated THEN {} ELSE meta
    /\ spoiled' = spoiled
          \cup (IF \E w \in Writers : pc[w] = "write" THEN {"file"} ELSE {})
          \cup (IF \E w \in Writers : op[w] = "remove" THEN {"removal"} ELSE {})
    /\ UNCHANGED <<diskVars, kcUp, pairings, valueVars, acked>>

(* The keychain daemon is locked, unlocked, started, stopped. *)
Keychain ==
    /\ kcUp' \in KeychainStates
    /\ spoiled' = spoiled \cup IF kcUp' = kcUp THEN {} ELSE {"moved"}
    /\ UNCHANGED <<pc, writerVars, kind, buf, memVars, diskVars, failed,
                   pairings, crashes, valueVars, acked>>

Step(w) ==
    \/ Lock(w) \/ StoreKeychain(w) \/ LoadTokens(w) \/ TruncateTokens(w)
    \/ WriteTokens(w) \/ TokensFail(w) \/ Forget(w) \/ EraseKeychain(w)
    \/ Register(w) \/ SaveTruncate(w) \/ SaveWrite(w) \/ SaveFail(w) \/ Ack(w)

Next ==
    \/ \E w \in Writers, s \in Sites, legacy \in BOOLEAN : BeginPair(w, s, legacy)
    \/ \E w \in Writers, s \in Sites : BeginRemove(w, s)
    \/ \E w \in Writers : Step(w)
    \/ Restart \/ Keychain

Spec == Init /\ [][Next]_vars

(* Goroutines are scheduled.  Lock(w) is enabled again and again while others
   come and go, and sync.RWMutex does not starve a waiting writer.         *)
LiveSpec == Spec /\ \A w \in Writers : WF_vars(Step(w)) /\ SF_vars(Lock(w))
-----------------------------------------------------------------------------
Quiet == (\A w \in Writers : pc[w] = "idle") /\ ~failed

Spared(upsets) == spoiled \cap upsets = {}

(* With a keychain that answers, a site listed in a paired_sites.json that
   parses has its token unless RemoveSite is at it: AddSite stores the token
   before the metadata, so no stop in between leaves a site paired without
   one.                                                                    *)
DurablePairingHasToken ==
    meta # Truncated /\ kcUp /\ Spared({"moved", "removal"}) =>
        \A s \in meta : \/ Lookup(<<"token", s>>) # 0
                        \/ \E w \in Writers : op[w] = "remove" /\ site[w] = s

(* A pairing answered with 200 stays listed, in memory and on disk, as long
   as paired_sites.json parses: failed and interrupted pairings of this site
   or another do not undo it.                                              *)
AckedPairingListed ==
    \A s \in Sites : acked[s] = "paired" =>
        (meta # Truncated => s \in meta) /\ (~failed => s \in sites)

(* Once no writer is at work, the lookups return what was stored last unless
   a write of the token file failed or the keychain came or went: calls that
   failed at another point, or were cut short there, leave Token and
   HMACSecret what they were or would have become.                         *)
ReadsBackTokens ==
    Quiet /\ Spared({"file", "moved"}) => \A s \in sites : Token(s) = added[s]
ReadsBackSecrets ==
    Quiet /\ Spared({"file", "moved"}) =>
        \A s \in sites : HMACSecret(s) = secretOf[s]

(* keystore_test.go:93-98: what a RemoveSite that returned has removed is
   gone from the memory, the metadata, the keychain and the token file, and
   stays so until a pairing brings it back, also if the site had entries in
   both stores.  Excepted are the deletions whose errors RemoveSite drops:
   one that a keychain did not answer, and a failed write of the file.     *)
RemovedIsGone ==
    Quiet /\ Spared({"file", "keychain"}) =>
      \A s \in Sites : acked[s] = "removed" =>
        /\ s \notin sites
        /\ meta # Truncated => s \notin meta
        /\ \A t \in {"token", "hmac"} :
             keychain[<<t, s>>] = 0 /\ Parsed(tokFile)[<<t, s>>] = 0

(* keystore.go:155: HMACSecret returns an empty secret only for a site that
   "predates HMAC support", at whatever moment a /v1/sign asks.            *)
EmptySecretMeansLegacy ==
    \A s \in sites : HMACSecret(s) = 0 => secretOf[s] = 0

(* keystore_test.go:118-130: pairings survive a restart: whatever the moment
   of the stop, NewKeystore can load the store.                            *)
PairingsSurviveRestart == ~failed

(* Every pairing and removal returns, whatever fails on the way. *)
EveryWriterReturns == \A w \in Writers : pc[w] # "idle" ~> pc[w] = "idle"
=============================================================================

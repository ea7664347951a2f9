--------------------------- MODULE KeystoreProofs ---------------------------
(***************************************************************************)
(* Theorems about Keystore, for any number of writers and sites, any       *)
(* bounds, with or without failing file writes.                            *)
(***************************************************************************)
EXTENDS Keystore, TLAPS

(* Which strings are points of a writer. *)
LEMMA PointLiterals ==
    /\ "idle" \in Points /\ "lock" \in Points /\ "forget" \in Points
    /\ "erase" \in Points /\ "keychain" \in Points /\ "load" \in Points
    /\ "truncate" \in Points /\ "write" \in Points /\ "register" \in Points
    /\ "saveTruncate" \in Points /\ "saveWrite" \in Points /\ "ack" \in Points
BY DEF Points

(* No value and the empty map have their types. *)
LEMMA GenFacts == 0 \in Gens /\ Empty \in [Keys -> Gens]
BY KeystoreAssumption DEF Gens, Empty

(* What a reader makes of any token file is a map. (loadTokenFile) *)
LEMMA ParsedType ==
    ASSUME NEW f \in {Truncated, Torn} \cup [Keys -> Gens]
    PROVE  Parsed(f) \in [Keys -> Gens]
BY GenFacts DEF Parsed

(* What setTokenFile stores is 0 or a pairing's number. *)
LEMMA ValueType ==
    ASSUME TypeOK, NEW w \in Writers PROVE Value(w) \in Gens
BY GenFacts DEF TypeOK, Value
-----------------------------------------------------------------------------
(* A writer at work has a site. *)
Placed == \A w \in Writers : pc[w] # "idle" => site[w] \in Sites

(* The store starts with its types and without writers. (NewKeystore) *)
LEMMA TypeInit == Init => TypeOK /\ Placed
<1> SUFFICES ASSUME Init PROVE TypeOK /\ Placed
  OBVIOUS
<1>1. /\ pc \in [Writers -> Points] /\ op \in [Writers -> {"pair", "remove"}]
      /\ site \in [Writers -> Sites \cup {None}]
      /\ gen \in [Writers -> Gens] /\ hs \in [Writers -> Gens]
      /\ kind \in [Writers -> {"token", "hmac"}]
      /\ buf \in [Writers -> [Keys -> Gens]]
  BY PointLiterals, GenFacts DEF Init, NoWriters
<1>2. /\ sites \in SUBSET Sites /\ meta \in {Truncated} \cup SUBSET Sites
      /\ keychain \in [Keys -> Gens]
      /\ tokFile \in {Truncated, Torn} \cup [Keys -> Gens]
      /\ added \in [Sites -> Gens] /\ secretOf \in [Sites -> Gens]
      /\ acked \in [Sites -> {"none", "paired", "removed"}]
  BY GenFacts DEF Init
<1>3. mu \in Writers \cup {None} /\ pairings \in Gens /\ crashes \in 0..MaxCrashes
  BY KeystoreAssumption, GenFacts DEF Init
<1>4. kcUp \in BOOLEAN /\ failed \in BOOLEAN
  BY KeystoreAssumption, Zenon DEF Init
<1>6. spoiled \in SUBSET Upsets
  BY DEF Init
<1>5. Placed
  BY DEF Init, NoWriters, Placed
<1> QED BY <1>1, <1>2, <1>3, <1>4, <1>5, <1>6 DEF TypeOK

(* Where Stored and Record lead. *)
LEMMA StoredType ==
    ASSUME TypeOK, NEW w \in Writers, Stored(w)
    PROVE  /\ pc' \in [Writers -> Points]
           /\ kind' \in [Writers -> {"token", "hmac"}]
BY PointLiterals DEF TypeOK, Stored, GoTo

(* Recording a value keeps the types. *)
LEMMA RecordType ==
    ASSUME TypeOK, NEW w \in Writers, Record(w)
    PROVE  added' \in [Sites -> Gens] /\ secretOf' \in [Sites -> Gens]
BY ValueType DEF TypeOK, Record

(* Every step keeps the types. (AddSite, SetHMACSecret, RemoveSite) *)
LEMMA TypeStep ==
    TypeOK /\ Placed /\ [Next]_vars => TypeOK'
<1> SUFFICES ASSUME TypeOK, Placed, [Next]_vars
             PROVE  TypeOK'
  OBVIOUS
<1> USE PointLiterals, GenFacts, ValueType
        DEF TypeOK, GoTo, writerVars, memVars, diskVars, envVars, valueVars, histVars
<1>1. ASSUME NEW w \in Writers, NEW s \in Sites, NEW legacy \in BOOLEAN,
            BeginPair(w, s, legacy)
     PROVE  TypeOK'
  BY <1>1, KeystoreAssumption DEF BeginPair, Gens
<1>2. ASSUME NEW w \in Writers, NEW s \in Sites, BeginRemove(w, s)
     PROVE  TypeOK'
  BY <1>2 DEF BeginRemove
<1>3. ASSUME NEW w \in Writers, Lock(w) PROVE TypeOK'
  BY <1>3 DEF Lock
<1>4. ASSUME NEW w \in Writers, StoreKeychain(w) PROVE TypeOK'
  <2>1. keychain' \in [Keys -> Gens]
    BY <1>4 DEF StoreKeychain
  <2>2. pc' \in [Writers -> Points] /\ kind' \in [Writers -> {"token", "hmac"}]
    BY <1>4, StoredType DEF StoreKeychain
  <2>3. added' \in [Sites -> Gens] /\ secretOf' \in [Sites -> Gens]
    BY <1>4, RecordType DEF StoreKeychain
  <2> QED BY <1>4, <2>1, <2>2, <2>3 DEF StoreKeychain
<1>5. ASSUME NEW w \in Writers, LoadTokens(w) PROVE TypeOK'
  <2> DEFINE map == [Parsed(tokFile) EXCEPT ![Key(w)] = Value(w)]
  <2>1. map \in [Keys -> Gens]
    BY ParsedType
  <2> HIDE DEF map
  <2>2. CASE tokFile' \in {tokFile, Empty} /\ Stored(w) /\ Record(w) /\ buf' = buf
    BY <1>5, <2>2, StoredType, RecordType DEF LoadTokens
  <2>3. CASE /\ buf' = [buf EXCEPT ![w] = map]
             /\ GoTo(w, "truncate")
             /\ UNCHANGED <<tokFile, kind, valueVars>>
    BY <1>5, <2>1, <2>3 DEF LoadTokens
  <2> QED BY <1>5, <2>2, <2>3 DEF LoadTokens, map
<1>6. ASSUME NEW w \in Writers, TruncateTokens(w) PROVE TypeOK'
  BY <1>6 DEF TruncateTokens
<1>7. ASSUME NEW w \in Writers, WriteTokens(w) PROVE TypeOK'
  <2>1. buf[w] \in [Keys -> Gens]
    OBVIOUS
  <2>2. tokFile' \in {Truncated, Torn} \cup [Keys -> Gens]
    BY <1>7, <2>1 DEF WriteTokens
  <2> QED BY <1>7, <2>2, StoredType, RecordType DEF WriteTokens
<1>8. ASSUME NEW w \in Writers, TokensFail(w) PROVE TypeOK'
  <2>1. CASE op[w] = "pair" /\ kind[w] = "token"
    <3>1. TokensBroken(w) /\ mu' = None /\ Reset({w})
      BY <1>8, <2>1 DEF TokensFail
    <3>2. tokFile' \in {Truncated, Torn} \cup [Keys -> Gens] /\ spoiled' \in SUBSET Upsets
      BY <3>1 DEF TokensBroken, Upsets
    <3> QED BY <3>1, <3>2 DEF TokensBroken, Reset
  <2>2. CASE op[w] = "remove" \/ kind[w] = "hmac"
    BY <1>8, <2>2, StoredType DEF TokensFail, TokensBroken, Upsets
  <2> QED BY <2>1, <2>2
<1>9. ASSUME NEW w \in Writers, Forget(w) PROVE TypeOK'
  BY <1>9 DEF Forget
<1>10. ASSUME NEW w \in Writers, EraseKeychain(w) PROVE TypeOK'
  <2>1. keychain' \in [Keys -> Gens]
    BY <1>10 DEF EraseKeychain, Erase
  <2>2. pc' \in [Writers -> Points] /\ kind' \in [Writers -> {"token", "hmac"}]
    BY <1>10 DEF EraseKeychain, Erase, EraseNext
  <2>3. added' \in [Sites -> Gens] /\ secretOf' \in [Sites -> Gens]
    BY <1>10, RecordType DEF EraseKeychain, Erase
  <2>4. spoiled' \in SUBSET Upsets
    BY <1>10 DEF EraseKeychain, Erase, Upsets
  <2> QED BY <1>10, <2>1, <2>2, <2>3, <2>4 DEF EraseKeychain, Erase
<1>11. ASSUME NEW w \in Writers, Register(w) PROVE TypeOK'
  BY <1>11 DEF Register, Placed
<1>12. ASSUME NEW w \in Writers, SaveTruncate(w) PROVE TypeOK'
  BY <1>12 DEF SaveTruncate
<1>13. ASSUME NEW w \in Writers, SaveWrite(w) PROVE TypeOK'
  BY <1>13 DEF SaveWrite
<1>14. ASSUME NEW w \in Writers, SaveFail(w) PROVE TypeOK'
  BY <1>14 DEF SaveFail, Reset, Upsets
<1>15. ASSUME NEW w \in Writers, Ack(w) PROVE TypeOK'
  BY <1>15 DEF Ack, Reset
<1>16. CASE Restart
  BY <1>16, KeystoreAssumption DEF Restart, Reset, Upsets
<1>17. CASE Keychain
  BY <1>17, KeystoreAssumption DEF Keychain, Upsets
<1>18. CASE UNCHANGED vars
  BY <1>18 DEF vars
<1> QED
  BY <1>1, <1>2, <1>3, <1>4, <1>5, <1>6, <1>7, <1>8, <1>9,
     <1>10, <1>11, <1>12, <1>13, <1>14, <1>15, <1>16, <1>17, <1>18
     DEF Next, Step

(* Every step leaves a writer that is at work with a site. (AddSite) *)
LEMMA PlacedStep ==
    TypeOK /\ Placed /\ [Next]_vars => Placed'
<1> SUFFICES ASSUME TypeOK, Placed, [Next]_vars
             PROVE  Placed'
  OBVIOUS
<1> USE DEF TypeOK, Placed, GoTo, writerVars, memVars, diskVars, envVars, valueVars, histVars
<1>1. ASSUME NEW w \in Writers, NEW s \in Sites, NEW legacy \in BOOLEAN,
            BeginPair(w, s, legacy)
     PROVE  Placed'
  BY <1>1 DEF BeginPair
<1>2. ASSUME NEW w \in Writers, NEW s \in Sites, BeginRemove(w, s)
     PROVE  Placed'
  BY <1>2 DEF BeginRemove
<1>3. ASSUME NEW w \in Writers, Lock(w) PROVE Placed'
  BY <1>3 DEF Lock
<1>4. ASSUME NEW w \in Writers, StoreKeychain(w) PROVE Placed'
  BY <1>4 DEF StoreKeychain, Stored, Record
<1>5. ASSUME NEW w \in Writers, LoadTokens(w) PROVE Placed'
  BY <1>5 DEF LoadTokens, Stored, Record
<1>6. ASSUME NEW w \in Writers, TruncateTokens(w) PROVE Placed'
  BY <1>6 DEF TruncateTokens
<1>7. ASSUME NEW w \in Writers, WriteTokens(w) PROVE Placed'
  BY <1>7 DEF WriteTokens, Stored, Record
<1>8. ASSUME NEW w \in Writers, TokensFail(w) PROVE Placed'
  BY <1>8 DEF TokensFail, TokensBroken, Stored, Reset
<1>9. ASSUME NEW w \in Writers, Forget(w) PROVE Placed'
  BY <1>9 DEF Forget
<1>10. ASSUME NEW w \in Writers, EraseKeychain(w) PROVE Placed'
  BY <1>10 DEF EraseKeychain, Erase, EraseNext
<1>11. ASSUME NEW w \in Writers, Register(w) PROVE Placed'
  BY <1>11 DEF Register
<1>12. ASSUME NEW w \in Writers, SaveTruncate(w) PROVE Placed'
  BY <1>12 DEF SaveTruncate
<1>13. ASSUME NEW w \in Writers, SaveWrite(w) PROVE Placed'
  BY <1>13 DEF SaveWrite
<1>14. ASSUME NEW w \in Writers, SaveFail(w) PROVE Placed'
  BY <1>14 DEF SaveFail, Reset
<1>15. ASSUME NEW w \in Writers, Ack(w) PROVE Placed'
  BY <1>15 DEF Ack, Reset
<1>16. CASE Restart
  BY <1>16 DEF Restart, Reset
<1>17. CASE Keychain
  BY <1>17 DEF Keychain
<1>18. CASE UNCHANGED vars
  BY <1>18 DEF vars
<1> QED
  BY <1>1, <1>2, <1>3, <1>4, <1>5, <1>6, <1>7, <1>8, <1>9,
     <1>10, <1>11, <1>12, <1>13, <1>14, <1>15, <1>16, <1>17, <1>18
     DEF Next, Step

(* Every variable of the store and of its writers has its type. *)
THEOREM TypeCorrect == Spec => []TypeOK
<1>1. TypeOK /\ Placed /\ [Next]_vars => (TypeOK /\ Placed)'
  BY TypeStep, PlacedStep
<1> QED BY TypeInit, <1>1, PTL DEF Spec
-----------------------------------------------------------------------------
(* AddSite and SetHMACSecret are all that runs: no code but the tests calls
   RemoveSite.                                                             *)
NoRemover == Removal = FALSE

PairingOnly ==
    \A w \in Writers : op[w] = "pair" /\ pc[w] \notin {"forget", "erase"}

(* Without BeginRemove no writer ever removes. *)
LEMMA PairingOnlyInit == Init => PairingOnly
BY DEF Init, NoWriters, PairingOnly

(* Without a remover every writer pairs. (AddSite, SetHMACSecret) *)
LEMMA PairingOnlyStep ==
    NoRemover /\ TypeOK /\ PairingOnly /\ [Next]_vars => PairingOnly'
<1> SUFFICES ASSUME NoRemover, TypeOK, PairingOnly, [Next]_vars
             PROVE  PairingOnly'
  OBVIOUS
<1> USE DEF NoRemover, TypeOK, PairingOnly, GoTo, writerVars, memVars, diskVars, envVars, valueVars, histVars
<1>1. ASSUME NEW w \in Writers, NEW s \in Sites, NEW legacy \in BOOLEAN,
            BeginPair(w, s, legacy)
     PROVE  PairingOnly'
  BY <1>1 DEF BeginPair
<1>2. ASSUME NEW w \in Writers, NEW s \in Sites, BeginRemove(w, s)
     PROVE  PairingOnly'
  BY <1>2 DEF BeginRemove
<1>3. ASSUME NEW w \in Writers, Lock(w) PROVE PairingOnly'
  BY <1>3 DEF Lock
<1>4. ASSUME NEW w \in Writers, StoreKeychain(w) PROVE PairingOnly'
  BY <1>4 DEF StoreKeychain, Stored, Record
<1>5. ASSUME NEW w \in Writers, LoadTokens(w) PROVE PairingOnly'
  BY <1>5 DEF LoadTokens, Stored, Record
<1>6. ASSUME NEW w \in Writers, TruncateTokens(w) PROVE PairingOnly'
  BY <1>6 DEF TruncateTokens
<1>7. ASSUME NEW w \in Writers, WriteTokens(w) PROVE PairingOnly'
  BY <1>7 DEF WriteTokens, Stored, Record
<1>8. ASSUME NEW w \in Writers, TokensFail(w) PROVE PairingOnly'
  BY <1>8 DEF TokensFail, TokensBroken, Stored, Reset
<1>9. ASSUME NEW w \in Writers, Forget(w) PROVE PairingOnly'
  BY <1>9 DEF Forget
<1>10. ASSUME NEW w \in Writers, EraseKeychain(w) PROVE PairingOnly'
  BY <1>10 DEF EraseKeychain, Erase, EraseNext
<1>11. ASSUME NEW w \in Writers, Register(w) PROVE PairingOnly'
  BY <1>11 DEF Register
<1>12. ASSUME NEW w \in Writers, SaveTruncate(w) PROVE PairingOnly'
  BY <1>12 DEF SaveTruncate
<1>13. ASSUME NEW w \in Writers, SaveWrite(w) PROVE PairingOnly'
  BY <1>13 DEF SaveWrite
<1>14. ASSUME NEW w \in Writers, SaveFail(w) PROVE PairingOnly'
  BY <1>14 DEF SaveFail, Reset
<1>15. ASSUME NEW w \in Writers, Ack(w) PROVE PairingOnly'
  BY <1>15 DEF Ack, Reset
<1>16. CASE Restart
  BY <1>16 DEF Restart, Reset
<1>17. CASE Keychain
  BY <1>17 DEF Keychain
<1>18. CASE UNCHANGED vars
  BY <1>18 DEF vars
<1> QED
  BY <1>1, <1>2, <1>3, <1>4, <1>5, <1>6, <1>7, <1>8, <1>9,
     <1>10, <1>11, <1>12, <1>13, <1>14, <1>15, <1>16, <1>17, <1>18
     DEF Next, Step
-----------------------------------------------------------------------------
(* A site's token is in the keychain. *)
TokenAt(s) == keychain[<<"token", s>>] # 0

(* Tokens are stored before the memory and the metadata name their site, and
   with a keychain that answers no writer touches the token file.          *)
TokenInv ==
    /\ kcUp = TRUE
    /\ \A w \in Writers :
         /\ pc[w] \notin {"load", "truncate", "write"}
         /\ pc[w] # "idle" => gen[w] # 0
         /\ pc[w] = "register" => TokenAt(site[w])
    /\ \A s \in sites : TokenAt(s)
    /\ meta # Truncated => \A s \in meta : TokenAt(s)

KeychainServes == KeychainStates = {TRUE}

(* At the start no site is listed anywhere. (NewKeystore) *)
LEMMA TokenInit == KeychainServes /\ Init => TokenInv
BY DEF KeychainServes, Init, NoWriters, TokenInv

(* Storing an entry takes no token away, and leaves one where it belongs. *)
LEMMA TokenStored ==
    ASSUME TypeOK, Placed, PairingOnly, TokenInv,
           NEW w \in Writers, StoreKeychain(w)
    PROVE  /\ \A s \in Sites : TokenAt(s) => TokenAt(s)'
           /\ kind[w] = "token" => TokenAt(site[w])'
<1> USE DEF TypeOK, PairingOnly, TokenAt, Keys
<1>1. keychain' = [keychain EXCEPT ![<<kind[w], site[w]>>] = Value(w)]
  BY DEF StoreKeychain, TokenInv, Key
<1>2. site[w] \in Sites /\ gen[w] # 0
  BY DEF StoreKeychain, TokenInv, Placed
<1>3. kind[w] = "token" => Value(w) # 0
  BY <1>2 DEF Value
<1>4. ASSUME NEW s \in Sites PROVE <<"token", s>> \in Keys
  OBVIOUS
<1>5. \A s \in Sites : TokenAt(s) => TokenAt(s)'
  <2> SUFFICES ASSUME NEW s \in Sites, TokenAt(s) PROVE TokenAt(s)'
    OBVIOUS
  <2>1. CASE <<"token", s>> = <<kind[w], site[w]>>
    BY <1>1, <1>3, <1>4, <2>1
  <2>2. CASE <<"token", s>> # <<kind[w], site[w]>>
    BY <1>1, <1>4, <2>2
  <2> QED BY <2>1, <2>2
<1>6. kind[w] = "token" => TokenAt(site[w])'
  <2> SUFFICES ASSUME kind[w] = "token" PROVE TokenAt(site[w])'
    OBVIOUS
  <2>1. site'[w] = site[w]
    BY DEF StoreKeychain, writerVars
  <2>2. keychain'[<<"token", site[w]>>] = Value(w)
    BY <1>1, <1>2, <1>4
  <2> QED BY <1>3, <2>1, <2>2
<1> QED BY <1>5, <1>6

(* Every step keeps the token ahead of the memory and the metadata. (AddSite) *)
LEMMA TokenStep ==
    KeychainServes /\ NoRemover /\ TypeOK /\ Placed /\ PairingOnly /\ TokenInv /\ [Next]_vars => TokenInv'
<1> SUFFICES ASSUME KeychainServes, NoRemover, TypeOK, Placed, PairingOnly, TokenInv, [Next]_vars
             PROVE  TokenInv'
  OBVIOUS
<1> USE DEF TypeOK, TokenInv, TokenAt, NoRemover, GoTo, writerVars, memVars, diskVars, envVars, valueVars, histVars
<1>1. ASSUME NEW w \in Writers, NEW s \in Sites, NEW legacy \in BOOLEAN,
            BeginPair(w, s, legacy)
     PROVE  TokenInv'
  BY <1>1 DEF BeginPair, Gens
<1>2. ASSUME NEW w \in Writers, NEW s \in Sites, BeginRemove(w, s)
     PROVE  TokenInv'
  BY <1>2 DEF BeginRemove
<1>3. ASSUME NEW w \in Writers, Lock(w) PROVE TokenInv'
  BY <1>3 DEF Lock, PairingOnly
<1>4. ASSUME NEW w \in Writers, StoreKeychain(w) PROVE TokenInv'
  <2>1. \A s \in Sites : TokenAt(s) => TokenAt(s)'
    BY <1>4, TokenStored
  <2>2. kind[w] = "token" => TokenAt(site[w])'
    BY <1>4, TokenStored
  <2>3. /\ UNCHANGED <<gen, site, sites, meta, kcUp>>
        /\ GoTo(w, IF kind[w] = "token" THEN "register" ELSE "ack")
    BY <1>4 DEF StoreKeychain, Stored, PairingOnly
  <2>4. \A v \in Writers :
          /\ pc'[v] \notin {"load", "truncate", "write"}
          /\ pc'[v] # "idle" => gen'[v] # 0
    BY <1>4, <2>3 DEF StoreKeychain
  <2>5. \A v \in Writers : pc'[v] = "register" => TokenAt(site[v])'
    BY <2>1, <2>2, <2>3 DEF Placed
  <2> QED BY <2>1, <2>3, <2>4, <2>5
<1>5. ASSUME NEW w \in Writers, LoadTokens(w) PROVE TokenInv'
  BY <1>5 DEF LoadTokens
<1>6. ASSUME NEW w \in Writers, TruncateTokens(w) PROVE TokenInv'
  BY <1>6 DEF TruncateTokens
<1>7. ASSUME NEW w \in Writers, WriteTokens(w) PROVE TokenInv'
  BY <1>7 DEF WriteTokens
<1>8. ASSUME NEW w \in Writers, TokensFail(w) PROVE TokenInv'
  BY <1>8 DEF TokensFail, TokensBroken
<1>9. ASSUME NEW w \in Writers, Forget(w) PROVE TokenInv'
  BY <1>9 DEF Forget, PairingOnly
<1>10. ASSUME NEW w \in Writers, EraseKeychain(w) PROVE TokenInv'
  BY <1>10 DEF EraseKeychain, Erase, EraseNext, PairingOnly
<1>11. ASSUME NEW w \in Writers, Register(w) PROVE TokenInv'
  BY <1>11 DEF Register
<1>12. ASSUME NEW w \in Writers, SaveTruncate(w) PROVE TokenInv'
  BY <1>12 DEF SaveTruncate
<1>13. ASSUME NEW w \in Writers, SaveWrite(w) PROVE TokenInv'
  BY <1>13 DEF SaveWrite
<1>14. ASSUME NEW w \in Writers, SaveFail(w) PROVE TokenInv'
  BY <1>14 DEF SaveFail, Reset
<1>15. ASSUME NEW w \in Writers, Ack(w) PROVE TokenInv'
  BY <1>15 DEF Ack, Reset
<1>16. CASE Restart
  BY <1>16 DEF Restart, Reset
<1>17. CASE Keychain
  BY <1>17 DEF Keychain, KeychainServes
<1>18. CASE UNCHANGED vars
  BY <1>18 DEF vars
<1> QED
  BY <1>1, <1>2, <1>3, <1>4, <1>5, <1>6, <1>7, <1>8, <1>9,
     <1>10, <1>11, <1>12, <1>13, <1>14, <1>15, <1>16, <1>17, <1>18
     DEF Next, Step

(* Without a remover and with a keychain that answers, a listed site has its
   token: AddSite's order of keychain, memory and metadata is enough, whatever
   write fails and whenever the process stops.                             *)
THEOREM DurablePairing ==
    ASSUME KeychainServes, NoRemover
    PROVE  Spec => []DurablePairingHasToken
<1> DEFINE Inv == TypeOK /\ Placed /\ PairingOnly /\ TokenInv
<1>1. Init => Inv
  BY TypeInit, PairingOnlyInit, TokenInit
<1>2. Inv /\ [Next]_vars => Inv'
  BY TypeStep, PlacedStep, PairingOnlyStep, TokenStep
<1>3. Inv => DurablePairingHasToken
  BY DEF TokenInv, TokenAt, DurablePairingHasToken, Lookup
<1> QED BY <1>1, <1>2, <1>3, PTL DEF Spec
-----------------------------------------------------------------------------
(* A site the memory knows and, if it parses, the metadata file too. *)
Listed(s) == s \in sites /\ (meta # Truncated => s \in meta)

(* A pairing past save() is listed, and one about to save is in memory; a
   process that failed to start runs no handler.                           *)
AckInv ==
    /\ failed => \A w \in Writers : pc[w] = "idle"
    /\ \A w \in Writers :
         /\ pc[w] \in {"saveTruncate", "saveWrite"} => site[w] \in sites
         /\ pc[w] = "ack" \/ kind[w] = "hmac" =>
              pc[w] # "idle" /\ Listed(site[w])
    /\ AckedPairingListed

(* At the start no pairing has been answered. (NewKeystore) *)
LEMMA AckInit == Init => AckInv
BY DEF Init, NoWriters, AckInv, AckedPairingListed

(* Every step keeps an answered pairing listed. (AddSite, save, NewKeystore) *)
LEMMA AckStep ==
    NoRemover /\ TypeOK /\ Placed /\ PairingOnly /\ AckInv /\ [Next]_vars => AckInv'
<1> SUFFICES ASSUME NoRemover, TypeOK, Placed, PairingOnly, AckInv, [Next]_vars
             PROVE  AckInv'
  OBVIOUS
<1> USE DEF NoRemover, TypeOK, Placed, PairingOnly, AckInv, AckedPairingListed, Listed,
        GoTo, writerVars, memVars, diskVars, envVars, valueVars, histVars
<1>1. ASSUME NEW w \in Writers, NEW s \in Sites, NEW legacy \in BOOLEAN,
            BeginPair(w, s, legacy)
     PROVE  AckInv'
  BY <1>1 DEF BeginPair
<1>2. ASSUME NEW w \in Writers, NEW s \in Sites, BeginRemove(w, s)
     PROVE  AckInv'
  BY <1>2 DEF BeginRemove
<1>3. ASSUME NEW w \in Writers, Lock(w) PROVE AckInv'
  BY <1>3 DEF Lock
<1>4. ASSUME NEW w \in Writers, StoreKeychain(w) PROVE AckInv'
  BY <1>4 DEF StoreKeychain, Stored, Record
<1>5. ASSUME NEW w \in Writers, LoadTokens(w) PROVE AckInv'
  BY <1>5 DEF LoadTokens, Stored, Record
<1>6. ASSUME NEW w \in Writers, TruncateTokens(w) PROVE AckInv'
  BY <1>6 DEF TruncateTokens
<1>7. ASSUME NEW w \in Writers, WriteTokens(w) PROVE AckInv'
  BY <1>7 DEF WriteTokens, Stored, Record
<1>8. ASSUME NEW w \in Writers, TokensFail(w) PROVE AckInv'
  BY <1>8 DEF TokensFail, TokensBroken, Stored, Reset
<1>9. ASSUME NEW w \in Writers, Forget(w) PROVE AckInv'
  BY <1>9 DEF Forget
<1>10. ASSUME NEW w \in Writers, EraseKeychain(w) PROVE AckInv'
  BY <1>10 DEF EraseKeychain, Erase, EraseNext
<1>11. ASSUME NEW w \in Writers, Register(w) PROVE AckInv'
  BY <1>11 DEF Register
<1>12. ASSUME NEW w \in Writers, SaveTruncate(w) PROVE AckInv'
  BY <1>12 DEF SaveTruncate
<1>13. ASSUME NEW w \in Writers, SaveWrite(w) PROVE AckInv'
  BY <1>13 DEF SaveWrite
<1>14. ASSUME NEW w \in Writers, SaveFail(w) PROVE AckInv'
  BY <1>14 DEF SaveFail, Reset
<1>15. ASSUME NEW w \in Writers, Ack(w) PROVE AckInv'
  BY <1>15 DEF Ack, Reset
<1>16. CASE Restart
  BY <1>16 DEF Restart, Reset
<1>17. CASE Keychain
  BY <1>17 DEF Keychain
<1>18. CASE UNCHANGED vars
  BY <1>18 DEF vars
<1> QED
  BY <1>1, <1>2, <1>3, <1>4, <1>5, <1>6, <1>7, <1>8, <1>9,
     <1>10, <1>11, <1>12, <1>13, <1>14, <1>15, <1>16, <1>17, <1>18
     DEF Next, Step

(* An answered pairing stays listed, in memory and on disk, through any number
   of concurrent, failing and interrupted pairings and restarts.           *)
THEOREM AckedPairing ==
    ASSUME NoRemover PROVE Spec => []AckedPairingListed
<1> DEFINE Inv == TypeOK /\ Placed /\ PairingOnly /\ AckInv
<1>1. Init => Inv
  BY TypeInit, PairingOnlyInit, AckInit
<1>2. Inv /\ [Next]_vars => Inv'
  BY TypeStep, PlacedStep, PairingOnlyStep, AckStep
<1>3. Inv => AckedPairingListed
  BY DEF AckInv
<1> QED BY <1>1, <1>2, <1>3, PTL DEF Spec
-----------------------------------------------------------------------------
(* What was stored or deleted last, entry by entry. *)
Recorded ==
    [k \in Keys |-> IF k[1] = "token" THEN added[k[2]] ELSE secretOf[k[2]]]


(* What is recorded is a map of entries. *)
LEMMA RecordedType == ASSUME TypeOK PROVE Recorded \in [Keys -> Gens]
BY DEF TypeOK, Recorded, Keys

(* An entry that is stored or deleted is recorded; nothing else changes what
   is recorded.                                                            *)
LEMMA RecordEffect ==
    ASSUME TypeOK, NEW w \in Writers, site[w] \in Sites, Record(w)
    PROVE  Recorded' = [Recorded EXCEPT ![Key(w)] = Value(w)]
<1>1. ASSUME NEW k \in Keys
      PROVE  Recorded'[k] = IF k = Key(w) THEN Value(w) ELSE Recorded[k]
  <2>1. PICK t \in {"token", "hmac"}, u \in Sites : k = <<t, u>>
    BY DEF Keys
  <2>2. added'[u] = IF kind[w] = "token" /\ u = site[w] THEN Value(w) ELSE added[u]
    BY DEF Record, TypeOK
  <2>3. secretOf'[u] = IF kind[w] = "hmac" /\ u = site[w] THEN Value(w) ELSE secretOf[u]
    BY DEF Record, TypeOK
  <2>4. kind[w] \in {"token", "hmac"}
    BY DEF TypeOK
  <2> QED BY <2>1, <2>2, <2>3, <2>4 DEF Recorded, Key
<1>2. Recorded' = [k \in Keys |-> Recorded'[k]] /\ Recorded = [k \in Keys |-> Recorded[k]]
  BY DEF Recorded
<1> QED BY <1>1, <1>2

(* What is recorded changes only with a history of stored values. *)
LEMMA RecordedKept ==
    ASSUME added' = added, secretOf' = secretOf PROVE Recorded' = Recorded
BY DEF Recorded
-----------------------------------------------------------------------------
(* With a keychain that answers and no RemoveSite, any number of writers. *)
KeychainInv ==
    /\ tokFile = Empty
    /\ \A k \in Keys : keychain[k] = Recorded[k]

(* Every step keeps the keychain at what was recorded, and the token file
   empty. (AddSite, SetHMACSecret)                                         *)
LEMMA KeychainStep ==
    TypeOK /\ Placed /\ PairingOnly /\ TokenInv /\ KeychainInv /\ [Next]_vars => KeychainInv'
<1> SUFFICES ASSUME TypeOK, Placed, PairingOnly, TokenInv, KeychainInv, [Next]_vars
             PROVE  KeychainInv'
  OBVIOUS
<1> USE DEF TypeOK, KeychainInv, GoTo, writerVars, memVars, diskVars, envVars, valueVars, histVars
<1>1. ASSUME NEW w \in Writers, NEW s \in Sites, NEW legacy \in BOOLEAN,
            BeginPair(w, s, legacy)
     PROVE  KeychainInv'
  BY <1>1, RecordedKept DEF BeginPair
<1>2. ASSUME NEW w \in Writers, NEW s \in Sites, BeginRemove(w, s)
     PROVE  KeychainInv'
  BY <1>2, RecordedKept DEF BeginRemove
<1>3. ASSUME NEW w \in Writers, Lock(w) PROVE KeychainInv'
  BY <1>3, RecordedKept DEF Lock
<1>4. ASSUME NEW w \in Writers, StoreKeychain(w) PROVE KeychainInv'
  <2>1. keychain' = [keychain EXCEPT ![Key(w)] = Value(w)] /\ Record(w)
    BY <1>4 DEF StoreKeychain, TokenInv
  <2>2. Recorded' = [Recorded EXCEPT ![Key(w)] = Value(w)]
    BY <1>4, <2>1, RecordEffect DEF StoreKeychain, Placed
  <2> QED BY <1>4, <2>1, <2>2, RecordedType DEF StoreKeychain
<1>5. ASSUME NEW w \in Writers, LoadTokens(w) PROVE KeychainInv'
  BY <1>5 DEF LoadTokens, TokenInv
<1>6. ASSUME NEW w \in Writers, TruncateTokens(w) PROVE KeychainInv'
  BY <1>6 DEF TruncateTokens, TokenInv
<1>7. ASSUME NEW w \in Writers, WriteTokens(w) PROVE KeychainInv'
  BY <1>7 DEF WriteTokens, TokenInv
<1>8. ASSUME NEW w \in Writers, TokensFail(w) PROVE KeychainInv'
  BY <1>8 DEF TokensFail, TokensBroken, TokenInv
<1>9. ASSUME NEW w \in Writers, Forget(w) PROVE KeychainInv'
  BY <1>9, RecordedKept DEF Forget
<1>10. ASSUME NEW w \in Writers, EraseKeychain(w) PROVE KeychainInv'
  BY <1>10 DEF EraseKeychain, Erase, EraseNext, PairingOnly
<1>11. ASSUME NEW w \in Writers, Register(w) PROVE KeychainInv'
  BY <1>11, RecordedKept DEF Register
<1>12. ASSUME NEW w \in Writers, SaveTruncate(w) PROVE KeychainInv'
  BY <1>12, RecordedKept DEF SaveTruncate
<1>13. ASSUME NEW w \in Writers, SaveWrite(w) PROVE KeychainInv'
  BY <1>13, RecordedKept DEF SaveWrite
<1>14. ASSUME NEW w \in Writers, SaveFail(w) PROVE KeychainInv'
  BY <1>14, RecordedKept DEF SaveFail
<1>15. ASSUME NEW w \in Writers, Ack(w) PROVE KeychainInv'
  BY <1>15, RecordedKept DEF Ack
<1>16. CASE Restart
  BY <1>16, RecordedKept DEF Restart
<1>17. CASE Keychain
  BY <1>17, RecordedKept DEF Keychain
<1>18. CASE UNCHANGED vars
  BY <1>18, RecordedKept DEF vars
<1> QED
  BY <1>1, <1>2, <1>3, <1>4, <1>5, <1>6, <1>7, <1>8, <1>9,
     <1>10, <1>11, <1>12, <1>13, <1>14, <1>15, <1>16, <1>17, <1>18
     DEF Next, Step

(* Every pairing's token and secret read back, however pairings interleave,
   fail or are cut short: a keychain that answers stores entries singly.   *)
THEOREM KeychainReadsBack ==
    ASSUME KeychainServes, NoRemover
    PROVE  Spec => [](ReadsBackTokens /\ ReadsBackSecrets)
<1> DEFINE Inv == TypeOK /\ Placed /\ PairingOnly /\ TokenInv /\ KeychainInv
<1>1. Init => Inv
  <2>1. Init => KeychainInv
    BY DEF Init, KeychainInv, Recorded, Keys, Empty
  <2> QED BY <2>1, TypeInit, PairingOnlyInit, TokenInit
<1>2. Inv /\ [Next]_vars => Inv'
  BY TypeStep, PlacedStep, PairingOnlyStep, TokenStep, KeychainStep
<1>3. Inv => ReadsBackTokens /\ ReadsBackSecrets
  <2> SUFFICES ASSUME Inv, NEW s \in sites
               PROVE  Token(s) = added[s] /\ HMACSecret(s) = secretOf[s]
    BY DEF ReadsBackTokens, ReadsBackSecrets
  <2>1. s \in Sites /\ <<"token", s>> \in Keys /\ <<"hmac", s>> \in Keys
    BY DEF TypeOK, Keys
  <2>2. Parsed(tokFile) = Empty
    BY DEF KeychainInv, Parsed
  <2>3. \A k \in Keys : Lookup(k) = Recorded[k]
    BY <2>2 DEF KeychainInv, TokenInv, Lookup, Empty
  <2> QED BY <2>1, <2>3 DEF Token, HMACSecret, Recorded
<1> QED BY <1>1, <1>2, <1>3, PTL DEF Spec
-----------------------------------------------------------------------------
(* One writer at a time, and a keychain that never answers: the token file. *)
OneWriter    == \A v, w \in Writers : v = w
KeychainDown == KeychainStates = {FALSE}

(* Unless a write was spoiled, the token file holds what was recorded last,
   and a writer that is about to rewrite it holds that with its own entry
   changed.                                                                *)
FileInv ==
    /\ kcUp = FALSE
    /\ "file" \notin spoiled =>
         /\ tokFile = IF \E w \in Writers : pc[w] = "write"
                      THEN Truncated ELSE Recorded
         /\ \A w \in Writers : pc[w] \in {"truncate", "write"} =>
              buf[w] = [Recorded EXCEPT ![Key(w)] = Value(w)]

(* At the start nothing is recorded and the token file is empty. (NewKeystore) *)
LEMMA FileInit == KeychainDown /\ Init => FileInv
BY DEF Init, NoWriters, FileInv, KeychainDown, Recorded, Keys, Empty

(* Every step of one writer keeps the token file at what was recorded, or
   truncated while it is rewritten. (setTokenFile, deleteTokenFile)        *)
LEMMA FileStep ==
    OneWriter /\ KeychainDown /\ TypeOK /\ Placed /\ FileInv /\ [Next]_vars => FileInv'
<1> SUFFICES ASSUME OneWriter, KeychainDown, TypeOK, Placed, FileInv, [Next]_vars
             PROVE  FileInv'
  OBVIOUS
<1> USE DEF OneWriter, KeychainDown, TypeOK, FileInv, GoTo, writerVars, memVars, diskVars, envVars, valueVars, histVars
<1>1. ASSUME NEW w \in Writers, NEW s \in Sites, NEW legacy \in BOOLEAN,
            BeginPair(w, s, legacy)
     PROVE  FileInv'
  <2>1. \A v \in Writers : v = w
    BY DEF OneWriter
  <2>2. Recorded' = Recorded
    BY <1>1, RecordedKept DEF BeginPair
  <2>3. pc[w] \notin {"truncate", "write"} /\ pc'[w] \notin {"truncate", "write"}
    BY <1>1 DEF BeginPair
  <2> QED BY <1>1, <2>1, <2>2, <2>3 DEF BeginPair
<1>2. ASSUME NEW w \in Writers, NEW s \in Sites, BeginRemove(w, s)
     PROVE  FileInv'
  <2>1. \A v \in Writers : v = w
    BY DEF OneWriter
  <2>2. Recorded' = Recorded
    BY <1>2, RecordedKept DEF BeginRemove
  <2>3. pc[w] \notin {"truncate", "write"} /\ pc'[w] \notin {"truncate", "write"}
    BY <1>2 DEF BeginRemove
  <2> QED BY <1>2, <2>1, <2>2, <2>3 DEF BeginRemove
<1>3. ASSUME NEW w \in Writers, Lock(w) PROVE FileInv'
  <2>1. \A v \in Writers : v = w
    BY DEF OneWriter
  <2>2. Recorded' = Recorded
    BY <1>3, RecordedKept DEF Lock
  <2>3. pc[w] \notin {"truncate", "write"} /\ pc'[w] \notin {"truncate", "write"}
    BY <1>3 DEF Lock
  <2> QED BY <1>3, <2>1, <2>2, <2>3 DEF Lock
<1>4. ASSUME NEW w \in Writers, StoreKeychain(w) PROVE FileInv'
  <2>1. \A v \in Writers : v = w
    BY DEF OneWriter
  <2>2. Recorded' = Recorded
    BY <1>4, RecordedKept DEF StoreKeychain
  <2>3. pc[w] \notin {"truncate", "write"} /\ pc'[w] \notin {"truncate", "write"}
    BY <1>4 DEF StoreKeychain
  <2> QED BY <1>4, <2>1, <2>2, <2>3 DEF StoreKeychain
<1>5. ASSUME NEW w \in Writers, LoadTokens(w) PROVE FileInv'
  <2> SUFFICES ASSUME "file" \notin spoiled PROVE FileInv'
    BY <1>5 DEF LoadTokens
  <2>1. \A v \in Writers : v = w
    BY DEF OneWriter
  <2>2. tokFile = Recorded /\ Parsed(tokFile) = Recorded
    BY <1>5, <2>1, RecordedType, KeystoreAssumption
       DEF LoadTokens, Parsed, Keys, Gens
  <2> DEFINE map == [Recorded EXCEPT ![Key(w)] = Value(w)]
  <2>3. CASE Stored(w) /\ Record(w) /\ buf' = buf /\ map \in {Recorded, Empty}
             /\ tokFile' = IF map = Recorded THEN tokFile ELSE Empty
    <3>1. Recorded' = map
      BY <1>5, <2>3, RecordEffect DEF LoadTokens, Placed
    <3>2. tokFile' = map
      BY <2>2, <2>3
    <3>3. pc'[w] \notin {"truncate", "write"}
      BY <2>3 DEF Stored
    <3> QED BY <1>5, <2>1, <3>1, <3>2, <3>3 DEF LoadTokens
  <2>4. CASE buf' = [buf EXCEPT ![w] = map] /\ GoTo(w, "truncate")
             /\ UNCHANGED <<tokFile, kind, valueVars>>
    <3>1. Recorded' = Recorded
      BY <2>4, RecordedKept
    <3>2. Key(w)' = Key(w) /\ Value(w)' = Value(w)
      BY <1>5, <2>4 DEF LoadTokens, Key, Value
    <3>3. pc'[w] = "truncate" /\ buf'[w] = map
      BY <2>4
    <3> QED BY <1>5, <2>1, <2>2, <2>4, <3>1, <3>2, <3>3 DEF LoadTokens
  <2> QED BY <1>5, <2>2, <2>3, <2>4 DEF LoadTokens
<1>6. ASSUME NEW w \in Writers, TruncateTokens(w) PROVE FileInv'
  <2>1. \A v \in Writers : v = w
    BY DEF OneWriter
  <2>2. Recorded' = Recorded
    BY <1>6, RecordedKept DEF TruncateTokens
  <2>3. Key(w)' = Key(w) /\ Value(w)' = Value(w)
    BY <1>6 DEF TruncateTokens, Key, Value
  <2>4. pc'[w] = "write" /\ buf' = buf /\ pc[w] = "truncate"
    BY <1>6 DEF TruncateTokens
  <2> QED BY <1>6, <2>1, <2>2, <2>3, <2>4 DEF TruncateTokens
<1>7. ASSUME NEW w \in Writers, WriteTokens(w) PROVE FileInv'
  <2> SUFFICES ASSUME "file" \notin spoiled PROVE FileInv'
    BY <1>7 DEF WriteTokens
  <2>1. \A v \in Writers : v = w
    BY DEF OneWriter
  <2>2. tokFile = Truncated /\ buf[w] = [Recorded EXCEPT ![Key(w)] = Value(w)]
    BY <1>7 DEF WriteTokens
  <2>3. tokFile' = buf[w]
    BY <1>7, <2>2 DEF WriteTokens
  <2>4. Recorded' = [Recorded EXCEPT ![Key(w)] = Value(w)]
    BY <1>7, RecordEffect DEF WriteTokens, Placed
  <2>5. pc'[w] \notin {"truncate", "write"}
    BY <1>7 DEF WriteTokens, Stored
  <2> QED BY <1>7, <2>1, <2>2, <2>3, <2>4, <2>5 DEF WriteTokens
<1>8. ASSUME NEW w \in Writers, TokensFail(w) PROVE FileInv'
  BY <1>8 DEF TokensFail, TokensBroken
<1>9. ASSUME NEW w \in Writers, Forget(w) PROVE FileInv'
  <2>1. \A v \in Writers : v = w
    BY DEF OneWriter
  <2>2. Recorded' = Recorded
    BY <1>9, RecordedKept DEF Forget
  <2>3. pc[w] \notin {"truncate", "write"} /\ pc'[w] \notin {"truncate", "write"}
    BY <1>9 DEF Forget
  <2> QED BY <1>9, <2>1, <2>2, <2>3 DEF Forget
<1>10. ASSUME NEW w \in Writers, EraseKeychain(w) PROVE FileInv'
  <2>1. \A v \in Writers : v = w
    BY DEF OneWriter
  <2>2. Recorded' = Recorded
    BY <1>10, RecordedKept DEF EraseKeychain, Erase, EraseNext
  <2>3. pc[w] \notin {"truncate", "write"} /\ pc'[w] \notin {"truncate", "write"}
    BY <1>10 DEF EraseKeychain, Erase, EraseNext
  <2> QED BY <1>10, <2>1, <2>2, <2>3 DEF EraseKeychain, Erase, EraseNext
<1>11. ASSUME NEW w \in Writers, Register(w) PROVE FileInv'
  <2>1. \A v \in Writers : v = w
    BY DEF OneWriter
  <2>2. Recorded' = Recorded
    BY <1>11, RecordedKept DEF Register
  <2>3. pc[w] \notin {"truncate", "write"} /\ pc'[w] \notin {"truncate", "write"}
    BY <1>11 DEF Register
  <2> QED BY <1>11, <2>1, <2>2, <2>3 DEF Register
<1>12. ASSUME NEW w \in Writers, SaveTruncate(w) PROVE FileInv'
  <2>1. \A v \in Writers : v = w
    BY DEF OneWriter
  <2>2. Recorded' = Recorded
    BY <1>12, RecordedKept DEF SaveTruncate
  <2>3. pc[w] \notin {"truncate", "write"} /\ pc'[w] \notin {"truncate", "write"}
    BY <1>12 DEF SaveTruncate
  <2> QED BY <1>12, <2>1, <2>2, <2>3 DEF SaveTruncate
<1>13. ASSUME NEW w \in Writers, SaveWrite(w) PROVE FileInv'
  <2>1. \A v \in Writers : v = w
    BY DEF OneWriter
  <2>2. Recorded' = Recorded
    BY <1>13, RecordedKept DEF SaveWrite
  <2>3. pc[w] \notin {"truncate", "write"} /\ pc'[w] \notin {"truncate", "write"}
    BY <1>13 DEF SaveWrite
  <2> QED BY <1>13, <2>1, <2>2, <2>3 DEF SaveWrite
<1>14. ASSUME NEW w \in Writers, SaveFail(w) PROVE FileInv'
  <2>1. \A v \in Writers : v = w
    BY DEF OneWriter
  <2>2. Recorded' = Recorded
    BY <1>14, RecordedKept DEF SaveFail, Reset
  <2>3. pc[w] \notin {"truncate", "write"} /\ pc'[w] \notin {"truncate", "write"}
    BY <1>14 DEF SaveFail, Reset
  <2> QED BY <1>14, <2>1, <2>2, <2>3 DEF SaveFail, Reset
<1>15. ASSUME NEW w \in Writers, Ack(w) PROVE FileInv'
  <2>1. \A v \in Writers : v = w
    BY DEF OneWriter
  <2>2. Recorded' = Recorded
    BY <1>15, RecordedKept DEF Ack, Reset
  <2>3. pc[w] \notin {"truncate", "write"} /\ pc'[w] \notin {"truncate", "write"}
    BY <1>15 DEF Ack, Reset
  <2> QED BY <1>15, <2>1, <2>2, <2>3 DEF Ack, Reset
<1>16. CASE Restart
  <2>1. Recorded' = Recorded
    BY <1>16, RecordedKept DEF Restart
  <2>2. \A w \in Writers : pc'[w] = "idle"
    BY <1>16 DEF Restart, Reset
  <2> QED BY <1>16, <2>1, <2>2 DEF Restart
<1>17. CASE Keychain
  <2>1. Recorded' = Recorded /\ kcUp' = FALSE
    BY <1>17, RecordedKept DEF Keychain
  <2>2. \A w \in Writers : Key(w)' = Key(w) /\ Value(w)' = Value(w)
    BY <1>17 DEF Keychain, Key, Value
  <2> QED BY <1>17, <2>1, <2>2 DEF Keychain
<1>18. CASE UNCHANGED vars
  <2>1. Recorded' = Recorded
    BY <1>18, RecordedKept DEF vars
  <2>2. \A w \in Writers : Key(w)' = Key(w) /\ Value(w)' = Value(w)
    BY <1>18 DEF vars, Key, Value
  <2> QED BY <1>18, <2>1, <2>2 DEF vars
<1> HIDE DEF OneWriter, KeychainDown, TypeOK, FileInv
<1> QED
  BY <1>1, <1>2, <1>3, <1>4, <1>5, <1>6, <1>7, <1>8, <1>9,
     <1>10, <1>11, <1>12, <1>13, <1>14, <1>15, <1>16, <1>17, <1>18
     DEF Next, Step

(* At rest the lookups return what was recorded. *)
LEMMA FileLookup ==
    ASSUME TypeOK, FileInv, Quiet, "file" \notin spoiled
    PROVE  \A k \in Keys : Lookup(k) = Recorded[k]
<1>1. tokFile = Recorded
  BY DEF FileInv, Quiet
<1>2. Parsed(tokFile) = Recorded
  BY <1>1, RecordedType, KeystoreAssumption DEF Parsed, Keys, Gens
<1> QED BY <1>2 DEF FileInv, Lookup

(* The token file alone keeps every entry, through removals, failures at any
   other point and restarts.                                               *)
THEOREM TokenFileReadsBack ==
    ASSUME OneWriter, KeychainDown
    PROVE  Spec => [](ReadsBackTokens /\ ReadsBackSecrets)
<1> DEFINE Inv == TypeOK /\ Placed /\ FileInv
<1>1. Init => Inv
  <2>1. Init => FileInv
    BY FileInit
  <2> QED BY <2>1, TypeInit
<1>2. Inv /\ [Next]_vars => Inv'
  BY TypeStep, PlacedStep, FileStep
<1>3. Inv => ReadsBackTokens /\ ReadsBackSecrets
  <2> SUFFICES ASSUME Inv, Quiet, "file" \notin spoiled, NEW s \in sites
               PROVE  Token(s) = added[s] /\ HMACSecret(s) = secretOf[s]
    BY DEF ReadsBackTokens, ReadsBackSecrets, Spared
  <2>1. s \in Sites /\ <<"token", s>> \in Keys /\ <<"hmac", s>> \in Keys
    BY DEF TypeOK, Keys
  <2>2. \A k \in Keys : Lookup(k) = Recorded[k]
    BY FileLookup
  <2> QED BY <2>1, <2>2 DEF Token, HMACSecret, Recorded
<1> QED BY <1>1, <1>2, <1>3, PTL DEF Spec
-----------------------------------------------------------------------------
(* The points of RemoveSite after its Forget, after the keychain's deletion of
   an entry, and after the file's deletion of the token and of the secret. *)
ErasedFrom(w) == op[w] = "remove" /\ pc[w] \notin {"idle", "lock", "forget"}
FilePoints == {"load", "truncate", "write"}
SavePoints == {"saveTruncate", "saveWrite", "ack"}
KeychainErased(w, t) ==
    /\ op[w] = "remove"
    /\ \/ pc[w] = "erase" /\ kind[w] = "hmac" /\ t = "token"
       \/ pc[w] \in FilePoints \cup SavePoints
FileErased(w, t) ==
    /\ op[w] = "remove"
    /\ \/ pc[w] \in FilePoints /\ kind[w] = "hmac" /\ t = "token"
       \/ pc[w] \in SavePoints

(* A removed site is in neither list, and nobody pairs with it. *)
RemovalInv ==
    /\ \A s \in Sites : acked[s] = "removed" =>
         /\ s \notin sites
         /\ meta # Truncated => s \notin meta
         /\ \A w \in Writers : pc[w] # "idle" /\ op[w] = "pair" => site[w] # s
    /\ \A w \in Writers :
         /\ pc[w] = "idle" => op[w] = "pair"
         /\ pc[w] \in {"idle", "lock", "forget"} => kind[w] = "token"
         /\ op[w] = "remove" => pc[w] \notin {"keychain", "register"}
         /\ ErasedFrom(w) => site[w] \notin sites
         /\ op[w] = "remove" /\ pc[w] = "ack" =>
              meta = Truncated \/ site[w] \notin meta

(* Every step keeps a removed site out of the memory and the metadata.
   (RemoveSite, AddSite, save)                                             *)
LEMMA RemovalStep ==
    OneWriter /\ TypeOK /\ Placed /\ RemovalInv /\ [Next]_vars => RemovalInv'
<1> SUFFICES ASSUME OneWriter, TypeOK, Placed, RemovalInv, [Next]_vars
             PROVE  RemovalInv'
  OBVIOUS
<1> USE DEF OneWriter, TypeOK, Placed, RemovalInv, ErasedFrom,
           GoTo, writerVars, memVars, diskVars, envVars, valueVars, histVars
<1>1. ASSUME NEW w \in Writers, NEW s \in Sites, NEW legacy \in BOOLEAN,
            BeginPair(w, s, legacy)
     PROVE  RemovalInv'
  BY <1>1 DEF BeginPair
<1>2. ASSUME NEW w \in Writers, NEW s \in Sites, BeginRemove(w, s)
     PROVE  RemovalInv'
  BY <1>2 DEF BeginRemove
<1>3. ASSUME NEW w \in Writers, Lock(w) PROVE RemovalInv'
  BY <1>3 DEF Lock
<1>4. ASSUME NEW w \in Writers, StoreKeychain(w) PROVE RemovalInv'
  BY <1>4 DEF StoreKeychain, Stored, Record, Value
<1>5. ASSUME NEW w \in Writers, LoadTokens(w) PROVE RemovalInv'
  BY <1>5 DEF LoadTokens, Stored, Record, Value
<1>6. ASSUME NEW w \in Writers, TruncateTokens(w) PROVE RemovalInv'
  BY <1>6 DEF TruncateTokens
<1>7. ASSUME NEW w \in Writers, WriteTokens(w) PROVE RemovalInv'
  BY <1>7 DEF WriteTokens, Stored, Record, Value
<1>8. ASSUME NEW w \in Writers, TokensFail(w) PROVE RemovalInv'
  BY <1>8 DEF TokensFail, TokensBroken, Stored, Reset
<1>9. ASSUME NEW w \in Writers, Forget(w) PROVE RemovalInv'
  BY <1>9 DEF Forget
<1>10. ASSUME NEW w \in Writers, EraseKeychain(w) PROVE RemovalInv'
  BY <1>10 DEF EraseKeychain, Erase, EraseNext
<1>11. ASSUME NEW w \in Writers, Register(w) PROVE RemovalInv'
  BY <1>11 DEF Register
<1>12. ASSUME NEW w \in Writers, SaveTruncate(w) PROVE RemovalInv'
  BY <1>12 DEF SaveTruncate
<1>13. ASSUME NEW w \in Writers, SaveWrite(w) PROVE RemovalInv'
  BY <1>13 DEF SaveWrite
<1>14. ASSUME NEW w \in Writers, SaveFail(w) PROVE RemovalInv'
  BY <1>14 DEF SaveFail, Reset
<1>15. ASSUME NEW w \in Writers, Ack(w) PROVE RemovalInv'
  BY <1>15 DEF Ack, Reset
<1>16. CASE Restart
  BY <1>16 DEF Restart, Reset
<1>17. CASE Keychain
  BY <1>17 DEF Keychain
<1>18. CASE UNCHANGED vars
  BY <1>18 DEF vars
<1> HIDE DEF OneWriter, TypeOK, Placed, RemovalInv
<1> QED
  BY <1>1, <1>2, <1>3, <1>4, <1>5, <1>6, <1>7, <1>8, <1>9,
     <1>10, <1>11, <1>12, <1>13, <1>14, <1>15, <1>16, <1>17, <1>18
     DEF Next, Step

(* An entry is not in the keychain; it is not in the token file, nor in what
   a writer is about to make of that file.                                 *)
Absent(t, s) == keychain[<<t, s>>] = 0
Rewriting(w) == pc[w] \in {"truncate", "write"}
Free(t, s) ==
    /\ Parsed(tokFile)[<<t, s>>] = 0
    /\ \A w \in Writers : Rewriting(w) => buf[w][<<t, s>>] = 0

(* Unless a deletion failed, the entries of a removed site are in neither
   store, and those that a removal has dealt with are not either.          *)
Clean == Spared({"file", "keychain"})
GoneInv ==
    Clean =>
      /\ \A s \in Sites, t \in {"token", "hmac"} :
           acked[s] = "removed" => Absent(t, s) /\ Free(t, s)
      /\ \A w \in Writers, t \in {"token", "hmac"} :
           /\ KeychainErased(w, t) => Absent(t, site[w])
           /\ FileErased(w, t) => Free(t, site[w])
           /\ op[w] = "remove" /\ Rewriting(w) => buf[w][Key(w)] = 0

(* Whoever does not rewrite the token file leaves free what is free. *)
LEMMA FreeFrame ==
    ASSUME tokFile' = tokFile,
           \A v \in Writers : Rewriting(v)' => Rewriting(v) /\ buf'[v] = buf[v],
           NEW t, NEW s, Free(t, s)
    PROVE  Free(t, s)'
BY DEF Free

(* Two entries are the same when kind and site are. *)
LEMMA KeyFacts ==
    ASSUME TypeOK, NEW w \in Writers, site[w] \in Sites,
           NEW t \in {"token", "hmac"}, NEW s \in Sites
    PROVE  /\ <<t, s>> \in Keys /\ Key(w) \in Keys
           /\ <<t, s>> = Key(w) <=> t = kind[w] /\ s = site[w]
BY DEF TypeOK, Keys, Key

(* Storing an entry leaves other entries where they are. (keyring.Set) *)
LEMMA StoreAbsent ==
    ASSUME TypeOK, NEW w \in Writers, site[w] \in Sites, StoreKeychain(w),
           NEW t \in {"token", "hmac"}, NEW s \in Sites, s # site[w],
           Absent(t, s)
    PROVE  Absent(t, s)'
<1>1. keychain' \in {keychain, [keychain EXCEPT ![Key(w)] = Value(w)]}
  BY DEF StoreKeychain
<1>2. <<t, s>> # Key(w) /\ <<t, s>> \in Keys
  BY KeyFacts
<1>3. keychain'[<<t, s>>] = keychain[<<t, s>>]
  BY <1>1, <1>2 DEF TypeOK
<1> QED BY <1>3 DEF Absent

(* Erasing an entry leaves absent what is absent, and the entry itself unless
   the keychain does not answer. (keyring.Delete)                          *)
LEMMA EraseAbsent ==
    ASSUME TypeOK, NEW w \in Writers, site[w] \in Sites, EraseKeychain(w),
           Clean', NEW t \in {"token", "hmac"}, NEW s \in Sites,
           Absent(t, s) \/ <<t, s>> = Key(w)
    PROVE  Absent(t, s)'
<1>1. <<t, s>> \in Keys /\ keychain \in [Keys -> Gens]
  BY KeyFacts DEF TypeOK
<1>2. CASE kcUp
  <2>1. keychain' = [keychain EXCEPT ![Key(w)] = 0]
    BY <1>2 DEF EraseKeychain, Erase
  <2> QED BY <1>1, <2>1 DEF Absent
<1>3. CASE ~kcUp
  <2>1. keychain' = keychain
    BY <1>3 DEF EraseKeychain, Erase
  <2>2. keychain[Key(w)] = 0
    <3>1. spoiled' = IF keychain[Key(w)] = 0 THEN spoiled
                     ELSE spoiled \cup {"keychain"}
      BY <1>3 DEF EraseKeychain, Erase
    <3> QED BY <3>1 DEF Clean, Spared
  <2> QED BY <2>1, <2>2 DEF Absent
<1> QED BY <1>2, <1>3

(* Loading the token file and changing an entry leaves free what is free but
   the entry that a pairing stores, and frees the one that a removal deletes
   and leaves it to be written. (setTokenFile, deleteTokenFile)            *)
LEMMA LoadFree ==
    ASSUME OneWriter, TypeOK, NEW w \in Writers, site[w] \in Sites,
           LoadTokens(w), NEW t \in {"token", "hmac"}, NEW s \in Sites
    PROVE  /\ Free(t, s) /\ (s # site[w] \/ op[w] = "remove") => Free(t, s)'
           /\ op[w] = "remove" /\ ~Rewriting(w)' /\ t = kind[w] /\ s = site[w]
                => Free(t, s)'
           /\ op[w] = "remove" /\ Rewriting(w)' => buf'[w][Key(w)] = 0
<1> DEFINE old == Parsed(tokFile)
           map == [old EXCEPT ![Key(w)] = Value(w)]
           k   == <<t, s>>
<1>1. \A v \in Writers : v = w
  BY DEF OneWriter
<1>2. old \in [Keys -> Gens]
  BY ParsedType DEF TypeOK
<1>3. k \in Keys /\ Key(w) \in Keys /\ (k = Key(w) <=> t = kind[w] /\ s = site[w])
  BY KeyFacts
<1>4. op[w] = "remove" => Value(w) = 0
  BY DEF Value
<1>5. map[Key(w)] = Value(w) /\ (k # Key(w) => map[k] = old[k])
  BY <1>2, <1>3
<1>6. ~Rewriting(w)
  BY DEF LoadTokens, Rewriting
<1> HIDE DEF k
<1>7. CASE /\ op[w] = "remove" /\ map \in {old, Empty} /\ Stored(w)
           /\ tokFile' = IF map = old THEN tokFile ELSE Empty
  <2>1. ~Rewriting(w)'
    BY <1>7, <1>1 DEF Stored, Rewriting, GoTo, TypeOK
  <2>2. Parsed(tokFile') \in {old, Empty} /\ (map # old => Parsed(tokFile') = Empty)
    BY <1>7, GenFacts, KeystoreAssumption DEF Parsed
  <2>3. Empty[k] = 0
    BY <1>3 DEF Empty
  <2>4. old[k] = 0 => Parsed(tokFile')[k] = 0
    BY <2>2, <2>3
  <2>5. k = Key(w) => Parsed(tokFile')[k] = 0
    BY <1>4, <1>5, <1>7, <2>2, <2>3
  <2> QED BY <1>1, <1>3, <2>1, <2>4, <2>5 DEF Free, k
<1>8. CASE /\ buf' = [buf EXCEPT ![w] = map]
           /\ GoTo(w, "truncate") /\ tokFile' = tokFile
  <2>1. Rewriting(w)' /\ buf'[w] = map
    BY <1>8 DEF Rewriting, GoTo, TypeOK
  <2>2. old[k] = 0 /\ (s # site[w] \/ op[w] = "remove") => map[k] = 0
    BY <1>3, <1>4, <1>5
  <2> QED BY <1>1, <1>4, <1>5, <1>8, <2>1, <2>2 DEF Free, k
<1> HIDE DEF map, old
<1> QED BY <1>7, <1>8 DEF LoadTokens, map, old

(* What is free stays free while the file is emptied ... *)
LEMMA TruncateFree ==
    ASSUME OneWriter, TypeOK, NEW w \in Writers, TruncateTokens(w),
           NEW t \in {"token", "hmac"}, NEW s \in Sites, Free(t, s)
    PROVE  Free(t, s)'
<1>1. \A v \in Writers : v = w
  BY DEF OneWriter
<1>2. buf[w][<<t, s>>] = 0 /\ buf' = buf
  BY DEF TruncateTokens, Free, Rewriting
<1>3. Parsed(tokFile') = Empty /\ <<t, s>> \in Keys
  BY DEF TruncateTokens, Parsed, Keys
<1>4. Empty[<<t, s>>] = 0
  BY <1>3 DEF Empty
<1> QED BY <1>1, <1>2, <1>3, <1>4 DEF Free

(* ... and written, and what the new contents lack becomes free. *)
LEMMA WriteFree ==
    ASSUME OneWriter, TypeOK, NEW w \in Writers, WriteTokens(w),
           NEW t \in {"token", "hmac"}, NEW s \in Sites,
           buf[w][<<t, s>>] = 0
    PROVE  Free(t, s)'
<1>1. \A v \in Writers : v = w
  BY DEF OneWriter
<1>2. tokFile' \in {buf[w], Torn} /\ buf[w] \in [Keys -> Gens]
  BY DEF WriteTokens, TypeOK
<1>3. Parsed(tokFile') \in {buf[w], Empty}
  BY <1>2 DEF Parsed
<1>4. <<t, s>> \in Keys
  BY DEF Keys
<1>5. Parsed(tokFile')[<<t, s>>] = 0
  BY <1>3, <1>4 DEF Empty
<1>6. ~Rewriting(w)'
  BY DEF WriteTokens, Stored, GoTo, TypeOK, Rewriting
<1> QED BY <1>1, <1>5, <1>6 DEF Free

(* A step that touches neither store leaves the entries alone. *)
LEMMA GoneFrame ==
    ASSUME OneWriter, TypeOK, Placed, GoneInv,
           keychain' = keychain, tokFile' = tokFile, Clean' => Clean,
           \A v \in Writers : Rewriting(v)' =>
              Rewriting(v) /\ buf'[v] = buf[v] /\ Key(v)' = Key(v)
              /\ op'[v] = op[v],
           \A s \in Sites, t \in {"token", "hmac"} :
              acked'[s] = "removed" =>
                 \/ acked[s] = "removed"
                 \/ \E v \in Writers : /\ KeychainErased(v, t)
                                      /\ FileErased(v, t) /\ site[v] = s,
           \A v \in Writers, t \in {"token", "hmac"} :
              /\ KeychainErased(v, t)' => KeychainErased(v, t) /\ site'[v] = site[v]
              /\ FileErased(v, t)' => FileErased(v, t) /\ site'[v] = site[v]
    PROVE  GoneInv'
<1> SUFFICES ASSUME Clean' PROVE GoneInv'
  BY DEF GoneInv
<1>1. \A s, t : Absent(t, s) => Absent(t, s)'
  BY DEF Absent
<1>2. \A s, t : Free(t, s) => Free(t, s)'
  BY FreeFrame
<1>3. ASSUME NEW s \in Sites, NEW t \in {"token", "hmac"}, acked'[s] = "removed"
      PROVE  Absent(t, s)' /\ Free(t, s)'
  BY <1>1, <1>2, <1>3 DEF GoneInv
<1>4. ASSUME NEW v \in Writers, NEW t \in {"token", "hmac"}
      PROVE  /\ KeychainErased(v, t)' => Absent(t, site[v])'
             /\ FileErased(v, t)' => Free(t, site[v])'
  <2>1. PICK u : u = site[v]
    OBVIOUS
  <2>2. ASSUME site'[v] = site[v] PROVE site'[v] = u
    BY <2>1, <2>2
  <2>3. KeychainErased(v, t) => Absent(t, u)'
    BY <1>1, <2>1 DEF GoneInv
  <2>4. FileErased(v, t) => Free(t, u)'
    BY <1>2, <2>1 DEF GoneInv
  <2>5. KeychainErased(v, t)' => Absent(t, site[v])'
    BY <2>1, <2>3 DEF Absent
  <2>6. FileErased(v, t)' => Free(t, site[v])'
    BY <2>1, <2>4 DEF Free
  <2> QED BY <2>5, <2>6
<1>5. ASSUME NEW v \in Writers PROVE op'[v] = "remove" /\ Rewriting(v)' => buf'[v][Key(v)'] = 0
  BY DEF GoneInv
<1> QED BY <1>3, <1>4, <1>5 DEF GoneInv

(* Every step of one writer keeps removed entries out of both stores.
   (RemoveSite, AddSite, SetHMACSecret)                                    *)
LEMMA GoneStep ==
    OneWriter /\ TypeOK /\ Placed /\ RemovalInv /\ GoneInv /\ [Next]_vars => GoneInv'
<1> SUFFICES ASSUME OneWriter, TypeOK, Placed, RemovalInv, GoneInv, [Next]_vars
             PROVE  GoneInv'
  OBVIOUS
<1> USE DEF TypeOK, Placed, GoTo, writerVars, memVars, diskVars, envVars,
           valueVars, histVars
<1>1. ASSUME NEW w \in Writers, NEW s \in Sites, NEW legacy \in BOOLEAN,
            BeginPair(w, s, legacy)
     PROVE  GoneInv'
  <2>1. keychain' = keychain /\ tokFile' = tokFile /\ (Clean' => Clean)
    BY <1>1 DEF BeginPair, Clean, Spared
  <2>2. \A v \in Writers : Rewriting(v)' =>
           Rewriting(v) /\ buf'[v] = buf[v] /\ Key(v)' = Key(v) /\ op'[v] = op[v]
    BY <1>1 DEF BeginPair, Rewriting, Key
  <2>3. \A x \in Sites, t \in {"token", "hmac"} :
           acked'[x] = "removed" =>
              \/ acked[x] = "removed"
              \/ \E v \in Writers : /\ KeychainErased(v, t)
                                   /\ FileErased(v, t) /\ site[v] = x
    BY <1>1 DEF BeginPair, KeychainErased, FileErased, SavePoints
  <2>4. \A v \in Writers, t \in {"token", "hmac"} :
           /\ KeychainErased(v, t)' => KeychainErased(v, t) /\ site'[v] = site[v]
           /\ FileErased(v, t)' => FileErased(v, t) /\ site'[v] = site[v]
    BY <1>1 DEF BeginPair,
           KeychainErased, FileErased, FilePoints, SavePoints
  <2> QED BY <2>1, <2>2, <2>3, <2>4, GoneFrame
<1>2. ASSUME NEW w \in Writers, NEW s \in Sites, BeginRemove(w, s)
     PROVE  GoneInv'
  <2>1. keychain' = keychain /\ tokFile' = tokFile /\ (Clean' => Clean)
    BY <1>2 DEF BeginRemove, Clean, Spared
  <2>2. \A v \in Writers : Rewriting(v)' =>
           Rewriting(v) /\ buf'[v] = buf[v] /\ Key(v)' = Key(v) /\ op'[v] = op[v]
    BY <1>2 DEF BeginRemove, Rewriting, Key
  <2>3. \A x \in Sites, t \in {"token", "hmac"} :
           acked'[x] = "removed" =>
              \/ acked[x] = "removed"
              \/ \E v \in Writers : /\ KeychainErased(v, t)
                                   /\ FileErased(v, t) /\ site[v] = x
    BY <1>2 DEF BeginRemove, KeychainErased, FileErased, SavePoints
  <2>4. \A v \in Writers, t \in {"token", "hmac"} :
           /\ KeychainErased(v, t)' => KeychainErased(v, t) /\ site'[v] = site[v]
           /\ FileErased(v, t)' => FileErased(v, t) /\ site'[v] = site[v]
    BY <1>2 DEF BeginRemove,
           KeychainErased, FileErased, FilePoints, SavePoints
  <2> QED BY <2>1, <2>2, <2>3, <2>4, GoneFrame
<1>3. ASSUME NEW w \in Writers, Lock(w) PROVE GoneInv'
  <2>1. keychain' = keychain /\ tokFile' = tokFile /\ (Clean' => Clean)
    BY <1>3 DEF Lock, Clean, Spared
  <2>2. \A v \in Writers : Rewriting(v)' =>
           Rewriting(v) /\ buf'[v] = buf[v] /\ Key(v)' = Key(v) /\ op'[v] = op[v]
    BY <1>3 DEF Lock, Rewriting, Key
  <2>3. \A x \in Sites, t \in {"token", "hmac"} :
           acked'[x] = "removed" =>
              \/ acked[x] = "removed"
              \/ \E v \in Writers : /\ KeychainErased(v, t)
                                   /\ FileErased(v, t) /\ site[v] = x
    BY <1>3 DEF Lock, KeychainErased, FileErased, SavePoints
  <2>4. \A v \in Writers, t \in {"token", "hmac"} :
           /\ KeychainErased(v, t)' => KeychainErased(v, t) /\ site'[v] = site[v]
           /\ FileErased(v, t)' => FileErased(v, t) /\ site'[v] = site[v]
    BY <1>3 DEF Lock,
           KeychainErased, FileErased, FilePoints, SavePoints
  <2> QED BY <2>1, <2>2, <2>3, <2>4, GoneFrame
<1>4. ASSUME NEW w \in Writers, StoreKeychain(w) PROVE GoneInv'
  <2> SUFFICES ASSUME Clean' PROVE GoneInv'
    BY DEF GoneInv
  <2>1. Clean /\ op[w] = "pair" /\ site[w] \in Sites /\ UNCHANGED <<op, site, acked>>
    BY <1>4 DEF StoreKeychain, Clean, Spared, RemovalInv
  <2>2. \A v \in Writers : v = w
    BY DEF OneWriter
  <2>3. \A s \in Sites, t \in {"token", "hmac"} : Free(t, s) => Free(t, s)'
    <3>1. tokFile' = tokFile /\ ~Rewriting(w)'
      BY <1>4, <2>1 DEF StoreKeychain, Stored, Rewriting
    <3> QED BY <2>2, <3>1 DEF Free
  <2>4. \A s \in Sites : acked[s] = "removed" => s # site[w]
    BY <1>4, <2>1 DEF RemovalInv, StoreKeychain
  <2>5. \A s \in Sites, t \in {"token", "hmac"} :
          acked[s] = "removed" => Absent(t, s)'
    BY <1>4, <2>1, <2>4, StoreAbsent DEF GoneInv
  <2>6. \A s \in Sites, t \in {"token", "hmac"} :
          acked'[s] = "removed" => Absent(t, s)' /\ Free(t, s)'
    BY <2>1, <2>3, <2>5 DEF GoneInv
  <2>7. \A v \in Writers : op'[v] # "remove"
    BY <2>1, <2>2
  <2> QED BY <2>6, <2>7 DEF GoneInv, KeychainErased, FileErased
<1>5. ASSUME NEW w \in Writers, LoadTokens(w) PROVE GoneInv'
  <2> SUFFICES ASSUME Clean' PROVE GoneInv'
    BY DEF GoneInv
  <2>1. Clean /\ site[w] \in Sites /\ UNCHANGED <<op, site, acked, keychain>>
    BY <1>5 DEF LoadTokens, Clean, Spared
  <2>2. \A v \in Writers : v = w
    BY DEF OneWriter
  <2>3. \A s, t : Absent(t, s) => Absent(t, s)'
    BY <2>1 DEF Absent
  <2>4. \A s \in Sites : acked[s] = "removed" => s # site[w] \/ op[w] = "remove"
    BY <1>5 DEF RemovalInv, LoadTokens
  <2>5. \A s \in Sites, t \in {"token", "hmac"} :
          acked[s] = "removed" => Free(t, s)'
    BY <1>5, <2>1, <2>4, LoadFree DEF GoneInv
  <2>6. \A s \in Sites, t \in {"token", "hmac"} :
          acked'[s] = "removed" => Absent(t, s)' /\ Free(t, s)'
    BY <2>1, <2>3, <2>5 DEF GoneInv
  <2>7. op'[w] = "remove" /\ Rewriting(w)' => buf'[w][Key(w)'] = 0
    <3>1. op[w] = "remove" /\ Rewriting(w)' => buf'[w][Key(w)] = 0
      BY <1>5, <2>1, LoadFree
    <3>2. Rewriting(w)' => Key(w)' = Key(w)
      BY <1>5 DEF LoadTokens, Key, Rewriting, Stored
    <3> QED BY <2>1, <3>1, <3>2
  <2>8. \A t \in {"token", "hmac"} : KeychainErased(w, t)' => Absent(t, site[w])'
    <3>1. \A t \in {"token", "hmac"} : KeychainErased(w, t)' => KeychainErased(w, t)
      BY <1>5 DEF LoadTokens, KeychainErased, FilePoints
    <3> QED BY <2>1, <3>1 DEF GoneInv, Absent
  <2>9. ASSUME NEW t \in {"token", "hmac"}, FileErased(w, t)'
        PROVE  Free(t, site[w])'
    <3>1. PICK u \in Sites : u = site[w]
      BY <2>1
    <3>2. op[w] = "remove" /\ (FileErased(w, t) \/ (t = kind[w] /\ ~Rewriting(w)'))
      <4>1. op[w] = "remove" /\ pc[w] = "load"
        BY <1>5, <2>1, <2>9 DEF LoadTokens, FileErased
      <4>2. CASE Stored(w)
        BY <2>9, <4>1, <4>2 DEF Stored, FileErased, FilePoints, SavePoints,
                                Rewriting
      <4>3. CASE GoTo(w, "truncate") /\ kind' = kind
        BY <2>9, <4>1, <4>3 DEF FileErased, FilePoints, SavePoints
      <4>4. Stored(w) \/ (GoTo(w, "truncate") /\ kind' = kind)
        BY <1>5 DEF LoadTokens
      <4> QED BY <4>2, <4>3, <4>4
    <3>3. Free(t, u)'
      BY <1>5, <2>1, <3>1, <3>2, LoadFree DEF GoneInv
    <3> QED BY <2>1, <3>1, <3>3 DEF Free
  <2> QED BY <2>2, <2>6, <2>7, <2>8, <2>9 DEF GoneInv
<1>6. ASSUME NEW w \in Writers, TruncateTokens(w) PROVE GoneInv'
  <2> SUFFICES ASSUME Clean' PROVE GoneInv'
    BY DEF GoneInv
  <2>1. Clean /\ site[w] \in Sites
        /\ UNCHANGED <<op, site, kind, buf, acked, keychain>>
    BY <1>6 DEF TruncateTokens, Clean, Spared
  <2>2. \A v \in Writers : v = w
    BY DEF OneWriter
  <2>3. \A s, t : Absent(t, s) => Absent(t, s)'
    BY <2>1 DEF Absent
  <2>4. \A s \in Sites, t \in {"token", "hmac"} : Free(t, s) => Free(t, s)'
    BY <1>6, TruncateFree
  <2>5. Rewriting(w) /\ buf'[w] = buf[w] /\ Key(w)' = Key(w)
    BY <1>6, <2>1 DEF TruncateTokens, Rewriting, Key
  <2>6. \A t \in {"token", "hmac"} :
          /\ KeychainErased(w, t)' => KeychainErased(w, t)
          /\ FileErased(w, t)' => FileErased(w, t)
    BY <1>6 DEF TruncateTokens, KeychainErased, FileErased, FilePoints, SavePoints
  <2>7. PICK u \in Sites : u = site[w]
    BY <2>1
  <2>8. \A t \in {"token", "hmac"} :
          /\ KeychainErased(w, t)' => Absent(t, u)'
          /\ FileErased(w, t)' => Free(t, u)'
    BY <2>1, <2>3, <2>4, <2>6, <2>7 DEF GoneInv
  <2>9. \A t \in {"token", "hmac"} :
          /\ KeychainErased(w, t)' => Absent(t, site[w])'
          /\ FileErased(w, t)' => Free(t, site[w])'
    BY <2>1, <2>7, <2>8 DEF Absent, Free
  <2>10. op'[w] = "remove" /\ Rewriting(w)' => buf'[w][Key(w)'] = 0
    BY <2>1, <2>5 DEF GoneInv
  <2>11. \A s \in Sites, t \in {"token", "hmac"} :
          acked'[s] = "removed" => Absent(t, s)' /\ Free(t, s)'
    BY <2>1, <2>3, <2>4 DEF GoneInv
  <2> QED BY <2>2, <2>9, <2>10, <2>11 DEF GoneInv
<1>7. ASSUME NEW w \in Writers, WriteTokens(w) PROVE GoneInv'
  <2> SUFFICES ASSUME Clean' PROVE GoneInv'
    BY DEF GoneInv
  <2>1. Clean /\ site[w] \in Sites /\ UNCHANGED <<op, site, acked, keychain>>
    BY <1>7 DEF WriteTokens, Clean, Spared
  <2>2. \A v \in Writers : v = w
    BY DEF OneWriter
  <2>3. \A s, t : Absent(t, s) => Absent(t, s)'
    BY <2>1 DEF Absent
  <2>4. Rewriting(w) /\ ~Rewriting(w)'
    BY <1>7 DEF WriteTokens, Stored, Rewriting
  <2>5. \A s \in Sites, t \in {"token", "hmac"} : Free(t, s) => Free(t, s)'
    BY <1>7, <2>4, WriteFree DEF Free
  <2>6. \A t \in {"token", "hmac"} : KeychainErased(w, t)' => KeychainErased(w, t)
    BY <1>7 DEF WriteTokens, KeychainErased, FilePoints
  <2>7. \A t \in {"token", "hmac"} :
          FileErased(w, t)' => op[w] = "remove" /\ (FileErased(w, t) \/ t = kind[w])
    BY <1>7 DEF WriteTokens, Stored, FileErased, FilePoints, SavePoints
  <2>8. PICK u \in Sites : u = site[w]
    BY <2>1
  <2>9. \A t \in {"token", "hmac"} :
          op[w] = "remove" /\ t = kind[w] => Free(t, u)'
    <3>1. \A t \in {"token", "hmac"} : buf[w][<<t, u>>] = 0 => Free(t, u)'
      BY <1>7, WriteFree
    <3>2. op[w] = "remove" => buf[w][<<kind[w], u>>] = 0
      BY <2>1, <2>4, <2>8 DEF GoneInv, Key
    <3> QED BY <3>1, <3>2
  <2>10. \A t \in {"token", "hmac"} :
          /\ KeychainErased(w, t)' => Absent(t, u)'
          /\ FileErased(w, t)' => Free(t, u)'
    <3>1. \A t \in {"token", "hmac"} : FileErased(w, t) => Free(t, u)'
      BY <2>1, <2>5, <2>8 DEF GoneInv
    <3>2. \A t \in {"token", "hmac"} : KeychainErased(w, t)' => Absent(t, u)'
      BY <2>1, <2>3, <2>6, <2>8 DEF GoneInv
    <3>3. \A t \in {"token", "hmac"} :
            FileErased(w, t)' /\ t = kind[w] => Free(t, u)'
      BY <2>7, <2>9
    <3> QED BY <2>7, <3>1, <3>2, <3>3
  <2>11. \A t \in {"token", "hmac"} :
          /\ KeychainErased(w, t)' => Absent(t, site[w])'
          /\ FileErased(w, t)' => Free(t, site[w])'
    BY <2>1, <2>8, <2>10 DEF Absent, Free
  <2>12. \A s \in Sites, t \in {"token", "hmac"} :
          acked'[s] = "removed" => Absent(t, s)' /\ Free(t, s)'
    BY <2>1, <2>3, <2>5 DEF GoneInv
  <2> QED BY <2>2, <2>4, <2>11, <2>12 DEF GoneInv
<1>8. ASSUME NEW w \in Writers, TokensFail(w) PROVE GoneInv'
  BY <1>8 DEF TokensFail, TokensBroken, GoneInv, Clean, Spared
<1>9. ASSUME NEW w \in Writers, Forget(w) PROVE GoneInv'
  <2>1. keychain' = keychain /\ tokFile' = tokFile /\ (Clean' => Clean)
    BY <1>9 DEF Forget, Clean, Spared
  <2>2. \A v \in Writers : Rewriting(v)' =>
           Rewriting(v) /\ buf'[v] = buf[v] /\ Key(v)' = Key(v) /\ op'[v] = op[v]
    BY <1>9 DEF Forget, Rewriting, Key
  <2>3. \A x \in Sites, t \in {"token", "hmac"} :
           acked'[x] = "removed" =>
              \/ acked[x] = "removed"
              \/ \E v \in Writers : /\ KeychainErased(v, t)
                                   /\ FileErased(v, t) /\ site[v] = x
    BY <1>9 DEF Forget, KeychainErased, FileErased, SavePoints
  <2>4. \A v \in Writers, t \in {"token", "hmac"} :
           /\ KeychainErased(v, t)' => KeychainErased(v, t) /\ site'[v] = site[v]
           /\ FileErased(v, t)' => FileErased(v, t) /\ site'[v] = site[v]
    BY <1>9 DEF Forget,
           KeychainErased, FileErased, FilePoints, SavePoints, RemovalInv
  <2> QED BY <2>1, <2>2, <2>3, <2>4, GoneFrame
<1>10. ASSUME NEW w \in Writers, EraseKeychain(w) PROVE GoneInv'
  <2> SUFFICES ASSUME Clean' PROVE GoneInv'
    BY DEF GoneInv
  <2>1. Clean /\ site[w] \in Sites /\ UNCHANGED <<op, site, acked, tokFile, buf>>
    BY <1>10 DEF EraseKeychain, Erase, Clean, Spared
  <2>2. \A v \in Writers : v = w
    BY DEF OneWriter
  <2>3. ~Rewriting(w)' /\ pc[w] = "erase"
    BY <1>10 DEF EraseKeychain, Erase, EraseNext, Rewriting
  <2>4. \A s \in Sites, t \in {"token", "hmac"} : Free(t, s) => Free(t, s)'
    BY <2>1, <2>2, <2>3 DEF Free
  <2>5. \A s \in Sites, t \in {"token", "hmac"} :
          Absent(t, s) \/ <<t, s>> = Key(w) => Absent(t, s)'
    BY <1>10, <2>1, EraseAbsent
  <2>6. \A s \in Sites, t \in {"token", "hmac"} :
          acked'[s] = "removed" => Absent(t, s)' /\ Free(t, s)'
    BY <2>1, <2>4, <2>5 DEF GoneInv
  <2>7. \A t \in {"token", "hmac"} : ~FileErased(w, t)'
    BY <1>10 DEF EraseKeychain, Erase, EraseNext, FileErased, FilePoints, SavePoints
  <2>8. ASSUME NEW t \in {"token", "hmac"}, KeychainErased(w, t)'
        PROVE  Absent(t, site[w])'
    <3>1. PICK u \in Sites : u = site[w]
      BY <2>1
    <3>2. t = kind[w] \/ KeychainErased(w, t)
      BY <1>10, <2>8 DEF EraseKeychain, Erase, EraseNext, KeychainErased,
                       FilePoints, SavePoints
    <3>3. Absent(t, u) \/ <<t, u>> = Key(w)
      BY <2>1, <3>1, <3>2 DEF GoneInv, Key
    <3>4. Absent(t, u)'
      BY <2>5, <3>3
    <3> QED BY <2>1, <3>1, <3>4 DEF Absent
  <2> QED BY <2>2, <2>3, <2>6, <2>7, <2>8 DEF GoneInv
<1>11. ASSUME NEW w \in Writers, Register(w) PROVE GoneInv'
  <2>1. keychain' = keychain /\ tokFile' = tokFile /\ (Clean' => Clean)
    BY <1>11 DEF Register, Clean, Spared
  <2>2. \A v \in Writers : Rewriting(v)' =>
           Rewriting(v) /\ buf'[v] = buf[v] /\ Key(v)' = Key(v) /\ op'[v] = op[v]
    BY <1>11 DEF Register, Rewriting, Key
  <2>3. \A x \in Sites, t \in {"token", "hmac"} :
           acked'[x] = "removed" =>
              \/ acked[x] = "removed"
              \/ \E v \in Writers : /\ KeychainErased(v, t)
                                   /\ FileErased(v, t) /\ site[v] = x
    BY <1>11 DEF Register, KeychainErased, FileErased, SavePoints
  <2>4. \A v \in Writers, t \in {"token", "hmac"} :
           /\ KeychainErased(v, t)' => KeychainErased(v, t) /\ site'[v] = site[v]
           /\ FileErased(v, t)' => FileErased(v, t) /\ site'[v] = site[v]
    BY <1>11 DEF Register,
           KeychainErased, FileErased, FilePoints, SavePoints, RemovalInv
  <2> QED BY <2>1, <2>2, <2>3, <2>4, GoneFrame
<1>12. ASSUME NEW w \in Writers, SaveTruncate(w) PROVE GoneInv'
  <2>1. keychain' = keychain /\ tokFile' = tokFile /\ (Clean' => Clean)
    BY <1>12 DEF SaveTruncate, Clean, Spared
  <2>2. \A v \in Writers : Rewriting(v)' =>
           Rewriting(v) /\ buf'[v] = buf[v] /\ Key(v)' = Key(v) /\ op'[v] = op[v]
    BY <1>12 DEF SaveTruncate, Rewriting, Key
  <2>3. \A x \in Sites, t \in {"token", "hmac"} :
           acked'[x] = "removed" =>
              \/ acked[x] = "removed"
              \/ \E v \in Writers : /\ KeychainErased(v, t)
                                   /\ FileErased(v, t) /\ site[v] = x
    BY <1>12 DEF SaveTruncate, KeychainErased, FileErased, SavePoints
  <2>4. \A v \in Writers, t \in {"token", "hmac"} :
           /\ KeychainErased(v, t)' => KeychainErased(v, t) /\ site'[v] = site[v]
           /\ FileErased(v, t)' => FileErased(v, t) /\ site'[v] = site[v]
    BY <1>12 DEF SaveTruncate,
           KeychainErased, FileErased, FilePoints, SavePoints
  <2> QED BY <2>1, <2>2, <2>3, <2>4, GoneFrame
<1>13. ASSUME NEW w \in Writers, SaveWrite(w) PROVE GoneInv'
  <2>1. keychain' = keychain /\ tokFile' = tokFile /\ (Clean' => Clean)
    BY <1>13 DEF SaveWrite, Clean, Spared
  <2>2. \A v \in Writers : Rewriting(v)' =>
           Rewriting(v) /\ buf'[v] = buf[v] /\ Key(v)' = Key(v) /\ op'[v] = op[v]
    BY <1>13 DEF SaveWrite, Rewriting, Key
  <2>3. \A x \in Sites, t \in {"token", "hmac"} :
           acked'[x] = "removed" =>
              \/ acked[x] = "removed"
              \/ \E v \in Writers : /\ KeychainErased(v, t)
                                   /\ FileErased(v, t) /\ site[v] = x
    BY <1>13 DEF SaveWrite, KeychainErased, FileErased, SavePoints
  <2>4. \A v \in Writers, t \in {"token", "hmac"} :
           /\ KeychainErased(v, t)' => KeychainErased(v, t) /\ site'[v] = site[v]
           /\ FileErased(v, t)' => FileErased(v, t) /\ site'[v] = site[v]
    BY <1>13 DEF SaveWrite,
           KeychainErased, FileErased, FilePoints, SavePoints
  <2> QED BY <2>1, <2>2, <2>3, <2>4, GoneFrame
<1>14. ASSUME NEW w \in Writers, SaveFail(w) PROVE GoneInv'
  <2>1. keychain' = keychain /\ tokFile' = tokFile /\ (Clean' => Clean)
    BY <1>14 DEF SaveFail, Reset, Clean, Spared
  <2>2. \A v \in Writers : Rewriting(v)' =>
           Rewriting(v) /\ buf'[v] = buf[v] /\ Key(v)' = Key(v) /\ op'[v] = op[v]
    BY <1>14 DEF SaveFail, Reset, Rewriting, Key
  <2>3. \A x \in Sites, t \in {"token", "hmac"} :
           acked'[x] = "removed" =>
              \/ acked[x] = "removed"
              \/ \E v \in Writers : /\ KeychainErased(v, t)
                                   /\ FileErased(v, t) /\ site[v] = x
    BY <1>14 DEF SaveFail, Reset, KeychainErased, FileErased, SavePoints
  <2>4. \A v \in Writers, t \in {"token", "hmac"} :
           /\ KeychainErased(v, t)' => KeychainErased(v, t) /\ site'[v] = site[v]
           /\ FileErased(v, t)' => FileErased(v, t) /\ site'[v] = site[v]
    BY <1>14 DEF SaveFail, Reset,
           KeychainErased, FileErased, FilePoints, SavePoints
  <2> QED BY <2>1, <2>2, <2>3, <2>4, GoneFrame
<1>15. ASSUME NEW w \in Writers, Ack(w) PROVE GoneInv'
  <2>1. keychain' = keychain /\ tokFile' = tokFile /\ (Clean' => Clean)
    BY <1>15 DEF Ack, Reset, Clean, Spared
  <2>2. \A v \in Writers : Rewriting(v)' =>
           Rewriting(v) /\ buf'[v] = buf[v] /\ Key(v)' = Key(v) /\ op'[v] = op[v]
    BY <1>15 DEF Ack, Reset, Rewriting, Key
  <2>3. \A x \in Sites, t \in {"token", "hmac"} :
           acked'[x] = "removed" =>
              \/ acked[x] = "removed"
              \/ \E v \in Writers : /\ KeychainErased(v, t)
                                   /\ FileErased(v, t) /\ site[v] = x
    BY <1>15 DEF Ack, Reset, KeychainErased, FileErased, SavePoints
  <2>4. \A v \in Writers, t \in {"token", "hmac"} :
           /\ KeychainErased(v, t)' => KeychainErased(v, t) /\ site'[v] = site[v]
           /\ FileErased(v, t)' => FileErased(v, t) /\ site'[v] = site[v]
    BY <1>15 DEF Ack, Reset,
           KeychainErased, FileErased, FilePoints, SavePoints
  <2> QED BY <2>1, <2>2, <2>3, <2>4, GoneFrame
<1>16. CASE Restart
  <2>1. keychain' = keychain /\ tokFile' = tokFile /\ (Clean' => Clean)
    BY <1>16 DEF Restart, Reset, Clean, Spared
  <2>2. \A v \in Writers : Rewriting(v)' =>
           Rewriting(v) /\ buf'[v] = buf[v] /\ Key(v)' = Key(v) /\ op'[v] = op[v]
    BY <1>16 DEF Restart, Reset, Rewriting, Key
  <2>3. \A x \in Sites, t \in {"token", "hmac"} :
           acked'[x] = "removed" =>
              \/ acked[x] = "removed"
              \/ \E v \in Writers : /\ KeychainErased(v, t)
                                   /\ FileErased(v, t) /\ site[v] = x
    BY <1>16 DEF Restart, Reset, KeychainErased, FileErased, SavePoints
  <2>4. \A v \in Writers, t \in {"token", "hmac"} :
           /\ KeychainErased(v, t)' => KeychainErased(v, t) /\ site'[v] = site[v]
           /\ FileErased(v, t)' => FileErased(v, t) /\ site'[v] = site[v]
    BY <1>16 DEF Restart, Reset,
           KeychainErased, FileErased, FilePoints, SavePoints
  <2> QED BY <2>1, <2>2, <2>3, <2>4, GoneFrame
<1>17. CASE Keychain
  <2>1. keychain' = keychain /\ tokFile' = tokFile /\ (Clean' => Clean)
    BY <1>17 DEF Keychain, Clean, Spared
  <2>2. \A v \in Writers : Rewriting(v)' =>
           Rewriting(v) /\ buf'[v] = buf[v] /\ Key(v)' = Key(v) /\ op'[v] = op[v]
    BY <1>17 DEF Keychain, Rewriting, Key
  <2>3. \A x \in Sites, t \in {"token", "hmac"} :
           acked'[x] = "removed" =>
              \/ acked[x] = "removed"
              \/ \E v \in Writers : /\ KeychainErased(v, t)
                                   /\ FileErased(v, t) /\ site[v] = x
    BY <1>17 DEF Keychain, KeychainErased, FileErased, SavePoints
  <2>4. \A v \in Writers, t \in {"token", "hmac"} :
           /\ KeychainErased(v, t)' => KeychainErased(v, t) /\ site'[v] = site[v]
           /\ FileErased(v, t)' => FileErased(v, t) /\ site'[v] = site[v]
    BY <1>17 DEF Keychain,
           KeychainErased, FileErased, FilePoints, SavePoints
  <2> QED BY <2>1, <2>2, <2>3, <2>4, GoneFrame
<1>18. CASE UNCHANGED vars
  <2>1. keychain' = keychain /\ tokFile' = tokFile /\ (Clean' => Clean)
    BY <1>18 DEF vars, Clean, Spared
  <2>2. \A v \in Writers : Rewriting(v)' =>
           Rewriting(v) /\ buf'[v] = buf[v] /\ Key(v)' = Key(v) /\ op'[v] = op[v]
    BY <1>18 DEF vars, Rewriting, Key
  <2>3. \A x \in Sites, t \in {"token", "hmac"} :
           acked'[x] = "removed" =>
              \/ acked[x] = "removed"
              \/ \E v \in Writers : /\ KeychainErased(v, t)
                                   /\ FileErased(v, t) /\ site[v] = x
    BY <1>18 DEF vars, KeychainErased, FileErased, SavePoints
  <2>4. \A v \in Writers, t \in {"token", "hmac"} :
           /\ KeychainErased(v, t)' => KeychainErased(v, t) /\ site'[v] = site[v]
           /\ FileErased(v, t)' => FileErased(v, t) /\ site'[v] = site[v]
    BY <1>18 DEF vars,
           KeychainErased, FileErased, FilePoints, SavePoints
  <2> QED BY <2>1, <2>2, <2>3, <2>4, GoneFrame
<1> HIDE DEF TypeOK, Placed
<1> QED
  BY <1>1, <1>2, <1>3, <1>4, <1>5, <1>6, <1>7, <1>8, <1>9,
     <1>10, <1>11, <1>12, <1>13, <1>14, <1>15, <1>16, <1>17, <1>18
     DEF Next, Step

(* What RemoveSite removed stays gone, from the memory, the metadata, the
   keychain and the token file, until a pairing brings the site back: for one
   writer at a time, whether the keychain answers, comes or goes, whatever
   else fails and whenever the process stops.                              *)
THEOREM RemovedStaysGone ==
    ASSUME OneWriter PROVE Spec => []RemovedIsGone
<1> DEFINE Inv == TypeOK /\ Placed /\ RemovalInv /\ GoneInv
<1>1. Init => Inv
  <2>1. Init => RemovalInv
    BY DEF Init, NoWriters, RemovalInv, ErasedFrom
  <2>2. Init => GoneInv
    BY DEF Init, NoWriters, GoneInv, KeychainErased, FileErased, Rewriting
  <2> QED BY <2>1, <2>2, TypeInit
<1>2. Inv /\ [Next]_vars => Inv'
  BY TypeStep, PlacedStep, RemovalStep, GoneStep
<1>3. Inv => RemovedIsGone
  BY DEF RemovedIsGone, RemovalInv, GoneInv, Clean, Absent, Free
<1> QED BY <1>1, <1>2, <1>3, PTL DEF Spec
-----------------------------------------------------------------------------
(* The mutex, for any number of writers: AddSite and RemoveSite hold it from
   their Lock to the end of save; SetHMACSecret does not take it.          *)
Saving(w) == pc[w] \in {"saveTruncate", "saveWrite"}
Storing(w) == pc[w] \in {"keychain", "load", "truncate", "write"}
Locked(w) ==
    \/ pc[w] \in {"forget", "erase", "register"} \/ Saving(w)
    \/ Storing(w) /\ (op[w] = "remove" \/ kind[w] = "token")

MutexInv ==
    /\ \A w \in Writers :
         /\ Locked(w) <=> mu = w
         /\ pc[w] \in {"idle", "lock", "forget"} => kind[w] = "token"
         /\ op[w] = "pair" /\ (Saving(w) \/ pc[w] = "register") => kind[w] = "token"
         /\ pc[w] \in {"keychain", "register"} => op[w] = "pair"
         /\ pc[w] \in {"forget", "erase"} => op[w] = "remove"
         /\ pc[w] = "idle" => op[w] = "pair"
         /\ pc[w] = "saveWrite" => meta = Truncated

(* The metadata are written into the file that the same call has emptied, and
   no other call is in save then. (save)                                   *)
SavedAlone ==
    \A w \in Writers : pc[w] = "saveWrite" =>
        /\ meta = Truncated
        /\ \A v \in Writers \ {w} : ~Saving(v) /\ pc[v] # "register"

(* Every step keeps the mutex with the one writer that is inside.
   (AddSite, RemoveSite, SetHMACSecret)                                    *)
LEMMA MutexStep ==
    TypeOK /\ Placed /\ MutexInv /\ [Next]_vars => MutexInv'
<1> SUFFICES ASSUME TypeOK, Placed, MutexInv, [Next]_vars
             PROVE  MutexInv'
  OBVIOUS
<1> USE KeystoreAssumption DEF TypeOK, Placed, MutexInv, Locked, Saving, Storing, GoTo, writerVars,
           memVars, diskVars, envVars, valueVars, histVars
<1>1. ASSUME NEW w \in Writers, NEW s \in Sites, NEW legacy \in BOOLEAN,
            BeginPair(w, s, legacy)
     PROVE  MutexInv'
  BY <1>1 DEF BeginPair
<1>2. ASSUME NEW w \in Writers, NEW s \in Sites, BeginRemove(w, s)
     PROVE  MutexInv'
  BY <1>2 DEF BeginRemove
<1>3. ASSUME NEW w \in Writers, Lock(w) PROVE MutexInv'
  BY <1>3 DEF Lock
<1>4. ASSUME NEW w \in Writers, StoreKeychain(w) PROVE MutexInv'
  BY <1>4 DEF StoreKeychain, Stored, Reset
<1>5. ASSUME NEW w \in Writers, LoadTokens(w) PROVE MutexInv'
  BY <1>5 DEF LoadTokens, Stored, Reset
<1>6. ASSUME NEW w \in Writers, TruncateTokens(w) PROVE MutexInv'
  BY <1>6 DEF TruncateTokens
<1>7. ASSUME NEW w \in Writers, WriteTokens(w) PROVE MutexInv'
  BY <1>7 DEF WriteTokens, Stored, Reset
<1>8. ASSUME NEW w \in Writers, TokensFail(w) PROVE MutexInv'
  BY <1>8 DEF TokensFail, TokensBroken, Stored, Reset
<1>9. ASSUME NEW w \in Writers, Forget(w) PROVE MutexInv'
  BY <1>9 DEF Forget
<1>10. ASSUME NEW w \in Writers, EraseKeychain(w) PROVE MutexInv'
  BY <1>10 DEF EraseKeychain, Erase, EraseNext
<1>11. ASSUME NEW w \in Writers, Register(w) PROVE MutexInv'
  BY <1>11 DEF Register
<1>12. ASSUME NEW w \in Writers, SaveTruncate(w) PROVE MutexInv'
  BY <1>12 DEF SaveTruncate
<1>13. ASSUME NEW w \in Writers, SaveWrite(w) PROVE MutexInv'
  BY <1>13 DEF SaveWrite
<1>14. ASSUME NEW w \in Writers, SaveFail(w) PROVE MutexInv'
  BY <1>14 DEF SaveFail, Reset
<1>15. ASSUME NEW w \in Writers, Ack(w) PROVE MutexInv'
  BY <1>15 DEF Ack, Reset
<1>16. CASE Restart
  BY <1>16 DEF Restart, Reset
<1>17. CASE Keychain
  BY <1>17 DEF Keychain
<1>18. CASE UNCHANGED vars
  BY <1>18 DEF vars
<1> QED
  BY <1>1, <1>2, <1>3, <1>4, <1>5, <1>6, <1>7, <1>8, <1>9,
     <1>10, <1>11, <1>12, <1>13, <1>14, <1>15, <1>16, <1>17, <1>18
     DEF Next, Step

(* For any number of writers, with all failures, stops and restarts, calls of
   save never overlap, so that paired_sites.json is never a mixture of two
   lists; the token file, which SetHMACSecret writes without the mutex, may
   be one. (AddSite, RemoveSite, save)                                     *)
THEOREM SavesNeverOverlap == Spec => []SavedAlone
<1> DEFINE Inv == TypeOK /\ Placed /\ MutexInv
<1>1. Init => Inv
  <2>1. Init => MutexInv
    BY KeystoreAssumption DEF Init, NoWriters, MutexInv, Locked, Saving, Storing
  <2> QED BY <2>1, TypeInit
<1>2. Inv /\ [Next]_vars => Inv'
  BY TypeStep, PlacedStep, MutexStep
<1>3. Inv => SavedAlone
  BY DEF MutexInv, SavedAlone, Locked, Saving
<1> QED BY <1>1, <1>2, <1>3, PTL DEF Spec
=============================================================================

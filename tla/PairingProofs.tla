---------------------------- MODULE PairingProofs ----------------------------
(***************************************************************************)
(* Theorems about Pairing, for any number of attempts and bridges.         *)
(***************************************************************************)
EXTENDS Pairing, TLAPS

(* An attempt begun has a bridge and a code, its request goes to the site
   once its user has agreed, and a handler runs on a bridge that runs.     *)
Placed == \A a \in Attempts :
    /\ pc[a] # "idle" => on[a] \in Bridges /\ code[a] \in Attempts
    /\ pc[a] \in {"idle", "dialog"} => wk[a] = "none"
    /\ pc[a] \in {"dialog", "contact", "store", "save", "write", "secret"} =>
           on[a] \in running

(* Types are preserved. *)
LEMMA TypeStep ==
    ASSUME TypeOK, Placed, [Next]_vars
    PROVE  TypeOK' /\ Placed'
<1> USE DEF TypeOK, Placed, Secrets, vars, attemptVars, workerVars, siteVars,
        bridgeVars, histVars
<1>1. ASSUME NEW a \in Attempts, NEW b \in Bridges, Ask(a, b)
      PROVE  TypeOK' /\ Placed'
  BY <1>1 DEF Ask, Reads, Admitted, CorsAllowed
<1>2. ASSUME NEW old \in Attempts, NEW a \in Attempts, Resend(old, a)
      PROVE  TypeOK' /\ Placed'
  BY <1>2 DEF Resend
<1>3. ASSUME NEW a \in Attempts, FetchCerts(a) PROVE TypeOK' /\ Placed'
  BY <1>3 DEF FetchCerts
<1>4. ASSUME NEW a \in Attempts, FetchFails(a) PROVE TypeOK' /\ Placed'
  BY <1>4 DEF FetchFails
<1>5. ASSUME NEW a \in Attempts, Deny(a) PROVE TypeOK' /\ Placed'
  BY <1>5 DEF Deny
<1>6. ASSUME NEW a \in Attempts, Consent(a) PROVE TypeOK' /\ Placed'
  BY <1>6 DEF Consent
<1>7. ASSUME NEW a \in Attempts, ReceiveError(a) PROVE TypeOK' /\ Placed'
  BY <1>7 DEF ReceiveError
<1>8. ASSUME NEW a \in Attempts, Receive(a) PROVE TypeOK' /\ Placed'
  BY <1>8 DEF Receive
<1>9. ASSUME NEW a \in Attempts, StoreToken(a) PROVE TypeOK' /\ Placed'
  BY <1>9 DEF StoreToken, Unlocked
<1>10. ASSUME NEW a \in Attempts, SaveTruncate(a) PROVE TypeOK' /\ Placed'
  BY <1>10 DEF SaveTruncate
<1>11. ASSUME NEW a \in Attempts, SaveWrite(a) PROVE TypeOK' /\ Placed'
  BY <1>11 DEF SaveWrite
<1>12. ASSUME NEW a \in Attempts, AddSiteFails(a) PROVE TypeOK' /\ Placed'
  BY <1>12 DEF AddSiteFails, Unlocked
<1>13. ASSUME NEW a \in Attempts, SetHMACSecret(a) PROVE TypeOK' /\ Placed'
  BY <1>13 DEF SetHMACSecret
<1>14. ASSUME NEW a \in Attempts, Arrive(a) PROVE TypeOK' /\ Placed'
  BY <1>14 DEF Arrive, Step
<1>15. ASSUME NEW a \in Attempts, ReadCode(a) PROVE TypeOK' /\ Placed'
  BY <1>15 DEF ReadCode, Step
<1>16. ASSUME NEW a \in Attempts, DeleteCode(a) PROVE TypeOK' /\ Placed'
  BY <1>16 DEF DeleteCode, Step
<1>17. ASSUME NEW a \in Attempts, Insert(a) PROVE TypeOK' /\ Placed'
  BY <1>17 DEF Insert, Step, Registration, Registrations
<1>18. ASSUME NEW a \in Attempts, LoadSettings(a) PROVE TypeOK' /\ Placed'
  BY <1>18 DEF LoadSettings, Step
<1>19. ASSUME NEW a \in Attempts, SaveSettings(a) PROVE TypeOK' /\ Placed'
  BY <1>19 DEF SaveSettings, Step
<1>20. ASSUME NEW a \in Attempts, SaveConflict(a) PROVE TypeOK' /\ Placed'
  BY <1>20 DEF SaveConflict, Step
<1>21. ASSUME NEW a \in Attempts, Disconnect(a) PROVE TypeOK' /\ Placed'
  BY <1>21 DEF Disconnect
<1>22. ASSUME NEW a \in Attempts, WorkerFails(a) PROVE TypeOK' /\ Placed'
  BY <1>22 DEF WorkerFails
<1>23. ASSUME NEW a \in Attempts, Expire(a) PROVE TypeOK' /\ Placed'
  BY <1>23 DEF Expire
<1>24. ASSUME NEW b \in Bridges, Stop(b) PROVE TypeOK' /\ Placed'
  BY <1>24 DEF Stop
<1>25. ASSUME NEW b \in Bridges, Start(b) PROVE TypeOK' /\ Placed'
  BY <1>25 DEF Start
<1>26. ASSUME EditSettings PROVE TypeOK' /\ Placed'
  BY <1>26 DEF EditSettings
<1>27. CASE UNCHANGED vars
  BY <1>27
<1> QED BY <1>1, <1>2, <1>3, <1>4, <1>5, <1>6, <1>7, <1>8, <1>9, <1>10,
    <1>11, <1>12, <1>13, <1>14, <1>15, <1>16, <1>17, <1>18, <1>19, <1>20,
    <1>21, <1>22, <1>23, <1>24, <1>25, <1>26, <1>27 DEF Next, HandlePair,
    validate_pairing_code

(* Every variable of Pairing has its type. *)
THEOREM TypeCorrect == Spec => []TypeOK
<1>1. Init => TypeOK /\ Placed
  BY PairingAssumption DEF Init, TypeOK, Placed
<1>2. TypeOK /\ Placed /\ [Next]_vars => TypeOK' /\ Placed'
  BY TypeStep
<1> QED BY <1>1, <1>2, PTL DEF Spec

(* Types and points are as they should be in every behaviour. (HandlePair) *)
LEMMA TypeAndPlace == Spec => [](TypeOK /\ Placed)
<1>1. Init => TypeOK /\ Placed
  BY PairingAssumption DEF Init, TypeOK, Placed
<1> QED BY <1>1, TypeStep, PTL DEF Spec
-----------------------------------------------------------------------------
(* A code is gone from the cache before its registration is committed, and a
   code comes from an attempt already begun, so that it never returns.     *)
CodeInv ==
    /\ \A r \in regs :
         /\ r.code \notin cache /\ pc[r.code] # "idle"
         /\ wk[r.token] \in {"load", "save", "reply", "error", "gone"}
    /\ \A a \in Attempts :
         /\ pc[a] # "idle" => pc[code[a]] # "idle"
         /\ wk[a] = "insert" => code[a] \notin cache
    /\ \A a \in late :
         /\ wk[a] \in {"read", "error", "gone"}
         /\ \E r \in regs : r.code = code[a]
    /\ LateUseRefused

(* CodeInv is preserved. *)
LEMMA CodeStep ==
    ASSUME TypeOK, Placed, CodeInv, [Next]_vars
    PROVE  CodeInv'
<1> USE PairingAssumption DEF TypeOK, Placed, CodeInv, LateUseRefused,
        Registrations, vars, attemptVars, workerVars, siteVars, bridgeVars, histVars
<1>1. ASSUME NEW a \in Attempts, NEW b \in Bridges, Ask(a, b) PROVE CodeInv'
  BY <1>1 DEF Ask, Reads, Admitted, CorsAllowed
<1>2. ASSUME NEW old \in Attempts, NEW a \in Attempts, Resend(old, a)
      PROVE  CodeInv'
  BY <1>2 DEF Resend
<1>3. ASSUME NEW a \in Attempts, FetchCerts(a) PROVE CodeInv'
  BY <1>3 DEF FetchCerts
<1>4. ASSUME NEW a \in Attempts, FetchFails(a) PROVE CodeInv'
  BY <1>4 DEF FetchFails
<1>5. ASSUME NEW a \in Attempts, Deny(a) PROVE CodeInv'
  BY <1>5 DEF Deny
<1>6. ASSUME NEW a \in Attempts, Consent(a) PROVE CodeInv'
  BY <1>6 DEF Consent
<1>7. ASSUME NEW a \in Attempts, ReceiveError(a) PROVE CodeInv'
  BY <1>7 DEF ReceiveError
<1>8. ASSUME NEW a \in Attempts, Receive(a) PROVE CodeInv'
  BY <1>8 DEF Receive
<1>9. ASSUME NEW a \in Attempts, StoreToken(a) PROVE CodeInv'
  BY <1>9 DEF StoreToken, Unlocked
<1>10. ASSUME NEW a \in Attempts, SaveTruncate(a) PROVE CodeInv'
  BY <1>10 DEF SaveTruncate
<1>11. ASSUME NEW a \in Attempts, SaveWrite(a) PROVE CodeInv'
  BY <1>11 DEF SaveWrite
<1>12. ASSUME NEW a \in Attempts, AddSiteFails(a) PROVE CodeInv'
  BY <1>12 DEF AddSiteFails, Unlocked
<1>13. ASSUME NEW a \in Attempts, SetHMACSecret(a) PROVE CodeInv'
  BY <1>13 DEF SetHMACSecret
<1>14. ASSUME NEW a \in Attempts, Arrive(a) PROVE CodeInv'
  BY <1>14 DEF Arrive, Step
<1>15. ASSUME NEW a \in Attempts, ReadCode(a) PROVE CodeInv'
  BY <1>15 DEF ReadCode, Step
<1>16. ASSUME NEW a \in Attempts, DeleteCode(a) PROVE CodeInv'
  BY <1>16 DEF DeleteCode, Step
<1>17. ASSUME NEW a \in Attempts, Insert(a) PROVE CodeInv'
  BY <1>17 DEF Insert, Step, Registration
<1>18. ASSUME NEW a \in Attempts, LoadSettings(a) PROVE CodeInv'
  BY <1>18 DEF LoadSettings, Step
<1>19. ASSUME NEW a \in Attempts, SaveSettings(a) PROVE CodeInv'
  BY <1>19 DEF SaveSettings, Step
<1>20. ASSUME NEW a \in Attempts, SaveConflict(a) PROVE CodeInv'
  BY <1>20 DEF SaveConflict, Step
<1>21. ASSUME NEW a \in Attempts, Disconnect(a) PROVE CodeInv'
  BY <1>21 DEF Disconnect
<1>22. ASSUME NEW a \in Attempts, WorkerFails(a) PROVE CodeInv'
  BY <1>22 DEF WorkerFails
<1>23. ASSUME NEW a \in Attempts, Expire(a) PROVE CodeInv'
  BY <1>23 DEF Expire
<1>24. ASSUME NEW b \in Bridges, Stop(b) PROVE CodeInv'
  BY <1>24 DEF Stop
<1>25. ASSUME NEW b \in Bridges, Start(b) PROVE CodeInv'
  BY <1>25 DEF Start
<1>26. ASSUME EditSettings PROVE CodeInv'
  BY <1>26 DEF EditSettings
<1>27. CASE UNCHANGED vars
  BY <1>27
<1> QED BY <1>1, <1>2, <1>3, <1>4, <1>5, <1>6, <1>7, <1>8, <1>9, <1>10,
    <1>11, <1>12, <1>13, <1>14, <1>15, <1>16, <1>17, <1>18, <1>19, <1>20,
    <1>21, <1>22, <1>23, <1>24, <1>25, <1>26, <1>27 DEF Next, HandlePair,
    validate_pairing_code

(* A code that led to a registration is gone in every behaviour.
   (validate_pairing_code)                                                 *)
LEMMA CodesGone == Spec => []CodeInv
<1>1. Init => CodeInv
  BY DEF Init, CodeInv, LateUseRefused
<1> QED BY <1>1, CodeStep, TypeAndPlace, PTL DEF Spec

(* A code that has led to a registration is refused from then on, with any
   number of attempts, resent requests and workers under way.              *)
THEOREM UsedCodeRefused == Spec => []LateUseRefused
<1>1. CodeInv => LateUseRefused
  BY DEF CodeInv
<1> QED BY <1>1, CodesGone, PTL
-----------------------------------------------------------------------------
(* A worker about to save a secret over current settings found none there;
   every secret on its way to a bridge is the one the site has, or was until
   people cleared or replaced it.                                          *)
Agreed(s) == s # None /\ s \in {secret} \cup retired

SecretInv ==
    /\ \A a \in Attempts :
         /\ wk[a] = "save" => got[a] = a
         /\ wk[a] = "save" /\ a \notin stale => secret = None
         /\ wk[a] = "reply" => Agreed(got[a])
         /\ pc[a] \in {"store", "save", "write", "secret"} =>
              wk[a] = "gone" /\ Agreed(got[a])
    /\ \A b \in Bridges : hmac[b] # None => Agreed(hmac[b])

(* SecretInv is preserved. *)
LEMMA SecretStep ==
    ASSUME TypeOK, Placed, SecretInv, [Next]_vars
    PROVE  SecretInv'
<1> USE PairingAssumption DEF TypeOK, Placed, SecretInv, Agreed, Secrets,
        vars, attemptVars, workerVars, siteVars, bridgeVars, histVars
<1>1. ASSUME NEW a \in Attempts, NEW b \in Bridges, Ask(a, b) PROVE SecretInv'
  BY <1>1 DEF Ask, Reads, Admitted, CorsAllowed
<1>2. ASSUME NEW old \in Attempts, NEW a \in Attempts, Resend(old, a)
      PROVE  SecretInv'
  BY <1>2 DEF Resend
<1>3. ASSUME NEW a \in Attempts, FetchCerts(a) PROVE SecretInv'
  BY <1>3 DEF FetchCerts
<1>4. ASSUME NEW a \in Attempts, FetchFails(a) PROVE SecretInv'
  BY <1>4 DEF FetchFails
<1>5. ASSUME NEW a \in Attempts, Deny(a) PROVE SecretInv'
  BY <1>5 DEF Deny
<1>6. ASSUME NEW a \in Attempts, Consent(a) PROVE SecretInv'
  BY <1>6 DEF Consent
<1>7. ASSUME NEW a \in Attempts, ReceiveError(a) PROVE SecretInv'
  BY <1>7 DEF ReceiveError
<1>8. ASSUME NEW a \in Attempts, Receive(a) PROVE SecretInv'
  BY <1>8 DEF Receive
<1>9. ASSUME NEW a \in Attempts, StoreToken(a) PROVE SecretInv'
  BY <1>9 DEF StoreToken, Unlocked
<1>10. ASSUME NEW a \in Attempts, SaveTruncate(a) PROVE SecretInv'
  BY <1>10 DEF SaveTruncate
<1>11. ASSUME NEW a \in Attempts, SaveWrite(a) PROVE SecretInv'
  BY <1>11 DEF SaveWrite
<1>12. ASSUME NEW a \in Attempts, AddSiteFails(a) PROVE SecretInv'
  BY <1>12 DEF AddSiteFails, Unlocked
<1>13. ASSUME NEW a \in Attempts, SetHMACSecret(a) PROVE SecretInv'
  BY <1>13 DEF SetHMACSecret
<1>14. ASSUME NEW a \in Attempts, Arrive(a) PROVE SecretInv'
  BY <1>14 DEF Arrive, Step
<1>15. ASSUME NEW a \in Attempts, ReadCode(a) PROVE SecretInv'
  BY <1>15 DEF ReadCode, Step
<1>16. ASSUME NEW a \in Attempts, DeleteCode(a) PROVE SecretInv'
  BY <1>16 DEF DeleteCode, Step
<1>17. ASSUME NEW a \in Attempts, Insert(a) PROVE SecretInv'
  BY <1>17 DEF Insert, Step, Registration
<1>18. ASSUME NEW a \in Attempts, LoadSettings(a) PROVE SecretInv'
  BY <1>18 DEF LoadSettings, Step
<1>19. ASSUME NEW a \in Attempts, SaveSettings(a) PROVE SecretInv'
  BY <1>19 DEF SaveSettings, Step
<1>20. ASSUME NEW a \in Attempts, SaveConflict(a) PROVE SecretInv'
  BY <1>20 DEF SaveConflict, Step
<1>21. ASSUME NEW a \in Attempts, Disconnect(a) PROVE SecretInv'
  BY <1>21 DEF Disconnect
<1>22. ASSUME NEW a \in Attempts, WorkerFails(a) PROVE SecretInv'
  BY <1>22 DEF WorkerFails
<1>23. ASSUME NEW a \in Attempts, Expire(a) PROVE SecretInv'
  BY <1>23 DEF Expire
<1>24. ASSUME NEW b \in Bridges, Stop(b) PROVE SecretInv'
  BY <1>24 DEF Stop
<1>25. ASSUME NEW b \in Bridges, Start(b) PROVE SecretInv'
  BY <1>25 DEF Start
<1>26. ASSUME EditSettings PROVE SecretInv'
  BY <1>26 DEF EditSettings
<1>27. CASE UNCHANGED vars
  BY <1>27
<1> QED BY <1>1, <1>2, <1>3, <1>4, <1>5, <1>6, <1>7, <1>8, <1>9, <1>10,
    <1>11, <1>12, <1>13, <1>14, <1>15, <1>16, <1>17, <1>18, <1>19, <1>20,
    <1>21, <1>22, <1>23, <1>24, <1>25, <1>26, <1>27 DEF Next, HandlePair,
    validate_pairing_code

(* However pairings that create the secret interleave, and whatever people do
   to it, a bridge holds the site's secret or one that was the site's until
   somebody cleared or replaced it in the form.                            *)
THEOREM OneSecret == Spec => []SecretsAgree
<1>1. Init => SecretInv
  BY DEF Init, SecretInv
<1>2. Spec => []SecretInv
  BY <1>1, SecretStep, TypeAndPlace, PTL DEF Spec
<1>3. SecretInv => SecretsAgree
  BY DEF SecretInv, SecretsAgree, Agreed
<1> QED BY <1>2, <1>3, PTL
-----------------------------------------------------------------------------
(* A pairing past AddSite is on disk, and in the memory while the bridge
   runs: a start reads the file, and a file cut short prevents the start.  *)
ListInv ==
    \A a \in Attempts :
        /\ pc[a] \in {"save", "write"} => on[a] \in known
        /\ pc[a] \in {"secret", "ok", "served"} =>
              /\ on[a] \in listed
              /\ on[a] \in running => on[a] \in known

(* ListInv is preserved. *)
LEMMA ListStep ==
    ASSUME TypeOK, Placed, ListInv, [Next]_vars
    PROVE  ListInv'
<1> USE PairingAssumption DEF TypeOK, Placed, ListInv, vars, attemptVars,
        workerVars, siteVars, bridgeVars, histVars
<1>1. ASSUME NEW a \in Attempts, NEW b \in Bridges, Ask(a, b) PROVE ListInv'
  BY <1>1 DEF Ask, Reads, Admitted, CorsAllowed
<1>2. ASSUME NEW old \in Attempts, NEW a \in Attempts, Resend(old, a)
      PROVE  ListInv'
  BY <1>2 DEF Resend
<1>3. ASSUME NEW a \in Attempts, FetchCerts(a) PROVE ListInv'
  BY <1>3 DEF FetchCerts
<1>4. ASSUME NEW a \in Attempts, FetchFails(a) PROVE ListInv'
  BY <1>4 DEF FetchFails
<1>5. ASSUME NEW a \in Attempts, Deny(a) PROVE ListInv'
  BY <1>5 DEF Deny
<1>6. ASSUME NEW a \in Attempts, Consent(a) PROVE ListInv'
  BY <1>6 DEF Consent
<1>7. ASSUME NEW a \in Attempts, ReceiveError(a) PROVE ListInv'
  BY <1>7 DEF ReceiveError
<1>8. ASSUME NEW a \in Attempts, Receive(a) PROVE ListInv'
  BY <1>8 DEF Receive
<1>9. ASSUME NEW a \in Attempts, StoreToken(a) PROVE ListInv'
  BY <1>9 DEF StoreToken, Unlocked
<1>10. ASSUME NEW a \in Attempts, SaveTruncate(a) PROVE ListInv'
  BY <1>10 DEF SaveTruncate
<1>11. ASSUME NEW a \in Attempts, SaveWrite(a) PROVE ListInv'
  BY <1>11 DEF SaveWrite
<1>12. ASSUME NEW a \in Attempts, AddSiteFails(a) PROVE ListInv'
  BY <1>12 DEF AddSiteFails, Unlocked
<1>13. ASSUME NEW a \in Attempts, SetHMACSecret(a) PROVE ListInv'
  BY <1>13 DEF SetHMACSecret
<1>14. ASSUME NEW a \in Attempts, Arrive(a) PROVE ListInv'
  BY <1>14 DEF Arrive, Step
<1>15. ASSUME NEW a \in Attempts, ReadCode(a) PROVE ListInv'
  BY <1>15 DEF ReadCode, Step
<1>16. ASSUME NEW a \in Attempts, DeleteCode(a) PROVE ListInv'
  BY <1>16 DEF DeleteCode, Step
<1>17. ASSUME NEW a \in Attempts, Insert(a) PROVE ListInv'
  BY <1>17 DEF Insert, Step, Registration
<1>18. ASSUME NEW a \in Attempts, LoadSettings(a) PROVE ListInv'
  BY <1>18 DEF LoadSettings, Step
<1>19. ASSUME NEW a \in Attempts, SaveSettings(a) PROVE ListInv'
  BY <1>19 DEF SaveSettings, Step
<1>20. ASSUME NEW a \in Attempts, SaveConflict(a) PROVE ListInv'
  BY <1>20 DEF SaveConflict, Step
<1>21. ASSUME NEW a \in Attempts, Disconnect(a) PROVE ListInv'
  BY <1>21 DEF Disconnect
<1>22. ASSUME NEW a \in Attempts, WorkerFails(a) PROVE ListInv'
  BY <1>22 DEF WorkerFails
<1>23. ASSUME NEW a \in Attempts, Expire(a) PROVE ListInv'
  BY <1>23 DEF Expire
<1>24. ASSUME NEW b \in Bridges, Stop(b) PROVE ListInv'
  BY <1>24 DEF Stop
<1>25. ASSUME NEW b \in Bridges, Start(b) PROVE ListInv'
  BY <1>25 DEF Start
<1>26. ASSUME EditSettings PROVE ListInv'
  BY <1>26 DEF EditSettings
<1>27. CASE UNCHANGED vars
  BY <1>27
<1> QED BY <1>1, <1>2, <1>3, <1>4, <1>5, <1>6, <1>7, <1>8, <1>9, <1>10,
    <1>11, <1>12, <1>13, <1>14, <1>15, <1>16, <1>17, <1>18, <1>19, <1>20,
    <1>21, <1>22, <1>23, <1>24, <1>25, <1>26, <1>27 DEF Next, HandlePair,
    validate_pairing_code

(* Whenever the bridge runs, a pairing that was answered with 200 works:
   stops, starts and the failures of other pairings do not undo it.        *)
THEOREM PairedStaysPaired == Spec => []AnsweredPairingServes
<1>1. Init => ListInv
  BY DEF Init, ListInv
<1>2. Spec => []ListInv
  BY <1>1, ListStep, TypeAndPlace, PTL DEF Spec
<1>3. TypeOK /\ ListInv => AnsweredPairingServes
  BY DEF ListInv, AnsweredPairingServes, Reads, Admitted, CorsAllowed,
         IsPairedSite, TypeOK
<1> QED BY <1>2, <1>3, TypeAndPlace, PTL
-----------------------------------------------------------------------------
(* An answer of the site, and what a handler stores of it, belong to a
   registration; so does every token stored.                               *)
Granted(t, b) == \E r \in regs : r.token = t /\ r.agent = b

GrantInv ==
    /\ \A a \in Attempts :
         wk[a] \in {"load", "save", "reply"} \/ pc[a] = "store" =>
             Granted(a, on[a])
    /\ \A a \in Attempts : pc[a] \in {"save", "write"} => token[on[a]] # None
    /\ \A b \in Bridges : token[b] # None => Granted(token[b], b)
    /\ \A b \in listed \cup known : token[b] # None

(* GrantInv is preserved. *)
LEMMA GrantStep ==
    ASSUME TypeOK, Placed, GrantInv, [Next]_vars
    PROVE  GrantInv'
<1> USE PairingAssumption DEF TypeOK, Placed, GrantInv, Granted, vars,
        attemptVars, workerVars, siteVars, bridgeVars, histVars
<1>1. ASSUME NEW a \in Attempts, NEW b \in Bridges, Ask(a, b) PROVE GrantInv'
  BY <1>1 DEF Ask, Reads, Admitted, CorsAllowed
<1>2. ASSUME NEW old \in Attempts, NEW a \in Attempts, Resend(old, a)
      PROVE  GrantInv'
  BY <1>2 DEF Resend
<1>3. ASSUME NEW a \in Attempts, FetchCerts(a) PROVE GrantInv'
  BY <1>3 DEF FetchCerts
<1>4. ASSUME NEW a \in Attempts, FetchFails(a) PROVE GrantInv'
  BY <1>4 DEF FetchFails
<1>5. ASSUME NEW a \in Attempts, Deny(a) PROVE GrantInv'
  BY <1>5 DEF Deny
<1>6. ASSUME NEW a \in Attempts, Consent(a) PROVE GrantInv'
  BY <1>6 DEF Consent
<1>7. ASSUME NEW a \in Attempts, ReceiveError(a) PROVE GrantInv'
  BY <1>7 DEF ReceiveError
<1>8. ASSUME NEW a \in Attempts, Receive(a) PROVE GrantInv'
  BY <1>8 DEF Receive
<1>9. ASSUME NEW a \in Attempts, StoreToken(a) PROVE GrantInv'
  BY <1>9 DEF StoreToken, Unlocked
<1>10. ASSUME NEW a \in Attempts, SaveTruncate(a) PROVE GrantInv'
  BY <1>10 DEF SaveTruncate
<1>11. ASSUME NEW a \in Attempts, SaveWrite(a) PROVE GrantInv'
  BY <1>11 DEF SaveWrite
<1>12. ASSUME NEW a \in Attempts, AddSiteFails(a) PROVE GrantInv'
  BY <1>12 DEF AddSiteFails, Unlocked
<1>13. ASSUME NEW a \in Attempts, SetHMACSecret(a) PROVE GrantInv'
  BY <1>13 DEF SetHMACSecret
<1>14. ASSUME NEW a \in Attempts, Arrive(a) PROVE GrantInv'
  BY <1>14 DEF Arrive, Step
<1>15. ASSUME NEW a \in Attempts, ReadCode(a) PROVE GrantInv'
  BY <1>15 DEF ReadCode, Step
<1>16. ASSUME NEW a \in Attempts, DeleteCode(a) PROVE GrantInv'
  BY <1>16 DEF DeleteCode, Step
<1>17. ASSUME NEW a \in Attempts, Insert(a) PROVE GrantInv'
  <2>1. /\ Registration(a) \in regs' /\ regs \subseteq regs'
        /\ on' = on /\ pc' = pc /\ wk' = [wk EXCEPT ![a] = "load"]
        /\ UNCHANGED <<token, listed, known>>
    BY <1>17 DEF Insert, Step
  <2>2. Registration(a).token = a /\ Registration(a).agent = on[a]
    BY DEF Registration
  <2>3. ASSUME NEW x \in Attempts,
               wk'[x] \in {"load", "save", "reply"} \/ pc'[x] = "store"
        PROVE  \E r \in regs' : r.token = x /\ r.agent = on'[x]
    <3>1. CASE x = a
      BY <3>1, <2>1, <2>2
    <3>2. CASE x # a
      <4>1. \E r \in regs : r.token = x /\ r.agent = on[x]
        BY <2>1, <2>3, <3>2
      <4> QED BY <4>1, <2>1
    <3> QED BY <3>1, <3>2
  <2>4. ASSUME NEW x \in Attempts, pc'[x] \in {"save", "write"}
        PROVE  token'[on'[x]] # None
    BY <2>4, <2>1
  <2>5. ASSUME NEW b \in Bridges, token[b] # None
        PROVE  \E r \in regs' : r.token = token[b] /\ r.agent = b
    BY <2>5, <2>1
  <2> QED BY <2>1, <2>3, <2>4, <2>5
<1>18. ASSUME NEW a \in Attempts, LoadSettings(a) PROVE GrantInv'
  BY <1>18 DEF LoadSettings, Step
<1>19. ASSUME NEW a \in Attempts, SaveSettings(a) PROVE GrantInv'
  BY <1>19 DEF SaveSettings, Step
<1>20. ASSUME NEW a \in Attempts, SaveConflict(a) PROVE GrantInv'
  BY <1>20 DEF SaveConflict, Step
<1>21. ASSUME NEW a \in Attempts, Disconnect(a) PROVE GrantInv'
  BY <1>21 DEF Disconnect
<1>22. ASSUME NEW a \in Attempts, WorkerFails(a) PROVE GrantInv'
  BY <1>22 DEF WorkerFails
<1>23. ASSUME NEW a \in Attempts, Expire(a) PROVE GrantInv'
  BY <1>23 DEF Expire
<1>24. ASSUME NEW b \in Bridges, Stop(b) PROVE GrantInv'
  BY <1>24 DEF Stop
<1>25. ASSUME NEW b \in Bridges, Start(b) PROVE GrantInv'
  BY <1>25 DEF Start
<1>26. ASSUME EditSettings PROVE GrantInv'
  BY <1>26 DEF EditSettings
<1>27. CASE UNCHANGED vars
  BY <1>27
<1> QED BY <1>1, <1>2, <1>3, <1>4, <1>5, <1>6, <1>7, <1>8, <1>9, <1>10,
    <1>11, <1>12, <1>13, <1>14, <1>15, <1>16, <1>17, <1>18, <1>19, <1>20,
    <1>21, <1>22, <1>23, <1>24, <1>25, <1>26, <1>27 DEF Next, HandlePair,
    validate_pairing_code

(* What a bridge stores was granted to it, in every behaviour. (AddSite) *)
LEMMA StoredGranted == Spec => []GrantInv
<1>1. Init => GrantInv
  BY DEF Init, GrantInv
<1> QED BY <1>1, GrantStep, TypeAndPlace, PTL DEF Spec

(* Each step is a step of Registry or changes nothing it sees: only Insert
   grants, only StoreToken and Start keep, only Stop loses.                *)
LEMMA RegistryStep ==
    ASSUME TypeOK, Placed, CodeInv, GrantInv, [Next]_vars
    PROVE  [R!Next]_(R!registryVars)
<1> DEFINE grants == {<<r.token, r.agent>> : r \in regs}
           kept == [b \in Bridges |-> IF b \in known THEN token[b] ELSE None]
<1>1. ASSUME regs' = regs, known' = known, token' = token
      PROVE  UNCHANGED R!registryVars
  BY <1>1 DEF R!registryVars
<1>2. ASSUME NEW a \in Attempts, Insert(a) PROVE R!Next
  <2>1. grants' = grants \cup {<<a, on[a]>>} /\ kept' = kept
    <3>1. regs' = regs \cup {Registration(a)} /\ kept' = kept
      BY <1>2 DEF Insert, bridgeVars
    <3>2. Registration(a).token = a /\ Registration(a).agent = on[a]
      BY DEF Registration
    <3>3. {<<r.token, r.agent>> : r \in regs \cup {Registration(a)}}
            = grants \cup {<<Registration(a).token, Registration(a).agent>>}
      OBVIOUS
    <3> QED BY <3>1, <3>2, <3>3
  <2>2. on[a] \in Bridges /\ wk[a] = "insert"
    BY <1>2 DEF Insert, Step, Placed, TypeOK
  <2>3. \A g \in grants : g[1] # a
    BY <2>2 DEF CodeInv
  <2>4. R!Grant(a, on[a])
    BY <2>1, <2>3 DEF R!Grant
  <2> QED BY <2>2, <2>4 DEF R!Next, R!Grant
<1>3. ASSUME NEW t \in Attempts, NEW b \in Bridges, Granted(t, b),
             regs' = regs, kept' = [kept EXCEPT ![b] = t]
      PROVE  R!Next
  <2>1. PICK r \in regs : r.token = t /\ r.agent = b
    BY <1>3 DEF Granted
  <2>2. <<t, b>> \in grants
    BY <2>1
  <2>3. R!Keep(t, b)
    BY <1>3, <2>2 DEF R!Keep
  <2> QED BY <2>3 DEF R!Next
<1>4. ASSUME NEW a \in Attempts, StoreToken(a) PROVE R!Next
  <2>1. on[a] \in Bridges /\ Granted(a, on[a]) /\ regs' = regs
    BY <1>4 DEF StoreToken, Placed, GrantInv, siteVars
  <2>2. kept' = [kept EXCEPT ![on[a]] = a]
    BY <1>4, <2>1 DEF StoreToken, TypeOK
  <2> QED BY <2>1, <2>2, <1>3
<1>5. ASSUME NEW b \in Bridges, Stop(b) PROVE R!Next
  <2>1. regs' = regs /\ kept' = [kept EXCEPT ![b] = None]
    BY <1>5 DEF Stop, siteVars
  <2>2. R!Lose(b)
    BY <2>1 DEF R!Lose
  <2> QED BY <2>2 DEF R!Next
<1>6. ASSUME NEW b \in Bridges, Start(b)
      PROVE  R!Next \/ UNCHANGED R!registryVars
  <2>1. CASE b \in listed
    <3>1. token[b] \in Attempts /\ Granted(token[b], b)
      BY <2>1 DEF GrantInv, TypeOK
    <3>2. regs' = regs /\ kept' = [kept EXCEPT ![b] = token[b]]
      BY <1>6, <2>1 DEF Start, siteVars
    <3> QED BY <3>1, <3>2, <1>3
  <2>2. CASE b \notin listed
    BY <1>6, <2>2, <1>1 DEF Start, siteVars
  <2> QED BY <2>1, <2>2
<1>7. ASSUME NEW a \in Attempts, NEW b \in Bridges, Ask(a, b)
      PROVE  [R!Next]_(R!registryVars)
  BY <1>7, <1>1 DEF Ask, siteVars, bridgeVars
<1>8. ASSUME NEW old \in Attempts, NEW a \in Attempts, Resend(old, a)
      PROVE  [R!Next]_(R!registryVars)
  BY <1>8, <1>1 DEF Resend, siteVars, bridgeVars
<1>9. ASSUME NEW a \in Attempts, FetchCerts(a)
      PROVE  [R!Next]_(R!registryVars)
  BY <1>9, <1>1 DEF FetchCerts, siteVars, bridgeVars
<1>10. ASSUME NEW a \in Attempts, FetchFails(a)
      PROVE  [R!Next]_(R!registryVars)
  BY <1>10, <1>1 DEF FetchFails, siteVars, bridgeVars
<1>11. ASSUME NEW a \in Attempts, Deny(a)
      PROVE  [R!Next]_(R!registryVars)
  BY <1>11, <1>1 DEF Deny, siteVars, bridgeVars
<1>12. ASSUME NEW a \in Attempts, Consent(a)
      PROVE  [R!Next]_(R!registryVars)
  BY <1>12, <1>1 DEF Consent, siteVars, bridgeVars
<1>13. ASSUME NEW a \in Attempts, ReceiveError(a)
      PROVE  [R!Next]_(R!registryVars)
  BY <1>13, <1>1 DEF ReceiveError, siteVars, bridgeVars
<1>14. ASSUME NEW a \in Attempts, Receive(a)
      PROVE  [R!Next]_(R!registryVars)
  BY <1>14, <1>1 DEF Receive, siteVars, bridgeVars
<1>15. ASSUME NEW a \in Attempts, SaveTruncate(a)
      PROVE  [R!Next]_(R!registryVars)
  BY <1>15, <1>1 DEF SaveTruncate, siteVars, bridgeVars
<1>16. ASSUME NEW a \in Attempts, SaveWrite(a)
      PROVE  [R!Next]_(R!registryVars)
  BY <1>16, <1>1 DEF SaveWrite, siteVars, bridgeVars
<1>17. ASSUME NEW a \in Attempts, AddSiteFails(a)
      PROVE  [R!Next]_(R!registryVars)
  BY <1>17, <1>1 DEF AddSiteFails, siteVars, bridgeVars
<1>18. ASSUME NEW a \in Attempts, SetHMACSecret(a)
      PROVE  [R!Next]_(R!registryVars)
  BY <1>18, <1>1 DEF SetHMACSecret, siteVars, bridgeVars
<1>19. ASSUME NEW a \in Attempts, Arrive(a)
      PROVE  [R!Next]_(R!registryVars)
  BY <1>19, <1>1 DEF Arrive, siteVars, bridgeVars, Step
<1>20. ASSUME NEW a \in Attempts, ReadCode(a)
      PROVE  [R!Next]_(R!registryVars)
  BY <1>20, <1>1 DEF ReadCode, siteVars, bridgeVars, Step
<1>21. ASSUME NEW a \in Attempts, DeleteCode(a)
      PROVE  [R!Next]_(R!registryVars)
  BY <1>21, <1>1 DEF DeleteCode, siteVars, bridgeVars, Step
<1>22. ASSUME NEW a \in Attempts, LoadSettings(a)
      PROVE  [R!Next]_(R!registryVars)
  BY <1>22, <1>1 DEF LoadSettings, siteVars, bridgeVars, Step
<1>23. ASSUME NEW a \in Attempts, SaveSettings(a)
      PROVE  [R!Next]_(R!registryVars)
  BY <1>23, <1>1 DEF SaveSettings, siteVars, bridgeVars, Step
<1>24. ASSUME NEW a \in Attempts, SaveConflict(a)
      PROVE  [R!Next]_(R!registryVars)
  BY <1>24, <1>1 DEF SaveConflict, siteVars, bridgeVars, Step
<1>25. ASSUME NEW a \in Attempts, Disconnect(a)
      PROVE  [R!Next]_(R!registryVars)
  BY <1>25, <1>1 DEF Disconnect, siteVars, bridgeVars
<1>26. ASSUME NEW a \in Attempts, WorkerFails(a)
      PROVE  [R!Next]_(R!registryVars)
  BY <1>26, <1>1 DEF WorkerFails, siteVars, bridgeVars
<1>27. ASSUME NEW a \in Attempts, Expire(a)
      PROVE  [R!Next]_(R!registryVars)
  BY <1>27, <1>1 DEF Expire, siteVars, bridgeVars
<1>28. ASSUME EditSettings
      PROVE  [R!Next]_(R!registryVars)
  BY <1>28, <1>1 DEF EditSettings, siteVars, bridgeVars
<1>29. CASE UNCHANGED vars
  BY <1>29, <1>1 DEF vars, siteVars, bridgeVars
<1> QED BY <1>7, <1>8, <1>9, <1>10, <1>11, <1>12, <1>13, <1>14, <1>4,
    <1>15, <1>16, <1>17, <1>18, <1>19, <1>20, <1>21, <1>2, <1>22, <1>23,
    <1>24, <1>25, <1>26, <1>27, <1>5, <1>6, <1>28, <1>29 DEF Next, HandlePair,
    validate_pairing_code

(* Pairing implements Registry: grants are committed registrations, and what
   a bridge keeps was granted to it before.                                *)
THEOREM PairingImplementsRegistry == Spec => ImplementsRegistry
<1>1. Init => R!Init
  BY DEF Init, R!Init
<1>2. TypeOK /\ Placed /\ CodeInv /\ GrantInv /\ [Next]_vars
        => [R!Next]_(R!registryVars)
  BY RegistryStep
<1> QED BY <1>1, <1>2, TypeAndPlace, CodesGone, StoredGranted, PTL
    DEF Spec, R!Spec, ImplementsRegistry
=============================================================================

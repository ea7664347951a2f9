-------------------------- MODULE BridgeSignProofs --------------------------
(***************************************************************************)
(* Theorems about BridgeSign, for any number of requests, slots, tokens,   *)
(* certificates and PINs, any bound on the environment's events, and a     *)
(* driver that may or may not be flaky.                                    *)
(***************************************************************************)
EXTENDS BridgeSign, FiniteSetTheorems, TLAPS

(* Membership facts, stated once so that the large sets of strings need not
   be expanded again.                                                      *)
LEMMA PointLiterals ==
    /\ "idle" \in Points /\ "gate" \in Points /\ "missing" \in Points
    /\ "resolve" \in Points /\ "open" \in Points /\ "login" \in Points
    /\ "sign" \in Points /\ "cert" \in Points /\ "logout" \in Points
    /\ "close" \in Points /\ "failed" \in Points /\ "remember" \in Points
    /\ "answer" \in Points
BY DEF Points

(* Which strings are error codes. (errors.go) *)
LEMMA CodeLiterals ==
    /\ "REFUSED" \in ErrorCodes /\ "TOKEN_NOT_FOUND" \in ErrorCodes
    /\ "CERT_NOT_FOUND" \in ErrorCodes /\ "INTERNAL_ERROR" \in ErrorCodes
    /\ "PIN_REQUIRED" \in ErrorCodes
    /\ "OK" \notin ErrorCodes /\ "none" \notin ErrorCodes
BY DEF ErrorCodes

(* Which strings are return values of PKCS#11. (errors.go) *)
LEMMA CKRLiterals ==
    /\ "PIN_INCORRECT" \in CKR /\ "PIN_LOCKED" \in CKR
    /\ "DEVICE_REMOVED" \in CKR /\ "GENERAL_ERROR" \in CKR
BY DEF CKR

(* What mapPKCS11Error makes of a return value is an error code. *)
LEMMA ErrorMapType ==
    ASSUME NEW ck \in CKR PROVE mapPKCS11Error(ck) \in ErrorCodes
BY DEF mapPKCS11Error, ErrorCodes, CKR
-----------------------------------------------------------------------------
(* The points of HandleSign after FindCertByFingerprint found a slot, after
   the PIN was resolved, and at which SignHash has a session.              *)
SessionPoints  == {"login", "sign", "cert", "logout", "close"}
ResolvedPoints == SessionPoints \cup {"open", "failed", "remember"}
FoundPoints    == ResolvedPoints \cup {"resolve"}

(* What the local variables of a handler hold at each of its points. *)
Shape ==
    \A r \in Requests :
      /\ pc[r] # "idle" => fp[r] # None
      /\ pc[r] \in FoundPoints => slot[r] # None
      /\ pc[r] \in ResolvedPoints => pin[r] # None
      /\ fromCache[r] => pc[r] \in ResolvedPoints \cup {"answer"}
      /\ sess[r] # "none" => pc[r] \in SessionPoints
      /\ sess[r] = "open" => tok[slot[r]] # None

(* Every variable keeps its type and every handler its shape. *)
LEMMA ShapeInit == Init => TypeOK /\ Shape
<1> SUFFICES ASSUME Init PROVE TypeOK /\ Shape
  OBVIOUS
<1>1. TypeOK
  BY PointLiterals, ConstantsAssumption DEF Init, TypeOK, Verdicts
<1>2. Shape
  BY DEF Init, Shape, FoundPoints, ResolvedPoints, SessionPoints
<1> QED BY <1>1, <1>2

(* A verdict follows a verdict. (C_Login) *)
LEMMA JudgeType ==
    ASSUME TypeOK, NEW r \in Requests, NEW a \in BOOLEAN, Judge(r, a)
    PROVE  verdict' \in [Certs \X PINs -> Verdicts]
BY DEF Judge, TypeOK, Verdicts

(* Every step keeps the types. (HandleSign, SignHash) *)
LEMMA TypeStep == TypeOK /\ Shape /\ [Next]_vars => TypeOK'
<1> SUFFICES ASSUME TypeOK, Shape, [Next]_vars PROVE TypeOK'
  OBVIOUS
<1> USE PointLiterals, CodeLiterals
    DEF TypeOK, GoTo, Return, call, result, local, shared, slotVars,
        tokenVars, histVars
<1>1. ASSUME NEW r \in Requests, NEW c \in Certs, NEW p \in PINs \cup {None},
             Arrive(r, c, p)
      PROVE  TypeOK'
  BY <1>1 DEF Arrive
<1>2. ASSUME NEW r \in Requests, Refuse(r) PROVE TypeOK'
  BY <1>2 DEF Refuse
<1>3. ASSUME NEW r \in Requests, FindCert(r) PROVE TypeOK'
  BY <1>3 DEF FindCert, Carriers
<1>4. ASSUME NEW r \in Requests, Miss(r) PROVE TypeOK'
  BY <1>4 DEF Miss
<1>5. ASSUME NEW r \in Requests, Detect(r) PROVE TypeOK'
  BY <1>5 DEF Detect
<1>6. ASSUME NEW r \in Requests, BadHash(r) PROVE TypeOK'
  BY <1>6 DEF BadHash
<1>7. ASSUME NEW r \in Requests, ResolvePin(r) PROVE TypeOK'
  <2>1. fp[r] \in Certs
    BY <1>7 DEF ResolvePin, Shape
  <2>2. /\ pin' \in [Requests -> PINs \cup {None}]
        /\ fromCache' \in [Requests -> BOOLEAN]
    BY <1>7, <2>1 DEF ResolvePin
  <2>3. /\ pc' \in [Requests -> Points]
        /\ code' \in [Requests -> ErrorCodes \cup {"none", "OK"}]
    BY <1>7 DEF ResolvePin
  <2> QED BY <1>7, <2>2, <2>3 DEF ResolvePin
<1>8. ASSUME NEW r \in Requests, OpenSession(r) PROVE TypeOK'
  BY <1>8, ErrorMapType, CKRLiterals DEF OpenSession
<1>9. ASSUME NEW r \in Requests, LoginUnjudged(r) PROVE TypeOK'
  BY <1>9, ErrorMapType DEF LoginUnjudged
<1>10. ASSUME NEW r \in Requests, LoginLocked(r) PROVE TypeOK'
  BY <1>10, ErrorMapType, CKRLiterals, JudgeType DEF LoginLocked
<1>11. ASSUME NEW r \in Requests, LoginWrong(r) PROVE TypeOK'
  <2>1. Target(r) \in Tokens
    BY <1>11 DEF LoginWrong, Judged, Live, Shape, Target, FoundPoints,
                 ResolvedPoints, SessionPoints
  <2>2. tries' \in [Tokens -> 0..MaxTries]
    BY <1>11, <2>1, ConstantsAssumption DEF LoginWrong
  <2>3. burned' \in [Certs -> Nat]
    <3>1. fp[r] \in Certs /\ burned[fp[r]] + 1 \in Nat
      BY <1>11 DEF LoginWrong, Judged, Shape
    <3> QED BY <1>11, <3>1 DEF LoginWrong
  <2>4. verdict' \in [Certs \X PINs -> Verdicts]
    BY <1>11, JudgeType DEF LoginWrong
  <2>5. /\ pc' \in [Requests -> Points]
        /\ code' \in [Requests -> ErrorCodes \cup {"none", "OK"}]
    BY <1>11, ErrorMapType, CKRLiterals DEF LoginWrong
  <2> QED BY <1>11, <2>2, <2>3, <2>4, <2>5 DEF LoginWrong
<1>12. ASSUME NEW r \in Requests, LoginOk(r) PROVE TypeOK'
  <2>1. tries' \in [Tokens -> 0..MaxTries]
    <3>1. MaxTries \in 0..MaxTries
      BY ConstantsAssumption
    <3> QED BY <1>12, <3>1 DEF LoginOk
  <2> QED BY <1>12, <2>1, JudgeType DEF LoginOk
<1>13. ASSUME NEW r \in Requests, Sign(r) PROVE TypeOK'
  BY <1>13 DEF Sign
<1>14. ASSUME NEW r \in Requests, SignFault(r) PROVE TypeOK'
  BY <1>14, ErrorMapType DEF SignFault
<1>15. ASSUME NEW r \in Requests, ReadCert(r) PROVE TypeOK'
  BY <1>15 DEF ReadCert
<1>16. ASSUME NEW r \in Requests, Logout(r) PROVE TypeOK'
  BY <1>16 DEF Logout
<1>17. ASSUME NEW r \in Requests, Close(r) PROVE TypeOK'
  BY <1>17 DEF Close
<1>18. ASSUME NEW r \in Requests, Fail(r) PROVE TypeOK'
  BY <1>18 DEF Fail
<1>19. ASSUME NEW r \in Requests, Remember(r) PROVE TypeOK'
  BY <1>19 DEF Remember
<1>20. ASSUME NEW r \in Requests, Answer(r) PROVE TypeOK'
  BY <1>20 DEF Answer, Reset
<1>21. ASSUME NEW s \in Slots, Unplug(s) PROVE TypeOK'
  BY <1>21, ConstantsAssumption DEF Unplug, Event
<1>22. ASSUME NEW s \in Slots, NEW t \in Tokens, Insert(s, t) PROVE TypeOK'
  BY <1>22, ConstantsAssumption DEF Insert, Event
<1>23. ASSUME NEW t \in Tokens, NEW p \in PINs, ChangePin(t, p) PROVE TypeOK'
  BY <1>23, ConstantsAssumption DEF ChangePin, Event
<1>24. CASE Restart
  BY <1>24, ConstantsAssumption DEF Restart, Event, Reset
<1>25. CASE UNCHANGED vars
  BY <1>25 DEF vars
<1> QED
  BY <1>1, <1>2, <1>3, <1>4, <1>5, <1>6, <1>7, <1>8, <1>9, <1>10, <1>11,
     <1>12, <1>13, <1>14, <1>15, <1>16, <1>17, <1>18, <1>19, <1>20, <1>21,
     <1>22, <1>23, <1>24, <1>25
     DEF Next, Environment, HandleSign, SignHash
(* Every step leaves a handler with the locals its next point reads.
   (HandleSign, SignHash)                                                  *)
LEMMA ShapeStep == TypeOK /\ Shape /\ [Next]_vars => Shape'
<1> SUFFICES ASSUME TypeOK, Shape, [Next]_vars PROVE Shape'
  OBVIOUS
<1> USE DEF TypeOK, Shape, GoTo, Return, call, result, local, shared, slotVars,
            tokenVars, histVars, FoundPoints, ResolvedPoints, SessionPoints
<1>1. ASSUME NEW r \in Requests, NEW c \in Certs, NEW p \in PINs \cup {None},
             Arrive(r, c, p)
      PROVE  Shape'
  BY <1>1, NoneAssumption DEF Arrive
<1>2. ASSUME NEW r \in Requests, Refuse(r) PROVE Shape'
  BY <1>2 DEF Refuse
<1>3. ASSUME NEW r \in Requests, FindCert(r) PROVE Shape'
  BY <1>3, NoneAssumption DEF FindCert, Carriers
<1>4. ASSUME NEW r \in Requests, Miss(r) PROVE Shape'
  BY <1>4 DEF Miss
<1>5. ASSUME NEW r \in Requests, Detect(r) PROVE Shape'
  BY <1>5 DEF Detect
<1>6. ASSUME NEW r \in Requests, BadHash(r) PROVE Shape'
  BY <1>6 DEF BadHash
<1>7. ASSUME NEW r \in Requests, ResolvePin(r) PROVE Shape'
  BY <1>7 DEF ResolvePin
<1>8. ASSUME NEW r \in Requests, OpenSession(r) PROVE Shape'
  BY <1>8 DEF OpenSession, Target
<1>9. ASSUME NEW r \in Requests, LoginUnjudged(r) PROVE Shape'
  BY <1>9 DEF LoginUnjudged
<1>10. ASSUME NEW r \in Requests, LoginLocked(r) PROVE Shape'
  BY <1>10 DEF LoginLocked, Judged
<1>11. ASSUME NEW r \in Requests, LoginWrong(r) PROVE Shape'
  BY <1>11 DEF LoginWrong, Judged
<1>12. ASSUME NEW r \in Requests, LoginOk(r) PROVE Shape'
  BY <1>12 DEF LoginOk, Judged
<1>13. ASSUME NEW r \in Requests, Sign(r) PROVE Shape'
  BY <1>13 DEF Sign
<1>14. ASSUME NEW r \in Requests, SignFault(r) PROVE Shape'
  BY <1>14 DEF SignFault
<1>15. ASSUME NEW r \in Requests, ReadCert(r) PROVE Shape'
  BY <1>15 DEF ReadCert
<1>16. ASSUME NEW r \in Requests, Logout(r) PROVE Shape'
  BY <1>16 DEF Logout
<1>17. ASSUME NEW r \in Requests, Close(r) PROVE Shape'
  BY <1>17 DEF Close
<1>18. ASSUME NEW r \in Requests, Fail(r) PROVE Shape'
  BY <1>18 DEF Fail
<1>19. ASSUME NEW r \in Requests, Remember(r) PROVE Shape'
  BY <1>19 DEF Remember
<1>20. ASSUME NEW r \in Requests, Answer(r) PROVE Shape'
  BY <1>20 DEF Answer, Reset
<1>21. ASSUME NEW s \in Slots, Unplug(s) PROVE Shape'
  BY <1>21 DEF Unplug, Live
<1>22. ASSUME NEW s \in Slots, NEW t \in Tokens, Insert(s, t) PROVE Shape'
  BY <1>22, NoneAssumption DEF Insert
<1>23. ASSUME NEW t \in Tokens, NEW p \in PINs, ChangePin(t, p) PROVE Shape'
  BY <1>23 DEF ChangePin
<1>24. CASE Restart
  BY <1>24 DEF Restart, Reset
<1>25. CASE UNCHANGED vars
  BY <1>25 DEF vars
<1> QED
  BY <1>1, <1>2, <1>3, <1>4, <1>5, <1>6, <1>7, <1>8, <1>9, <1>10, <1>11,
     <1>12, <1>13, <1>14, <1>15, <1>16, <1>17, <1>18, <1>19, <1>20, <1>21,
     <1>22, <1>23, <1>24, <1>25
     DEF Next, Environment, HandleSign, SignHash

(* Types and locals are as they should be in every behaviour. (HandleSign) *)
LEMMA ShapeInvariant == Spec => [](TypeOK /\ Shape)
BY ShapeInit, TypeStep, ShapeStep, PTL DEF Spec

(* Every variable keeps its type in every behaviour of the handlers. *)
THEOREM TypeCorrect == Spec => []TypeOK
BY ShapeInvariant, PTL
-----------------------------------------------------------------------------
(* A step that changes neither a login nor who is logged in is harmless. *)
LEMMA LoginFrame ==
    ASSUME LoginExclusive, login' = login,
           \A q \in Requests, s \in Slots : LoggedIn(q, s)' <=> LoggedIn(q, s)
    PROVE  LoginExclusive'
BY DEF LoginExclusive

(* Every step keeps logins exclusive: C_Login is refused while one is there,
   and only its owner or the end of his sessions takes it away. (SignHash) *)
LEMMA LoginStep ==
    TypeOK /\ Shape /\ LoginExclusive /\ [Next]_vars => LoginExclusive'
<1> SUFFICES ASSUME TypeOK, Shape, LoginExclusive, [Next]_vars
             PROVE  LoginExclusive'
  OBVIOUS
<1> USE DEF TypeOK, GoTo, Return, call, result, local, shared, slotVars,
           tokenVars, histVars, Shape, LoginExclusive, LoggedIn, Live,
           FoundPoints, ResolvedPoints, SessionPoints
<1>1. ASSUME NEW r \in Requests, NEW c \in Certs, NEW p \in PINs \cup {None},
             Arrive(r, c, p)
      PROVE  LoginExclusive'
  <2>1. \A q \in Requests, s \in Slots : LoggedIn(q, s)' <=> LoggedIn(q, s)
    BY <1>1 DEF Arrive
  <2>2. login' = login
    BY <1>1 DEF Arrive
  <2> QED BY <2>1, <2>2, LoginFrame
<1>2. ASSUME NEW r \in Requests, Refuse(r) PROVE LoginExclusive'
  <2>1. \A q \in Requests, s \in Slots : LoggedIn(q, s)' <=> LoggedIn(q, s)
    BY <1>2 DEF Refuse
  <2>2. login' = login
    BY <1>2 DEF Refuse
  <2> QED BY <2>1, <2>2, LoginFrame
<1>3. ASSUME NEW r \in Requests, FindCert(r) PROVE LoginExclusive'
  BY <1>3 DEF FindCert, Carriers
<1>4. ASSUME NEW r \in Requests, Miss(r) PROVE LoginExclusive'
  <2>1. \A q \in Requests, s \in Slots : LoggedIn(q, s)' <=> LoggedIn(q, s)
    BY <1>4 DEF Miss
  <2>2. login' = login
    BY <1>4 DEF Miss
  <2> QED BY <2>1, <2>2, LoginFrame
<1>5. ASSUME NEW r \in Requests, Detect(r) PROVE LoginExclusive'
  <2>1. \A q \in Requests, s \in Slots : LoggedIn(q, s)' <=> LoggedIn(q, s)
    BY <1>5 DEF Detect
  <2>2. login' = login
    BY <1>5 DEF Detect
  <2> QED BY <2>1, <2>2, LoginFrame
<1>6. ASSUME NEW r \in Requests, BadHash(r) PROVE LoginExclusive'
  <2>1. \A q \in Requests, s \in Slots : LoggedIn(q, s)' <=> LoggedIn(q, s)
    BY <1>6 DEF BadHash
  <2>2. login' = login
    BY <1>6 DEF BadHash
  <2> QED BY <2>1, <2>2, LoginFrame
<1>7. ASSUME NEW r \in Requests, ResolvePin(r) PROVE LoginExclusive'
  <2>1. \A q \in Requests, s \in Slots : LoggedIn(q, s)' <=> LoggedIn(q, s)
    BY <1>7 DEF ResolvePin
  <2>2. login' = login
    BY <1>7 DEF ResolvePin
  <2> QED BY <2>1, <2>2, LoginFrame
<1>8. ASSUME NEW r \in Requests, OpenSession(r) PROVE LoginExclusive'
  <2>1. \A q \in Requests, s \in Slots : LoggedIn(q, s)' <=> LoggedIn(q, s)
    BY <1>8 DEF OpenSession, Target
  <2>2. login' = login
    BY <1>8 DEF OpenSession
  <2> QED BY <2>1, <2>2, LoginFrame
<1>9. ASSUME NEW r \in Requests, LoginUnjudged(r) PROVE LoginExclusive'
  <2>1. \A q \in Requests, s \in Slots : LoggedIn(q, s)' <=> LoggedIn(q, s)
    BY <1>9 DEF LoginUnjudged
  <2>2. login' = login
    BY <1>9 DEF LoginUnjudged
  <2> QED BY <2>1, <2>2, LoginFrame
<1>10. ASSUME NEW r \in Requests, LoginLocked(r) PROVE LoginExclusive'
  BY <1>10 DEF LoginLocked, Judged, Judge
<1>11. ASSUME NEW r \in Requests, LoginWrong(r) PROVE LoginExclusive'
  BY <1>11 DEF LoginWrong, Judged, Judge
<1>12. ASSUME NEW r \in Requests, LoginOk(r) PROVE LoginExclusive'
  BY <1>12 DEF LoginOk, Judged, Judge
<1>13. ASSUME NEW r \in Requests, Sign(r) PROVE LoginExclusive'
  BY <1>13 DEF Sign
<1>14. ASSUME NEW r \in Requests, SignFault(r) PROVE LoginExclusive'
  BY <1>14 DEF SignFault
<1>15. ASSUME NEW r \in Requests, ReadCert(r) PROVE LoginExclusive'
  BY <1>15 DEF ReadCert
<1>16. ASSUME NEW r \in Requests, Logout(r) PROVE LoginExclusive'
  BY <1>16 DEF Logout
<1>17. ASSUME NEW r \in Requests, Close(r) PROVE LoginExclusive'
  BY <1>17 DEF Close, LastSession
<1>18. ASSUME NEW r \in Requests, Fail(r) PROVE LoginExclusive'
  <2>1. \A q \in Requests, s \in Slots : LoggedIn(q, s)' <=> LoggedIn(q, s)
    BY <1>18 DEF Fail
  <2>2. login' = login
    BY <1>18 DEF Fail
  <2> QED BY <2>1, <2>2, LoginFrame
<1>19. ASSUME NEW r \in Requests, Remember(r) PROVE LoginExclusive'
  <2>1. \A q \in Requests, s \in Slots : LoggedIn(q, s)' <=> LoggedIn(q, s)
    BY <1>19 DEF Remember
  <2>2. login' = login
    BY <1>19 DEF Remember
  <2> QED BY <2>1, <2>2, LoginFrame
<1>20. ASSUME NEW r \in Requests, Answer(r) PROVE LoginExclusive'
  <2>1. \A q \in Requests, s \in Slots : LoggedIn(q, s)' <=> LoggedIn(q, s)
    BY <1>20 DEF Answer, Reset
  <2>2. login' = login
    BY <1>20 DEF Answer
  <2> QED BY <2>1, <2>2, LoginFrame
<1>21. ASSUME NEW s \in Slots, Unplug(s) PROVE LoginExclusive'
  BY <1>21 DEF Unplug, Live
<1>22. ASSUME NEW s \in Slots, NEW t \in Tokens, Insert(s, t)
       PROVE  LoginExclusive'
  BY <1>22 DEF Insert
<1>23. ASSUME NEW t \in Tokens, NEW p \in PINs, ChangePin(t, p)
       PROVE  LoginExclusive'
  BY <1>23 DEF ChangePin
<1>24. CASE Restart
  BY <1>24 DEF Restart, Reset
<1>25. CASE UNCHANGED vars
  BY <1>25 DEF vars
<1> QED
  BY <1>1, <1>2, <1>3, <1>4, <1>5, <1>6, <1>7, <1>8, <1>9, <1>10, <1>11,
     <1>12, <1>13, <1>14, <1>15, <1>16, <1>17, <1>18, <1>19, <1>20, <1>21,
     <1>22, <1>23, <1>24, <1>25
     DEF Next, Environment, HandleSign, SignHash

(* Concurrent signers never share a login, and none is left behind. *)
THEOREM LoginIsExclusive == Spec => []LoginExclusive
<1>1. Init => LoginExclusive
  BY DEF Init, LoginExclusive, LoggedIn
<1> QED BY <1>1, ShapeInvariant, LoginStep, PTL DEF Spec
-----------------------------------------------------------------------------
(* A handler that is logged in, or was and signed, holds a PIN some token
   has accepted: what Remember caches.                                     *)
Good == {"accepted", "revoked"}

AcceptedPins ==
    \A r \in Requests :
      \/ pc[r] \in {"sign", "cert", "remember"}
      \/ pc[r] \in {"logout", "close"} /\ code[r] = "OK"
      => verdict[<<fp[r], pin[r]>>] \in Good

CacheInv == AcceptedPins /\ CachedPinWasAccepted

(* A PIN accepted once stays one that was accepted. (C_Login) *)
LEMMA JudgeKeeps ==
    ASSUME TypeOK, NEW r \in Requests, NEW a \in BOOLEAN, Judge(r, a),
           NEW cp \in Certs \X PINs, verdict[cp] \in Good
    PROVE  verdict'[cp] \in Good
BY DEF Judge, TypeOK, Good

(* Every step keeps the cache to PINs that were accepted.
   (PINCache.Set, Forget)                                                  *)
LEMMA CacheStep ==
    TypeOK /\ Shape /\ CacheInv /\ [Next]_vars => CacheInv'
<1> SUFFICES ASSUME TypeOK, Shape, CacheInv, [Next]_vars
             PROVE  CacheInv'
  OBVIOUS
<1> USE DEF TypeOK, GoTo, Return, call, result, local, shared, slotVars,
           tokenVars, histVars, Shape, CacheInv, AcceptedPins, Good,
           CachedPinWasAccepted, FoundPoints, ResolvedPoints, SessionPoints
<1>1. ASSUME NEW r \in Requests, NEW c \in Certs, NEW p \in PINs \cup {None},
             Arrive(r, c, p)
      PROVE  CacheInv'
  BY <1>1 DEF Arrive
<1>2. ASSUME NEW r \in Requests, Refuse(r) PROVE CacheInv'
  BY <1>2 DEF Refuse
<1>3. ASSUME NEW r \in Requests, FindCert(r) PROVE CacheInv'
  BY <1>3 DEF FindCert, Carriers
<1>4. ASSUME NEW r \in Requests, Miss(r) PROVE CacheInv'
  BY <1>4 DEF Miss
<1>5. ASSUME NEW r \in Requests, Detect(r) PROVE CacheInv'
  BY <1>5 DEF Detect
<1>6. ASSUME NEW r \in Requests, BadHash(r) PROVE CacheInv'
  BY <1>6 DEF BadHash
<1>7. ASSUME NEW r \in Requests, ResolvePin(r) PROVE CacheInv'
  BY <1>7 DEF ResolvePin
<1>8. ASSUME NEW r \in Requests, OpenSession(r) PROVE CacheInv'
  BY <1>8 DEF OpenSession, Target
<1>9. ASSUME NEW r \in Requests, LoginUnjudged(r) PROVE CacheInv'
  BY <1>9, ErrorMapType, CodeLiterals DEF LoginUnjudged
<1>10. ASSUME NEW r \in Requests, LoginLocked(r) PROVE CacheInv'
  <2>1. \A cp \in Certs \X PINs : verdict[cp] \in Good => verdict'[cp] \in Good
    <3> HIDE DEF CacheInv, Shape
    <3> QED BY <1>10, JudgeKeeps DEF LoginLocked
  <2>2. \A q \in Requests : pc[q] \in ResolvedPoints =>
          <<fp[q], pin[q]>> \in Certs \X PINs
    OBVIOUS
  <2>3. \A q \in Requests : /\ pc'[q] = IF q = r THEN "close" ELSE pc[q]
                            /\ code'[q] = "OK" => q # r /\ code[q] = "OK"
    BY <1>10, ErrorMapType, CodeLiterals, CKRLiterals DEF LoginLocked
  <2>4. UNCHANGED <<fp, pin, cache>>
    BY <1>10 DEF LoginLocked
  <2>5. AcceptedPins'
    BY <2>1, <2>2, <2>3, <2>4
  <2>6. CachedPinWasAccepted'
    BY <2>1, <2>4
  <2> QED BY <2>5, <2>6
<1>11. ASSUME NEW r \in Requests, LoginWrong(r) PROVE CacheInv'
  <2>1. \A cp \in Certs \X PINs : verdict[cp] \in Good => verdict'[cp] \in Good
    <3> HIDE DEF CacheInv, Shape
    <3> QED BY <1>11, JudgeKeeps DEF LoginWrong
  <2>2. \A q \in Requests : pc[q] \in ResolvedPoints =>
          <<fp[q], pin[q]>> \in Certs \X PINs
    OBVIOUS
  <2>3. \A q \in Requests : /\ pc'[q] = IF q = r THEN "close" ELSE pc[q]
                            /\ code'[q] = "OK" => q # r /\ code[q] = "OK"
    BY <1>11, ErrorMapType, CodeLiterals, CKRLiterals DEF LoginWrong
  <2>4. UNCHANGED <<fp, pin, cache>>
    BY <1>11 DEF LoginWrong
  <2>5. AcceptedPins'
    BY <2>1, <2>2, <2>3, <2>4
  <2>6. CachedPinWasAccepted'
    BY <2>1, <2>4
  <2> QED BY <2>5, <2>6
<1>12. ASSUME NEW r \in Requests, LoginOk(r) PROVE CacheInv'
  BY <1>12 DEF LoginOk, Judged, Judge
<1>13. ASSUME NEW r \in Requests, Sign(r) PROVE CacheInv'
  BY <1>13 DEF Sign
<1>14. ASSUME NEW r \in Requests, SignFault(r) PROVE CacheInv'
  BY <1>14 DEF SignFault
<1>15. ASSUME NEW r \in Requests, ReadCert(r) PROVE CacheInv'
  BY <1>15 DEF ReadCert
<1>16. ASSUME NEW r \in Requests, Logout(r) PROVE CacheInv'
  BY <1>16 DEF Logout
<1>17. ASSUME NEW r \in Requests, Close(r) PROVE CacheInv'
  BY <1>17 DEF Close
<1>18. ASSUME NEW r \in Requests, Fail(r) PROVE CacheInv'
  BY <1>18 DEF Fail
<1>19. ASSUME NEW r \in Requests, Remember(r) PROVE CacheInv'
  BY <1>19 DEF Remember
<1>20. ASSUME NEW r \in Requests, Answer(r) PROVE CacheInv'
  BY <1>20 DEF Answer, Reset
<1>21. ASSUME NEW s \in Slots, Unplug(s) PROVE CacheInv'
  BY <1>21 DEF Unplug, Live
<1>22. ASSUME NEW s \in Slots, NEW t \in Tokens, Insert(s, t) PROVE CacheInv'
  BY <1>22 DEF Insert
<1>23. ASSUME NEW t \in Tokens, NEW p \in PINs, ChangePin(t, p) PROVE CacheInv'
  BY <1>23 DEF ChangePin
<1>24. CASE Restart
  BY <1>24 DEF Restart, Reset
<1>25. CASE UNCHANGED vars
  BY <1>25 DEF vars
<1> QED
  BY <1>1, <1>2, <1>3, <1>4, <1>5, <1>6, <1>7, <1>8, <1>9, <1>10, <1>11,
     <1>12, <1>13, <1>14, <1>15, <1>16, <1>17, <1>18, <1>19, <1>20, <1>21,
     <1>22, <1>23, <1>24, <1>25
     DEF Next, Environment, HandleSign, SignHash

(* The cache only ever holds PINs a token has accepted in a request for that
   certificate, whatever became of them since.                             *)
THEOREM CachedPinIsGenuine == Spec => []CachedPinWasAccepted
<1>1. Init => CacheInv
  BY DEF Init, CacheInv, AcceptedPins, CachedPinWasAccepted
<1>2. CacheInv => CachedPinWasAccepted
  BY DEF CacheInv
<1> QED BY <1>1, <1>2, ShapeInvariant, CacheStep, PTL DEF Spec
-----------------------------------------------------------------------------
(* The points before C_Sign. *)
UnsignedPoints == {"idle", "gate", "missing", "resolve", "open", "login",
                   "sign"}

(* A session is on the token FindCertByFingerprint saw, for as long as there
   is one to remember; what was signed in it is of that token's first key. *)
KeyInv ==
    /\ \A r \in Requests :
         /\ pc[r] \in {"idle", "gate"} => found[r] = None
         /\ pc[r] \in UnsignedPoints => sig[r] = None
         /\ pc[r] \in UnsignedPoints \cup {"cert"} => der[r] = None
         /\ found[r] # None => fp[r] \in CertsOn[found[r]]
         /\ Live(r) /\ found[r] # None => Target(r) = found[r]
         /\ Live(r) /\ sig[r] # None => sig[r] = FirstKey[Target(r)]
    /\ OneTokenSigns

(* Every step keeps a request to its token.
   (FindCertByFingerprint, SignHash)                                       *)
LEMMA KeyStep ==
    TypeOK /\ Shape /\ KeyInv /\ [Next]_vars => KeyInv'
<1> SUFFICES ASSUME TypeOK, Shape, KeyInv, [Next]_vars
             PROVE  KeyInv'
  OBVIOUS
<1> USE DEF TypeOK, GoTo, Return, call, result, local, shared, slotVars,
           tokenVars, histVars, Shape, KeyInv, OneTokenSigns, Target, Live,
           FoundPoints, ResolvedPoints, SessionPoints, UnsignedPoints
<1>1. ASSUME NEW r \in Requests, NEW c \in Certs, NEW p \in PINs \cup {None},
             Arrive(r, c, p)
      PROVE  KeyInv'
  BY <1>1 DEF Arrive
<1>2. ASSUME NEW r \in Requests, Refuse(r) PROVE KeyInv'
  BY <1>2 DEF Refuse
<1>3. ASSUME NEW r \in Requests, FindCert(r) PROVE KeyInv'
  BY <1>3, NoneAssumption DEF FindCert, Carriers
<1>4. ASSUME NEW r \in Requests, Miss(r) PROVE KeyInv'
  BY <1>4 DEF Miss
<1>5. ASSUME NEW r \in Requests, Detect(r) PROVE KeyInv'
  BY <1>5 DEF Detect
<1>6. ASSUME NEW r \in Requests, BadHash(r) PROVE KeyInv'
  BY <1>6 DEF BadHash
<1>7. ASSUME NEW r \in Requests, ResolvePin(r) PROVE KeyInv'
  BY <1>7 DEF ResolvePin
<1>8. ASSUME NEW r \in Requests, OpenSession(r) PROVE KeyInv'
  BY <1>8 DEF OpenSession, Target
<1>9. ASSUME NEW r \in Requests, LoginUnjudged(r) PROVE KeyInv'
  BY <1>9 DEF LoginUnjudged
<1>10. ASSUME NEW r \in Requests, LoginLocked(r) PROVE KeyInv'
  BY <1>10 DEF LoginLocked, Judged, Judge
<1>11. ASSUME NEW r \in Requests, LoginWrong(r) PROVE KeyInv'
  BY <1>11 DEF LoginWrong, Judged, Judge
<1>12. ASSUME NEW r \in Requests, LoginOk(r) PROVE KeyInv'
  BY <1>12 DEF LoginOk, Judged, Judge
<1>13. ASSUME NEW r \in Requests, Sign(r) PROVE KeyInv'
  <2>1. Target(r) \in Tokens /\ der[r] = None /\ Live(r)
    BY <1>13 DEF Sign
  <2>2. sig' = [sig EXCEPT ![r] = FirstKey[Target(r)]]
    BY <1>13 DEF Sign
  <2>3. UNCHANGED <<fp, slot, found, sess, tok, der>>
    BY <1>13 DEF Sign
  <2>4. pc' = [pc EXCEPT ![r] = "cert"] /\ pc[r] = "sign"
    BY <1>13 DEF Sign
  <2>5. OneTokenSigns'
    BY <2>1, <2>2, <2>3
  <2> QED BY <2>1, <2>2, <2>3, <2>4, <2>5
<1>14. ASSUME NEW r \in Requests, SignFault(r) PROVE KeyInv'
  BY <1>14 DEF SignFault
<1>15. ASSUME NEW r \in Requests, ReadCert(r) PROVE KeyInv'
  <2>1. /\ UNCHANGED <<fp, slot, found, sess, tok, sig>>
        /\ pc' = [pc EXCEPT ![r] = "logout"] /\ pc[r] = "cert"
    BY <1>15 DEF ReadCert
  <2>2. PICK c \in Certs \cup {None} :
          /\ (Live(r) /\ c = FirstCert[Target(r)]) \/ c = None
          /\ der' = [der EXCEPT ![r] = c]
    BY <1>15 DEF ReadCert
  <2>3. Live(r) => Target(r) \in Tokens
    BY <2>1
  <2>4. \A q \in Requests \ {r} : der'[q] = der[q]
    BY <2>2
  <2>5. OneTokenSigns'
    <3> SUFFICES ASSUME NEW q \in Requests, sig[q] # None
                 PROVE  \E t \in Tokens :
                          /\ sig[q] = FirstKey[t]
                          /\ der'[q] \in {None, FirstCert[t]}
                          /\ found[q] # None =>
                               t = found[q] /\ fp[q] \in CertsOn[t]
      BY <2>1
    <3>1. CASE q = r /\ Live(r)
      <4>1. /\ Target(r) \in Tokens /\ sig[r] = FirstKey[Target(r)]
            /\ found[r] # None =>
                 Target(r) = found[r] /\ fp[r] \in CertsOn[found[r]]
        BY <3>1, <2>3
      <4>2. der'[r] \in {None, FirstCert[Target(r)]}
        BY <2>2
      <4> QED BY <3>1, <4>1, <4>2
    <3>2. CASE q = r /\ ~Live(r)
      BY <3>2, <2>2
    <3>3. CASE q # r
      BY <3>3, <2>4
    <3> QED BY <3>1, <3>2, <3>3
  <2>6. \A q \in Requests : pc'[q] \in UnsignedPoints \cup {"cert"} => q # r
    BY <2>1
  <2> QED BY <2>1, <2>4, <2>5, <2>6
<1>16. ASSUME NEW r \in Requests, Logout(r) PROVE KeyInv'
  BY <1>16 DEF Logout
<1>17. ASSUME NEW r \in Requests, Close(r) PROVE KeyInv'
  BY <1>17 DEF Close
<1>18. ASSUME NEW r \in Requests, Fail(r) PROVE KeyInv'
  BY <1>18 DEF Fail
<1>19. ASSUME NEW r \in Requests, Remember(r) PROVE KeyInv'
  BY <1>19 DEF Remember
<1>20. ASSUME NEW r \in Requests, Answer(r) PROVE KeyInv'
  BY <1>20 DEF Answer, Reset
<1>21. ASSUME NEW s \in Slots, Unplug(s) PROVE KeyInv'
  BY <1>21 DEF Unplug, Live
<1>22. ASSUME NEW s \in Slots, NEW t \in Tokens, Insert(s, t) PROVE KeyInv'
  BY <1>22 DEF Insert
<1>23. ASSUME NEW t \in Tokens, NEW p \in PINs, ChangePin(t, p) PROVE KeyInv'
  BY <1>23 DEF ChangePin
<1>24. CASE Restart
  BY <1>24 DEF Restart, Reset
<1>25. CASE UNCHANGED vars
  BY <1>25 DEF vars
<1> QED
  BY <1>1, <1>2, <1>3, <1>4, <1>5, <1>6, <1>7, <1>8, <1>9, <1>10, <1>11,
     <1>12, <1>13, <1>14, <1>15, <1>16, <1>17, <1>18, <1>19, <1>20, <1>21,
     <1>22, <1>23, <1>24, <1>25
     DEF Next, Environment, HandleSign, SignHash

(* Whatever is swapped, unplugged or run concurrently, the signature and the
   certificate of an answer are of one token, and that is the token in which
   the certificate asked for was found unless it was swapped before
   C_OpenSession.                                                          *)
THEOREM OneTokenAlwaysSigns == Spec => []OneTokenSigns
<1>1. Init => KeyInv
  BY DEF Init, KeyInv, OneTokenSigns, Live
<1>2. KeyInv => OneTokenSigns
  BY DEF KeyInv
<1> QED BY <1>1, <1>2, KeyStep, ShapeInvariant, PTL DEF Spec
-----------------------------------------------------------------------------
(* Burners lost a try to a PIN for c and have yet to Forget it; Armed took
   the cached PIN for c and have yet to log in with it.  While c is cached
   nobody has Forgotten since the last Set, so every lost try still has its
   burner; afterwards only those already Armed can lose one more.          *)
Burners(c) == {r \in Requests : /\ fp[r] = c /\ pc[r] \in {"close", "failed"}
                                /\ code[r] \in ForgetCodes}
Armed(c) == {r \in Requests : /\ fp[r] = c /\ pc[r] \in {"open", "login"}
                              /\ fromCache[r]}

BurnAt(c) ==
    IF cache[c] # None
    THEN burned[c] <= Cardinality(Burners(c))
    ELSE burned[c] + Cardinality(Armed(c)) <= Cardinality(Requests)

BurnInv == \A c \in Certs : BurnAt(c)

(* Two disjoint sets of requests have at most as many members as there are
   requests.                                                               *)
LEMMA PairCount ==
    ASSUME NEW B \in SUBSET Requests, NEW A \in SUBSET Requests, B \cap A = {}
    PROVE  /\ IsFiniteSet(B) /\ IsFiniteSet(A)
           /\ Cardinality(B) \in Nat /\ Cardinality(A) \in Nat
           /\ Cardinality(Requests) \in Nat
           /\ Cardinality(B) + Cardinality(A) <= Cardinality(Requests)
<1>1. IsFiniteSet(Requests) /\ IsFiniteSet(B) /\ IsFiniteSet(A)
  BY ConstantsAssumption, FS_Subset
<1>2. /\ Cardinality(B) \in Nat /\ Cardinality(A) \in Nat
      /\ Cardinality(Requests) \in Nat
  BY <1>1, FS_CardinalityType
<1>3. Cardinality(B \cap A) = 0
  BY FS_EmptySet
<1>4. Cardinality(B \cup A)
        = Cardinality(B) + Cardinality(A) - Cardinality(B \cap A)
  BY <1>1, FS_Union
<1>5. Cardinality(B \cup A) <= Cardinality(Requests)
  BY <1>1, FS_Subset
<1> QED BY <1>1, <1>2, <1>3, <1>4, <1>5

(* The requests that have burned a try and those armed to are disjoint sets.
   (HandleSign)                                                            *)
LEMMA BurnSets ==
    ASSUME NEW c
    PROVE  /\ Burners(c) \in SUBSET Requests /\ Armed(c) \in SUBSET Requests
           /\ Burners(c)' \in SUBSET Requests /\ Armed(c)' \in SUBSET Requests
           /\ Burners(c) \cap Armed(c) = {} /\ Burners(c)' \cap Armed(c)' = {}
BY DEF Burners, Armed

(* A step that takes no try, leaves the cache entry and arms nobody once the
   entry is empty keeps the bound.                                         *)
LEMMA BurnFrame ==
    ASSUME TypeOK, NEW c \in Certs, BurnAt(c), cache'[c] = cache[c],
           burned'[c] = burned[c], Burners(c) \subseteq Burners(c)',
           cache[c] = None => Armed(c)' \subseteq Armed(c)
    PROVE  BurnAt(c)'
<1>1. Cardinality(Burners(c)) <= Cardinality(Burners(c)')
  BY BurnSets, PairCount, FS_Subset
<1>2. cache[c] = None => Cardinality(Armed(c)') <= Cardinality(Armed(c))
  BY BurnSets, PairCount, FS_Subset
<1>3. /\ Cardinality(Burners(c)) \in Nat /\ Cardinality(Burners(c)') \in Nat
      /\ Cardinality(Armed(c)) \in Nat /\ Cardinality(Armed(c)') \in Nat
      /\ Cardinality(Requests) \in Nat
  BY BurnSets, PairCount
<1>4. burned[c] \in Nat
  BY DEF TypeOK
<1> QED BY <1>1, <1>2, <1>3, <1>4 DEF BurnAt

(* Every step keeps burned and armed handlers within the number of requests.
   (HandleSign, PINCache.Set, Forget)                                      *)
LEMMA BurnStep ==
    ASSUME TypeOK, Shape, [Next]_vars, NEW c \in Certs, BurnAt(c)
    PROVE  BurnAt(c)'
<1> USE DEF TypeOK, GoTo, Return, call, result, local, shared, slotVars,
           tokenVars, histVars, Shape, FoundPoints, ResolvedPoints,
           SessionPoints
<1>1. ASSUME NEW r \in Requests, NEW d \in Certs, NEW p \in PINs \cup {None},
             Arrive(r, d, p)
      PROVE  BurnAt(c)'
  <2>1. /\ cache'[c] = cache[c] /\ burned'[c] = burned[c]
        /\ Burners(c) \subseteq Burners(c)'
        /\ cache[c] = None => Armed(c)' \subseteq Armed(c)
    BY <1>1 DEF Arrive, Burners, Armed
  <2> QED BY <2>1, BurnFrame
<1>2. ASSUME NEW r \in Requests, Refuse(r) PROVE BurnAt(c)'
  <2>1. /\ cache'[c] = cache[c] /\ burned'[c] = burned[c]
        /\ Burners(c) \subseteq Burners(c)'
        /\ cache[c] = None => Armed(c)' \subseteq Armed(c)
    BY <1>2 DEF Refuse, Burners, Armed
  <2> QED BY <2>1, BurnFrame
<1>3. ASSUME NEW r \in Requests, FindCert(r) PROVE BurnAt(c)'
  <2>1. /\ cache'[c] = cache[c] /\ burned'[c] = burned[c]
        /\ Burners(c) \subseteq Burners(c)'
        /\ cache[c] = None => Armed(c)' \subseteq Armed(c)
    BY <1>3 DEF FindCert, Carriers, Burners, Armed
  <2> QED BY <2>1, BurnFrame
<1>4. ASSUME NEW r \in Requests, Miss(r) PROVE BurnAt(c)'
  <2>1. /\ cache'[c] = cache[c] /\ burned'[c] = burned[c]
        /\ Burners(c) \subseteq Burners(c)'
        /\ cache[c] = None => Armed(c)' \subseteq Armed(c)
    BY <1>4 DEF Miss, Burners, Armed
  <2> QED BY <2>1, BurnFrame
<1>5. ASSUME NEW r \in Requests, Detect(r) PROVE BurnAt(c)'
  <2>1. /\ cache'[c] = cache[c] /\ burned'[c] = burned[c]
        /\ Burners(c) \subseteq Burners(c)'
        /\ cache[c] = None => Armed(c)' \subseteq Armed(c)
    BY <1>5 DEF Detect, Burners, Armed
  <2> QED BY <2>1, BurnFrame
<1>6. ASSUME NEW r \in Requests, BadHash(r) PROVE BurnAt(c)'
  <2>1. /\ cache'[c] = cache[c] /\ burned'[c] = burned[c]
        /\ Burners(c) \subseteq Burners(c)'
        /\ cache[c] = None => Armed(c)' \subseteq Armed(c)
    BY <1>6 DEF BadHash, Burners, Armed
  <2> QED BY <2>1, BurnFrame
<1>7. ASSUME NEW r \in Requests, ResolvePin(r) PROVE BurnAt(c)'
  <2>1. /\ cache'[c] = cache[c] /\ burned'[c] = burned[c]
        /\ Burners(c) \subseteq Burners(c)'
        /\ cache[c] = None => Armed(c)' \subseteq Armed(c)
    BY <1>7 DEF ResolvePin, Burners, Armed
  <2> QED BY <2>1, BurnFrame
<1>8. ASSUME NEW r \in Requests, OpenSession(r) PROVE BurnAt(c)'
  <2>1. /\ cache'[c] = cache[c] /\ burned'[c] = burned[c]
        /\ Burners(c) \subseteq Burners(c)'
        /\ cache[c] = None => Armed(c)' \subseteq Armed(c)
    BY <1>8 DEF OpenSession, Target, Burners, Armed
  <2> QED BY <2>1, BurnFrame
<1>9. ASSUME NEW r \in Requests, LoginUnjudged(r) PROVE BurnAt(c)'
  <2>1. /\ cache'[c] = cache[c] /\ burned'[c] = burned[c]
        /\ Burners(c) \subseteq Burners(c)'
        /\ cache[c] = None => Armed(c)' \subseteq Armed(c)
    BY <1>9 DEF LoginUnjudged, Burners, Armed
  <2> QED BY <2>1, BurnFrame
<1>10. ASSUME NEW r \in Requests, LoginLocked(r) PROVE BurnAt(c)'
  <2>1. /\ cache'[c] = cache[c] /\ burned'[c] = burned[c]
        /\ Burners(c) \subseteq Burners(c)'
        /\ cache[c] = None => Armed(c)' \subseteq Armed(c)
    BY <1>10 DEF LoginLocked, Judged, Burners, Armed
  <2> QED BY <2>1, BurnFrame
<1>11. ASSUME NEW r \in Requests, LoginWrong(r) PROVE BurnAt(c)'
  <2>1. CASE fromCache[r] /\ fp[r] = c
    <3>1. burned[c] \in Nat /\ burned'[c] = burned[c] + 1 /\ cache'[c] = cache[c]
      BY <1>11, <2>1 DEF LoginWrong
    <3>2. r \notin Burners(c) /\ Burners(c)' = Burners(c) \cup {r}
      BY <1>11, <2>1 DEF LoginWrong, Judged, mapPKCS11Error, ForgetCodes,
                             Burners, Armed
    <3>3. r \in Armed(c) /\ Armed(c)' = Armed(c) \ {r}
      BY <1>11, <2>1 DEF LoginWrong, Judged, Burners, Armed
    <3>4. /\ Cardinality(Burners(c)') = Cardinality(Burners(c)) + 1
          /\ Cardinality(Armed(c)') = Cardinality(Armed(c)) - 1
      <4>1. IsFiniteSet(Burners(c)) /\ IsFiniteSet(Armed(c))
        BY BurnSets, PairCount
      <4>2. Cardinality(Burners(c) \cup {r}) = Cardinality(Burners(c)) + 1
        BY <3>2, <4>1, FS_AddElement
      <4>3. Cardinality(Armed(c) \ {r}) = Cardinality(Armed(c)) - 1
        BY <3>3, <4>1, FS_RemoveElement
      <4> QED BY <3>2, <3>3, <4>2, <4>3
    <3>5. /\ Cardinality(Burners(c)) \in Nat /\ Cardinality(Armed(c)) \in Nat
          /\ Cardinality(Requests) \in Nat
      BY BurnSets, PairCount
    <3> QED BY <3>1, <3>4, <3>5 DEF BurnAt
  <2>2. CASE ~(fromCache[r] /\ fp[r] = c)
    <3>1. /\ cache'[c] = cache[c] /\ burned'[c] = burned[c]
          /\ Burners(c) \subseteq Burners(c)' /\ Armed(c)' \subseteq Armed(c)
      BY <1>11, <2>2 DEF LoginWrong, Judged, Burners, Armed
    <3> QED BY <3>1, BurnFrame
  <2> QED BY <2>1, <2>2
<1>12. ASSUME NEW r \in Requests, LoginOk(r) PROVE BurnAt(c)'
  <2>1. /\ cache'[c] = cache[c] /\ burned'[c] = burned[c]
        /\ Burners(c) \subseteq Burners(c)'
        /\ cache[c] = None => Armed(c)' \subseteq Armed(c)
    BY <1>12 DEF LoginOk, Judged, Burners, Armed
  <2> QED BY <2>1, BurnFrame
<1>13. ASSUME NEW r \in Requests, Sign(r) PROVE BurnAt(c)'
  <2>1. /\ cache'[c] = cache[c] /\ burned'[c] = burned[c]
        /\ Burners(c) \subseteq Burners(c)'
        /\ cache[c] = None => Armed(c)' \subseteq Armed(c)
    BY <1>13 DEF Sign, Burners, Armed
  <2> QED BY <2>1, BurnFrame
<1>14. ASSUME NEW r \in Requests, SignFault(r) PROVE BurnAt(c)'
  <2>1. /\ cache'[c] = cache[c] /\ burned'[c] = burned[c]
        /\ Burners(c) \subseteq Burners(c)'
        /\ cache[c] = None => Armed(c)' \subseteq Armed(c)
    BY <1>14 DEF SignFault, Burners, Armed
  <2> QED BY <2>1, BurnFrame
<1>15. ASSUME NEW r \in Requests, ReadCert(r) PROVE BurnAt(c)'
  <2>1. /\ cache'[c] = cache[c] /\ burned'[c] = burned[c]
        /\ Burners(c) \subseteq Burners(c)'
        /\ cache[c] = None => Armed(c)' \subseteq Armed(c)
    BY <1>15 DEF ReadCert, Burners, Armed
  <2> QED BY <2>1, BurnFrame
<1>16. ASSUME NEW r \in Requests, Logout(r) PROVE BurnAt(c)'
  <2>1. /\ cache'[c] = cache[c] /\ burned'[c] = burned[c]
        /\ Burners(c) \subseteq Burners(c)'
        /\ cache[c] = None => Armed(c)' \subseteq Armed(c)
    BY <1>16 DEF Logout, Burners, Armed
  <2> QED BY <2>1, BurnFrame
<1>17. ASSUME NEW r \in Requests, Close(r) PROVE BurnAt(c)'
  <2>1. /\ cache'[c] = cache[c] /\ burned'[c] = burned[c]
        /\ Burners(c) \subseteq Burners(c)'
        /\ cache[c] = None => Armed(c)' \subseteq Armed(c)
    BY <1>17 DEF Close, Burners, Armed, ForgetCodes
  <2> QED BY <2>1, BurnFrame
<1>18. ASSUME NEW r \in Requests, Fail(r) PROVE BurnAt(c)'
  <2>1. CASE code[r] \in ForgetCodes /\ fp[r] = c
    <3>1. cache'[c] = None /\ burned'[c] = burned[c] /\ burned[c] \in Nat
      BY <1>18, <2>1 DEF Fail
    <3>2. Armed(c)' = Armed(c)
      BY <1>18 DEF Fail, Burners, Armed
    <3>3. /\ Cardinality(Burners(c)) \in Nat /\ Cardinality(Armed(c)) \in Nat
          /\ Cardinality(Requests) \in Nat
          /\ Cardinality(Burners(c)) + Cardinality(Armed(c))
               <= Cardinality(Requests)
      BY BurnSets, PairCount
    <3> QED BY <3>1, <3>2, <3>3 DEF BurnAt
  <2>2. CASE ~(code[r] \in ForgetCodes /\ fp[r] = c)
    <3>1. /\ cache'[c] = cache[c] /\ burned'[c] = burned[c]
          /\ Burners(c) \subseteq Burners(c)' /\ Armed(c)' \subseteq Armed(c)
      BY <1>18, <2>2 DEF Fail, Burners, Armed
    <3> QED BY <3>1, BurnFrame
  <2> QED BY <2>1, <2>2
<1>19. ASSUME NEW r \in Requests, Remember(r) PROVE BurnAt(c)'
  <2>1. CASE fp[r] = c
    <3>1. cache'[c] # None /\ burned'[c] = 0
      BY <1>19, <2>1 DEF Remember
    <3>2. Cardinality(Burners(c)') \in Nat
      BY BurnSets, PairCount
    <3> QED BY <3>1, <3>2 DEF BurnAt
  <2>2. CASE fp[r] # c
    <3>1. /\ cache'[c] = cache[c] /\ burned'[c] = burned[c]
          /\ Burners(c) \subseteq Burners(c)' /\ Armed(c)' \subseteq Armed(c)
      BY <1>19, <2>2 DEF Remember, Burners, Armed
    <3> QED BY <3>1, BurnFrame
  <2> QED BY <2>1, <2>2
<1>20. ASSUME NEW r \in Requests, Answer(r) PROVE BurnAt(c)'
  <2>1. /\ cache'[c] = cache[c] /\ burned'[c] = burned[c]
        /\ Burners(c) \subseteq Burners(c)'
        /\ cache[c] = None => Armed(c)' \subseteq Armed(c)
    BY <1>20 DEF Answer, Reset, Burners, Armed
  <2> QED BY <2>1, BurnFrame
<1>21. ASSUME NEW s \in Slots, Unplug(s) PROVE BurnAt(c)'
  <2>1. /\ cache'[c] = cache[c] /\ burned'[c] = burned[c]
        /\ Burners(c) \subseteq Burners(c)'
        /\ cache[c] = None => Armed(c)' \subseteq Armed(c)
    BY <1>21 DEF Unplug, Burners, Armed
  <2> QED BY <2>1, BurnFrame
<1>22. ASSUME NEW s \in Slots, NEW t \in Tokens, Insert(s, t) PROVE BurnAt(c)'
  <2>1. /\ cache'[c] = cache[c] /\ burned'[c] = burned[c]
        /\ Burners(c) \subseteq Burners(c)'
        /\ cache[c] = None => Armed(c)' \subseteq Armed(c)
    BY <1>22 DEF Insert, Burners, Armed
  <2> QED BY <2>1, BurnFrame
<1>23. ASSUME NEW t \in Tokens, NEW p \in PINs, ChangePin(t, p) PROVE BurnAt(c)'
  <2>1. /\ cache'[c] = cache[c] /\ burned'[c] = burned[c]
        /\ Burners(c) \subseteq Burners(c)'
        /\ cache[c] = None => Armed(c)' \subseteq Armed(c)
    BY <1>23 DEF ChangePin, Burners, Armed
  <2> QED BY <2>1, BurnFrame
<1>24. CASE Restart
  <2>1. cache'[c] = None /\ burned'[c] = 0 /\ Armed(c)' = {}
    BY <1>24 DEF Restart, Reset, Burners, Armed
  <2>2. Cardinality(Requests) \in Nat /\ Cardinality(Armed(c)') = 0
    BY <2>1, BurnSets, PairCount, FS_EmptySet
  <2> QED BY <2>1, <2>2 DEF BurnAt
<1>25. CASE UNCHANGED vars
  <2>1. /\ cache'[c] = cache[c] /\ burned'[c] = burned[c]
        /\ Burners(c) \subseteq Burners(c)' /\ Armed(c)' \subseteq Armed(c)
    BY <1>25 DEF vars, Burners, Armed
  <2> QED BY <2>1, BurnFrame
<1> QED
  BY <1>1, <1>2, <1>3, <1>4, <1>5, <1>6, <1>7, <1>8, <1>9, <1>10, <1>11,
     <1>12, <1>13, <1>14, <1>15, <1>16, <1>17, <1>18, <1>19, <1>20, <1>21,
     <1>22, <1>23, <1>24, <1>25
     DEF Next, Environment, HandleSign, SignHash

(* Whatever the interleaving, cached PINs cost a token at most one try per
   concurrent request until the user enters a PIN that works.              *)
THEOREM CachedPinBurnsLittle == Spec => []BurnBound
<1>1. Init => BurnInv
  <2> SUFFICES ASSUME Init, NEW c \in Certs PROVE BurnAt(c)
    BY DEF BurnInv
  <2>1. cache[c] = None /\ burned[c] = 0 /\ Armed(c) = {}
    BY DEF Init, Armed
  <2>2. Cardinality(Requests) \in Nat /\ Cardinality(Armed(c)) = 0
    BY <2>1, BurnSets, PairCount, FS_EmptySet
  <2> QED BY <2>1, <2>2 DEF BurnAt
<1>2. TypeOK /\ Shape /\ BurnInv /\ [Next]_vars => BurnInv'
  BY BurnStep DEF BurnInv
<1>3. TypeOK /\ BurnInv => BurnBound
  <2> SUFFICES ASSUME TypeOK, BurnInv, NEW c \in Certs
               PROVE  burned[c] <= Cardinality(Requests)
    BY DEF BurnBound
  <2>1. /\ Cardinality(Burners(c)) \in Nat /\ Cardinality(Armed(c)) \in Nat
        /\ Cardinality(Requests) \in Nat
        /\ Cardinality(Burners(c)) + Cardinality(Armed(c)) <= Cardinality(Requests)
    BY BurnSets, PairCount
  <2>2. burned[c] \in Nat
    BY DEF TypeOK
  <2> QED BY <2>1, <2>2 DEF BurnInv, BurnAt
<1> QED BY <1>1, <1>2, <1>3, ShapeInvariant, PTL DEF Spec
-----------------------------------------------------------------------------
(* One step of TriesTakenFromOwnToken. *)
TriesStep ==
    \A t \in Tokens : tries'[t] < tries[t] =>
      \E r \in Requests :
         /\ pc[r] = "login" /\ pc'[r] = "close" /\ Target(r) = t
         /\ found[r] # None => found[r] = t /\ fp[r] \in CertsOn[t]

(* Only LoginWrong and LoginOk, ChangePin aside, touch the counters. *)
LEMMA TriesKept ==
    ASSUME TypeOK, tries' = tries PROVE TriesStep
BY DEF TypeOK, TriesStep

(* A change of PIN, which restores the tries, takes none. *)
LEMMA TriesRefilled ==
    ASSUME TypeOK, NEW u \in Tokens, tries' = [tries EXCEPT ![u] = MaxTries]
    PROVE  TriesStep
<1>1. \A t \in Tokens : tries[t] \in 0..MaxTries /\ tries'[t] \in {tries[t], MaxTries}
  BY DEF TypeOK
<1> QED BY <1>1, ConstantsAssumption DEF TriesStep

(* A step that takes a try takes it from the token of the request.
   (SignHash)                                                              *)
LEMMA TriesOwn ==
    TypeOK /\ Shape /\ KeyInv /\ [Next]_vars => TriesStep \/ UNCHANGED vars
<1> SUFFICES ASSUME TypeOK, Shape, KeyInv, Next PROVE TriesStep
  BY Zenon
<1> USE DEF call, result, local, shared, slotVars, tokenVars, histVars
<1>1. ASSUME NEW r \in Requests, LoginWrong(r) PROVE TriesStep
  <2>1. Target(r) \in Tokens
    BY <1>1 DEF LoginWrong, Judged, Live, Target, TypeOK, Shape,
                FoundPoints, ResolvedPoints, SessionPoints
  <2>2. found[r] # None => found[r] = Target(r) /\ fp[r] \in CertsOn[Target(r)]
    BY <1>1 DEF LoginWrong, Judged, KeyInv
  <2>3. pc[r] = "login" /\ pc'[r] = "close"
    BY <1>1 DEF LoginWrong, Judged, Return, GoTo, TypeOK
  <2>4. \A t \in Tokens : tries'[t] < tries[t] => t = Target(r)
    BY <1>1 DEF LoginWrong, TypeOK
  <2> QED BY <2>2, <2>3, <2>4 DEF TriesStep
<1>2. ASSUME NEW r \in Requests, LoginOk(r) PROVE TriesStep
  <2>1. Target(r) \in Tokens
    BY <1>2 DEF LoginOk, Judged, Live, Target, TypeOK, Shape, FoundPoints,
                ResolvedPoints, SessionPoints
  <2> QED BY <1>2, <2>1, TriesRefilled DEF LoginOk
<1>3. ASSUME NEW t \in Tokens, NEW p \in PINs, ChangePin(t, p) PROVE TriesStep
  BY <1>3, TriesRefilled DEF ChangePin
<1>4. ASSUME NEW r \in Requests, HandleSign(r), ~LoginWrong(r), ~LoginOk(r)
      PROVE  tries' = tries
  BY <1>4 DEF HandleSign, SignHash, Refuse, FindCert, Miss, Detect, BadHash,
         ResolvePin, OpenSession, LoginUnjudged, LoginLocked, Sign, SignFault, ReadCert,
         Logout, Close, Fail, Remember, Answer
<1>5. ASSUME \/ \E r \in Requests, c \in Certs, p \in PINs \cup {None} : Arrive(r, c, p)
             \/ \E s \in Slots : Unplug(s)
             \/ \E s \in Slots, t \in Tokens : Insert(s, t)
             \/ Restart
      PROVE  tries' = tries
  BY <1>5 DEF Arrive, Unplug, Insert, Restart
<1> QED
  BY <1>1, <1>2, <1>3, <1>4, <1>5, TriesKept DEF Next, Environment

(* A request takes tries only from the token its session is on, which is the
   one its certificate was found in unless it was swapped before
   C_OpenSession.                                                          *)
THEOREM OwnTriesOnly == Spec => TriesTakenFromOwnToken
<1>1. Init => KeyInv
  BY DEF Init, KeyInv, OneTokenSigns, Live
<1>2. TypeOK /\ Shape /\ KeyInv /\ [Next]_vars => KeyInv'
  BY KeyStep
<1>3. TypeOK /\ Shape /\ KeyInv /\ [Next]_vars => [TriesStep]_vars
  BY TriesOwn
<1>4. [TriesStep]_vars <=>
        [\A t \in Tokens : tries'[t] < tries[t] =>
           \E r \in Requests :
              /\ pc[r] = "login" /\ pc'[r] = "close" /\ Target(r) = t
              /\ found[r] # None => found[r] = t /\ fp[r] \in CertsOn[t]]_vars
  BY DEF TriesStep
<1> QED
  BY <1>1, <1>2, <1>3, <1>4, ShapeInvariant, PTL DEF Spec, TriesTakenFromOwnToken
-----------------------------------------------------------------------------
(* BridgeSign implements TokenLease.  A signature exists only between C_Sign
   and the answer: what Acquire and Use need to find no older one.          *)
SigPoints == {"cert", "logout", "close", "failed", "remember", "answer"}

SignedInside == \A r \in Requests : sig[r] # None => pc[r] \in SigPoints

(* Every step keeps signatures to the points after C_Sign. (SignHash) *)
LEMMA SignedStep ==
    TypeOK /\ SignedInside /\ [Next]_vars => SignedInside'
<1> SUFFICES ASSUME TypeOK, SignedInside, [Next]_vars PROVE SignedInside'
  OBVIOUS
<1> USE DEF TypeOK, SignedInside, SigPoints, GoTo, Return, call, result, local,
            shared, slotVars
<1>1. ASSUME NEW r \in Requests, NEW c \in Certs, NEW p \in PINs \cup {None},
             Arrive(r, c, p)
      PROVE  SignedInside'
  BY <1>1 DEF Arrive
<1>2. ASSUME NEW r \in Requests, Refuse(r) PROVE SignedInside'
  BY <1>2 DEF Refuse
<1>3. ASSUME NEW r \in Requests, FindCert(r) PROVE SignedInside'
  BY <1>3 DEF FindCert
<1>4. ASSUME NEW r \in Requests, Miss(r) PROVE SignedInside'
  BY <1>4 DEF Miss
<1>5. ASSUME NEW r \in Requests, Detect(r) PROVE SignedInside'
  BY <1>5 DEF Detect
<1>6. ASSUME NEW r \in Requests, BadHash(r) PROVE SignedInside'
  BY <1>6 DEF BadHash
<1>7. ASSUME NEW r \in Requests, ResolvePin(r) PROVE SignedInside'
  BY <1>7 DEF ResolvePin
<1>8. ASSUME NEW r \in Requests, OpenSession(r) PROVE SignedInside'
  BY <1>8 DEF OpenSession
<1>9. ASSUME NEW r \in Requests, LoginUnjudged(r) PROVE SignedInside'
  BY <1>9 DEF LoginUnjudged
<1>10. ASSUME NEW r \in Requests, LoginLocked(r) PROVE SignedInside'
  BY <1>10 DEF LoginLocked, Judged
<1>11. ASSUME NEW r \in Requests, LoginWrong(r) PROVE SignedInside'
  BY <1>11 DEF LoginWrong, Judged
<1>12. ASSUME NEW r \in Requests, LoginOk(r) PROVE SignedInside'
  BY <1>12 DEF LoginOk, Judged
<1>13. ASSUME NEW r \in Requests, Sign(r) PROVE SignedInside'
  BY <1>13 DEF Sign
<1>14. ASSUME NEW r \in Requests, SignFault(r) PROVE SignedInside'
  BY <1>14 DEF SignFault
<1>15. ASSUME NEW r \in Requests, ReadCert(r) PROVE SignedInside'
  BY <1>15 DEF ReadCert
<1>16. ASSUME NEW r \in Requests, Logout(r) PROVE SignedInside'
  BY <1>16 DEF Logout
<1>17. ASSUME NEW r \in Requests, Close(r) PROVE SignedInside'
  BY <1>17 DEF Close
<1>18. ASSUME NEW r \in Requests, Fail(r) PROVE SignedInside'
  BY <1>18 DEF Fail
<1>19. ASSUME NEW r \in Requests, Remember(r) PROVE SignedInside'
  BY <1>19 DEF Remember
<1>20. ASSUME NEW r \in Requests, Answer(r) PROVE SignedInside'
  BY <1>20 DEF Answer, Reset
<1>21. ASSUME NEW s \in Slots, Unplug(s) PROVE SignedInside'
  BY <1>21 DEF Unplug
<1>22. ASSUME NEW s \in Slots, NEW t \in Tokens, Insert(s, t) PROVE SignedInside'
  BY <1>22 DEF Insert
<1>23. ASSUME NEW t \in Tokens, NEW p \in PINs, ChangePin(t, p) PROVE SignedInside'
  BY <1>23 DEF ChangePin
<1>24. CASE Restart
  BY <1>24 DEF Restart, Reset
<1>25. CASE UNCHANGED vars
  BY <1>25 DEF vars
<1> QED
  BY <1>1, <1>2, <1>3, <1>4, <1>5, <1>6, <1>7, <1>8, <1>9, <1>10, <1>11,
     <1>12, <1>13, <1>14, <1>15, <1>16, <1>17, <1>18, <1>19, <1>20, <1>21,
     <1>22, <1>23, <1>24, <1>25
     DEF Next, Environment, HandleSign, SignHash

(* Under LoginExclusive the mapping names the one request that is logged in,
   and no login is orphaned; before a step and after it.                   *)
LEMMA HolderNow ==
    ASSUME LoginExclusive, NEW s \in Slots
    PROVE  /\ ~login[s] => Holder(s) = None
           /\ login[s] => Holder(s) \in Requests /\ LoggedIn(Holder(s), s)
           /\ \A r \in Requests : LoggedIn(r, s) => Holder(s) = r
<1>1. login[s] => \E r \in Requests : LoggedIn(r, s)
  BY DEF LoginExclusive
<1>2. \A q, r \in Requests : LoggedIn(q, s) /\ LoggedIn(r, s) => q = r
  BY DEF LoginExclusive
<1>3. \A r \in Requests : LoggedIn(r, s) => login[s]
  BY DEF LoginExclusive
<1> QED BY <1>1, <1>2, <1>3 DEF Holder

(* After a step, too, the request that is logged in is the holder.
   (SignHash)                                                              *)
LEMMA HolderNext ==
    ASSUME LoginExclusive', NEW s \in Slots
    PROVE  /\ ~login'[s] => Holder(s)' = None
           /\ \A r \in Requests : LoggedIn(r, s)' => Holder(s)' = r
<1>1. \A q, r \in Requests : LoggedIn(q, s)' /\ LoggedIn(r, s)' => q = r
  BY DEF LoginExclusive
<1>2. \A r \in Requests : LoggedIn(r, s)' => login'[s]
  BY DEF LoginExclusive
<1> QED BY <1>1, <1>2 DEF Holder

(* The mapped variables, and what they hold. *)
HolderMap == [s \in Slots |-> Holder(s)]
SignedSet == {r \in Requests : sig[r] # None}

(* A slot whose login and whose logged-in request a step keeps has the same
   holder after it.                                                        *)
LEMMA HolderKept ==
    ASSUME LoginExclusive, LoginExclusive', NEW s \in Slots,
           login'[s] = login[s],
           \A r \in Requests : LoggedIn(r, s) => LoggedIn(r, s)'
    PROVE  Holder(s)' = Holder(s)
BY HolderNow, HolderNext

(* A step that moves neither a login nor a signature is a stutter of the lease. *)
LEMMA LeaseFrame ==
    ASSUME LoginExclusive, LoginExclusive', login' = login, sig' = sig,
           \A r \in Requests, s \in Slots : LoggedIn(r, s) => LoggedIn(r, s)'
    PROVE  UNCHANGED <<HolderMap, SignedSet>>
BY HolderKept DEF HolderMap, SignedSet

(* Only a request that is logged in holds a slot. *)
LEMMA HoldsOnlyLoggedIn ==
    ASSUME LoginExclusive, NEW r \in Requests,
           \E s \in Slots : HolderMap[s] = r
    PROVE  \E s \in Slots : LoggedIn(r, s)
BY HolderNow, NoneAssumption DEF HolderMap

(* Every step of signing is one of TokenLease or a stutter. (SignHash) *)
LEMMA LeaseStep ==
    ASSUME TypeOK, Shape, LoginExclusive, LoginExclusive', SignedInside,
           [Next]_vars
    PROVE  [Lease!Next]_<<HolderMap, SignedSet>>
<1> USE DEF TypeOK, GoTo, Return, call, result, local, shared, slotVars,
            tokenVars, LoggedIn, Live
<1>1. ASSUME NEW r \in Requests, NEW c \in Certs, NEW p \in PINs \cup {None},
             Arrive(r, c, p)
      PROVE  [Lease!Next]_<<HolderMap, SignedSet>>
  <2>1. \A q \in Requests, u \in Slots : LoggedIn(q, u) => LoggedIn(q, u)'
    BY <1>1 DEF Arrive
  <2>2. login' = login /\ sig' = sig
    BY <1>1 DEF Arrive
  <2> QED BY <2>1, <2>2, LeaseFrame
<1>2. ASSUME NEW r \in Requests, Refuse(r)
      PROVE  [Lease!Next]_<<HolderMap, SignedSet>>
  <2>1. \A q \in Requests, u \in Slots : LoggedIn(q, u) => LoggedIn(q, u)'
    BY <1>2 DEF Refuse
  <2>2. login' = login /\ sig' = sig
    BY <1>2 DEF Refuse
  <2> QED BY <2>1, <2>2, LeaseFrame
<1>3. ASSUME NEW r \in Requests, FindCert(r)
      PROVE  [Lease!Next]_<<HolderMap, SignedSet>>
  <2>1. \A q \in Requests, u \in Slots : LoggedIn(q, u) => LoggedIn(q, u)'
    BY <1>3 DEF FindCert
  <2>2. login' = login /\ sig' = sig
    BY <1>3 DEF FindCert
  <2> QED BY <2>1, <2>2, LeaseFrame
<1>4. ASSUME NEW r \in Requests, Miss(r)
      PROVE  [Lease!Next]_<<HolderMap, SignedSet>>
  <2>1. \A q \in Requests, u \in Slots : LoggedIn(q, u) => LoggedIn(q, u)'
    BY <1>4 DEF Miss
  <2>2. login' = login /\ sig' = sig
    BY <1>4 DEF Miss
  <2> QED BY <2>1, <2>2, LeaseFrame
<1>5. ASSUME NEW r \in Requests, Detect(r)
      PROVE  [Lease!Next]_<<HolderMap, SignedSet>>
  <2>1. \A q \in Requests, u \in Slots : LoggedIn(q, u) => LoggedIn(q, u)'
    BY <1>5 DEF Detect
  <2>2. login' = login /\ sig' = sig
    BY <1>5 DEF Detect
  <2> QED BY <2>1, <2>2, LeaseFrame
<1>6. ASSUME NEW r \in Requests, BadHash(r)
      PROVE  [Lease!Next]_<<HolderMap, SignedSet>>
  <2>1. \A q \in Requests, u \in Slots : LoggedIn(q, u) => LoggedIn(q, u)'
    BY <1>6 DEF BadHash
  <2>2. login' = login /\ sig' = sig
    BY <1>6 DEF BadHash
  <2> QED BY <2>1, <2>2, LeaseFrame
<1>7. ASSUME NEW r \in Requests, ResolvePin(r)
      PROVE  [Lease!Next]_<<HolderMap, SignedSet>>
  <2>1. \A q \in Requests, u \in Slots : LoggedIn(q, u) => LoggedIn(q, u)'
    BY <1>7 DEF ResolvePin
  <2>2. login' = login /\ sig' = sig
    BY <1>7 DEF ResolvePin
  <2> QED BY <2>1, <2>2, LeaseFrame
<1>8. ASSUME NEW r \in Requests, OpenSession(r)
      PROVE  [Lease!Next]_<<HolderMap, SignedSet>>
  <2>1. \A q \in Requests, u \in Slots : LoggedIn(q, u) => LoggedIn(q, u)'
    BY <1>8 DEF OpenSession
  <2>2. login' = login /\ sig' = sig
    BY <1>8 DEF OpenSession
  <2> QED BY <2>1, <2>2, LeaseFrame
<1>9. ASSUME NEW r \in Requests, LoginUnjudged(r)
      PROVE  [Lease!Next]_<<HolderMap, SignedSet>>
  <2>1. \A q \in Requests, u \in Slots : LoggedIn(q, u) => LoggedIn(q, u)'
    BY <1>9 DEF LoginUnjudged
  <2>2. login' = login /\ sig' = sig
    BY <1>9 DEF LoginUnjudged
  <2> QED BY <2>1, <2>2, LeaseFrame
<1>10. ASSUME NEW r \in Requests, LoginLocked(r)
      PROVE  [Lease!Next]_<<HolderMap, SignedSet>>
  <2>1. \A q \in Requests, u \in Slots : LoggedIn(q, u) => LoggedIn(q, u)'
    BY <1>10 DEF LoginLocked, Judged
  <2>2. login' = login /\ sig' = sig
    BY <1>10 DEF LoginLocked, Judged
  <2> QED BY <2>1, <2>2, LeaseFrame
<1>11. ASSUME NEW r \in Requests, LoginWrong(r)
      PROVE  [Lease!Next]_<<HolderMap, SignedSet>>
  <2>1. \A q \in Requests, u \in Slots : LoggedIn(q, u) => LoggedIn(q, u)'
    BY <1>11 DEF LoginWrong, Judged
  <2>2. login' = login /\ sig' = sig
    BY <1>11 DEF LoginWrong, Judged
  <2> QED BY <2>1, <2>2, LeaseFrame
<1>12. ASSUME NEW r \in Requests, LoginOk(r)
      PROVE  [Lease!Next]_<<HolderMap, SignedSet>>
  <2>1. PICK u \in Slots : u = slot[r] /\ LoggedIn(r, u)' /\ ~login[u]
    BY <1>12 DEF LoginOk, Judged, Shape, SessionPoints, ResolvedPoints, FoundPoints
  <2>2. HolderMap[u] = None /\ Holder(u)' = r
    BY <2>1, HolderNow, HolderNext DEF HolderMap
  <2>3. \A s \in Slots \ {u} : Holder(s)' = Holder(s)
    <3> SUFFICES ASSUME NEW s \in Slots, s # u PROVE Holder(s)' = Holder(s)
      OBVIOUS
    <3>1. login'[s] = login[s]
      BY <1>12, <2>1 DEF LoginOk
    <3>2. \A q \in Requests : LoggedIn(q, s) => LoggedIn(q, s)'
      BY <1>12, <2>1 DEF LoginOk, Judged
    <3> QED BY <3>1, <3>2, HolderKept
  <2>4. HolderMap' = [HolderMap EXCEPT ![u] = r]
    BY <2>1, <2>2, <2>3 DEF HolderMap
  <2>5. sig[r] = None /\ SignedSet' = SignedSet
    BY <1>12 DEF LoginOk, Judged, SignedInside, SigPoints, SignedSet
  <2>6. ~\E s \in Slots : HolderMap[s] = r
    BY <1>12, HoldsOnlyLoggedIn DEF LoginOk, Judged
  <2>7. Lease!Acquire(r, u)
    BY <2>2, <2>4, <2>5, <2>6 DEF Lease!Acquire, Lease!Holds, HolderMap, SignedSet
  <2> QED BY <2>1, <2>7 DEF Lease!Next, HolderMap, SignedSet
<1>13. ASSUME NEW r \in Requests, Sign(r)
      PROVE  [Lease!Next]_<<HolderMap, SignedSet>>
  <2>1. slot[r] \in Slots /\ LoggedIn(r, slot[r])
    BY <1>13 DEF Sign, Shape, SessionPoints, ResolvedPoints, FoundPoints
  <2>2. Lease!Holds(r)
    BY <2>1, HolderNow DEF Lease!Holds
  <2>3. sig[r] = None /\ SignedSet' = SignedSet \cup {r}
    <3>1. PICK k \in Certs : sig' = [sig EXCEPT ![r] = k]
      BY <1>13 DEF Sign
    <3>2. sig[r] = None
      BY <1>13 DEF Sign, SignedInside, SigPoints
    <3> QED BY <3>1, <3>2, NoneAssumption DEF SignedSet
  <2>4. HolderMap' = HolderMap
    <3>1. \A q \in Requests, s \in Slots : LoggedIn(q, s) => LoggedIn(q, s)'
      BY <1>13 DEF Sign
    <3>2. login' = login
      BY <1>13 DEF Sign
    <3> QED BY <3>1, <3>2, HolderKept DEF HolderMap
  <2>5. Lease!Use(r)
    BY <2>2, <2>3, <2>4 DEF Lease!Use, HolderMap, SignedSet
  <2> QED BY <2>5 DEF Lease!Next, HolderMap, SignedSet
<1>14. ASSUME NEW r \in Requests, SignFault(r)
      PROVE  [Lease!Next]_<<HolderMap, SignedSet>>
  <2>1. \A q \in Requests, u \in Slots : LoggedIn(q, u) => LoggedIn(q, u)'
    BY <1>14 DEF SignFault
  <2>2. login' = login /\ sig' = sig
    BY <1>14 DEF SignFault
  <2> QED BY <2>1, <2>2, LeaseFrame
<1>15. ASSUME NEW r \in Requests, ReadCert(r)
      PROVE  [Lease!Next]_<<HolderMap, SignedSet>>
  <2>1. \A q \in Requests, u \in Slots : LoggedIn(q, u) => LoggedIn(q, u)'
    BY <1>15 DEF ReadCert
  <2>2. login' = login /\ sig' = sig
    BY <1>15 DEF ReadCert
  <2> QED BY <2>1, <2>2, LeaseFrame
<1>16. ASSUME NEW r \in Requests, Logout(r)
      PROVE  [Lease!Next]_<<HolderMap, SignedSet>>
  <2>1. CASE ~Live(r)
    <3>1. \A q \in Requests, s \in Slots : LoggedIn(q, s) => LoggedIn(q, s)'
      BY <1>16, <2>1 DEF Logout
    <3>2. login' = login /\ sig' = sig
      BY <1>16, <2>1 DEF Logout
    <3> QED BY <3>1, <3>2, LeaseFrame
  <2>2. CASE Live(r)
    <3>1. PICK u \in Slots : u = slot[r] /\ LoggedIn(r, u)
      BY <1>16, <2>2 DEF Logout, Shape, SessionPoints, ResolvedPoints, FoundPoints
    <3>2. HolderMap[u] # None /\ Holder(u)' = None
      BY <1>16, <2>2, <3>1, HolderNow, HolderNext, NoneAssumption
         DEF Logout, HolderMap
    <3>3. \A s \in Slots \ {u} : Holder(s)' = Holder(s)
      <4> SUFFICES ASSUME NEW s \in Slots, s # u
                   PROVE  Holder(s)' = Holder(s)
        OBVIOUS
      <4>1. login'[s] = login[s]
        BY <1>16, <3>1 DEF Logout
      <4>2. \A q \in Requests : LoggedIn(q, s) => LoggedIn(q, s)'
        BY <1>16, <3>1 DEF Logout
      <4> QED BY <4>1, <4>2, HolderKept
    <3>4. HolderMap' = [HolderMap EXCEPT ![u] = None]
      BY <3>1, <3>2, <3>3 DEF HolderMap
    <3>5. SignedSet' = SignedSet
      BY <1>16 DEF Logout, SignedSet
    <3>6. Lease!Release(u)
      BY <3>2, <3>4, <3>5 DEF Lease!Release, HolderMap, SignedSet
    <3> QED BY <3>1, <3>6 DEF Lease!Next, HolderMap, SignedSet
  <2> QED BY <2>1, <2>2
<1>17. ASSUME NEW r \in Requests, Close(r)
      PROVE  [Lease!Next]_<<HolderMap, SignedSet>>
  <2>1. PICK u \in Slots : u = slot[r]
    BY <1>17 DEF Close, Shape, SessionPoints, ResolvedPoints, FoundPoints
  <2>2. LastSession(r) => ~\E q \in Requests : LoggedIn(q, u)
    BY <1>17, <2>1 DEF Close, LastSession
  <2>3. LastSession(r) => ~login[u]
    BY <2>2 DEF LoginExclusive
  <2>4. login' = login /\ sig' = sig
    BY <1>17, <2>1, <2>3 DEF Close
  <2>5. \A q \in Requests, s \in Slots : LoggedIn(q, s) => LoggedIn(q, s)'
    BY <1>17 DEF Close
  <2> QED BY <2>4, <2>5, LeaseFrame
<1>18. ASSUME NEW r \in Requests, Fail(r)
      PROVE  [Lease!Next]_<<HolderMap, SignedSet>>
  <2>1. \A q \in Requests, u \in Slots : LoggedIn(q, u) => LoggedIn(q, u)'
    BY <1>18 DEF Fail
  <2>2. login' = login /\ sig' = sig
    BY <1>18 DEF Fail
  <2> QED BY <2>1, <2>2, LeaseFrame
<1>19. ASSUME NEW r \in Requests, Remember(r)
      PROVE  [Lease!Next]_<<HolderMap, SignedSet>>
  <2>1. \A q \in Requests, u \in Slots : LoggedIn(q, u) => LoggedIn(q, u)'
    BY <1>19 DEF Remember
  <2>2. login' = login /\ sig' = sig
    BY <1>19 DEF Remember
  <2> QED BY <2>1, <2>2, LeaseFrame
<1>20. ASSUME NEW r \in Requests, Answer(r)
      PROVE  [Lease!Next]_<<HolderMap, SignedSet>>
  <2>1. \A q \in Requests, s \in Slots : LoggedIn(q, s) => LoggedIn(q, s)'
    BY <1>20 DEF Answer, Reset
  <2>2. login' = login
    BY <1>20 DEF Answer
  <2>3. HolderMap' = HolderMap
    BY <2>1, <2>2, HolderKept DEF HolderMap
  <2>4. SignedSet' = SignedSet \ {r}
    BY <1>20 DEF Answer, Reset, SignedSet
  <2>5. ~Lease!Holds(r)
    BY <1>20, HoldsOnlyLoggedIn DEF Answer, Lease!Holds, HolderMap
  <2>6. CASE r \in SignedSet
    <3>1. Lease!Deliver(r)
      BY <2>3, <2>4, <2>5, <2>6 DEF Lease!Deliver, HolderMap, SignedSet
    <3> QED BY <3>1 DEF Lease!Next, HolderMap, SignedSet
  <2>7. CASE r \notin SignedSet
    BY <2>3, <2>4, <2>7
  <2> QED BY <2>6, <2>7
<1>21. ASSUME NEW s \in Slots, Unplug(s)
      PROVE  [Lease!Next]_<<HolderMap, SignedSet>>
  <2>1. ~login'[s] /\ sig' = sig
    BY <1>21 DEF Unplug
  <2>2. \A u \in Slots \ {s} : Holder(u)' = Holder(u)
    <3> SUFFICES ASSUME NEW u \in Slots, u # s PROVE Holder(u)' = Holder(u)
      OBVIOUS
    <3>1. login'[u] = login[u]
      BY <1>21 DEF Unplug
    <3>2. \A q \in Requests : LoggedIn(q, u) => LoggedIn(q, u)'
      BY <1>21 DEF Unplug
    <3> QED BY <3>1, <3>2, HolderKept
  <2>3. Holder(s)' = None
    BY <2>1, HolderNext
  <2>4. HolderMap' = [HolderMap EXCEPT ![s] = None] /\ SignedSet' = SignedSet
    BY <2>1, <2>2, <2>3 DEF HolderMap, SignedSet
  <2>5. CASE HolderMap[s] = None
    BY <2>4, <2>5 DEF HolderMap
  <2>6. CASE HolderMap[s] # None
    <3>1. Lease!Release(s)
      BY <2>4, <2>6 DEF Lease!Release, HolderMap, SignedSet
    <3> QED BY <3>1 DEF Lease!Next, HolderMap, SignedSet
  <2> QED BY <2>5, <2>6
<1>22. ASSUME NEW s \in Slots, NEW t \in Tokens, Insert(s, t)
      PROVE  [Lease!Next]_<<HolderMap, SignedSet>>
  <2>1. \A q \in Requests, u \in Slots : LoggedIn(q, u) => LoggedIn(q, u)'
    BY <1>22 DEF Insert
  <2>2. login' = login /\ sig' = sig
    BY <1>22 DEF Insert
  <2> QED BY <2>1, <2>2, LeaseFrame
<1>23. ASSUME NEW t \in Tokens, NEW p \in PINs, ChangePin(t, p)
      PROVE  [Lease!Next]_<<HolderMap, SignedSet>>
  <2>1. \A q \in Requests, u \in Slots : LoggedIn(q, u) => LoggedIn(q, u)'
    BY <1>23 DEF ChangePin
  <2>2. login' = login /\ sig' = sig
    BY <1>23 DEF ChangePin
  <2> QED BY <2>1, <2>2, LeaseFrame
<1>24. CASE Restart
  <2>1. \A s \in Slots : ~login'[s]
    BY <1>24 DEF Restart
  <2>2. HolderMap' = [s \in Slots |-> None]
    BY <2>1, HolderNext DEF HolderMap
  <2>3. SignedSet' = {}
    BY <1>24 DEF Restart, Reset, SignedSet
  <2>4. Lease!LoseAll
    BY <2>2, <2>3 DEF Lease!LoseAll, HolderMap, SignedSet
  <2> QED BY <2>4 DEF Lease!Next, HolderMap, SignedSet
<1>25. CASE UNCHANGED vars
  <2>1. \A q \in Requests, u \in Slots : LoggedIn(q, u) => LoggedIn(q, u)'
    BY <1>25 DEF vars
  <2>2. login' = login /\ sig' = sig
    BY <1>25 DEF vars
  <2> QED BY <2>1, <2>2, LeaseFrame
<1> QED
  BY <1>1, <1>2, <1>3, <1>4, <1>5, <1>6, <1>7, <1>8, <1>9, <1>10, <1>11,
     <1>12, <1>13, <1>14, <1>15, <1>16, <1>17, <1>18, <1>19, <1>20, <1>21,
     <1>22, <1>23, <1>24, <1>25
     DEF Next, Environment, HandleSign, SignHash

(* Signing implements the lease: for any number of concurrent requests a
   signature is made only while its request alone holds the slot, and leaves
   the handler only after the slot was given back.                         *)
THEOREM SigningImplementsLease == Spec => ImplementsTokenLease
<1>1. Init => Lease!Init
  <2> SUFFICES ASSUME Init PROVE Lease!Init
    OBVIOUS
  <2>1. \A s \in Slots : Holder(s) = None
    BY DEF Init, Holder
  <2>2. {r \in Requests : sig[r] # None} = {}
    BY DEF Init
  <2> QED BY <2>1, <2>2 DEF Lease!Init
<1>2. Init => SignedInside
  BY DEF Init, SignedInside
<1>3. /\ TypeOK /\ Shape /\ SignedInside
      /\ LoginExclusive /\ LoginExclusive' /\ [Next]_vars
      => [Lease!Next]_Lease!leaseVars
  BY LeaseStep DEF Lease!leaseVars, HolderMap, SignedSet
<1> QED
  BY <1>1, <1>2, <1>3, SignedStep, ShapeInvariant, LoginIsExclusive, PTL
     DEF Spec, ImplementsTokenLease, Lease!Spec
=============================================================================

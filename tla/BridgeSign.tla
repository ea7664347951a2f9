----------------------------- MODULE BridgeSign -----------------------------
(***************************************************************************)
(* POST /v1/sign of the bridge: any number of HandleSign calls run at the  *)
(* same time (net/http gives each its own goroutine) and share the PIN     *)
(* cache and the PKCS#11 tokens.  PINCache serialises each of its methods  *)
(* with a mutex and FindCertByFingerprint runs under PKCS11Handler.mu, but *)
(* SignHash takes no lock: its C_OpenSession, C_Login, C_Sign, C_Logout    *)
(* and C_CloseSession interleave with those of other calls and with people *)
(* who unplug, swap and re-PIN tokens.                                     *)
(*                                                                         *)
(* Certificates stand for their fingerprints and for the key pair they     *)
(* certify.  A slot stands for the (context, slot) pair the code passes.   *)
(***************************************************************************)
EXTENDS Naturals, FiniteSets

CONSTANTS
    Requests,     \* concurrent HandleSign calls
    Slots,        \* (PKCS#11 context, slot) pairs
    Tokens,       \* USB tokens
    Certs,        \* certificates
    PINs,         \* non-empty PIN strings
    Fits,         \* Fits[s]: the tokens people plug into slot s
    CertsOn,      \* CertsOn[t]: the certificates stored on token t
    FirstKey,     \* FirstKey[t]: the key FindObjects(.., 1) returns first
    FirstCert,    \* FirstCert[t]: the certificate it returns first
    MaxTries,     \* wrong PINs a token takes before it locks
    MaxEvents,    \* bound on unplug, insert, re-PIN and restart events
    FlakyDriver,  \* the driver may fail a call for reasons of its own
    None          \* "no value": an empty PIN, cache entry, slot, key...

ASSUME ConstantsAssumption ==
    /\ Fits \in [Slots -> SUBSET Tokens]
    /\ CertsOn \in [Tokens -> SUBSET Certs]
    /\ FirstKey \in [Tokens -> Certs \cup {None}]
    /\ FirstCert \in [Tokens -> Certs \cup {None}]
    /\ MaxTries \in Nat \ {0}
    /\ MaxEvents \in Nat
    /\ FlakyDriver \in BOOLEAN
    /\ IsFiniteSet(Requests)

ASSUME NoneAssumption ==
    None \notin Requests \cup Slots \cup Tokens \cup Certs \cup PINs

VARIABLES
    pc,         \* pc[r]: the point HandleSign(r) has reached
    fp,         \* fp[r]: req.ExpectedFingerprint
    pin,        \* pin[r]: req.PIN, then the local variable pin
    fromCache,  \* fromCache[r]: pin[r] came from PINCache.Get
    slot,       \* slot[r]: what FindCertByFingerprint returned
    sess,       \* sess[r]: SignHash's session
    sig,        \* sig[r]: the key that signed
    der,        \* der[r]: the certificate SignHash read for the answer
    code,       \* code[r]: the code to answer with
    cache,      \* PINCache.pins
    tok,        \* tok[s]: the token in slot s
    login,      \* login[s]: the process is logged in to the token in s
    pinOf,      \* pinOf[t]: the user PIN of token t
    tries,      \* tries[t]: wrong PINs token t still takes
    verdict,    \* history: the answers of C_Login to a PIN, per certificate
    burned,     \* history: tries lost to cached PINs since the last Set
    found,      \* history: the token FindCertByFingerprint saw, while it is
                \* the one request r talks to
    events      \* environment events so far

call      == <<fp, pin, fromCache>>
result    == <<sig, der>>
local     == <<pc, call, slot, found, sess, result, code>>
slotVars  == <<tok, login>>
tokenVars == <<pinOf, tries>>
histVars  == <<verdict, burned>>
shared    == <<cache, slotVars, tokenVars, histVars, events>>
vars      == <<local, shared>>

Points == {"idle", "gate", "missing", "resolve", "open", "login", "sign",
           "cert", "logout", "close", "failed", "remember", "answer"}

ErrorCodes == {"REFUSED", "TOKEN_NOT_FOUND", "CERT_NOT_FOUND", "PIN_CANCELLED",
               "PIN_INCORRECT", "PIN_LOCKED", "PIN_REQUIRED",
               "UNSUPPORTED_ALGORITHM", "INTERNAL_ERROR"}

(* The return values of C_Login and C_Sign that matter, and the domain code
   mapPKCS11Error gives each; every other one is an INTERNAL_ERROR.        *)
CKR == {"PIN_INCORRECT", "PIN_LOCKED", "FUNCTION_CANCELED", "DEVICE_REMOVED",
        "MECHANISM_INVALID", "KEY_HANDLE_INVALID", "USER_ALREADY_LOGGED_IN",
        "SESSION_HANDLE_INVALID", "GENERAL_ERROR"}

mapPKCS11ErrorRaw(ck) == ck                  \* slip: no mapping at all

mapPKCS11Error(ck) ==
    CASE ck = "PIN_INCORRECT"      -> "PIN_INCORRECT"
      [] ck = "PIN_LOCKED"         -> "PIN_LOCKED"
      [] ck = "FUNCTION_CANCELED"  -> "PIN_CANCELLED"
      [] ck = "DEVICE_REMOVED"     -> "TOKEN_NOT_FOUND"
      [] ck = "MECHANISM_INVALID"  -> "UNSUPPORTED_ALGORITHM"
      [] ck = "KEY_HANDLE_INVALID" -> "CERT_NOT_FOUND"
      [] OTHER                     -> "INTERNAL_ERROR"

RemovedFaults == {"DEVICE_REMOVED", "SESSION_HANDLE_INVALID"}
DriverFaults  == {"FUNCTION_CANCELED", "MECHANISM_INVALID",
                  "KEY_HANDLE_INVALID", "GENERAL_ERROR"}

(* The codes after which HandleSign drops the cached PIN. *)
ForgetCodesLockedOnly == {"PIN_LOCKED"}      \* slip: a wrong PIN stays

ForgetCodes == {"PIN_INCORRECT", "PIN_LOCKED"}

(* The slots in which FindCertByFingerprint sees certificate c. *)
CarriersAny(c) == {s \in Slots : tok[s] # None}    \* slip: any token will do

Carriers(c) == {s \in Slots : tok[s] # None /\ c \in CertsOn[tok[s]]}

(* The token and the session that SignHash(r) talks to. *)
Target(r) == tok[slot[r]]
Live(r)   == sess[r] = "open"
-----------------------------------------------------------------------------
(* What C_Login has answered to a PIN: nothing yet, accepted at the last try,
   rejected at every try, or accepted before and rejected at the last try.  *)
Verdicts == {"untried", "accepted", "rejected", "revoked"}

TypeOK ==
    /\ pc \in [Requests -> Points]
    /\ fp \in [Requests -> Certs \cup {None}]
    /\ pin \in [Requests -> PINs \cup {None}]
    /\ fromCache \in [Requests -> BOOLEAN]
    /\ slot \in [Requests -> Slots \cup {None}]
    /\ sess \in [Requests -> {"none", "open", "dead"}]
    /\ sig \in [Requests -> Certs \cup {None}]
    /\ der \in [Requests -> Certs \cup {None}]
    /\ code \in [Requests -> ErrorCodes \cup {"none", "OK"}]
    /\ cache \in [Certs -> PINs \cup {None}]
    /\ tok \in [Slots -> Tokens \cup {None}]
    /\ login \in [Slots -> BOOLEAN]
    /\ pinOf \in [Tokens -> PINs]
    /\ tries \in [Tokens -> 0..MaxTries]
    /\ verdict \in [Certs \X PINs -> Verdicts]
    /\ burned \in [Certs -> Nat]
    /\ found \in [Requests -> Tokens \cup {None}]
    /\ events \in 0..MaxEvents

(* Token placements the world allows: a token sits in one slot at most. *)
Placement(f) ==
    /\ \A s \in Slots : f[s] \in Fits[s] \cup {None}
    /\ \A s1, s2 \in Slots : f[s1] = f[s2] /\ f[s1] # None => s1 = s2

Init ==
    /\ pc = [r \in Requests |-> "idle"]
    /\ fp = [r \in Requests |-> None]
    /\ pin = [r \in Requests |-> None]
    /\ fromCache = [r \in Requests |-> FALSE]
    /\ slot = [r \in Requests |-> None]
    /\ found = [r \in Requests |-> None]
    /\ sess = [r \in Requests |-> "none"]
    /\ sig = [r \in Requests |-> None]
    /\ der = [r \in Requests |-> None]
    /\ code = [r \in Requests |-> "none"]
    /\ cache = [c \in Certs |-> None]
    /\ tok \in {f \in [Slots -> Tokens \cup {None}] : Placement(f)}
    /\ login = [s \in Slots |-> FALSE]
    /\ pinOf \in [Tokens -> PINs]
    /\ tries = [t \in Tokens |-> MaxTries]
    /\ verdict = [cp \in Certs \X PINs |-> "untried"]
    /\ burned = [c \in Certs |-> 0]
    /\ events = 0
-----------------------------------------------------------------------------
(* Move to point p; leave for p with the answer's code settled. *)
GoTo(r, p)      == pc' = [pc EXCEPT ![r] = p]
Return(r, c, p) == GoTo(r, p) /\ code' = [code EXCEPT ![r] = c]

(* The requests in R have left no trace. *)
Reset(R) ==
    /\ pc' = [r \in Requests |-> IF r \in R THEN "idle" ELSE pc[r]]
    /\ fp' = [r \in Requests |-> IF r \in R THEN None ELSE fp[r]]
    /\ pin' = [r \in Requests |-> IF r \in R THEN None ELSE pin[r]]
    /\ fromCache' = [r \in Requests |-> r \notin R /\ fromCache[r]]
    /\ slot' = [r \in Requests |-> IF r \in R THEN None ELSE slot[r]]
    /\ found' = [r \in Requests |-> IF r \in R THEN None ELSE found[r]]
    /\ sess' = [r \in Requests |-> IF r \in R THEN "none" ELSE sess[r]]
    /\ sig' = [r \in Requests |-> IF r \in R THEN None ELSE sig[r]]
    /\ der' = [r \in Requests |-> IF r \in R THEN None ELSE der[r]]
    /\ code' = [r \in Requests |-> IF r \in R THEN "none" ELSE code[r]]

(* A request for certificate c; p is None when the body has no PIN. *)
Arrive(r, c, p) ==
    /\ pc[r] = "idle"
    /\ fp' = [fp EXCEPT ![r] = c]
    /\ pin' = [pin EXCEPT ![r] = p]
    /\ GoTo(r, "gate")
    /\ UNCHANGED <<fromCache, slot, found, sess, result, code, shared>>

(* The early returns: wrong method, body or algorithm, and the HMAC gate.
   What they decide on does not change here, so they are one choice.       *)
Refuse(r) ==
    /\ pc[r] = "gate"
    /\ Return(r, "REFUSED", "answer")
    /\ UNCHANGED <<call, slot, found, sess, result, shared>>

(* FindCertByFingerprint, under PKCS11Handler.mu.  Contexts are visited in
   map order, so of several carriers any one may be found.                 *)
FindCert(r) ==
    /\ pc[r] = "gate"
    /\ \E s \in Carriers(fp[r]) :
         /\ slot' = [slot EXCEPT ![r] = s]
         /\ found' = [found EXCEPT ![r] = tok[s]]
    /\ GoTo(r, "resolve")
    /\ UNCHANGED <<call, sess, result, code, shared>>

(* ... or it finds none: slots the driver fails on are skipped silently. *)
Miss(r) ==
    /\ pc[r] = "gate"
    /\ Carriers(fp[r]) = {} \/ FlakyDriver
    /\ GoTo(r, "missing")
    /\ UNCHANGED <<call, slot, found, sess, result, code, shared>>

(* DetectTokens, under the same mutex but a later critical section. *)
Detect(r) ==
    /\ pc[r] = "missing"
    /\ LET anyToken == \E s \in Slots : tok[s] # None
       IN  Return(r, IF anyToken THEN "CERT_NOT_FOUND" ELSE "TOKEN_NOT_FOUND",
                  "answer")
    /\ UNCHANGED <<call, slot, found, sess, result, shared>>

(* hash_to_sign is not hexadecimal. *)
BadHash(r) ==
    /\ pc[r] = "resolve"
    /\ Return(r, "INTERNAL_ERROR", "answer")
    /\ UNCHANGED <<call, slot, found, sess, result, shared>>

(* The PIN of the body wins; without one, PINCache.Get; without that, the
   caller is told to prompt.  C_Login never sees an empty PIN.             *)
ResolvePin(r) ==
    LET cached == cache[fp[r]] IN
    /\ pc[r] = "resolve"
    /\ \/ /\ pin[r] # None
          /\ GoTo(r, "open")
          /\ UNCHANGED <<pin, fromCache, code>>
       \/ /\ pin[r] = None /\ cached # None
          /\ pin' = [pin EXCEPT ![r] = cached]
          /\ fromCache' = [fromCache EXCEPT ![r] = TRUE]
          /\ GoTo(r, "open")
          /\ UNCHANGED code
       \/ /\ pin[r] = None /\ cached = None
          /\ Return(r, "PIN_REQUIRED", "answer")
          /\ UNCHANGED <<pin, fromCache>>
    /\ UNCHANGED <<fp, slot, found, sess, result, shared>>
-----------------------------------------------------------------------------
(* SignHash.  C_OpenSession works on whatever token is in the slot now. *)
OpenSession(r) ==
    /\ pc[r] = "open"
    /\ \/ /\ Target(r) # None
          /\ sess' = [sess EXCEPT ![r] = "open"]
          /\ GoTo(r, "login")
          /\ UNCHANGED code
       \/ /\ Target(r) = None
          /\ Return(r, mapPKCS11Error("DEVICE_REMOVED"), "failed")
          /\ UNCHANGED sess
       \/ /\ FlakyDriver
          /\ Return(r, mapPKCS11Error("GENERAL_ERROR"), "failed")
          /\ UNCHANGED sess
    /\ found' = [found EXCEPT ![r] = IF @ = Target(r) THEN @ ELSE None]
    /\ UNCHANGED <<call, slot, result, shared>>

(* C_Login, its outcomes in the order a token checks them.  An error leaves
   SignHash through the deferred CloseSession: Logout is not deferred yet. *)
Judge(r, accepts) ==
    verdict' = [verdict EXCEPT ![<<fp[r], pin[r]>>] =
                  IF accepts THEN "accepted"
                  ELSE IF @ \in {"accepted", "revoked"} THEN "revoked"
                  ELSE "rejected"]

LoginRetrying(r) ==       \* slip: a login that fails is tried again
    /\ pc[r] = "login"
    /\ ~Live(r) \/ login[slot[r]]
    /\ UNCHANGED vars

LoginUnjudged(r) ==
    /\ pc[r] = "login"
    /\ \E ck \in CKR :
         /\ \/ ~Live(r) /\ ck \in RemovedFaults
            \/ Live(r) /\ login[slot[r]] /\ ck = "USER_ALREADY_LOGGED_IN"
            \/ FlakyDriver /\ ck \in {"FUNCTION_CANCELED", "GENERAL_ERROR"}
         /\ Return(r, mapPKCS11Error(ck), "close")
    /\ UNCHANGED <<call, slot, found, sess, result, shared>>

Judged(r) == pc[r] = "login" /\ Live(r) /\ ~login[slot[r]]

LoginLocked(r) ==
    /\ Judged(r) /\ tries[Target(r)] = 0
    /\ Judge(r, FALSE)
    /\ Return(r, mapPKCS11Error("PIN_LOCKED"), "close")
    /\ UNCHANGED <<call, slot, found, sess, result, cache, slotVars, tokenVars,
                   burned, events>>

LoginWrong(r) ==
    /\ Judged(r) /\ tries[Target(r)] > 0 /\ pin[r] # pinOf[Target(r)]
    /\ tries' = [tries EXCEPT ![Target(r)] = @ - 1]
    /\ burned' = IF fromCache[r]
                 THEN [burned EXCEPT ![fp[r]] = @ + 1] ELSE burned
    /\ Judge(r, FALSE)
    /\ Return(r, mapPKCS11Error("PIN_INCORRECT"), "close")
    /\ UNCHANGED <<call, slot, found, sess, result, cache, slotVars, pinOf,
                   events>>

LoginOk(r) ==
    /\ Judged(r) /\ tries[Target(r)] > 0 /\ pin[r] = pinOf[Target(r)]
    /\ login' = [login EXCEPT ![slot[r]] = TRUE]
    /\ tries' = [tries EXCEPT ![Target(r)] = MaxTries]
    /\ Judge(r, TRUE)
    /\ GoTo(r, "sign")
    /\ UNCHANGED <<call, slot, found, sess, result, code, cache, tok, pinOf,
                   burned, events>>

(* FindObjects(.., 1) over the private keys, C_SignInit and C_Sign: the key
   used is the first the token lists, whatever fingerprint was asked for.  *)
Sign(r) ==
    /\ pc[r] = "sign" /\ Live(r)
    /\ \E k \in Certs : k = FirstKey[Target(r)] /\ sig' = [sig EXCEPT ![r] = k]
    /\ GoTo(r, "cert")
    /\ UNCHANGED <<call, slot, found, sess, der, code, shared>>

(* After a C_Login that succeeded, an error runs the deferred Logout too. *)
SignFaultNoLogout(r) ==   \* slip: Logout called on the good path only
    /\ pc[r] = "sign"
    /\ ~Live(r) \/ FirstKey[Target(r)] = None \/ FlakyDriver
    /\ Return(r, "INTERNAL_ERROR", "close")
    /\ UNCHANGED <<call, slot, found, sess, result, shared>>

SignFault(r) ==
    /\ pc[r] = "sign"
    /\ \E ck \in CKR :
         /\ \/ ~Live(r) /\ ck \in RemovedFaults
            \/ Live(r) /\ FirstKey[Target(r)] = None /\ ck = "GENERAL_ERROR"
            \/ FlakyDriver /\ ck \in DriverFaults
         /\ Return(r, mapPKCS11Error(ck), "logout")
    /\ UNCHANGED <<call, slot, found, sess, result, shared>>

ReadCertReopened(r) ==    \* slip: in a session of its own
    /\ pc[r] = "cert"
    /\ der' = [der EXCEPT ![r] = IF Target(r) = None THEN None
                                 ELSE FirstCert[Target(r)]]
    /\ Return(r, "OK", "logout")
    /\ UNCHANGED <<call, slot, found, sess, sig, shared>>

(* Read the first certificate for the answer.  Errors are ignored: the
   certificate is then empty and SignHash still succeeds.                  *)
ReadCert(r) ==
    /\ pc[r] = "cert"
    /\ \E c \in Certs \cup {None} :
         /\ \/ Live(r) /\ c = FirstCert[Target(r)]
            \/ (~Live(r) \/ FlakyDriver) /\ c = None
         /\ der' = [der EXCEPT ![r] = c]
    /\ Return(r, "OK", "logout")
    /\ UNCHANGED <<call, slot, found, sess, sig, shared>>

(* The deferred C_Logout: on a dead session it fails, which is ignored. *)
LogoutNever(r) ==         \* slip: relies on C_CloseSession to log out
    /\ pc[r] = "logout"
    /\ GoTo(r, "close")
    /\ UNCHANGED <<call, slot, found, sess, result, code, shared>>

Logout(r) ==
    /\ pc[r] = "logout"
    /\ login' = IF Live(r) THEN [login EXCEPT ![slot[r]] = FALSE] ELSE login
    /\ GoTo(r, "close")
    /\ UNCHANGED <<call, slot, found, sess, result, code, cache, tok,
                   tokenVars, histVars, events>>

(* The deferred C_CloseSession.  PKCS#11 drops the login of a token with
   the last session the process has on it.                                 *)
LastSession(r) ==
    Live(r) /\ \A q \in Requests \ {r} : slot[q] = slot[r] => ~Live(q)

Close(r) ==
    /\ pc[r] = "close"
    /\ login' = IF LastSession(r) THEN [login EXCEPT ![slot[r]] = FALSE]
                                  ELSE login
    /\ sess' = [sess EXCEPT ![r] = "none"]
    /\ GoTo(r, IF code[r] = "OK" THEN "remember" ELSE "failed")
    /\ UNCHANGED <<call, slot, found, result, code, cache, tok, tokenVars,
                   histVars, events>>
-----------------------------------------------------------------------------
(* Back in HandleSign.  PINCache.Forget when the PIN was the problem. *)
FailKeepingPin(r) ==      \* slip: any PIN not rejected is remembered
    /\ pc[r] = "failed"
    /\ cache' = [cache EXCEPT ![fp[r]] =
                    IF code[r] \in ForgetCodes THEN None ELSE pin[r]]
    /\ GoTo(r, "answer")
    /\ UNCHANGED <<call, slot, found, sess, result, code, slotVars, tokenVars,
                   histVars, events>>

Fail(r) ==
    /\ pc[r] = "failed"
    /\ cache' = IF code[r] \in ForgetCodes
                THEN [cache EXCEPT ![fp[r]] = None] ELSE cache
    /\ GoTo(r, "answer")
    /\ UNCHANGED <<call, slot, found, sess, result, code, slotVars, tokenVars,
                   histVars, events>>

(* PINCache.Set after a signature. *)
Remember(r) ==
    /\ pc[r] = "remember"
    /\ cache' = [cache EXCEPT ![fp[r]] = pin[r]]
    /\ burned' = [burned EXCEPT ![fp[r]] = 0]
    /\ GoTo(r, "answer")
    /\ UNCHANGED <<call, slot, found, sess, result, code, slotVars, tokenVars,
                   verdict, events>>

(* Chain and OCSP are fetched, with timeouts and errors ignored; the answer
   is written and the handler's local state is gone.                       *)
Answer(r) ==
    /\ pc[r] = "answer"
    /\ Reset({r})
    /\ UNCHANGED shared
-----------------------------------------------------------------------------
(* The world around the handler; MaxEvents bounds how often it acts. *)
Event == events < MaxEvents /\ events' = events + 1

(* Pulling a token kills the sessions on it and its login state. *)
Unplug(s) ==
    /\ Event
    /\ tok[s] # None
    /\ tok' = [tok EXCEPT ![s] = None]
    /\ login' = [login EXCEPT ![s] = FALSE]
    /\ sess' = [r \in Requests |->
                  IF slot[r] = s /\ Live(r) THEN "dead" ELSE sess[r]]
    /\ UNCHANGED <<pc, call, slot, found, result, code, cache, tokenVars,
                   histVars>>

Insert(s, t) ==
    /\ Event
    /\ tok[s] = None /\ t \in Fits[s]
    /\ \A s2 \in Slots : tok[s2] # t
    /\ tok' = [tok EXCEPT ![s] = t]
    /\ UNCHANGED <<local, cache, login, tokenVars, histVars>>

(* The token vendor's tool sets a new user PIN, or unblocks the token. *)
ChangePin(t, p) ==
    /\ Event
    /\ pinOf' = [pinOf EXCEPT ![t] = p]
    /\ tries' = [tries EXCEPT ![t] = MaxTries]
    /\ UNCHANGED <<local, cache, slotVars, histVars>>

(* The process exits, by Quit or a crash, and starts again: the cache is
   in memory only, and its sessions and logins go with the process.        *)
Restart ==
    /\ Event
    /\ Reset(Requests)
    /\ cache' = [c \in Certs |-> None]
    /\ login' = [s \in Slots |-> FALSE]
    /\ burned' = [c \in Certs |-> 0]
    /\ UNCHANGED <<tok, tokenVars, verdict>>
-----------------------------------------------------------------------------
SignHash(r) ==
    \/ OpenSession(r) \/ LoginUnjudged(r) \/ LoginLocked(r) \/ LoginWrong(r)
    \/ LoginOk(r) \/ Sign(r) \/ SignFault(r) \/ ReadCert(r) \/ Logout(r)
    \/ Close(r)

HandleSign(r) ==
    \/ Refuse(r) \/ FindCert(r) \/ Miss(r) \/ Detect(r) \/ BadHash(r)
    \/ ResolvePin(r) \/ SignHash(r) \/ Fail(r) \/ Remember(r) \/ Answer(r)

Environment ==
    \/ \E r \in Requests, c \in Certs, p \in PINs \cup {None} : Arrive(r, c, p)
    \/ \E s \in Slots : Unplug(s)
    \/ \E s \in Slots, t \in Tokens : Insert(s, t)
    \/ \E t \in Tokens, p \in PINs : ChangePin(t, p)
    \/ Restart

Next == Environment \/ \E r \in Requests : HandleSign(r)

Spec == Init /\ [][Next]_vars

(* Goroutines are scheduled and driver calls return: a handler that can
   move, moves.  Nothing is assumed of the world.                          *)
LiveSpec == Spec /\ \A r \in Requests : WF_vars(HandleSign(r))
-----------------------------------------------------------------------------
(* What the code's authors rely on, see README. *)

(* The request that is logged in to slot s, if there is one: past C_Login
   and before its deferred C_Logout, on a live session.                    *)
LoggedIn(r, s) ==
    pc[r] \in {"sign", "cert", "logout"} /\ slot[r] = s /\ Live(r)

(* A slot is logged in exactly while one request is between its C_Login and
   its C_Logout there.  SignHash takes no lock: only the token's refusal of
   a second login keeps concurrent signers apart, and no error path, unplug
   or restart may leave a login behind.                                    *)
LoginExclusive ==
    \A s \in Slots :
      /\ login[s] <=> \E r \in Requests : LoggedIn(r, s)
      /\ \A q, r \in Requests : LoggedIn(q, s) /\ LoggedIn(r, s) => q = r

(* PINCache only ever holds a PIN that a token has accepted in a request for
   that very certificate, under every interleaving of Get, Set and Forget.
   The PIN may have been changed since: that is what BurnBound is about.   *)
CachedPinWasAccepted ==
    \A c \in Certs :
        cache[c] # None => verdict[<<c, cache[c]>>] \in {"accepted", "revoked"}

(* pincache.go:45-47: a stale cached PIN must not burn the token's retries.
   Between two Sets each handler loses at most one try to it.              *)
BurnBound == \A c \in Certs : burned[c] <= Cardinality(Requests)

(* handlers.go:365: "A wrong or locked PIN must not linger in the cache".
   When no request runs, a cached PIN is one the token accepted last.      *)
RejectedPinForgotten ==
    (\A r \in Requests : pc[r] = "idle") =>
      \A c \in Certs :
        cache[c] # None => verdict[<<c, cache[c]>>] = "accepted"

(* pkcs11_handler.go:248: SignHash signs "using the private key
   corresponding to the cert with the given fingerprint", and the
   certificate it returns is that one (or empty, if it could not be read). *)
SignedWithExpectedKey ==
    \A r \in Requests : /\ sig[r] \in {None, fp[r]}
                       /\ der[r] \in {None, fp[r]}

(* The signature and the certificate of an answer come from one token, even
   if tokens are swapped in between (or the certificate is empty), and that
   is a token with the certificate asked for, unless it was swapped between
   FindCertByFingerprint and C_OpenSession (handlers.go:328).              *)
OneTokenSigns ==
    \A r \in Requests : sig[r] # None =>
        \E t \in Tokens :
            /\ sig[r] = FirstKey[t] /\ der[r] \in {None, FirstCert[t]}
            /\ found[r] # None => t = found[r] /\ fp[r] \in CertsOn[t]

(* A request takes tries only from the token it talks to, and that token
   carries its certificate, with the same exception.                       *)
TriesTakenFromOwnToken ==
    [][\A t \in Tokens : tries'[t] < tries[t] =>
         \E r \in Requests :
            /\ pc[r] = "login" /\ pc'[r] = "close" /\ Target(r) = t
            /\ found[r] # None => found[r] = t /\ fp[r] \in CertsOn[t]]_vars

(* Every request gets its answer (or the process is restarted). *)
EveryRequestAnswered == \A r \in Requests : pc[r] # "idle" ~> pc[r] = "idle"

(* No login outlives its request: a slot is logged out again and again. *)
LoginReleased == \A s \in Slots : login[s] ~> ~login[s]
-----------------------------------------------------------------------------
(* BridgeSign implements TokenLease: the holder of a slot is the request
   that is logged in there.  A login nobody answers for maps to a holder
   that TokenLease does not know.                                          *)
Orphaned(s) == s

Holder(s) ==
    CASE ~login[s]                                     -> None
      [] login[s] /\ (\E r \in Requests : LoggedIn(r, s)) ->
            CHOOSE r \in Requests : LoggedIn(r, s)
      [] OTHER                                         -> Orphaned(s)

Lease == INSTANCE TokenLease WITH
            holder <- [s \in Slots |-> Holder(s)],
            signed <- {r \in Requests : sig[r] # None}

(* Signing is the exclusive, revocable use of a slot, and no signature
   leaves the handler before its deferred C_Logout has run.                *)
ImplementsTokenLease == Lease!Spec
=============================================================================

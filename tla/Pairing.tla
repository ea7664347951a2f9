------------------------------ MODULE Pairing -------------------------------
(***************************************************************************)
(* Pairing the bridges of several computers with one site.                 *)
(*                                                                         *)
(* A page that may not read /v1/certs asks the site for a code and posts   *)
(* it to its bridge.  HandlePair asks the user, sends the code to the      *)
(* site's validate_pairing_code, and stores the token and the HMAC secret  *)
(* of the answer.  The site forgets the code, commits a DSC Registration   *)
(* and hands out the HMAC secret it has; a pairing that finds none creates *)
(* it, the first one or the first after somebody cleared the field.        *)
(*                                                                         *)
(* An attempt is one POST to /v1/pair together with the call of            *)
(* validate_pairing_code it leads to.  The code, the token and the secret  *)
(* made in an attempt are named after it.                                  *)
(***************************************************************************)
EXTENDS Naturals, FiniteSets

CONSTANTS
    Attempts,   \* POSTs to /v1/pair
    Bridges,    \* agents, one per computer
    Typed,      \* secrets that people type into DSC Agent Settings
    None

ASSUME PairingAssumption ==
    /\ None \notin Attempts /\ None \notin Bridges /\ None \notin Typed
    /\ Attempts \cap Typed = {}

VARIABLES
    pc,       \* per attempt: where the page and HandlePair are
    on,       \* per attempt: its bridge
    code,     \* per attempt: the code posted
    wk,       \* per attempt: where validate_pairing_code is
    got,      \* per attempt: the HMAC secret validate_pairing_code returns
    cache,    \* codes in the site's cache
    regs,     \* committed DSC Registrations
    secret,   \* hmac_secret of DSC Agent Settings
    stale,    \* attempts whose copy of DSC Agent Settings is out of date
    running,  \* bridges that run
    token,    \* per bridge: the site token in the keychain or the token file
    hmac,     \* per bridge: the HMAC secret there
    known,    \* bridges whose Keystore.sites has the site
    listed,   \* bridges whose paired_sites.json has it, if it can be parsed
    torn,     \* bridges whose paired_sites.json was cut short
    late,     \* history: attempts whose code had led to a registration when
              \* their request reached the site
    retired   \* history: secrets that people cleared or replaced in the form

attemptVars == <<pc, on, code>>
workerVars  == <<wk, got>>
siteVars    == <<cache, regs, secret, stale>>
bridgeVars  == <<running, token, hmac, known, listed, torn>>
histVars    == <<late, retired>>
vars == <<attemptVars, workerVars, siteVars, bridgeVars, histVars>>

Secrets == Attempts \cup Typed

Registrations == [token : Attempts, agent : Bridges, code : Attempts]

TypeOK ==
    /\ pc \in [Attempts -> {"idle", "dialog", "contact", "store", "save",
                            "write", "secret", "ok", "failed", "reset",
                            "resent", "served"}]
    /\ on \in [Attempts -> Bridges \cup {None}]
    /\ code \in [Attempts -> Attempts \cup {None}]
    /\ wk \in [Attempts -> {"none", "sent", "read", "delete", "insert", "load",
                            "save", "reply", "error", "gone"}]
    /\ got \in [Attempts -> Secrets \cup {None}]
    /\ cache \in SUBSET Attempts
    /\ regs \in SUBSET Registrations
    /\ secret \in Secrets \cup {None}
    /\ stale \in SUBSET Attempts
    /\ running \in SUBSET Bridges
    /\ token \in [Bridges -> Attempts \cup {None}]
    /\ hmac \in [Bridges -> Secrets \cup {None}]
    /\ known \in SUBSET running
    /\ listed \in SUBSET Bridges /\ torn \in SUBSET Bridges
    /\ late \in SUBSET Attempts
    /\ retired \in SUBSET Secrets

Init ==
    /\ pc = [a \in Attempts |-> "idle"]
    /\ on = [a \in Attempts |-> None]
    /\ code = [a \in Attempts |-> None]
    /\ wk = [a \in Attempts |-> "none"]
    /\ got = [a \in Attempts |-> None]
    /\ cache = {} /\ regs = {} /\ secret = None /\ stale = {}
    /\ running = Bridges /\ known = {} /\ listed = {} /\ torn = {}
    /\ token = [b \in Bridges |-> None]
    /\ hmac = [b \in Bridges |-> None]
    /\ late = {} /\ retired = {}
-----------------------------------------------------------------------------
(* The bridge's middleware, for requests of a page of the site: the browser
   always sends Origin, and the page never has a token to send.            *)
IsPairedSite(b) == b \in known

Admitted(b, path) ==
    path \in {"pair", "status", "mac_address"} \/ IsPairedSite(b)

(* Without CORS headers the browser keeps the answer from the page. *)
CorsAllowed(b, path) ==
    IsPairedSite(b) \/ path \in {"pair", "status", "mac_address"}

Reads(b, path) == b \in running /\ Admitted(b, path) /\ CorsAllowed(b, path)
-----------------------------------------------------------------------------
(* The page.  fetchCerts throws, so it calls generate_pairing_code and posts
   the code to its bridge, which shows a dialog.                           *)
Ask(a, b) ==
    /\ pc[a] = "idle"
    /\ b \in running /\ ~Reads(b, "certs")
    /\ pc' = [pc EXCEPT ![a] = "dialog"]
    /\ on' = [on EXCEPT ![a] = b]
    /\ code' = [code EXCEPT ![a] = a]
    /\ cache' = cache \cup {a}
    /\ UNCHANGED <<workerVars, regs, secret, stale, bridgeVars, histVars>>

(* A browser sends a request again by itself when the connection it had kept
   open breaks before an answer, as it does when the bridge is restarted.  *)
Resend(old, a) ==
    /\ pc[old] = "reset" /\ pc[a] = "idle" /\ on[old] \in running
    /\ pc' = [pc EXCEPT ![old] = "resent", ![a] = "dialog"]
    /\ on' = [on EXCEPT ![a] = on[old]]
    /\ code' = [code EXCEPT ![a] = code[old]]
    /\ UNCHANGED <<workerVars, siteVars, bridgeVars, histVars>>

(* The pairing was answered with 200: the page reads the certificates, unless
   the bridge has gone away again.                                         *)
FetchCerts(a) ==
    /\ pc[a] = "ok" /\ Reads(on[a], "certs")
    /\ pc' = [pc EXCEPT ![a] = "served"]
    /\ UNCHANGED <<on, code, workerVars, siteVars, bridgeVars, histVars>>

FetchFails(a) ==
    /\ pc[a] = "ok" /\ ~Reads(on[a], "certs")
    /\ pc' = [pc EXCEPT ![a] = "failed"]
    /\ UNCHANGED <<on, code, workerVars, siteVars, bridgeVars, histVars>>
-----------------------------------------------------------------------------
(* HandlePair: the user refuses ... *)
Deny(a) ==
    /\ pc[a] = "dialog"
    /\ pc' = [pc EXCEPT ![a] = "failed"]
    /\ UNCHANGED <<on, code, workerVars, siteVars, bridgeVars, histVars>>

(* ... or agrees, and the code goes to the site. *)
Consent(a) ==
    /\ pc[a] = "dialog"
    /\ pc' = [pc EXCEPT ![a] = "contact"]
    /\ wk' = [wk EXCEPT ![a] = "sent"]
    /\ UNCHANGED <<on, code, got, siteVars, bridgeVars, histVars>>

(* The connection to the site fails, before or after the request got there. *)
Disconnect(a) ==
    /\ pc[a] = "contact"
    /\ pc' = [pc EXCEPT ![a] = "failed"]
    /\ \/ UNCHANGED wk
       \/ wk[a] = "sent" /\ wk' = [wk EXCEPT ![a] = "gone"]
    /\ UNCHANGED <<on, code, got, siteVars, bridgeVars, histVars>>

ReceiveErrorDropped(a) ==   \* slip: an answer without a token is not an error
    /\ pc[a] = "contact" /\ wk[a] = "error"
    /\ wk' = [wk EXCEPT ![a] = "gone"]
    /\ UNCHANGED <<pc, on, code, got, siteVars, bridgeVars, histVars>>

ReceiveError(a) ==
    /\ pc[a] = "contact" /\ wk[a] = "error"
    /\ pc' = [pc EXCEPT ![a] = "failed"]
    /\ wk' = [wk EXCEPT ![a] = "gone"]
    /\ UNCHANGED <<on, code, got, siteVars, bridgeVars, histVars>>

Receive(a) ==
    /\ pc[a] = "contact" /\ wk[a] = "reply"
    /\ pc' = [pc EXCEPT ![a] = "store"]
    /\ wk' = [wk EXCEPT ![a] = "gone"]
    /\ UNCHANGED <<on, code, got, siteVars, bridgeVars, histVars>>

(* AddSite, under Keystore.mu: the token is stored and the memory has the
   site ...                                                                *)
Unlocked(b) == \A a \in Attempts : on[a] = b => pc[a] \notin {"save", "write"}

StoreToken(a) ==
    /\ pc[a] = "store" /\ Unlocked(on[a])
    /\ pc' = [pc EXCEPT ![a] = "save"]
    /\ token' = [token EXCEPT ![on[a]] = a]
    /\ known' = known \cup {on[a]}
    /\ UNCHANGED <<on, code, workerVars, siteVars, running, hmac, listed, torn,
                   histVars>>

(* ... and save() has os.WriteFile empty paired_sites.json ... *)
SaveTruncate(a) ==
    /\ pc[a] = "save"
    /\ pc' = [pc EXCEPT ![a] = "write"]
    /\ torn' = torn \cup {on[a]}
    /\ UNCHANGED <<on, code, workerVars, siteVars, running, token, hmac, known,
                   listed, histVars>>

(* ... and write the memory into it. *)
SaveWrite(a) ==
    /\ pc[a] = "write"
    /\ pc' = [pc EXCEPT ![a] = "secret"]
    /\ torn' = torn \ {on[a]}
    /\ listed' = listed \cup {on[a]}
    /\ UNCHANGED <<on, code, workerVars, siteVars, running, token, hmac, known,
                   histVars>>

AddSiteFailsSilently(a) ==  \* slip: HandlePair goes on when save() failed
    /\ pc[a] \in {"store", "save", "write"}
    /\ pc[a] = "store" => Unlocked(on[a])
    /\ pc' = [pc EXCEPT ![a] = IF pc[a] = "store" THEN "failed" ELSE "secret"]
    /\ UNCHANGED <<on, code, workerVars, siteVars, bridgeVars, histVars>>

(* The token is not stored, or paired_sites.json not opened, or not written
   to the end: HandlePair answers with an error.                           *)
AddSiteFails(a) ==
    /\ pc[a] \in {"store", "save", "write"}
    /\ pc[a] = "store" => Unlocked(on[a])
    /\ pc' = [pc EXCEPT ![a] = "failed"]
    /\ UNCHANGED <<on, code, workerVars, siteVars, bridgeVars, histVars>>

(* Best effort: the pairing is answered with 200 either way. *)
SetHMACSecret(a) ==
    /\ pc[a] = "secret"
    /\ pc' = [pc EXCEPT ![a] = "ok"]
    /\ hmac' \in {hmac, [hmac EXCEPT ![on[a]] = got[a]]}
    /\ UNCHANGED <<on, code, workerVars, siteVars, running, token, known,
                   listed, torn, histVars>>

(* The bridge stops, at any point of its handlers ... *)
Stop(b) ==
    /\ b \in running
    /\ running' = running \ {b} /\ known' = known \ {b}
    /\ pc' = [a \in Attempts |->
                 IF /\ on[a] = b
                    /\ pc[a] \in {"dialog", "contact", "store", "save",
                                  "write", "secret"}
                 THEN "reset" ELSE pc[a]]
    /\ UNCHANGED <<on, code, workerVars, siteVars, token, hmac, listed, torn,
                   histVars>>

(* ... and is started: NewKeystore reads paired_sites.json.  If that was cut
   short it cannot be parsed, and main ends: the bridge stays away.        *)
Start(b) ==
    /\ b \notin running /\ b \notin torn
    /\ running' = running \cup {b}
    /\ known' = IF b \in listed THEN known \cup {b} ELSE known
    /\ UNCHANGED <<attemptVars, workerVars, siteVars, token, hmac, listed,
                   torn, histVars>>
-----------------------------------------------------------------------------
(* validate_pairing_code, from its first statement to its last. *)
Step(a, from, to) == wk[a] = from /\ wk' = [wk EXCEPT ![a] = to]

Arrive(a) ==
    /\ Step(a, "sent", "read")
    /\ late' = IF \E r \in regs : r.code = code[a] THEN late \cup {a} ELSE late
    /\ UNCHANGED <<attemptVars, got, siteVars, bridgeVars, retired>>

ReadCode(a) ==
    /\ Step(a, "read", IF code[a] \in cache THEN "delete" ELSE "error")
    /\ UNCHANGED <<attemptVars, got, siteVars, bridgeVars, histVars>>

DeleteCodeNever(a) ==   \* slip: the code is left to its ten minutes
    /\ Step(a, "delete", "insert")
    /\ UNCHANGED <<attemptVars, got, siteVars, bridgeVars, histVars>>

DeleteCode(a) ==
    /\ Step(a, "delete", "insert")
    /\ cache' = cache \ {code[a]}
    /\ UNCHANGED <<attemptVars, got, regs, secret, stale, bridgeVars,
                   histVars>>

RegistrationUnnamed(a) ==   \* slip: agent_fingerprint is not passed on
    [token |-> a, agent |-> None, code |-> code[a]]

Registration(a) == [token |-> a, agent |-> on[a], code |-> code[a]]

InsertUncommitted(a) ==     \* slip: the answer may precede the commit
    /\ Step(a, "insert", "load")
    /\ UNCHANGED <<attemptVars, got, siteVars, bridgeVars, histVars>>

(* insert and commit. *)
Insert(a) ==
    /\ Step(a, "insert", "load")
    /\ regs' = regs \cup {Registration(a)}
    /\ UNCHANGED <<attemptVars, got, cache, secret, stale, bridgeVars,
                   histVars>>

(* get_or_create_hmac_secret: load the settings, and make a secret if they
   have none.                                                              *)
LoadSettings(a) ==
    /\ Step(a, "load", IF secret = None THEN "save" ELSE "reply")
    /\ got' = [got EXCEPT ![a] = IF secret = None THEN a ELSE secret]
    /\ stale' = stale \ {a}
    /\ UNCHANGED <<attemptVars, cache, regs, secret, bridgeVars, histVars>>

SaveSettingsBlindly(a) ==   \* slip: the field is written past doc.save()
    /\ Step(a, "save", "reply")
    /\ secret' = got[a]
    /\ stale' = Attempts
    /\ UNCHANGED <<attemptVars, got, cache, regs, bridgeVars, histVars>>

(* doc.save() and commit. *)
SaveSettings(a) ==
    /\ a \notin stale
    /\ Step(a, "save", "reply")
    /\ secret' = got[a]
    /\ stale' = Attempts
    /\ UNCHANGED <<attemptVars, got, cache, regs, bridgeVars, histVars>>

(* doc.save() refuses a document that changed since it was loaded. *)
SaveConflict(a) ==
    /\ a \in stale
    /\ Step(a, "save", "error")
    /\ UNCHANGED <<attemptVars, got, siteVars, bridgeVars, histVars>>

(* A worker is killed, or the database fails: what is committed stays. *)
WorkerFails(a) ==
    /\ wk[a] \in {"read", "delete", "insert", "load", "save"}
    /\ wk' = [wk EXCEPT ![a] = "error"]
    /\ UNCHANGED <<attemptVars, got, siteVars, bridgeVars, histVars>>
-----------------------------------------------------------------------------
(* A code's ten minutes are over, or the cache was cleared. *)
Expire(c) ==
    /\ c \in cache
    /\ cache' = cache \ {c}
    /\ UNCHANGED <<attemptVars, workerVars, regs, secret, stale, bridgeVars,
                   histVars>>

(* Somebody saves the form DSC Agent Settings: the secret untouched, cleared
   to rotate it, or typed in.                                              *)
EditSettings ==
    /\ \E s \in {secret, None} \cup Typed :
         /\ secret' = s
         /\ retired' = retired \cup ({secret} \ {s, None})
    /\ stale' = Attempts
    /\ UNCHANGED <<attemptVars, workerVars, cache, regs, bridgeVars, late>>

HandlePair(a) ==
    \/ ReceiveError(a) \/ Receive(a)
    \/ StoreToken(a) \/ SaveTruncate(a) \/ SaveWrite(a) \/ AddSiteFails(a)
    \/ SetHMACSecret(a)

validate_pairing_code(a) ==
    \/ Arrive(a) \/ ReadCode(a) \/ DeleteCode(a) \/ Insert(a)
    \/ LoadSettings(a) \/ SaveSettings(a) \/ SaveConflict(a)

Next ==
    \/ \E a \in Attempts, b \in Bridges : Ask(a, b)
    \/ \E old, a \in Attempts : Resend(old, a)
    \/ \E a \in Attempts :
         \/ FetchCerts(a) \/ FetchFails(a) \/ Deny(a) \/ Consent(a)
         \/ HandlePair(a) \/ validate_pairing_code(a)
         \/ Disconnect(a) \/ WorkerFails(a) \/ Expire(a)
    \/ \E b \in Bridges : Stop(b) \/ Start(b)
    \/ EditSettings

Spec == Init /\ [][Next]_vars

(* The handlers of the bridge are scheduled, and pages go on with what they
   were told.  Nothing is assumed of the site, of the network between the
   two, or of the user.                                                    *)
LiveSpec ==
    /\ Spec
    /\ \A a \in Attempts :
         WF_vars(HandlePair(a)) /\ WF_vars(FetchCerts(a) \/ FetchFails(a))
-----------------------------------------------------------------------------
(* agent.py:66: a code that has led to a registration opens nothing to a
   request that reaches the site afterwards, whatever became of the answer
   to the first, and however the workers interleave.                       *)
LateUseRefused == \A r \in regs : r.token \notin late

(* The secret that a bridge stored is the site's, unless people cleared or
   replaced the site's afterwards (dsc_agent_settings.json:34): two pairings
   that find no secret cannot leave a bridge with one that was overwritten,
   whose signatures the bridge would refuse.  (get_or_create_hmac_secret)  *)
SecretsAgree ==
    \A b \in Bridges : hmac[b] \in {None, secret} \cup retired

(* dsc_core.js:125: a page whose pairing was answered with 200 can read the
   certificates from then on whenever the bridge runs, through stops and
   starts of the bridge and failures of other pairings.  (A bridge whose
   paired_sites.json was cut short does not run again.)                    *)
AnsweredPairingServes ==
    \A a \in Attempts :
        pc[a] \in {"ok", "served"} /\ on[a] \in running
          => Reads(on[a], "certs")

(* Once the site has answered, with a token or an error, the page's pairing
   ends, through the mutex, failing writes and stops.  Before that nothing
   ends it but the connection: http.Post has no timeout (handlers.go:220). *)
AnsweredPairingEnds ==
    \A a \in Attempts :
        pc[a] = "contact" /\ wk[a] \in {"reply", "error"}
          ~> pc[a] \in {"failed", "reset", "resent", "served"}

(* A bridge holds only a token that the site had registered for it before,
   committed whatever happens to the call afterwards.                      *)
R == INSTANCE Registry WITH
        Tokens <- Attempts, Agents <- Bridges,
        granted <- {<<r.token, r.agent>> : r \in regs},
        kept <- [b \in Bridges |-> IF b \in known THEN token[b] ELSE None]

ImplementsRegistry == R!Spec
=============================================================================

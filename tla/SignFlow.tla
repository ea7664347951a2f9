------------------------------ MODULE SignFlow ------------------------------
(***************************************************************************)
(* The button "Sign with Token": the page, the site that prepares the      *)
(* document and attaches the signed one, the bridge in between, and the    *)
(* clocks of the two machines.                                             *)
(*                                                                         *)
(* initiate_direct_sign takes a timestamp and a MAC, keeps what it has     *)
(* prepared in /tmp and in the cache, and answers; the user types a PIN;   *)
(* the bridge checks the MAC and the age of the timestamp and signs; the   *)
(* page brings the signature to finalize_direct_sign.  A session is named  *)
(* after the click that began it, a call of finalize_direct_sign after its *)
(* session and its number, because browsers repeat requests.  What goes on *)
(* inside the bridge is in BridgeSign.                                     *)
(***************************************************************************)
EXTENDS Integers, FiniteSets

CONSTANTS
    Clicks,
    Skews,      \* how far the bridge's clock may be ahead of the site's
    Window,     \* the age the bridge accepts: 60 seconds
    Life,       \* expires_in_sec: 600 seconds
    MaxNow,     \* bound: time that passes
    MaxSecret,  \* bound: HMAC secrets of the site
    MaxFaults   \* bound: stops, broken connections and changes of the secret

Calls == Clicks \X {1, 2}

ASSUME FlowAssumption ==
    /\ Window \in Nat \ {0} /\ Life \in Nat /\ Window < Life
    /\ Skews \subseteq Int
    /\ MaxNow \in Nat /\ MaxSecret \in Nat \ {0} /\ MaxFaults \in Nat

VARIABLES
    now, skew,     \* the site's clock; the bridge's minus the site's
    faults,        \* so far
    siteSecret,    \* hmac_secret of DSC Agent Settings
    bridgeSecret,  \* what Keystore.HMACSecret returns; 0: nothing
    page,          \* per click: where the page is
    mac, stamp,    \* per session: the secret of its MAC, its timestamp or -1
    cached, tmp,   \* sessions in the cache (until they expire) and in /tmp
    bridge,        \* per click: where HandleSign is
    work,          \* per call: where finalize_direct_sign is
    files, logs,   \* calls whose File, whose HNS DSC Log is committed
    signed,        \* history: sessions whose hash the token has signed
    typed,         \* history: when the PIN was typed
    verified,      \* history: sessions that passed verifyHMAC
    killed, undone \* history: calls whose worker was stopped, whose transaction
                   \* the database undid

clockVars   == <<now, skew>>
secretVars  == <<siteSecret, bridgeSecret>>
sessionVars == <<mac, stamp, cached, tmp>>
finalVars   == <<work, files, logs, killed, undone>>
handVars    == <<signed, typed, verified>>
flowVars == <<clockVars, faults, secretVars, page, sessionVars, bridge,
              finalVars, handVars>>

FlowTypeOK ==
    /\ now \in 0..MaxNow /\ skew \in Skews /\ faults \in 0..MaxFaults
    /\ siteSecret \in 1..MaxSecret /\ bridgeSecret \in 0..MaxSecret
    /\ page \in [Clicks -> {"idle", "asking", "preparing", "pin", "sent",
                            "signed", "final", "done", "failed"}]
    /\ mac \in [Clicks -> 0..MaxSecret]
    /\ stamp \in [Clicks -> -1..MaxNow]
    /\ cached \in SUBSET Clicks /\ tmp \in SUBSET Clicks
    /\ bridge \in [Clicks -> {"none", "gate", "token", "chain", "refused",
                              "reset"}]
    /\ work \in [Calls -> {"none", "sent", "read", "saved", "deleted",
                           "unlogged", "committed", "ok", "error", "gone"}]
    /\ files \in SUBSET Calls /\ logs \in SUBSET files
    /\ signed \in SUBSET Clicks /\ verified \in SUBSET Clicks
    /\ typed \in [Clicks -> 0..MaxNow]
    /\ killed \in SUBSET Calls /\ undone \in SUBSET Calls

FlowInit ==
    /\ now = 0 /\ skew \in Skews /\ faults = 0
    /\ siteSecret = 1 /\ bridgeSecret \in {0, 1}
    /\ page = [c \in Clicks |-> "idle"]
    /\ mac = [c \in Clicks |-> 0] /\ stamp = [c \in Clicks |-> -1]
    /\ cached = {} /\ tmp = {}
    /\ bridge = [c \in Clicks |-> "none"]
    /\ work = [k \in Calls |-> "none"]
    /\ files = {} /\ logs = {}
    /\ signed = {} /\ verified = {} /\ killed = {} /\ undone = {}
    /\ typed = [c \in Clicks |-> 0]
-----------------------------------------------------------------------------
Page(c, from, to) == page[c] = from /\ page' = [page EXCEPT ![c] = to]
Bridge(c, from, to) == bridge[c] = from /\ bridge' = [bridge EXCEPT ![c] = to]
Work(k, from, to) == work[k] = from /\ work' = [work EXCEPT ![k] = to]
Fault == faults < MaxFaults /\ faults' = faults + 1

(* A certificate was found and passed verify_direct_certificate. *)
Click(c) ==
    /\ Page(c, "idle", "asking")
    /\ UNCHANGED <<clockVars, faults, secretVars, sessionVars, bridge, finalVars, handVars>>

(* initiate_direct_sign reads the secret first ... *)
ReadSecret(c) ==
    /\ Page(c, "asking", "preparing")
    /\ mac' = [mac EXCEPT ![c] = siteSecret]
    /\ UNCHANGED <<clockVars, faults, secretVars, stamp, cached, tmp, bridge,
                   finalVars, handVars>>

(* ... and takes the time when the PDF is ready. *)
Prepare(c) ==
    /\ Page(c, "preparing", "pin")
    /\ stamp' = [stamp EXCEPT ![c] = now]
    /\ tmp' = tmp \cup {c} /\ cached' = cached \cup {c}
    /\ UNCHANGED <<clockVars, faults, secretVars, mac, bridge, finalVars, handVars>>

(* It throws: no secret, no PDF, no stamp. *)
PrepareFails(c) ==
    /\ Page(c, "asking", "failed") \/ Page(c, "preparing", "failed")
    /\ UNCHANGED <<clockVars, faults, secretVars, sessionVars, bridge, finalVars, handVars>>

(* The user types the PIN, at once or later, and the page posts /v1/sign. *)
EnterPin(c) ==
    /\ Page(c, "pin", "sent") /\ Bridge(c, "none", "gate")
    /\ typed' = [typed EXCEPT ![c] = now]
    /\ UNCHANGED <<clockVars, faults, secretVars, sessionVars, finalVars, signed, verified>>
-----------------------------------------------------------------------------
(* verifyHMAC, by the bridge's clock. *)
InWindowOneSided(t, at) == at - t <= Window    \* slip: skew < 0 is not negated
InWindow(t, at) ==
    LET age == at - t IN IF age < 0 THEN -age <= Window ELSE age <= Window

verifyHMAC(c) == InWindow(stamp[c], now + skew) /\ mac[c] = bridgeSecret

(* HandleSign: a site without a secret is let through. *)
Gate(c) ==
    /\ IF bridgeSecret = 0 \/ verifyHMAC(c)
       THEN Bridge(c, "gate", "token") ELSE Bridge(c, "gate", "refused")
    /\ verified' = IF bridgeSecret # 0 /\ verifyHMAC(c)
                   THEN verified \cup {c} ELSE verified
    /\ UNCHANGED <<clockVars, faults, secretVars, page, sessionVars, finalVars,
                   signed, typed>>

TokenSigns(c) ==
    /\ Bridge(c, "token", "chain")
    /\ signed' = signed \cup {c}
    /\ UNCHANGED <<clockVars, faults, secretVars, page, sessionVars, finalVars,
                   typed, verified>>

TokenFails(c) ==
    /\ Bridge(c, "token", "refused")
    /\ UNCHANGED <<clockVars, faults, secretVars, page, sessionVars, finalVars, handVars>>

(* The answer, after certificate chain and OCSP. *)
SignAnswer(c) ==
    /\ Bridge(c, "chain", "none") /\ Page(c, "sent", "signed")
    /\ UNCHANGED <<clockVars, faults, secretVars, sessionVars, finalVars, handVars>>

SignRefused(c) ==
    /\ Bridge(c, "refused", "none") /\ Page(c, "sent", "failed")
    /\ UNCHANGED <<clockVars, faults, secretVars, sessionVars, finalVars, handVars>>

(* The bridge stops and is started again.  The browser repeats the request
   or the page gives up.                                                   *)
BridgeStops ==
    /\ Fault
    /\ bridge' = [c \in Clicks |-> IF bridge[c] = "none" THEN "none" ELSE "reset"]
    /\ UNCHANGED <<clockVars, secretVars, page, sessionVars, finalVars, handVars>>

SignResent(c) ==
    /\ Bridge(c, "reset", "gate")
    /\ UNCHANGED <<clockVars, faults, secretVars, page, sessionVars, finalVars, handVars>>

SignLost(c) ==
    /\ Bridge(c, "reset", "none") /\ Page(c, "sent", "failed")
    /\ UNCHANGED <<clockVars, faults, secretVars, sessionVars, finalVars, handVars>>
-----------------------------------------------------------------------------
siteRest == <<clockVars, secretVars, mac, stamp, tmp, bridge, handVars>>

(* The page brings the signature. *)
Finalize(c) ==
    /\ Page(c, "signed", "final") /\ Work(<<c, 1>>, "none", "sent")
    /\ UNCHANGED <<siteRest, faults, cached, files, logs, killed, undone>>

(* The connection breaks before an answer and the browser sends the request
   again; the first one's worker goes on if it can.                        *)
FinalizeResent(c) ==
    /\ Fault
    /\ page[c] = "final" /\ work[<<c, 1>>] # "none" /\ Work(<<c, 2>>, "none", "sent")
    /\ UNCHANGED <<siteRest, page, cached, files, logs, killed, undone>>

InCache(c) == c \in cached /\ now < stamp[c] + Life

(* finalize_direct_sign: the session is read from the cache and from /tmp. *)
ReadSession(k) ==
    /\ IF InCache(k[1]) /\ k[1] \in tmp
       THEN Work(k, "sent", "read") ELSE Work(k, "sent", "error")
    /\ UNCHANGED <<siteRest, faults, page, cached, files, logs, killed, undone>>

(* The signature cannot be decoded, or does not fit into its place. *)
FinalizeThrows(k) ==
    /\ Work(k, "read", "error")
    /\ UNCHANGED <<siteRest, faults, page, cached, files, logs, killed, undone>>

(* file_doc.save: in the transaction of the request. *)
SaveFile(k) ==
    /\ Work(k, "read", "saved")
    /\ UNCHANGED <<siteRest, faults, page, cached, files, logs, killed, undone>>

DeleteSessionNever(k) ==   \* slip: the session is left to expire
    /\ Work(k, "saved", "deleted")
    /\ UNCHANGED <<siteRest, faults, page, cached, files, logs, killed, undone>>

DeleteSession(k) ==
    /\ Work(k, "saved", "deleted")
    /\ cached' = cached \ {k[1]}
    /\ UNCHANGED <<siteRest, faults, page, files, logs, killed, undone>>

LogActionAlone(k) ==       \* slip: the log is committed in a transaction of its own
    /\ Work(k, "deleted", "unlogged")
    /\ logs' = logs \cup {k}
    /\ UNCHANGED <<siteRest, faults, page, cached, files, killed, undone>>

(* log_dsc_action commits what the request has done so far; it fails without
   a word, and then the end of the request commits.                        *)
LogAction(k) ==
    /\ Work(k, "deleted", "committed")
    /\ files' = files \cup {k} /\ logs' = logs \cup {k}
    /\ UNCHANGED <<siteRest, faults, page, cached, killed, undone>>

LogFailsRollingBack(k) ==   \* slip: the handler of the exception rolls back
    /\ Work(k, "deleted", "committed")
    /\ UNCHANGED <<siteRest, faults, page, cached, files, logs, killed, undone>>

LogFails(k) ==
    /\ Work(k, "deleted", "unlogged")
    /\ UNCHANGED <<siteRest, faults, page, cached, files, logs, killed, undone>>

(* A deadlock in the database undoes the transaction before the insert fails. *)
LogRollsBack(k) ==
    /\ Fault
    /\ Work(k, "deleted", "committed")
    /\ undone' = undone \cup {k}
    /\ UNCHANGED <<siteRest, page, cached, files, logs, killed>>

Commit(k) ==
    /\ Work(k, "unlogged", "committed")
    /\ files' = files \cup {k}
    /\ UNCHANGED <<siteRest, faults, page, cached, logs, killed, undone>>

Succeed(k) ==
    /\ Work(k, "committed", "ok")
    /\ UNCHANGED <<siteRest, faults, page, cached, files, logs, killed, undone>>

WorkerStops(k) ==
    /\ Fault
    /\ work[k] \notin {"none", "ok", "error", "gone"}
    /\ work' = [work EXCEPT ![k] = "gone"]
    /\ killed' = killed \cup {k}
    /\ UNCHANGED <<siteRest, page, cached, files, logs, undone>>

(* The page waits for the request sent last. *)
LastCall(c) == IF work[<<c, 2>>] = "none" THEN <<c, 1>> ELSE <<c, 2>>

FinalAnswerUnread(c) ==    \* slip: the status is not looked at
    /\ work[LastCall(c)] \in {"ok", "error", "gone"} /\ Page(c, "final", "done")
    /\ UNCHANGED <<siteRest, faults, cached, finalVars>>

FinalAnswerAwaited(c) ==   \* slip: an error of the site is not caught
    /\ work[LastCall(c)] = "ok" /\ Page(c, "final", "done")
    /\ UNCHANGED <<siteRest, faults, cached, finalVars>>

FinalAnswer(c) ==
    /\ \/ work[LastCall(c)] = "ok" /\ Page(c, "final", "done")
       \/ work[LastCall(c)] \in {"error", "gone"} /\ Page(c, "final", "failed")
    /\ UNCHANGED <<siteRest, faults, cached, finalVars>>
-----------------------------------------------------------------------------
Tick ==
    /\ now < MaxNow /\ now' = now + 1
    /\ UNCHANGED <<skew, faults, secretVars, page, sessionVars, bridge, finalVars, handVars>>

(* The form of the settings is saved with another secret; a bridge is paired. *)
ChangeSecret ==
    /\ Fault /\ siteSecret < MaxSecret /\ siteSecret' = siteSecret + 1
    /\ UNCHANGED <<clockVars, bridgeSecret, page, sessionVars, bridge, finalVars, handVars>>

PairBridge ==
    /\ bridgeSecret # siteSecret /\ bridgeSecret' = siteSecret
    /\ UNCHANGED <<clockVars, faults, siteSecret, page, sessionVars, bridge, finalVars, handVars>>

(* The site's machine is restarted: /tmp is empty. *)
LoseTmp ==
    /\ Fault /\ tmp # {} /\ tmp' = {}
    /\ UNCHANGED <<clockVars, secretVars, page, mac, stamp, cached, bridge, finalVars, handVars>>

InitiateSign(c) == ReadSecret(c) \/ Prepare(c) \/ PrepareFails(c)
HandleRequest(c) == Gate(c) \/ TokenSigns(c) \/ TokenFails(c) \/ SignAnswer(c) \/ SignRefused(c)
Browse(c) == SignResent(c) \/ SignLost(c) \/ Finalize(c) \/ FinalAnswer(c)
finalize_direct_sign(k) ==
    \/ ReadSession(k) \/ FinalizeThrows(k) \/ SaveFile(k) \/ DeleteSession(k)
    \/ LogAction(k) \/ LogFails(k) \/ Commit(k) \/ Succeed(k)

Flow ==
    \/ \E c \in Clicks :
          \/ Click(c) \/ InitiateSign(c) \/ EnterPin(c)
          \/ HandleRequest(c) \/ Browse(c) \/ FinalizeResent(c)
    \/ \E k \in Calls : finalize_direct_sign(k) \/ WorkerStops(k) \/ LogRollsBack(k)
    \/ BridgeStops \/ Tick \/ ChangeSecret \/ PairBridge \/ LoseTmp

FlowSpec == FlowInit /\ [][Flow]_flowVars
-----------------------------------------------------------------------------
(* Where a MAC was checked, a PIN typed after the window has closed by the
   bridge's clock signs nothing, and neither does one on a bridge whose clock
   is behind by more than the window.  (verifyHMAC)                        *)
SignedInWindow ==
    \A c \in signed \cap verified :
        /\ typed[c] + skew <= stamp[c] + Window
        /\ now + skew >= stamp[c] - Window

(* A page that reports success has its file, also where the log could not be
   written, unless the database undid the transaction while it was being
   written: log_dsc_action swallows that too.  (finalize_direct_sign)      *)
DoneMeansAttached ==
    \A c \in Clicks : page[c] = "done" => \E k \in files \cup undone : k[1] = c

(* Past the deletion of the session, and the file still to be committed. *)
AboutToAttach == {k \in Calls : work[k] \in {"deleted", "unlogged"}}

(* A session goes only for a file: where it is in the cache no more, a file is
   attached or about to be, or its worker or transaction was stopped on the
   way.  (finalize_direct_sign)                                            *)
SessionNotWasted ==
    \A c \in Clicks :
        stamp[c] # -1 /\ c \notin cached
        => \E k \in files \cup AboutToAttach \cup killed \cup undone : k[1] = c

(* Every click comes to an end, unless the user never types the PIN. *)
EveryClickEnds ==
    \A c \in Clicks : page[c] \notin {"idle", "pin", "done", "failed"}
                      ~> page[c] \in {"pin", "done", "failed"}

F == INSTANCE SignedFiles WITH
    Sessions <- Clicks,
    SessionOf <- [k \in Calls |-> k[1]],
    prepared <- {c \in Clicks : stamp[c] # -1},
    open <- {k \in Calls : work[k] \in {"read", "saved", "deleted", "unlogged"}},
    attached <- files

(* A file is attached only for a session that was prepared and signed, and no
   call that comes after it attaches another.  (initiate_direct_sign,
   HandleSign, finalize_direct_sign)                                       *)
ImplementsSignedFiles == F!FilesSpec
=============================================================================

# Formal model of dsc_integration

`dsc_integration` lets users of a Frappe site sign PDF documents and workflow
steps with a certificate on a USB token. A page in the browser talks to the
site (Python) and to `dsc_bridge`, a Go process on the user's own machine,
which talks PKCS#11 to the token. This directory holds TLA+ modules of that
system, configurations that model-check them with TLC, and theorems about them
proved with TLAPS.

## Inventory

| part | state | operations | talks to |
|---|---|---|---|
| Signing, `handlers.go`, `pkcs11_handler.go`, `pincache.go`, `errors.go` | PIN cache; PKCS#11 contexts, sessions and logins | `HandleSign`, `FindCertByFingerprint`, `SignHash`, `Get`/`Set`/`Forget` | tokens, keystore (HMAC secret), AIA/OCSP servers |
| Keystore, `keystore.go` | `sites` under an RWMutex; `paired_sites.json`; OS keychain; `paired_sites.json.tokens` | `AddSite`, `SetHMACSecret`, `RemoveSite`, `Token`, `HMACSecret`, `NewKeystore` | file system, keychain daemon |
| Pairing, `HandlePair`, `api/agent.py`, `dsc_agent_settings.py` | codes in the site's cache (10 minutes); `DSC Registration`; one HMAC secret per site | `generate_pairing_code`, `validate_pairing_code`, `verify_site_token`, `HandlePair` | browser, bridge, site |
| Sign flow, `api/direct_dsc.py`, `dsc_core.js` | prepared document in `/tmp` and in the cache (600 s); HMAC timestamp (60 s) | `initiate_direct_sign`, `finalize_direct_sign`, button handlers, `verifyHMAC` | browser, bridge, site |
| HTTP server, `server.go` | none of its own | Origin, token and CORS checks | keystore |
| Certificate policy, `verify_direct_certificate`, `verify_certificate_mapping`, `_check_cert_allowed`, `workflow_approval.py`, `dsc_certificate.py` | settings tables | yes/no decisions, validation of a certificate's use | database |
| Device login, `login.py`, `hns_device_map.py`, `boot.py`, `mac_unix.go` | device maps | `auto_create_device_map`, `check_mac_before_login` | database, bridge |
| AIA chain and OCSP, `aia.go` | none | `FetchCertChain`, `FetchOCSP`, DER by hand | HTTP |
| TLS certificate, `tls.go` | `tls_cert.pem`, `tls_key.pem` per account | `EnsureTLSCert`, `generateSelfSignedCert` | file system |
| Start and hooks, `main.go`, `config.go`, `install_linux.go` | browsers' NSS databases, CA store, Firefox policy, autostart entries, the port | `main`, `LoadConfig`, `PostInstall`, `PreUninstall`, `EnsureUserTrust` | `certutil`, operating system |
| Log, `logger.py` | `HNS DSC Log` | one insert per action | database |
| Dialogs, tray menu, forms, hooks of macOS and Windows | none that the program reads back | | operating system |

How they interact. The browser asks the site to prepare a document
(`initiate_direct_sign`), hands the hash with an HMAC to the bridge
(`POST /v1/sign`) and gives the signature back (`finalize_direct_sign`). The
bridge resolves the HMAC secret in the keystore, the PIN in its cache, and the
certificate on the tokens. Pairing creates a registration on the site and,
through `AddSite` and `SetHMACSecret`, an entry in the keystore.

What is hard:

- *Concurrency.* `net/http` runs each request in its own goroutine. Each method
  of `PINCache` and the search for a certificate take a mutex, `SignHash` and
  `SetHMACSecret` do not. The site's workers share one cache without locks.
- *Partial failure.* Every PKCS#11, keychain and file call may fail; tokens are
  pulled and re-PINned while a request runs.
- *Crashes.* Files are rewritten in place, the token last, the process may stop
  at any point.
- *Time.* A 60-second HMAC window inside a 600-second session, with a human
  typing a PIN in between, on two machines with a clock each.
- *Transactions.* `finalize_direct_sign` changes a cache, a directory and a
  database; only the last of them can be rolled back.

What makes each part correct: signing keeps concurrent requests apart on a
token and never lets the cache cost a user his token; the keystore gives back
what was stored, across crashes; pairing refuses a code that has been used and
leaves bridge and site with the same token and secret; the sign flow attaches one file per signature,
the one that was prepared; the policy functions agree with each other; device
login lets in who the map lets in. `PROJECT.json` lists the hazards one by one,
at the line where each bites, with the property that covers it.

## Modules

| module | about |
|---|---|
| `BridgeSign` | `/v1/sign` on the bridge, with the tokens and the people who handle them; the refinement mapping to `TokenLease` |
| `TokenLease` | what signing promises of the tokens, in five actions |
| `MCBridgeSign` | instances of `BridgeSign` |
| `BridgeSignProofs` | theorems about `BridgeSign` |
| `Keystore` | the bridge's store of pairings |
| `MCKeystore` | the instance of `Keystore` for the run `keystore`; the violation runs use `Keystore` itself |
| `KeystoreProofs` | theorems about `Keystore` |
| `Pairing` | `/v1/pair` on several bridges, the page before it and the site behind it |
| `Registry` | what pairing promises: grants, and tokens kept only if granted |
| `MCPairing` | instances of `Pairing` |
| `PairingProofs` | theorems about `Pairing` |
| `SignFlow` | the button "Sign with Token": page, site, bridge and two clocks |
| `SignedFiles` | what signing a document promises, in five actions |
| `FlowProofs` | theorems about `SignFlow` |
| `AiaChain` | the walk up the certificate chain, and the OCSP request |
| `AiaProofs` | theorems about `AiaChain` |
| `Startup` | launches of the bridge on Linux, its TLS certificate and its hooks |
| `StartupProofs` | theorems about `Startup` |
| `DriverProofs` | the theorem about the drivers a started bridge has loaded |
| `MCParts` | instances of `SignFlow`, `AiaChain` and `Startup` |

### BridgeSign

State. Per request: the point `HandleSign` has reached (`pc`) and the locals it
carries (`fp`, `pin`, `fromCache`, `slot`, `sess`, `sig`, `der`, `code`).
Shared: `cache` (`PINCache.pins`). Of the world: which token is in which slot,
whether the process is logged in there, each token's PIN and remaining tries.
History, which no action reads: `verdict`, what C_Login has answered to a PIN in
requests for a certificate (a PIN accepted once and rejected since is
`revoked`); `burned`, the tries lost to cached PINs since the last `Set`; and
`found`, the token `FindCertByFingerprint` saw, which becomes `None` when that
token is swapped before `C_OpenSession`.

Actions, in the order of the code: `Arrive`, `Refuse` (method, body, algorithm,
HMAC gate), `FindCert`, `Miss` and `Detect`, `BadHash`, `ResolvePin`; then
`SignHash`: `OpenSession`, four outcomes of `C_Login` (`LoginUnjudged`,
`LoginLocked`, `LoginWrong`, `LoginOk`), `Sign` or `SignFault`, `ReadCert`, and
the deferred `Logout` and `Close`; then `Fail` (with `PINCache.Forget`) or
`Remember` (`PINCache.Set`), and `Answer`. One action is what the code does
without giving another goroutine a chance to be seen: one mutex section or one
PKCS#11 call. The environment pulls and inserts tokens, changes PINs and
restarts the process.

Tokens behave as PKCS#11 v2.40 says and the code expects: a login belongs to
the process and the token, not to a session; a second one is refused with
`CKR_USER_ALREADY_LOGGED_IN`; the last `C_CloseSession` on a token ends it; a
removed token kills its sessions.

Abstracted: certificates stand for fingerprints and keys; hashes, signatures,
HTTP statuses and messages are left out; chain and OCSP are part of `Answer`,
because the code ignores their errors; the HMAC gate is a free choice.

### Keystore

State. Per writer (a goroutine in `HandlePair`, or `RemoveSite`): its point,
site, token, secret, which of the two entries it is at (`kind`) and the contents
it is about to write (`buf`). Shared: the mutex, `sites`, and three places on
disk: `meta`, `keychain`, `tokFile`. `os.WriteFile` is two steps, as in the
kernel: the open truncates (`Truncated`), the write fills; two writes into one
file that do not have the same length leave a mixture (`Torn`). A lookup is an
operator, `Lookup`, that follows `Token` and `HMACSecret`.

`AddSite` is `Lock`, `StoreKeychain` or `LoadTokens`/`TruncateTokens`/
`WriteTokens`, `Register`, `SaveTruncate`, `SaveWrite` (which unlocks).
`SetHMACSecret` is the same storing steps without the mutex. `RemoveSite` is
`Lock`, `Forget`, two `EraseKeychain` (the token's entry and the secret's), two
deletes in the token file, and the save. `TokensFail` and `SaveFail` are the
error paths. `Restart` is `NewKeystore`; `failed` says that `main` gave up on
it. `Keychain` is the daemon that begins or ceases to answer. Values are the
numbers of the pairings that stored them, so that stale ones show. `spoiled`
remembers what has gone wrong (`Upsets`), and each property names those after
which it promises nothing: a write of the token file that failed or was cut
short, a deletion the keychain did not answer, a keychain that came or went, a
removal cut short.

### Pairing

State. Per attempt, that is per `POST /v1/pair`: where the page and `HandlePair`
are (`pc`), its bridge and code, where the site's `validate_pairing_code` is
(`wk`) and the HMAC secret it returns (`got`). On the site: the codes in the
cache, the committed registrations, the secret in `DSC Agent Settings`. Per
bridge: whether it runs, the token and the secret in its keychain or token file,
whether its memory knows the site (`known`), whether `paired_sites.json` lists
it (`listed`), and whether that file was cut short (`torn`). History: `late`,
the attempts whose code had led to a registration when their request reached the
site, and `retired`, the secrets that people cleared or replaced in the form.
Codes, tokens and secrets are named after the attempt that made them; `Typed`
are those that people type in.

Actions. The page: `Ask` (certificates unreadable, so a code and the POST),
`Resend` (a browser repeats a request whose connection broke), `FetchCerts`,
`FetchFails`. `HandlePair`: `Deny`, `Consent`, `Disconnect`, `ReceiveError`,
`Receive`; then `AddSite` in the steps of `Keystore`, `StoreToken`,
`SaveTruncate`, `SaveWrite`, one attempt of a bridge at a time (`Unlocked` is
its mutex), with `AddSiteFails` at each; then `SetHMACSecret`, which may fail.
`validate_pairing_code`: `Arrive`, `ReadCode`, `DeleteCode`, `Insert` (with its
commit), then `get_or_create_hmac_secret`: `LoadSettings`, `SaveSettings`,
`SaveConflict`. A worker runs on when its bridge is gone. Environment: `Stop` of
a bridge at any point; `Start`, which a `torn` file prevents, because
`NewKeystore` fails and `main` ends; `WorkerFails`; `Expire`; and
`EditSettings`, which saves the form with the secret untouched, cleared to
rotate it, or typed in.

`SaveConflict` is not in this repository: `Document.save` of the Frappe
framework refuses a document that was changed since it was loaded, and
`get_or_create_hmac_secret` relies on it. Requests without a code or a site,
which pages do not send, are left out.

### SignFlow

State. The site's clock and how far the bridge's is ahead of it; the HMAC secret
on either side; per click of the button the point the page has reached
(`page`), the secret and timestamp of its MAC, and where `HandleSign` is
(`bridge`); per call of `finalize_direct_sign` its point (`work`); the sessions
in the cache and in `/tmp`; the calls whose `File` and whose `HNS DSC Log` are
committed. A click has up to two calls, because browsers repeat a request whose
connection broke. History: what was signed, when the PIN was typed, which MACs
were checked, and which workers or transactions were stopped from outside.

Actions. The page: `Click`, `EnterPin`, `Finalize`, `FinalAnswer`. The site:
`ReadSecret` and `Prepare` (`initiate_direct_sign` reads the secret first and
the time last), `PrepareFails`; `ReadSession`, `FinalizeThrows`, `SaveFile`,
`DeleteSession`, then `LogAction` (whose commit is the one that commits the
file), `LogFails` and `Commit` (the exception is swallowed and the end of the
request commits), or `LogRollsBack` (a deadlock has undone the transaction
first), and `Succeed`. The bridge: `Gate` (`verifyHMAC`, or no secret at all),
`TokenSigns`, `TokenFails`, `SignAnswer`, `SignRefused`. The world:
`BridgeStops` with `SignResent` or `SignLost`, `FinalizeResent`, `WorkerStops`,
`Tick`, `ChangeSecret`, `PairBridge`, `LoseTmp`.

`SignedFiles` says what it is for: documents are prepared, then signed, and a
call may open a session, attach its file, or give up; none opens a session that
has its file. Two calls that opened it before may both attach one. `SignFlow`
refines it, `open` being the calls between `ReadSession` and the commit.

### AiaChain

State. The point of `HandleSign` after a signature (`step`), the signer's
certificate and serial number, the certificate whose issuer is wanted, the chain
so far, what the OCSP request was built from. Actions: `ParseLeaf`, `StopWalk`,
`FetchFailed`, `FetchIssuer`, `AskOcsp`, `PostOcsp`. A server answers with any
certificate or with bytes that are none. `buildOCSPRequest` and the `asn1`
helpers are operators on sequences of bytes, checked against a reader of DER
written from X.690 (`HeadLength` to `Only`), not from the code. Left out: URLs
and the bodies of OCSP answers, which the bridge hands on unread.

`SpkiHash` is the hash the code takes, of the whole `SubjectPublicKeyInfo`, and
`KeyHash` the one RFC 6960 asks for; only `RequestNamesIssuerKey`, which the code
violates, speaks of the second. A serial number of zero is the empty sequence of
bytes that `big.Int.Bytes` makes of it, and is encoded as an empty `INTEGER`.

### Startup

State. Per account `tls_cert.pem` and `tls_key.pem`; the NSS databases and what
each has under the bridge's nickname; the CA store, the Firefox policy, the
autostart entries; the port; per process its step, its mode (start,
post-install, pre-uninstall), its account and what it has in memory. A
certificate is known by a number which its key carries too; 0 is no file and -1
not a whole one, because both files are truncated and then written. Root's
system-store certificate is the one of Root's own data directory.

Actions, in the order of the code: `Launch`; `LoadConfig`; `FindPair`,
`LoadPair`, `OpenCert`, `FillCert`, `OpenKey`, `FillKey`, `Reload`
(`EnsureTLSCert`); `EnsureUserTrust`, `nssAddCert`, `UserTrustEnsured`;
`installCertSystemStore`, `installFirefoxSystemPolicy`, `installAutostart`;
`removeAutostart`, `removeCertSystemStore`, `removeFirefoxSystemPolicy`,
`removeUserTrust`, `certutilDelete`, `UserTrustRemoved`; `NewKeystore`,
`NewPKCS11Handler`, `StartServer`, `Stop`. `TLSFault` and `ToolFault` are the
error paths: the first ends the launch or, where `pem.Encode`'s error is not
read, goes on; the second is logged and the next step taken, and what the tool or
the write had done by then stays (`HalfDone`): the CA file cut short or written
although its command failed, or gone although it failed; a policy or autostart
file emptied. Around them `Kill`, `Purge` of a data directory and `NewProfile`.

Launches of one account may overlap in `EnsureTLSCert`, and then anything may
happen to the two files (`Written`). The properties speak of a launch that met
no fault and no other launch of its account (`disturbed`); what the others have
left behind before it started is what they are about. `bare`, a history too, is
the set of databases that had no entry of the bridge when a launch began.

### MCParts

The three have no variable in common, so one run checks them as a sum: a
behaviour shows one part while the others rest in an initial state (`part`).
Nothing is lost by that: no action and no property of one part mentions
another. Of `Startup` it shows the launches of a user or those of Root.

## Runs

| run | instance | checks |
|---|---|---|
| `sign_concurrent` | 2 requests, 1 reader in which 2 tokens take turns (one without a key), 2 PINs, 2 tries, 2 events | `TypeOK`, `LoginExclusive`, `CachedPinWasAccepted`, `BurnBound`, `OneTokenSigns`, `TriesTakenFromOwnToken`, `ImplementsTokenLease` |
| `sign_live` | 2 requests, 1 token, 1 try, 1 event, flaky driver, fairness | `EveryRequestAnswered`, `LoginReleased` |
| `sign_two_certs` | 1 request, a token with 2 certificates | violates `SignedWithExpectedKey` |
| `sign_lingering` | 2 requests, 1 token, 1 PIN change | violates `RejectedPinForgotten` |
| `keystore` | 2 writers, 2 sites, 3 pairings, removals, file faults, 1 restart, a keychain up, down or changing, fairness | `TypeOK`, `DurablePairingHasToken`, `AckedPairingListed`, `ReadsBackTokens`, `ReadsBackSecrets`, `RemovedIsGone`, `EveryWriterReturns` |
| `keystore_torn_read` | 1 writer, no keychain | violates `EmptySecretMeansLegacy` |
| `keystore_lost_update` | 2 writers, no keychain | violates `ReadsBackSecrets` |
| `keystore_torn_meta` | 1 writer, 1 restart | violates `PairingsSurviveRestart` |
| `pairing` | 2 attempts, 2 bridges, 1 typed secret, all faults, fairness | `TypeOK`, `LateUseRefused`, `SecretsAgree`, `AnsweredPairingServes`, `AnsweredPairingEnds`, `ImplementsRegistry` |
| `parts` | see bounds | of `Startup`: `TypeOK`, `WholePairKept`, `LoneLaunchGetsCert`, `NewTrustIsServed`, `UninstallUndoes`, `EveryDriverOnce`; of `AiaChain`: `WalkTypeOK`, `RequestNamesLeaf`, `EveryWalkAnswers`; of `SignFlow`: `FlowTypeOK`, `SignedInWindow`, `DoneMeansAttached`, `SessionNotWasted`, `EveryClickEnds`, `ImplementsSignedFiles` |
| `startup_self_heal` | as `parts` | violates `TrustSelfHeals` |
| `ocsp_key_hash` | as `parts` | violates `RequestNamesIssuerKey` |

What the passing runs show. Although `SignHash` takes no lock, no two requests
are ever logged in to one slot and no login stays behind: the token's own
refusal of a second login, and `defer`, are enough. The cache holds only PINs
that C_Login accepted in a request for that certificate, though a PIN may have
been rejected since, and a stale one costs at most one try per handler that had
already read it. Signature and certificate of an answer are of one token, and
only that token loses tries, also while tokens are swapped; it is the token with
the certificate asked for unless the swap falls between `FindCertByFingerprint`
and `C_OpenSession`. Every handler ends.

The order keychain, memory, metadata in `AddSite` is enough for a listed site to
have its token after any stop that leaves the metadata whole. With one writer the
file fallback is sound as long as no write of it fails or is cut short, and
`RemoveSite` empties all four places, also where a site has entries in the
keychain and in the file, unless the keychain does not answer or a write fails,
errors that it drops.

A code that has led to a registration is refused from then on, although reading
and deleting it are two calls. Two pairings that create the HMAC secret cannot
leave a bridge with an overwritten one; the price is that one of them fails after
its code was used and its registration committed. A bridge holds the site's
secret or one that people retired in the form. A pairing answered with 200 serves
its page whenever the bridge runs; a stop in the middle of the save of another
pairing leaves a bridge that does not start, which is `keystore_torn_meta`. Once
the site has answered, the pairing ends; before that nothing ends it but the
connection, because `http.Post` has no timeout.

What `parts` shows. Whatever a stop left of the two TLS files, the next launch
gets over it, and it never replaces a pair that is whole, so that the
fingerprint a site has on record and the trust of the browsers keep their
meaning. A database without an entry of the bridge gets the certificate that is
served. One that has an entry keeps it: `nssAddCert` never replaces an entry, and
after `uninstall.sh --purge` or a broken pair browsers keep the old certificate
until a `--pre-uninstall`, which `startup_self_heal` sets against the words of
`main.go`. An uninstall that is alone with its account and meets no fault undoes
what launches of that account had put in place; Root's leaves the entries in the
databases of users. Each working driver is loaded once, under the user's path
where there is one. The chain walk ends, whatever servers answer. A DER reader
finds in the OCSP request what the code means to put there, at lengths on both
sides of 127/128 and 255/256 of the elements nested in it; that one of the
values is not the one RFC 6960 asks for is `ocsp_key_hash`. A PIN typed too late
signs nothing; a request signed twice, because the nonce is not recorded, still
attaches one file unless two calls run at once. A page that reports success has
its file, with one exception, which `DoneMeansAttached` names: when the insert of
the log meets a deadlock, the database undoes the transaction with the file in
it, `log_dsc_action` swallows the exception and success is answered. The other
way round nothing is promised: a page may report an error although the file is
attached, its answer being lost. Prepared files in `/tmp` are never removed.

What the violations show is in `PROJECT.json` under `findings`, each against the
sentence of the source it contradicts. `keystore_torn_read` and
`keystore_lost_update` have the same root: the token file is read and rewritten
outside the mutex.

Three more sentences of the repository are not what the code does, and have no
run of their own:

- `server.go:131` and `handlers.go:204` call the code one-time. Two workers that
  both read it before either deletes it register the agent twice, with one token
  each (`agent.py:62`); `LateUseRefused` speaks of requests that come after the
  registration.
- `dsc_agent_settings.json:34` says that clearing the secret rotates it. Nothing
  gives the new one to bridges that are paired already; they refuse every
  signature until they are paired again. `SecretsAgree` allows them a retired
  secret, and `ChangeSecret` of `SignFlow` makes one part of the sign flow.
- `FetchCertChain` says that it stops before the root (`aia.go:17-19`). A root
  that was fetched is in the chain; nothing depends on it.

Bounds. Two requests are enough for each race between steps of two handlers; no
property counts more than two actors except `BurnBound`, whose bound is the
number of requests and which is proved for every number. One reader is enough
because requests at different readers share only the cache, and the theorems are
about any number of readers. Two PINs give a right
and a wrong one and their exchange; two tries one wrong PIN before a lock. Two
events give a swap of tokens (pull, insert) or a PIN change and a restart. In
`keystore` a behaviour is either of one writer, with at most two pairings,
removals, and a keychain that is up, down or changes at most once, or of two
writers that pair three times while it answers: two pairings and a removal give
a site that comes back and one with entries in both stores, three pairings of
two sites give one site re-paired while the other is paired. What two writers
can do to the token file is what the two violation runs show. In `pairing` two
attempts are two computers, or one computer with two tabs, or one request sent
twice; nothing in it counts, so it needs no other bound, and its safety
properties are proved for every number of attempts. `MaxEvents`,
`MaxTries`, `MaxPairings` and `MaxCrashes` bound the counters.

In `parts` the bounds are, for `Startup`: two processes, three launches (one
that leaves something behind, two that overlap or follow), one fault, stop or
change by the user, Chrome's database and a Firefox profile, and two contents
of the configuration. With one event two faults never meet; a property about
what one launch leaves for the next needs no more. For `AiaChain`: a leaf, two
intermediates and a root that all may answer for one another, the loop bound of
the code, and serial numbers of 0, 1, 20, 70, 71, 197 and 198 bytes, at which
the innermost and then the outer elements grow past 127 and 255 bytes. For
`SignFlow`: one click with two calls, a window of 1 in a session of 2, time up
to 3 (both limits are passed by one), clocks apart by less and by more than the
window, and two faults. Clicks share nothing but the secret and the clock, and
the safety properties are proved for any number of them.

In the other runs `Requests` and `PINs` are interchangeable and reduced by symmetry in the safety runs, nowhere
under fairness.

Fairness. `LiveSpec` of `BridgeSign` is weak fairness of each `HandleSign`:
goroutines are scheduled and driver calls return (the code sets no timeout of
its own on them). `LiveSpec` of `Keystore` adds strong fairness of `Lock`: Go's
mutexes hand themselves to a goroutine that has waited for a millisecond.
`MCSpec` of `MCKeystore` is the same for its two kinds of behaviour.
`LiveSpec` of `Pairing` is weak fairness of `HandlePair` from the site's answer
on, and of the page; nothing is assumed of the site's workers, the network or the
user, and no connection need fail.
`PartsSpec` is weak fairness of the chain walk, whose two HTTP clients have a
timeout of 10 seconds, and, per click, of `initiate_direct_sign`, `HandleSign`,
the page's reactions to answers, and `finalize_direct_sign`: handlers and
workers run and their calls return. The user need not type the PIN; launches,
which have no liveness property, need not run.
Nothing is assumed of the environment, not even that it stops.

## Proofs

`BridgeSignProofs`, for any number of requests, slots, tokens, certificates,
PINs and events:

- `TypeCorrect`. `TypeOK` alone is not inductive, because a handler at `login`
  indexes `tok` with its slot; `Shape` adds what the locals hold at each point.
- `LoginIsExclusive`. `LoginExclusive` is inductive with `Shape`: a step that
  changes neither a login nor who is logged in is harmless, and the few others
  are taken one by one.
- `CachedPinIsGenuine`, from `CacheInv`: a request past a successful login
  carries a PIN that C_Login has accepted for its certificate, and an accepted
  PIN is never forgotten to have been one.
- `CachedPinBurnsLittle`, from `BurnInv`: the tries burned plus the handlers
  still *armed* with a cached PIN never exceed the number of requests, an
  argument on cardinalities of finite sets.
- `OneTokenAlwaysSigns` and `OwnTriesOnly`, for any contents and swaps of tokens:
  `KeyInv` says that a request with a live session talks to the token in its
  slot, because pulling that token kills the session, and that what it has of
  key and certificate is of that token, which is `found` unless it was swapped
  before the session was opened.
- `SigningImplementsLease`: every step of `BridgeSign` is a step of `TokenLease`
  or changes nothing of it. The holder of a slot is the one request that is
  logged in there; that there is only one, in the next state too, is
  `LoginExclusive`, and one lemma, `HolderNow`, turns it into what `Holder`
  is. `SignedInside` says that a signature exists only at the points between
  `C_Sign` and the answer, so that a request that has signed cannot sign again.
  A pulled token and a restart are steps of `TokenLease` as well, `Release` and
  `LoseAll`.

`KeystoreProofs`, for any number of writers, sites, pairings and restarts, with
or without file faults:

- `TypeCorrect`, with `Placed`.
- `DurablePairing`: with a keychain that answers and no remover,
  `DurablePairingHasToken`. The invariant `TokenInv` follows the token from the
  keychain to the memory and from there to the metadata. Neither the mutex nor
  the fate of a write plays a part in it.
- `AckedPairing`: without a remover, `AckedPairingListed`, whatever the
  keychain does. `AckInv` says that a pairing past `save` is listed and stays
  so, and that a process that failed to start runs no handler.

- `KeychainReadsBack`: with a keychain that answers and no remover, for any
  number of writers, `ReadsBackTokens` and `ReadsBackSecrets`. `KeychainInv`
  says that the keychain holds, entry by entry, what was recorded last, and
  that the token file, which would answer in its place, is empty.
- `TokenFileReadsBack`: the same two with a keychain that never answers and one
  writer, through removals, failed writes of the metadata and restarts.
  `FileInv`: as long as no write was spoiled the file is what was recorded
  last, or truncated while a writer is at it, whose buffer is the record with
  its own entry changed.
- `RemovedStaysGone`: with one writer, whatever the keychain does,
  `RemovedIsGone`. `RemovalInv` follows a removal through memory, keychain, token
  file and metadata, and `GoneInv` says that what is gone from both stores stays
  gone while the writer works for other sites.
- `SavesNeverOverlap`, without any assumption: `MutexInv` says at which points a
  writer holds the mutex, `SetHMACSecret` never. Two calls of `save` cannot
  mix, which is why the model, too, writes the metadata as a whole.

The assumptions are conditions the runs use as well. `RemoveSite` is called by
tests only, and deletes the token before the metadata, so that
`DurablePairingHasToken` does not hold with it, and a stop in its middle leaves
a listed site without a token. With several writers the token file can lose
entries and be torn: `keystore_lost_update` and `keystore_torn_read`.

`PairingProofs`, for any number of attempts and bridges:

- `TypeCorrect`, with `Placed`.
- `UsedCodeRefused`, from `CodeInv`: a code has left the cache before its
  registration is committed and belongs to an attempt that has begun, so it
  never returns, and a request that comes after it fails at `get_value`.
- `OneSecret`, from `SecretInv`: a worker about to save a secret over settings
  that did not change found none there, and every secret in an answer, in a
  handler or on a bridge is the stored one or a retired one.
- `PairedStaysPaired`, from `ListInv`: what a pairing past `AddSite` has
  stored is in the file and, while the bridge runs, in its memory.
- `PairingImplementsRegistry`: every step of `Pairing` is a step of `Registry`
  or changes nothing of it, from `CodeInv` (a token is granted once) and
  `GrantInv` (an answer belongs to a registration).

`PairingAssumption` (`None` is no attempt, bridge or secret, and people do not
type a secret that the site will make) is all they assume.

`FlowProofs`, for any number of clicks, any window, skews and bounds:

- `FlowTypeCorrect`, from `FlowInv`: the page and the bridge go `Abreast` (the
  bridge works only for a page that waits), and calls exist only for a page
  that has come to `final` (`Finalizing`).
- `SignedInWindowAlways`. `CheckedInWindow` says that the bound holds from the
  check of the MAC on, not only from the signature: a request that waits at the
  token keeps the time at which its PIN was typed.
- `DoneIsAttached` and `SessionKept`: a call that is committed or answered has
  its file or is `undone`; one past `DeleteSession` is on its way.
- `FlowImplementsSignedFiles`: each step is one of `SignedFiles` or changes
  nothing of it. A new call finds the session in the cache; were a file
  attached already, its call would have deleted it.

`AiaProofs`, for any certificates and answers of servers:

- `WalkTypeCorrect`, from `WalkInv`: while the walk goes on, `current` is the last
  of the chain, or the leaf (`Climbing`), and an OCSP request is made of the leaf
  and the first certificate of the chain (`Asked`).
- `RequestAlwaysNamesLeaf`, for hashes of 20 bytes and serial numbers of up to
  65000 bytes, zero included: `asn1Wrap` read back gives what was wrapped
  (`ElementReads`), four elements in a row are read one after the other
  (`FourElements`), and a wrapped layer is one well-formed element
  (`LayerReads`). `Sizes` names the two assumptions: SHA-1 has 20 bytes, and a
  body of 65536 bytes or more has a header of which `asn1Wrap` drops the upper
  byte.

`StartupProofs`, for any number of launches, accounts, databases and faults:

- `StartupTypeCorrect`, with `Placed`: each step belongs to a mode, and Root and
  the users have steps of their own.
- `WholePairAlwaysKept`, `NewTrustIsAlwaysServed`, `LoneLaunchAlwaysGetsCert` and
  `UninstallAlwaysUndoes`, all from `StartupInv`. Its part `Known` says what an
  undisturbed launch knows at each step of its account's files (`FilesKnown`),
  of the trust it puts in place (`TrustKnown`) and of what it has undone
  (`UndoneKnown`). `Alone` says that such a launch shares its account only with
  one that serves, which writes nothing, and `Entries` that only databases that
  exist hold an entry.
- One lemma per action shows that its step keeps what its process knows and
  stays `Within` its account; `OtherKnown` shows, once for all actions, that
  the other processes then keep what they know.

`DriverProofs`, for configuration files and a built-in list of any length:

- `EveryDriverAlwaysOnce`. `Loaded` is the loop of `NewPKCS11Handler` as a
  recursive function, and what it computes needs induction on the rounds. The
  library states induction with a predicate as an argument, which the provers
  cannot instantiate; `SetInduction` states it of a set of numbers and follows
  from the least-element principle, `WFMin`. `RoundsExist` and `LoadedIsLast`
  show that the recursive definition defines a function, round by round;
  `LoadedRound` and `SkippedRound`, that each round keeps `Collected`: the
  contexts are of working files, no two of one file, none left out, each under
  the first path in the list that leads to its file. As the user's paths come
  first, that is what `EveryDriverOnce` says (`LoadedEveryOnce`), counting the
  files by a bijection. `DriversInv` keeps it from `NewPKCS11Handler` to the
  end of the process.

`StartupAssumption` is all that these two modules assume: Root is no user,
`None` is nobody, every database has a user, lists of drivers are sequences of
paths, and a configuration may name no driver.

Model-checked only: the six liveness properties (`EveryRequestAnswered`,
`LoginReleased`, `EveryWriterReturns`, `AnsweredPairingEnds`, `EveryWalkAnswers`,
`EveryClickEnds`), because fairness is out of the prover's reach. Every other
property of a passing run is stated by a theorem.

## Not modelled

- `Destroy` runs while the process ends; what a PKCS#11 library does then with a
  call that is under way is not defined by this code.
- `HandleStatus` and `HandleCerts` read only.
- Hooks of macOS and Windows: one or two tools each, no state of the bridge's.
- Certificate policy (`verify_direct_certificate`, `_check_cert_allowed`,
  `workflow_approval.py`): decisions over settings tables in one request.
- Device login: `check_mac_before_login` decides once, at the login, from a
  table nobody but the administrator changes.
- `verify_site_token`, which nothing calls, the deactivation of registrations,
  the dialogs, forms and hooks of the framework, PDF and CMS contents.
- The columns of the log, the stamp and the watermark.

## Plan

All of the first plan's core is there: `BridgeSign`, `Keystore`, `Pairing`,
`SignFlow`, `AiaChain`, and `Startup` in place of a module for the TLS
certificate alone. What is left, in this order:

1. `CertPolicy`: the three decision functions against one another, over all
   small tables.
2. `DeviceLogin`: automatic device maps of two devices of one person.
3. Proofs: an abstract store that `Keystore` implements where its lookups read
   back.

------------------------------ MODULE Startup -------------------------------
(***************************************************************************)
(* The bridge program on one Linux machine, from launch to exit: what main *)
(* does before it serves, and the two hooks of the installers.             *)
(*                                                                         *)
(* Every account has a data directory with a TLS certificate and, in a     *)
(* second file, its key; both are written in place.  Browsers trust a      *)
(* bridge through NSS databases, one for Chrome and one per Firefox        *)
(* profile, which the bridge fills when it starts.  Launches may overlap:  *)
(* the autostart entry, a start by hand, a hook.                           *)
(*                                                                         *)
(* A certificate is known by a number, which its key carries too; they are *)
(* numbered in the order in which they come to the disk.                   *)
(***************************************************************************)
EXTENDS Integers, FiniteSets, Sequences

CONSTANTS
    Procs,         \* launches of the program that may overlap
    Launches,      \* the pairs of a mode and an account considered
    Users, Root,   \* accounts; Root has effective uid 0
    DBs,           \* NSS databases a user may have ...
    OwnerOf,       \* ... whose each one is ...
    Chrome,        \* ... and which of them are ~/.pki/nssdb
    Libraries,     \* paths of PKCS#11 libraries
    Present,       \* those that exist on this machine
    FileOf,        \* the library file behind a path (paths may be links)
    Broken,        \* library files that fail to load or to initialize
    DefaultPKCS11Paths,  \* the built-in list of paths
    Configs,       \* contents of pkcs11_libs a configuration file may have
    MaxLaunches,   \* bound: launches of the program
    MaxEvents,     \* bound: crashes, faults and changes by the user
    None

Homes == Users \cup {Root}

ASSUME StartupAssumption ==
    /\ Root \notin Users /\ None \notin Procs \cup Homes
    /\ OwnerOf \in [DBs -> Users] /\ Chrome \subseteq DBs
    /\ <<>> \in Configs /\ Configs \subseteq Seq(Libraries)
    /\ DefaultPKCS11Paths \in Seq(Libraries)
    /\ MaxLaunches \in Nat /\ MaxEvents \in Nat

VARIABLES
    cert, key,  \* per account: tls_cert.pem and tls_key.pem
    profiles,   \* NSS databases that exist
    nss,        \* per database: the certificate under the bridge's nickname
    caStore,    \* the certificate in the system's CA source directory
    policy,     \* Firefox's policies.json is in place
    autostart,  \* autostart entries; Root's is the system-wide one
    port,       \* the process bound to 127.0.0.1:4645
    made,       \* certificates written so far
    launches, events,  \* so far
    proc        \* per process: its step and what it holds in memory

tlsVars == <<cert, key, made>>
trustVars == <<profiles, nss, caStore, policy, autostart>>
countVars == <<launches, events>>
vars == <<tlsVars, trustVars, port, countVars, proc>>

(* LoadConfig puts the paths of the file before the built-in ones. *)
PKCS11LibsLast(paths) == DefaultPKCS11Paths \o paths   \* slip: the other order

PKCS11Libs(paths) == paths \o DefaultPKCS11Paths

(* NewPKCS11Handler: a path whose library file is loaded already gives a
   context that C_Initialize refuses.                                      *)
Loaded(paths) ==
    LET after[i \in 0..Len(paths)] ==
            IF i = 0 THEN <<>>
            ELSE IF /\ paths[i] \in Present /\ FileOf[paths[i]] \notin Broken
                    /\ \A j \in 1..Len(after[i - 1]) :
                          FileOf[after[i - 1][j]] # FileOf[paths[i]]
            THEN Append(after[i - 1], paths[i]) ELSE after[i - 1]
    IN after[Len(paths)]

LoadedLibs == {<<>>} \cup {Loaded(PKCS11Libs(paths)) : paths \in Configs}

Modes == {"start", "post-install", "pre-uninstall"}
Rewriting == {"generate", "fillcert", "openkey", "fillkey"}
Steps == Rewriting \cup
         {"idle", "config", "stat", "loadkey", "reload", "listdbs", "certutil",
          "keystore", "drivers", "listen", "serving", "castore", "policy",
          "autostart", "unstart", "uncastore", "unpolicy", "unlistdbs",
          "untrust"}
File == 0..MaxLaunches \cup {-1}      \* 0: no such file, -1: not a whole one

Process ==
    [pc : Steps, mode : Modes, home : Homes \cup {None},
     mine : File,              \* the certificate it has read or loaded
     new : File,               \* the certificate it has written
     todo : SUBSET DBs,        \* databases certutil is still to be run on
     paths : Configs,          \* pkcs11_libs of the configuration
     libs : LoadedLibs,        \* PKCS11Handler.loadedLibs
     bare : SUBSET DBs,        \* history: databases without an entry when it started
     disturbed : BOOLEAN]      \* history: it met a fault, or was not alone

Idle == [pc |-> "idle", mode |-> "start", home |-> None, mine |-> 0,
         new |-> 0, todo |-> {}, paths |-> <<>>, libs |-> <<>>,
         bare |-> {}, disturbed |-> FALSE]

TypeOK ==
    /\ cert \in [Homes -> File] /\ key \in [Homes -> File]
    /\ profiles \in SUBSET DBs /\ nss \in [DBs -> 0..MaxLaunches]
    /\ caStore \in File /\ policy \in BOOLEAN
    /\ autostart \in SUBSET Homes /\ port \in Procs \cup {None}
    /\ made \in 0..MaxLaunches
    /\ launches \in 0..MaxLaunches /\ events \in 0..MaxEvents
    /\ proc \in [Procs -> Process]

Init ==
    /\ cert = [h \in Homes |-> 0] /\ key = [h \in Homes |-> 0]
    /\ profiles \in SUBSET DBs /\ nss = [d \in DBs |-> 0]
    /\ caStore = 0 /\ policy = FALSE /\ autostart = {}
    /\ port = None /\ made = 0 /\ launches = 0 /\ events = 0
    /\ proc = [p \in Procs |-> Idle]
-----------------------------------------------------------------------------
At(p, step) == proc[p].pc = step
Home(p) == proc[p].home
DBsOf(h) == {d \in DBs : OwnerOf[d] = h}
IsCert(c) == c \in 1..MaxLaunches
Whole(h) == IsCert(cert[h]) /\ key[h] = cert[h]

Goto(p, step) == proc' = [proc EXCEPT ![p].pc = step]

(* A launch ends: by log.Fatalf, by returning from a hook, by a signal, by
   being killed.  What it held in memory and its port are gone.            *)
End(p) ==
    /\ proc' = [proc EXCEPT ![p] = Idle]
    /\ port' = IF port = p THEN None ELSE port

(* main: the flags choose a hook or a normal start. *)
Launch(p, m, h) ==
    /\ At(p, "idle") /\ <<m, h>> \in Launches
    /\ launches < MaxLaunches /\ launches' = launches + 1
    /\ LET others == {q \in Procs : /\ Home(q) = h
                                    /\ ~At(q, "serving") \/ m = "pre-uninstall"}
           launch == [Idle EXCEPT
                        !.pc = IF m = "pre-uninstall" THEN "unstart" ELSE "config",
                        !.mode = m, !.home = h,
                        !.bare = {d \in DBsOf(h) \cap (profiles \cup Chrome) : nss[d] = 0},
                        !.disturbed = others # {}]
       IN proc' = [q \in Procs |->
                      IF q = p THEN launch
                      ELSE IF q \in others THEN [proc[q] EXCEPT !.disturbed = TRUE]
                      ELSE proc[q]]
    /\ UNCHANGED <<tlsVars, trustVars, port, events>>

(* LoadConfig: a file that json.Unmarshal refuses ends the launch. *)
LoadConfig(p) ==
    /\ At(p, "config")
    /\ \/ Goto(p, "stat") /\ UNCHANGED port
       \/ End(p)
    /\ UNCHANGED <<tlsVars, trustVars, countVars>>
-----------------------------------------------------------------------------
(* What follows EnsureTLSCert in main and in PostInstall. *)
AfterTLS(p) ==
    IF proc[p].mode = "post-install" /\ Home(p) = Root THEN "castore" ELSE "listdbs"

(* EnsureTLSCert: where both files are there, load the pair ... *)
FindPairUnlessHook(p) ==    \* slip: the hook makes a new pair each time
    /\ At(p, "stat")
    /\ IF cert[Home(p)] # 0 /\ key[Home(p)] # 0 /\ proc[p].mode = "start"
       THEN proc' = [proc EXCEPT ![p].mine = cert[Home(p)], ![p].pc = "loadkey"]
       ELSE Goto(p, "generate")
    /\ UNCHANGED <<tlsVars, trustVars, port, countVars>>

FindPair(p) ==
    /\ At(p, "stat")
    /\ IF cert[Home(p)] # 0 /\ key[Home(p)] # 0
       THEN proc' = [proc EXCEPT ![p].mine = cert[Home(p)], ![p].pc = "loadkey"]
       ELSE Goto(p, "generate")
    /\ UNCHANGED <<tlsVars, trustVars, port, countVars>>

(* ... and make a new one if they do not belong together. *)
LoadPairOrFail(p) ==        \* slip: the error of LoadX509KeyPair is returned
    /\ At(p, "loadkey")
    /\ IF IsCert(proc[p].mine) /\ key[Home(p)] = proc[p].mine
       THEN Goto(p, AfterTLS(p)) /\ UNCHANGED port
       ELSE End(p)
    /\ UNCHANGED <<tlsVars, trustVars, countVars>>

LoadPair(p) ==
    /\ At(p, "loadkey")
    /\ Goto(p, IF IsCert(proc[p].mine) /\ key[Home(p)] = proc[p].mine
               THEN AfterTLS(p) ELSE "generate")
    /\ UNCHANGED <<tlsVars, trustVars, port, countVars>>

(* generateSelfSignedCert: opening tls_cert.pem truncates it. *)
OpenCert(p) ==
    /\ At(p, "generate")
    /\ cert' = [cert EXCEPT ![Home(p)] = -1]
    /\ Goto(p, "fillcert")
    /\ UNCHANGED <<key, made, trustVars, port, countVars>>

(* Two processes in one file may leave a mixture. *)
Shared(p, step) == \E q \in Procs \ {p} : Home(q) = Home(p) /\ At(q, step)
Written(p, step, c) == {c} \cup IF Shared(p, step) THEN {-1} ELSE {}

FillCert(p) ==
    /\ At(p, "fillcert")
    /\ made < MaxLaunches /\ made' = made + 1
    /\ \E c \in Written(p, "fillcert", made') : cert' = [cert EXCEPT ![Home(p)] = c]
    /\ proc' = [proc EXCEPT ![p].new = made', ![p].pc = "openkey"]
    /\ UNCHANGED <<key, trustVars, port, countVars>>

OpenKey(p) ==
    /\ At(p, "openkey")
    /\ key' = [key EXCEPT ![Home(p)] = -1]
    /\ Goto(p, "fillkey")
    /\ UNCHANGED <<cert, made, trustVars, port, countVars>>

FillKey(p) ==
    /\ At(p, "fillkey")
    /\ \E k \in Written(p, "fillkey", proc[p].new) : key' = [key EXCEPT ![Home(p)] = k]
    /\ Goto(p, "reload")
    /\ UNCHANGED <<cert, made, trustVars, port, countVars>>

(* tls.LoadX509KeyPair at its end reads both files again. *)
Reload(p) ==
    /\ At(p, "reload")
    /\ IF Whole(Home(p))
       THEN /\ proc' = [proc EXCEPT ![p].mine = cert[Home(p)], ![p].new = 0,
                                    ![p].pc = AfterTLS(p)]
            /\ UNCHANGED port
       ELSE End(p)
    /\ UNCHANGED <<tlsVars, trustVars, countVars>>

(* A file cannot be opened; or it is cut short, which pem.Encode reports and
   nobody reads.                                                           *)
TLSFault(p) ==
    /\ events < MaxEvents /\ events' = events + 1
    /\ \/ (At(p, "generate") \/ At(p, "openkey")) /\ End(p)
       \/ /\ At(p, "fillcert") \/ At(p, "fillkey")
          /\ proc' = [proc EXCEPT ![p].disturbed = TRUE, ![p].pc =
                         IF @ = "fillcert" THEN "openkey" ELSE "reload"]
          /\ UNCHANGED port
    /\ UNCHANGED <<tlsVars, trustVars, launches>>
-----------------------------------------------------------------------------
(* userNSSDatabases creates Chrome's database if need be and finds the
   Firefox profiles there are.                                             *)
userNSSDatabasesFound(p, next) ==    \* slip: a database that is not there yet is left out
    /\ profiles' = profiles \cup (DBsOf(Home(p)) \cap Chrome)
    /\ proc' = [proc EXCEPT ![p].todo = DBsOf(Home(p)) \cap profiles,
                            ![p].pc = next]
    /\ UNCHANGED <<tlsVars, nss, caStore, policy, autostart, port, countVars>>

userNSSDatabases(p, next) ==
    /\ profiles' = profiles \cup (DBsOf(Home(p)) \cap Chrome)
    /\ proc' = [proc EXCEPT ![p].todo = DBsOf(Home(p)) \cap profiles',
                            ![p].pc = next]
    /\ UNCHANGED <<tlsVars, nss, caStore, policy, autostart, port, countVars>>

(* EnsureUserTrust, of a start and of a user's post-install. *)
AfterTrust(p) == IF proc[p].mode = "start" THEN "keystore" ELSE "autostart"

EnsureUserTrust(p) == At(p, "listdbs") /\ userNSSDatabases(p, "certutil")

(* Nothing is done for a database that knows the nickname. *)
nssAddCertUnread(p, d) ==   \* slip: certutil is not asked whether it could read the file
    /\ At(p, "certutil") /\ d \in proc[p].todo
    /\ nss' = IF nss[d] = 0 THEN [nss EXCEPT ![d] = cert[Home(p)]] ELSE nss
    /\ proc' = [proc EXCEPT ![p].todo = @ \ {d}]
    /\ UNCHANGED <<tlsVars, profiles, caStore, policy, autostart, port,
                   countVars>>

nssAddCert(p, d) ==
    /\ At(p, "certutil") /\ d \in proc[p].todo
    /\ nss' = IF nss[d] = 0 /\ IsCert(cert[Home(p)])
              THEN [nss EXCEPT ![d] = cert[Home(p)]] ELSE nss
    /\ proc' = [proc EXCEPT ![p].todo = @ \ {d}]
    /\ UNCHANGED <<tlsVars, profiles, caStore, policy, autostart, port,
                   countVars>>

UserTrustEnsured(p) ==
    /\ At(p, "certutil") /\ proc[p].todo = {}
    /\ Goto(p, AfterTrust(p))
    /\ UNCHANGED <<tlsVars, trustVars, port, countVars>>

(* Root's post-install trusts the system-wide way. *)
installCertSystemStore(p) ==
    /\ At(p, "castore")
    /\ caStore' = cert[Home(p)]
    /\ Goto(p, "policy")
    /\ UNCHANGED <<tlsVars, profiles, nss, policy, autostart, port, countVars>>

installFirefoxSystemPolicy(p) ==
    /\ At(p, "policy")
    /\ policy' = TRUE
    /\ Goto(p, "autostart")
    /\ UNCHANGED <<tlsVars, profiles, nss, caStore, autostart, port, countVars>>

installAutostart(p) ==
    /\ At(p, "autostart")
    /\ autostart' = autostart \cup {Home(p)}
    /\ End(p)
    /\ UNCHANGED <<tlsVars, profiles, nss, caStore, policy, countVars>>
-----------------------------------------------------------------------------
(* PreUninstall: removeAutostart, then the trust of Root or of a user. *)
Untrust(p) == IF Home(p) = Root THEN "uncastore" ELSE "unlistdbs"

removeAutostartOfRoot(p) ==  \* slip: always the system-wide entry
    /\ At(p, "unstart")
    /\ autostart' = autostart \ {Root}
    /\ Goto(p, Untrust(p))
    /\ UNCHANGED <<tlsVars, profiles, nss, caStore, policy, port, countVars>>

removeAutostart(p) ==
    /\ At(p, "unstart")
    /\ autostart' = autostart \ {Home(p)}
    /\ Goto(p, Untrust(p))
    /\ UNCHANGED <<tlsVars, profiles, nss, caStore, policy, port, countVars>>

removeCertSystemStore(p) ==
    /\ At(p, "uncastore")
    /\ caStore' = 0
    /\ Goto(p, "unpolicy")
    /\ UNCHANGED <<tlsVars, profiles, nss, policy, autostart, port, countVars>>

removeFirefoxSystemPolicy(p) ==
    /\ At(p, "unpolicy")
    /\ policy' = FALSE
    /\ End(p)
    /\ UNCHANGED <<tlsVars, profiles, nss, caStore, autostart, countVars>>

removeUserTrust(p) == At(p, "unlistdbs") /\ userNSSDatabases(p, "untrust")

certutilDelete(p, d) ==
    /\ At(p, "untrust") /\ d \in proc[p].todo
    /\ nss' = [nss EXCEPT ![d] = 0]
    /\ proc' = [proc EXCEPT ![p].todo = @ \ {d}]
    /\ UNCHANGED <<tlsVars, profiles, caStore, policy, autostart, port,
                   countVars>>

UserTrustRemoved(p) ==
    /\ At(p, "untrust") /\ proc[p].todo = {}
    /\ End(p)
    /\ UNCHANGED <<tlsVars, trustVars, countVars>>

(* A step of a hook or of EnsureUserTrust fails (no certutil, no home, a full
   disk, ...): the code logs it and goes on with the next one.             *)
AfterFault(p) ==
    CASE At(p, "castore") -> "policy"
      [] At(p, "policy") -> "autostart"
      [] At(p, "unstart") -> Untrust(p)
      [] At(p, "uncastore") -> "unpolicy"
      [] At(p, "listdbs") -> AfterTrust(p)
      [] OTHER -> "idle"

(* A file that could not be written is cut short, or the command after it has
   failed; one that was removed is gone though the command failed.         *)
HalfDone(p) ==
    /\ caStore' \in {caStore} \cup (IF At(p, "castore") THEN {-1, cert[Home(p)]}
                                  ELSE IF At(p, "uncastore") THEN {0} ELSE {})
    /\ policy' \in {policy} \cup (IF At(p, "policy") THEN {FALSE} ELSE {})
    /\ autostart' \in {autostart} \cup
                      (IF At(p, "autostart") THEN {autostart \ {Home(p)}} ELSE {})
    /\ UNCHANGED <<profiles, nss>>

ToolFault(p) ==
    /\ events < MaxEvents /\ events' = events + 1
    /\ \/ /\ AfterFault(p) # "idle"
          /\ proc' = [proc EXCEPT ![p].disturbed = TRUE, ![p].pc = AfterFault(p)]
          /\ UNCHANGED port
       \/ /\ At(p, "certutil") \/ At(p, "untrust")
          /\ \E d \in proc[p].todo : proc' =
                [proc EXCEPT ![p].disturbed = TRUE, ![p].todo = @ \ {d}]
          /\ UNCHANGED port
       \/ (At(p, "autostart") \/ At(p, "unpolicy") \/ At(p, "unlistdbs")) /\ End(p)
    /\ HalfDone(p) /\ UNCHANGED <<tlsVars, launches>>
-----------------------------------------------------------------------------
(* NewKeystore fails on a paired_sites.json that cannot be read. *)
NewKeystore(p) ==
    /\ At(p, "keystore")
    /\ \/ Goto(p, "drivers") /\ UNCHANGED port
       \/ End(p)
    /\ UNCHANGED <<tlsVars, trustVars, countVars>>

(* The drivers of the configuration and the built-in ones. *)
NewPKCS11Handler(p) ==
    /\ At(p, "drivers")
    /\ \E paths \in Configs :
          proc' = [proc EXCEPT ![p].paths = paths,
                               ![p].libs = Loaded(PKCS11Libs(paths)),
                               ![p].pc = "listen"]
    /\ UNCHANGED <<tlsVars, trustVars, port, countVars>>

(* StartServer: one process on the machine can have the port. *)
StartServer(p) ==
    /\ At(p, "listen")
    /\ IF port = None THEN port' = p /\ Goto(p, "serving") ELSE End(p)
    /\ UNCHANGED <<tlsVars, trustVars, countVars>>

(* A signal, or Quit in the tray. *)
Stop(p) ==
    /\ At(p, "serving")
    /\ End(p)
    /\ UNCHANGED <<tlsVars, trustVars, countVars>>
-----------------------------------------------------------------------------
(* The machine and its people: a process is killed, ... *)
Kill(p) ==
    /\ events < MaxEvents /\ events' = events + 1
    /\ proc[p].pc \notin {"idle", "serving"}
    /\ End(p)
    /\ UNCHANGED <<tlsVars, trustVars, launches>>

(* ... the data directory is deleted, as uninstall.sh --purge does, ... *)
Purge(h) ==
    /\ events < MaxEvents /\ events' = events + 1
    /\ \A p \in Procs : Home(p) # h
    /\ cert' = [cert EXCEPT ![h] = 0] /\ key' = [key EXCEPT ![h] = 0]
    /\ UNCHANGED <<made, trustVars, port, launches, proc>>

(* ... a Firefox profile appears. *)
NewProfile(d) ==
    /\ events < MaxEvents /\ events' = events + 1
    /\ d \notin profiles
    /\ profiles' = profiles \cup {d}
    /\ UNCHANGED <<tlsVars, nss, caStore, policy, autostart, port, launches,
                   proc>>

EnsureTLSCert(p) ==
    \/ FindPair(p) \/ LoadPair(p) \/ OpenCert(p) \/ FillCert(p)
    \/ OpenKey(p) \/ FillKey(p) \/ Reload(p)

PostInstall(p) ==
    installCertSystemStore(p) \/ installFirefoxSystemPolicy(p) \/ installAutostart(p)

PreUninstall(p) ==
    \/ removeAutostart(p) \/ removeCertSystemStore(p)
    \/ removeFirefoxSystemPolicy(p) \/ removeUserTrust(p)
    \/ \E d \in DBs : certutilDelete(p, d)
    \/ UserTrustRemoved(p)

main(p) ==
    \/ LoadConfig(p) \/ EnsureTLSCert(p)
    \/ EnsureUserTrust(p) \/ (\E d \in DBs : nssAddCert(p, d))
    \/ UserTrustEnsured(p)
    \/ NewKeystore(p) \/ NewPKCS11Handler(p) \/ StartServer(p)

Program(p) == main(p) \/ PostInstall(p) \/ PreUninstall(p)

Machine ==
    \/ \E p \in Procs : TLSFault(p) \/ ToolFault(p) \/ Stop(p) \/ Kill(p)
    \/ \E p \in Procs, m \in Modes, h \in Homes : Launch(p, m, h)
    \/ \E h \in Homes : Purge(h)
    \/ \E d \in DBs : NewProfile(d)

Next == (\E p \in Procs : Program(p)) \/ Machine

Spec == Init /\ [][Next]_vars
-----------------------------------------------------------------------------
(* A launch that is alone with its account makes a new certificate only when
   the files hold no whole pair, so that the fingerprint a site has on record
   and the trust of the browsers keep their meaning.  (EnsureTLSCert)      *)
WholePairKept ==
    \A p \in Procs :
        At(p, "generate") /\ ~proc[p].disturbed => ~Whole(Home(p))

(* Whatever a stop left of the two files, the next launch gets over it: it
   fails over them only on a fault of its own or with another launch of the
   same account at work.  (EnsureTLSCert, generateSelfSignedCert)          *)
LoneLaunchGetsCert ==
    [][\A p \in Procs :
          /\ proc[p].pc \in Rewriting \cup {"stat", "loadkey", "reload"}
          /\ proc'[p].pc = "idle" /\ events' = events
          => proc[p].disturbed]_vars

(* A database without an entry of the bridge when a lone launch began holds,
   once that launch serves, the very certificate served.  The entries there
   were already are another matter: TrustSelfHeals.
   (EnsureUserTrust, which main calls after EnsureTLSCert)                 *)
NewTrustIsServed ==
    \A p \in Procs :
        At(p, "serving") /\ ~proc[p].disturbed
        => \A d \in proc[p].bare : nss[d] = proc[p].mine

(* main.go:60 says that the call makes sure "this user's browsers trust the
   bridge cert": Chrome's database, which the call creates if need be, would
   hold the certificate served.  It may hold one of an earlier data directory,
   which nssAddCert takes for the bridge's and leaves.  (nssAddCert)       *)
TrustSelfHeals ==
    \A p \in Procs :
        At(p, "serving") /\ ~proc[p].disturbed
        => \A d \in DBsOf(Home(p)) \cap Chrome : nss[d] = proc[p].mine

(* An uninstall that was alone with its account and met no fault leaves none
   of that account's trust and no autostart entry of it, whatever was
   installed in between; Root's leaves neither store nor policy, but the
   databases of the users as they are.  (PreUninstall)                     *)
UninstallUndoes ==
    [][\A p \in Procs :
          /\ proc[p].mode = "pre-uninstall" /\ ~proc[p].disturbed
          /\ ~At(p, "idle") /\ proc'[p].pc = "idle" /\ events' = events
          => /\ Home(p) \notin autostart'
             /\ \A d \in DBsOf(Home(p)) : nss'[d] = 0
             /\ Home(p) = Root => caStore' = 0 /\ ~policy']_vars

(* A running bridge has every driver that works, each once, and under the
   path the user has named if there is one, whatever the configuration file
   lists.  (LoadConfig, NewPKCS11Handler)                                  *)
EveryDriverOnce ==
    \A p \in Procs : At(p, "serving") =>
        LET libs == proc[p].libs
            paths == proc[p].paths
            files == {FileOf[libs[i]] : i \in 1..Len(libs)}
            wanted == {paths[i] : i \in 1..Len(paths)}
        IN /\ \A i \in 1..Len(PKCS11Libs(paths)) :
                 LET l == PKCS11Libs(paths)[i]
                 IN l \in Present => FileOf[l] \in files \cup Broken
           /\ Cardinality(files) = Len(libs)
           /\ \A l \in wanted, j \in 1..Len(libs) :
                 l \in Present /\ FileOf[l] = FileOf[libs[j]] => libs[j] \in wanted
=============================================================================

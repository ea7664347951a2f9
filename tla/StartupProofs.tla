---------------------------- MODULE StartupProofs ----------------------------
(***************************************************************************)
(* Theorems about Startup, for any number of launches, accounts, databases *)
(* and faults.                                                             *)
(*                                                                         *)
(* StartupInv, the inductive invariant, says what an undisturbed launch    *)
(* knows at each of its steps of the files and the trust of its account.   *)
(* One lemma per action (...Good) shows that its step keeps this for the   *)
(* process that takes it and stays within the account of that process;     *)
(* OtherKnown, once for all actions, that others then keep what they know. *)
(***************************************************************************)
EXTENDS Startup, TLAPS

(* Only the record of p changes, and not what it was launched with. *)
Others(p) ==
    /\ proc' \in [Procs -> Process]
    /\ \A q \in Procs \ {p} : proc'[q] = proc[q]
Same(p) ==
    /\ proc'[p].mode = proc[p].mode /\ proc'[p].home = proc[p].home
    /\ proc'[p].bare = proc[p].bare
Loyal(p) == Others(p) /\ Same(p)

-----------------------------------------------------------------------------
(* What the updates of a process record do, field by field. *)

(* An update of one entry of proc changes that entry. (Goto, End, ...) *)
LEMMA PutEffect ==
  ASSUME NEW p \in Procs, proc \in [Procs -> Process],
         NEW r \in Process, proc' = [proc EXCEPT ![p] = r]
  PROVE  Others(p) /\ proc'[p] = r
BY DEF Others

(* The fields of a process record have their types. (Process) *)
LEMMA Fields ==
  ASSUME NEW r \in Process
  PROVE  /\ r.pc \in Steps /\ r.mode \in Modes /\ r.home \in Homes \cup {None}
         /\ r.mine \in File /\ r.new \in File /\ r.todo \in SUBSET DBs
         /\ r.bare \in SUBSET DBs /\ r.disturbed \in BOOLEAN
BY DEF Process

(* A new step. (Goto) *)
LEMMA GotoEffect ==
  ASSUME NEW p \in Procs, proc \in [Procs -> Process],
         NEW s \in Steps,
         Goto(p, s)
  PROVE  /\ Loyal(p)
         /\ proc'[p].pc = s
         /\ proc'[p].mine = proc[p].mine
         /\ proc'[p].new = proc[p].new
         /\ proc'[p].todo = proc[p].todo
         /\ proc'[p].disturbed = proc[p].disturbed
<1> DEFINE r == [proc[p] EXCEPT !.pc = s]
<1>1. proc[p] \in Process OBVIOUS
<1>2. /\ r \in Process
      /\ r.mode = proc[p].mode
      /\ r.home = proc[p].home
      /\ r.bare = proc[p].bare
      /\ r.mine = proc[p].mine
      /\ r.new = proc[p].new
      /\ r.todo = proc[p].todo
      /\ r.disturbed = proc[p].disturbed
      /\ r.pc = s
  BY <1>1 DEF Process
<1>3. proc' = [proc EXCEPT ![p] = r] BY DEF Goto
<1> HIDE DEF r
<1>4. Others(p) /\ proc'[p] = r BY <1>2, <1>3, PutEffect
<1>5. QED BY <1>2, <1>4 DEF Loyal, Same

(* A certificate is read. (FindPair) *)
LEMMA MineEffect ==
  ASSUME NEW p \in Procs, proc \in [Procs -> Process],
         NEW c \in File, NEW s \in Steps,
         proc' = [proc EXCEPT ![p].mine = c, ![p].pc = s]
  PROVE  /\ Loyal(p)
         /\ proc'[p].mine = c
         /\ proc'[p].pc = s
         /\ proc'[p].new = proc[p].new
         /\ proc'[p].todo = proc[p].todo
         /\ proc'[p].disturbed = proc[p].disturbed
<1> DEFINE r == [proc[p] EXCEPT !.mine = c, !.pc = s]
<1>1. proc[p] \in Process OBVIOUS
<1>2. /\ r \in Process
      /\ r.mode = proc[p].mode
      /\ r.home = proc[p].home
      /\ r.bare = proc[p].bare
      /\ r.mine = c
      /\ r.new = proc[p].new
      /\ r.todo = proc[p].todo
      /\ r.disturbed = proc[p].disturbed
      /\ r.pc = s
  BY <1>1 DEF Process
<1>3. proc' = [proc EXCEPT ![p] = r] OBVIOUS
<1> HIDE DEF r
<1>4. Others(p) /\ proc'[p] = r BY <1>2, <1>3, PutEffect
<1>5. QED BY <1>2, <1>4 DEF Loyal, Same

(* A certificate is written. (FillCert) *)
LEMMA NewEffect ==
  ASSUME NEW p \in Procs, proc \in [Procs -> Process],
         NEW c \in File, NEW s \in Steps,
         proc' = [proc EXCEPT ![p].new = c, ![p].pc = s]
  PROVE  /\ Loyal(p)
         /\ proc'[p].new = c
         /\ proc'[p].pc = s
         /\ proc'[p].mine = proc[p].mine
         /\ proc'[p].todo = proc[p].todo
         /\ proc'[p].disturbed = proc[p].disturbed
<1> DEFINE r == [proc[p] EXCEPT !.new = c, !.pc = s]
<1>1. proc[p] \in Process OBVIOUS
<1>2. /\ r \in Process
      /\ r.mode = proc[p].mode
      /\ r.home = proc[p].home
      /\ r.bare = proc[p].bare
      /\ r.mine = proc[p].mine
      /\ r.new = c
      /\ r.todo = proc[p].todo
      /\ r.disturbed = proc[p].disturbed
      /\ r.pc = s
  BY <1>1 DEF Process
<1>3. proc' = [proc EXCEPT ![p] = r] OBVIOUS
<1> HIDE DEF r
<1>4. Others(p) /\ proc'[p] = r BY <1>2, <1>3, PutEffect
<1>5. QED BY <1>2, <1>4 DEF Loyal, Same

Reloads(p, c, e, s) ==
    proc' = [proc EXCEPT ![p].mine = c, ![p].new = e, ![p].pc = s]

(* The pair just written is loaded. (Reload) *)
LEMMA ReloadEffect ==
  ASSUME NEW p \in Procs, proc \in [Procs -> Process],
         NEW c \in File, NEW e \in File, NEW s \in Steps,
         Reloads(p, c, e, s)
  PROVE  /\ Loyal(p)
         /\ proc'[p].mine = c
         /\ proc'[p].new = e
         /\ proc'[p].pc = s
         /\ proc'[p].todo = proc[p].todo
         /\ proc'[p].disturbed = proc[p].disturbed
<1> DEFINE r == [proc[p] EXCEPT !.mine = c, !.new = e, !.pc = s]
<1>1. proc[p] \in Process OBVIOUS
<1>2. /\ r \in Process
      /\ r.mode = proc[p].mode
      /\ r.home = proc[p].home
      /\ r.bare = proc[p].bare
      /\ r.mine = c
      /\ r.new = e
      /\ r.todo = proc[p].todo
      /\ r.disturbed = proc[p].disturbed
      /\ r.pc = s
  BY <1>1 DEF Process
<1>3. proc' = [proc EXCEPT ![p] = r] BY DEF Reloads
<1> HIDE DEF r
<1>4. Others(p) /\ proc'[p] = r BY <1>2, <1>3, PutEffect
<1>5. QED BY <1>2, <1>4 DEF Loyal, Same

Lists(p, t, s) ==
    proc' = [proc EXCEPT ![p].todo = t, ![p].pc = s]

(* The databases are listed. (userNSSDatabases) *)
LEMMA TodoEffect ==
  ASSUME NEW p \in Procs, proc \in [Procs -> Process],
         NEW t \in SUBSET DBs, NEW s \in Steps,
         Lists(p, t, s)
  PROVE  /\ Loyal(p)
         /\ proc'[p].todo = t
         /\ proc'[p].pc = s
         /\ proc'[p].mine = proc[p].mine
         /\ proc'[p].new = proc[p].new
         /\ proc'[p].disturbed = proc[p].disturbed
<1> DEFINE r == [proc[p] EXCEPT !.todo = t, !.pc = s]
<1>1. proc[p] \in Process OBVIOUS
<1>2. /\ r \in Process
      /\ r.mode = proc[p].mode
      /\ r.home = proc[p].home
      /\ r.bare = proc[p].bare
      /\ r.mine = proc[p].mine
      /\ r.new = proc[p].new
      /\ r.todo = t
      /\ r.disturbed = proc[p].disturbed
      /\ r.pc = s
  BY <1>1 DEF Process
<1>3. proc' = [proc EXCEPT ![p] = r] BY DEF Lists
<1> HIDE DEF r
<1>4. Others(p) /\ proc'[p] = r BY <1>2, <1>3, PutEffect
<1>5. QED BY <1>2, <1>4 DEF Loyal, Same

(* A database is done. (nssAddCert, certutilDelete) *)
LEMMA DoneEffect ==
  ASSUME NEW p \in Procs, proc \in [Procs -> Process],
         NEW t \in SUBSET DBs,
         proc' = [proc EXCEPT ![p].todo = t]
  PROVE  /\ Loyal(p)
         /\ proc'[p].todo = t
         /\ proc'[p].mine = proc[p].mine
         /\ proc'[p].new = proc[p].new
         /\ proc'[p].disturbed = proc[p].disturbed
         /\ proc'[p].pc = proc[p].pc
<1> DEFINE r == [proc[p] EXCEPT !.todo = t]
<1>1. proc[p] \in Process OBVIOUS
<1>2. /\ r \in Process
      /\ r.mode = proc[p].mode
      /\ r.home = proc[p].home
      /\ r.bare = proc[p].bare
      /\ r.mine = proc[p].mine
      /\ r.new = proc[p].new
      /\ r.todo = t
      /\ r.disturbed = proc[p].disturbed
      /\ r.pc = proc[p].pc
  BY <1>1 DEF Process
<1>3. proc' = [proc EXCEPT ![p] = r] OBVIOUS
<1> HIDE DEF r
<1>4. Others(p) /\ proc'[p] = r BY <1>2, <1>3, PutEffect
<1>5. QED BY <1>2, <1>4 DEF Loyal, Same

LoadsLibs(p, l, e, s) ==
    proc' = [proc EXCEPT ![p].paths = l, ![p].libs = e, ![p].pc = s]

(* The drivers are loaded. (NewPKCS11Handler) *)
LEMMA LibsEffect ==
  ASSUME NEW p \in Procs, proc \in [Procs -> Process],
         NEW l \in Configs, NEW e \in LoadedLibs, NEW s \in Steps,
         LoadsLibs(p, l, e, s)
  PROVE  /\ Loyal(p)
         /\ proc'[p].pc = s
         /\ proc'[p].mine = proc[p].mine
         /\ proc'[p].new = proc[p].new
         /\ proc'[p].todo = proc[p].todo
         /\ proc'[p].disturbed = proc[p].disturbed
<1> DEFINE r == [proc[p] EXCEPT !.paths = l, !.libs = e, !.pc = s]
<1>1. proc[p] \in Process OBVIOUS
<1>2. /\ r \in Process
      /\ r.mode = proc[p].mode
      /\ r.home = proc[p].home
      /\ r.bare = proc[p].bare
      /\ r.mine = proc[p].mine
      /\ r.new = proc[p].new
      /\ r.todo = proc[p].todo
      /\ r.disturbed = proc[p].disturbed
      /\ r.pc = s
  BY <1>1 DEF Process
<1>3. proc' = [proc EXCEPT ![p] = r] BY DEF LoadsLibs
<1> HIDE DEF r
<1>4. Others(p) /\ proc'[p] = r BY <1>2, <1>3, PutEffect
<1>5. QED BY <1>2, <1>4 DEF Loyal, Same

(* A step fails and the next one is taken. (TLSFault, ToolFault) *)
LEMMA FaultEffect ==
  ASSUME NEW p \in Procs, proc \in [Procs -> Process],
         NEW s \in Steps,
         proc' = [proc EXCEPT ![p].disturbed = TRUE, ![p].pc = s]
  PROVE  /\ Loyal(p)
         /\ proc'[p].disturbed = TRUE
         /\ proc'[p].pc = s
         /\ proc'[p].mine = proc[p].mine
         /\ proc'[p].new = proc[p].new
         /\ proc'[p].todo = proc[p].todo
<1> DEFINE r == [proc[p] EXCEPT !.disturbed = TRUE, !.pc = s]
<1>1. proc[p] \in Process OBVIOUS
<1>2. /\ r \in Process
      /\ r.mode = proc[p].mode
      /\ r.home = proc[p].home
      /\ r.bare = proc[p].bare
      /\ r.mine = proc[p].mine
      /\ r.new = proc[p].new
      /\ r.todo = proc[p].todo
      /\ r.disturbed = TRUE
      /\ r.pc = s
  BY <1>1 DEF Process
<1>3. proc' = [proc EXCEPT ![p] = r] OBVIOUS
<1> HIDE DEF r
<1>4. Others(p) /\ proc'[p] = r BY <1>2, <1>3, PutEffect
<1>5. QED BY <1>2, <1>4 DEF Loyal, Same

(* A database is skipped. (ToolFault) *)
LEMMA SkipEffect ==
  ASSUME NEW p \in Procs, proc \in [Procs -> Process],
         NEW t \in SUBSET DBs,
         proc' = [proc EXCEPT ![p].disturbed = TRUE, ![p].todo = t]
  PROVE  /\ Loyal(p)
         /\ proc'[p].disturbed = TRUE
         /\ proc'[p].todo = t
         /\ proc'[p].mine = proc[p].mine
         /\ proc'[p].new = proc[p].new
         /\ proc'[p].pc = proc[p].pc
<1> DEFINE r == [proc[p] EXCEPT !.disturbed = TRUE, !.todo = t]
<1>1. proc[p] \in Process OBVIOUS
<1>2. /\ r \in Process
      /\ r.mode = proc[p].mode
      /\ r.home = proc[p].home
      /\ r.bare = proc[p].bare
      /\ r.mine = proc[p].mine
      /\ r.new = proc[p].new
      /\ r.todo = t
      /\ r.disturbed = TRUE
      /\ r.pc = proc[p].pc
  BY <1>1 DEF Process
<1>3. proc' = [proc EXCEPT ![p] = r] OBVIOUS
<1> HIDE DEF r
<1>4. Others(p) /\ proc'[p] = r BY <1>2, <1>3, PutEffect
<1>5. QED BY <1>2, <1>4 DEF Loyal, Same

(* The process is gone. *)
Ends(p) == Others(p) /\ proc'[p] = Idle

(* The record of a process that does not run has its type. (Idle) *)
LEMMA IdleTyped == Idle \in Process
<1>1. 0 \in File BY StartupAssumption DEF File
<1>2. "idle" \in Steps /\ "start" \in Modes BY DEF Steps, Modes
<1>3. <<>> \in LoadedLibs BY DEF LoadedLibs
<1>4. <<>> \in Configs BY StartupAssumption
<1>5. QED BY <1>1, <1>2, <1>3, <1>4 DEF Idle, Process

(* A launch that ends leaves an idle record. (End) *)
LEMMA EndEffect ==
  ASSUME NEW p \in Procs, proc \in [Procs -> Process], End(p)
  PROVE  Ends(p)
<1>1. proc' = [proc EXCEPT ![p] = Idle] BY DEF End
<1>2. QED BY <1>1, IdleTyped, PutEffect DEF Ends

(* The fields of an idle process. (Idle) *)
LEMMA IdleFields ==
  /\ Idle.pc = "idle" /\ Idle.home = None /\ Idle.mode = "start"
  /\ Idle.bare = {} /\ Idle.todo = {} /\ Idle.disturbed = FALSE
BY DEF Idle

(* A launch changes the record of p, and marks others. *)
Marked(p, m, h) ==
    {q \in Procs : Home(q) = h /\ (~At(q, "serving") \/ m = "pre-uninstall")}

Launched(p, m, h) ==
    /\ proc' \in [Procs -> Process]
    /\ proc'[p].pc = IF m = "pre-uninstall" THEN "unstart" ELSE "config"
    /\ proc'[p].mode = m /\ proc'[p].home = h
    /\ proc'[p].bare = {d \in DBsOf(h) \cap (profiles \cup Chrome) : nss[d] = 0}
    /\ proc'[p].disturbed = (Marked(p, m, h) # {})
    /\ \A q \in Procs \ {p} :
          /\ proc'[q].pc = proc[q].pc /\ proc'[q].mode = proc[q].mode
          /\ proc'[q].home = proc[q].home /\ proc'[q].bare = proc[q].bare
          /\ proc'[q].mine = proc[q].mine /\ proc'[q].new = proc[q].new
          /\ proc'[q].todo = proc[q].todo
          /\ proc'[q].disturbed = IF q \in Marked(p, m, h) THEN TRUE
                                  ELSE proc[q].disturbed

(* A launch, field by field. (Launch) *)
LEMMA LaunchEffect ==
  ASSUME NEW p \in Procs, NEW m \in Modes, NEW h \in Homes,
         proc \in [Procs -> Process], Launch(p, m, h)
  PROVE  Launched(p, m, h)
<1> DEFINE s == IF m = "pre-uninstall" THEN "unstart" ELSE "config"
           ds == {d \in DBsOf(h) \cap (profiles \cup Chrome) : nss[d] = 0}
           ls == [Idle EXCEPT !.pc = s, !.mode = m, !.home = h, !.bare = ds,
                              !.disturbed = Marked(p, m, h) # {}]
           ms(q) == [proc[q] EXCEPT !.disturbed = TRUE]
<1>1. proc' = [q \in Procs |-> IF q = p THEN ls
                               ELSE IF q \in Marked(p, m, h) THEN ms(q)
                               ELSE proc[q]]
  BY DEF Launch, Marked
<1>2. s \in Steps /\ ds \in SUBSET DBs BY DEF Steps, Rewriting, DBsOf
<1>3. /\ ls \in Process /\ ls.pc = s /\ ls.mode = m /\ ls.home = h
      /\ ls.bare = ds /\ ls.disturbed = (Marked(p, m, h) # {})
  <2> HIDE DEF s, ds
  <2>1. QED BY <1>2, IdleTyped DEF Process
<1>4. ASSUME NEW q \in Procs
      PROVE  /\ ms(q) \in Process /\ ms(q).pc = proc[q].pc
             /\ ms(q).mode = proc[q].mode /\ ms(q).home = proc[q].home
             /\ ms(q).bare = proc[q].bare /\ ms(q).mine = proc[q].mine
             /\ ms(q).new = proc[q].new /\ ms(q).todo = proc[q].todo
             /\ ms(q).disturbed = TRUE
  <2>1. proc[q] \in Process OBVIOUS
  <2>2. QED BY <2>1 DEF Process
<1> HIDE DEF ls, ms
<1>5. proc'[p] = ls BY <1>1
<1>6. ASSUME NEW q \in Procs \ {p}
      PROVE  proc'[q] = IF q \in Marked(p, m, h) THEN ms(q) ELSE proc[q]
  BY <1>1
<1>7. proc' \in [Procs -> Process] BY <1>1, <1>3, <1>4
<1>8. ASSUME NEW q \in Procs \ {p}
      PROVE  /\ proc'[q].pc = proc[q].pc /\ proc'[q].mode = proc[q].mode
             /\ proc'[q].home = proc[q].home /\ proc'[q].bare = proc[q].bare
             /\ proc'[q].mine = proc[q].mine /\ proc'[q].new = proc[q].new
             /\ proc'[q].todo = proc[q].todo
             /\ proc'[q].disturbed = IF q \in Marked(p, m, h) THEN TRUE
                                     ELSE proc[q].disturbed
  <2>1. CASE q \in Marked(p, m, h) BY <1>4, <1>6, <2>1
  <2>2. CASE q \notin Marked(p, m, h) BY <1>6, <2>2
  <2>3. QED BY <2>1, <2>2
<1>9. QED BY <1>3, <1>5, <1>7, <1>8 DEF Launched

-----------------------------------------------------------------------------
(* The inductive invariant. *)

(* What a record may hold at its step. *)
StepOK(r) ==
    /\ r.pc = "idle" <=> r.home = None
    /\ r.pc \in {"unstart", "uncastore", "unpolicy", "unlistdbs", "untrust"}
       <=> r.mode = "pre-uninstall"
    /\ r.pc \in {"castore", "policy", "uncastore", "unpolicy"} => r.home = Root
    /\ r.pc \in {"unlistdbs", "untrust"} => r.home # Root
    /\ r.pc \in {"keystore", "drivers", "listen", "serving"} => r.mode = "start"

Placed == \A p \in Procs : StepOK(proc[p])

(* An undisturbed launch shares its account only with one that serves, or is
   itself serving, and no uninstall is under way then.                     *)
Apart(p, q) == At(p, "serving") /\ proc[q].mode # "pre-uninstall"

Alone ==
    \A p \in Procs, q \in Procs :
        /\ p # q /\ ~At(p, "idle") /\ ~proc[p].disturbed /\ Home(q) = Home(p)
        => Apart(p, q) \/ Apart(q, p)

(* certutil has made entries only in databases that exist. *)
Entries == \A d \in DBs : nss[d] # 0 => d \in profiles

Listed ==
    \A p \in Procs :
        At(p, "certutil") \/ At(p, "untrust")
        => proc[p].todo \subseteq DBsOf(Home(p)) \cap profiles

(* What an undisturbed launch knows of its account's files, ... *)
FilesKnown(p) ==
    /\ At(p, "loadkey") => proc[p].mine = cert[Home(p)]
    /\ At(p, "generate") => ~Whole(Home(p))
    /\ At(p, "openkey") \/ At(p, "fillkey")
       => IsCert(proc[p].new) /\ cert[Home(p)] = proc[p].new
    /\ At(p, "reload") => Whole(Home(p))
    /\ At(p, "listdbs") \/ At(p, "certutil")
       => IsCert(proc[p].mine) /\ cert[Home(p)] = proc[p].mine

(* ... of the trust that it puts in place, ... *)
Entered(p, d) == nss[d] # 0 /\ nss[d] = proc[p].mine

TrustKnown(p) ==
    /\ ~At(p, "idle") => proc[p].bare \subseteq DBsOf(Home(p)) \cap (profiles \cup Chrome)
    /\ proc[p].pc \in {"config", "stat", "loadkey", "generate", "fillcert",
                      "openkey", "fillkey", "reload", "listdbs"}
       => \A d \in proc[p].bare : nss[d] = 0
    /\ At(p, "certutil")
       => \A d \in proc[p].bare : (d \in proc[p].todo /\ nss[d] = 0) \/ Entered(p, d)
    /\ proc[p].pc \in {"keystore", "drivers", "listen", "serving"}
       => \A d \in proc[p].bare : Entered(p, d)

(* ... and of what it has undone. *)
UndoneKnown(p) ==
    /\ proc[p].pc \in {"uncastore", "unpolicy", "unlistdbs", "untrust"}
       => Home(p) \notin autostart
    /\ At(p, "unpolicy") => caStore = 0
    /\ At(p, "untrust") => \A d \in DBsOf(Home(p)) : d \in proc[p].todo \/ nss[d] = 0

Known ==
    \A p \in Procs :
        ~proc[p].disturbed => FilesKnown(p) /\ TrustKnown(p) /\ UndoneKnown(p)

StartupInv == TypeOK /\ Placed /\ Alone /\ Entries /\ Listed /\ Known
-----------------------------------------------------------------------------
(* What one step of p has to do. *)

(* On the records: it takes p on, or p ends. *)
Advances(p) ==
    /\ Loyal(p) /\ ~At(p, "idle") /\ ~At(p, "serving")
    /\ proc'[p].pc # "idle"
    /\ proc[p].disturbed => proc'[p].disturbed
    /\ StepOK(proc'[p])

(* The steps at which a launch may end without a fault, and how it does. *)
LastStep(p) ==
    \/ events' # events
    \/ proc[p].pc \in {"config", "autostart", "keystore", "listen", "serving"}
    \/ At(p, "reload") /\ ~Whole(Home(p))
    \/ At(p, "unpolicy") /\ ~policy' /\ caStore' = caStore
       /\ UNCHANGED <<nss, autostart>>
    \/ At(p, "untrust") /\ proc[p].todo = {} /\ UNCHANGED <<nss, autostart>>

Moves(p) == Advances(p) \/ (Ends(p) /\ LastStep(p))

(* On what is shared: it stays within the account of p. *)
Within(p) ==
    /\ \A h \in Homes \ {Home(p)} :
          /\ cert'[h] = cert[h] /\ key'[h] = key[h]
          /\ h \in autostart' <=> h \in autostart
    /\ profiles \subseteq profiles'
    /\ \A d \in DBs : nss'[d] # nss[d] =>
          /\ OwnerOf[d] = Home(p)
          /\ nss[d] = 0 \/ proc[p].mode = "pre-uninstall"
    /\ Home(p) # Root => caStore' = caStore
    /\ At(p, "serving") => UNCHANGED <<cert, key, nss, autostart, caStore>>

RestTyped ==
    /\ cert \in [Homes -> File] /\ key \in [Homes -> File]
    /\ profiles \in SUBSET DBs /\ nss \in [DBs -> 0..MaxLaunches]
    /\ caStore \in File /\ policy \in BOOLEAN
    /\ autostart \in SUBSET Homes /\ made \in 0..MaxLaunches

CountsTyped ==
    /\ port \in Procs \cup {None}
    /\ launches \in 0..MaxLaunches /\ events \in 0..MaxEvents

ListedOf(p) ==
    At(p, "certutil") \/ At(p, "untrust")
    => proc[p].todo \subseteq DBsOf(Home(p)) \cap profiles

KnownOf(p) == ~proc[p].disturbed => FilesKnown(p) /\ TrustKnown(p) /\ UndoneKnown(p)

Own(p) == ListedOf(p) /\ KnownOf(p)

(* What a step of p achieves. *)
Good(p) ==
    /\ Moves(p) /\ Within(p) /\ Own(p)'
    /\ RestTyped' /\ CountsTyped' /\ Entries'

(* The facts about p that a step of p starts from. *)
Start(p) ==
    /\ proc \in [Procs -> Process] /\ proc[p] \in Process /\ StepOK(proc[p])
    /\ RestTyped /\ CountsTyped /\ Entries /\ Own(p)

(* Nobody else is at work for the account of an undisturbed launch. *)
Lonely(p) ==
    ~At(p, "idle") /\ ~proc[p].disturbed =>
        \A q \in Procs \ {p} : Home(q) = Home(p) => Apart(p, q) \/ Apart(q, p)

(* The invariant gives them. (StartupInv) *)
LEMMA Starts ==
  ASSUME StartupInv, NEW p \in Procs
  PROVE  Start(p)
<1>1. TypeOK /\ Placed /\ Entries /\ Listed /\ Known BY DEF StartupInv
<1>2. proc \in [Procs -> Process] /\ proc[p] \in Process /\ RestTyped /\ CountsTyped
  BY <1>1 DEF TypeOK, RestTyped, CountsTyped
<1>3. StepOK(proc[p]) BY <1>1 DEF Placed
<1>4. ListedOf(p) BY <1>1 DEF Listed, ListedOf
<1>5. KnownOf(p) BY <1>1 DEF Known, KnownOf
<1>6. QED BY <1>1, <1>2, <1>3, <1>4, <1>5 DEF Start, Own

(* A process that is not idle works for an account. (Launch) *)
LEMMA HomeTyped ==
  ASSUME NEW p \in Procs, Start(p), ~At(p, "idle")
  PROVE  Home(p) \in Homes
BY Fields DEF Start, StepOK, At, Home

(* A step that leaves files and trust alone. *)
LEMMA StillWithin ==
  ASSUME NEW p \in Procs, Start(p), UNCHANGED <<tlsVars, trustVars>>
  PROVE  Within(p) /\ RestTyped' /\ Entries'
<1>1. UNCHANGED <<cert, key, made, profiles, nss, caStore, policy, autostart>>
  BY DEF tlsVars, trustVars
<1>2. QED BY <1>1 DEF Start, Within, RestTyped, Entries, IsCert

(* The port is freed by the process that has it. (End) *)
LEMMA PortTyped ==
  ASSUME NEW p \in Procs, CountsTyped, End(p) \/ UNCHANGED port
  PROVE  port' \in Procs \cup {None}
BY DEF CountsTyped, End

(* A process that has ended knows nothing. (End) *)
LEMMA GoneOwn ==
  ASSUME NEW p \in Procs, Ends(p)
  PROVE  Own(p)'
<1>1. proc'[p].pc = "idle" BY IdleFields DEF Ends
<1>2. ListedOf(p)' BY <1>1 DEF ListedOf, At
<1>3. FilesKnown(p)' BY <1>1 DEF FilesKnown, At
<1>4. TrustKnown(p)' BY <1>1 DEF TrustKnown, At
<1>5. UndoneKnown(p)' BY <1>1 DEF UndoneKnown, At
<1>6. QED BY <1>2, <1>3, <1>4, <1>5 DEF Own, KnownOf

(* The configuration is read, or the launch ends. (LoadConfig) *)
LEMMA LoadConfigGood ==
  ASSUME NEW p \in Procs, Start(p), LoadConfig(p)
  PROVE  Good(p)
<1>1. /\ proc \in [Procs -> Process] /\ proc[p] \in Process
      /\ StepOK(proc[p]) /\ Own(p) /\ RestTyped /\ CountsTyped /\ Entries
  BY DEF Start
<1>2. At(p, "config") /\ UNCHANGED <<cert, key, profiles, nss, caStore, autostart>>
  BY DEF LoadConfig, tlsVars, trustVars
<1>3. Home(p) \in Homes BY <1>2, HomeTyped DEF At
<1>4. Within(p) /\ RestTyped' /\ Entries' BY StillWithin DEF LoadConfig
<1>5. CountsTyped' BY <1>1, PortTyped DEF LoadConfig, CountsTyped, countVars
<1>6. CASE Goto(p, "stat")
  <2>1. "stat" \in Steps BY DEF Steps
  <2>2. /\ Loyal(p) /\ proc'[p].pc = "stat"
        /\ proc'[p].mine = proc[p].mine /\ proc'[p].new = proc[p].new
        /\ proc'[p].todo = proc[p].todo
        /\ proc'[p].disturbed = proc[p].disturbed
    BY <1>1, <1>6, <2>1, GotoEffect
  <2>3. Advances(p) BY <1>1, <1>2, <2>2 DEF Advances, Loyal, Same, StepOK, At
  <2>4. Own(p)'
    BY <1>1, <1>2, <2>2 DEF Own, KnownOf, ListedOf, FilesKnown, TrustKnown,
       UndoneKnown, Entered, At, Home, Loyal, Same
  <2>5. QED BY <1>4, <1>5, <2>3, <2>4 DEF Good, Moves
<1>7. CASE End(p)
  <2>1. Ends(p) BY <1>1, <1>7, EndEffect
  <2>2. LastStep(p) BY <1>2 DEF LastStep, At
  <2>3. QED BY <1>4, <1>5, <2>1, <2>2, GoneOwn DEF Good, Moves
<1>8. QED BY <1>6, <1>7 DEF LoadConfig

(* Both files are there, or new ones are made. (EnsureTLSCert) *)
LEMMA FindPairGood ==
  ASSUME NEW p \in Procs, Start(p), FindPair(p)
  PROVE  Good(p)
<1>1. /\ proc \in [Procs -> Process] /\ proc[p] \in Process
      /\ StepOK(proc[p]) /\ Own(p) /\ RestTyped /\ CountsTyped /\ Entries
  BY DEF Start
<1>2. At(p, "stat") /\ UNCHANGED <<cert, key, profiles, nss, caStore, autostart>>
  BY DEF FindPair, tlsVars, trustVars
<1>3. Home(p) \in Homes BY <1>2, HomeTyped DEF At
<1>4. Within(p) /\ RestTyped' /\ Entries' BY StillWithin DEF FindPair
<1>5. CountsTyped' BY <1>1 DEF FindPair, CountsTyped, countVars
<1>6. CASE proc' = [proc EXCEPT ![p].mine = cert[Home(p)], ![p].pc = "loadkey"]
  <2>1. "loadkey" \in Steps BY DEF Steps
  <2>2. cert[Home(p)] \in File BY <1>1, <1>3 DEF RestTyped
  <2>3. /\ Loyal(p) /\ proc'[p].pc = "loadkey"
        /\ proc'[p].mine = cert[Home(p)] /\ proc'[p].new = proc[p].new
        /\ proc'[p].todo = proc[p].todo
        /\ proc'[p].disturbed = proc[p].disturbed
    BY <1>1, <1>6, <2>1, <2>2, MineEffect
  <2>4. Advances(p) BY <1>1, <1>2, <2>3 DEF Advances, Loyal, Same, StepOK, At
  <2>5. Own(p)'
    BY <1>1, <1>2, <2>3 DEF Own, KnownOf, ListedOf, FilesKnown, TrustKnown,
       UndoneKnown, Entered, At, Home, Loyal, Same
  <2>6. QED BY <1>4, <1>5, <2>4, <2>5 DEF Good, Moves
<1>7. CASE /\ Goto(p, "generate")
           /\ cert[Home(p)] = 0 \/ key[Home(p)] = 0
  <2>1. "generate" \in Steps BY DEF Steps, Rewriting
  <2>2. /\ Loyal(p) /\ proc'[p].pc = "generate"
        /\ proc'[p].mine = proc[p].mine /\ proc'[p].new = proc[p].new
        /\ proc'[p].todo = proc[p].todo
        /\ proc'[p].disturbed = proc[p].disturbed
    BY <1>1, <1>7, <2>1, GotoEffect
  <2>3. Advances(p) BY <1>1, <1>2, <2>2 DEF Advances, Loyal, Same, StepOK, At
  <2>4. Own(p)'
    BY <1>1, <1>2, <1>3, <1>7, <2>2 DEF Own, KnownOf, ListedOf, FilesKnown,
       TrustKnown, UndoneKnown, Entered, At, Home, Loyal, Same, Whole, IsCert,
       RestTyped
  <2>5. QED BY <1>4, <1>5, <2>3, <2>4 DEF Good, Moves
<1>8. QED BY <1>6, <1>7 DEF FindPair

(* The pair is loaded, or a new one is made. (EnsureTLSCert) *)
LEMMA LoadPairGood ==
  ASSUME NEW p \in Procs, Start(p), LoadPair(p)
  PROVE  Good(p)
<1>1. /\ proc \in [Procs -> Process] /\ proc[p] \in Process
      /\ StepOK(proc[p]) /\ Own(p) /\ RestTyped /\ CountsTyped /\ Entries
  BY DEF Start
<1>2. At(p, "loadkey") /\ UNCHANGED <<cert, key, profiles, nss, caStore, autostart>>
  BY DEF LoadPair, tlsVars, trustVars
<1>3. Home(p) \in Homes BY <1>2, HomeTyped DEF At
<1>4. Within(p) /\ RestTyped' /\ Entries' BY StillWithin DEF LoadPair
<1>5. CountsTyped' BY <1>1 DEF LoadPair, CountsTyped, countVars
<1>6. CASE /\ Goto(p, AfterTLS(p))
           /\ IsCert(proc[p].mine)
  <2>1. AfterTLS(p) \in Steps BY DEF Steps, AfterTLS
  <2>2. /\ Loyal(p) /\ proc'[p].pc = AfterTLS(p)
        /\ proc'[p].mine = proc[p].mine /\ proc'[p].new = proc[p].new
        /\ proc'[p].todo = proc[p].todo
        /\ proc'[p].disturbed = proc[p].disturbed
    BY <1>1, <1>6, <2>1, GotoEffect
  <2>3. Advances(p)
    BY <1>1, <1>2, <2>2 DEF Advances, Loyal, Same, StepOK, At, Home, AfterTLS
  <2>4. Own(p)'
    BY <1>1, <1>2, <1>6, <2>2 DEF Own, KnownOf, ListedOf, FilesKnown,
       TrustKnown, UndoneKnown, Entered, At, Home, Loyal, Same, AfterTLS
  <2>5. QED BY <1>4, <1>5, <2>3, <2>4 DEF Good, Moves
<1>7. CASE /\ Goto(p, "generate")
           /\ ~(IsCert(proc[p].mine) /\ key[Home(p)] = proc[p].mine)
  <2>1. "generate" \in Steps BY DEF Steps, Rewriting
  <2>2. /\ Loyal(p) /\ proc'[p].pc = "generate"
        /\ proc'[p].mine = proc[p].mine /\ proc'[p].new = proc[p].new
        /\ proc'[p].todo = proc[p].todo
        /\ proc'[p].disturbed = proc[p].disturbed
    BY <1>1, <1>7, <2>1, GotoEffect
  <2>3. Advances(p) BY <1>1, <1>2, <2>2 DEF Advances, Loyal, Same, StepOK, At
  <2>4. Own(p)'
    BY <1>1, <1>2, <1>7, <2>2 DEF Own, KnownOf, ListedOf, FilesKnown,
       TrustKnown, UndoneKnown, Entered, At, Home, Loyal, Same, Whole, IsCert
  <2>5. QED BY <1>4, <1>5, <2>3, <2>4 DEF Good, Moves
<1>8. QED BY <1>6, <1>7 DEF LoadPair

(* The certificate file is emptied. (generateSelfSignedCert) *)
LEMMA OpenCertGood ==
  ASSUME NEW p \in Procs, Start(p), OpenCert(p)
  PROVE  Good(p)
<1>1. /\ proc \in [Procs -> Process] /\ proc[p] \in Process
      /\ StepOK(proc[p]) /\ Own(p) /\ RestTyped /\ CountsTyped /\ Entries
  BY DEF Start
<1>2. At(p, "generate") /\ UNCHANGED <<key, profiles, nss, caStore, autostart>>
  BY DEF OpenCert, trustVars
<1>3. Home(p) \in Homes BY <1>2, HomeTyped DEF At
<1>4. Within(p)
  BY <1>1, <1>2, <1>3 DEF Within, OpenCert, RestTyped, At, trustVars
<1>5. RestTyped' BY <1>1, <1>2, <1>3 DEF OpenCert, RestTyped, File, trustVars
<1>6. Entries' BY <1>1, <1>2 DEF Entries
<1>7. CountsTyped' BY <1>1 DEF OpenCert, CountsTyped, countVars
<1>8. CASE Goto(p, "fillcert")
  <2>1. "fillcert" \in Steps BY DEF Steps, Rewriting
  <2>2. /\ Loyal(p) /\ proc'[p].pc = "fillcert"
        /\ proc'[p].mine = proc[p].mine /\ proc'[p].new = proc[p].new
        /\ proc'[p].todo = proc[p].todo
        /\ proc'[p].disturbed = proc[p].disturbed
    BY <1>1, <1>8, <2>1, GotoEffect
  <2>3. Advances(p) BY <1>1, <1>2, <2>2 DEF Advances, Loyal, Same, StepOK, At
  <2>4. Own(p)'
    BY <1>1, <1>2, <2>2 DEF Own, KnownOf, ListedOf, FilesKnown, TrustKnown,
       UndoneKnown, Entered, At, Home, Loyal, Same
  <2>5. QED BY <1>4, <1>5, <1>6, <1>7, <2>3, <2>4 DEF Good, Moves
<1>9. QED BY <1>8 DEF OpenCert

(* The certificate is written. (generateSelfSignedCert) *)
LEMMA FillCertGood ==
  ASSUME NEW p \in Procs, Start(p), Lonely(p), FillCert(p)
  PROVE  Good(p)
<1>1. /\ proc \in [Procs -> Process] /\ proc[p] \in Process
      /\ StepOK(proc[p]) /\ Own(p) /\ RestTyped /\ CountsTyped /\ Entries
  BY DEF Start
<1>2. At(p, "fillcert") /\ UNCHANGED <<key, profiles, nss, caStore, autostart>>
  BY DEF FillCert, trustVars
<1>3. Home(p) \in Homes BY <1>2, HomeTyped DEF At
<1>4. made' = made + 1 /\ made' \in 1..MaxLaunches /\ made' \in File
  BY <1>1, StartupAssumption DEF FillCert, RestTyped, File
<1>5. ~proc[p].disturbed => ~Shared(p, "fillcert")
  BY <1>2 DEF Lonely, Apart, Shared, At
<1>6. PICK c \in Written(p, "fillcert", made') : cert' = [cert EXCEPT ![Home(p)] = c]
  BY DEF FillCert
<1>7. c \in {made', -1} /\ (~proc[p].disturbed => c = made')
  BY <1>5 DEF Written
<1>8. c \in File /\ -1 \in File BY <1>4, <1>7 DEF File
<1>9. cert'[Home(p)] = c BY <1>1, <1>3, <1>6 DEF RestTyped
<1>10. Within(p)
  BY <1>1, <1>2, <1>3 DEF Within, FillCert, RestTyped, At, trustVars
<1>11. RestTyped'
  BY <1>1, <1>2, <1>3, <1>4, <1>6, <1>8 DEF FillCert, RestTyped, trustVars
<1>12. Entries' BY <1>1, <1>2 DEF Entries
<1>13. CountsTyped' BY <1>1 DEF FillCert, CountsTyped, countVars
<1>14. CASE proc' = [proc EXCEPT ![p].new = made', ![p].pc = "openkey"]
  <2>1. "openkey" \in Steps BY DEF Steps, Rewriting
  <2>2. made' \in File BY <1>4
  <2>3. /\ Loyal(p) /\ proc'[p].pc = "openkey"
        /\ proc'[p].mine = proc[p].mine /\ proc'[p].new = made'
        /\ proc'[p].todo = proc[p].todo
        /\ proc'[p].disturbed = proc[p].disturbed
    BY <1>1, <1>14, <2>1, <2>2, NewEffect
  <2>4. Advances(p) BY <1>1, <1>2, <2>3 DEF Advances, Loyal, Same, StepOK, At
  <2>5. Own(p)'
    BY <1>1, <1>2, <1>3, <1>4, <1>7, <1>9, <2>3 DEF Own, KnownOf, ListedOf,
       FilesKnown, TrustKnown, UndoneKnown, Entered, At, Home, Loyal, Same,
       IsCert
  <2>6. QED BY <1>10, <1>11, <1>12, <1>13, <2>4, <2>5 DEF Good, Moves
<1>15. QED BY <1>14 DEF FillCert

(* The key file is emptied. (generateSelfSignedCert) *)
LEMMA OpenKeyGood ==
  ASSUME NEW p \in Procs, Start(p), OpenKey(p)
  PROVE  Good(p)
<1>1. /\ proc \in [Procs -> Process] /\ proc[p] \in Process
      /\ StepOK(proc[p]) /\ Own(p) /\ RestTyped /\ CountsTyped /\ Entries
  BY DEF Start
<1>2. At(p, "openkey") /\ UNCHANGED <<cert, made, profiles, nss, caStore, autostart>>
  BY DEF OpenKey, trustVars
<1>3. Home(p) \in Homes BY <1>2, HomeTyped DEF At
<1>4. Within(p)
  BY <1>1, <1>2, <1>3 DEF Within, OpenKey, RestTyped, At, trustVars
<1>5. RestTyped' BY <1>1, <1>2, <1>3 DEF OpenKey, RestTyped, File, trustVars
<1>6. Entries' BY <1>1, <1>2, <1>3 DEF OpenKey, Entries, IsCert
<1>7. CountsTyped' BY <1>1 DEF OpenKey, CountsTyped, countVars
<1>8. CASE Goto(p, "fillkey")
  <2>1. "fillkey" \in Steps BY DEF Steps, Rewriting
  <2>2. /\ Loyal(p) /\ proc'[p].pc = "fillkey"
        /\ proc'[p].mine = proc[p].mine /\ proc'[p].new = proc[p].new
        /\ proc'[p].todo = proc[p].todo
        /\ proc'[p].disturbed = proc[p].disturbed
    BY <1>1, <1>8, <2>1, GotoEffect
  <2>3. Advances(p) BY <1>1, <1>2, <2>2 DEF Advances, Loyal, Same, StepOK, At
  <2>4. Own(p)'
    BY <1>1, <1>2, <2>2 DEF Own, KnownOf, ListedOf, FilesKnown, TrustKnown,
       UndoneKnown, Entered, At, Home, Loyal, Same
  <2>5. QED BY <1>4, <1>5, <1>6, <1>7, <2>3, <2>4 DEF Good, Moves
<1>9. QED BY <1>8 DEF OpenKey

(* The key is written. (generateSelfSignedCert) *)
LEMMA FillKeyGood ==
  ASSUME NEW p \in Procs, Start(p), Lonely(p), FillKey(p)
  PROVE  Good(p)
<1>1. /\ proc \in [Procs -> Process] /\ proc[p] \in Process
      /\ StepOK(proc[p]) /\ Own(p) /\ RestTyped /\ CountsTyped /\ Entries
  BY DEF Start
<1>2. At(p, "fillkey") /\ UNCHANGED <<cert, made, profiles, nss, caStore, autostart>>
  BY DEF FillKey, trustVars
<1>3. Home(p) \in Homes BY <1>2, HomeTyped DEF At
<1>4. ~proc[p].disturbed => ~Shared(p, "fillkey")
  BY <1>2 DEF Lonely, Apart, Shared, At
<1>5. PICK k \in Written(p, "fillkey", proc[p].new) : key' = [key EXCEPT ![Home(p)] = k]
  BY DEF FillKey
<1>6. /\ ~proc[p].disturbed => k = proc[p].new
      /\ k \in File
  BY <1>1, <1>4, Fields DEF Written, File
<1>7. key'[Home(p)] = k BY <1>1, <1>3, <1>5 DEF RestTyped
<1>8. Within(p)
  BY <1>1, <1>2, <1>3 DEF Within, FillKey, RestTyped, At, trustVars
<1>9. RestTyped'
  BY <1>1, <1>2, <1>3, <1>5, <1>6 DEF FillKey, RestTyped, trustVars
<1>10. Entries' BY <1>1, <1>2 DEF Entries
<1>11. CountsTyped' BY <1>1 DEF FillKey, CountsTyped, countVars
<1>12. CASE Goto(p, "reload")
  <2>1. "reload" \in Steps BY DEF Steps
  <2>2. /\ Loyal(p) /\ proc'[p].pc = "reload"
        /\ proc'[p].mine = proc[p].mine /\ proc'[p].new = proc[p].new
        /\ proc'[p].todo = proc[p].todo
        /\ proc'[p].disturbed = proc[p].disturbed
    BY <1>1, <1>12, <2>1, GotoEffect
  <2>3. Advances(p) BY <1>1, <1>2, <2>2 DEF Advances, Loyal, Same, StepOK, At
  <2>4. Own(p)'
    BY <1>1, <1>2, <1>3, <1>6, <1>7, <2>2 DEF Own, KnownOf, ListedOf,
       FilesKnown, TrustKnown, UndoneKnown, Entered, At, Home, Loyal, Same,
       IsCert, Whole
  <2>5. QED BY <1>8, <1>9, <1>10, <1>11, <2>3, <2>4 DEF Good, Moves
<1>13. QED BY <1>12 DEF FillKey

(* The pair just written is loaded, if it is one. (tls.LoadX509KeyPair) *)
LEMMA ReloadGood ==
  ASSUME NEW p \in Procs, Start(p), Reload(p)
  PROVE  Good(p)
<1>1. /\ proc \in [Procs -> Process] /\ proc[p] \in Process
      /\ StepOK(proc[p]) /\ Own(p) /\ RestTyped /\ CountsTyped /\ Entries
  BY DEF Start
<1>2. At(p, "reload") /\ UNCHANGED <<cert, key, profiles, nss, caStore, autostart>>
  BY DEF Reload, tlsVars, trustVars
<1>3. Home(p) \in Homes BY <1>2, HomeTyped DEF At
<1>4. Within(p) /\ RestTyped' /\ Entries' BY StillWithin DEF Reload
<1>5. CountsTyped' BY <1>1, PortTyped DEF Reload, CountsTyped, countVars
<1>6. CASE /\ Whole(Home(p))
           /\ Reloads(p, cert[Home(p)], 0, AfterTLS(p))
  <2>1. AfterTLS(p) \in Steps BY DEF Steps, AfterTLS
  <2>2. cert[Home(p)] \in File /\ 0 \in File
    BY <1>1, <1>3, StartupAssumption DEF RestTyped, File
  <2>3. /\ Loyal(p) /\ proc'[p].pc = AfterTLS(p)
        /\ proc'[p].mine = cert[Home(p)] /\ proc'[p].new = 0
        /\ proc'[p].todo = proc[p].todo
        /\ proc'[p].disturbed = proc[p].disturbed
    BY <1>1, <1>6, <2>1, <2>2, ReloadEffect
  <2>4. Advances(p)
    BY <1>1, <1>2, <2>3 DEF Advances, Loyal, Same, StepOK, At, Home, AfterTLS
  <2>5. Own(p)'
    BY <1>1, <1>2, <1>6, <2>3 DEF Own, KnownOf, ListedOf, FilesKnown,
       TrustKnown, UndoneKnown, Entered, At, Home, Loyal, Same, AfterTLS,
       Whole
  <2>6. QED BY <1>4, <1>5, <2>4, <2>5 DEF Good, Moves
<1>7. CASE ~Whole(Home(p)) /\ End(p)
  <2>1. Ends(p) BY <1>1, <1>7, EndEffect
  <2>2. LastStep(p) BY <1>2, <1>7 DEF LastStep
  <2>3. QED BY <1>4, <1>5, <2>1, <2>2, GoneOwn DEF Good, Moves
<1>8. QED BY <1>6, <1>7 DEF Reload, Reloads

(* The databases are listed. (EnsureUserTrust) *)
LEMMA EnsureUserTrustGood ==
  ASSUME NEW p \in Procs, Start(p), EnsureUserTrust(p)
  PROVE  Good(p)
<1>1. /\ proc \in [Procs -> Process] /\ proc[p] \in Process
      /\ StepOK(proc[p]) /\ Own(p) /\ RestTyped /\ CountsTyped /\ Entries
  BY DEF Start
<1>2. At(p, "listdbs") /\ UNCHANGED <<cert, key, made, nss, caStore, policy, autostart>>
  BY DEF EnsureUserTrust, userNSSDatabases, tlsVars
<1>3. Home(p) \in Homes BY <1>2, HomeTyped DEF At
<1>4. profiles' = profiles \cup (DBsOf(Home(p)) \cap Chrome)
  BY DEF EnsureUserTrust, userNSSDatabases
<1>5. Within(p) BY <1>1, <1>2, <1>4 DEF Within, At
<1>6. RestTyped' BY <1>1, <1>2, <1>4, StartupAssumption DEF RestTyped, DBsOf
<1>7. Entries' BY <1>1, <1>2, <1>4 DEF Entries
<1>8. CountsTyped' BY <1>1 DEF EnsureUserTrust, userNSSDatabases, CountsTyped, countVars
<1>9. CASE Lists(p, DBsOf(Home(p)) \cap profiles', "certutil")
  <2>1. "certutil" \in Steps BY DEF Steps
  <2>2. DBsOf(Home(p)) \cap profiles' \in SUBSET DBs BY DEF DBsOf
  <2>3. /\ Loyal(p) /\ proc'[p].pc = "certutil"
        /\ proc'[p].mine = proc[p].mine /\ proc'[p].new = proc[p].new
        /\ proc'[p].todo = DBsOf(Home(p)) \cap profiles'
        /\ proc'[p].disturbed = proc[p].disturbed
    BY <1>1, <1>9, <2>1, <2>2, TodoEffect
  <2>4. Advances(p) BY <1>1, <1>2, <2>3 DEF Advances, Loyal, Same, StepOK, At
  <2>5. Own(p)'
    BY <1>1, <1>2, <1>4, <2>3 DEF Own, KnownOf, ListedOf, FilesKnown,
       TrustKnown, UndoneKnown, Entered, At, Home, Loyal, Same
  <2>6. QED BY <1>5, <1>6, <1>7, <1>8, <2>4, <2>5 DEF Good, Moves
<1>10. QED BY <1>9 DEF EnsureUserTrust, userNSSDatabases, Lists

(* A database gets the certificate, unless it has one. (nssAddCert) *)
LEMMA nssAddCertGood ==
  ASSUME NEW p \in Procs, Start(p), NEW d \in DBs, nssAddCert(p, d)
  PROVE  Good(p)
<1>1. /\ proc \in [Procs -> Process] /\ proc[p] \in Process
      /\ StepOK(proc[p]) /\ Own(p) /\ RestTyped /\ CountsTyped /\ Entries
  BY DEF Start
<1>2. At(p, "certutil") /\ UNCHANGED <<cert, key, made, profiles, caStore, policy, autostart>>
  BY DEF nssAddCert, tlsVars
<1>3. Home(p) \in Homes BY <1>2, HomeTyped DEF At
<1>4. OwnerOf[d] = Home(p) /\ d \in profiles
  BY <1>1, <1>2 DEF nssAddCert, Own, ListedOf, At, DBsOf
<1>5. nss' = IF nss[d] = 0 /\ IsCert(cert[Home(p)])
             THEN [nss EXCEPT ![d] = cert[Home(p)]] ELSE nss
  BY DEF nssAddCert
<1>6. IsCert(cert[Home(p)]) =>
        nss'[d] # 0 /\ (nss[d] = 0 => nss'[d] = cert[Home(p)])
  BY <1>1, <1>4, <1>5 DEF IsCert, RestTyped
<1>7. Within(p) BY <1>1, <1>2, <1>4, <1>5 DEF Within, At, RestTyped
<1>8. RestTyped' BY <1>1, <1>2, <1>3, <1>5 DEF RestTyped, IsCert
<1>9. Entries' BY <1>1, <1>2, <1>4, <1>5 DEF Entries, RestTyped
<1>10. CountsTyped' BY <1>1 DEF nssAddCert, CountsTyped, countVars
<1>11. CASE proc' = [proc EXCEPT ![p].todo = @ \ {d}]
  <2>1. proc[p].todo \ {d} \in SUBSET DBs BY <1>1, Fields
  <2>2. /\ Loyal(p) /\ proc'[p].pc = proc[p].pc
        /\ proc'[p].mine = proc[p].mine /\ proc'[p].new = proc[p].new
        /\ proc'[p].todo = proc[p].todo \ {d}
        /\ proc'[p].disturbed = proc[p].disturbed
    BY <1>1, <1>11, <2>1, DoneEffect
  <2>3. Advances(p) BY <1>1, <1>2, <2>2 DEF Advances, Loyal, Same, StepOK, At
  <2>4. Own(p)'
    BY <1>1, <1>2, <1>3, <1>4, <1>5, <1>6, <2>2 DEF Own, KnownOf,
       ListedOf, FilesKnown, TrustKnown, UndoneKnown, Entered, At, Home,
       Loyal, Same, IsCert, File, DBsOf
  <2>5. QED BY <1>7, <1>8, <1>9, <1>10, <2>3, <2>4 DEF Good, Moves
<1>12. QED BY <1>11 DEF nssAddCert

(* Every database is done. (EnsureUserTrust) *)
LEMMA UserTrustEnsuredGood ==
  ASSUME NEW p \in Procs, Start(p), UserTrustEnsured(p)
  PROVE  Good(p)
<1>1. /\ proc \in [Procs -> Process] /\ proc[p] \in Process
      /\ StepOK(proc[p]) /\ Own(p) /\ RestTyped /\ CountsTyped /\ Entries
  BY DEF Start
<1>2. At(p, "certutil") /\ UNCHANGED <<cert, key, profiles, nss, caStore, autostart>>
  BY DEF UserTrustEnsured, tlsVars, trustVars
<1>3. Home(p) \in Homes BY <1>2, HomeTyped DEF At
<1>4. proc[p].todo = {} BY DEF UserTrustEnsured
<1>5. Within(p) /\ RestTyped' /\ Entries' BY StillWithin DEF UserTrustEnsured
<1>6. CountsTyped' BY <1>1 DEF UserTrustEnsured, CountsTyped, countVars
<1>7. CASE Goto(p, AfterTrust(p))
  <2>1. AfterTrust(p) \in Steps BY DEF Steps, AfterTrust
  <2>2. /\ Loyal(p) /\ proc'[p].pc = AfterTrust(p)
        /\ proc'[p].mine = proc[p].mine /\ proc'[p].new = proc[p].new
        /\ proc'[p].todo = proc[p].todo
        /\ proc'[p].disturbed = proc[p].disturbed
    BY <1>1, <1>7, <2>1, GotoEffect
  <2>3. Advances(p)
    BY <1>1, <1>2, <2>2 DEF Advances, Loyal, Same, StepOK, At, Home,
       AfterTrust
  <2>4. Own(p)'
    BY <1>1, <1>2, <1>4, <2>2 DEF Own, KnownOf, ListedOf, FilesKnown,
       TrustKnown, UndoneKnown, Entered, At, Home, Loyal, Same, AfterTrust
  <2>5. QED BY <1>5, <1>6, <2>3, <2>4 DEF Good, Moves
<1>8. QED BY <1>7 DEF UserTrustEnsured

(* Root's certificate goes into the system's store. (PostInstall) *)
LEMMA installCertSystemStoreGood ==
  ASSUME NEW p \in Procs, Start(p), installCertSystemStore(p)
  PROVE  Good(p)
<1>1. /\ proc \in [Procs -> Process] /\ proc[p] \in Process
      /\ StepOK(proc[p]) /\ Own(p) /\ RestTyped /\ CountsTyped /\ Entries
  BY DEF Start
<1>2. At(p, "castore") /\ UNCHANGED <<cert, key, made, profiles, nss, policy, autostart>>
  BY DEF installCertSystemStore, tlsVars
<1>3. Home(p) \in Homes BY <1>2, HomeTyped DEF At
<1>4. caStore' = cert[Home(p)] BY DEF installCertSystemStore
<1>5. Within(p) BY <1>1, <1>2, <1>4 DEF Within, At, StepOK, Home
<1>6. RestTyped'
  BY <1>1, <1>2, <1>3, <1>4, StartupAssumption DEF RestTyped, File
<1>7. Entries' BY <1>1, <1>2 DEF Entries
<1>8. CountsTyped' BY <1>1 DEF installCertSystemStore, CountsTyped, countVars
<1>9. CASE Goto(p, "policy")
  <2>1. "policy" \in Steps BY DEF Steps
  <2>2. /\ Loyal(p) /\ proc'[p].pc = "policy"
        /\ proc'[p].mine = proc[p].mine /\ proc'[p].new = proc[p].new
        /\ proc'[p].todo = proc[p].todo
        /\ proc'[p].disturbed = proc[p].disturbed
    BY <1>1, <1>9, <2>1, GotoEffect
  <2>3. Advances(p) BY <1>1, <1>2, <2>2 DEF Advances, Loyal, Same, StepOK, At
  <2>4. Own(p)'
    BY <1>1, <1>2, <1>3, <1>4, <2>2 DEF Own, KnownOf, ListedOf, FilesKnown,
       TrustKnown, UndoneKnown, Entered, At, Home, Loyal, Same
  <2>5. QED BY <1>5, <1>6, <1>7, <1>8, <2>3, <2>4 DEF Good, Moves
<1>10. QED BY <1>9 DEF installCertSystemStore

(* The policy is put in place. (PostInstall) *)
LEMMA installFirefoxSystemPolicyGood ==
  ASSUME NEW p \in Procs, Start(p), installFirefoxSystemPolicy(p)
  PROVE  Good(p)
<1>1. /\ proc \in [Procs -> Process] /\ proc[p] \in Process
      /\ StepOK(proc[p]) /\ Own(p) /\ RestTyped /\ CountsTyped /\ Entries
  BY DEF Start
<1>2. At(p, "policy") /\ UNCHANGED <<cert, key, made, profiles, nss, caStore, autostart>>
  BY DEF installFirefoxSystemPolicy, tlsVars
<1>3. Home(p) \in Homes BY <1>2, HomeTyped DEF At
<1>4. policy' = TRUE BY DEF installFirefoxSystemPolicy
<1>5. Within(p) BY <1>1, <1>2, <1>4 DEF Within, At, StepOK, Home
<1>6. RestTyped'
  BY <1>1, <1>2, <1>3, <1>4, StartupAssumption DEF RestTyped, File
<1>7. Entries' BY <1>1, <1>2 DEF Entries
<1>8. CountsTyped'
  BY <1>1 DEF installFirefoxSystemPolicy, CountsTyped, countVars
<1>9. CASE Goto(p, "autostart")
  <2>1. "autostart" \in Steps BY DEF Steps
  <2>2. /\ Loyal(p) /\ proc'[p].pc = "autostart"
        /\ proc'[p].mine = proc[p].mine /\ proc'[p].new = proc[p].new
        /\ proc'[p].todo = proc[p].todo
        /\ proc'[p].disturbed = proc[p].disturbed
    BY <1>1, <1>9, <2>1, GotoEffect
  <2>3. Advances(p) BY <1>1, <1>2, <2>2 DEF Advances, Loyal, Same, StepOK, At
  <2>4. Own(p)'
    BY <1>1, <1>2, <1>3, <1>4, <2>2 DEF Own, KnownOf, ListedOf, FilesKnown,
       TrustKnown, UndoneKnown, Entered, At, Home, Loyal, Same
  <2>5. QED BY <1>5, <1>6, <1>7, <1>8, <2>3, <2>4 DEF Good, Moves
<1>10. QED BY <1>9 DEF installFirefoxSystemPolicy

(* The autostart entry is made, the last step. (PostInstall) *)
LEMMA installAutostartGood ==
  ASSUME NEW p \in Procs, Start(p), installAutostart(p)
  PROVE  Good(p)
<1>1. /\ proc \in [Procs -> Process] /\ proc[p] \in Process
      /\ StepOK(proc[p]) /\ Own(p) /\ RestTyped /\ CountsTyped /\ Entries
  BY DEF Start
<1>2. At(p, "autostart") /\ UNCHANGED <<cert, key, made, profiles, nss, caStore, policy>>
  BY DEF installAutostart, tlsVars
<1>3. Home(p) \in Homes BY <1>2, HomeTyped DEF At
<1>4. autostart' = autostart \cup {Home(p)} BY DEF installAutostart
<1>5. Within(p) BY <1>1, <1>2, <1>4 DEF Within, At, StepOK, Home
<1>6. RestTyped'
  BY <1>1, <1>2, <1>3, <1>4, StartupAssumption DEF RestTyped, File
<1>7. Entries' BY <1>1, <1>2 DEF Entries
<1>8. CountsTyped'
  BY <1>1, PortTyped DEF installAutostart, CountsTyped, countVars
<1>9. CASE End(p)
  <2>1. Ends(p) BY <1>1, <1>9, EndEffect
  <2>2. LastStep(p) BY <1>2, <1>4 DEF LastStep, At
  <2>3. QED BY <1>5, <1>6, <1>7, <1>8, <2>1, <2>2, GoneOwn DEF Good, Moves
<1>10. QED BY <1>9 DEF installAutostart

(* The autostart entry goes first. (PreUninstall) *)
LEMMA removeAutostartGood ==
  ASSUME NEW p \in Procs, Start(p), removeAutostart(p)
  PROVE  Good(p)
<1>1. /\ proc \in [Procs -> Process] /\ proc[p] \in Process
      /\ StepOK(proc[p]) /\ Own(p) /\ RestTyped /\ CountsTyped /\ Entries
  BY DEF Start
<1>2. At(p, "unstart") /\ UNCHANGED <<cert, key, made, profiles, nss, caStore, policy>>
  BY DEF removeAutostart, tlsVars
<1>3. Home(p) \in Homes BY <1>2, HomeTyped DEF At
<1>4. autostart' = autostart \ {Home(p)} BY DEF removeAutostart
<1>5. Within(p) BY <1>1, <1>2, <1>4 DEF Within, At, StepOK, Home
<1>6. RestTyped'
  BY <1>1, <1>2, <1>3, <1>4, StartupAssumption DEF RestTyped, File
<1>7. Entries' BY <1>1, <1>2 DEF Entries
<1>8. CountsTyped' BY <1>1 DEF removeAutostart, CountsTyped, countVars
<1>9. CASE Goto(p, Untrust(p))
  <2>1. Untrust(p) \in Steps BY DEF Steps, Untrust
  <2>2. /\ Loyal(p) /\ proc'[p].pc = Untrust(p)
        /\ proc'[p].mine = proc[p].mine /\ proc'[p].new = proc[p].new
        /\ proc'[p].todo = proc[p].todo
        /\ proc'[p].disturbed = proc[p].disturbed
    BY <1>1, <1>9, <2>1, GotoEffect
  <2>3. Advances(p)
    BY <1>1, <1>2, <2>2 DEF Advances, Loyal, Same, StepOK, At, Home, Untrust
  <2>4. Own(p)'
    BY <1>1, <1>2, <1>3, <1>4, <2>2 DEF Own, KnownOf, ListedOf, FilesKnown,
       TrustKnown, UndoneKnown, Entered, At, Home, Loyal, Same, Untrust
  <2>5. QED BY <1>5, <1>6, <1>7, <1>8, <2>3, <2>4 DEF Good, Moves
<1>10. QED BY <1>9 DEF removeAutostart

(* The system's store is left. (PreUninstall) *)
LEMMA removeCertSystemStoreGood ==
  ASSUME NEW p \in Procs, Start(p), removeCertSystemStore(p)
  PROVE  Good(p)
<1>1. /\ proc \in [Procs -> Process] /\ proc[p] \in Process
      /\ StepOK(proc[p]) /\ Own(p) /\ RestTyped /\ CountsTyped /\ Entries
  BY DEF Start
<1>2. At(p, "uncastore") /\ UNCHANGED <<cert, key, made, profiles, nss, policy, autostart>>
  BY DEF removeCertSystemStore, tlsVars
<1>3. Home(p) \in Homes BY <1>2, HomeTyped DEF At
<1>4. caStore' = 0 BY DEF removeCertSystemStore
<1>5. Within(p) BY <1>1, <1>2, <1>4 DEF Within, At, StepOK, Home
<1>6. RestTyped'
  BY <1>1, <1>2, <1>3, <1>4, StartupAssumption DEF RestTyped, File
<1>7. Entries' BY <1>1, <1>2 DEF Entries
<1>8. CountsTyped' BY <1>1 DEF removeCertSystemStore, CountsTyped, countVars
<1>9. CASE Goto(p, "unpolicy")
  <2>1. "unpolicy" \in Steps BY DEF Steps
  <2>2. /\ Loyal(p) /\ proc'[p].pc = "unpolicy"
        /\ proc'[p].mine = proc[p].mine /\ proc'[p].new = proc[p].new
        /\ proc'[p].todo = proc[p].todo
        /\ proc'[p].disturbed = proc[p].disturbed
    BY <1>1, <1>9, <2>1, GotoEffect
  <2>3. Advances(p) BY <1>1, <1>2, <2>2 DEF Advances, Loyal, Same, StepOK, At
  <2>4. Own(p)'
    BY <1>1, <1>2, <1>3, <1>4, <2>2 DEF Own, KnownOf, ListedOf, FilesKnown,
       TrustKnown, UndoneKnown, Entered, At, Home, Loyal, Same
  <2>5. QED BY <1>5, <1>6, <1>7, <1>8, <2>3, <2>4 DEF Good, Moves
<1>10. QED BY <1>9 DEF removeCertSystemStore

(* The policy is removed, the last step. (PreUninstall) *)
LEMMA removeFirefoxSystemPolicyGood ==
  ASSUME NEW p \in Procs, Start(p), removeFirefoxSystemPolicy(p)
  PROVE  Good(p)
<1>1. /\ proc \in [Procs -> Process] /\ proc[p] \in Process
      /\ StepOK(proc[p]) /\ Own(p) /\ RestTyped /\ CountsTyped /\ Entries
  BY DEF Start
<1>2. At(p, "unpolicy") /\ UNCHANGED <<cert, key, made, profiles, nss, caStore, autostart>>
  BY DEF removeFirefoxSystemPolicy, tlsVars
<1>3. Home(p) \in Homes BY <1>2, HomeTyped DEF At
<1>4. policy' = FALSE BY DEF removeFirefoxSystemPolicy
<1>5. Within(p) BY <1>1, <1>2, <1>4 DEF Within, At, StepOK, Home
<1>6. RestTyped'
  BY <1>1, <1>2, <1>3, <1>4, StartupAssumption DEF RestTyped, File
<1>7. Entries' BY <1>1, <1>2 DEF Entries
<1>8. CountsTyped'
  BY <1>1, PortTyped DEF removeFirefoxSystemPolicy, CountsTyped, countVars
<1>9. CASE End(p)
  <2>1. Ends(p) BY <1>1, <1>9, EndEffect
  <2>2. LastStep(p) BY <1>2, <1>4 DEF LastStep, At
  <2>3. QED BY <1>5, <1>6, <1>7, <1>8, <2>1, <2>2, GoneOwn DEF Good, Moves
<1>10. QED BY <1>9 DEF removeFirefoxSystemPolicy

(* The databases are listed. (PreUninstall) *)
LEMMA removeUserTrustGood ==
  ASSUME NEW p \in Procs, Start(p), removeUserTrust(p)
  PROVE  Good(p)
<1>1. /\ proc \in [Procs -> Process] /\ proc[p] \in Process
      /\ StepOK(proc[p]) /\ Own(p) /\ RestTyped /\ CountsTyped /\ Entries
  BY DEF Start
<1>2. At(p, "unlistdbs") /\ UNCHANGED <<cert, key, made, nss, caStore, policy, autostart>>
  BY DEF removeUserTrust, userNSSDatabases, tlsVars
<1>3. Home(p) \in Homes BY <1>2, HomeTyped DEF At
<1>4. profiles' = profiles \cup (DBsOf(Home(p)) \cap Chrome)
  BY DEF removeUserTrust, userNSSDatabases
<1>5. \A d \in DBsOf(Home(p)) : d \notin profiles' => nss[d] = 0
  BY <1>1, <1>4 DEF Entries, DBsOf
<1>6. Within(p) BY <1>1, <1>2, <1>4 DEF Within, At
<1>7. RestTyped' BY <1>1, <1>2, <1>4, StartupAssumption DEF RestTyped, DBsOf
<1>8. Entries' BY <1>1, <1>2, <1>4 DEF Entries
<1>9. CountsTyped' BY <1>1 DEF removeUserTrust, userNSSDatabases, CountsTyped, countVars
<1>10. CASE Lists(p, DBsOf(Home(p)) \cap profiles', "untrust")
  <2>1. "untrust" \in Steps BY DEF Steps
  <2>2. DBsOf(Home(p)) \cap profiles' \in SUBSET DBs BY DEF DBsOf
  <2>3. /\ Loyal(p) /\ proc'[p].pc = "untrust"
        /\ proc'[p].mine = proc[p].mine /\ proc'[p].new = proc[p].new
        /\ proc'[p].todo = DBsOf(Home(p)) \cap profiles'
        /\ proc'[p].disturbed = proc[p].disturbed
    BY <1>1, <1>10, <2>1, <2>2, TodoEffect
  <2>4. Advances(p) BY <1>1, <1>2, <2>3 DEF Advances, Loyal, Same, StepOK, At
  <2>5. Own(p)'
    BY <1>1, <1>2, <1>4, <1>5, <2>3 DEF Own, KnownOf, ListedOf, FilesKnown,
       TrustKnown, UndoneKnown, Entered, At, Home, Loyal, Same
  <2>6. QED BY <1>6, <1>7, <1>8, <1>9, <2>4, <2>5 DEF Good, Moves
<1>11. QED BY <1>10 DEF removeUserTrust, userNSSDatabases, Lists

(* A database loses its entry. (PreUninstall) *)
LEMMA certutilDeleteGood ==
  ASSUME NEW p \in Procs, Start(p), NEW d \in DBs, certutilDelete(p, d)
  PROVE  Good(p)
<1>1. /\ proc \in [Procs -> Process] /\ proc[p] \in Process
      /\ StepOK(proc[p]) /\ Own(p) /\ RestTyped /\ CountsTyped /\ Entries
  BY DEF Start
<1>2. At(p, "untrust") /\ UNCHANGED <<cert, key, made, profiles, caStore, policy, autostart>>
  BY DEF certutilDelete, tlsVars
<1>3. Home(p) \in Homes BY <1>2, HomeTyped DEF At
<1>4. OwnerOf[d] = Home(p)
  BY <1>1, <1>2 DEF certutilDelete, Own, ListedOf, At, DBsOf
<1>5. nss' = [nss EXCEPT ![d] = 0] BY DEF certutilDelete
<1>6. Within(p) BY <1>1, <1>2, <1>4, <1>5 DEF Within, At, RestTyped, StepOK
<1>7. RestTyped' BY <1>1, <1>2, <1>5, StartupAssumption DEF RestTyped
<1>8. Entries' BY <1>1, <1>2, <1>5 DEF Entries, RestTyped
<1>9. CountsTyped' BY <1>1 DEF certutilDelete, CountsTyped, countVars
<1>10. CASE proc' = [proc EXCEPT ![p].todo = @ \ {d}]
  <2>1. proc[p].todo \ {d} \in SUBSET DBs BY <1>1, Fields
  <2>2. /\ Loyal(p) /\ proc'[p].pc = proc[p].pc
        /\ proc'[p].mine = proc[p].mine /\ proc'[p].new = proc[p].new
        /\ proc'[p].todo = proc[p].todo \ {d}
        /\ proc'[p].disturbed = proc[p].disturbed
    BY <1>1, <1>10, <2>1, DoneEffect
  <2>3. Advances(p) BY <1>1, <1>2, <2>2 DEF Advances, Loyal, Same, StepOK, At
  <2>4. Own(p)'
    BY <1>1, <1>2, <1>5, <2>2 DEF Own, KnownOf, ListedOf, FilesKnown,
       TrustKnown, UndoneKnown, Entered, At, Home, Loyal, Same, RestTyped,
       DBsOf
  <2>5. QED BY <1>6, <1>7, <1>8, <1>9, <2>3, <2>4 DEF Good, Moves
<1>11. QED BY <1>10 DEF certutilDelete

(* No database is left, the last step. (PreUninstall) *)
LEMMA UserTrustRemovedGood ==
  ASSUME NEW p \in Procs, Start(p), UserTrustRemoved(p)
  PROVE  Good(p)
<1>1. /\ proc \in [Procs -> Process] /\ proc[p] \in Process
      /\ StepOK(proc[p]) /\ Own(p) /\ RestTyped /\ CountsTyped /\ Entries
  BY DEF Start
<1>2. At(p, "untrust") /\ UNCHANGED <<cert, key, profiles, nss, caStore, autostart>>
  BY DEF UserTrustRemoved, tlsVars, trustVars
<1>3. Home(p) \in Homes BY <1>2, HomeTyped DEF At
<1>4. proc[p].todo = {} BY DEF UserTrustRemoved
<1>5. Within(p) /\ RestTyped' /\ Entries' BY StillWithin DEF UserTrustRemoved
<1>6. CountsTyped'
  BY <1>1, PortTyped DEF UserTrustRemoved, CountsTyped, countVars
<1>7. CASE End(p)
  <2>1. Ends(p) BY <1>1, <1>7, EndEffect
  <2>2. LastStep(p) BY <1>2, <1>4 DEF LastStep
  <2>3. QED BY <1>5, <1>6, <2>1, <2>2, GoneOwn DEF Good, Moves
<1>8. QED BY <1>7 DEF UserTrustRemoved

(* The keystore is opened, or the launch ends. (NewKeystore) *)
LEMMA NewKeystoreGood ==
  ASSUME NEW p \in Procs, Start(p), NewKeystore(p)
  PROVE  Good(p)
<1>1. /\ proc \in [Procs -> Process] /\ proc[p] \in Process
      /\ StepOK(proc[p]) /\ Own(p) /\ RestTyped /\ CountsTyped /\ Entries
  BY DEF Start
<1>2. At(p, "keystore") /\ UNCHANGED <<cert, key, profiles, nss, caStore, autostart>>
  BY DEF NewKeystore, tlsVars, trustVars
<1>3. Home(p) \in Homes BY <1>2, HomeTyped DEF At
<1>4. Within(p) /\ RestTyped' /\ Entries' BY StillWithin DEF NewKeystore
<1>5. CountsTyped' BY <1>1, PortTyped DEF NewKeystore, CountsTyped, countVars
<1>6. CASE Goto(p, "drivers")
  <2>1. "drivers" \in Steps BY DEF Steps
  <2>2. /\ Loyal(p) /\ proc'[p].pc = "drivers"
        /\ proc'[p].mine = proc[p].mine /\ proc'[p].new = proc[p].new
        /\ proc'[p].todo = proc[p].todo
        /\ proc'[p].disturbed = proc[p].disturbed
    BY <1>1, <1>6, <2>1, GotoEffect
  <2>3. Advances(p) BY <1>1, <1>2, <2>2 DEF Advances, Loyal, Same, StepOK, At
  <2>4. Own(p)'
    BY <1>1, <1>2, <2>2 DEF Own, KnownOf, ListedOf, FilesKnown, TrustKnown,
       UndoneKnown, Entered, At, Home, Loyal, Same
  <2>5. QED BY <1>4, <1>5, <2>3, <2>4 DEF Good, Moves
<1>7. CASE End(p)
  <2>1. Ends(p) BY <1>1, <1>7, EndEffect
  <2>2. LastStep(p) BY <1>2 DEF LastStep, At
  <2>3. QED BY <1>4, <1>5, <2>1, <2>2, GoneOwn DEF Good, Moves
<1>8. QED BY <1>6, <1>7 DEF NewKeystore

(* The drivers are loaded. (NewPKCS11Handler) *)
LEMMA NewPKCS11HandlerGood ==
  ASSUME NEW p \in Procs, Start(p), NewPKCS11Handler(p)
  PROVE  Good(p)
<1>1. /\ proc \in [Procs -> Process] /\ proc[p] \in Process
      /\ StepOK(proc[p]) /\ Own(p) /\ RestTyped /\ CountsTyped /\ Entries
  BY DEF Start
<1>2. At(p, "drivers") /\ UNCHANGED <<cert, key, profiles, nss, caStore, autostart>>
  BY DEF NewPKCS11Handler, tlsVars, trustVars
<1>3. Home(p) \in Homes BY <1>2, HomeTyped DEF At
<1>4. PICK paths \in Configs :
        proc' = [proc EXCEPT ![p].paths = paths,
                             ![p].libs = Loaded(PKCS11Libs(paths)),
                             ![p].pc = "listen"]
  BY DEF NewPKCS11Handler
<1>5. Within(p) /\ RestTyped' /\ Entries' BY StillWithin DEF NewPKCS11Handler
<1>6. CountsTyped' BY <1>1 DEF NewPKCS11Handler, CountsTyped, countVars
<1>7. CASE LoadsLibs(p, paths, Loaded(PKCS11Libs(paths)), "listen")
  <2>1. "listen" \in Steps BY DEF Steps
  <2>2. Loaded(PKCS11Libs(paths)) \in LoadedLibs BY DEF LoadedLibs
  <2>3. /\ Loyal(p) /\ proc'[p].pc = "listen"
        /\ proc'[p].mine = proc[p].mine /\ proc'[p].new = proc[p].new
        /\ proc'[p].todo = proc[p].todo
        /\ proc'[p].disturbed = proc[p].disturbed
    BY <1>1, <1>7, <2>1, <2>2, LibsEffect
  <2>4. Advances(p) BY <1>1, <1>2, <2>3 DEF Advances, Loyal, Same, StepOK, At
  <2>5. Own(p)'
    BY <1>1, <1>2, <2>3 DEF Own, KnownOf, ListedOf, FilesKnown, TrustKnown,
       UndoneKnown, Entered, At, Home, Loyal, Same
  <2>6. QED BY <1>5, <1>6, <2>4, <2>5 DEF Good, Moves
<1>8. QED BY <1>4, <1>7 DEF LoadsLibs

(* The port is taken, or the launch ends. (StartServer) *)
LEMMA StartServerGood ==
  ASSUME NEW p \in Procs, Start(p), StartServer(p)
  PROVE  Good(p)
<1>1. /\ proc \in [Procs -> Process] /\ proc[p] \in Process
      /\ StepOK(proc[p]) /\ Own(p) /\ RestTyped /\ CountsTyped /\ Entries
  BY DEF Start
<1>2. At(p, "listen") /\ UNCHANGED <<cert, key, profiles, nss, caStore, autostart>>
  BY DEF StartServer, tlsVars, trustVars
<1>3. Home(p) \in Homes BY <1>2, HomeTyped DEF At
<1>4. Within(p) /\ RestTyped' /\ Entries' BY StillWithin DEF StartServer
<1>5. CountsTyped' BY <1>1, PortTyped DEF StartServer, CountsTyped, countVars
<1>6. CASE Goto(p, "serving")
  <2>1. "serving" \in Steps BY DEF Steps
  <2>2. /\ Loyal(p) /\ proc'[p].pc = "serving"
        /\ proc'[p].mine = proc[p].mine /\ proc'[p].new = proc[p].new
        /\ proc'[p].todo = proc[p].todo
        /\ proc'[p].disturbed = proc[p].disturbed
    BY <1>1, <1>6, <2>1, GotoEffect
  <2>3. Advances(p) BY <1>1, <1>2, <2>2 DEF Advances, Loyal, Same, StepOK, At
  <2>4. Own(p)'
    BY <1>1, <1>2, <2>2 DEF Own, KnownOf, ListedOf, FilesKnown, TrustKnown,
       UndoneKnown, Entered, At, Home, Loyal, Same
  <2>5. QED BY <1>4, <1>5, <2>3, <2>4 DEF Good, Moves
<1>7. CASE End(p)
  <2>1. Ends(p) BY <1>1, <1>7, EndEffect
  <2>2. LastStep(p) BY <1>2 DEF LastStep, At
  <2>3. QED BY <1>4, <1>5, <2>1, <2>2, GoneOwn DEF Good, Moves
<1>8. QED BY <1>6, <1>7 DEF StartServer

(* A bridge that serves is stopped. (main) *)
LEMMA StopGood ==
  ASSUME NEW p \in Procs, Start(p), Stop(p)
  PROVE  Good(p)
<1>1. /\ proc \in [Procs -> Process] /\ proc[p] \in Process
      /\ StepOK(proc[p]) /\ Own(p) /\ RestTyped /\ CountsTyped /\ Entries
  BY DEF Start
<1>2. At(p, "serving") /\ UNCHANGED <<cert, key, profiles, nss, caStore, autostart>>
  BY DEF Stop, tlsVars, trustVars
<1>3. Home(p) \in Homes BY <1>2, HomeTyped DEF At
<1>4. Within(p) /\ RestTyped' /\ Entries' BY StillWithin DEF Stop
<1>5. CountsTyped' BY <1>1, PortTyped DEF Stop, CountsTyped, countVars
<1>6. CASE End(p)
  <2>1. Ends(p) BY <1>1, <1>6, EndEffect
  <2>2. LastStep(p) BY <1>2 DEF LastStep, At
  <2>3. QED BY <1>4, <1>5, <2>1, <2>2, GoneOwn DEF Good, Moves
<1>7. QED BY <1>6 DEF Stop

(* A fault counts as an event, and does no more than half a step. *)
Fault(p) ==
    /\ events < MaxEvents /\ events' = events + 1
    /\ HalfDone(p) /\ UNCHANGED <<tlsVars, launches>>
    /\ End(p) \/ UNCHANGED port

(* What every fault has in common. (TLSFault, ToolFault, Kill) *)
LEMMA FaultShared ==
  ASSUME NEW p \in Procs, Start(p), Fault(p)
  PROVE  Within(p) /\ RestTyped' /\ Entries' /\ CountsTyped' /\ events' # events
<1>1. RestTyped /\ CountsTyped /\ Entries /\ StepOK(proc[p]) /\ proc[p] \in Process
  BY DEF Start
<1>2. /\ UNCHANGED <<cert, key, made, profiles, nss>>
      /\ autostart' \in {autostart, autostart \ {Home(p)}}
      /\ policy' \in {policy, FALSE}
      /\ At(p, "castore") => caStore' \in {caStore, -1, cert[Home(p)]}
      /\ ~At(p, "castore") => caStore' \in {caStore, 0}
      /\ ~At(p, "castore") /\ ~At(p, "uncastore") => caStore' = caStore
      /\ At(p, "serving") => UNCHANGED <<autostart, caStore>>
  BY DEF Fault, HalfDone, tlsVars, At
<1>3. At(p, "castore") \/ At(p, "uncastore") => Home(p) = Root
  BY <1>1 DEF StepOK, At, Home
<1>4. Within(p) BY <1>2, <1>3 DEF Within
<1>5. caStore' \in File
  <2>1. {0, -1} \subseteq File BY StartupAssumption DEF File
  <2>2. At(p, "castore") => cert[Home(p)] \in File BY <1>1, <1>3 DEF RestTyped, Homes
  <2>3. QED BY <1>1, <1>2, <2>1, <2>2 DEF RestTyped
<1>6. RestTyped' BY <1>1, <1>2, <1>5 DEF RestTyped
<1>7. Entries' BY <1>1, <1>2 DEF Entries
<1>8. events' # events /\ events' \in 0..MaxEvents
  BY <1>1, StartupAssumption DEF Fault, CountsTyped
<1>9. CountsTyped' BY <1>1, <1>8, PortTyped DEF Fault, CountsTyped
<1>10. QED BY <1>4, <1>6, <1>7, <1>8, <1>9

(* A fault that ends the launch. (TLSFault, ToolFault, Kill) *)
LEMMA FaultEnds ==
  ASSUME NEW p \in Procs, Start(p), Fault(p), End(p)
  PROVE  Good(p)
<1>1. Ends(p) BY EndEffect DEF Start
<1>2. LastStep(p) BY FaultShared DEF LastStep
<1>3. QED BY <1>1, <1>2, FaultShared, GoneOwn DEF Good, Moves

(* A fault that the launch goes on after: it has been disturbed, and knows
   nothing more. (TLSFault, ToolFault)                                     *)
LEMMA FaultGoesOn ==
  ASSUME NEW p \in Procs, Start(p), Fault(p), Loyal(p),
         ~At(p, "idle"), ~At(p, "serving"), proc'[p].disturbed = TRUE,
         proc'[p].pc # "idle", StepOK(proc'[p]), ListedOf(p)'
  PROVE  Good(p)
<1>1. Advances(p) BY DEF Advances
<1>2. Own(p)' BY DEF Own, KnownOf
<1>3. QED BY <1>1, <1>2, FaultShared DEF Good, Moves

(* A file cannot be opened, or is cut short. (generateSelfSignedCert) *)
LEMMA TLSFaultGood ==
  ASSUME NEW p \in Procs, Start(p), TLSFault(p)
  PROVE  Good(p)
<1>1. /\ proc \in [Procs -> Process] /\ proc[p] \in Process
      /\ StepOK(proc[p]) /\ Own(p) /\ RestTyped /\ CountsTyped /\ Entries
  BY DEF Start
<1>2. Fault(p) BY DEF TLSFault, Fault, HalfDone, trustVars
<1>3. CASE End(p) BY <1>2, <1>3, FaultEnds
<1>4. CASE /\ At(p, "fillcert") \/ At(p, "fillkey")
           /\ proc' = [proc EXCEPT ![p].disturbed = TRUE, ![p].pc =
                          IF @ = "fillcert" THEN "openkey" ELSE "reload"]
  <2> DEFINE s == IF At(p, "fillcert") THEN "openkey" ELSE "reload"
  <2>1. proc' = [proc EXCEPT ![p].disturbed = TRUE, ![p].pc = s] BY <1>4 DEF At
  <2>2. s \in Steps BY DEF Steps, Rewriting
  <2>3. s \in {"openkey", "reload"} OBVIOUS
  <2> HIDE DEF s
  <2>4. /\ Loyal(p) /\ proc'[p].pc = s /\ proc'[p].disturbed = TRUE
    BY <1>1, <2>1, <2>2, FaultEffect
  <2>5. proc'[p].pc # "idle" /\ StepOK(proc'[p]) /\ ~At(p, "idle") /\ ~At(p, "serving")
    BY <1>1, <1>4, <2>3, <2>4 DEF Loyal, Same, StepOK, At
  <2>6. ListedOf(p)' BY <2>3, <2>4 DEF ListedOf, At
  <2>7. QED BY <1>2, <2>4, <2>5, <2>6, FaultGoesOn
<1>5. QED BY <1>3, <1>4 DEF TLSFault

(* A step of a hook or of EnsureUserTrust fails. (PostInstall, PreUninstall) *)
LEMMA ToolFaultGood ==
  ASSUME NEW p \in Procs, Start(p), ToolFault(p)
  PROVE  Good(p)
<1>1. /\ proc \in [Procs -> Process] /\ proc[p] \in Process
      /\ StepOK(proc[p]) /\ Own(p) /\ RestTyped /\ CountsTyped /\ Entries
  BY DEF Start
<1>2. Fault(p) BY DEF ToolFault, Fault
<1>3. CASE /\ AfterFault(p) # "idle"
           /\ proc' = [proc EXCEPT ![p].disturbed = TRUE, ![p].pc = AfterFault(p)]
  <2> DEFINE s == AfterFault(p)
  <2>1. s \in Steps BY DEF AfterFault, AfterTrust, Untrust, Steps
  <2>2. /\ Loyal(p) /\ proc'[p].pc = s /\ proc'[p].disturbed = TRUE
    BY <1>1, <1>3, <2>1, FaultEffect
  <2>3. ~At(p, "idle") /\ ~At(p, "serving") BY <1>3 DEF AfterFault, At
  <2>4. StepOK(proc'[p])
    BY <1>1, <1>3, <2>2 DEF Loyal, Same, StepOK, AfterFault, AfterTrust, Untrust, At, Home
  <2>5. s \notin {"certutil", "untrust"} BY DEF AfterFault, AfterTrust, Untrust
  <2>6. ListedOf(p)' BY <2>2, <2>5 DEF ListedOf, At
  <2>7. QED BY <1>2, <1>3, <2>2, <2>3, <2>4, <2>6, FaultGoesOn
<1>4. ASSUME At(p, "certutil") \/ At(p, "untrust"), NEW d \in proc[p].todo,
             proc' = [proc EXCEPT ![p].disturbed = TRUE, ![p].todo = @ \ {d}]
      PROVE  Good(p)
  <2>1. proc[p].todo \ {d} \in SUBSET DBs BY <1>1, Fields
  <2>2. /\ Loyal(p) /\ proc'[p].pc = proc[p].pc /\ proc'[p].disturbed = TRUE
        /\ proc'[p].todo = proc[p].todo \ {d}
    BY <1>1, <1>4, <2>1, SkipEffect
  <2>3. ~At(p, "idle") /\ ~At(p, "serving") BY <1>4 DEF At
  <2>4. proc'[p].pc # "idle" /\ StepOK(proc'[p])
    BY <1>1, <1>4, <2>2 DEF Loyal, Same, StepOK, At
  <2>5. profiles' = profiles BY <1>2 DEF Fault, HalfDone
  <2>6. ListedOf(p)' BY <1>1, <2>2, <2>5 DEF Own, ListedOf, At, Home, Loyal, Same
  <2>7. QED BY <1>2, <2>2, <2>3, <2>4, <2>6, FaultGoesOn
<1>5. CASE End(p) BY <1>2, <1>5, FaultEnds
<1>6. QED BY <1>3, <1>4, <1>5 DEF ToolFault

(* A launch is killed. *)
LEMMA KillGood ==
  ASSUME NEW p \in Procs, Start(p), Kill(p)
  PROVE  Good(p)
<1>1. Fault(p) /\ End(p) BY DEF Kill, Fault, HalfDone, trustVars
<1>2. QED BY <1>1, FaultEnds

(* A step of the program or of the machine on p. *)
StepOf(p) == Program(p) \/ TLSFault(p) \/ ToolFault(p) \/ Stop(p) \/ Kill(p)

(* Every step of a process does what it has to do. (main, PostInstall,
   PreUninstall)                                                           *)
LEMMA StepGood ==
  ASSUME NEW p \in Procs, Start(p), Lonely(p), StepOf(p)
  PROVE  Good(p)
<1>1. CASE EnsureTLSCert(p)
  BY <1>1, FindPairGood, LoadPairGood, OpenCertGood, FillCertGood, OpenKeyGood,
     FillKeyGood, ReloadGood DEF EnsureTLSCert
<1>2. CASE PostInstall(p)
  BY <1>2, installCertSystemStoreGood, installFirefoxSystemPolicyGood,
     installAutostartGood DEF PostInstall
<1>3. CASE PreUninstall(p)
  BY <1>3, removeAutostartGood, removeCertSystemStoreGood,
     removeFirefoxSystemPolicyGood, removeUserTrustGood, certutilDeleteGood,
     UserTrustRemovedGood DEF PreUninstall
<1>4. CASE \E d \in DBs : nssAddCert(p, d) BY <1>4, nssAddCertGood
<1>5. CASE LoadConfig(p) \/ EnsureUserTrust(p) \/ UserTrustEnsured(p)
  BY <1>5, LoadConfigGood, EnsureUserTrustGood, UserTrustEnsuredGood
<1>6. CASE NewKeystore(p) \/ NewPKCS11Handler(p) \/ StartServer(p)
  BY <1>6, NewKeystoreGood, NewPKCS11HandlerGood, StartServerGood
<1>7. CASE TLSFault(p) \/ ToolFault(p) \/ Stop(p) \/ Kill(p)
  BY <1>7, TLSFaultGood, ToolFaultGood, StopGood, KillGood
<1>8. QED
  BY <1>1, <1>2, <1>3, <1>4, <1>5, <1>6, <1>7 DEF StepOf, Program, main

-----------------------------------------------------------------------------
(* The other processes. *)

(* What a step of p leaves to another launch q: Alone keeps them apart.
   (EnsureTLSCert, EnsureUserTrust, PreUninstall)                          *)
LEMMA OtherKnown ==
  ASSUME StartupInv, NEW p \in Procs, Within(p), Moves(p),
         NEW q \in Procs \ {p}
  PROVE  Own(q)'
<1>1. Start(q) /\ Start(p) BY Starts
<1>2. proc'[q] = proc[q] BY DEF Moves, Advances, Loyal, Ends, Others
<1>3. profiles \subseteq profiles' BY DEF Within
<1>4. ListedOf(q)' BY <1>1, <1>2, <1>3 DEF Start, Own, ListedOf, At, Home
<1>5. ASSUME ~proc[q].disturbed, At(q, "idle")
      PROVE  FilesKnown(q)' /\ TrustKnown(q)' /\ UndoneKnown(q)'
  BY <1>2, <1>5 DEF FilesKnown, TrustKnown, UndoneKnown, At
<1>6. ASSUME ~proc[q].disturbed, ~At(q, "idle")
      PROVE  FilesKnown(q)' /\ TrustKnown(q)' /\ UndoneKnown(q)'
  <2>1. Home(q) \in Homes BY <1>1, <1>6, HomeTyped
  <2>2. FilesKnown(q) /\ TrustKnown(q) /\ UndoneKnown(q)
    BY <1>1, <1>6 DEF Start, Own, KnownOf
  <2>3. proc[q].bare \subseteq DBsOf(Home(q)) \cap (profiles \cup Chrome)
    BY <1>6, <2>2 DEF TrustKnown
  <2>4. ASSUME /\ cert'[Home(q)] = cert[Home(q)] /\ key'[Home(q)] = key[Home(q)]
               /\ Home(q) \in autostart' <=> Home(q) \in autostart
               /\ \A d \in DBsOf(Home(q)) : nss'[d] = nss[d]
               /\ At(q, "unpolicy") => caStore' = caStore
        PROVE  FilesKnown(q)' /\ TrustKnown(q)' /\ UndoneKnown(q)'
    <3>1. FilesKnown(q)' BY <1>2, <2>2, <2>4 DEF FilesKnown, At, Home, Whole, IsCert
    <3>2. TrustKnown(q)'
      BY <1>2, <1>3, <2>2, <2>3, <2>4 DEF TrustKnown, At, Home, Entered
    <3>3. UndoneKnown(q)' BY <1>2, <2>2, <2>4 DEF UndoneKnown, At, Home
    <3>4. QED BY <3>1, <3>2, <3>3
  <2>5. CASE Home(q) # Home(p)
    <3>1. \A d \in DBsOf(Home(q)) : nss'[d] = nss[d] BY <2>5 DEF Within, DBsOf
    <3>2. At(q, "unpolicy") => caStore' = caStore
      BY <1>1, <2>5 DEF Within, Start, StepOK, At, Home
    <3>3. QED BY <2>1, <2>4, <2>5, <3>1, <3>2 DEF Within
  <2>6. CASE Home(q) = Home(p) /\ At(p, "serving")
    BY <2>4, <2>6 DEF Within, DBsOf
  <2>7. CASE At(q, "serving") /\ proc[p].mode # "pre-uninstall"
    <3>1. \A d \in proc[q].bare : Entered(q, d) /\ nss'[d] = nss[d]
      BY <2>2, <2>3, <2>7 DEF TrustKnown, At, Entered, Within, DBsOf
    <3>2. FilesKnown(q)' BY <1>2, <2>7 DEF FilesKnown, At
    <3>3. TrustKnown(q)'
      BY <1>2, <1>3, <2>3, <2>7, <3>1 DEF TrustKnown, At, Home, Entered
    <3>4. UndoneKnown(q)' BY <1>2, <2>7 DEF UndoneKnown, At
    <3>5. QED BY <3>2, <3>3, <3>4
  <2>8. QED
    BY <1>6, <2>5, <2>6, <2>7 DEF StartupInv, Alone, Apart
<1>7. QED BY <1>2, <1>4, <1>5, <1>6 DEF Own, KnownOf

(* A launch that goes on or ends stays alone if it was. (End, Goto) *)
LEMMA StepAlone ==
  ASSUME StartupInv, NEW p \in Procs, Moves(p)
  PROVE  Alone'
<1>1. SUFFICES ASSUME NEW a \in Procs, NEW b \in Procs, a # b,
                      proc'[a].pc # "idle", ~proc'[a].disturbed,
                      proc'[b].home = proc'[a].home
               PROVE  Apart(a, b)' \/ Apart(b, a)'
  BY DEF Alone, At, Home
<1>2. Start(a) /\ Start(b) /\ Start(p) BY Starts
<1>3. Alone BY DEF StartupInv
<1>4. CASE Ends(p)
  <2>1. a # p BY <1>1, <1>4, IdleFields DEF Ends
  <2>2. proc'[a] = proc[a] BY <1>4, <2>1 DEF Ends, Others
  <2>3. b # p
    <3>1. proc[a].home # None BY <1>1, <1>2, <2>2 DEF Start, StepOK
    <3>2. QED BY <1>1, <1>4, <2>2, <3>1, IdleFields DEF Ends
  <2>4. proc'[b] = proc[b] BY <1>4, <2>3 DEF Ends, Others
  <2>5. QED BY <1>1, <1>3, <2>2, <2>4 DEF Alone, Apart, At, Home
<1>5. CASE Advances(p)
  <2>1. \A q \in Procs : /\ proc'[q].home = proc[q].home
                         /\ proc'[q].mode = proc[q].mode
                         /\ proc[q].pc = "serving" => proc'[q].pc = "serving"
                         /\ proc[q].disturbed => proc'[q].disturbed
                         /\ proc'[q].pc # "idle" => proc[q].pc # "idle"
    BY <1>5 DEF Advances, Loyal, Same, Others, At
  <2>2. QED BY <1>1, <1>3, <2>1 DEF Alone, Apart, At, Home
<1>6. QED BY <1>4, <1>5 DEF Moves

(* The invariant, from its parts, in the next state. (StartupInv) *)
LEMMA Assembled ==
  ASSUME RestTyped', CountsTyped', proc' \in [Procs -> Process], Alone', Entries',
         \A q \in Procs : StepOK(proc'[q]) /\ Own(q)'
  PROVE  StartupInv'
<1>1. TypeOK' BY DEF TypeOK, RestTyped, CountsTyped
<1>2. Placed' BY DEF Placed
<1>3. Listed' BY DEF Listed, Own, ListedOf
<1>4. Known' BY DEF Known, Own, KnownOf
<1>5. QED BY <1>1, <1>2, <1>3, <1>4 DEF StartupInv

(* A step of a process that runs. (main, PostInstall, PreUninstall, End) *)
LEMMA StepKeeps ==
  ASSUME StartupInv, NEW p \in Procs, StepOf(p)
  PROVE  StartupInv' /\ Moves(p)
<1>1. Lonely(p) BY DEF StartupInv, Alone, Lonely
<1>2. Good(p) BY <1>1, Starts, StepGood
<1>3. Others(p) BY <1>2 DEF Good, Moves, Advances, Loyal, Ends
<1>4. proc' \in [Procs -> Process] BY <1>3 DEF Others
<1>5. StepOK(proc'[p])
  <2>1. StepOK(Idle) BY IdleFields DEF StepOK
  <2>2. QED BY <1>2, <2>1 DEF Good, Moves, Advances, Ends
<1>6. ASSUME NEW q \in Procs \ {p} PROVE StepOK(proc'[q]) /\ Own(q)'
  <2>1. StepOK(proc[q]) BY Starts DEF Start
  <2>2. QED BY <1>2, <1>3, <2>1, OtherKnown DEF Good, Others
<1>7. Alone' BY <1>2, StepAlone DEF Good
<1>8. QED BY <1>2, <1>4, <1>5, <1>6, <1>7, Assembled DEF Good

(* A launch is disturbed if its account is busy, and disturbs those at work
   there. (main)                                                           *)
LEMMA LaunchKeeps ==
  ASSUME StartupInv, NEW p \in Procs, NEW m \in Modes, NEW h \in Homes,
         Launch(p, m, h)
  PROVE  StartupInv'
<1>1. Start(p) BY Starts
<1>2. Launched(p, m, h) BY <1>1, LaunchEffect DEF Start
<1>3. UNCHANGED <<cert, key, made, profiles, nss, caStore, policy, autostart, port>>
  BY DEF Launch, tlsVars, trustVars
<1>4. RestTyped' /\ Entries' BY <1>1, <1>3 DEF Start, RestTyped, Entries, IsCert
<1>5. CountsTyped'
  <2>1. /\ launches < MaxLaunches /\ launches' = launches + 1
        /\ port' = port /\ events' = events
    BY DEF Launch
  <2>2. CountsTyped BY <1>1 DEF Start
  <2>3. QED BY <2>1, <2>2, StartupAssumption DEF CountsTyped
<1>6. proc' \in [Procs -> Process] BY <1>2 DEF Launched
<1>7. StepOK(proc'[p]) BY <1>2, StartupAssumption DEF Launched, StepOK
<1>8. Own(p)'
  <2>1. proc'[p].pc \in {"unstart", "config"} BY <1>2 DEF Launched
  <2>2. ListedOf(p)' BY <2>1 DEF ListedOf, At
  <2>3. FilesKnown(p)' BY <2>1 DEF FilesKnown, At
  <2>4. TrustKnown(p)' BY <1>2, <1>3, <2>1 DEF TrustKnown, Launched, At, Home
  <2>5. UndoneKnown(p)' BY <2>1 DEF UndoneKnown, At
  <2>6. QED BY <2>2, <2>3, <2>4, <2>5 DEF Own, KnownOf
<1>9. ASSUME NEW q \in Procs \ {p} PROVE StepOK(proc'[q]) /\ Own(q)'
  <2>1. StepOK(proc[q]) /\ Own(q) BY Starts DEF Start
  <2>2. /\ proc'[q].pc = proc[q].pc /\ proc'[q].mode = proc[q].mode
        /\ proc'[q].home = proc[q].home /\ proc'[q].bare = proc[q].bare
        /\ proc'[q].mine = proc[q].mine /\ proc'[q].new = proc[q].new
        /\ proc'[q].todo = proc[q].todo
        /\ proc[q].disturbed => proc'[q].disturbed
    BY <1>2 DEF Launched
  <2>3. StepOK(proc'[q]) BY <2>1, <2>2 DEF StepOK
  <2>4. Own(q)'
    BY <1>3, <2>1, <2>2 DEF Own, KnownOf, ListedOf, FilesKnown, TrustKnown,
       UndoneKnown, Entered, At, Home, Whole, IsCert
  <2>5. QED BY <2>3, <2>4
<1>10. Alone'
  <2>1. SUFFICES ASSUME NEW a \in Procs, NEW b \in Procs, a # b,
                        proc'[a].pc # "idle", ~proc'[a].disturbed,
                        proc'[b].home = proc'[a].home
                 PROVE  Apart(a, b)' \/ Apart(b, a)'
    BY DEF Alone, At, Home
  <2>2. CASE a = p
    <3>1. Marked(p, m, h) = {} BY <1>2, <2>1, <2>2 DEF Launched
    <3>2. proc[b].home = h BY <1>2, <2>1, <2>2 DEF Launched
    <3>3. At(b, "serving") /\ m # "pre-uninstall"
      BY <3>1, <3>2 DEF Marked, Home
    <3>4. QED BY <1>2, <2>1, <2>2, <3>3 DEF Launched, Apart, At
  <2>3. CASE b = p
    <3>1. a \notin Marked(p, m, h) BY <1>2, <2>1, <2>3 DEF Launched
    <3>2. proc[a].home = h BY <1>2, <2>1, <2>3 DEF Launched
    <3>3. At(a, "serving") /\ m # "pre-uninstall"
      BY <3>1, <3>2 DEF Marked, Home
    <3>4. QED BY <1>2, <2>1, <2>3, <3>3 DEF Launched, Apart, At
  <2>4. CASE a # p /\ b # p
    <3>1. /\ proc'[a].pc = proc[a].pc /\ proc'[b].pc = proc[b].pc
          /\ proc'[a].mode = proc[a].mode /\ proc'[b].mode = proc[b].mode
          /\ proc'[a].home = proc[a].home /\ proc'[b].home = proc[b].home
          /\ ~proc[a].disturbed
      BY <1>2, <2>1, <2>4 DEF Launched
    <3>2. QED BY <2>1, <3>1 DEF StartupInv, Alone, Apart, At, Home
  <2>5. QED BY <2>2, <2>3, <2>4
<1>11. QED BY <1>4, <1>5, <1>6, <1>7, <1>8, <1>9, <1>10, Assembled

(* A data directory is deleted only while nobody works there.
   (uninstall.sh)                                                          *)
LEMMA PurgeKeeps ==
  ASSUME StartupInv, NEW h \in Homes, Purge(h)
  PROVE  StartupInv'
<1>1. /\ UNCHANGED <<made, profiles, nss, caStore, policy, autostart, port, launches>>
      /\ cert' = [cert EXCEPT ![h] = 0] /\ key' = [key EXCEPT ![h] = 0]
      /\ events < MaxEvents /\ events' = events + 1 /\ proc' = proc
      /\ \A p \in Procs : Home(p) # h
  BY DEF Purge, trustVars
<1>2. TypeOK /\ Placed /\ Alone /\ Entries /\ Listed /\ Known BY DEF StartupInv
<1>3. 0 \in File BY StartupAssumption DEF File
<1>4. TypeOK' BY <1>1, <1>2, <1>3, StartupAssumption DEF TypeOK
<1>5. Placed' BY <1>1, <1>2 DEF Placed
<1>6. Alone' BY <1>1, <1>2 DEF Alone, Apart, At, Home
<1>7. Entries' BY <1>1, <1>2 DEF Entries
<1>8. Listed' BY <1>1, <1>2 DEF Listed, At, Home
<1>9. ASSUME NEW p \in Procs, ~proc[p].disturbed
      PROVE  FilesKnown(p)' /\ TrustKnown(p)' /\ UndoneKnown(p)'
  <2>1. FilesKnown(p) /\ TrustKnown(p) /\ UndoneKnown(p) BY <1>2, <1>9 DEF Known
  <2>2. TrustKnown(p)' /\ UndoneKnown(p)'
    BY <1>1, <2>1 DEF TrustKnown, UndoneKnown, Entered, At, Home
  <2>3. CASE At(p, "idle") BY <1>1, <2>2, <2>3 DEF FilesKnown, At
  <2>4. CASE ~At(p, "idle")
    <3>1. Start(p) BY Starts
    <3>2. Home(p) \in Homes BY <2>4, <3>1, HomeTyped
    <3>3. cert'[Home(p)] = cert[Home(p)] /\ key'[Home(p)] = key[Home(p)]
      BY <1>1, <1>2, <3>2 DEF TypeOK
    <3>4. FilesKnown(p)' BY <1>1, <2>1, <3>3 DEF FilesKnown, At, Home, Whole, IsCert
    <3>5. QED BY <2>2, <3>4
  <2>5. QED BY <2>3, <2>4
<1>10. Known' BY <1>1, <1>9 DEF Known
<1>11. QED BY <1>4, <1>5, <1>6, <1>7, <1>8, <1>10 DEF StartupInv

(* A profile appears, without an entry. (Firefox) *)
LEMMA ProfileKeeps ==
  ASSUME StartupInv, NEW d \in DBs, NewProfile(d)
  PROVE  StartupInv'
<1>1. /\ UNCHANGED <<cert, key, made, nss, caStore, policy, autostart, port, launches>>
      /\ events < MaxEvents /\ events' = events + 1 /\ proc' = proc
      /\ profiles' = profiles \cup {d}
  BY DEF NewProfile, tlsVars
<1>2. TypeOK /\ Placed /\ Alone /\ Entries /\ Listed /\ Known BY DEF StartupInv
<1>3. TypeOK' BY <1>1, <1>2, StartupAssumption DEF TypeOK
<1>4. Placed' BY <1>1, <1>2 DEF Placed
<1>5. Alone' BY <1>1, <1>2 DEF Alone, Apart, At, Home
<1>6. Entries' BY <1>1, <1>2 DEF Entries
<1>7. Listed' BY <1>1, <1>2 DEF Listed, At, Home
<1>8. Known'
  BY <1>1, <1>2 DEF Known, FilesKnown, TrustKnown, UndoneKnown, Entered, At,
     Home, Whole, IsCert
<1>9. QED BY <1>3, <1>4, <1>5, <1>6, <1>7, <1>8 DEF StartupInv

-----------------------------------------------------------------------------
(* At the start nothing runs and nothing is on the disk. (Init) *)
LEMMA InitHolds == Init => StartupInv
<1>1. SUFFICES ASSUME Init PROVE StartupInv OBVIOUS
<1>2. /\ cert = [h \in Homes |-> 0] /\ key = [h \in Homes |-> 0]
      /\ profiles \in SUBSET DBs /\ nss = [d \in DBs |-> 0]
      /\ caStore = 0 /\ policy = FALSE /\ autostart = {}
      /\ port = None /\ made = 0 /\ launches = 0 /\ events = 0
  BY <1>1 DEF Init
<1>3. proc = [p \in Procs |-> Idle] BY <1>1 DEF Init
<1>4. proc \in [Procs -> Process] BY <1>3, IdleTyped
<1>5. \A p \in Procs : /\ proc[p].pc = "idle" /\ proc[p].home = None
                       /\ proc[p].mode = "start" /\ ~proc[p].disturbed
  BY <1>3, IdleFields
<1>6. 0 \in File /\ 0 \in 0..MaxLaunches /\ 0 \in 0..MaxEvents
  BY StartupAssumption DEF File
<1>7. TypeOK BY <1>2, <1>4, <1>6 DEF TypeOK
<1>8. Placed BY <1>5 DEF Placed, StepOK
<1>9. Alone BY <1>5 DEF Alone, At
<1>10. Entries BY <1>2 DEF Entries
<1>11. Listed BY <1>5 DEF Listed, At
<1>12. Known BY <1>5 DEF Known, FilesKnown, TrustKnown, UndoneKnown, At
<1>13. QED BY <1>7, <1>8, <1>9, <1>10, <1>11, <1>12 DEF StartupInv

(* Every step keeps the invariant. (Next) *)
LEMMA InvStep ==
  ASSUME StartupInv, [Next]_vars
  PROVE  StartupInv'
<1>1. CASE \E p \in Procs : StepOf(p) BY <1>1, StepKeeps
<1>2. CASE \E p \in Procs, m \in Modes, h \in Homes : Launch(p, m, h)
  BY <1>2, LaunchKeeps
<1>3. CASE \E h \in Homes : Purge(h) BY <1>3, PurgeKeeps
<1>4. CASE \E d \in DBs : NewProfile(d) BY <1>4, ProfileKeeps
<1>5. CASE UNCHANGED vars
  BY <1>5 DEF vars, tlsVars, trustVars, countVars, StartupInv, TypeOK, Placed,
     Alone, Apart, Entries, Listed, Known, FilesKnown, TrustKnown, UndoneKnown,
     Entered, At, Home, Whole, IsCert
<1>6. QED BY <1>1, <1>2, <1>3, <1>4, <1>5 DEF Next, Machine, StepOf

(* The invariant holds in every behaviour. (Spec) *)
LEMMA Invariance == Spec => []StartupInv
<1>1. Init => StartupInv BY InitHolds
<1>2. StartupInv /\ [Next]_vars => StartupInv' BY InvStep
<1>3. QED BY <1>1, <1>2, PTL DEF Spec

(* A launch that ends does so at one of its last steps. (End) *)
LEMMA EndsThere ==
  ASSUME StartupInv, [Next]_vars, NEW p \in Procs,
         ~At(p, "idle"), proc'[p].pc = "idle"
  PROVE  LastStep(p)
<1>1. CASE StepOf(p) BY <1>1, StepKeeps DEF Moves, Advances
<1>2. ASSUME NEW q \in Procs \ {p}, StepOf(q) PROVE FALSE
  <2>1. Moves(q) BY <1>2, StepKeeps
  <2>2. proc'[p] = proc[p] BY <2>1 DEF Moves, Advances, Loyal, Ends, Others
  <2>3. QED BY <2>2 DEF At
<1>3. ASSUME NEW q \in Procs, NEW m \in Modes, NEW h \in Homes, Launch(q, m, h)
      PROVE  FALSE
  <2>1. Launched(q, m, h) BY <1>3, Starts, LaunchEffect DEF Start
  <2>2. q # p BY <1>3 DEF Launch
  <2>3. QED BY <2>1, <2>2 DEF Launched, At
<1>4. CASE UNCHANGED proc BY <1>4 DEF At
<1>5. (\E h \in Homes : Purge(h)) \/ (\E d \in DBs : NewProfile(d)) \/ UNCHANGED vars
      => UNCHANGED proc
  BY DEF Purge, NewProfile, vars
<1>6. QED BY <1>1, <1>2, <1>3, <1>4, <1>5 DEF Next, Machine, StepOf

(* Every variable of the launches keeps its type. (Launch, End, Goto) *)
THEOREM StartupTypeCorrect == Spec => []TypeOK
<1>1. StartupInv => TypeOK BY DEF StartupInv
<1>2. QED BY <1>1, Invariance, PTL

(* A lone launch replaces only what is not a whole pair: it generates because
   a file was missing, or because the two it has loaded did not match.
   (EnsureTLSCert)                                                         *)
THEOREM WholePairAlwaysKept == Spec => []WholePairKept
<1>1. StartupInv => WholePairKept
  BY DEF StartupInv, Known, FilesKnown, WholePairKept
<1>2. QED BY <1>1, Invariance, PTL

(* What a lone bridge serves is in every database that had no entry when it
   started: while it is at work nobody else makes an entry of its account or
   replaces its certificate, and no later start replaces the entry it made.
   (EnsureUserTrust)                                                       *)
THEOREM NewTrustIsAlwaysServed == Spec => []NewTrustIsServed
<1>1. StartupInv => NewTrustIsServed
  BY DEF StartupInv, Known, TrustKnown, Entered, At, NewTrustIsServed
<1>2. QED BY <1>1, Invariance, PTL

(* A lone launch never fails over its own certificate files: what it reads
   back at the end is the pair that it has just written.
   (generateSelfSignedCert)                                                *)
THEOREM LoneLaunchAlwaysGetsCert == Spec => LoneLaunchGetsCert
<1>1. ASSUME StartupInv, [Next]_vars, NEW p \in Procs,
             proc[p].pc \in Rewriting \cup {"stat", "loadkey", "reload"},
             proc'[p].pc = "idle", events' = events
      PROVE  proc[p].disturbed
  <2>1. ~At(p, "idle") BY <1>1 DEF At, Rewriting
  <2>2. LastStep(p) BY <1>1, <2>1, EndsThere
  <2>3. At(p, "reload") /\ ~Whole(Home(p))
    BY <1>1, <2>2 DEF LastStep, At, Rewriting
  <2>4. QED BY <1>1, <2>3 DEF StartupInv, Known, FilesKnown
<1>2. StartupInv /\ [Next]_vars =>
        [\A p \in Procs :
            /\ proc[p].pc \in Rewriting \cup {"stat", "loadkey", "reload"}
            /\ proc'[p].pc = "idle" /\ events' = events
            => proc[p].disturbed]_vars
  BY <1>1
<1>3. QED BY <1>2, Invariance, PTL DEF Spec, LoneLaunchGetsCert

(* A lone uninstall that meets no fault leaves no trust and no autostart
   entry of its account: the databases it lists are all that can hold one.
   (PreUninstall)                                                          *)
THEOREM UninstallAlwaysUndoes == Spec => UninstallUndoes
<1>1. ASSUME StartupInv, [Next]_vars, NEW p \in Procs,
             proc[p].mode = "pre-uninstall", ~proc[p].disturbed,
             ~At(p, "idle"), proc'[p].pc = "idle", events' = events
      PROVE  /\ Home(p) \notin autostart'
             /\ \A d \in DBsOf(Home(p)) : nss'[d] = 0
             /\ Home(p) = Root => caStore' = 0 /\ ~policy'
  <2>1. LastStep(p) BY <1>1, EndsThere
  <2>2. Start(p) BY <1>1, Starts
  <2>3. UndoneKnown(p) BY <1>1 DEF StartupInv, Known
  <2>4. proc[p].pc \in {"unstart", "uncastore", "unpolicy", "unlistdbs", "untrust"}
    BY <1>1, <2>2 DEF Start, StepOK
  <2>5. CASE At(p, "unpolicy") /\ ~policy' /\ caStore' = caStore
             /\ UNCHANGED <<nss, autostart>>
    <3>1. Home(p) = Root BY <2>2, <2>5 DEF Start, StepOK, At, Home
    <3>2. DBsOf(Home(p)) = {} BY <3>1, StartupAssumption DEF DBsOf
    <3>3. QED BY <2>3, <2>5, <3>2 DEF UndoneKnown, At
  <2>6. CASE At(p, "untrust") /\ proc[p].todo = {} /\ UNCHANGED <<nss, autostart>>
    <3>1. Home(p) # Root BY <2>2, <2>6 DEF Start, StepOK, At, Home
    <3>2. QED BY <2>3, <2>6, <3>1 DEF UndoneKnown, At
  <2>7. QED BY <1>1, <2>1, <2>4, <2>5, <2>6 DEF LastStep, At
<1>2. StartupInv /\ [Next]_vars =>
        [\A p \in Procs :
            /\ proc[p].mode = "pre-uninstall" /\ ~proc[p].disturbed
            /\ ~At(p, "idle") /\ proc'[p].pc = "idle" /\ events' = events
            => /\ Home(p) \notin autostart'
               /\ \A d \in DBsOf(Home(p)) : nss'[d] = 0
               /\ Home(p) = Root => caStore' = 0 /\ ~policy']_vars
  BY <1>1
<1>3. QED BY <1>2, Invariance, PTL DEF Spec, UninstallUndoes
=============================================================================

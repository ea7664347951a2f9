---------------------------- MODULE DriverProofs ----------------------------
(***************************************************************************)
(* NewPKCS11Handler goes through its list of paths, the user's and then    *)
(* the built-in ones; Loaded is that loop as a recursive function.  What   *)
(* it computes for a list of any length is shown here by induction on the  *)
(* paths gone through, and from that what a running bridge has loaded.     *)
(*                                                                         *)
(* The library's induction theorems take a predicate as an argument, which *)
(* the provers cannot instantiate.  Induction is therefore stated of a     *)
(* set of numbers; it follows from the least-element principle, WFMin.     *)
(***************************************************************************)
EXTENDS StartupProofs, FiniteSetTheorems

(* A set of natural numbers that is not empty has a least member. *)
LEMMA LeastNumber ==
    ASSUME NEW T \in SUBSET Nat, T # {}
    PROVE  \E x \in T : \A y \in T : x <= y
<1> DEFINE R == OpToRel(<, Nat)
<1>1. IsWellFoundedOn(R, Nat)
  BY NatLessThanWellFounded
<1>2. T \subseteq Nat
  OBVIOUS
<1>3. \A x, y \in Nat : <<y, x>> \in R <=> y < x
  BY DEF OpToRel
<1> HIDE DEF R
<1>4. \E x \in T : \A y \in T : <<y, x>> \notin R
  BY <1>1, <1>2, WFMin
<1>5. PICK x \in T : \A y \in T : <<y, x>> \notin R
  BY <1>4
<1>6. \A y \in T : x <= y
  <2> SUFFICES ASSUME NEW y \in T PROVE x <= y
    OBVIOUS
  <2>1. x \in Nat /\ y \in Nat /\ ~(y < x)
    BY <1>2, <1>3, <1>5
  <2> QED BY <2>1
<1> QED BY <1>6

(* Induction: a set with 0 that is closed under +1 has every number. *)
LEMMA SetInduction ==
    ASSUME NEW S, 0 \in S, \A n \in Nat : n \in S => n + 1 \in S
    PROVE  \A n \in Nat : n \in S
<1> SUFFICES ASSUME Nat \ S # {} PROVE FALSE
  OBVIOUS
<1>1. PICK x \in Nat \ S : \A y \in Nat \ S : x <= y
  BY LeastNumber
<1>2. x # 0 /\ x - 1 \in Nat /\ (x - 1) + 1 = x
  BY <1>1
<1>3. x - 1 \in S
  BY <1>1, <1>2
<1> QED BY <1>1, <1>2, <1>3
-----------------------------------------------------------------------------
(* One round of the loop in NewPKCS11Handler, with the contexts ctxs so far. *)
Loads(ctxs, l) ==
    /\ l \in Present /\ FileOf[l] \notin Broken
    /\ \A j \in 1..Len(ctxs) : FileOf[ctxs[j]] # FileOf[l]

(* The equation of the function that Loaded defines: after[i] is the list of
   contexts after i paths.                                                 *)
Rounds(paths, after) ==
    [i \in 0..Len(paths) |->
        IF i = 0 THEN <<>>
        ELSE IF /\ paths[i] \in Present /\ FileOf[paths[i]] \notin Broken
                /\ \A j \in 1..Len(after[i - 1]) :
                      FileOf[after[i - 1][j]] # FileOf[paths[i]]
        THEN Append(after[i - 1], paths[i]) ELSE after[i - 1]]

(* The same for the first n rounds. *)
Starting(paths, n, after) ==
    /\ DOMAIN after = 0..n /\ after = [i \in 0..n |-> after[i]]
    /\ after[0] = <<>>
    /\ \A i \in 1..n :
          after[i] = IF Loads(after[i - 1], paths[i])
                     THEN Append(after[i - 1], paths[i]) ELSE after[i - 1]

(* There is such a function, for as many rounds as one likes, ... *)
LEMMA RoundsExist ==
    ASSUME NEW paths, NEW n \in Nat
    PROVE  \E after : Starting(paths, n, after)
<1> DEFINE S == {k \in Nat : \E after : Starting(paths, k, after)}
<1>1. 0 \in S
  <2> DEFINE f == [i \in 0..0 |-> <<>>]
  <2>1. Starting(paths, 0, f)
    BY DEF Starting
  <2> QED BY <2>1
<1>2. ASSUME NEW k \in Nat, k \in S PROVE k + 1 \in S
  <2>1. PICK f : Starting(paths, k, f)
    BY <1>2
  <2> DEFINE last == IF Loads(f[k], paths[k + 1])
                     THEN Append(f[k], paths[k + 1]) ELSE f[k]
             g == [i \in 0..(k + 1) |-> IF i = k + 1 THEN last ELSE f[i]]
  <2> HIDE DEF last
  <2>2. DOMAIN g = 0..(k + 1) /\ g = [i \in 0..(k + 1) |-> g[i]]
    OBVIOUS
  <2>3. \A i \in 0..k : g[i] = f[i]
    OBVIOUS
  <2>4. g[0] = <<>>
    BY <2>1, <2>3 DEF Starting
  <2>5. g[k + 1] = last
    OBVIOUS
  <2> HIDE DEF g
  <2>6. ASSUME NEW i \in 1..(k + 1)
        PROVE  g[i] = IF Loads(g[i - 1], paths[i])
                      THEN Append(g[i - 1], paths[i]) ELSE g[i - 1]
    <3>1. i - 1 \in 0..k /\ g[i - 1] = f[i - 1]
      BY <2>3
    <3>2. CASE i = k + 1
      BY <3>1, <3>2, <2>5 DEF last
    <3>3. CASE i # k + 1
      <4>1. i \in 1..k /\ g[i] = f[i]
        BY <3>3, <2>3
      <4> QED BY <2>1, <3>1, <4>1 DEF Starting
    <3> QED BY <3>2, <3>3
  <2>7. Starting(paths, k + 1, g)
    BY <2>2, <2>4, <2>6 DEF Starting
  <2> QED BY <2>7
<1> HIDE DEF S
<1>3. n \in S
  BY <1>1, <1>2, SetInduction
<1> QED BY <1>3 DEF S

(* ... and Loaded is the last value of one. *)
LEMMA LoadedIsLast ==
    ASSUME NEW paths \in Seq(Libraries)
    PROVE  \E after : /\ Starting(paths, Len(paths), after)
                      /\ Loaded(paths) = after[Len(paths)]
<1> DEFINE chosen == CHOOSE after : after = Rounds(paths, after)
<1>1. Loaded(paths) = chosen[Len(paths)]
  BY DEF Loaded, Rounds
<1>2. \E after : after = Rounds(paths, after)
  <2>1. Len(paths) \in Nat
    OBVIOUS
  <2>2. PICK f : Starting(paths, Len(paths), f)
    BY <2>1, RoundsExist
  <2>3. f = Rounds(paths, f)
    <3>1. \A i \in 0..Len(paths) : i # 0 => i \in 1..Len(paths)
      BY <2>1
    <3> QED BY <2>1, <2>2, <3>1 DEF Starting, Rounds, Loads
  <2> QED BY <2>3
<1>3. chosen = Rounds(paths, chosen)
  BY <1>2
<1> HIDE DEF chosen
<1>4. Len(paths) \in Nat
  OBVIOUS
<1>5. Starting(paths, Len(paths), chosen)
  <2>1. DOMAIN chosen = 0..Len(paths)
    BY <1>3 DEF Rounds
  <2>2. chosen = [i \in 0..Len(paths) |-> chosen[i]]
    BY <1>3 DEF Rounds
  <2>3. chosen[0] = <<>>
    BY <1>3, <1>4 DEF Rounds
  <2>4. ASSUME NEW i \in 1..Len(paths)
        PROVE  chosen[i] = IF Loads(chosen[i - 1], paths[i])
                           THEN Append(chosen[i - 1], paths[i])
                           ELSE chosen[i - 1]
    <3>1. i \in 0..Len(paths) /\ i # 0
      BY <1>4
    <3>2. chosen[i] = Rounds(paths, chosen)[i]
      BY <1>3
    <3> QED BY <3>1, <3>2 DEF Rounds, Loads
  <2> QED BY <2>1, <2>2, <2>3, <2>4 DEF Starting
<1> QED BY <1>1, <1>5
-----------------------------------------------------------------------------
(* What the first n rounds have collected: contexts of files that work, the
   path of each the first in the list that leads to its file, no file twice,
   and no working file left out.                                           *)
FirstWith(paths, n, l) ==
    \E k \in 1..n : /\ l = paths[k]
                    /\ \A m \in 1..(k - 1) :
                         paths[m] \in Present => FileOf[paths[m]] # FileOf[l]
Sound(paths, n, ctxs) ==
    \A j \in 1..Len(ctxs) : FileOf[ctxs[j]] \notin Broken /\ FirstWith(paths, n, ctxs[j])
Distinct(ctxs) ==
    \A j, k \in 1..Len(ctxs) : FileOf[ctxs[j]] = FileOf[ctxs[k]] => j = k
Full(paths, n, ctxs) ==
    \A k \in 1..n : paths[k] \in Present =>
        \/ FileOf[paths[k]] \in Broken
        \/ \E j \in 1..Len(ctxs) : FileOf[ctxs[j]] = FileOf[paths[k]]
Collected(paths, n, ctxs) ==
    /\ ctxs \in Seq(Libraries)
    /\ Sound(paths, n, ctxs) /\ Distinct(ctxs) /\ Full(paths, n, ctxs)

(* A path that was the first with its file stays so in a later round. *)
LEMMA FirstStays ==
    ASSUME NEW paths, NEW n \in Nat, NEW l, FirstWith(paths, n, l)
    PROVE  FirstWith(paths, n + 1, l)
BY DEF FirstWith

(* A path that is loaded is the first with its file, because every earlier
   one with it would have been.                                            *)
LEMMA LoadedRound ==
    ASSUME NEW paths \in Seq(Libraries), NEW n \in Nat, n + 1 <= Len(paths),
           NEW ctxs, Collected(paths, n, ctxs), Loads(ctxs, paths[n + 1])
    PROVE  Collected(paths, n + 1, Append(ctxs, paths[n + 1]))
<1> DEFINE l == paths[n + 1]
           more == Append(ctxs, l)
<1>1. l \in Libraries /\ ctxs \in Seq(Libraries) /\ Len(ctxs) \in Nat
  BY DEF Collected
<1>2. /\ more \in Seq(Libraries) /\ Len(more) = Len(ctxs) + 1
      /\ more[Len(ctxs) + 1] = l
      /\ \A j \in 1..Len(ctxs) : more[j] = ctxs[j]
  BY <1>1
<1>3. FirstWith(paths, n + 1, l)
  <2>1. ASSUME NEW m \in 1..n, paths[m] \in Present
        PROVE  FileOf[paths[m]] # FileOf[l]
    BY <2>1 DEF Collected, Full, Loads
  <2>2. n + 1 \in 1..(n + 1) /\ (n + 1) - 1 = n
    OBVIOUS
  <2> QED BY <2>1, <2>2 DEF FirstWith
<1>4. \A j \in 1..Len(ctxs) : FileOf[ctxs[j]] # FileOf[l]
  BY DEF Loads
<1>5. FileOf[l] \notin Broken
  BY DEF Loads
<1> HIDE DEF more, l
<1>6. Sound(paths, n + 1, more)
  <2> SUFFICES ASSUME NEW j \in 1..Len(more)
               PROVE  FileOf[more[j]] \notin Broken /\ FirstWith(paths, n + 1, more[j])
    BY DEF Sound
  <2>1. CASE j = Len(ctxs) + 1
    BY <2>1, <1>2, <1>3, <1>5
  <2>2. CASE j # Len(ctxs) + 1
    <3>1. j \in 1..Len(ctxs) /\ more[j] = ctxs[j]
      BY <2>2, <1>1, <1>2
    <3>2. FileOf[ctxs[j]] \notin Broken /\ FirstWith(paths, n, ctxs[j])
      BY <3>1 DEF Collected, Sound
    <3> QED BY <3>1, <3>2, FirstStays
  <2> QED BY <2>1, <2>2
<1>7. Distinct(more)
  <2> SUFFICES ASSUME NEW j \in 1..Len(more), NEW k \in 1..Len(more),
                      FileOf[more[j]] = FileOf[more[k]]
               PROVE  j = k
    BY DEF Distinct
  <2>1. \A i \in 1..Len(more) : i \in 1..Len(ctxs) \/ i = Len(ctxs) + 1
    BY <1>1, <1>2
  <2> QED BY <2>1, <1>2, <1>4 DEF Collected, Distinct
<1>8. Full(paths, n + 1, more)
  <2> SUFFICES ASSUME NEW k \in 1..(n + 1), paths[k] \in Present,
                      FileOf[paths[k]] \notin Broken
               PROVE  \E j \in 1..Len(more) : FileOf[more[j]] = FileOf[paths[k]]
    BY DEF Full
  <2>1. CASE k = n + 1
    <3>1. Len(ctxs) + 1 \in 1..Len(more)
      BY <1>1, <1>2
    <3> QED BY <2>1, <3>1, <1>2 DEF l
  <2>2. CASE k # n + 1
    <3>1. PICK j \in 1..Len(ctxs) : FileOf[ctxs[j]] = FileOf[paths[k]]
      BY <2>2 DEF Collected, Full
    <3>2. j \in 1..Len(more) /\ more[j] = ctxs[j]
      BY <1>1, <1>2
    <3> QED BY <3>1, <3>2
  <2> QED BY <2>1, <2>2
<1>9. Collected(paths, n + 1, more)
  BY <1>2, <1>6, <1>7, <1>8 DEF Collected
<1> QED BY <1>9 DEF more, l

(* A path that is not loaded is absent, broken, or of a file already there. *)
LEMMA SkippedRound ==
    ASSUME NEW paths \in Seq(Libraries), NEW n \in Nat, n + 1 <= Len(paths),
           NEW ctxs, Collected(paths, n, ctxs), ~Loads(ctxs, paths[n + 1])
    PROVE  Collected(paths, n + 1, ctxs)
<1>1. Sound(paths, n + 1, ctxs)
  BY FirstStays DEF Collected, Sound
<1>2. Full(paths, n + 1, ctxs)
  <2> SUFFICES ASSUME NEW k \in 1..(n + 1), paths[k] \in Present,
                      FileOf[paths[k]] \notin Broken
               PROVE  \E j \in 1..Len(ctxs) : FileOf[ctxs[j]] = FileOf[paths[k]]
    BY DEF Full
  <2>1. CASE k = n + 1
    BY <2>1 DEF Loads
  <2>2. CASE k # n + 1
    BY <2>2 DEF Collected, Full
  <2> QED BY <2>1, <2>2
<1> QED BY <1>1, <1>2 DEF Collected

(* What Loaded computes, for a list of paths of any length. *)
LEMMA LoadedCollects ==
    ASSUME NEW paths \in Seq(Libraries)
    PROVE  Collected(paths, Len(paths), Loaded(paths))
<1>1. PICK after : /\ Starting(paths, Len(paths), after)
                   /\ Loaded(paths) = after[Len(paths)]
  BY LoadedIsLast
<1>2. Len(paths) \in Nat
  OBVIOUS
<1> DEFINE S == {n \in Nat : n <= Len(paths) => Collected(paths, n, after[n])}
<1>3. 0 \in S
  <2>1. after[0] = <<>>
    BY <1>1 DEF Starting
  <2>2. Collected(paths, 0, <<>>)
    BY DEF Collected, Sound, Distinct, Full
  <2> QED BY <2>1, <2>2
<1>4. ASSUME NEW n \in Nat, n \in S PROVE n + 1 \in S
  <2> SUFFICES ASSUME n + 1 <= Len(paths)
               PROVE  Collected(paths, n + 1, after[n + 1])
    OBVIOUS
  <2>1. Collected(paths, n, after[n])
    BY <1>2, <1>4
  <2>2. after[n + 1] = IF Loads(after[n], paths[n + 1])
                       THEN Append(after[n], paths[n + 1]) ELSE after[n]
    <3>1. n + 1 \in 1..Len(paths) /\ (n + 1) - 1 = n
      BY <1>2
    <3> QED BY <1>1, <3>1 DEF Starting
  <2>3. CASE Loads(after[n], paths[n + 1])
    BY <2>1, <2>2, <2>3, LoadedRound
  <2>4. CASE ~Loads(after[n], paths[n + 1])
    BY <2>1, <2>2, <2>4, SkippedRound
  <2> QED BY <2>3, <2>4
<1> HIDE DEF S
<1>5. Len(paths) \in S
  BY <1>2, <1>3, <1>4, SetInduction
<1> QED BY <1>1, <1>2, <1>5 DEF S
-----------------------------------------------------------------------------
(* What EveryDriverOnce says of one bridge, with the paths of its
   configuration file and the contexts it has.                             *)
FilesOf(libs) == {FileOf[libs[i]] : i \in 1..Len(libs)}
EveryOnce(paths, libs) ==
    LET wanted == {paths[i] : i \in 1..Len(paths)}
    IN /\ \A i \in 1..Len(PKCS11Libs(paths)) :
             LET l == PKCS11Libs(paths)[i]
             IN l \in Present => FileOf[l] \in FilesOf(libs) \cup Broken
       /\ Cardinality(FilesOf(libs)) = Len(libs)
       /\ \A l \in wanted, j \in 1..Len(libs) :
             l \in Present /\ FileOf[l] = FileOf[libs[j]] => libs[j] \in wanted

(* A list of contexts with no file twice has as many files as contexts. *)
LEMMA DistinctFiles ==
    ASSUME NEW libs \in Seq(Libraries), Distinct(libs)
    PROVE  Cardinality(FilesOf(libs)) = Len(libs)
<1>1. Len(libs) \in Nat
  OBVIOUS
<1> DEFINE f == [j \in 1..Len(libs) |-> FileOf[libs[j]]]
<1>2. f \in [1..Len(libs) -> FilesOf(libs)]
  BY DEF FilesOf
<1>3. f \in Injection(1..Len(libs), FilesOf(libs))
  BY <1>2 DEF Injection, IsInjective, Distinct
<1>4. f \in Surjection(1..Len(libs), FilesOf(libs))
  BY <1>2 DEF Surjection, FilesOf
<1>5. ExistsBijection(1..Len(libs), FilesOf(libs))
  BY <1>3, <1>4 DEF ExistsBijection, Bijection
<1> QED BY <1>1, <1>5, FS_CountingElements

(* What NewPKCS11Handler loads is every driver once, and under a path of the
   configuration file where there is one, because those come first in the
   list. (LoadConfig, NewPKCS11Handler)                                    *)
LEMMA LoadedEveryOnce ==
    ASSUME NEW paths \in Configs
    PROVE  EveryOnce(paths, Loaded(PKCS11Libs(paths)))
<1> DEFINE all == PKCS11Libs(paths)
           libs == Loaded(all)
           wanted == {paths[i] : i \in 1..Len(paths)}
<1>1. paths \in Seq(Libraries) /\ DefaultPKCS11Paths \in Seq(Libraries)
  BY StartupAssumption
<1>2. /\ all \in Seq(Libraries) /\ Len(paths) \in Nat /\ Len(all) \in Nat
      /\ Len(paths) <= Len(all)
      /\ \A i \in 1..Len(paths) : all[i] = paths[i]
  BY <1>1 DEF PKCS11Libs
<1> HIDE DEF all
<1>3. Collected(all, Len(all), libs)
  BY <1>2, LoadedCollects
<1> HIDE DEF libs
<1>4. ASSUME NEW i \in 1..Len(all), all[i] \in Present
      PROVE  FileOf[all[i]] \in FilesOf(libs) \cup Broken
  BY <1>3, <1>4 DEF Collected, Full, FilesOf
<1>5. Cardinality(FilesOf(libs)) = Len(libs)
  BY <1>3, DistinctFiles DEF Collected
<1>6. ASSUME NEW m \in 1..Len(paths), NEW j \in 1..Len(libs),
             paths[m] \in Present, FileOf[paths[m]] = FileOf[libs[j]]
      PROVE  libs[j] \in wanted
  <2>1. PICK k \in 1..Len(all) :
          /\ libs[j] = all[k]
          /\ \A n \in 1..(k - 1) :
               all[n] \in Present => FileOf[all[n]] # FileOf[libs[j]]
    BY <1>3 DEF Collected, Sound, FirstWith
  <2>2. all[m] = paths[m]
    BY <1>2
  <2>3. m \notin 1..(k - 1)
    BY <1>6, <2>1, <2>2
  <2>4. k \in 1..Len(paths)
    BY <1>2, <2>3
  <2> QED BY <1>2, <2>1, <2>4
<1> QED BY <1>4, <1>5, <1>6 DEF EveryOnce, all, libs
-----------------------------------------------------------------------------
(* What a bridge has loaded stays what NewPKCS11Handler computed. *)
LibsKnown(r) ==
    r.pc \in {"listen", "serving"} =>
        r.paths \in Configs /\ r.libs = Loaded(PKCS11Libs(r.paths))
DriversInv == \A p \in Procs : LibsKnown(proc[p])

(* The handler is built. (NewPKCS11Handler) *)
LEMMA HandlerKnown ==
    ASSUME NEW p \in Procs, proc \in [Procs -> Process], NewPKCS11Handler(p)
    PROVE  LibsKnown(proc'[p])
<1>1. PICK paths \in Configs :
        proc' = [proc EXCEPT ![p].paths = paths,
                             ![p].libs = Loaded(PKCS11Libs(paths)),
                             ![p].pc = "listen"]
  BY DEF NewPKCS11Handler
<1> DEFINE libs == Loaded(PKCS11Libs(paths))
           r == [proc[p] EXCEPT !.paths = paths, !.libs = libs, !.pc = "listen"]
<1> HIDE DEF libs
<1>2. proc[p] \in Process
  OBVIOUS
<1>3. r.paths = paths /\ r.libs = libs
  BY <1>2 DEF Process
<1>4. proc'[p] = r
  BY <1>1 DEF libs
<1> QED BY <1>3, <1>4 DEF LibsKnown, libs

(* The server keeps its handler. (StartServer) *)
LEMMA ServerKnown ==
    ASSUME NEW p \in Procs, proc \in [Procs -> Process], LibsKnown(proc[p]),
           At(p, "listen"), Goto(p, "serving")
    PROVE  LibsKnown(proc'[p])
<1> DEFINE r == [proc[p] EXCEPT !.pc = "serving"]
<1>1. proc[p] \in Process
  OBVIOUS
<1>2. r.paths = proc[p].paths /\ r.libs = proc[p].libs
  BY <1>1 DEF Process
<1>3. proc'[p] = r
  BY DEF Goto
<1> QED BY <1>2, <1>3 DEF LibsKnown, At

Away(p) == proc'[p].pc \notin {"listen", "serving"}

(* A launch that ends has no handler. (End) *)
LEMMA EndAway ==
    ASSUME NEW p \in Procs, proc \in [Procs -> Process], End(p)
    PROVE  Away(p)
BY EndEffect, IdleFields DEF Ends, Away

(* Only NewPKCS11Handler and StartServer lead to where the handler is there:
   the certificate ... (EnsureTLSCert)                                     *)
LEMMA TLSAway ==
    ASSUME NEW p \in Procs, Start(p), EnsureTLSCert(p)
    PROVE  Away(p)
<1>1. proc \in [Procs -> Process]
  BY DEF Start
<1>2. ASSUME NEW s \in Steps \ {"listen", "serving"}, Goto(p, s) PROVE Away(p)
  BY <1>1, <1>2, GotoEffect DEF Away
<1>3. AfterTLS(p) \in Steps \ {"listen", "serving"}
  BY DEF AfterTLS, Steps
<1>4. {"loadkey", "generate", "fillcert", "openkey", "fillkey", "reload"}
        \subseteq Steps \ {"listen", "serving"}
  BY DEF Steps, Rewriting
<1>5. RestTyped /\ (At(p, "stat") \/ At(p, "reload") => Home(p) \in Homes)
  BY HomeTyped DEF Start, At
<1>6. CASE FindPair(p)
  <2>1. CASE Goto(p, "generate")
    BY <1>2, <1>4, <2>1
  <2>2. CASE proc' = [proc EXCEPT ![p].mine = cert[Home(p)], ![p].pc = "loadkey"]
    <3>1. cert[Home(p)] \in File
      BY <1>5, <1>6 DEF RestTyped, FindPair
    <3>2. "loadkey" \in Steps
      BY DEF Steps
    <3>3. proc'[p].pc = "loadkey"
      BY <1>1, <2>2, <3>1, <3>2, MineEffect
    <3> QED BY <3>3 DEF Away
  <2> QED BY <1>6, <2>1, <2>2 DEF FindPair
<1>7. CASE LoadPair(p)
  BY <1>2, <1>3, <1>4, <1>7 DEF LoadPair
<1>8. CASE OpenCert(p) \/ OpenKey(p) \/ FillKey(p)
  BY <1>2, <1>4, <1>8 DEF OpenCert, OpenKey, FillKey
<1>9. CASE FillCert(p)
  <2>1. made' \in File
    BY <1>5, <1>9, StartupAssumption DEF RestTyped, FillCert, File
  <2>2. PICK c \in File : proc' = [proc EXCEPT ![p].new = c, ![p].pc = "openkey"]
    BY <1>9, <2>1 DEF FillCert
  <2>3. "openkey" \in Steps
    BY DEF Steps, Rewriting
  <2>4. proc'[p].pc = "openkey"
    BY <1>1, <2>2, <2>3, NewEffect
  <2> QED BY <2>4 DEF Away
<1>10. CASE Reload(p)
  <2>1. CASE End(p)
    BY <1>1, <2>1, EndAway
  <2>2. CASE Reloads(p, cert[Home(p)], 0, AfterTLS(p))
    <3>1. cert[Home(p)] \in File /\ 0 \in File
      BY <1>5, <1>10, StartupAssumption DEF RestTyped, Reload, File
    <3> QED BY <1>1, <1>3, <2>2, <3>1, ReloadEffect DEF Away
  <2> QED BY <1>10, <2>1, <2>2 DEF Reload, Reloads
<1> QED BY <1>6, <1>7, <1>8, <1>9, <1>10 DEF EnsureTLSCert

(* ... the trust of a user, ... (EnsureUserTrust, removeUserTrust) *)
LEMMA TrustAway ==
    ASSUME NEW p \in Procs, Start(p),
           \/ EnsureUserTrust(p) \/ removeUserTrust(p) \/ UserTrustEnsured(p)
           \/ \E d \in DBs : nssAddCert(p, d) \/ certutilDelete(p, d)
    PROVE  Away(p)
<1>1. proc \in [Procs -> Process] /\ proc[p] \in Process /\ RestTyped
  BY DEF Start
<1>2. CASE EnsureUserTrust(p) \/ removeUserTrust(p)
  <2>1. PICK s \in {"certutil", "untrust"} : userNSSDatabases(p, s)
    BY <1>2 DEF EnsureUserTrust, removeUserTrust
  <2>2. s \in Steps
    BY DEF Steps
  <2> DEFINE t == DBsOf(Home(p)) \cap profiles'
  <2>3. t \in SUBSET DBs
    BY DEF DBsOf
  <2>4. Lists(p, t, s)
    BY <2>1 DEF userNSSDatabases, Lists
  <2> HIDE DEF t
  <2> QED BY <1>1, <2>2, <2>3, <2>4, TodoEffect DEF Away
<1>3. CASE UserTrustEnsured(p)
  <2>1. AfterTrust(p) \in Steps \ {"listen", "serving"}
    BY DEF AfterTrust, Steps
  <2> QED BY <1>1, <1>3, <2>1, GotoEffect DEF UserTrustEnsured, Away
<1>4. CASE \E d \in DBs : nssAddCert(p, d) \/ certutilDelete(p, d)
  <2>1. PICK d \in DBs : nssAddCert(p, d) \/ certutilDelete(p, d)
    BY <1>4
  <2>2. /\ At(p, "certutil") \/ At(p, "untrust")
        /\ proc' = [proc EXCEPT ![p].todo = @ \ {d}]
    BY <2>1 DEF nssAddCert, certutilDelete
  <2>3. proc[p].todo \ {d} \in SUBSET DBs
    BY <1>1, Fields
  <2> QED BY <1>1, <2>2, <2>3, DoneEffect DEF Away, At
<1> QED BY <1>2, <1>3, <1>4

(* ... the rest of the hooks, the configuration and the keystore, ...
   (PostInstall, PreUninstall, LoadConfig, NewKeystore)                    *)
LEMMA HooksAway ==
    ASSUME NEW p \in Procs, Start(p),
           \/ PostInstall(p) \/ removeAutostart(p) \/ removeCertSystemStore(p)
           \/ removeFirefoxSystemPolicy(p) \/ UserTrustRemoved(p)
           \/ LoadConfig(p) \/ NewKeystore(p) \/ Stop(p) \/ Kill(p)
    PROVE  Away(p)
<1>1. proc \in [Procs -> Process]
  BY DEF Start
<1>2. ASSUME NEW s \in Steps \ {"listen", "serving"}, Goto(p, s) PROVE Away(p)
  BY <1>1, <1>2, GotoEffect DEF Away
<1>3. {"policy", "autostart", "unpolicy", "stat", "drivers"}
        \subseteq Steps \ {"listen", "serving"}
  BY DEF Steps
<1>4. Untrust(p) \in Steps \ {"listen", "serving"}
  BY DEF Untrust, Steps
<1>5. \/ End(p) \/ Goto(p, Untrust(p))
      \/ \E s \in {"policy", "autostart", "unpolicy", "stat", "drivers"} : Goto(p, s)
  BY DEF PostInstall, installCertSystemStore, installFirefoxSystemPolicy,
     installAutostart, removeAutostart, removeCertSystemStore,
     removeFirefoxSystemPolicy, UserTrustRemoved, LoadConfig, NewKeystore,
     Stop, Kill
<1> QED BY <1>1, <1>2, <1>3, <1>4, <1>5, EndAway

(* ... and the faults. (generateSelfSignedCert, PostInstall, PreUninstall) *)
LEMMA FaultAway ==
    ASSUME NEW p \in Procs, Start(p), TLSFault(p) \/ ToolFault(p)
    PROVE  Away(p)
<1>1. proc \in [Procs -> Process] /\ proc[p] \in Process
  BY DEF Start
<1>2. ASSUME NEW s \in Steps \ {"listen", "serving"},
             proc' = [proc EXCEPT ![p].disturbed = TRUE, ![p].pc = s]
      PROVE  Away(p)
  BY <1>1, <1>2, FaultEffect DEF Away
<1>3. CASE TLSFault(p)
  <2> DEFINE s == IF proc[p].pc = "fillcert" THEN "openkey" ELSE "reload"
  <2>1. s \in Steps \ {"listen", "serving"}
    BY DEF Steps, Rewriting
  <2>2. End(p) \/ proc' = [proc EXCEPT ![p].disturbed = TRUE, ![p].pc = s]
    BY <1>3 DEF TLSFault
  <2> HIDE DEF s
  <2> QED BY <1>1, <1>2, <2>1, <2>2, EndAway
<1>4. CASE ToolFault(p)
  <2>1. AfterFault(p) \in Steps \ {"listen", "serving"}
    BY DEF AfterFault, AfterTrust, Untrust, Steps
  <2>2. CASE proc' = [proc EXCEPT ![p].disturbed = TRUE, ![p].pc = AfterFault(p)]
    BY <1>2, <2>1, <2>2
  <2>3. ASSUME At(p, "certutil") \/ At(p, "untrust"), NEW d \in proc[p].todo,
               proc' = [proc EXCEPT ![p].disturbed = TRUE, ![p].todo = @ \ {d}]
        PROVE  Away(p)
    <3>1. proc[p].todo \ {d} \in SUBSET DBs
      BY <1>1, Fields
    <3> QED BY <1>1, <2>3, <3>1, SkipEffect DEF Away, At
  <2>4. CASE End(p)
    BY <1>1, <2>4, EndAway
  <2> QED BY <1>4, <2>2, <2>3, <2>4 DEF ToolFault
<1> QED BY <1>3, <1>4

(* A step of a launch keeps what it knows of its drivers. (main) *)
LEMMA StepKnown ==
    ASSUME StartupInv, NEW p \in Procs, LibsKnown(proc[p]), StepOf(p)
    PROVE  LibsKnown(proc'[p])
<1>1. Start(p) /\ proc \in [Procs -> Process]
  BY Starts DEF Start
<1>2. Away(p) => LibsKnown(proc'[p])
  BY DEF Away, LibsKnown
<1>3. CASE NewPKCS11Handler(p)
  BY <1>1, <1>3, HandlerKnown
<1>4. CASE StartServer(p)
  <2>1. At(p, "listen") /\ (Goto(p, "serving") \/ End(p))
    BY <1>4 DEF StartServer
  <2> QED BY <1>1, <1>2, <2>1, ServerKnown, EndAway
<1>5. CASE \/ EnsureUserTrust(p) \/ removeUserTrust(p) \/ UserTrustEnsured(p)
           \/ \E d \in DBs : nssAddCert(p, d) \/ certutilDelete(p, d)
  BY <1>1, <1>2, <1>5, TrustAway
<1>6. CASE \/ PostInstall(p) \/ removeAutostart(p) \/ removeCertSystemStore(p)
           \/ removeFirefoxSystemPolicy(p) \/ UserTrustRemoved(p)
           \/ LoadConfig(p) \/ NewKeystore(p) \/ Stop(p) \/ Kill(p)
  BY <1>1, <1>2, <1>6, HooksAway
<1>7. CASE TLSFault(p) \/ ToolFault(p)
  BY <1>1, <1>2, <1>7, FaultAway
<1>8. CASE EnsureTLSCert(p)
  BY <1>1, <1>2, <1>8, TLSAway
<1> QED BY <1>3, <1>4, <1>5, <1>6, <1>7, <1>8 DEF StepOf, Program, main, PreUninstall

(* A launch changes no other one's drivers, and has none yet. (main) *)
LEMMA LaunchKnown ==
    ASSUME StartupInv, DriversInv, NEW p \in Procs, NEW m \in Modes, NEW h \in Homes,
           Launch(p, m, h)
    PROVE  DriversInv'
<1> SUFFICES ASSUME NEW q \in Procs PROVE LibsKnown(proc'[q])
  BY DEF DriversInv
<1>1. proc \in [Procs -> Process] /\ proc[q] \in Process /\ LibsKnown(proc[q])
  BY Starts DEF Start, DriversInv
<1>2. CASE q = p
  <2>1. Launched(p, m, h)
    BY <1>1, LaunchEffect
  <2> QED BY <1>2, <2>1 DEF Launched, LibsKnown
<1>3. CASE q # p
  <2> DEFINE r == [proc[q] EXCEPT !.disturbed = TRUE]
  <2>1. proc'[q] = proc[q] \/ proc'[q] = r
    BY <1>3 DEF Launch
  <2>2. r.pc = proc[q].pc /\ r.paths = proc[q].paths /\ r.libs = proc[q].libs
    BY <1>1 DEF Process
  <2> QED BY <1>1, <2>1, <2>2 DEF LibsKnown
<1> QED BY <1>2, <1>3

(* Every step keeps the drivers known. (Next) *)
LEMMA DriversStep ==
    ASSUME StartupInv, DriversInv, [Next]_vars
    PROVE  DriversInv'
<1>1. ASSUME NEW p \in Procs, StepOf(p) PROVE DriversInv'
  <2>1. Others(p)
    BY <1>1, StepKeeps DEF Moves, Advances, Loyal, Ends
  <2>2. LibsKnown(proc'[p])
    BY <1>1, StepKnown DEF DriversInv
  <2> QED BY <2>1, <2>2 DEF Others, DriversInv
<1>2. ASSUME NEW p \in Procs, NEW m \in Modes, NEW h \in Homes, Launch(p, m, h)
      PROVE  DriversInv'
  BY <1>2, LaunchKnown
<1>3. CASE UNCHANGED proc
  BY <1>3 DEF DriversInv
<1>4. (\E h \in Homes : Purge(h)) \/ (\E d \in DBs : NewProfile(d)) \/ UNCHANGED vars
      => UNCHANGED proc
  BY DEF Purge, NewProfile, vars
<1> QED BY <1>1, <1>2, <1>3, <1>4 DEF Next, Machine, StepOf

(* A running bridge has every driver that works, each once, and under the
   path the user has named if there is one: for configuration files and
   built-in lists of any length. (LoadConfig, NewPKCS11Handler)            *)
THEOREM EveryDriverAlwaysOnce == Spec => []EveryDriverOnce
<1>1. Init => DriversInv
  <2> SUFFICES ASSUME Init PROVE DriversInv
    OBVIOUS
  <2>1. \A p \in Procs : proc[p].pc = "idle"
    BY IdleFields DEF Init
  <2> QED BY <2>1 DEF DriversInv, LibsKnown
<1>2. StartupInv /\ DriversInv /\ [Next]_vars => DriversInv'
  BY DriversStep
<1>3. DriversInv => EveryDriverOnce
  <2> SUFFICES ASSUME DriversInv, NEW p \in Procs, At(p, "serving")
               PROVE  EveryOnce(proc[p].paths, proc[p].libs)
    BY DEF EveryDriverOnce, EveryOnce, FilesOf
  <2>1. /\ proc[p].paths \in Configs
        /\ proc[p].libs = Loaded(PKCS11Libs(proc[p].paths))
    BY DEF DriversInv, LibsKnown, At
  <2> QED BY <2>1, LoadedEveryOnce
<1> QED BY <1>1, <1>2, <1>3, Invariance, PTL DEF Spec
=============================================================================

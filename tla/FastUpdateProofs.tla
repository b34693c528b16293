-------------------------- MODULE FastUpdateProofs --------------------------
(***************************************************************************)
(* What fastInstallGlobal promises, proved for any set of web UIs and any  *)
(* number of updates and failures: TypeOK, StartsAfterwards,               *)
(* UsableAfterwards, ModulesSurvive, NoOutdatedWebui and                   *)
(* InstalledIsComplete.                                                    *)
(*                                                                         *)
(* None of them is inductive.  IInv adds, for each step of the update and  *)
(* of its rollback, where node_modules and a complete package are (Where,  *)
(* Rollback), which of the three directories may hold web UIs that the     *)
(* package there does not declare (Current), what has been downloaded      *)
(* (Fetched), and where the web UIs are if the daemon could start before   *)
(* (Served).                                                               *)
(***************************************************************************)
EXTENDS FastUpdate, TLAPS

\* The steps before anything is taken from the installation, those after the swap, and those at
\* which the staging directory has nothing of an earlier version yet.
Before   == {"cleanStaging", "cleanBackup", "download", "extract", "compare", "moveModules"}
After    == {"makeWebuisDir", "downloading", "dropBackup"}
Clean(d) == \A w \in Webuis, t \in Tags : d.webuis[w][t] # "none" => d.declares[w] \in {"none", t}
Whole(d) == \A w \in Webuis, t \in Tags : d.webuis[w][t] # "half"

\* The release of a web UI that the installed package declares.
Present(w) == dir["root"].webuis[w][dir["root"].declares[w]] = "whole"

\* Where node_modules and a complete package are, step by step.
Where ==
    /\ pc \in Before => dir["root"].pkg = "old" /\ dir["root"].modules /\ ~nodeModulesMoved
    /\ pc \in {"compare", "moveModules"} => dir["staging"].pkg = "new"
    /\ pc \in {"moveWebuis", "dropChanged", "swapOut"} =>
          dir["root"].pkg = "old" /\ nodeModulesMoved /\ dir["staging"].pkg = "new" /\ dir["staging"].modules
    /\ pc = "swapIn" => dir["staging"].pkg = "new" /\ dir["staging"].modules
    /\ pc \in After =>
          dir["root"].pkg = "new" /\ dir["root"].modules /\ ~Exists("staging") /\ ~nodeModulesMoved

\* What the rollback finds, if it can make good what happened.
Rollback ==
    failed \cap Unrecovered = {} =>
        /\ pc = "rollbackModules" =>
              IF nodeModulesMoved THEN dir["root"].pkg \in {"old", "new"} /\ dir["staging"].modules ELSE Starts
        /\ pc \in {"rollbackRoot", "rollbackStaging"} => Starts

\* An update that has ended left what the properties promise.
Ended == (result # "none" => pc = "idle") /\ StartsAfterwards /\ ModulesSurvive

\* What is to be downloaded, and what has been.  Until the web UIs move there are none in the staging
\* directory, and those to be changed are what the two package.json differ in.
Fetched ==
    /\ pc \in Before \cup {"moveWebuis"} =>
          /\ failed \subseteq {"readdir"} /\ ~webuisDirMoved
          /\ pc # "cleanStaging" => dir["staging"].webuis = NoWebui
    /\ pc \in {"moveModules", "moveWebuis"} =>
          changedWebuis = {w \in Webuis : dir["staging"].declares[w] \notin {"none", dir["root"].declares[w]}}
    /\ pc \in {"dropChanged", "swapOut", "swapIn"} =>
          /\ \A w \in changedWebuis : dir["staging"].declares[w] \in Tags
          /\ webuisDirMoved => dir["staging"].webuisDir
    /\ pc \in After =>
          /\ \A w \in changedWebuis : dir["root"].declares[w] \in Tags
          /\ webuisDirMoved => dir["root"].webuisDir
    /\ pc \in {"downloading", "dropBackup"} => dir["root"].webuisDir
    /\ pc = "downloading" =>
          toDownload \subseteq Wanted /\ ("downloading" \notin failed => \A w \in Wanted \ toDownload : Present(w))
    /\ pc = "dropBackup" => ("downloading" \notin failed => \A w \in Wanted : Present(w))
    /\ InstalledIsComplete

\* Which directories hold only releases that the package.json next to them declares, step by step.
Current ==
    "readdir" \notin failed =>
        /\ Clean(dir["root"])
        /\ pc \notin {"idle", "cleanStaging", "cleanBackup"} => Clean(dir["backup"])
        /\ pc \in {"swapOut", "swapIn"} => Clean(dir["staging"])
        /\ pc = "dropChanged" =>
              \A w \in Webuis, t \in Tags :
                  dir["staging"].webuis[w][t] # "none" => dir["staging"].declares[w] \in {"none", t} \/ w \in Dropped

\* Where the daemon finds its web UIs, or will find them again.
Served ==
    sound /\ failed \cap (Unrecovered \cup WebuisLost) = {} =>
        /\ pc \in Before \cup {"moveWebuis", "rollbackModules", "rollbackRoot", "rollbackStaging"} =>
              dir["root"].webuisDir /\ Whole(dir["root"])
        /\ pc \in {"dropChanged", "swapOut"} =>
              Whole(dir["staging"]) /\ (webuisDirMoved \/ (dir["root"].webuisDir /\ Whole(dir["root"])))
        /\ pc = "swapIn" => Whole(dir["staging"])
        /\ pc \in After => Whole(dir["root"])
        /\ pc = "idle" /\ (result = "crashed" => failed \cap Window = {}) =>
              dir["root"].webuisDir /\ Whole(dir["root"])

IInv == Where /\ Rollback /\ Ended /\ Fetched /\ Current /\ Served

-----------------------------------------------------------------------------
\* Two of the three directories change.
LEMMA TwoDirs == ASSUME NEW f \in [Place -> Dir], NEW p \in Place, NEW q \in Place, NEW d \in Dir, NEW e \in Dir
                 PROVE  [f EXCEPT ![p] = d, ![q] = e] \in [Place -> Dir]
OBVIOUS

\* The web UIs of a directory change.
LEMMA OtherWebuis == ASSUME NEW d \in Dir, NEW b \in BOOLEAN, NEW f \in Extracted
                     PROVE  [d EXCEPT !.webuisDir = b, !.webuis = f] \in Dir
BY DEF Dir

LEMMA NoWebuiIsExtracted == NoWebui \in Extracted /\ NoDir \in Dir
BY DEF NoWebui, Extracted, NoDir, Dir, Declared

LEMMA InstalledIsDir == \A d \in NpmInstalled :
    d \in Dir /\ d.pkg = "new" /\ d.modules /\ d.webuisDir /\ Clean(d)
BY DEF NpmInstalled, Dir, Clean, Declared

\* Its node_modules come or go.
LEMMA OtherModules == ASSUME NEW d \in Dir, NEW b \in BOOLEAN
                      PROVE  [d EXCEPT !.modules = b] \in Dir
BY DEF Dir

\* The move of the web UIs touches nothing else.
LEMMA OnlyWebuisMove ==
  ASSUME dir \in [Place -> Dir], MoveWebuis
  PROVE  /\ \A p \in Place : dir'[p].pkg = dir[p].pkg /\ dir'[p].modules = dir[p].modules
         /\ \A p \in Place : dir'[p].declares = dir[p].declares
         /\ dir'["root"].webuis = NoWebui
         /\ dir'["staging"].webuis = dir["root"].webuis
         /\ dir'["staging"].webuisDir
         /\ dir'["backup"] = dir["backup"]
<1> DEFINE f == dir["root"].webuis
           e == NoWebui
           s == [dir["staging"] EXCEPT !.webuisDir = TRUE, !.webuis = f]
           r == [dir["root"] EXCEPT !.webuisDir = FALSE, !.webuis = e]
<1>1. dir' = [dir EXCEPT !["staging"] = s, !["root"] = r]
  BY DEF MoveWebuis
<1>2. dir["staging"] \in Dir /\ dir["root"] \in Dir
  BY DEF Place
<1>. HIDE DEF f, e
<1>3. /\ s.pkg = dir["staging"].pkg /\ s.modules = dir["staging"].modules /\ s.webuis = f
      /\ s.declares = dir["staging"].declares /\ s.webuisDir
  BY ONLY <1>2 DEF Dir
<1>4. /\ r.pkg = dir["root"].pkg /\ r.modules = dir["root"].modules /\ r.webuis = e
      /\ r.declares = dir["root"].declares
  BY ONLY <1>2 DEF Dir
<1>. HIDE DEF s, r
<1>5. dir'["staging"] = s /\ dir'["root"] = r /\ dir'["backup"] = dir["backup"]
  BY ONLY <1>1, dir \in [Place -> Dir] DEF Place
<1>6. \A p \in Place : /\ dir'[p].pkg = dir[p].pkg /\ dir'[p].modules = dir[p].modules
                      /\ dir'[p].declares = dir[p].declares
  BY ONLY <1>3, <1>4, <1>5 DEF Place
<1>. QED
  BY ONLY <1>3, <1>4, <1>5, <1>6 DEF f, e

\* What changes with the directory of one web UI.
LEMMA WithIs ==
  ASSUME dir \in [Place -> Dir], NEW w \in Webuis, NEW x \in {"half", "whole"}
  PROVE  /\ With(w, x) \in [Place -> Dir]
         /\ With(w, x)["staging"] = dir["staging"] /\ With(w, x)["backup"] = dir["backup"]
         /\ With(w, x)["root"].pkg = dir["root"].pkg /\ With(w, x)["root"].modules = dir["root"].modules
         /\ With(w, x)["root"].declares = dir["root"].declares
         /\ With(w, x)["root"].webuisDir = dir["root"].webuisDir
         /\ \A v \in Webuis, t \in Tags :
               With(w, x)["root"].webuis[v][t] =
                   IF v = w /\ t = dir["root"].declares[w] THEN x ELSE dir["root"].webuis[v][t]
<1> DEFINE d == dir["root"]
           u == [d.webuis[w] EXCEPT ![d.declares[w]] = x]
           f == [d.webuis EXCEPT ![w] = u]
           r == [d EXCEPT !.webuis = f]
<1>1. d \in Dir /\ d.webuis \in Extracted
  BY DEF Place, Dir
<1>2. /\ u \in [Tags -> {"none", "half", "whole"}]
      /\ \A t \in Tags : u[t] = IF t = d.declares[w] THEN x ELSE d.webuis[w][t]
  BY <1>1 DEF Extracted
<1>3. With(w, x) = [dir EXCEPT !["root"] = r]
  BY DEF With
<1>. HIDE DEF u
<1>4. f \in Extracted /\ \A v \in Webuis : f[v] = IF v = w THEN u ELSE d.webuis[v]
  BY <1>1, <1>2 DEF Extracted
<1>. HIDE DEF f
<1>5. /\ r \in Dir /\ r.pkg = d.pkg /\ r.modules = d.modules /\ r.declares = d.declares
      /\ r.webuisDir = d.webuisDir /\ r.webuis = f
  BY <1>1, <1>4 DEF Dir
<1>. HIDE DEF r
<1>6. With(w, x) \in [Place -> Dir] /\ With(w, x)["root"] = r
      /\ With(w, x)["staging"] = dir["staging"] /\ With(w, x)["backup"] = dir["backup"]
  BY <1>3, <1>5 DEF Place
<1>. QED
  BY <1>2, <1>4, <1>5, <1>6

\* A download that fails or is cut off leaves the directory of one release half extracted, or nothing.
LEMMA HalvedIs ==
  ASSUME dir \in [Place -> Dir], NEW w \in Webuis, dir' \in Halved(w)
  PROVE  /\ dir' \in [Place -> Dir]
         /\ dir'["staging"] = dir["staging"] /\ dir'["backup"] = dir["backup"]
         /\ dir'["root"].pkg = dir["root"].pkg /\ dir'["root"].modules = dir["root"].modules
         /\ dir'["root"].declares = dir["root"].declares
         /\ dir'["root"].webuisDir = dir["root"].webuisDir
         /\ \A v \in Webuis, t \in Tags :
               \/ dir'["root"].webuis[v][t] = dir["root"].webuis[v][t]
               \/ v = w /\ t = dir["root"].declares[w] /\ dir["root"].webuis[v][t] = "none"
<1>1. CASE dir' = dir
  BY <1>1
<1>2. CASE dir' = With(w, "half") /\ dir["root"].webuis[w][dir["root"].declares[w]] = "none"
  BY <1>2, WithIs
<1>. QED
  BY <1>1, <1>2 DEF Halved

\* A crash.
LEMMA CrashIs ==
  ASSUME dir \in [Place -> Dir], toDownload \subseteq Webuis, Crash
  PROVE  \/ dir' = dir
         \/ pc = "downloading" /\ \E w \in Webuis : dir' \in Halved(w)
BY DEF Crash

\* Extraction puts the new package.json into the staging directory.
LEMMA ExtractIs ==
  ASSUME dir \in [Place -> Dir], Extract
  PROVE  /\ dir' \in [Place -> Dir] /\ dir'["root"] = dir["root"] /\ dir'["backup"] = dir["backup"]
         /\ dir'["staging"].pkg = "new" /\ dir'["staging"].modules = dir["staging"].modules
         /\ dir'["staging"].webuis = dir["staging"].webuis
<1>1. PICK declares \in Declared : dir' = [dir EXCEPT !["staging"].pkg = "new", !["staging"].declares = declares]
  BY DEF Extract
<1> DEFINE d == dir["staging"]
           e == [d EXCEPT !.pkg = "new", !.declares = declares]
<1>2. d \in Dir
  BY DEF Place
<1>3. e \in Dir /\ e.pkg = "new" /\ e.modules = d.modules /\ e.webuis = d.webuis
  BY <1>2 DEF Dir
<1>4. dir' = [dir EXCEPT !["staging"] = e]
  BY <1>1 DEF Place
<1>. HIDE DEF e
<1>. QED
  BY <1>3, <1>4 DEF Place

\* What is dropped from the staging directory.
LEMMA DropChangedIs ==
  ASSUME dir \in [Place -> Dir], DropChanged
  PROVE  /\ dir' \in [Place -> Dir] /\ dir'["root"] = dir["root"] /\ dir'["backup"] = dir["backup"]
         /\ dir'["staging"].pkg = dir["staging"].pkg /\ dir'["staging"].modules = dir["staging"].modules
         /\ dir'["staging"].declares = dir["staging"].declares
         /\ dir'["staging"].webuisDir = dir["staging"].webuisDir
         /\ \A w \in Webuis, t \in Tags :
               dir'["staging"].webuis[w][t] = IF w \in Dropped THEN "none" ELSE dir["staging"].webuis[w][t]
<1> DEFINE d == dir["staging"]
           f == [w \in Webuis |-> IF w \in Dropped THEN NoWebui[w] ELSE d.webuis[w]]
           e == [d EXCEPT !.webuis = f]
<1>1. d \in Dir /\ d.webuis \in Extracted
  BY DEF Place, Dir
<1>2. /\ f \in Extracted
      /\ \A w \in Webuis, t \in Tags : f[w][t] = IF w \in Dropped THEN "none" ELSE d.webuis[w][t]
  BY <1>1, NoWebuiIsExtracted DEF Extracted, NoWebui
<1>3. dir' = [dir EXCEPT !["staging"] = e]
  BY DEF DropChanged, Place
<1>. HIDE DEF f
<1>4. /\ e \in Dir /\ e.pkg = d.pkg /\ e.modules = d.modules /\ e.declares = d.declares
      /\ e.webuisDir = d.webuisDir /\ e.webuis = f
  BY <1>1, <1>2 DEF Dir
<1>. HIDE DEF e
<1>. QED
  BY <1>2, <1>3, <1>4 DEF Place

\* Every step keeps the types.
LEMMA TypeStep == TypeOK /\ [Next]_vars => TypeOK'
<1> SUFFICES ASSUME TypeOK, [Next]_vars
             PROVE  TypeOK'
  OBVIOUS
<1>. USE ConstantsOK, NoWebuiIsExtracted DEF TypeOK, Dir, Place, Step, Guarded, Goto, Fault, Return, Rename,
           Remove, Exists, NoDir, locals
<1>1. Begin => TypeOK'
  <2> SUFFICES ASSUME Begin
               PROVE  TypeOK'
    OBVIOUS
  <2>1. dir' \in [Place -> Dir]
    BY DEF Begin
  <2>2. nodeModulesMoved' \in BOOLEAN /\ webuisDirMoved' \in BOOLEAN
    BY DEF Begin
  <2>3. changedWebuis' \in SUBSET Webuis /\ toDownload' \in SUBSET Webuis
    BY DEF Begin
  <2>4. pc' \in Step \cup {"idle"} /\ result' \in {"none", "installed", "fallback", "threw", "crashed"}
    BY DEF Begin
  <2>5. sound' \in BOOLEAN /\ failed' \in SUBSET (Step \cup {"readdir"}) /\ faults' \in 0..MaxFaults /\ runs' \in 0..MaxRuns
    BY DEF Begin, Usable, Starts
  <2>. QED
    BY <2>1, <2>2, <2>3, <2>4, <2>5 DEF Begin
<1>2. CleanStaging => TypeOK'
  BY DEF CleanStaging
<1>3. CleanBackup => TypeOK'
  BY DEF CleanBackup
<1>4. CleanFails => TypeOK'
  BY DEF CleanFails
<1>5. Download => TypeOK'
  BY DEF Download
<1>6. Extract => TypeOK'
  <2> SUFFICES ASSUME Extract
               PROVE  TypeOK'
    OBVIOUS
  <2>1. dir' \in [Place -> Dir]
    BY ExtractIs
  <2>. QED
    BY <2>1 DEF Extract
<1>7. Compare => TypeOK'
  BY DEF Compare
<1>8. FallBack => TypeOK'
  BY DEF FallBack
<1>9. MoveModules => TypeOK'
  <2> SUFFICES ASSUME MoveModules
               PROVE  TypeOK'
    OBVIOUS
  <2>1. dir' \in [Place -> Dir]
    <3>1. [dir["root"] EXCEPT !.modules = FALSE] \in Dir
      <4>1. dir["root"] \in Dir
        OBVIOUS
      <4>. QED
        BY ONLY <4>1, OtherModules
    <3>2. [dir["staging"] EXCEPT !.modules = TRUE] \in Dir
      <4>1. dir["staging"] \in Dir
        OBVIOUS
      <4>. QED
        BY ONLY <4>1, OtherModules
    <3>. QED
      BY <3>1, <3>2, TwoDirs DEF MoveModules
  <2>2. nodeModulesMoved' \in BOOLEAN /\ webuisDirMoved' \in BOOLEAN
    BY DEF MoveModules
  <2>3. changedWebuis' \in SUBSET Webuis /\ toDownload' \in SUBSET Webuis
    BY DEF MoveModules
  <2>4. pc' \in Step \cup {"idle"} /\ result' \in {"none", "installed", "fallback", "threw", "crashed"}
    BY DEF MoveModules
  <2>5. sound' \in BOOLEAN /\ failed' \in SUBSET (Step \cup {"readdir"}) /\ faults' \in 0..MaxFaults /\ runs' \in 0..MaxRuns
    BY DEF MoveModules
  <2>. QED
    BY <2>1, <2>2, <2>3, <2>4, <2>5 DEF MoveModules
<1>10. MoveWebuis => TypeOK'
  <2> SUFFICES ASSUME MoveWebuis
               PROVE  TypeOK'
    OBVIOUS
  <2>1. dir' \in [Place -> Dir]
    <3>1. dir["root"].webuis \in Extracted
      OBVIOUS
    <3>2. [dir["staging"] EXCEPT !.webuisDir = TRUE, !.webuis = dir["root"].webuis] \in Dir
      <4>1. dir["staging"] \in Dir
        OBVIOUS
      <4>. QED
        BY ONLY <3>1, <4>1, OtherWebuis
    <3>3. [dir["root"] EXCEPT !.webuisDir = FALSE, !.webuis = NoWebui] \in Dir
      <4>1. dir["root"] \in Dir
        OBVIOUS
      <4>. QED
        BY ONLY <4>1, NoWebuiIsExtracted, OtherWebuis
    <3>. QED
      BY <3>2, <3>3, TwoDirs DEF MoveWebuis
  <2>2. nodeModulesMoved' \in BOOLEAN /\ webuisDirMoved' \in BOOLEAN
    BY DEF MoveWebuis
  <2>3. changedWebuis' \in SUBSET Webuis /\ toDownload' \in SUBSET Webuis
    BY DEF MoveWebuis
  <2>4. pc' \in Step \cup {"idle"} /\ result' \in {"none", "installed", "fallback", "threw", "crashed"}
    BY DEF MoveWebuis
  <2>5. sound' \in BOOLEAN /\ failed' \in SUBSET (Step \cup {"readdir"}) /\ faults' \in 0..MaxFaults /\ runs' \in 0..MaxRuns
    BY DEF MoveWebuis
  <2>. QED
    BY <2>1, <2>2, <2>3, <2>4, <2>5 DEF MoveWebuis
<1>11. MoveWebuisFails => TypeOK'
  <2> SUFFICES ASSUME MoveWebuisFails
               PROVE  TypeOK'
    OBVIOUS
  <2>1. dir' \in [Place -> Dir]
    BY DEF MoveWebuisFails
  <2>2. nodeModulesMoved' \in BOOLEAN /\ webuisDirMoved' \in BOOLEAN
    BY DEF MoveWebuisFails
  <2>3. changedWebuis' \in SUBSET Webuis /\ toDownload' \in SUBSET Webuis
    BY DEF MoveWebuisFails
  <2>4. pc' \in Step \cup {"idle"} /\ result' \in {"none", "installed", "fallback", "threw", "crashed"}
    BY DEF MoveWebuisFails
  <2>5. sound' \in BOOLEAN /\ failed' \in SUBSET (Step \cup {"readdir"}) /\ faults' \in 0..MaxFaults /\ runs' \in 0..MaxRuns
    <3>1. Fault("moveWebuis") \/ UNCHANGED <<sound, failed, faults, runs>>
      BY DEF MoveWebuisFails
    <3>2. CASE Fault("moveWebuis")
      BY <3>2
    <3>3. CASE UNCHANGED <<sound, failed, faults, runs>>
      BY <3>3
    <3>. QED
      BY <3>1, <3>2, <3>3
  <2>. QED
    BY <2>1, <2>2, <2>3, <2>4, <2>5 DEF MoveWebuisFails
<1>12. DropChanged => TypeOK'
  <2> SUFFICES ASSUME DropChanged
               PROVE  TypeOK'
    OBVIOUS
  <2>1. dir' \in [Place -> Dir]
    BY DropChangedIs
  <2>. QED
    BY <2>1 DEF DropChanged
<1>13. ReaddirFails => TypeOK'
  BY DEF ReaddirFails, Dropped
<1>14. SwapOut => TypeOK'
  BY DEF SwapOut
<1>15. SwapIn => TypeOK'
  <2> SUFFICES ASSUME SwapIn
               PROVE  TypeOK'
    OBVIOUS
  <2>1. dir' \in [Place -> Dir]
    BY DEF SwapIn
  <2>2. nodeModulesMoved' \in BOOLEAN /\ webuisDirMoved' \in BOOLEAN
    BY DEF SwapIn
  <2>3. changedWebuis' \in SUBSET Webuis /\ toDownload' \in SUBSET Webuis
    BY DEF SwapIn
  <2>4. pc' \in Step \cup {"idle"} /\ result' \in {"none", "installed", "fallback", "threw", "crashed"}
    BY DEF SwapIn
  <2>5. sound' \in BOOLEAN /\ failed' \in SUBSET (Step \cup {"readdir"}) /\ faults' \in 0..MaxFaults /\ runs' \in 0..MaxRuns
    BY DEF SwapIn
  <2>. QED
    BY <2>1, <2>2, <2>3, <2>4, <2>5 DEF SwapIn
<1>16. MakeWebuisDir => TypeOK'
  <2> SUFFICES ASSUME MakeWebuisDir
               PROVE  TypeOK'
    OBVIOUS
  <2>1. dir' \in [Place -> Dir]
    <3>1. [dir["root"] EXCEPT !.webuisDir = TRUE] \in Dir
      <4>1. dir["root"] \in Dir
        OBVIOUS
      <4>. QED
        BY ONLY <4>1 DEF Dir
    <3>. QED
      BY <3>1 DEF MakeWebuisDir
  <2>2. nodeModulesMoved' \in BOOLEAN /\ webuisDirMoved' \in BOOLEAN
    BY DEF MakeWebuisDir
  <2>3. changedWebuis' \in SUBSET Webuis /\ toDownload' \in SUBSET Webuis
    BY DEF MakeWebuisDir, Wanted
  <2>4. pc' \in Step \cup {"idle"} /\ result' \in {"none", "installed", "fallback", "threw", "crashed"}
    BY DEF MakeWebuisDir
  <2>5. sound' \in BOOLEAN /\ failed' \in SUBSET (Step \cup {"readdir"}) /\ faults' \in 0..MaxFaults /\ runs' \in 0..MaxRuns
    BY DEF MakeWebuisDir
  <2>. QED
    BY <2>1, <2>2, <2>3, <2>4, <2>5 DEF MakeWebuisDir
<1>17. ASSUME NEW w \in Webuis, DownloadWebui(w)
       PROVE  TypeOK'
  <2>1. dir' \in [Place -> Dir]
    BY <1>17, WithIs DEF DownloadWebui
  <2>. QED
    BY <1>17, <2>1 DEF DownloadWebui
<1>18. ASSUME NEW w \in Webuis, DownloadWebuiFails(w)
       PROVE  TypeOK'
  <2>1. dir' \in [Place -> Dir]
    BY <1>18, HalvedIs DEF DownloadWebuiFails
  <2>. QED
    BY <1>18, <2>1 DEF DownloadWebuiFails
<1>19. Downloaded => TypeOK'
  BY DEF Downloaded
<1>20. DropBackup => TypeOK'
  BY DEF DropBackup
<1>21. Throw => TypeOK'
  BY DEF Throw, Debris
<1>22. RollbackModules => TypeOK'
  <2> SUFFICES ASSUME RollbackModules
               PROVE  TypeOK'
    OBVIOUS
  <2>1. dir' \in [Place -> Dir]
    <3>1. [dir["staging"] EXCEPT !.modules = FALSE] \in Dir
      <4>1. dir["staging"] \in Dir
        OBVIOUS
      <4>. QED
        BY ONLY <4>1, OtherModules
    <3>2. [dir["root"] EXCEPT !.modules = TRUE] \in Dir
      <4>1. dir["root"] \in Dir
        OBVIOUS
      <4>. QED
        BY ONLY <4>1, OtherModules
    <3>3. dir' = dir \/ dir' = [dir EXCEPT !["staging"].modules = FALSE, !["root"].modules = TRUE]
      BY DEF RollbackModules
    <3>4. CASE dir' = dir
      BY <3>4
    <3>5. CASE dir' = [dir EXCEPT !["staging"].modules = FALSE, !["root"].modules = TRUE]
      BY <3>1, <3>2, <3>5, TwoDirs
    <3>. QED
      BY <3>3, <3>4, <3>5
  <2>2. nodeModulesMoved' \in BOOLEAN /\ webuisDirMoved' \in BOOLEAN
    BY DEF RollbackModules, ModulesToRestore
  <2>3. changedWebuis' \in SUBSET Webuis /\ toDownload' \in SUBSET Webuis
    BY DEF RollbackModules, ModulesToRestore
  <2>4. pc' \in Step \cup {"idle"} /\ result' \in {"none", "installed", "fallback", "threw", "crashed"}
    BY DEF RollbackModules, ModulesToRestore
  <2>5. sound' \in BOOLEAN /\ failed' \in SUBSET (Step \cup {"readdir"}) /\ faults' \in 0..MaxFaults /\ runs' \in 0..MaxRuns
    BY DEF RollbackModules, ModulesToRestore
  <2>. QED
    BY <2>1, <2>2, <2>3, <2>4, <2>5 DEF RollbackModules, ModulesToRestore
<1>23. RollbackRoot => TypeOK'
  <2> SUFFICES ASSUME RollbackRoot
               PROVE  TypeOK'
    OBVIOUS
  <2>1. dir' \in [Place -> Dir]
    <3>1. NoDir \in Dir
      OBVIOUS
    <3>2. dir' = dir \/ dir' = [dir EXCEPT !["root"] = dir["backup"], !["backup"] = NoDir]
      BY DEF RollbackRoot
    <3>3. CASE dir' = dir
      BY <3>3
    <3>4. CASE dir' = [dir EXCEPT !["root"] = dir["backup"], !["backup"] = NoDir]
      BY <3>1, <3>4, TwoDirs
    <3>. QED
      BY <3>2, <3>3, <3>4
  <2>2. nodeModulesMoved' \in BOOLEAN /\ webuisDirMoved' \in BOOLEAN
    BY DEF RollbackRoot
  <2>3. changedWebuis' \in SUBSET Webuis /\ toDownload' \in SUBSET Webuis
    BY DEF RollbackRoot
  <2>4. pc' \in Step \cup {"idle"} /\ result' \in {"none", "installed", "fallback", "threw", "crashed"}
    BY DEF RollbackRoot
  <2>5. sound' \in BOOLEAN /\ failed' \in SUBSET (Step \cup {"readdir"}) /\ faults' \in 0..MaxFaults /\ runs' \in 0..MaxRuns
    BY DEF RollbackRoot
  <2>. QED
    BY <2>1, <2>2, <2>3, <2>4, <2>5 DEF RollbackRoot
<1>24. RollbackFails => TypeOK'
  BY DEF RollbackFails, ModulesToRestore
<1>25. RollbackStaging => TypeOK'
  BY DEF RollbackStaging
<1>26. RollbackStagingFails => TypeOK'
  BY DEF RollbackStagingFails
<1>27. Crash => TypeOK'
  <2> SUFFICES ASSUME Crash
               PROVE  TypeOK'
    OBVIOUS
  <2>1. dir' \in [Place -> Dir]
    BY CrashIs, HalvedIs
  <2>. QED
    BY <2>1 DEF Crash
<1>28. InstallGlobal => TypeOK'
  <2> SUFFICES ASSUME InstallGlobal
               PROVE  TypeOK'
    OBVIOUS
  <2>1. dir' \in [Place -> Dir]
    BY InstalledIsDir DEF InstallGlobal
  <2>2. sound' \in BOOLEAN
    BY DEF InstallGlobal, Usable, Starts
  <2>. QED
    BY <2>1, <2>2 DEF InstallGlobal
<1>29. CASE UNCHANGED vars
  BY <1>29 DEF vars
<1>. QED
  BY <1>1, <1>2, <1>3, <1>4, <1>5, <1>6, <1>7, <1>8, <1>9, <1>10, <1>11, <1>12, <1>13,
     <1>14, <1>15, <1>16, <1>17, <1>18, <1>19, <1>20, <1>21, <1>22, <1>23, <1>24, <1>25,
     <1>26, <1>27, <1>28, <1>29 DEF Next

\* Every step knows where node_modules and a complete package are.
LEMMA WhereStep == TypeOK /\ IInv /\ [Next]_vars => Where'
<1> SUFFICES ASSUME TypeOK, IInv, [Next]_vars
             PROVE  Where'
  OBVIOUS
<1>. USE ConstantsOK, NoWebuiIsExtracted DEF TypeOK, Dir, Place, Step, Guarded, IInv, Where, Before, After,
           Starts, Goto, Fault, Return, Rename, Remove, Exists, NoDir, locals
<1>1. Begin => Where'
  BY DEF Begin
<1>2. CleanStaging => Where'
  BY DEF CleanStaging
<1>3. CleanBackup => Where'
  BY DEF CleanBackup
<1>4. CleanFails => Where'
  BY DEF CleanFails
<1>5. Download => Where'
  BY DEF Download
<1>6. Extract => Where'
  <2> SUFFICES ASSUME Extract
               PROVE  Where'
    OBVIOUS
  <2>1. dir'["root"] = dir["root"] /\ dir'["staging"].pkg = "new"
    BY ExtractIs
  <2>2. pc = "extract" /\ pc' = "compare" /\ nodeModulesMoved' = nodeModulesMoved
    BY DEF Extract
  <2>. QED
    BY <2>1, <2>2
<1>7. Compare => Where'
  BY DEF Compare
<1>8. FallBack => Where'
  BY DEF FallBack
<1>9. MoveModules => Where'
  <2> SUFFICES ASSUME MoveModules
               PROVE  Where'
    OBVIOUS
  <2>1. /\ dir'["root"].pkg = dir["root"].pkg
        /\ dir'["staging"].pkg = dir["staging"].pkg
        /\ dir'["staging"].modules
    BY DEF MoveModules
  <2>2. pc = "moveModules" /\ pc' = "moveWebuis" /\ nodeModulesMoved'
    BY DEF MoveModules
  <2>. QED
    BY <2>1, <2>2
<1>10. MoveWebuis => Where'
  <2> SUFFICES ASSUME MoveWebuis
               PROVE  Where'
    OBVIOUS
  <2>1. \A p \in Place : dir'[p].pkg = dir[p].pkg /\ dir'[p].modules = dir[p].modules
    BY OnlyWebuisMove
  <2>2. pc = "moveWebuis" /\ pc' = "dropChanged"
    BY DEF MoveWebuis
  <2>. QED
    BY <2>1, <2>2 DEF MoveWebuis
<1>11. MoveWebuisFails => Where'
  BY DEF MoveWebuisFails
<1>12. DropChanged => Where'
  BY DropChangedIs DEF DropChanged
<1>13. ReaddirFails => Where'
  BY DEF ReaddirFails, Dropped
<1>14. SwapOut => Where'
  BY DEF SwapOut
<1>15. SwapIn => Where'
  BY DEF SwapIn
<1>16. MakeWebuisDir => Where'
  BY DEF MakeWebuisDir
<1>17. ASSUME NEW w \in Webuis, DownloadWebui(w)
       PROVE  Where'
  BY <1>17, WithIs DEF DownloadWebui
<1>18. ASSUME NEW w \in Webuis, DownloadWebuiFails(w)
       PROVE  Where'
  BY <1>18, HalvedIs DEF DownloadWebuiFails
<1>19. Downloaded => Where'
  BY DEF Downloaded
<1>20. DropBackup => Where'
  BY DEF DropBackup
<1>21. Throw => Where'
  BY DEF Throw, Debris
<1>22. RollbackModules => Where'
  BY DEF RollbackModules, ModulesToRestore
<1>23. RollbackRoot => Where'
  BY DEF RollbackRoot
<1>24. RollbackFails => Where'
  BY DEF RollbackFails, ModulesToRestore
<1>25. RollbackStaging => Where'
  BY DEF RollbackStaging
<1>26. RollbackStagingFails => Where'
  BY DEF RollbackStagingFails
<1>27. Crash => Where'
  BY CrashIs, HalvedIs DEF Crash
<1>28. InstallGlobal => Where'
  BY InstalledIsDir DEF InstallGlobal
<1>29. CASE UNCHANGED vars
  BY <1>29 DEF vars
<1>. QED
  BY <1>1, <1>2, <1>3, <1>4, <1>5, <1>6, <1>7, <1>8, <1>9, <1>10, <1>11, <1>12, <1>13,
     <1>14, <1>15, <1>16, <1>17, <1>18, <1>19, <1>20, <1>21, <1>22, <1>23, <1>24, <1>25,
     <1>26, <1>27, <1>28, <1>29 DEF Next

\* The rollback finds node_modules where it looks, or an installation that is whole.
LEMMA RollbackStep == TypeOK /\ IInv /\ [Next]_vars => Rollback'
<1> SUFFICES ASSUME TypeOK, IInv, [Next]_vars
             PROVE  Rollback'
  OBVIOUS
<1>. USE ConstantsOK, NoWebuiIsExtracted DEF TypeOK, Dir, Place, Step, Guarded, IInv, Where, Rollback, Before,
           After, Starts, Unrecovered, Goto, Fault, Return, Rename, Remove, Exists, NoDir,
           locals
<1>1. Begin => Rollback'
  BY DEF Begin
<1>2. CleanStaging => Rollback'
  BY DEF CleanStaging
<1>3. CleanBackup => Rollback'
  BY DEF CleanBackup
<1>4. CleanFails => Rollback'
  BY DEF CleanFails
<1>5. Download => Rollback'
  BY DEF Download
<1>6. Extract => Rollback'
  BY ExtractIs DEF Extract
<1>7. Compare => Rollback'
  BY DEF Compare
<1>8. FallBack => Rollback'
  BY DEF FallBack
<1>9. MoveModules => Rollback'
  BY DEF MoveModules
<1>10. MoveWebuis => Rollback'
  BY DEF MoveWebuis
<1>11. MoveWebuisFails => Rollback'
  BY DEF MoveWebuisFails
<1>12. DropChanged => Rollback'
  BY DropChangedIs DEF DropChanged
<1>13. ReaddirFails => Rollback'
  BY DEF ReaddirFails, Dropped
<1>14. SwapOut => Rollback'
  BY DEF SwapOut
<1>15. SwapIn => Rollback'
  BY DEF SwapIn
<1>16. MakeWebuisDir => Rollback'
  BY DEF MakeWebuisDir
<1>17. ASSUME NEW w \in Webuis, DownloadWebui(w)
       PROVE  Rollback'
  BY <1>17, WithIs DEF DownloadWebui
<1>18. ASSUME NEW w \in Webuis, DownloadWebuiFails(w)
       PROVE  Rollback'
  BY <1>18, HalvedIs DEF DownloadWebuiFails
<1>19. Downloaded => Rollback'
  BY DEF Downloaded
<1>20. DropBackup => Rollback'
  BY DEF DropBackup
<1>21. Throw => Rollback'
  BY DEF Throw, Debris
<1>22. RollbackModules => Rollback'
  BY DEF RollbackModules, ModulesToRestore
<1>23. RollbackRoot => Rollback'
  BY DEF RollbackRoot
<1>24. RollbackFails => Rollback'
  BY DEF RollbackFails, ModulesToRestore
<1>25. RollbackStaging => Rollback'
  BY DEF RollbackStaging
<1>26. RollbackStagingFails => Rollback'
  BY DEF RollbackStagingFails
<1>27. Crash => Rollback'
  BY CrashIs, HalvedIs DEF Crash
<1>28. InstallGlobal => Rollback'
  BY InstalledIsDir DEF InstallGlobal
<1>29. CASE UNCHANGED vars
  BY <1>29 DEF vars
<1>. QED
  BY <1>1, <1>2, <1>3, <1>4, <1>5, <1>6, <1>7, <1>8, <1>9, <1>10, <1>11, <1>12, <1>13,
     <1>14, <1>15, <1>16, <1>17, <1>18, <1>19, <1>20, <1>21, <1>22, <1>23, <1>24, <1>25,
     <1>26, <1>27, <1>28, <1>29 DEF Next

\* However an update ends, it leaves what the properties promise.
LEMMA EndedStep == TypeOK /\ IInv /\ [Next]_vars => Ended'
<1> SUFFICES ASSUME TypeOK, IInv, [Next]_vars
             PROVE  Ended'
  OBVIOUS
<1>. USE ConstantsOK, NoWebuiIsExtracted DEF TypeOK, Dir, Place, Step, Guarded, IInv, Where, Rollback, Ended,
           StartsAfterwards, ModulesSurvive, Window, Before, After, Starts,
           Unrecovered, Goto, Fault, Return, Rename, Remove, Exists, NoDir, locals
<1>1. Begin => Ended'
  BY DEF Begin
<1>2. CleanStaging => Ended'
  BY DEF CleanStaging
<1>3. CleanBackup => Ended'
  BY DEF CleanBackup
<1>4. CleanFails => Ended'
  BY DEF CleanFails
<1>5. Download => Ended'
  BY DEF Download
<1>6. Extract => Ended'
  BY ExtractIs DEF Extract
<1>7. Compare => Ended'
  BY DEF Compare
<1>8. FallBack => Ended'
  BY DEF FallBack
<1>9. MoveModules => Ended'
  BY DEF MoveModules
<1>10. MoveWebuis => Ended'
  <2> SUFFICES ASSUME MoveWebuis
               PROVE  Ended'
    OBVIOUS
  <2>1. \A p \in Place : dir'[p].pkg = dir[p].pkg /\ dir'[p].modules = dir[p].modules
    BY OnlyWebuisMove
  <2>2. pc = "moveWebuis" /\ pc' = "dropChanged"
    BY DEF MoveWebuis
  <2>. QED
    BY <2>1, <2>2 DEF MoveWebuis
<1>11. MoveWebuisFails => Ended'
  BY DEF MoveWebuisFails
<1>12. DropChanged => Ended'
  BY DropChangedIs DEF DropChanged
<1>13. ReaddirFails => Ended'
  BY DEF ReaddirFails, Dropped
<1>14. SwapOut => Ended'
  BY DEF SwapOut
<1>15. SwapIn => Ended'
  BY DEF SwapIn
<1>16. MakeWebuisDir => Ended'
  BY DEF MakeWebuisDir
<1>17. ASSUME NEW w \in Webuis, DownloadWebui(w)
       PROVE  Ended'
  BY <1>17, WithIs DEF DownloadWebui
<1>18. ASSUME NEW w \in Webuis, DownloadWebuiFails(w)
       PROVE  Ended'
  BY <1>18, HalvedIs DEF DownloadWebuiFails
<1>19. Downloaded => Ended'
  BY DEF Downloaded
<1>20. DropBackup => Ended'
  BY DEF DropBackup
<1>21. Throw => Ended'
  BY DEF Throw, Debris
<1>22. RollbackModules => Ended'
  BY DEF RollbackModules, ModulesToRestore
<1>23. RollbackRoot => Ended'
  BY DEF RollbackRoot
<1>24. RollbackFails => Ended'
  BY DEF RollbackFails, ModulesToRestore
<1>25. RollbackStaging => Ended'
  BY DEF RollbackStaging
<1>26. RollbackStagingFails => Ended'
  BY DEF RollbackStagingFails
<1>27. Crash => Ended'
  <2> SUFFICES ASSUME Crash
               PROVE  Ended'
    OBVIOUS
  <2>1. pc' = "idle" /\ result' = "crashed" /\ failed' = failed \cup {pc} /\ pc # "idle"
    BY DEF Crash
  <2>0. \A p \in Place : dir'[p].pkg = dir[p].pkg /\ dir'[p].modules = dir[p].modules
    BY CrashIs, HalvedIs
  <2>2. ModulesSurvive'
    BY <2>0, <2>1
  <2>3. StartsAfterwards'
    <3> SUFFICES ASSUME failed' \cap Unrecovered = {}, failed' \cap Window = {}
                 PROVE  Starts
      BY <2>0, <2>1
    <3>1. pc \notin Window \cup Unrecovered /\ failed \cap Unrecovered = {}
      BY <2>1
    <3>2. pc \in Before \cup After \cup {"rollbackStaging"}
      BY <2>1, <3>1
    <3>. QED
      BY <3>1, <3>2
  <2>. QED
    BY <2>1, <2>2, <2>3
<1>28. InstallGlobal => Ended'
  BY InstalledIsDir DEF InstallGlobal
<1>29. CASE UNCHANGED vars
  BY <1>29 DEF vars
<1>. QED
  BY <1>1, <1>2, <1>3, <1>4, <1>5, <1>6, <1>7, <1>8, <1>9, <1>10, <1>11, <1>12, <1>13,
     <1>14, <1>15, <1>16, <1>17, <1>18, <1>19, <1>20, <1>21, <1>22, <1>23, <1>24, <1>25,
     <1>26, <1>27, <1>28, <1>29 DEF Next

\* Clean asks only for the web UIs and the package.json, Whole only for the web UIs.
LEMMA WebuisMatter ==
  /\ \A d, e \in Dir : d.webuis = e.webuis /\ d.declares = e.declares /\ Clean(d) => Clean(e)
  /\ \A d, e \in Dir : d.webuis = e.webuis /\ Whole(d) => Whole(e)
  /\ \A d \in Dir : d.webuis = NoWebui => Clean(d) /\ Whole(d)
  /\ NoDir.webuis = NoWebui /\ \A w \in Webuis, t \in Tags : NoWebui[w][t] = "none"
BY DEF Clean, Whole, NoWebui, NoDir

\* The move of node_modules touches nothing else, either way.
LEMMA OnlyModulesMove ==
  ASSUME dir \in [Place -> Dir], MoveModules \/ RollbackModules
  PROVE  /\ \A p \in Place : /\ dir'[p].webuis = dir[p].webuis /\ dir'[p].declares = dir[p].declares
                             /\ dir'[p].webuisDir = dir[p].webuisDir
<1>1. ASSUME NEW b \in BOOLEAN, dir' = [dir EXCEPT !["root"].modules = b, !["staging"].modules = ~b]
      PROVE  \A p \in Place : /\ dir'[p].webuis = dir[p].webuis /\ dir'[p].declares = dir[p].declares
                             /\ dir'[p].webuisDir = dir[p].webuisDir
  BY <1>1 DEF Place, Dir
<1>2. CASE MoveModules
  BY <1>1, <1>2 DEF MoveModules
<1>3. CASE RollbackModules
  <2>1. dir' = dir \/ dir' = [dir EXCEPT !["root"].modules = TRUE, !["staging"].modules = FALSE]
    BY <1>3 DEF RollbackModules, Place
  <2>. QED
    BY <1>1, <2>1
<1>. QED
  BY <1>2, <1>3

\* No directory comes to hold a release that the package.json next to it does not declare.
LEMMA CurrentStep == TypeOK /\ IInv /\ [Next]_vars => Current'
<1> SUFFICES ASSUME TypeOK, IInv, [Next]_vars
             PROVE  Current'
  OBVIOUS
<1>. USE ConstantsOK, WebuisMatter, NoWebuiIsExtracted, TypeStep
         DEF TypeOK, Dir, Place, Step, Guarded, IInv, Current, Fetched, Before, Goto, Fault, Return, Rename,
           Remove, Exists, locals
<1>1. Begin => Current'
  BY DEF Begin
<1>2. CleanStaging => Current'
  BY DEF CleanStaging
<1>3. CleanBackup => Current'
  BY DEF CleanBackup
<1>4. CleanFails => Current'
  BY DEF CleanFails
<1>5. Download => Current'
  BY DEF Download
<1>6. Extract => Current'
  BY ExtractIs DEF Extract
<1>7. Compare => Current'
  BY DEF Compare
<1>8. FallBack => Current'
  BY DEF FallBack
<1>9. MoveModules => Current'
  <2> SUFFICES ASSUME MoveModules
               PROVE  Current'
    OBVIOUS
  <2>1. dir'["root"].webuis = dir["root"].webuis /\ dir'["root"].declares = dir["root"].declares
        /\ dir'["backup"].webuis = dir["backup"].webuis /\ dir'["backup"].declares = dir["backup"].declares
    BY OnlyModulesMove
  <2>2. Clean(dir["root"]) => Clean(dir'["root"])
    BY <2>1
  <2>3. Clean(dir["backup"]) => Clean(dir'["backup"])
    BY <2>1
  <2>4. pc = "moveModules" /\ pc' = "moveWebuis" /\ failed' = failed
    BY DEF MoveModules
  <2>. QED
    BY <2>2, <2>3, <2>4
<1>10. MoveWebuis => Current'
  <2> SUFFICES ASSUME MoveWebuis
               PROVE  Current'
    OBVIOUS
  <2>1. /\ dir'["root"].webuis = NoWebui
        /\ dir'["staging"].webuis = dir["root"].webuis /\ dir'["staging"].declares = dir["staging"].declares
        /\ dir'["backup"] = dir["backup"]
    BY OnlyWebuisMove
  <2>2. /\ pc = "moveWebuis" /\ pc' = "dropChanged" /\ webuisDirMoved' /\ changedWebuis' = changedWebuis
        /\ failed' = failed
    BY DEF MoveWebuis
  <2>3. Clean(dir'["root"])
    BY <2>1
  <2>4. Dropped' = changedWebuis
    BY <2>2 DEF Dropped
  <2>5. ASSUME Clean(dir["root"]), NEW w \in Webuis, NEW t \in Tags, dir["root"].webuis[w][t] # "none"
        PROVE  dir["staging"].declares[w] \in {"none", t} \/ w \in changedWebuis
    <3>1. dir["root"].declares[w] \in {"none", t}
      BY <2>5 DEF Clean
    <3>2. w \notin changedWebuis => dir["staging"].declares[w] \in {"none", dir["root"].declares[w]}
      BY <2>2
    <3>. QED
      BY <3>1, <3>2
  <2>. QED
    BY <2>1, <2>2, <2>3, <2>4, <2>5
<1>11. MoveWebuisFails => Current'
  <2> SUFFICES ASSUME MoveWebuisFails
               PROVE  Current'
    OBVIOUS
  <2>1. dir' = dir /\ pc = "moveWebuis" /\ pc' = "dropChanged" /\ dir["staging"].webuis = NoWebui
    BY DEF MoveWebuisFails
  <2>2. "readdir" \notin failed' => "readdir" \notin failed
    BY DEF MoveWebuisFails
  <2>. QED
    BY <2>1, <2>2
<1>12. DropChanged => Current'
  <2> SUFFICES ASSUME DropChanged
               PROVE  Current'
    OBVIOUS
  <2>1. dir'["root"] = dir["root"] /\ dir'["backup"] = dir["backup"]
    BY DropChangedIs
  <2>2. pc = "dropChanged" /\ pc' = "swapOut" /\ failed' = failed
    BY DEF DropChanged
  <2>3. "readdir" \notin failed => Clean(dir'["staging"])
    BY <2>2, DropChangedIs DEF Clean
  <2>. QED
    BY <2>1, <2>2, <2>3
<1>13. ReaddirFails => Current'
  BY DEF ReaddirFails
<1>14. SwapOut => Current'
  BY DEF SwapOut
<1>15. SwapIn => Current'
  BY DEF SwapIn, DownloadDue
<1>16. MakeWebuisDir => Current'
  BY DEF MakeWebuisDir, Wanted
<1>17. ASSUME NEW w \in Webuis, DownloadWebui(w)
       PROVE  Current'
  <2>1. /\ pc = "downloading" /\ pc' = "downloading" /\ failed' = failed
        /\ dir'["backup"] = dir["backup"]
    BY <1>17, WithIs DEF DownloadWebui
  <2>2. Clean(dir["root"]) => Clean(dir'["root"])
    BY <1>17, WithIs DEF DownloadWebui, Clean
  <2>. QED
    BY <2>1, <2>2
<1>18. ASSUME NEW w \in Webuis, DownloadWebuiFails(w)
       PROVE  Current'
  <2>1. /\ pc = "downloading" /\ pc' = "downloading" /\ failed \subseteq failed'
        /\ dir'["backup"] = dir["backup"]
    BY <1>18, HalvedIs DEF DownloadWebuiFails
  <2>2. Clean(dir["root"]) => Clean(dir'["root"])
    BY <1>18, HalvedIs DEF DownloadWebuiFails, Clean
  <2>. QED
    BY <2>1, <2>2
<1>19. Downloaded => Current'
  BY DEF Downloaded
<1>20. DropBackup => Current'
  BY DEF DropBackup
<1>21. Throw => Current'
  BY DEF Throw, Debris
<1>22. RollbackModules => Current'
  BY DEF RollbackModules, ModulesToRestore
<1>23. RollbackRoot => Current'
  BY DEF RollbackRoot
<1>24. RollbackFails => Current'
  BY DEF RollbackFails, ModulesToRestore
<1>25. RollbackStaging => Current'
  BY DEF RollbackStaging
<1>26. RollbackStagingFails => Current'
  BY DEF RollbackStagingFails
<1>27. Crash => Current'
  <2> SUFFICES ASSUME Crash
               PROVE  Current'
    OBVIOUS
  <2>1. pc' = "idle" /\ failed \subseteq failed'
    BY DEF Crash
  <2>2. Clean(dir["root"]) => Clean(dir'["root"])
    <3>1. CASE dir' = dir
      BY <3>1
    <3>2. ASSUME NEW w \in Webuis, dir' \in Halved(w)
          PROVE  Clean(dir["root"]) => Clean(dir'["root"])
      BY <3>2, HalvedIs DEF Clean
    <3>. QED
      BY <3>1, <3>2, CrashIs
  <2>. QED
    BY <2>1, <2>2
<1>28. InstallGlobal => Current'
  BY InstalledIsDir DEF InstallGlobal
<1>29. CASE UNCHANGED vars
  BY <1>29 DEF vars, Dropped
<1>. QED
  BY <1>1, <1>2, <1>3, <1>4, <1>5, <1>6, <1>7, <1>8, <1>9, <1>10, <1>11, <1>12, <1>13,
     <1>14, <1>15, <1>16, <1>17, <1>18, <1>19, <1>20, <1>21, <1>22, <1>23, <1>24, <1>25,
     <1>26, <1>27, <1>28, <1>29 DEF Next

\* As long as the installation and what was decided stay, so does what is wanted and what is there.
LEMMA WantedStays ==
  ASSUME TypeOK, dir'["root"] = dir["root"], webuisDirMoved' = webuisDirMoved, changedWebuis' = changedWebuis
  PROVE  Wanted' = Wanted /\ \A w \in Webuis : Present(w)' <=> Present(w)
BY DEF Wanted, Present

\* Of each web UI that is wanted after the swap, the installed package names a release.
LEMMA WantedIsNamed ==
  ASSUME TypeOK, IInv, pc \in After
  PROVE  Wanted \subseteq Webuis /\ \A w \in Wanted : dir["root"].declares[w] \in Tags
<1>1. changedWebuis \subseteq Webuis /\ \A w \in changedWebuis : dir["root"].declares[w] \in Tags
  BY DEF TypeOK, IInv, Fetched
<1>2. dir["root"].declares \in Declared
  BY DEF TypeOK, Place, Dir
<1>3. \A w \in Webuis : dir["root"].declares[w] \in Tags \cup {"none"}
  BY <1>2 DEF Declared
<1>. QED
  BY <1>1, <1>3 DEF Wanted

\* Before they move, a web UI that is to be changed has a release in the new package.json.
LEMMA ChangedIsNamed ==
  ASSUME TypeOK, IInv, pc = "moveWebuis"
  PROVE  \A w \in changedWebuis : dir["staging"].declares[w] \in Tags
<1>1. dir["staging"].declares \in Declared
  BY DEF TypeOK, Place, Dir
<1>2. \A w \in Webuis : dir["staging"].declares[w] \in Tags \cup {"none"}
  BY <1>1 DEF Declared
<1>. QED
  BY <1>2 DEF IInv, Fetched

\* What is to be downloaded is what the two package.json differ in, or everything, and it is there at the end.
LEMMA FetchedStep == TypeOK /\ IInv /\ [Next]_vars => Fetched'
<1> SUFFICES ASSUME TypeOK, IInv, [Next]_vars
             PROVE  Fetched'
  OBVIOUS
<1>. USE ConstantsOK, WebuisMatter, NoWebuiIsExtracted, TypeStep
         DEF TypeOK, Dir, Place, Step, Guarded, IInv, Where, Fetched, Ended, Before, After, InstalledIsComplete, Goto, Fault,
           Return, Rename, Remove, Exists, locals
<1>1. Begin => Fetched'
  BY DEF Begin
<1>2. CleanStaging => Fetched'
  BY DEF CleanStaging
<1>3. CleanBackup => Fetched'
  BY DEF CleanBackup
<1>4. CleanFails => Fetched'
  BY DEF CleanFails
<1>5. Download => Fetched'
  BY DEF Download
<1>6. Extract => Fetched'
  <2> SUFFICES ASSUME Extract
               PROVE  Fetched'
    OBVIOUS
  <2>1. dir'["staging"].webuis = dir["staging"].webuis
    BY ExtractIs
  <2>2. /\ pc = "extract" /\ pc' = "compare" /\ failed' = failed /\ webuisDirMoved' = webuisDirMoved
        /\ result' = result
    BY DEF Extract
  <2>. QED
    BY <2>1, <2>2
<1>7. Compare => Fetched'
  BY DEF Compare
<1>8. FallBack => Fetched'
  BY DEF FallBack
<1>9. MoveModules => Fetched'
  BY DEF MoveModules
<1>10. MoveWebuis => Fetched'
  <2> SUFFICES ASSUME MoveWebuis
               PROVE  Fetched'
    OBVIOUS
  <2>1. dir'["staging"].declares = dir["staging"].declares /\ dir'["staging"].webuisDir
    BY OnlyWebuisMove
  <2>2. pc = "moveWebuis" /\ pc' = "dropChanged" /\ changedWebuis' = changedWebuis /\ result' = result
    BY DEF MoveWebuis
  <2>. QED
    BY <2>1, <2>2, ChangedIsNamed
<1>11. MoveWebuisFails => Fetched'
  <2> SUFFICES ASSUME MoveWebuisFails
               PROVE  Fetched'
    OBVIOUS
  <2>1. /\ pc = "moveWebuis" /\ pc' = "dropChanged" /\ changedWebuis' = changedWebuis /\ result' = result
        /\ dir' = dir /\ ~webuisDirMoved'
    BY DEF MoveWebuisFails
  <2>. QED
    BY <2>1, ChangedIsNamed
<1>12. DropChanged => Fetched'
  BY DropChangedIs DEF DropChanged
<1>13. ReaddirFails => Fetched'
  BY DEF ReaddirFails
<1>14. SwapOut => Fetched'
  BY DEF SwapOut
<1>15. SwapIn => Fetched'
  <2> SUFFICES ASSUME SwapIn
               PROVE  Fetched'
    OBVIOUS
  <2>1. dir'["root"] = dir["staging"]
    BY DEF SwapIn
  <2>2. /\ pc = "swapIn" /\ changedWebuis' = changedWebuis /\ webuisDirMoved' = webuisDirMoved /\ result' = result
        /\ pc' = IF DownloadDue THEN "makeWebuisDir" ELSE "dropBackup"
    BY DEF SwapIn
  <2>3. ~DownloadDue => Wanted' = {} /\ webuisDirMoved
    BY <2>2 DEF DownloadDue, Wanted
  <2>. QED
    BY <2>1, <2>2, <2>3
<1>16. MakeWebuisDir => Fetched'
  BY DEF MakeWebuisDir, Wanted
<1>17. ASSUME NEW w \in Webuis, DownloadWebui(w)
       PROVE  Fetched'
  <2>1. /\ pc = "downloading" /\ pc' = "downloading" /\ changedWebuis' = changedWebuis
        /\ webuisDirMoved' = webuisDirMoved /\ result' = result /\ failed' = failed
        /\ toDownload' = toDownload \ {w}
    BY <1>17 DEF DownloadWebui
  <2>2. /\ dir'["root"].declares = dir["root"].declares /\ dir'["root"].webuisDir = dir["root"].webuisDir
        /\ \A v \in Webuis, t \in Tags :
              dir'["root"].webuis[v][t] =
                  IF v = w /\ t = dir["root"].declares[w] THEN "whole" ELSE dir["root"].webuis[v][t]
    BY <1>17, WithIs DEF DownloadWebui
  <2>3. Wanted' = Wanted
    BY <2>1, <2>2 DEF Wanted
  <2>4. \A v \in Wanted : v = w \/ Present(v) => Present(v)'
    BY <2>1, <2>2, WantedIsNamed DEF Present
  <2>. QED
    BY <2>1, <2>2, <2>3, <2>4
<1>18. ASSUME NEW w \in Webuis, DownloadWebuiFails(w)
       PROVE  Fetched'
  <2>1. /\ pc = "downloading" /\ pc' = "downloading" /\ changedWebuis' = changedWebuis
        /\ webuisDirMoved' = webuisDirMoved /\ result' = result /\ "downloading" \in failed'
        /\ toDownload' = toDownload \ {w}
    BY <1>18 DEF DownloadWebuiFails
  <2>2. dir'["root"].declares = dir["root"].declares /\ dir'["root"].webuisDir = dir["root"].webuisDir
    BY <1>18, HalvedIs DEF DownloadWebuiFails
  <2>3. Wanted' = Wanted
    BY <2>1, <2>2 DEF Wanted
  <2>. QED
    BY <2>1, <2>2, <2>3
<1>19. Downloaded => Fetched'
  <2> SUFFICES ASSUME Downloaded
               PROVE  Fetched'
    OBVIOUS
  <2>1. /\ dir' = dir /\ pc = "downloading" /\ pc' = "dropBackup" /\ changedWebuis' = changedWebuis
        /\ webuisDirMoved' = webuisDirMoved /\ result' = result /\ failed' = failed /\ toDownload = {}
    BY DEF Downloaded
  <2>2. Wanted' = Wanted /\ \A w \in Webuis : Present(w)' <=> Present(w)
    BY <2>1, WantedStays
  <2>3. Wanted \subseteq Webuis
    BY <2>1, WantedIsNamed
  <2>. QED
    BY <2>1, <2>2, <2>3
<1>20. DropBackup => Fetched'
  <2> SUFFICES ASSUME DropBackup
               PROVE  Fetched'
    OBVIOUS
  <2>1. /\ dir' = [dir EXCEPT !["backup"] = NoDir] /\ pc = "dropBackup" /\ pc' = "idle"
        /\ changedWebuis' = changedWebuis /\ webuisDirMoved' = webuisDirMoved /\ failed' = failed
    BY DEF DropBackup
  <2>2. dir'["root"] = dir["root"] /\ dir'["staging"] = dir["staging"] /\ dir'["backup"].pkg = "absent"
    BY <2>1 DEF NoDir
  <2>3. Wanted' = Wanted /\ \A w \in Webuis : Present(w)' <=> Present(w)
    BY <2>1, <2>2, WantedStays
  <2>4. Wanted \subseteq Webuis
    BY <2>1, WantedIsNamed
  <2>5. \A w \in Webuis : Present(w) => dir'["root"].webuis[w][dir'["root"].declares[w]] = "whole"
    BY <2>2 DEF Present
  <2>. QED
    BY <2>1, <2>2, <2>3, <2>4, <2>5
<1>21. Throw => Fetched'
  BY DEF Throw, Debris
<1>22. RollbackModules => Fetched'
  BY DEF RollbackModules, ModulesToRestore
<1>23. RollbackRoot => Fetched'
  BY DEF RollbackRoot
<1>24. RollbackFails => Fetched'
  BY DEF RollbackFails, ModulesToRestore
<1>25. RollbackStaging => Fetched'
  BY DEF RollbackStaging
<1>26. RollbackStagingFails => Fetched'
  BY DEF RollbackStagingFails
<1>27. Crash => Fetched'
  BY CrashIs, HalvedIs DEF Crash
<1>28. InstallGlobal => Fetched'
  BY InstalledIsDir DEF InstallGlobal
<1>29. CASE UNCHANGED vars
  BY <1>29 DEF vars, Wanted, Present
<1>. QED
  BY <1>1, <1>2, <1>3, <1>4, <1>5, <1>6, <1>7, <1>8, <1>9, <1>10, <1>11, <1>12, <1>13,
     <1>14, <1>15, <1>16, <1>17, <1>18, <1>19, <1>20, <1>21, <1>22, <1>23, <1>24, <1>25,
     <1>26, <1>27, <1>28, <1>29 DEF Next

\* Where the daemon finds its web UIs survives each step, or the failure of the step is one of those named.
LEMMA ServedStep == TypeOK /\ IInv /\ [Next]_vars => Served'
<1> SUFFICES ASSUME TypeOK, IInv, [Next]_vars
             PROVE  Served'
  OBVIOUS
<1>. USE ConstantsOK, WebuisMatter, NoWebuiIsExtracted, TypeStep
         DEF TypeOK, Dir, Place, Step, Guarded, IInv, Where, Fetched, Served, Ended, Before, After, Unrecovered,
           WebuisLost, Window, Goto, Fault, Return, Rename, Remove, Exists, locals
<1>1. Begin => Served'
  <2> SUFFICES ASSUME Begin
               PROVE  Served'
    OBVIOUS
  <2>1. /\ dir'["root"].webuis = dir["root"].webuis /\ dir'["root"].webuisDir = dir["root"].webuisDir
        /\ pc' = "cleanStaging" /\ sound' = Usable
    BY DEF Begin
  <2>2. Usable => dir["root"].webuisDir /\ Whole(dir["root"])
    BY DEF Usable, Whole
  <2>. QED
    BY <2>1, <2>2
<1>2. CleanStaging => Served'
  BY DEF CleanStaging
<1>3. CleanBackup => Served'
  BY DEF CleanBackup
<1>4. CleanFails => Served'
  BY DEF CleanFails
<1>5. Download => Served'
  BY DEF Download
<1>6. Extract => Served'
  <2> SUFFICES ASSUME Extract
               PROVE  Served'
    OBVIOUS
  <2>1. dir'["root"] = dir["root"]
    BY ExtractIs
  <2>2. /\ pc = "extract" /\ pc' = "compare" /\ failed' = failed /\ sound' = sound
        /\ webuisDirMoved' = webuisDirMoved
    BY DEF Extract
  <2>. QED
    BY <2>1, <2>2
<1>7. Compare => Served'
  BY DEF Compare
<1>8. FallBack => Served'
  BY DEF FallBack
<1>9. MoveModules => Served'
  <2> SUFFICES ASSUME MoveModules
               PROVE  Served'
    OBVIOUS
  <2>1. dir'["root"].webuis = dir["root"].webuis /\ dir'["root"].webuisDir = dir["root"].webuisDir
    BY OnlyModulesMove
  <2>2. Whole(dir["root"]) => Whole(dir'["root"])
    BY <2>1
  <2>3. /\ pc = "moveModules" /\ pc' = "moveWebuis" /\ failed' = failed /\ sound' = sound
        /\ webuisDirMoved' = webuisDirMoved
    BY DEF MoveModules
  <2>. QED
    BY <2>1, <2>2, <2>3
<1>10. MoveWebuis => Served'
  BY OnlyWebuisMove DEF MoveWebuis
<1>11. MoveWebuisFails => Served'
  BY DEF MoveWebuisFails
<1>12. DropChanged => Served'
  <2> SUFFICES ASSUME DropChanged
               PROVE  Served'
    OBVIOUS
  <2>1. dir'["root"] = dir["root"]
    BY DropChangedIs
  <2>2. Whole(dir["staging"]) => Whole(dir'["staging"])
    BY DropChangedIs DEF Whole
  <2>3. /\ pc = "dropChanged" /\ pc' = "swapOut" /\ failed' = failed /\ sound' = sound
        /\ webuisDirMoved' = webuisDirMoved
    BY DEF DropChanged
  <2>. QED
    BY <2>1, <2>2, <2>3
<1>13. ReaddirFails => Served'
  BY DEF ReaddirFails
<1>14. SwapOut => Served'
  BY DEF SwapOut
<1>15. SwapIn => Served'
  BY DEF SwapIn, DownloadDue
<1>16. MakeWebuisDir => Served'
  BY DEF MakeWebuisDir, Wanted
<1>17. ASSUME NEW w \in Webuis, DownloadWebui(w)
       PROVE  Served'
  <2>1. Whole(dir["root"]) => Whole(dir'["root"])
    BY <1>17, WithIs DEF DownloadWebui, Whole
  <2>2. /\ pc = "downloading" /\ pc' = "downloading" /\ failed' = failed /\ sound' = sound
        /\ webuisDirMoved' = webuisDirMoved
    BY <1>17 DEF DownloadWebui
  <2>. QED
    BY <2>1, <2>2
<1>18. ASSUME NEW w \in Webuis, DownloadWebuiFails(w)
       PROVE  Served'
  BY <1>18, HalvedIs DEF DownloadWebuiFails
<1>19. Downloaded => Served'
  BY DEF Downloaded
<1>20. DropBackup => Served'
  BY DEF DropBackup
<1>21. Throw => Served'
  BY DEF Throw, Debris
<1>22. RollbackModules => Served'
  BY DEF RollbackModules, ModulesToRestore
<1>23. RollbackRoot => Served'
  <2> SUFFICES ASSUME RollbackRoot
               PROVE  Served'
    OBVIOUS
  <2>1. /\ pc = "rollbackRoot" /\ pc' = "rollbackStaging" /\ failed' = failed /\ sound' = sound
        /\ webuisDirMoved' = webuisDirMoved
    BY DEF RollbackRoot
  <2>2. failed \cap Unrecovered = {} => dir' = dir
    BY <2>1 DEF RollbackRoot, Rollback, Starts
  <2>. QED
    BY <2>1, <2>2
<1>24. RollbackFails => Served'
  BY DEF RollbackFails, ModulesToRestore
<1>25. RollbackStaging => Served'
  BY DEF RollbackStaging
<1>26. RollbackStagingFails => Served'
  BY DEF RollbackStagingFails
<1>27. Crash => Served'
  BY CrashIs, HalvedIs DEF Crash
<1>28. InstallGlobal => Served'
  <2> SUFFICES ASSUME InstallGlobal
               PROVE  Served'
    OBVIOUS
  <2>1. Usable' => dir'["root"].webuisDir /\ Whole(dir'["root"])
    BY DEF Usable, Whole
  <2>2. sound' = Usable' /\ pc' = "idle"
    BY DEF InstallGlobal
  <2>. QED
    BY <2>1, <2>2
<1>29. CASE UNCHANGED vars
  BY <1>29 DEF vars
<1>. QED
  BY <1>1, <1>2, <1>3, <1>4, <1>5, <1>6, <1>7, <1>8, <1>9, <1>10, <1>11, <1>12, <1>13,
     <1>14, <1>15, <1>16, <1>17, <1>18, <1>19, <1>20, <1>21, <1>22, <1>23, <1>24, <1>25,
     <1>26, <1>27, <1>28, <1>29 DEF Next

-----------------------------------------------------------------------------

\* The invariant holds before the first update.
LEMMA InitInvariant == Init => TypeOK /\ IInv
<1> SUFFICES ASSUME Init
             PROVE  TypeOK /\ IInv
  OBVIOUS
<1>1. PICK d \in NpmInstalled : dir = [p \in Place |-> IF p = "root" THEN d ELSE NoDir]
  BY DEF Init
<1>2. d \in Dir /\ NoDir \in Dir /\ d.pkg = "new" /\ d.modules /\ d.webuisDir /\ Clean(d)
  BY InstalledIsDir, NoWebuiIsExtracted
<1>3. dir \in [Place -> Dir] /\ dir["root"] = d
  BY <1>1, <1>2 DEF Place
<1>4. pc = "idle" /\ result = "none" /\ failed = {} /\ faults = 0 /\ runs = 0 /\ sound = Usable
  BY DEF Init
<1>5. nodeModulesMoved \in BOOLEAN /\ webuisDirMoved \in BOOLEAN
  BY DEF Init
<1>6. changedWebuis \in SUBSET Webuis /\ toDownload \in SUBSET Webuis
  BY DEF Init
<1>7. sound \in BOOLEAN
  BY <1>4 DEF Usable, Starts
<1>8. TypeOK
  BY ConstantsOK, <1>3, <1>4, <1>5, <1>6, <1>7 DEF TypeOK
<1>9. Starts /\ (Usable => Whole(dir["root"]))
  BY <1>2, <1>3 DEF Starts, Usable, Whole
<1>10. Where /\ Rollback /\ Current
  BY <1>2, <1>3, <1>4 DEF Where, Rollback, Current, Before, After
<1>11. Ended
  BY <1>2, <1>3, <1>4, <1>9 DEF Ended, StartsAfterwards, ModulesSurvive, Place
<1>12. Fetched
  BY <1>4 DEF Fetched, InstalledIsComplete, Before, After
<1>13. Served
  BY <1>2, <1>3, <1>4, <1>9 DEF Served, Before, After
<1>. QED
  BY <1>8, <1>10, <1>11, <1>12, <1>13 DEF IInv

\* TypeOK: every value that fastInstallGlobal's variables and the three directories take.
THEOREM TypeCorrect == Spec => []TypeOK
BY InitInvariant, TypeStep, PTL DEF Spec

\* IInv holds in every reachable state.
THEOREM Invariant == Spec => [](TypeOK /\ IInv)
<1>1. TypeOK /\ IInv /\ [Next]_vars => (TypeOK /\ IInv)'
  BY TypeStep, WhereStep, RollbackStep, EndedStep, FetchedStep, CurrentStep, ServedStep DEF IInv
<1>. QED
  BY InitInvariant, <1>1, PTL DEF Spec

\* StartsAfterwards: after fastInstallGlobal the command line starts and an update can be repeated,
\* unless a step failed that its catch block cannot make good or the kill fell into the swap.
THEOREM ProgramStarts == Spec => []StartsAfterwards
<1>1. IInv => StartsAfterwards
  BY DEF IInv, Ended
<1>. QED
  BY Invariant, <1>1, PTL

\* UsableAfterwards: and with the web UIs that startDaemonServer reads, unless a step failed that
\* loses them with the staging directory, never made them, or left one half extracted.
THEOREM DaemonStarts == Spec => []UsableAfterwards
<1>1. IInv => UsableAfterwards
  <2> SUFFICES ASSUME IInv, pc = "idle", sound, failed \cap (Unrecovered \cup WebuisLost) = {},
                      result = "crashed" => failed \cap Window = {}
               PROVE  Usable
    BY DEF UsableAfterwards
  <2>1. Starts
    BY DEF IInv, Ended, StartsAfterwards
  <2>2. dir["root"].webuisDir /\ Whole(dir["root"])
    BY DEF IInv, Served
  <2>. QED
    BY <2>1, <2>2 DEF Usable, Whole
<1>. QED
  BY Invariant, <1>1, PTL

\* ModulesSurvive: node_modules, which fastInstallGlobal never downloads again, is always somewhere.
THEOREM ModulesAreNeverLost == Spec => []ModulesSurvive
<1>1. IInv => ModulesSurvive
  BY DEF IInv, Ended
<1>. QED
  BY Invariant, <1>1, PTL

\* InstalledIsComplete: "true" means a whole new installation without leftovers.
THEOREM TrueMeansInstalled == Spec => []InstalledIsComplete
<1>1. IInv => InstalledIsComplete
  BY DEF IInv, Fetched
<1>. QED
  BY Invariant, <1>1, PTL

\* NoOutdatedWebui: moving dist/webuis from version to version, each with web UIs and releases of its
\* own, never serves an old release of a web UI that the installed version declares.
THEOREM WebuisAreCurrent == Spec => []NoOutdatedWebui
<1>1. IInv => NoOutdatedWebui
  BY DEF IInv, Current, Clean, NoOutdatedWebui
<1>. QED
  BY Invariant, <1>1, PTL
=============================================================================

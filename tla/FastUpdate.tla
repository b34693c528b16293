----------------------------- MODULE FastUpdate -----------------------------
(***************************************************************************)
(* fastInstallGlobal (src/update/fast-update.ts): the update that swaps a  *)
(* directory built from the new tarball and the old node_modules and web   *)
(* UIs for the installation, and rolls back when a step fails.             *)
(*                                                                         *)
(* A step is one call on the file system or the network.  Any of them may  *)
(* fail, and the process may be killed between two of them.  Updates       *)
(* follow one another: each starts from what the last one left.            *)
(***************************************************************************)
EXTENDS Naturals, FiniteSets

CONSTANTS
    Webuis,    \* web UIs that some version of the package declares
    Tags,      \* their releases
    MaxFaults, \* bound on failed steps and crashes
    MaxRuns    \* bound on updates

ASSUME ConstantsOK == "none" \notin Tags /\ MaxFaults \in Nat /\ MaxRuns \in Nat

VARIABLES
    dir,             \* the three directories: installRoot, stagingDir, backupDir
    pc,              \* the step that is due
    nodeModulesMoved, webuisDirMoved, changedWebuis,
    toDownload,      \* web UIs still to be downloaded
    result,          \* how the last update ended
    sound,           \* observed: whether the daemon could start when the update began
    failed,          \* steps of this update that failed, or at which it was killed; "readdir" if
                     \* it failed in any update since the last full install
    faults, runs

vars == <<dir, pc, nodeModulesMoved, webuisDirMoved, changedWebuis, toDownload, result, sound, failed, faults, runs>>
locals == <<nodeModulesMoved, webuisDirMoved, changedWebuis, toDownload>>

Place == {"root", "staging", "backup"}

\* A package.json names the release of each web UI, or "none".  dist/webuis has a directory for each
\* release that was extracted; one that was half extracted lacks index_backup_no_rpc.html.
Declared == [Webuis -> Tags \cup {"none"}]
Extracted == [Webuis -> [Tags -> {"none", "half", "whole"}]]
NoWebui == [w \in Webuis |-> [t \in Tags |-> "none"]]

Dir == [pkg : {"absent", "partial", "old", "new"}, declares : Declared, modules : BOOLEAN,
        webuisDir : BOOLEAN, webuis : Extracted]

NoDir == [pkg |-> "absent", declares |-> [w \in Webuis |-> "none"], modules |-> FALSE,
          webuisDir |-> FALSE, webuis |-> NoWebui]

\* Steps inside the try block that throw when they fail, and all steps.
Guarded == {"download", "extract", "compare", "moveModules", "dropChanged", "swapOut", "swapIn",
            "makeWebuisDir", "dropBackup"}
Step == Guarded \cup {"cleanStaging", "cleanBackup", "moveWebuis", "downloading", "rollbackModules",
                      "rollbackRoot", "rollbackStaging"}

TypeOK ==
    /\ dir \in [Place -> Dir]
    /\ pc \in Step \cup {"idle"}
    /\ nodeModulesMoved \in BOOLEAN /\ webuisDirMoved \in BOOLEAN
    /\ changedWebuis \in SUBSET Webuis /\ toDownload \in SUBSET Webuis
    /\ result \in {"none", "installed", "fallback", "threw", "crashed"}
    /\ sound \in BOOLEAN /\ failed \in SUBSET (Step \cup {"readdir"})
    /\ faults \in 0..MaxFaults /\ runs \in 0..MaxRuns

Exists(p) == dir[p].pkg # "absent"

\* The program starts from the installation.
Starts == dir["root"].pkg \in {"old", "new"} /\ dir["root"].modules

\* So does the daemon: startDaemonServer lists dist/webuis and reads a file of every directory there.
Usable == Starts /\ dir["root"].webuisDir /\ \A w \in Webuis, t \in Tags : dir["root"].webuis[w][t] # "half"

\* What "npm install -g" leaves: its postinstall script warns of a web UI that it cannot download or
\* extract, and insists on one directory.
NpmInstalled ==
    {d \in [pkg : {"new"}, declares : Declared, modules : {TRUE}, webuisDir : {TRUE}, webuis : Extracted] :
        /\ \A w \in Webuis, t \in Tags : t # d.declares[w] => d.webuis[w][t] = "none"
        /\ d.webuis = NoWebui => \A w \in Webuis : d.declares[w] = "none"}

Init ==
    /\ \E d \in NpmInstalled : dir = [p \in Place |-> IF p = "root" THEN d ELSE NoDir]
    /\ pc = "idle"
    /\ nodeModulesMoved = FALSE /\ webuisDirMoved = FALSE
    /\ changedWebuis = {} /\ toDownload = {}
    /\ result = "none" /\ sound = Usable /\ failed = {}
    /\ faults = 0 /\ runs = 0

-----------------------------------------------------------------------------

Rename(p, q) == dir' = [dir EXCEPT ![q] = dir[p], ![p] = NoDir]
Remove(p)    == dir' = [dir EXCEPT ![p] = NoDir]

\* A step that works: the next one is due.
Goto(this, next) ==
    /\ pc = this /\ pc' = next
    /\ UNCHANGED <<sound, failed, faults, runs>>

Fault(step) ==
    /\ faults < MaxFaults /\ faults' = faults + 1
    /\ failed' = failed \cup {step}
    /\ UNCHANGED <<sound, runs>>

Return(r) ==
    /\ result' = r
    /\ pc' = "idle"

Begin ==
    /\ pc = "idle" /\ Starts /\ runs < MaxRuns
    /\ pc' = "cleanStaging"
    /\ runs' = runs + 1
    /\ failed' = failed \cap {"readdir"}
    /\ result' = "none" /\ sound' = Usable
    /\ dir' = [dir EXCEPT !["root"].pkg = "old"]
    /\ nodeModulesMoved' = FALSE /\ webuisDirMoved' = FALSE
    /\ changedWebuis' = {} /\ toDownload' = {}
    /\ UNCHANGED faults

CleanStaging == Goto("cleanStaging", "cleanBackup") /\ Remove("staging") /\ UNCHANGED <<locals, result>>

CleanBackup == Goto("cleanBackup", "download") /\ Remove("backup") /\ UNCHANGED <<locals, result>>

\* The two come before the try block.
CleanFails ==
    /\ pc \in {"cleanStaging", "cleanBackup"}
    /\ Fault(pc)
    /\ Return("threw")
    /\ UNCHANGED <<dir, locals>>

\* mkdir and "npm pack".
Download ==
    /\ Goto("download", "extract")
    /\ dir' = [dir EXCEPT !["staging"].pkg = "partial"]
    /\ UNCHANGED <<locals, result>>

Extract ==
    /\ Goto("extract", "compare")
    /\ \E declares \in Declared : dir' = [dir EXCEPT !["staging"].pkg = "new", !["staging"].declares = declares]
    /\ UNCHANGED <<locals, result>>

\* The dependencies are the same; some of the web UIs that the new version declares may be of
\* another release.  One that it no longer declares is not among them: its directory moves along.
Compare ==
    /\ Goto("compare", "moveModules")
    /\ changedWebuis' = {w \in Webuis : dir["staging"].declares[w] \notin {"none", dir["root"].declares[w]}}
    /\ UNCHANGED <<dir, nodeModulesMoved, webuisDirMoved, toDownload, result>>

\* They differ, or the directories are on different devices (EXDEV): full install.
FallBack ==
    /\ pc \in {"compare", "moveModules"}
    /\ Remove("staging")
    /\ Return("fallback")
    /\ UNCHANGED <<locals, sound, failed, faults, runs>>

MoveModules ==
    /\ Goto("moveModules", "moveWebuis")
    /\ dir' = [dir EXCEPT !["root"].modules = FALSE, !["staging"].modules = TRUE]
    /\ nodeModulesMoved' = TRUE
    /\ UNCHANGED <<webuisDirMoved, changedWebuis, toDownload, result>>

MoveWebuis ==
    /\ Goto("moveWebuis", "dropChanged")
    /\ dir["root"].webuisDir
    /\ dir' = [dir EXCEPT
                 !["staging"] = [@ EXCEPT !.webuisDir = TRUE, !.webuis = dir["root"].webuis],
                 !["root"]    = [@ EXCEPT !.webuisDir = FALSE, !.webuis = NoWebui]]
    /\ webuisDirMoved' = TRUE
    /\ UNCHANGED <<nodeModulesMoved, changedWebuis, toDownload, result>>

\* There is no such directory, or it cannot be moved: web UIs will be downloaded afresh.
MoveWebuisFails ==
    /\ pc = "moveWebuis" /\ pc' = "dropChanged"
    /\ IF dir["root"].webuisDir THEN Fault("moveWebuis") ELSE UNCHANGED <<sound, failed, faults, runs>>
    /\ UNCHANGED <<dir, locals, result>>

\* Mutant: web UIs are reused whatever their release.
ReuseAll == {}

Dropped == IF webuisDirMoved THEN changedWebuis ELSE {}

DropChanged ==
    /\ Goto("dropChanged", "swapOut")
    /\ dir' = [dir EXCEPT !["staging"].webuis = [w \in Webuis |-> IF w \in Dropped THEN NoWebui[w] ELSE @[w]]]
    /\ UNCHANGED <<locals, result>>

\* A directory that cannot be listed counts as empty.
ReaddirFails ==
    /\ pc = "dropChanged" /\ pc' = "swapOut" /\ Dropped # {}
    /\ Fault("readdir")
    /\ UNCHANGED <<dir, locals, result>>

SwapOut == Goto("swapOut", "swapIn") /\ Rename("root", "backup") /\ UNCHANGED <<locals, result>>

\* Mutant: without changes there is nothing to do, moved or not.
OnlyChanges == changedWebuis # {}

DownloadDue == changedWebuis # {} \/ ~webuisDirMoved

SwapIn ==
    /\ Goto("swapIn", IF DownloadDue THEN "makeWebuisDir" ELSE "dropBackup")
    /\ Rename("staging", "root")
    /\ nodeModulesMoved' = FALSE
    /\ UNCHANGED <<webuisDirMoved, changedWebuis, toDownload, result>>

\* The web UIs to download.
Wanted == IF webuisDirMoved THEN changedWebuis ELSE {w \in Webuis : dir["root"].declares[w] # "none"}

MakeWebuisDir ==
    /\ Goto("makeWebuisDir", "downloading")
    /\ dir' = [dir EXCEPT !["root"].webuisDir = TRUE]
    /\ toDownload' = Wanted
    /\ UNCHANGED <<nodeModulesMoved, webuisDirMoved, changedWebuis, result>>

\* The directory of the release of w that the installed package declares.
With(w, extracted) == [dir EXCEPT !["root"].webuis[w][dir["root"].declares[w]] = extracted]

DownloadWebui(w) ==
    /\ w \in toDownload
    /\ Goto("downloading", "downloading")
    /\ dir' = With(w, "whole")
    /\ toDownload' = toDownload \ {w}
    /\ UNCHANGED <<nodeModulesMoved, webuisDirMoved, changedWebuis, result>>

\* A download that fails is only a warning; it may have extracted a part.
Halved(w) ==
    {dir} \cup IF dir["root"].webuis[w][dir["root"].declares[w]] = "none" THEN {With(w, "half")} ELSE {}

DownloadWebuiFails(w) ==
    /\ pc = "downloading" /\ w \in toDownload
    /\ Fault("downloading")
    /\ toDownload' = toDownload \ {w}
    /\ dir' \in Halved(w)
    /\ UNCHANGED <<pc, nodeModulesMoved, webuisDirMoved, changedWebuis, result>>

Downloaded ==
    /\ toDownload = {}
    /\ Goto("downloading", "dropBackup")
    /\ UNCHANGED <<dir, locals, result>>

\* Mutant: the backup stays.
LeaveBackup == pc = "dropBackup" /\ Return("installed") /\ UNCHANGED <<dir, locals, sound, failed, faults, runs>>

DropBackup ==
    /\ pc = "dropBackup"
    /\ Remove("backup")
    /\ Return("installed")
    /\ UNCHANGED <<locals, sound, failed, faults, runs>>

-----------------------------------------------------------------------------
(* Failure *)

\* What a failing step has done by then.
Debris ==
    CASE pc \in {"download", "extract"} -> [dir EXCEPT !["staging"].pkg = "partial"]
      [] pc = "dropBackup"              -> [dir EXCEPT !["backup"].pkg = "partial"]
      [] OTHER                          -> dir

Throw ==
    /\ pc \in Guarded
    /\ Fault(pc)
    /\ dir' = Debris
    /\ pc' = "rollbackModules"
    /\ UNCHANGED <<locals, result>>

\* Mutant: the catch block forgets node_modules.
NeverBack == FALSE

ModulesToRestore == nodeModulesMoved

\* The rename finds its target only when the installation is in its place.
RollbackModules ==
    /\ Goto("rollbackModules", "rollbackRoot")
    /\ IF ModulesToRestore /\ Exists("root")
       THEN dir' = [dir EXCEPT !["staging"].modules = FALSE, !["root"].modules = TRUE]
       ELSE UNCHANGED dir
    /\ UNCHANGED <<locals, result>>

RollbackRoot ==
    /\ Goto("rollbackRoot", "rollbackStaging")
    /\ IF Exists("root") THEN UNCHANGED dir ELSE Rename("backup", "root")
    /\ UNCHANGED <<locals, result>>

\* Both are best effort.
RollbackFails ==
    /\ \/ pc = "rollbackModules" /\ ModulesToRestore /\ Exists("root") /\ pc' = "rollbackRoot"
       \/ pc = "rollbackRoot" /\ ~Exists("root") /\ pc' = "rollbackStaging"
    /\ Fault(pc)
    /\ UNCHANGED <<dir, locals, result>>

RollbackStaging ==
    /\ pc = "rollbackStaging"
    /\ Remove("staging")
    /\ Return("fallback")
    /\ UNCHANGED <<locals, sound, failed, faults, runs>>

RollbackStagingFails ==
    /\ pc = "rollbackStaging"
    /\ Fault(pc)
    /\ Return("threw")
    /\ UNCHANGED <<dir, locals>>

\* The process is killed, perhaps while it extracts a web UI.
Crash ==
    /\ pc # "idle"
    /\ Fault(pc)
    /\ Return("crashed")
    /\ dir' = dir \/ (pc = "downloading" /\ \E w \in toDownload : dir' \in Halved(w))
    /\ UNCHANGED locals

\* install.ts, or the user after a crash, goes on with "npm install -g".
InstallGlobal ==
    /\ pc = "idle" /\ result \in {"fallback", "threw", "crashed"}
    /\ \E d \in NpmInstalled : dir' = [dir EXCEPT !["root"] = d]
    /\ result' = "none" /\ sound' = Usable'
    /\ failed' = {}
    /\ UNCHANGED <<pc, locals, faults, runs>>

Next ==
    \/ Begin \/ CleanStaging \/ CleanBackup \/ CleanFails
    \/ Download \/ Extract \/ Compare \/ FallBack \/ MoveModules
    \/ MoveWebuis \/ MoveWebuisFails \/ DropChanged \/ ReaddirFails \/ SwapOut \/ SwapIn \/ MakeWebuisDir
    \/ \E w \in Webuis : DownloadWebui(w) \/ DownloadWebuiFails(w)
    \/ Downloaded \/ DropBackup
    \/ Throw \/ RollbackModules \/ RollbackRoot \/ RollbackFails \/ RollbackStaging \/ RollbackStagingFails
    \/ Crash \/ InstallGlobal

Spec == Init /\ [][Next]_vars

-----------------------------------------------------------------------------
(* Properties *)

\* The steps between the removal of node_modules from the installation and the end of the swap.
Window == {"moveWebuis", "dropChanged", "swapOut", "swapIn"}

\* The failures after which node_modules is gone, and those after which dist/webuis is gone, never
\* made, or holds half a web UI: the catch block puts node_modules back, but not the web UIs.
Unrecovered == {"swapIn", "rollbackModules", "rollbackRoot"}
WebuisLost == {"downloading"} \cup IF webuisDirMoved THEN {"dropChanged", "swapOut"} ELSE {"makeWebuisDir"}

\* The update returned, threw or was killed: unless one of the rollback's own renames or the second
\* rename of the swap failed, or the kill fell into the window of the swap, the program can be
\* started from the installation (the old or the new one, with its node_modules), and the update
\* be repeated.
StartsAfterwards ==
    pc = "idle" /\ failed \cap Unrecovered = {} /\ (result = "crashed" => failed \cap Window = {}) => Starts

\* Unless moreover one of those steps failed, an installation from which the daemon could start when
\* the update began is still, or again, one from which it can.
UsableAfterwards ==
    /\ pc = "idle" /\ sound
    /\ failed \cap (Unrecovered \cup WebuisLost) = {} /\ (result = "crashed" => failed \cap Window = {})
    => Usable

\* Wherever it is killed, node_modules still exists in one of the three directories, as long as
\* none of those three steps failed: an interrupted update can be repaired by hand.
ModulesSurvive == failed \cap Unrecovered = {} => \E p \in Place : dir[p].modules

\* Of a web UI that the installed package declares, no other release is served, whatever releases
\* were declared, or not declared, by earlier versions, and whatever failed downloads, rollbacks and
\* kills they went through, unless the directory could not be listed.
NoOutdatedWebui ==
    "readdir" \notin failed =>
        \A w \in Webuis, t \in Tags :
            dir["root"].webuis[w][t] # "none" => dir["root"].declares[w] \in {"none", t}

\* "true" means a complete new installation and no leftovers: even if the old dist/webuis was lost, there
\* is one, and unless a download failed it holds every web UI that was to be downloaded, whole.
InstalledIsComplete ==
    result = "installed" =>
        /\ dir["root"].pkg = "new" /\ dir["root"].modules /\ ~Exists("staging") /\ ~Exists("backup")
        /\ dir["root"].webuisDir
        /\ "downloading" \notin failed => \A w \in Wanted : dir["root"].webuis[w][dir["root"].declares[w]] = "whole"

\* test/update/fast-update.test.ts:192, "returns false and restores node_modules when swap fails
\* after node_modules move": with one failure, of either rename of the swap.
SwapFailureRestoresModules ==
    result = "fallback" /\ failed \cap {"swapOut", "swapIn"} # {} => dir["root"].modules
=============================================================================

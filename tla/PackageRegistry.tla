-------------------------- MODULE PackageRegistry --------------------------
(***************************************************************************)
(* Challenge and page sort packages: their directories under the data path, *)
(* the commands that install and remove them, and the registry of pkc-js   *)
(* the daemon loads them into (src/common-utils/package-registry.ts, with  *)
(* the install and remove commands and the reload endpoints of             *)
(* src/webui/daemon-server.ts).  One kind of package; the two share no     *)
(* state.                                                                  *)
(*                                                                         *)
(* Clients are command-line processes.  A step is one file-system call of  *)
(* a client, or what the daemon runs between two awaits.  What installPackage *)
(* does in its own temporary directory until the swap is one step.         *)
(***************************************************************************)
EXTENDS Naturals, FiniteSets

CONSTANTS
    Names,        \* package names
    Scoped,       \* those of the one scope, @scope/name
    Builtins,     \* those pkc-js ships an entry of its own for
    Versions,
    Clients,
    Reloads,      \* slots for concurrent reloads in the daemon
    Communities,
    Wanted,       \* the names a community may take up
    MaxCommands,  \* bound on commands
    MaxStarts,    \* bound on starts of the daemon
    MaxFaults     \* bound on kills, failing renames and failing imports

NotContents == {"absent", "partial", "none", "builtin"}

ASSUME ConstantsOK ==
    /\ Scoped \subseteq Names /\ Builtins \subseteq Names /\ Wanted \subseteq Names
    /\ Versions \cap NotContents = {}
    /\ MaxCommands \in Nat /\ MaxStarts \in Nat /\ MaxFaults \in Nat

VARIABLES
    dir,       \* what <data path>/<kind>/<name> holds
    scope,     \* whether the directory of the scope exists
    backup,    \* what previous-install in a client's temporary directory holds
    cli,       \* a client and its command
    daemon,    \* "down", "starting" (loading packages) or "up"
    registry,  \* PKC[registryKey]
    shadowed,  \* shadowedByRegistry: what a name held before, "absent" if not in it
    modules,   \* the daemon's module cache, by package and key of the url
    reload,    \* the runs of loadPackagesIntoPKC
    uses,      \* the packages a community's settings name
    installed, \* observed: installed, and since then neither touched by a remove nor lost by a restore
               \* that failed or that put back what a remove had touched
    raced,     \* observed: something ran concurrently with a reload
    commands, starts, faults

disk == <<dir, scope, backup, installed>>
node == <<daemon, registry, shadowed, modules, starts>>
vars == <<disk, cli, node, reload, uses, raced, commands, faults>>

Contents == Versions \cup {"absent", "partial"}
Factories == Versions \cup {"none", "builtin"}

\* What pkc-js itself registers.
BuiltIn(n) == IF n \in Builtins THEN "builtin" ELSE "none"

NoCommand == [pc |-> "idle", name |-> "none", version |-> "none", exists |-> FALSE, ok |-> FALSE,
              found |-> FALSE, unread |-> {}, edited |-> {}]

NoReload == [pc |-> "idle", client |-> "none", todo |-> {}, pkgs |-> {}, name |-> "none",
             key |-> "none", factory |-> "none", loaded |-> {}]

ClientPc == {"idle", "stage", "access", "aside", "scope", "place", "restore", "cleanup",
             "check", "remove", "unlink", "unscope", "rmdir", "reload", "waiting", "killed"}
ReloadPc == {"idle", "readdir", "read", "import", "hashed", "imported"}

TypeOK ==
    /\ dir \in [Names -> Contents] /\ scope \in BOOLEAN
    /\ backup \in [Clients -> Contents]
    /\ cli \in [Clients -> [pc : ClientPc, name : Names \cup {"none"}, version : Versions \cup {"none"},
                            exists : BOOLEAN, ok : BOOLEAN, found : BOOLEAN,
                            unread : SUBSET Communities, edited : SUBSET Communities]]
    /\ daemon \in {"down", "starting", "up"}
    /\ registry \in [Names -> Factories]
    /\ shadowed \in [Names -> Factories \cup {"absent"}]
    /\ modules \in [Names -> [Versions -> Versions \cup {"none"}]]
    /\ reload \in [Reloads -> [pc : ReloadPc, client : Clients \cup {"none"}, todo : SUBSET Names,
                               pkgs : SUBSET Names, name : Names \cup {"none"},
                               key : Versions \cup {"none"}, factory : Versions \cup {"none"},
                               loaded : SUBSET Names]]
    /\ uses \in [Communities -> SUBSET Names]
    /\ installed \in SUBSET Names /\ raced \in BOOLEAN
    /\ commands \in 0..MaxCommands /\ starts \in 0..MaxStarts /\ faults \in 0..MaxFaults

Init ==
    /\ dir \in [Names -> Versions \cup {"absent"}]
    /\ installed = {n \in Names : dir[n] # "absent"}
    /\ scope = (Scoped \cap installed # {})
    /\ backup = [c \in Clients |-> "absent"]
    /\ cli = [c \in Clients |-> NoCommand]
    /\ daemon = "down"
    /\ registry = [n \in Names |-> BuiltIn(n)]
    /\ shadowed = [n \in Names |-> "absent"]
    /\ modules = [n \in Names |-> [v \in Versions |-> "none"]]
    /\ reload = [r \in Reloads |-> NoReload]
    /\ uses = [k \in Communities |-> {}]
    /\ raced = FALSE
    /\ commands = 0 /\ starts = 0 /\ faults = 0

Reloading == \E r \in Reloads : reload[r].pc # "idle"

Fault == faults < MaxFaults /\ faults' = faults + 1
NoFault == UNCHANGED faults

-----------------------------------------------------------------------------
(* The file system *)

\* A change of a package directory, seen by any reload that runs.
Put(n, contents) ==
    /\ dir' = [dir EXCEPT ![n] = contents]
    /\ raced' = (raced \/ Reloading)

Same == UNCHANGED <<dir, raced>>

\* The command goes on; one that is done leaves nothing behind.
Step(c, next) == cli' = [cli EXCEPT ![c] = IF next = "idle" THEN NoCommand ELSE [@ EXCEPT !.pc = next]]

Goto(c, this, next) == cli[c].pc = this /\ Step(c, next)

\* Renaming a directory needs the directory it goes to, and nothing in its place but, where the
\* system allows it, a directory that is empty: a remove may have got so far.
Takes(n) == dir[n] \in {"absent", "partial"} /\ (n \in Scoped => scope)
Vacant(n) == dir[n] = "absent" /\ Takes(n)

-----------------------------------------------------------------------------
(* installPackage *)

Install(c, n, v) ==
    /\ cli[c].pc = "idle" /\ commands < MaxCommands
    /\ cli' = [cli EXCEPT ![c] = [NoCommand EXCEPT !.pc = "stage", !.name = n, !.version = v]]
    /\ commands' = commands + 1
    /\ UNCHANGED <<disk, node, reload, uses, raced, faults>>

\* npm pack, extraction, npm install, verification and validation: any of them may refuse the package.
Stage(c) ==
    /\ Goto(c, "stage", "access") \/ Goto(c, "stage", "cleanup")
    /\ UNCHANGED <<disk, node, reload, uses, raced, commands, faults>>

Access(c) ==
    /\ cli[c].pc = "access"
    /\ LET exists == dir[cli[c].name] # "absent"
       IN cli' = [cli EXCEPT ![c].exists = exists, ![c].pc = IF exists THEN "aside" ELSE "scope"]
    /\ UNCHANGED <<disk, node, reload, uses, raced, commands, faults>>

\* Fails if another client has moved or removed the directory since.
MoveAside(c) ==
    /\ LET n == cli[c].name
       IN \/ /\ Goto(c, "aside", "scope") /\ dir[n] # "absent"
             /\ backup' = [backup EXCEPT ![c] = dir[n]]
             /\ Put(n, "absent")
          \/ Goto(c, "aside", "cleanup") /\ dir[n] = "absent" /\ Same /\ UNCHANGED backup
    /\ UNCHANGED <<scope, installed, node, reload, uses, commands, faults>>

\* mkdir -p of the scope's directory.
MakeScope(c) ==
    /\ Goto(c, "scope", "place")
    /\ scope' = (scope \/ cli[c].name \in Scoped)
    /\ UNCHANGED <<dir, backup, installed, node, reload, uses, raced, commands, faults>>

Placed(c) ==
    LET n == cli[c].name
    IN /\ cli[c].pc = "place" /\ Takes(n)
       /\ Put(n, cli[c].version)
       /\ installed' = installed \cup {n}
       /\ cli' = [cli EXCEPT ![c].ok = TRUE, ![c].pc = "cleanup"]
       /\ NoFault

PlaceFails(c) ==
    /\ Goto(c, "place", IF cli[c].exists THEN "restore" ELSE "cleanup")
    /\ IF Vacant(cli[c].name) THEN Fault ELSE NoFault
    /\ Same /\ UNCHANGED installed

Place(c) ==
    /\ Placed(c) \/ PlaceFails(c)
    /\ UNCHANGED <<scope, backup, node, reload, uses, commands>>

\* Mutant: the error surfaces without the previous installation put back.
NotRestored(c) ==
    /\ Goto(c, "restore", "cleanup")
    /\ UNCHANGED <<disk, node, reload, uses, raced, commands, faults>>

Restored(c) ==
    LET n == cli[c].name
    IN /\ Takes(n) /\ NoFault
       /\ Put(n, backup[c]) /\ backup' = [backup EXCEPT ![c] = "absent"]
       /\ installed' = IF backup[c] \in Versions THEN installed ELSE installed \ {n}

RestoreFails(c) ==
    LET n == cli[c].name
    IN /\ IF Vacant(n) THEN Fault ELSE NoFault
       /\ installed' = IF dir[n] = "absent" THEN installed \ {n} ELSE installed
       /\ Same /\ UNCHANGED backup

Restore(c) ==
    /\ Goto(c, "restore", "cleanup")
    /\ Restored(c) \/ RestoreFails(c)
    /\ UNCHANGED <<scope, node, reload, uses, commands>>

\* The temporary directory goes, whatever is in it.
Cleanup(c) ==
    /\ Goto(c, "cleanup", IF cli[c].ok THEN "reload" ELSE "idle")
    /\ backup' = [backup EXCEPT ![c] = "absent"]
    /\ UNCHANGED <<dir, scope, installed, node, reload, uses, raced, commands, faults>>

-----------------------------------------------------------------------------
(* The remove commands and removePackage *)

Remove(c, n, force) ==
    /\ cli[c].pc = "idle" /\ commands < MaxCommands
    /\ dir[n] # "absent"
    /\ cli' = [cli EXCEPT ![c] = [NoCommand EXCEPT !.pc = IF force THEN "remove" ELSE "check",
                                                   !.name = n, !.unread = IF force THEN {} ELSE Communities]]
    /\ commands' = commands + 1
    /\ UNCHANGED <<disk, node, reload, uses, raced, faults>>

\* The daemon is not there to be asked.
CannotCheck(c) ==
    /\ Goto(c, "check", "idle") /\ daemon # "up"
    /\ UNCHANGED <<disk, node, reload, uses, raced, commands, faults>>

\* collectPackageUsages, one community.
AskCommunity(c, k) ==
    /\ cli[c].pc = "check" /\ daemon = "up" /\ k \in cli[c].unread
    /\ cli' = [cli EXCEPT ![c].unread = @ \ {k}, ![c].edited = @ \ {k},
                          ![c].found = @ \/ cli[c].name \in uses[k]]
    /\ UNCHANGED <<disk, node, reload, uses, raced, commands, faults>>

\* Mutant: the answer is taken before every community was asked.
RefuseEarly(c) ==
    /\ Goto(c, "check", IF cli[c].found THEN "idle" ELSE "remove")
    /\ UNCHANGED <<disk, node, reload, uses, raced, commands, faults>>

RefuseIfInUse(c) ==
    /\ Goto(c, "check", IF cli[c].found THEN "idle" ELSE "remove")
    /\ cli[c].unread = {}
    /\ UNCHANGED <<disk, node, reload, uses, raced, commands, faults>>

\* rm -r empties the directory, then removes it; what another client puts there meanwhile goes with it.
Unlink(c) ==
    /\ LET n == cli[c].name
       IN \/ /\ Goto(c, "remove", "unlink") /\ dir[n] # "absent"
             /\ Put(n, "partial") /\ installed' = installed \ {n}
          \/ Goto(c, "remove", "idle") /\ dir[n] = "absent" /\ Same /\ UNCHANGED installed
    /\ UNCHANGED <<scope, backup, node, reload, uses, commands, faults>>

RemoveDir(c) ==
    /\ Goto(c, "unlink", IF cli[c].name \in Scoped THEN "unscope" ELSE "reload")
    /\ Put(cli[c].name, "absent") /\ installed' = installed \ {cli[c].name}
    /\ UNCHANGED <<scope, backup, node, reload, uses, commands, faults>>

ReadScope(c) ==
    /\ Goto(c, "unscope", IF \A n \in Scoped : dir[n] = "absent" THEN "rmdir" ELSE "reload")
    /\ UNCHANGED <<disk, node, reload, uses, raced, commands, faults>>

\* rmdir removes only a directory that is empty.
RemoveScope(c) ==
    /\ Goto(c, "rmdir", "reload")
    /\ scope' = (\E n \in Scoped : dir[n] # "absent")
    /\ UNCHANGED <<dir, backup, installed, node, reload, uses, raced, commands, faults>>

-----------------------------------------------------------------------------
(* Asking the daemon to reload *)

StartReload(r, c) ==
    /\ reload[r].pc = "idle"
    /\ reload' = [reload EXCEPT ![r] = [NoReload EXCEPT !.pc = "readdir", !.client = c]]
    /\ raced' = (raced \/ Reloading)

ReloadPackagesInDaemon(c) ==
    /\ \/ Goto(c, "reload", "waiting") /\ daemon = "up" /\ \E r \in Reloads : StartReload(r, c)
       \/ Goto(c, "reload", "idle") /\ daemon # "up" /\ UNCHANGED <<reload, raced>>
    /\ UNCHANGED <<disk, node, uses, commands, faults>>

\* PACKAGE_RELOAD_TIMEOUT_MS: only the wait ends.
ReloadTimesOut(c) ==
    /\ Goto(c, "waiting", "idle")
    /\ UNCHANGED <<disk, node, reload, uses, raced, commands, faults>>

KillClient(c) ==
    /\ cli[c].pc \notin {"idle", "killed"} /\ Fault
    /\ cli' = [cli EXCEPT ![c].pc = "killed"]
    /\ UNCHANGED <<disk, node, reload, uses, raced, commands>>

ClientStep(c) ==
    \/ \E n \in Names, v \in Versions : Install(c, n, v)
    \/ Stage(c) \/ Access(c) \/ MoveAside(c) \/ MakeScope(c) \/ Place(c) \/ Restore(c) \/ Cleanup(c)
    \/ \E n \in Names, force \in BOOLEAN : Remove(c, n, force)
    \/ CannotCheck(c) \/ \E k \in Communities : AskCommunity(c, k)
    \/ RefuseIfInUse(c) \/ Unlink(c) \/ RemoveDir(c) \/ ReadScope(c) \/ RemoveScope(c)
    \/ ReloadPackagesInDaemon(c) \/ ReloadTimesOut(c) \/ KillClient(c)

-----------------------------------------------------------------------------
(* The daemon: loadPackagesIntoPKC *)

\* Packages are loaded once before the server listens.
StartDaemon ==
    /\ daemon = "down" /\ starts < MaxStarts
    /\ daemon' = "starting" /\ starts' = starts + 1
    /\ \E r \in Reloads : StartReload(r, "none")
    /\ UNCHANGED <<disk, cli, registry, shadowed, modules, uses, commands, faults>>

StopDaemon ==
    /\ daemon # "down"
    /\ daemon' = "down"
    /\ registry' = [n \in Names |-> BuiltIn(n)]
    /\ shadowed' = [n \in Names |-> "absent"]
    /\ modules' = [n \in Names |-> [v \in Versions |-> "none"]]
    /\ reload' = [r \in Reloads |-> NoReload]
    /\ raced' = FALSE
    /\ cli' = [c \in Clients |-> IF cli[c].pc = "waiting" THEN NoCommand ELSE cli[c]]
    /\ UNCHANGED <<disk, uses, starts, commands, faults>>

ReadDir(r) ==
    /\ reload[r].pc = "readdir"
    /\ reload' = [reload EXCEPT ![r].pc = "read", ![r].todo = {n \in Names : dir[n] # "absent"}]
    /\ UNCHANGED <<disk, cli, node, uses, raced, commands, faults>>

\* An entry whose package.json cannot be read is skipped.
ReadPackage(r, n) ==
    /\ reload[r].pc = "read" /\ n \in reload[r].todo
    /\ reload' = [reload EXCEPT ![r].todo = @ \ {n}, ![r].pkgs = IF dir[n] \in Versions THEN @ \cup {n} ELSE @]
    /\ UNCHANGED <<disk, cli, node, uses, raced, commands, faults>>

\* Mutant: a name is deleted when its package goes, whatever it held before.
DeleteGone(gone) == registry' = [n \in Names |-> IF n \in gone THEN "none" ELSE registry[n]]

HandBackGone(gone) == registry' = [n \in Names |-> IF n \in gone THEN shadowed[n] ELSE registry[n]]

HandBack(r) ==
    /\ reload[r].pc = "read" /\ reload[r].todo = {}
    /\ LET gone == {n \in Names : shadowed[n] # "absent" /\ n \notin reload[r].pkgs}
       IN /\ HandBackGone(gone)
          /\ shadowed' = [n \in Names |-> IF n \in gone THEN "absent" ELSE shadowed[n]]
    /\ reload' = [reload EXCEPT ![r].pc = "import", ![r].todo = reload[r].pkgs]
    /\ UNCHANGED <<disk, cli, daemon, modules, starts, uses, raced, commands, faults>>

\* Mutant: the module cache is asked by path alone.
BareKey(version) == CHOOSE v \in Versions : TRUE

\* The contents hash in the url.
Key(version) == version

\* importPackageFactory up to the import; a package that cannot be read is logged and left out.
Hash(r, n) ==
    /\ reload[r].pc = "import" /\ n \in reload[r].todo
    /\ IF dir[n] \in Versions
       THEN reload' = [reload EXCEPT ![r].pc = "hashed", ![r].name = n, ![r].key = Key(dir[n]), ![r].todo = @ \ {n}]
       ELSE reload' = [reload EXCEPT ![r].todo = @ \ {n}]
    /\ UNCHANGED <<disk, cli, node, uses, raced, commands, faults>>

\* A url that was imported before is answered from the cache.
Import(r) ==
    LET n == reload[r].name   key == reload[r].key
    IN /\ reload[r].pc = "hashed"
       /\ modules[n][key] # "none" \/ dir[n] \in Versions
       /\ LET factory == IF modules[n][key] # "none" THEN modules[n][key] ELSE dir[n]
          IN /\ modules' = [modules EXCEPT ![n][key] = factory]
             /\ reload' = [reload EXCEPT ![r].pc = "imported", ![r].factory = factory]
       /\ UNCHANGED <<disk, cli, daemon, registry, shadowed, starts, uses, raced, commands, faults>>

ImportFails(r) ==
    LET n == reload[r].name
    IN /\ reload[r].pc = "hashed" /\ modules[n][reload[r].key] = "none"
       /\ IF dir[n] \in Versions THEN Fault ELSE NoFault
       /\ reload' = [reload EXCEPT ![r].pc = "import"]
       /\ UNCHANGED <<disk, cli, node, uses, raced, commands>>

Remember(n) == shadowed' = [shadowed EXCEPT ![n] = IF @ = "absent" THEN registry[n] ELSE @]

Register(r) ==
    /\ reload[r].pc = "imported"
    /\ LET n == reload[r].name
       IN /\ Remember(n)
          /\ registry' = [registry EXCEPT ![n] = reload[r].factory]
          /\ reload' = [reload EXCEPT ![r].pc = "import", ![r].loaded = @ \cup {n}]
    /\ UNCHANGED <<disk, cli, daemon, modules, starts, uses, raced, commands, faults>>

Loaded(r) == reload[r].pc = "import" /\ reload[r].todo = {}

\* Settings subscribers are told, and the client, if it still waits.
Answer(r) ==
    /\ Loaded(r)
    /\ reload' = [reload EXCEPT ![r] = NoReload]
    /\ LET c == reload[r].client
       IN IF c \in Clients
          THEN /\ cli' = [cli EXCEPT ![c] = IF cli[c].pc = "waiting" THEN NoCommand ELSE @]
               /\ UNCHANGED daemon
          ELSE daemon' = "up" /\ UNCHANGED cli
    /\ UNCHANGED <<disk, registry, shadowed, modules, starts, uses, raced, commands, faults>>

ReloadStep(r) ==
    \/ ReadDir(r) \/ \E n \in Names : ReadPackage(r, n)
    \/ HandBack(r) \/ \E n \in Names : Hash(r, n)
    \/ Import(r) \/ ImportFails(r) \/ Register(r) \/ Answer(r)

\* A community edit through the daemon.
EditCommunity(k, n) ==
    /\ daemon = "up" /\ n \notin uses[k]
    /\ uses' = [uses EXCEPT ![k] = @ \cup {n}]
    /\ cli' = [c \in Clients |-> IF cli[c].pc = "check" THEN [cli[c] EXCEPT !.edited = @ \cup {k}]
                                                         ELSE cli[c]]
    /\ UNCHANGED <<disk, node, reload, raced, commands, faults>>

Next ==
    \/ \E c \in Clients : ClientStep(c)
    \/ StartDaemon \/ StopDaemon \/ \E r \in Reloads : ReloadStep(r)
    \/ \E k \in Communities, n \in Wanted : EditCommunity(k, n)

Spec == Init /\ [][Next]_vars

-----------------------------------------------------------------------------
(* Properties *)

\* Whatever installs, removes and concurrent reloads do, a name the daemon has not taken over
\* holds what pkc-js ships for it, and what a name held is remembered for as long as it is taken
\* over: removing a package hands the built-in back.
BuiltInKept ==
    \A n \in Names : IF shadowed[n] = "absent" THEN registry[n] = BuiltIn(n) ELSE shadowed[n] = BuiltIn(n)

\* An installed package that nobody removes stays on the disk, complete, in its place or in the
\* temporary directory of the client that is replacing it or was killed while it did: whichever
\* clients replace it at once, and whichever renames fail, one of the versions remains.
NothingLost ==
    \A n \in installed :
        dir[n] \in Versions \/ \E c \in Clients : cli[c].name = n /\ backup[c] \in Versions

\* A reload that nothing interferes with brings the registry to what is installed: a removed package
\* is unregistered, a replaced one registered in its new version, and one that fails to load is left.
ReloadTakesEffect ==
    \A r \in Reloads : ~raced /\ Loaded(r) =>
        \A n \in Names :
            /\ dir[n] = "absent" => registry[n] = BuiltIn(n)
            /\ n \in reload[r].loaded => registry[n] = dir[n]

\* A package is removed without --force only if no community named it when it was asked.
InUseIsRefused ==
    [][\A c \in Clients : cli[c].pc = "check" /\ cli'[c].pc = "remove" =>
          \A k \in Communities : cli[c].name \in uses[k] => k \in cli[c].edited]_vars
=============================================================================

----------------------- MODULE PackageRegistryProofs -----------------------
(***************************************************************************)
(* The package registry for any number of packages, versions, clients,     *)
(* concurrent reloads, kills and failures: TypeOK, BuiltInKept,            *)
(* ReloadTakesEffect, InUseIsRefused and NothingLost.                      *)
(*                                                                         *)
(* IInv has a part for the commands (Commands), one for every reload       *)
(* (Reads), and one that holds as long as nothing interfered with a reload *)
(* (Undisturbed): what it read is still what is installed.  BuiltInKept is *)
(* inductive by itself.  NothingLost needs Copies beside it: a package     *)
(* that is not in its place is carried by a client that will place or      *)
(* restore it, or that was killed; no client that is done, or about to     *)
(* clean up, holds the only copy.                                          *)
(***************************************************************************)
EXTENDS PackageRegistry, TLAPS

Requests == [pc : ClientPc, name : Names \cup {"none"}, version : Versions \cup {"none"},
             exists : BOOLEAN, ok : BOOLEAN, found : BOOLEAN,
             unread : SUBSET Communities, edited : SUBSET Communities]

Runs == [pc : ReloadPc, client : Clients \cup {"none"}, todo : SUBSET Names,
         pkgs : SUBSET Names, name : Names \cup {"none"},
         key : Versions \cup {"none"}, factory : Versions \cup {"none"}, loaded : SUBSET Names]

Installing == {"stage", "access", "aside", "scope", "place", "restore", "cleanup"}
Removing == {"check", "remove", "unlink", "unscope", "rmdir"}

\* A command knows what it is about; one that still asks has an answer, or a question, for every
\* community that names the package and was not edited since it was asked.
Valid(q) ==
    /\ q.pc \in Installing => q.name \in Names /\ q.version \in Versions
    /\ q.pc \in Removing => q.name \in Names
    /\ q.pc = "check" => \A k \in Communities : q.name \in uses[k] /\ k \notin q.edited => k \in q.unread \/ q.found

Commands == \A c \in Clients : Valid(cli[c])

\* A reload imports a package it read, under a version.
Reads ==
    \A r \in Reloads :
        /\ reload[r].pc \in {"hashed", "imported"} => reload[r].name \in Names /\ reload[r].key \in Versions
        /\ reload[r].pc = "imported" => reload[r].factory \in Versions

Present == {n \in Names : dir[n] \in Versions}

\* What a reload that nothing interferes with knows.
Knows(r) ==
    LET w == reload[r] IN
    /\ w.pc \in {"readdir", "read"} => w.loaded = {}
    /\ w.pc = "readdir" => w.pkgs = {}
    /\ w.pc = "read" => w.pkgs \subseteq Present /\ Present \subseteq w.todo \cup w.pkgs
    /\ w.pc \in {"import", "hashed", "imported"} =>
          /\ w.pkgs = Present /\ w.todo \subseteq Present
          /\ \A n \in Names : shadowed[n] # "absent" => n \in Present
          /\ \A n \in w.loaded : registry[n] = dir[n]
    /\ w.pc \in {"hashed", "imported"} => w.name \in Present
    /\ w.pc = "hashed" => w.key = dir[w.name]
    /\ w.pc = "imported" => w.factory = dir[w.name]

Undisturbed ==
    ~raced =>
        /\ \A r, s \in Reloads : reload[r].pc # "idle" /\ reload[s].pc # "idle" => r = s
        /\ \A n \in Names, v \in Versions : modules[n][v] \in {"none", v}
        /\ \A r \in Reloads : Knows(r)

IInv == Commands /\ Reads /\ BuiltInKept /\ Undisturbed

\* The packages, by the client that moves them.  Its temporary directory holds something only from
\* the step that moves it aside to the one that cleans up; then it knows that there was something.
Copying == {"scope", "place", "restore", "killed"}

Held(c) ==
    /\ cli[c].pc \notin Copying \cup {"cleanup"} => backup[c] = "absent"
    /\ cli[c].pc = "aside" => cli[c].exists
    /\ cli[c].pc \in {"scope", "place"} /\ backup[c] # "absent" => cli[c].exists

Carries(n, c) == cli[c].name = n /\ backup[c] \in Versions /\ cli[c].pc \in Copying

Copies ==
    /\ \A c \in Clients : Held(c)
    /\ \A n \in installed :
          dir[n] # "partial" /\ (dir[n] = "absent" => \E c \in Clients : Carries(n, c))

-----------------------------------------------------------------------------
(* Types *)

DiskOK == dir \in [Names -> Contents] /\ scope \in BOOLEAN /\ backup \in [Clients -> Contents] /\ installed \in SUBSET Names

NodeOK ==
    /\ daemon \in {"down", "starting", "up"} /\ registry \in [Names -> Factories]
    /\ shadowed \in [Names -> Factories \cup {"absent"}]
    /\ modules \in [Names -> [Versions -> Versions \cup {"none"}]]
    /\ starts \in 0..MaxStarts

LEMMA TypeParts ==
    TypeOK <=> /\ DiskOK /\ NodeOK /\ cli \in [Clients -> Requests] /\ reload \in [Reloads -> Runs]
               /\ uses \in [Communities -> SUBSET Names] /\ raced \in BOOLEAN
               /\ commands \in 0..MaxCommands /\ faults \in 0..MaxFaults
BY DEF TypeOK, DiskOK, NodeOK, Requests, Runs

LEMMA TypePartsNext ==
    ASSUME DiskOK', NodeOK', cli' \in [Clients -> Requests], reload' \in [Reloads -> Runs],
           uses' \in [Communities -> SUBSET Names], raced' \in BOOLEAN,
           commands' \in 0..MaxCommands, faults' \in 0..MaxFaults
    PROVE  TypeOK'
BY DEF TypeOK, DiskOK, NodeOK, Requests, Runs

LEMMA VersionsApart == \A v \in Versions : v \notin {"absent", "partial", "none", "builtin"}
BY ConstantsOK DEF NotContents

LEMMA FaultIsCounted ==
    ASSUME TypeOK, UNCHANGED faults \/ Fault
    PROVE  faults' \in 0..MaxFaults
BY ConstantsOK DEF TypeOK, Fault

LEMMA NoCommandIsValid == NoCommand \in Requests /\ Valid(NoCommand)
BY DEF NoCommand, Requests, ClientPc, Valid, Installing, Removing

LEMMA NoReloadIsTyped == NoReload \in Runs /\ NoReload.pc = "idle" /\ NoReload.loaded = {} /\ NoReload.pkgs = {}
BY DEF NoReload, Runs, ReloadPc

-----------------------------------------------------------------------------
(* Clients *)

\* One command is replaced by another.
LEMMA OneCommand ==
    ASSUME TypeOK, Commands, UNCHANGED uses,
           NEW c \in Clients, NEW q \in Requests, Valid(q), cli' = [cli EXCEPT ![c] = q]
    PROVE  cli' \in [Clients -> Requests] /\ Commands'
<1>1. cli \in [Clients -> Requests]
  BY TypeParts
<1>2. cli' \in [Clients -> Requests] /\ \A d \in Clients : cli'[d] = IF d = c THEN q ELSE cli[d]
  BY <1>1
<1>3. ASSUME NEW d \in Clients
      PROVE  Valid(cli[d])'
  <2>1. Valid(cli'[d])
    BY <1>2 DEF Commands
  <2>. QED
    BY <2>1 DEF Valid
<1>. QED
  BY <1>2, <1>3 DEF Commands

\* The control of a command moves on.
LEMMA CommandGoesOn ==
    ASSUME TypeOK, Commands, UNCHANGED uses, NEW c \in Clients, NEW next \in ClientPc, Step(c, next),
           next # "check",
           next \in Installing => cli[c].pc \in Installing, next \in Removing => cli[c].pc \in Removing
    PROVE  cli' \in [Clients -> Requests] /\ Commands'
<1>1. cli[c] \in Requests /\ Valid(cli[c])
  BY TypeParts DEF Commands
<1>2. CASE next = "idle"
  BY <1>2, OneCommand, NoCommandIsValid DEF Step
<1>3. CASE next # "idle"
  <2> DEFINE q == [cli[c] EXCEPT !.pc = next]
  <2>1. cli' = [cli EXCEPT ![c] = q]
    BY <1>3 DEF Step
  <2>2. q \in Requests /\ q.pc = next /\ q.name = cli[c].name /\ q.version = cli[c].version
    BY <1>1 DEF Requests
  <2>3. Valid(q)
    BY <1>1, <2>2 DEF Valid
  <2>. QED
    BY <2>1, <2>2, <2>3, OneCommand
<1>. QED
  BY <1>2, <1>3

\* The daemon, and what it knows of the disk, as long as it does not step itself.
LEMMA DaemonUntouched ==
    ASSUME TypeOK, IInv, UNCHANGED <<node, reload>>,
           Same \/ raced' = (raced \/ Reloading)
    PROVE  NodeOK' /\ reload' \in [Reloads -> Runs] /\ raced' \in BOOLEAN
           /\ Reads' /\ BuiltInKept' /\ Undisturbed'
<1>1. /\ daemon' = daemon /\ registry' = registry /\ shadowed' = shadowed /\ modules' = modules
      /\ starts' = starts /\ reload' = reload
  BY DEF node
<1>2. NodeOK' /\ reload' \in [Reloads -> Runs]
  BY <1>1, TypeParts DEF NodeOK
<1>3. raced' \in BOOLEAN
  <2>1. raced \in BOOLEAN
    BY TypeParts
  <2>. QED
    BY <2>1 DEF Same
<1>4. Reads' /\ BuiltInKept'
  BY <1>1 DEF IInv, Reads, BuiltInKept
<1>5. Undisturbed'
  <2>1. CASE Same
    BY <1>1, <2>1 DEF Same, IInv, Undisturbed, Knows, Present
  <2>2. CASE raced' = (raced \/ Reloading)
    <3> SUFFICES ASSUME ~raced'
                 PROVE  Undisturbed'
      BY DEF Undisturbed
    <3>1. ~raced /\ ~Reloading
      BY <2>2
    <3>2. \A r \in Reloads : reload[r].pc = "idle"
      BY <3>1 DEF Reloading
    <3>3. \A r \in Reloads : Knows(r)'
      BY <1>1, <3>2 DEF Knows
    <3>. QED
      BY <1>1, <3>1, <3>3 DEF IInv, Undisturbed
  <2>. QED
    BY <2>1, <2>2
<1>. QED
  BY <1>2, <1>3, <1>4, <1>5

\* What a client's step other than its request for a reload has to show.
LEMMA ClientKeeps ==
    ASSUME TypeOK, IInv, UNCHANGED <<node, reload, uses>>, Same \/ raced' = (raced \/ Reloading),
           DiskOK', cli' \in [Clients -> Requests], Commands',
           commands' \in 0..MaxCommands, UNCHANGED faults \/ Fault
    PROVE  TypeOK' /\ IInv'
<1>1. uses' \in [Communities -> SUBSET Names]
  BY TypeParts
<1>2. NodeOK' /\ reload' \in [Reloads -> Runs] /\ raced' \in BOOLEAN /\ Reads' /\ BuiltInKept' /\ Undisturbed'
  BY DaemonUntouched
<1>3. TypeOK'
  BY <1>1, <1>2, FaultIsCounted, TypePartsNext
<1>. QED
  BY <1>2, <1>3 DEF IInv

LEMMA DiskStays == ASSUME TypeOK, UNCHANGED disk
                   PROVE  DiskOK'
BY TypeParts DEF DiskOK, disk

LEMMA NewCommand ==
    ASSUME TypeOK, IInv, NEW c \in Clients,
           \/ \E n \in Names, v \in Versions : Install(c, n, v)
           \/ \E n \in Names, force \in BOOLEAN : Remove(c, n, force)
    PROVE  TypeOK' /\ IInv'
<1>1. /\ UNCHANGED <<disk, node, reload, uses, raced, faults>> /\ commands' = commands + 1
      /\ commands < MaxCommands
  BY DEF Install, Remove
<1>2. commands' \in 0..MaxCommands
  BY <1>1, ConstantsOK, TypeParts
<1>3. Commands
  BY DEF IInv
<1>4. UNCHANGED <<node, reload, uses>> /\ Same /\ UNCHANGED faults
  BY <1>1 DEF disk, Same
<1>5. cli' \in [Clients -> Requests] /\ Commands'
  <2>1. CASE \E n \in Names, v \in Versions : Install(c, n, v)
    <3>1. PICK n \in Names, v \in Versions : Install(c, n, v)
      BY <2>1
    <3> DEFINE q == [NoCommand EXCEPT !.pc = "stage", !.name = n, !.version = v]
    <3>2. cli' = [cli EXCEPT ![c] = q]
      BY <3>1 DEF Install
    <3>3. q \in Requests /\ Valid(q)
      BY DEF NoCommand, Requests, ClientPc, Valid, Installing, Removing
    <3>. QED
      BY <1>3, <1>4, <3>2, <3>3, OneCommand
  <2>2. CASE \E n \in Names, force \in BOOLEAN : Remove(c, n, force)
    <3>1. PICK n \in Names, force \in BOOLEAN : Remove(c, n, force)
      BY <2>2
    <3> DEFINE q == [NoCommand EXCEPT !.pc = IF force THEN "remove" ELSE "check",
                                      !.name = n, !.unread = IF force THEN {} ELSE Communities]
    <3>2. cli' = [cli EXCEPT ![c] = q]
      BY <3>1 DEF Remove
    <3>3. q \in Requests /\ Valid(q)
      BY DEF NoCommand, Requests, ClientPc, Valid, Installing, Removing
    <3>. QED
      BY <1>3, <1>4, <3>2, <3>3, OneCommand
  <2>. QED
    BY <2>1, <2>2
<1>. QED
  BY <1>1, <1>2, <1>4, <1>5, DiskStays, ClientKeeps

\* Steps that only move a command on.
LEMMA OnlyTheCommand ==
    ASSUME TypeOK, IInv, NEW c \in Clients,
           Stage(c) \/ CannotCheck(c) \/ RefuseIfInUse(c) \/ ReadScope(c) \/ ReloadTimesOut(c)
    PROVE  TypeOK' /\ IInv'
<1>1. UNCHANGED <<disk, node, reload, uses, raced, commands, faults>>
  BY DEF Stage, CannotCheck, RefuseIfInUse, ReadScope, ReloadTimesOut
<1>2. \E next \in {"access", "cleanup", "idle", "remove", "rmdir", "reload"} :
         /\ Step(c, next)
         /\ next \in Installing => cli[c].pc \in Installing
         /\ next \in Removing => cli[c].pc \in Removing
  BY DEF Stage, CannotCheck, RefuseIfInUse, ReadScope, ReloadTimesOut, Goto, Installing, Removing
<1>3. cli' \in [Clients -> Requests] /\ Commands'
  BY <1>1, <1>2, CommandGoesOn DEF IInv, ClientPc
<1>4. Same /\ commands' \in 0..MaxCommands /\ UNCHANGED faults /\ UNCHANGED <<node, reload, uses>>
  BY <1>1, TypeParts DEF disk, Same
<1>. QED
  BY <1>1, <1>3, <1>4, DiskStays, ClientKeeps

\* Steps that change the disk, but no package's directory.
LEMMA AroundThePackages ==
    ASSUME TypeOK, IInv, NEW c \in Clients, MakeScope(c) \/ Cleanup(c) \/ RemoveScope(c)
    PROVE  TypeOK' /\ IInv'
<1>1. /\ UNCHANGED <<dir, installed, raced, uses, commands, faults>> /\ UNCHANGED <<node, reload, uses>>
  BY DEF MakeScope, Cleanup, RemoveScope
<1>2. \E next \in {"place", "reload", "idle"} :
         /\ Step(c, next)
         /\ next \in Installing => cli[c].pc \in Installing
         /\ next \in Removing => cli[c].pc \in Removing
  BY DEF MakeScope, Cleanup, RemoveScope, Goto, Installing, Removing
<1>3. cli' \in [Clients -> Requests] /\ Commands'
  BY <1>1, <1>2, CommandGoesOn DEF IInv, ClientPc
<1>4. DiskOK'
  <2>1. backup' \in [Clients -> Contents]
    BY TypeParts DEF DiskOK, MakeScope, Cleanup, RemoveScope, Contents
  <2>2. scope' \in BOOLEAN
    <3>1. scope \in BOOLEAN
      BY TypeParts DEF DiskOK
    <3>. QED
      BY <3>1 DEF MakeScope, Cleanup, RemoveScope
  <2>. QED
    BY <1>1, <2>1, <2>2, TypeParts DEF DiskOK
<1>5. Same /\ commands' \in 0..MaxCommands /\ UNCHANGED faults
  BY <1>1, TypeParts DEF Same
<1>. QED
  BY <1>1, <1>3, <1>4, <1>5, ClientKeeps

\* What is put in the place of a package keeps the type of the directories.
LEMMA PutIsTyped ==
    ASSUME DiskOK, NEW n, NEW contents \in Contents, Put(n, contents)
    PROVE  dir' \in [Names -> Contents] /\ raced' = (raced \/ Reloading)
BY DEF DiskOK, Put

LEMMA AccessStep ==
    ASSUME TypeOK, IInv, NEW c \in Clients, Access(c)
    PROVE  TypeOK' /\ IInv'
<1>1. UNCHANGED <<disk, node, reload, uses, raced, commands, faults>> /\ cli[c].pc = "access"
  BY DEF Access
<1>2. PICK exists \in BOOLEAN : cli' = [cli EXCEPT ![c].exists = exists, ![c].pc = IF exists THEN "aside" ELSE "scope"]
  BY DEF Access
<1>3. cli \in [Clients -> Requests] /\ cli[c] \in Requests /\ Valid(cli[c]) /\ Commands
  BY TypeParts DEF IInv, Commands
<1> DEFINE q == [cli[c] EXCEPT !.exists = exists, !.pc = IF exists THEN "aside" ELSE "scope"]
<1>4. cli' = [cli EXCEPT ![c] = q]
  BY <1>2, <1>3
<1>5. q \in Requests /\ q.pc \in {"aside", "scope"} /\ q.name = cli[c].name /\ q.version = cli[c].version
  BY <1>3 DEF Requests, ClientPc
<1>6. Valid(q)
  BY <1>1, <1>3, <1>5 DEF Valid, Installing, Removing
<1> HIDE DEF q
<1>7. cli' \in [Clients -> Requests] /\ Commands'
  BY <1>1, <1>3, <1>4, <1>5, <1>6, OneCommand
<1>8. Same /\ commands' \in 0..MaxCommands /\ UNCHANGED faults /\ UNCHANGED <<node, reload, uses>>
  BY <1>1, TypeParts DEF disk, Same
<1>. QED
  BY <1>1, <1>7, <1>8, DiskStays, ClientKeeps

\* A package moves to or from a client's temporary directory.
LEMMA MoveSteps ==
    ASSUME TypeOK, IInv, NEW c \in Clients, MoveAside(c) \/ Restore(c)
    PROVE  TypeOK' /\ IInv'
<1>1. /\ UNCHANGED <<scope, uses, commands>> /\ UNCHANGED <<node, reload, uses>>
      /\ cli[c].pc \in {"aside", "restore"}
  BY DEF MoveAside, Restore, Goto
<1>2. Step(c, "scope") \/ Step(c, "cleanup")
  BY DEF MoveAside, Restore, Goto
<1>3. cli' \in [Clients -> Requests] /\ Commands'
  BY <1>1, <1>2, CommandGoesOn DEF IInv, ClientPc, Installing, Removing
<1>4. DiskOK /\ cli[c].name \in Names
  BY <1>1, TypeParts DEF IInv, Commands, Valid, Installing
<1>5. /\ backup' \in [Clients -> Contents] /\ installed' \in SUBSET Names
      /\ Same \/ \E x \in Contents : Put(cli[c].name, x)
      /\ UNCHANGED faults \/ Fault
  <2>1. dir[cli[c].name] \in Contents /\ backup[c] \in Contents /\ "absent" \in Contents
    BY <1>4 DEF DiskOK, Contents
  <2>2. CASE MoveAside(c)
    BY <2>1, <2>2, <1>4 DEF MoveAside, DiskOK
  <2>3. CASE Restore(c)
    <3>1. CASE Restored(c)
      BY <2>1, <3>1, <1>4 DEF Restored, NoFault, DiskOK
    <3>2. CASE RestoreFails(c)
      BY <3>2, <1>4 DEF RestoreFails, NoFault, DiskOK
    <3>. QED
      BY <2>3, <3>1, <3>2 DEF Restore
  <2>. QED
    BY <2>2, <2>3
<1>6. DiskOK' /\ (Same \/ raced' = (raced \/ Reloading))
  <2>1. CASE Same
    BY <1>1, <1>4, <1>5, <2>1 DEF DiskOK, Same
  <2>2. CASE \E x \in Contents : Put(cli[c].name, x)
    <3>1. dir' \in [Names -> Contents] /\ raced' = (raced \/ Reloading)
      BY <1>4, <2>2, PutIsTyped
    <3>. QED
      BY <1>1, <1>4, <1>5, <3>1 DEF DiskOK
  <2>. QED
    BY <1>5, <2>1, <2>2
<1>7. commands' \in 0..MaxCommands
  BY <1>1, TypeParts
<1>. QED
  BY <1>1, <1>3, <1>5, <1>6, <1>7, ClientKeeps

LEMMA PlaceStep ==
    ASSUME TypeOK, IInv, NEW c \in Clients, Place(c)
    PROVE  TypeOK' /\ IInv'
<1>1. /\ UNCHANGED <<scope, backup, uses, commands>> /\ UNCHANGED <<node, reload, uses>>
      /\ cli[c].pc = "place"
  BY DEF Place, Placed, PlaceFails, Goto
<1>2. DiskOK /\ Commands /\ cli[c] \in Requests /\ Valid(cli[c]) /\ cli \in [Clients -> Requests]
      /\ commands' \in 0..MaxCommands
  BY <1>1, TypeParts DEF IInv, Commands
<1>3. cli[c].name \in Names /\ cli[c].version \in Versions
  BY <1>1, <1>2 DEF Valid, Installing
<1>4. CASE Placed(c)
  <2> DEFINE q == [cli[c] EXCEPT !.ok = TRUE, !.pc = "cleanup"]
  <2>1. cli' = [cli EXCEPT ![c] = q]
    BY <1>2, <1>4 DEF Placed
  <2>2. q \in Requests /\ q.pc = "cleanup" /\ q.name = cli[c].name /\ q.version = cli[c].version
    BY <1>2 DEF Requests, ClientPc
  <2>3. Valid(q)
    BY <1>3, <2>2 DEF Valid, Removing
  <2> HIDE DEF q
  <2>4. cli' \in [Clients -> Requests] /\ Commands'
    BY <1>1, <1>2, <2>1, <2>2, <2>3, OneCommand
  <2>5. Put(cli[c].name, cli[c].version) /\ installed' = installed \cup {cli[c].name} /\ UNCHANGED faults
    BY <1>4 DEF Placed, NoFault
  <2>6. dir' \in [Names -> Contents] /\ raced' = (raced \/ Reloading)
    BY <1>2, <1>3, <2>5, PutIsTyped DEF Contents
  <2>7. DiskOK'
    BY <1>1, <1>2, <1>3, <2>5, <2>6 DEF DiskOK
  <2>. QED
    BY <1>1, <1>2, <2>4, <2>5, <2>6, <2>7, ClientKeeps
<1>5. CASE PlaceFails(c)
  <2>1. Step(c, "restore") \/ Step(c, "cleanup")
    BY <1>5 DEF PlaceFails, Goto
  <2>2. cli' \in [Clients -> Requests] /\ Commands'
    BY <1>1, <1>2, <2>1, CommandGoesOn DEF ClientPc, Installing, Removing
  <2>3. Same /\ UNCHANGED installed /\ (UNCHANGED faults \/ Fault)
    BY <1>5 DEF PlaceFails, NoFault
  <2>4. DiskOK'
    BY <1>1, <1>2, <2>3 DEF DiskOK, Same
  <2>. QED
    BY <1>1, <1>2, <2>2, <2>3, <2>4, ClientKeeps
<1>. QED
  BY <1>4, <1>5 DEF Place

\* What AskCommunity leaves holds for the community it asked and for the others.
LEMMA AskStep ==
    ASSUME TypeOK, IInv, NEW c \in Clients, NEW k \in Communities, AskCommunity(c, k)
    PROVE  TypeOK' /\ IInv'
<1>1. UNCHANGED <<disk, node, reload, uses, raced, commands, faults>> /\ cli[c].pc = "check"
  BY DEF AskCommunity
<1>2. cli \in [Clients -> Requests] /\ cli[c] \in Requests /\ Valid(cli[c]) /\ Commands
  BY TypeParts DEF IInv, Commands
<1> DEFINE q == [cli[c] EXCEPT !.unread = @ \ {k}, !.edited = @ \ {k}, !.found = @ \/ cli[c].name \in uses[k]]
<1>3. cli' = [cli EXCEPT ![c] = q]
  BY <1>2 DEF AskCommunity
<1>4. /\ q \in Requests /\ q.pc = "check" /\ q.name = cli[c].name
      /\ q.unread = cli[c].unread \ {k} /\ q.edited = cli[c].edited \ {k}
      /\ q.found = (cli[c].found \/ cli[c].name \in uses[k])
  <2>1. cli[c].found \in BOOLEAN
    BY <1>2 DEF Requests
  <2>. QED
    BY <1>1, <1>2, <2>1 DEF Requests
<1>5. Valid(q)
  <2>1. ASSUME NEW j \in Communities, q.name \in uses[j], j \notin q.edited
        PROVE  j \in q.unread \/ q.found
    <3>1. CASE j = k
      BY <1>4, <2>1, <3>1
    <3>2. CASE j # k
      <4>1. j \notin cli[c].edited /\ cli[c].name \in uses[j]
        BY <1>4, <2>1, <3>2
      <4>2. j \in cli[c].unread \/ cli[c].found
        BY <1>1, <1>2, <4>1 DEF Valid
      <4>. QED
        BY <1>4, <3>2, <4>2
    <3>. QED
      BY <3>1, <3>2
  <2>2. q.name \in Names
    BY <1>1, <1>2, <1>4 DEF Valid, Removing
  <2> HIDE DEF q
  <2>. QED
    BY <1>4, <2>1, <2>2 DEF Valid, Installing
<1> HIDE DEF q
<1>6. cli' \in [Clients -> Requests] /\ Commands'
  BY <1>1, <1>2, <1>3, <1>4, <1>5, OneCommand
<1>7. Same /\ commands' \in 0..MaxCommands /\ UNCHANGED faults /\ UNCHANGED <<node, reload, uses>>
  BY <1>1, TypeParts DEF disk, Same
<1>. QED
  BY <1>1, <1>6, <1>7, DiskStays, ClientKeeps

LEMMA RemoveSteps ==
    ASSUME TypeOK, IInv, NEW c \in Clients, Unlink(c) \/ RemoveDir(c)
    PROVE  TypeOK' /\ IInv'
<1>1. /\ UNCHANGED <<scope, backup, uses, commands, faults>> /\ UNCHANGED <<node, reload, uses>>
      /\ cli[c].pc \in {"remove", "unlink"}
  BY DEF Unlink, RemoveDir, Goto
<1>2. Step(c, "unlink") \/ Step(c, "idle") \/ Step(c, "unscope") \/ Step(c, "reload")
  BY DEF Unlink, RemoveDir, Goto
<1>3. cli' \in [Clients -> Requests] /\ Commands'
  BY <1>1, <1>2, CommandGoesOn DEF IInv, ClientPc, Installing, Removing
<1>4. DiskOK
  BY TypeParts
<1>5. /\ Same \/ \E x \in {"absent", "partial"} : Put(cli[c].name, x)
      /\ installed' \subseteq installed
  BY DEF Unlink, RemoveDir
<1>6. DiskOK' /\ (Same \/ raced' = (raced \/ Reloading))
  <2>1. CASE Same
    BY <1>1, <1>4, <1>5, <2>1 DEF DiskOK, Same
  <2>2. CASE \E x \in {"absent", "partial"} : Put(cli[c].name, x)
    <3>1. dir' \in [Names -> Contents] /\ raced' = (raced \/ Reloading)
      BY <1>4, <2>2, PutIsTyped DEF Contents
    <3>. QED
      BY <1>1, <1>4, <1>5, <3>1 DEF DiskOK
  <2>. QED
    BY <1>5, <2>1, <2>2
<1>7. commands' \in 0..MaxCommands
  BY <1>1, TypeParts
<1>. QED
  BY <1>1, <1>3, <1>6, <1>7, ClientKeeps

LEMMA KillStep ==
    ASSUME TypeOK, IInv, NEW c \in Clients, KillClient(c)
    PROVE  TypeOK' /\ IInv'
<1>1. UNCHANGED <<disk, node, reload, uses, raced, commands>> /\ Fault
  BY DEF KillClient
<1>2. Step(c, "killed")
  <2>1. cli \in [Clients -> Requests]
    BY TypeParts
  <2>. QED
    BY <2>1 DEF KillClient, Step
<1>3. cli' \in [Clients -> Requests] /\ Commands'
  BY <1>1, <1>2, CommandGoesOn DEF IInv, ClientPc, Installing, Removing
<1>4. Same /\ commands' \in 0..MaxCommands /\ UNCHANGED <<node, reload, uses>>
  BY <1>1, TypeParts DEF disk, Same
<1>. QED
  BY <1>1, <1>3, <1>4, DiskStays, ClientKeeps

-----------------------------------------------------------------------------
(* The daemon *)

\* A reload begins: nothing interferes with it so far, or raced says so.
LEMMA ReloadBegins ==
    ASSUME TypeOK, IInv, NEW r \in Reloads, NEW c \in Clients \cup {"none"}, StartReload(r, c),
           UNCHANGED <<dir, registry, shadowed, modules>>
    PROVE  reload' \in [Reloads -> Runs] /\ raced' \in BOOLEAN /\ Reads' /\ BuiltInKept' /\ Undisturbed'
<1> DEFINE w == [NoReload EXCEPT !.pc = "readdir", !.client = c]
<1>1. w \in Runs /\ w.pc = "readdir" /\ w.pkgs = {} /\ w.loaded = {}
  BY DEF NoReload, Runs, ReloadPc
<1>2. reload' = [reload EXCEPT ![r] = w] /\ raced' = (raced \/ Reloading)
  BY DEF StartReload
<1> HIDE DEF w
<1>3. reload' \in [Reloads -> Runs] /\ \A s \in Reloads : reload'[s] = IF s = r THEN w ELSE reload[s]
  BY <1>1, <1>2, TypeParts
<1>4. raced' \in BOOLEAN /\ Reads' /\ BuiltInKept'
  BY <1>1, <1>2, <1>3 DEF IInv, Reads, BuiltInKept
<1>5. Undisturbed'
  <2> SUFFICES ASSUME ~raced'
               PROVE  Undisturbed'
    BY DEF Undisturbed
  <2>1. ~raced /\ \A s \in Reloads : reload[s].pc = "idle"
    BY <1>2 DEF Reloading
  <2>2. \A s \in Reloads : Knows(s)'
    BY <1>1, <1>3, <2>1 DEF Knows
  <2>3. \A s, t \in Reloads : reload'[s].pc # "idle" /\ reload'[t].pc # "idle" => s = t
    BY <1>3, <2>1
  <2>. QED
    BY <2>1, <2>2, <2>3 DEF IInv, Undisturbed
<1>. QED
  BY <1>3, <1>4, <1>5

LEMMA RequestStep ==
    ASSUME TypeOK, IInv, NEW c \in Clients, ReloadPackagesInDaemon(c)
    PROVE  TypeOK' /\ IInv'
<1>1. UNCHANGED <<disk, node, uses, commands, faults>>
  BY DEF ReloadPackagesInDaemon
<1>2. Step(c, "waiting") \/ Step(c, "idle")
  BY DEF ReloadPackagesInDaemon, Goto
<1>3. cli' \in [Clients -> Requests] /\ Commands'
  BY <1>1, <1>2, CommandGoesOn DEF IInv, ClientPc, Installing, Removing
<1>4. CASE \E r \in Reloads : StartReload(r, c)
  <2>1. reload' \in [Reloads -> Runs] /\ raced' \in BOOLEAN /\ Reads' /\ BuiltInKept' /\ Undisturbed'
    BY <1>1, <1>4, ReloadBegins DEF disk, node
  <2>2. NodeOK' /\ DiskOK' /\ uses' \in [Communities -> SUBSET Names] /\ commands' \in 0..MaxCommands
        /\ faults' \in 0..MaxFaults
    BY <1>1, TypeParts, DiskStays DEF NodeOK, node
  <2>. QED
    BY <1>3, <2>1, <2>2, TypePartsNext DEF IInv
<1>5. CASE UNCHANGED <<reload, raced>>
  <2>1. Same /\ commands' \in 0..MaxCommands /\ UNCHANGED faults /\ UNCHANGED <<node, reload, uses>>
    BY <1>1, <1>5, TypeParts DEF disk, Same
  <2>. QED
    BY <1>1, <1>3, <2>1, DiskStays, ClientKeeps
<1>. QED
  BY <1>4, <1>5 DEF ReloadPackagesInDaemon

LEMMA StartDaemonStep ==
    ASSUME TypeOK, IInv, StartDaemon
    PROVE  TypeOK' /\ IInv'
<1>1. /\ UNCHANGED <<disk, cli, registry, shadowed, modules, uses, commands, faults>>
      /\ daemon' = "starting" /\ starts < MaxStarts /\ starts' = starts + 1
      /\ \E r \in Reloads : StartReload(r, "none")
  BY DEF StartDaemon
<1>2. reload' \in [Reloads -> Runs] /\ raced' \in BOOLEAN /\ Reads' /\ BuiltInKept' /\ Undisturbed'
  BY <1>1, ReloadBegins DEF disk
<1>3. starts' \in 0..MaxStarts
  BY <1>1, TypeParts, ConstantsOK DEF NodeOK
<1>4. NodeOK'
  BY <1>1, <1>3, TypeParts DEF NodeOK
<1>5. TypeOK'
  BY <1>1, <1>2, <1>4, TypeParts, TypePartsNext, DiskStays
<1>6. Commands'
  BY <1>1 DEF IInv, Commands, Valid
<1>. QED
  BY <1>2, <1>5, <1>6 DEF IInv

\* What a waiting client is told ends its command.
LEMMA WaitersEnd ==
    ASSUME TypeOK, Commands, UNCHANGED uses, cli' \in [Clients -> Requests],
           \A c \in Clients : cli'[c] = NoCommand \/ cli'[c] = cli[c]
    PROVE  Commands'
<1>1. ASSUME NEW c \in Clients
      PROVE  Valid(cli[c])'
  <2>1. Valid(cli'[c])
    BY NoCommandIsValid DEF Commands
  <2>. QED
    BY <2>1 DEF Valid
<1>. QED
  BY <1>1 DEF Commands

LEMMA StopDaemonStep ==
    ASSUME TypeOK, IInv, StopDaemon
    PROVE  TypeOK' /\ IInv'
<1>1. /\ UNCHANGED <<disk, uses, starts, commands, faults>> /\ daemon' = "down"
      /\ registry' = [n \in Names |-> BuiltIn(n)]
      /\ shadowed' = [n \in Names |-> "absent"]
      /\ modules' = [n \in Names |-> [v \in Versions |-> "none"]]
      /\ reload' = [r \in Reloads |-> NoReload] /\ raced' = FALSE
      /\ cli' = [c \in Clients |-> IF cli[c].pc = "waiting" THEN NoCommand ELSE cli[c]]
  BY DEF StopDaemon
<1>2. NodeOK'
  BY <1>1, TypeParts DEF NodeOK, BuiltIn, Factories
<1>3. cli' \in [Clients -> Requests] /\ Commands'
  <2>1. cli' \in [Clients -> Requests] /\ \A c \in Clients : cli'[c] = NoCommand \/ cli'[c] = cli[c]
    BY <1>1, TypeParts, NoCommandIsValid
  <2>. QED
    BY <1>1, <2>1, WaitersEnd DEF IInv
<1>4. reload' \in [Reloads -> Runs] /\ \A r \in Reloads : reload'[r] = NoReload
  BY <1>1, NoReloadIsTyped
<1>5. TypeOK'
  BY <1>1, <1>2, <1>3, <1>4, TypeParts, TypePartsNext, DiskStays
<1>6. Reads' /\ BuiltInKept'
  BY <1>1, <1>4, NoReloadIsTyped DEF Reads, BuiltInKept
<1>7. Undisturbed'
  <2>1. \A r \in Reloads : Knows(r)'
    BY <1>4, NoReloadIsTyped DEF Knows
  <2>. QED
    BY <1>1, <1>4, <2>1, NoReloadIsTyped DEF Undisturbed
<1>. QED
  BY <1>3, <1>5, <1>6, <1>7 DEF IInv

\* One reload steps, and nothing else moves but what it says.
LEMMA ReloadKeeps ==
    ASSUME TypeOK, IInv, NEW r \in Reloads, NEW w \in Runs,
           reload[r].pc # "idle", reload' = [reload EXCEPT ![r] = w],
           w.pc \in {"hashed", "imported"} => w.name \in Names /\ w.key \in Versions,
           w.pc = "imported" => w.factory \in Versions,
           UNCHANGED <<disk, uses, raced, commands>>, UNCHANGED faults \/ Fault,
           cli' \in [Clients -> Requests], Commands', NodeOK', BuiltInKept',
           ~raced => Knows(r)' /\ \A n \in Names, v \in Versions : modules'[n][v] \in {"none", v}
    PROVE  TypeOK' /\ IInv'
<1>1. reload' \in [Reloads -> Runs] /\ \A s \in Reloads : reload'[s] = IF s = r THEN w ELSE reload[s]
  BY TypeParts
<1>2. Reads'
  BY <1>1 DEF IInv, Reads
<1>3. Undisturbed'
  <2> SUFFICES ASSUME ~raced'
               PROVE  Undisturbed'
    BY DEF Undisturbed
  <2>1. ~raced
    OBVIOUS
  <2>2. \A s \in Reloads : s # r => reload[s].pc = "idle" /\ reload'[s] = reload[s]
    BY <1>1, <2>1 DEF IInv, Undisturbed
  <2>3. \A s \in Reloads : s # r => Knows(s)'
    BY <2>2 DEF Knows
  <2>4. \A s, t \in Reloads : reload'[s].pc # "idle" /\ reload'[t].pc # "idle" => s = t
    BY <2>2
  <2>. QED
    BY <2>1, <2>3, <2>4 DEF Undisturbed
<1>4. TypeOK'
  BY <1>1, TypeParts, TypePartsNext, DiskStays, FaultIsCounted
<1>. QED
  BY <1>2, <1>3, <1>4 DEF IInv

\* What a step of a reload that leaves the registry and the module cache alone has to show.
LEMMA ReloadReads ==
    ASSUME TypeOK, IInv, NEW r \in Reloads, NEW w \in Runs,
           reload[r].pc # "idle", reload' = [reload EXCEPT ![r] = w],
           w.pc \in {"hashed", "imported"} => w.name \in Names /\ w.key \in Versions,
           w.pc # "imported",
           UNCHANGED <<disk, cli, node, uses, raced, commands>>, UNCHANGED faults \/ Fault,
           ~raced => Knows(r)'
    PROVE  TypeOK' /\ IInv'
<1>1. cli' \in [Clients -> Requests] /\ Commands'
  BY TypeParts DEF IInv, Commands, Valid
<1>2. NodeOK' /\ BuiltInKept'
  BY TypeParts DEF IInv, NodeOK, BuiltInKept, node
<1>3. ~raced => \A n \in Names, v \in Versions : modules'[n][v] \in {"none", v}
  BY DEF IInv, Undisturbed, node
<1>. QED
  BY <1>1, <1>2, <1>3, ReloadKeeps

LEMMA ReadDirStep ==
    ASSUME TypeOK, IInv, NEW r \in Reloads, ReadDir(r)
    PROVE  TypeOK' /\ IInv'
<1> DEFINE todo == {n \in Names : dir[n] # "absent"}
           w == [reload[r] EXCEPT !.pc = "read", !.todo = todo]
<1>1. reload \in [Reloads -> Runs] /\ reload[r] \in Runs
  BY TypeParts
<1>2. /\ UNCHANGED <<disk, cli, node, uses, raced, commands, faults>> /\ reload[r].pc = "readdir"
      /\ reload' = [reload EXCEPT ![r] = w]
  BY <1>1 DEF ReadDir
<1>3. w \in Runs /\ w.pc = "read" /\ w.todo = todo /\ w.pkgs = reload[r].pkgs /\ w.loaded = reload[r].loaded
  BY <1>1 DEF Runs, ReloadPc
<1> HIDE DEF w
<1>4. ASSUME ~raced
      PROVE  Knows(r)'
  <2>1. reload[r].loaded = {} /\ reload[r].pkgs = {}
    BY <1>2, <1>4 DEF IInv, Undisturbed, Knows
  <2>2. Present \subseteq todo /\ Present' = Present
    BY <1>2, VersionsApart DEF Present, disk
  <2>3. reload'[r] = w
    BY <1>1, <1>2
  <2>. QED
    BY <1>3, <2>1, <2>2, <2>3 DEF Knows
<1>. QED
  BY <1>2, <1>3, <1>4, ReloadReads

LEMMA ReadPackageStep ==
    ASSUME TypeOK, IInv, NEW r \in Reloads, NEW n \in Names, ReadPackage(r, n)
    PROVE  TypeOK' /\ IInv'
<1> DEFINE pkgs == IF dir[n] \in Versions THEN reload[r].pkgs \cup {n} ELSE reload[r].pkgs
           w == [reload[r] EXCEPT !.todo = @ \ {n}, !.pkgs = pkgs]
<1>1. reload \in [Reloads -> Runs] /\ reload[r] \in Runs
  BY TypeParts
<1>2. /\ UNCHANGED <<disk, cli, node, uses, raced, commands, faults>> /\ reload[r].pc = "read"
      /\ reload' = [reload EXCEPT ![r] = w]
  BY <1>1 DEF ReadPackage
<1>3. w \in Runs /\ w.pc = "read" /\ w.todo = reload[r].todo \ {n} /\ w.pkgs = pkgs /\ w.loaded = reload[r].loaded
  BY <1>1, <1>2 DEF Runs
<1> HIDE DEF w
<1>4. ASSUME ~raced
      PROVE  Knows(r)'
  <2>1. reload[r].loaded = {} /\ reload[r].pkgs \subseteq Present /\ Present \subseteq reload[r].todo \cup reload[r].pkgs
    BY <1>2, <1>4 DEF IInv, Undisturbed, Knows
  <2>2. Present' = Present /\ (n \in Present <=> dir[n] \in Versions)
    BY <1>2 DEF Present, disk
  <2>3. reload'[r] = w
    BY <1>1, <1>2
  <2>4. pkgs \subseteq Present /\ Present \subseteq w.todo \cup pkgs
    BY <1>3, <2>1, <2>2
  <2>. QED
    BY <1>3, <2>1, <2>2, <2>3, <2>4 DEF Knows
<1>. QED
  BY <1>2, <1>3, <1>4, ReloadReads

\* The registry as HandBack leaves it: what is still taken over is a package that was read.
LEMMA HandBackStep ==
    ASSUME TypeOK, IInv, NEW r \in Reloads, HandBack(r)
    PROVE  TypeOK' /\ IInv'
<1> DEFINE gone == {n \in Names : shadowed[n] # "absent" /\ n \notin reload[r].pkgs}
           w == [reload[r] EXCEPT !.pc = "import", !.todo = reload[r].pkgs]
<1>1. reload \in [Reloads -> Runs] /\ reload[r] \in Runs
  BY TypeParts
<1>2. /\ UNCHANGED <<disk, cli, daemon, modules, starts, uses, raced, commands, faults>>
      /\ reload[r].pc = "read" /\ reload[r].todo = {}
      /\ reload' = [reload EXCEPT ![r] = w]
      /\ registry' = [n \in Names |-> IF n \in gone THEN shadowed[n] ELSE registry[n]]
      /\ shadowed' = [n \in Names |-> IF n \in gone THEN "absent" ELSE shadowed[n]]
  BY <1>1 DEF HandBack, HandBackGone
<1>3. w \in Runs /\ w.pc = "import" /\ w.todo = reload[r].pkgs /\ w.pkgs = reload[r].pkgs /\ w.loaded = reload[r].loaded
  BY <1>1 DEF Runs, ReloadPc
<1> HIDE DEF w
<1>4. registry \in [Names -> Factories] /\ shadowed \in [Names -> Factories \cup {"absent"}] /\ NodeOK
  BY TypeParts DEF NodeOK
<1>5. NodeOK'
  <2>1. registry' \in [Names -> Factories] /\ shadowed' \in [Names -> Factories \cup {"absent"}]
    BY <1>2, <1>4
  <2>. QED
    BY <1>2, <1>4, <2>1 DEF NodeOK
<1>6. BuiltInKept'
  <2>1. ASSUME NEW n \in Names
        PROVE  IF shadowed'[n] = "absent" THEN registry'[n] = BuiltIn(n) ELSE shadowed'[n] = BuiltIn(n)
    BY <1>2, <1>4 DEF IInv, BuiltInKept
  <2>. QED
    BY <2>1 DEF BuiltInKept, BuiltIn
<1>7. ASSUME ~raced
      PROVE  Knows(r)'
  <2>1. reload[r].loaded = {} /\ reload[r].pkgs = Present
    BY <1>2, <1>7 DEF IInv, Undisturbed, Knows
  <2>2. Present' = Present /\ reload'[r] = w
    BY <1>1, <1>2 DEF Present, disk
  <2>3. \A n \in Names : shadowed'[n] # "absent" => n \in Present
    BY <1>2, <2>1
  <2>. QED
    BY <1>3, <2>1, <2>2, <2>3 DEF Knows
<1>8. cli' \in [Clients -> Requests] /\ Commands'
  BY <1>2, TypeParts DEF IInv, Commands, Valid
<1>9. ~raced => \A n \in Names, v \in Versions : modules'[n][v] \in {"none", v}
  BY <1>2 DEF IInv, Undisturbed
<1>. QED
  BY <1>2, <1>3, <1>5, <1>6, <1>7, <1>8, <1>9, ReloadKeeps

LEMMA HashStep ==
    ASSUME TypeOK, IInv, NEW r \in Reloads, NEW n \in Names, Hash(r, n)
    PROVE  TypeOK' /\ IInv'
<1>1. reload \in [Reloads -> Runs] /\ reload[r] \in Runs
  BY TypeParts
<1>2. /\ UNCHANGED <<disk, cli, node, uses, raced, commands, faults>>
      /\ reload[r].pc = "import" /\ n \in reload[r].todo
  BY DEF Hash
<1>3. ~raced => Knows(r)
  BY DEF IInv, Undisturbed
<1>4. Present' = Present /\ shadowed' = shadowed /\ registry' = registry /\ dir' = dir
  BY <1>2 DEF Present, disk, node
<1>5. CASE dir[n] \in Versions
  <2> DEFINE w == [reload[r] EXCEPT !.pc = "hashed", !.name = n, !.key = dir[n], !.todo = @ \ {n}]
  <2>1. reload' = [reload EXCEPT ![r] = w] /\ reload'[r] = w
    BY <1>1, <1>5 DEF Hash, Key
  <2>2. /\ w \in Runs /\ w.pc = "hashed" /\ w.name = n /\ w.key = dir[n] /\ w.todo = reload[r].todo \ {n}
        /\ w.pkgs = reload[r].pkgs /\ w.loaded = reload[r].loaded
    BY <1>1, <1>5 DEF Runs, ReloadPc
  <2> HIDE DEF w
  <2>3. n \in Present
    BY <1>5 DEF Present
  <2>4. ~raced => Knows(r)'
    BY <1>2, <1>3, <1>4, <2>1, <2>2, <2>3 DEF Knows
  <2>. QED
    BY <1>2, <1>5, <2>1, <2>2, <2>4, ReloadReads
<1>6. CASE dir[n] \notin Versions
  <2> DEFINE w == [reload[r] EXCEPT !.todo = @ \ {n}]
  <2>1. reload' = [reload EXCEPT ![r] = w] /\ reload'[r] = w
    BY <1>1, <1>6 DEF Hash
  <2>2. /\ w \in Runs /\ w.pc = "import" /\ w.todo = reload[r].todo \ {n}
        /\ w.pkgs = reload[r].pkgs /\ w.loaded = reload[r].loaded
    BY <1>1, <1>2 DEF Runs
  <2> HIDE DEF w
  <2>3. ~raced => Knows(r)'
    BY <1>2, <1>3, <1>4, <2>1, <2>2 DEF Knows
  <2>. QED
    BY <1>2, <2>1, <2>2, <2>3, ReloadReads
<1>. QED
  BY <1>5, <1>6

LEMMA ImportStep ==
    ASSUME TypeOK, IInv, NEW r \in Reloads, Import(r)
    PROVE  TypeOK' /\ IInv'
<1> DEFINE n == reload[r].name
           key == reload[r].key
           factory == IF modules[n][key] # "none" THEN modules[n][key] ELSE dir[n]
           w == [reload[r] EXCEPT !.pc = "imported", !.factory = factory]
<1>1. reload \in [Reloads -> Runs] /\ reload[r] \in Runs
  BY TypeParts
<1>2. /\ UNCHANGED <<disk, cli, daemon, registry, shadowed, starts, uses, raced, commands, faults>>
      /\ reload[r].pc = "hashed" /\ (modules[n][key] # "none" \/ dir[n] \in Versions)
      /\ modules' = [modules EXCEPT ![n][key] = factory]
      /\ reload' = [reload EXCEPT ![r] = w] /\ reload'[r] = w
  BY <1>1 DEF Import
<1>3. n \in Names /\ key \in Versions
  BY <1>2 DEF IInv, Reads
<1>4. modules \in [Names -> [Versions -> Versions \cup {"none"}]] /\ NodeOK
  BY TypeParts DEF NodeOK
<1>5. factory \in Versions
  BY <1>2, <1>3, <1>4
<1>6. /\ w \in Runs /\ w.pc = "imported" /\ w.name = n /\ w.key = key /\ w.factory = factory
      /\ w.todo = reload[r].todo /\ w.pkgs = reload[r].pkgs /\ w.loaded = reload[r].loaded
  BY <1>1, <1>5 DEF Runs, ReloadPc
<1>7. /\ modules' \in [Names -> [Versions -> Versions \cup {"none"}]]
      /\ \A m \in Names, v \in Versions : modules'[m][v] = IF m = n /\ v = key THEN factory ELSE modules[m][v]
  BY <1>2, <1>3, <1>4, <1>5
<1> HIDE DEF n, key, factory, w
<1>8. NodeOK'
  BY <1>2, <1>4, <1>7 DEF NodeOK
<1>9. BuiltInKept' /\ cli' \in [Clients -> Requests] /\ Commands'
  BY <1>2, TypeParts DEF IInv, BuiltInKept, Commands, Valid
<1>10. ASSUME ~raced
       PROVE  Knows(r)' /\ \A m \in Names, v \in Versions : modules'[m][v] \in {"none", v}
  <2>1. Knows(r) /\ \A m \in Names, v \in Versions : modules[m][v] \in {"none", v}
    BY <1>10 DEF IInv, Undisturbed
  <2>2. key = dir[n] /\ n \in Present
    BY <1>2, <2>1 DEF Knows, n, key
  <2>3. factory = key
    BY <1>3, <2>1, <2>2 DEF factory
  <2>4. Present' = Present /\ shadowed' = shadowed /\ registry' = registry /\ dir' = dir
    BY <1>2 DEF Present, disk
  <2>5. Knows(r)'
    BY <1>2, <1>6, <2>1, <2>2, <2>3, <2>4 DEF Knows
  <2>6. \A m \in Names, v \in Versions : modules'[m][v] \in {"none", v}
    BY <1>7, <2>1, <2>3
  <2>. QED
    BY <2>5, <2>6
<1>. QED
  BY <1>2, <1>3, <1>5, <1>6, <1>8, <1>9, <1>10, ReloadKeeps

LEMMA ImportFailsStep ==
    ASSUME TypeOK, IInv, NEW r \in Reloads, ImportFails(r)
    PROVE  TypeOK' /\ IInv'
<1> DEFINE w == [reload[r] EXCEPT !.pc = "import"]
<1>1. reload \in [Reloads -> Runs] /\ reload[r] \in Runs
  BY TypeParts
<1>2. /\ UNCHANGED <<disk, cli, node, uses, raced, commands>> /\ (UNCHANGED faults \/ Fault)
      /\ reload[r].pc = "hashed" /\ reload' = [reload EXCEPT ![r] = w] /\ reload'[r] = w
  BY <1>1 DEF ImportFails, NoFault
<1>3. /\ w \in Runs /\ w.pc = "import" /\ w.todo = reload[r].todo /\ w.pkgs = reload[r].pkgs
      /\ w.loaded = reload[r].loaded
  BY <1>1 DEF Runs, ReloadPc
<1> HIDE DEF w
<1>4. ~raced => Knows(r)'
  <2>1. Present' = Present /\ shadowed' = shadowed /\ registry' = registry /\ dir' = dir
    BY <1>2 DEF Present, disk, node
  <2>2. ~raced => Knows(r)
    BY DEF IInv, Undisturbed
  <2>. QED
    BY <1>2, <1>3, <2>1, <2>2 DEF Knows
<1>. QED
  BY <1>2, <1>3, <1>4, ReloadReads

LEMMA RegisterStep ==
    ASSUME TypeOK, IInv, NEW r \in Reloads, Register(r)
    PROVE  TypeOK' /\ IInv'
<1> DEFINE n == reload[r].name
           w == [reload[r] EXCEPT !.pc = "import", !.loaded = @ \cup {n}]
<1>1. reload \in [Reloads -> Runs] /\ reload[r] \in Runs
  BY TypeParts
<1>2. /\ UNCHANGED <<disk, cli, daemon, modules, starts, uses, raced, commands, faults>>
      /\ reload[r].pc = "imported" /\ reload' = [reload EXCEPT ![r] = w] /\ reload'[r] = w
      /\ shadowed' = [shadowed EXCEPT ![n] = IF shadowed[n] = "absent" THEN registry[n] ELSE shadowed[n]]
      /\ registry' = [registry EXCEPT ![n] = reload[r].factory]
  <2>1. shadowed \in [Names -> Factories \cup {"absent"}]
    BY TypeParts DEF NodeOK
  <2>. QED
    BY <1>1, <2>1 DEF Register, Remember
<1>3. n \in Names /\ reload[r].factory \in Versions
  BY <1>2 DEF IInv, Reads
<1>4. /\ w \in Runs /\ w.pc = "import" /\ w.todo = reload[r].todo /\ w.pkgs = reload[r].pkgs
      /\ w.loaded = reload[r].loaded \cup {n}
  BY <1>1, <1>3 DEF Runs, ReloadPc
<1> HIDE DEF n, w
<1>5. registry \in [Names -> Factories] /\ shadowed \in [Names -> Factories \cup {"absent"}] /\ NodeOK
  BY TypeParts DEF NodeOK
<1>6. /\ registry' \in [Names -> Factories] /\ shadowed' \in [Names -> Factories \cup {"absent"}]
      /\ registry'[n] = reload[r].factory
      /\ shadowed'[n] = IF shadowed[n] = "absent" THEN registry[n] ELSE shadowed[n]
      /\ \A m \in Names : m # n => registry'[m] = registry[m] /\ shadowed'[m] = shadowed[m]
  BY <1>2, <1>3, <1>5 DEF Factories
<1>7. NodeOK'
  BY <1>2, <1>5, <1>6 DEF NodeOK
<1>8. \A m \in Names : IF shadowed'[m] = "absent" THEN registry'[m] = BuiltIn(m) ELSE shadowed'[m] = BuiltIn(m)
  <2>1. \A m \in Names : BuiltIn(m) # "absent"
    BY DEF BuiltIn
  <2>2. \A m \in Names : IF shadowed[m] = "absent" THEN registry[m] = BuiltIn(m) ELSE shadowed[m] = BuiltIn(m)
    BY DEF IInv, BuiltInKept
  <2>. QED
    BY <1>3, <1>6, <2>1, <2>2
<1>9. BuiltInKept'
  BY <1>8 DEF BuiltInKept, BuiltIn
<1>10. cli' \in [Clients -> Requests] /\ Commands'
  BY <1>2, TypeParts DEF IInv, Commands, Valid
<1>11. ASSUME ~raced
       PROVE  Knows(r)' /\ \A m \in Names, v \in Versions : modules'[m][v] \in {"none", v}
  <2>1. Knows(r) /\ \A m \in Names, v \in Versions : modules[m][v] \in {"none", v}
    BY <1>11 DEF IInv, Undisturbed
  <2>2. n \in Present /\ reload[r].factory = dir[n]
    BY <1>2, <2>1 DEF Knows, n
  <2>3. Present' = Present /\ dir' = dir
    BY <1>2 DEF Present, disk
  <2>4. /\ w.pkgs = Present /\ w.todo \subseteq Present
        /\ \A m \in Names : shadowed[m] # "absent" => m \in Present
        /\ \A m \in reload[r].loaded : m \in Names /\ registry[m] = dir[m]
    BY <1>1, <1>2, <1>4, <2>1 DEF Knows, Runs
  <2>5. \A m \in Names : shadowed'[m] # "absent" => m \in Present
    BY <1>6, <2>2, <2>4
  <2>6. \A m \in w.loaded : registry'[m] = dir[m]
    BY <1>4, <1>6, <2>2, <2>4
  <2>7. Knows(r)'
    BY <1>2, <1>4, <2>3, <2>4, <2>5, <2>6 DEF Knows
  <2>. QED
    BY <1>2, <2>1, <2>7
<1>. QED
  BY <1>2, <1>4, <1>7, <1>9, <1>10, <1>11, ReloadKeeps

LEMMA AnswerStep ==
    ASSUME TypeOK, IInv, NEW r \in Reloads, Answer(r)
    PROVE  TypeOK' /\ IInv'
<1>1. /\ UNCHANGED <<disk, registry, shadowed, modules, starts, uses, raced, commands, faults>>
      /\ reload[r].pc = "import" /\ reload' = [reload EXCEPT ![r] = NoReload]
  BY DEF Answer, Loaded
<1>2. cli' \in [Clients -> Requests] /\ Commands'
  <2>1. cli \in [Clients -> Requests]
    BY TypeParts
  <2>2. cli' \in [Clients -> Requests] /\ \A c \in Clients : cli'[c] = NoCommand \/ cli'[c] = cli[c]
    BY <2>1, NoCommandIsValid DEF Answer
  <2>. QED
    BY <1>1, <2>2, WaitersEnd DEF IInv
<1>3. daemon' = daemon \/ daemon' = "up"
  BY DEF Answer
<1>4. NodeOK'
  BY <1>1, <1>3, TypeParts DEF NodeOK
<1>5. BuiltInKept'
  BY <1>1 DEF IInv, BuiltInKept
<1>6. reload'[r] = NoReload
  BY <1>1, TypeParts
<1>7. ~raced => Knows(r)' /\ \A n \in Names, v \in Versions : modules'[n][v] \in {"none", v}
  BY <1>1, <1>6, NoReloadIsTyped DEF IInv, Undisturbed, Knows
<1>. QED
  BY <1>1, <1>2, <1>4, <1>5, <1>7, NoReloadIsTyped, ReloadKeeps

\* A command that has asked the community will know that it was edited since.
LEMMA EditStep ==
    ASSUME TypeOK, IInv, NEW k \in Communities, NEW n \in Wanted, EditCommunity(k, n)
    PROVE  TypeOK' /\ IInv'
<1>1. /\ UNCHANGED <<disk, node, reload, raced, commands, faults>>
      /\ uses' = [uses EXCEPT ![k] = uses[k] \cup {n}]
      /\ cli' = [c \in Clients |-> IF cli[c].pc = "check" THEN [cli[c] EXCEPT !.edited = @ \cup {k}] ELSE cli[c]]
  BY TypeParts DEF EditCommunity
<1>2. cli \in [Clients -> Requests] /\ uses \in [Communities -> SUBSET Names] /\ n \in Names
  BY TypeParts, ConstantsOK
<1>3. uses' \in [Communities -> SUBSET Names] /\ \A j \in Communities : j # k => uses'[j] = uses[j]
  BY <1>1, <1>2
<1>4. \A c \in Clients : cli'[c] \in Requests /\ Valid(cli[c])'
  <2> SUFFICES ASSUME NEW c \in Clients
               PROVE  cli'[c] \in Requests /\ Valid(cli[c])'
    OBVIOUS
  <2>1. cli[c] \in Requests /\ Valid(cli[c])
    BY <1>2 DEF IInv, Commands
  <2>2. CASE cli[c].pc # "check"
    <3>1. cli'[c] = cli[c]
      BY <1>1, <2>2
    <3>. QED
      BY <2>1, <2>2, <3>1 DEF Valid
  <2>3. CASE cli[c].pc = "check"
    <3> DEFINE q == [cli[c] EXCEPT !.edited = @ \cup {k}]
    <3>1. cli'[c] = q
      BY <1>1, <2>3
    <3>2. /\ q \in Requests /\ q.pc = "check" /\ q.name = cli[c].name /\ q.unread = cli[c].unread
          /\ q.found = cli[c].found /\ q.edited = cli[c].edited \cup {k} /\ q.version = cli[c].version
      BY <2>1, <2>3 DEF Requests
    <3> HIDE DEF q
    <3>3. ASSUME NEW j \in Communities, q.name \in uses'[j], j \notin q.edited
          PROVE  j \in q.unread \/ q.found
      <4>1. j # k /\ j \notin cli[c].edited
        BY <3>2, <3>3
      <4>2. cli[c].name \in uses[j]
        BY <1>3, <3>2, <3>3, <4>1
      <4>. QED
        BY <2>1, <2>3, <3>2, <4>1, <4>2 DEF Valid
    <3>4. q.name \in Names
      BY <2>1, <2>3, <3>2 DEF Valid, Removing
    <3>. QED
      BY <3>1, <3>2, <3>3, <3>4 DEF Valid, Installing
  <2>. QED
    BY <2>2, <2>3
<1>5. cli' \in [Clients -> Requests] /\ Commands'
  <2>1. cli' \in [Clients -> Requests]
    BY <1>1, <1>4
  <2>. QED
    BY <1>4, <2>1 DEF Commands
<1>6. Same /\ UNCHANGED <<node, reload>>
  BY <1>1 DEF Same, disk
<1>7. NodeOK' /\ reload' \in [Reloads -> Runs] /\ raced' \in BOOLEAN /\ Reads' /\ BuiltInKept' /\ Undisturbed'
  BY <1>6, DaemonUntouched
<1>8. TypeOK'
  BY <1>1, <1>3, <1>5, <1>7, TypeParts, TypePartsNext, DiskStays
<1>. QED
  BY <1>5, <1>7, <1>8 DEF IInv

-----------------------------------------------------------------------------
(* What is installed remains *)

\* A client's step keeps Copies if the client's own part holds after it and what is then missing
\* from its place is carried by the client, or was missing before and carried by another.
LEMMA OneClientMoves ==
    ASSUME Copies, NEW c \in Clients,
           \A d \in Clients \ {c} : cli'[d] = cli[d] /\ backup'[d] = backup[d],
           Held(c)',
           \A n \in installed' :
               /\ dir'[n] # "partial"
               /\ dir'[n] = "absent" =>
                     Carries(n, c)' \/ (n \in installed /\ dir[n] = "absent" /\ ~Carries(n, c))
    PROVE  Copies'
<1>1. \A d \in Clients : Held(d)'
  BY DEF Copies, Held
<1>2. ASSUME NEW n \in installed', dir'[n] = "absent"
      PROVE  \E d \in Clients : Carries(n, d)'
  <2>1. CASE Carries(n, c)'
    BY <2>1
  <2>2. CASE n \in installed /\ dir[n] = "absent" /\ ~Carries(n, c)
    <3>1. PICK d \in Clients \ {c} : Carries(n, d)
      BY <2>2 DEF Copies
    <3>2. Carries(n, d)'
      BY <3>1 DEF Carries
    <3>. QED
      BY <3>2
  <2>. QED
    BY <1>2, <2>1, <2>2
<1>. QED
  BY <1>1, <1>2 DEF Copies

\* A step that leaves the disk alone keeps Copies if no client that carries a package lets go of it.
LEMMA DiskUntouched ==
    ASSUME Copies, UNCHANGED disk,
           \A c \in Clients :
               /\ Held(c)'
               /\ cli[c].pc \in Copying => cli'[c].pc \in Copying /\ cli'[c].name = cli[c].name
    PROVE  Copies'
<1>1. dir' = dir /\ backup' = backup /\ installed' = installed
  BY DEF disk
<1>2. \A n \in installed, c \in Clients : Carries(n, c) => Carries(n, c)'
  BY <1>1 DEF Carries
<1>. QED
  BY <1>1, <1>2 DEF Copies

\* A client whose command does not move.
LEMMA HeldStays ==
    ASSUME Copies, UNCHANGED backup, NEW c \in Clients,
           cli'[c].pc = cli[c].pc, cli'[c].exists = cli[c].exists
    PROVE  Held(c)'
BY DEF Copies, Held

\* What a step of the command's control makes of the client.
LEMMA StepMoves ==
    ASSUME TypeOK, NEW c \in Clients, NEW next \in ClientPc, Step(c, next)
    PROVE  /\ \A d \in Clients \ {c} : cli'[d] = cli[d]
           /\ cli'[c].pc = next
           /\ next # "idle" => cli'[c].name = cli[c].name /\ cli'[c].exists = cli[c].exists
<1>1. cli \in [Clients -> Requests] /\ cli[c] \in Requests
  BY TypeParts
<1>2. CASE next = "idle"
  BY <1>1, <1>2 DEF Step, NoCommand
<1>3. CASE next # "idle"
  <2> DEFINE q == [cli[c] EXCEPT !.pc = next]
  <2>1. cli' = [cli EXCEPT ![c] = q]
    BY <1>3 DEF Step
  <2>2. q.pc = next /\ q.name = cli[c].name /\ q.exists = cli[c].exists
    BY <1>1 DEF Requests
  <2> HIDE DEF q
  <2>. QED
    BY <1>1, <2>1, <2>2
<1>. QED
  BY <1>2, <1>3

\* Steps of a client that leave the disk alone.
LEMMA ClientThinks ==
    ASSUME TypeOK, Copies, NEW c \in Clients,
           \/ \E n \in Names, v \in Versions : Install(c, n, v)
           \/ \E n \in Names, force \in BOOLEAN : Remove(c, n, force)
           \/ \E k \in Communities : AskCommunity(c, k)
           \/ Access(c) \/ KillClient(c)
    PROVE  Copies'
<1>1. UNCHANGED disk /\ dir' = dir /\ backup' = backup /\ installed' = installed
  BY DEF Install, Remove, AskCommunity, Access, KillClient, disk
<1>2. cli \in [Clients -> Requests] /\ cli[c] \in Requests /\ Held(c)
  BY TypeParts DEF Copies
<1>3. PICK q : /\ cli' = [cli EXCEPT ![c] = q]
               /\ cli[c].pc \in Copying => q.pc \in Copying /\ q.name = cli[c].name
               /\ \/ q.pc \in {"stage", "check", "remove"}
                  \/ q.pc = "aside" /\ q.exists
                  \/ q.pc = "scope" /\ cli[c].pc = "access"
                  \/ q.pc = "killed"
               /\ q.pc # "killed" => cli[c].pc \in {"idle", "access", "check"}
  <2>1. CASE \E n \in Names, v \in Versions : Install(c, n, v)
    <3>1. PICK n \in Names, v \in Versions : Install(c, n, v)
      BY <2>1
    <3> DEFINE p == [NoCommand EXCEPT !.pc = "stage", !.name = n, !.version = v]
    <3>2. cli' = [cli EXCEPT ![c] = p] /\ cli[c].pc = "idle"
      BY <3>1 DEF Install
    <3>3. p.pc = "stage"
      BY DEF NoCommand
    <3> HIDE DEF p
    <3>. QED
      BY <3>2, <3>3 DEF Copying
  <2>2. CASE \E n \in Names, force \in BOOLEAN : Remove(c, n, force)
    <3>1. PICK n \in Names, force \in BOOLEAN : Remove(c, n, force)
      BY <2>2
    <3> DEFINE p == [NoCommand EXCEPT !.pc = IF force THEN "remove" ELSE "check",
                                      !.name = n, !.unread = IF force THEN {} ELSE Communities]
    <3>2. cli' = [cli EXCEPT ![c] = p] /\ cli[c].pc = "idle"
      BY <3>1 DEF Remove
    <3>3. p.pc \in {"check", "remove"}
      BY DEF NoCommand
    <3> HIDE DEF p
    <3>. QED
      BY <3>2, <3>3 DEF Copying
  <2>3. CASE \E k \in Communities : AskCommunity(c, k)
    <3>1. PICK k \in Communities : AskCommunity(c, k)
      BY <2>3
    <3> DEFINE p == [cli[c] EXCEPT !.unread = @ \ {k}, !.edited = @ \ {k}, !.found = @ \/ cli[c].name \in uses[k]]
    <3>2. cli' = [cli EXCEPT ![c] = p] /\ cli[c].pc = "check"
      BY <1>2, <3>1 DEF AskCommunity
    <3>3. p.pc = "check"
      BY <1>2, <3>2 DEF Requests
    <3> HIDE DEF p
    <3>. QED
      BY <3>2, <3>3 DEF Copying
  <2>4. CASE Access(c)
    <3>1. PICK exists \in BOOLEAN :
             cli' = [cli EXCEPT ![c].exists = exists, ![c].pc = IF exists THEN "aside" ELSE "scope"]
      BY <2>4 DEF Access
    <3> DEFINE p == [cli[c] EXCEPT !.exists = exists, !.pc = IF exists THEN "aside" ELSE "scope"]
    <3>2. cli' = [cli EXCEPT ![c] = p] /\ cli[c].pc = "access"
      BY <1>2, <2>4, <3>1 DEF Access
    <3>3. p.pc = (IF exists THEN "aside" ELSE "scope") /\ p.exists = exists
      BY <1>2 DEF Requests
    <3> HIDE DEF p
    <3>. QED
      BY <3>2, <3>3 DEF Copying
  <2>5. CASE KillClient(c)
    <3> DEFINE p == [cli[c] EXCEPT !.pc = "killed"]
    <3>1. cli' = [cli EXCEPT ![c] = p]
      BY <1>2, <2>5 DEF KillClient
    <3>2. p.pc = "killed" /\ p.name = cli[c].name
      BY <1>2 DEF Requests
    <3> HIDE DEF p
    <3>. QED
      BY <3>1, <3>2 DEF Copying
  <2>. QED
    BY <2>1, <2>2, <2>3, <2>4, <2>5
<1>4. cli'[c] = q /\ \A d \in Clients \ {c} : cli'[d] = cli[d]
  BY <1>2, <1>3
<1>5. Held(c)'
  BY <1>1, <1>2, <1>3, <1>4 DEF Held, Copying
<1>6. \A d \in Clients \ {c} : Held(d)'
  BY <1>1, <1>4, HeldStays
<1>. QED
  BY <1>1, <1>3, <1>4, <1>5, <1>6, DiskUntouched

\* Steps of a client that leave the disk alone and only move its control.
LEMMA ClientWaits ==
    ASSUME TypeOK, Copies, NEW c \in Clients,
           \/ Stage(c) \/ CannotCheck(c) \/ RefuseIfInUse(c) \/ ReadScope(c)
           \/ ReloadPackagesInDaemon(c) \/ ReloadTimesOut(c)
    PROVE  Copies'
<1>1. UNCHANGED disk /\ dir' = dir /\ backup' = backup /\ installed' = installed
  BY DEF Stage, CannotCheck, RefuseIfInUse, ReadScope, ReloadPackagesInDaemon, ReloadTimesOut, disk
<1>2. PICK next \in {"access", "cleanup", "idle", "remove", "rmdir", "reload", "waiting"} : Step(c, next)
  BY DEF Stage, CannotCheck, RefuseIfInUse, ReadScope, ReloadPackagesInDaemon, ReloadTimesOut, Goto
<1>3. cli[c].pc \in {"stage", "check", "unscope", "reload", "waiting"}
  BY DEF Stage, CannotCheck, RefuseIfInUse, ReadScope, ReloadPackagesInDaemon, ReloadTimesOut, Goto
<1>4. cli'[c].pc = next /\ \A d \in Clients \ {c} : cli'[d] = cli[d]
  BY <1>2, StepMoves DEF ClientPc
<1>5. Held(c)'
  BY <1>1, <1>2, <1>3, <1>4 DEF Copies, Held, Copying
<1>6. \A d \in Clients \ {c} : Held(d)'
  BY <1>1, <1>4, HeldStays
<1>. QED
  BY <1>1, <1>3, <1>4, <1>5, <1>6, DiskUntouched DEF Copying

\* The steps that change no package directory but make or remove the one of the scope, or clean up.
LEMMA ClientTidies ==
    ASSUME TypeOK, Copies, NEW c \in Clients, MakeScope(c) \/ Cleanup(c) \/ RemoveScope(c)
    PROVE  Copies'
<1>1. dir' = dir /\ installed' = installed /\ \A d \in Clients \ {c} : backup'[d] = backup[d]
  BY TypeParts DEF MakeScope, Cleanup, RemoveScope, DiskOK
<1>2. Held(c) /\ backup \in [Clients -> Contents]
  BY TypeParts DEF Copies, DiskOK
<1>3. CASE MakeScope(c)
  <2>1. Step(c, "place") /\ cli[c].pc = "scope" /\ backup' = backup
    BY <1>3 DEF MakeScope, Goto
  <2>2. /\ cli'[c].pc = "place" /\ cli'[c].name = cli[c].name /\ cli'[c].exists = cli[c].exists
        /\ \A d \in Clients \ {c} : cli'[d] = cli[d]
    BY <2>1, StepMoves DEF ClientPc
  <2>3. Held(c)'
    BY <1>2, <2>1, <2>2 DEF Held, Copying
  <2>4. \A n \in installed : Carries(n, c) => Carries(n, c)'
    BY <2>1, <2>2 DEF Carries, Copying
  <2>. QED
    BY <1>1, <2>2, <2>3, <2>4, OneClientMoves DEF Copies
<1>4. CASE Cleanup(c)
  <2>1. cli[c].pc = "cleanup" /\ backup'[c] = "absent" /\ (Step(c, "reload") \/ Step(c, "idle"))
    BY <1>2, <1>4 DEF Cleanup, Goto
  <2>2. cli'[c].pc \in {"reload", "idle"} /\ \A d \in Clients \ {c} : cli'[d] = cli[d]
    BY <2>1, StepMoves DEF ClientPc
  <2>3. Held(c)' /\ \A n \in installed : ~Carries(n, c)
    BY <2>1, <2>2 DEF Held, Carries, Copying
  <2>. QED
    BY <1>1, <2>2, <2>3, OneClientMoves DEF Copies
<1>5. CASE RemoveScope(c)
  <2>1. cli[c].pc = "rmdir" /\ backup' = backup /\ Step(c, "reload")
    BY <1>5 DEF RemoveScope, Goto
  <2>2. cli'[c].pc = "reload" /\ \A d \in Clients \ {c} : cli'[d] = cli[d]
    BY <2>1, StepMoves DEF ClientPc
  <2>3. Held(c)' /\ \A n \in installed : ~Carries(n, c)
    BY <1>2, <2>1, <2>2 DEF Held, Carries, Copying
  <2>. QED
    BY <1>1, <2>2, <2>3, OneClientMoves DEF Copies
<1>. QED
  BY <1>3, <1>4, <1>5

\* A package that is moved aside is carried, in the version it had.
LEMMA MoveAsideCarries ==
    ASSUME TypeOK, Copies, NEW c \in Clients, MoveAside(c)
    PROVE  Copies'
<1> DEFINE n == cli[c].name
<1>1. /\ installed' = installed /\ cli[c].pc = "aside" /\ Held(c)
      /\ dir \in [Names -> Contents] /\ installed \subseteq Names /\ backup \in [Clients -> Contents]
  BY TypeParts DEF MoveAside, Goto, Copies, DiskOK
<1>2. backup[c] = "absent" /\ cli[c].exists /\ \A m \in installed : ~Carries(m, c)
  BY <1>1 DEF Held, Carries, Copying
<1>3. CASE Step(c, "scope") /\ dir[n] # "absent" /\ backup' = [backup EXCEPT ![c] = dir[n]] /\ Put(n, "absent")
  <2>1. /\ cli'[c].pc = "scope" /\ cli'[c].name = n /\ cli'[c].exists = cli[c].exists
        /\ \A d \in Clients \ {c} : cli'[d] = cli[d]
    BY <1>3, StepMoves DEF ClientPc
  <2>2. backup'[c] = dir[n] /\ \A d \in Clients \ {c} : backup'[d] = backup[d]
    BY <1>1, <1>3
  <2>3. \A m \in Names : dir'[m] = IF m = n THEN "absent" ELSE dir[m]
    BY <1>1, <1>3 DEF Put
  <2>4. Held(c)'
    BY <1>2, <2>1 DEF Held, Copying
  <2>5. n \in installed => dir[n] \in Versions
    BY <1>1, <1>3 DEF Copies, Contents
  <2>6. \A m \in installed : /\ dir'[m] # "partial"
                             /\ dir'[m] = "absent" => Carries(m, c)' \/ (dir[m] = "absent" /\ ~Carries(m, c))
    <3> SUFFICES ASSUME NEW m \in installed
                 PROVE  /\ dir'[m] # "partial"
                        /\ dir'[m] = "absent" => Carries(m, c)' \/ (dir[m] = "absent" /\ ~Carries(m, c))
      OBVIOUS
    <3>1. CASE m = n
      <4>1. Carries(m, c)'
        BY <2>1, <2>2, <2>5, <3>1 DEF Carries, Copying
      <4>2. dir'[m] = "absent"
        BY <1>1, <2>3, <3>1
      <4>. QED
        BY <4>1, <4>2
    <3>2. CASE m # n
      BY <1>1, <1>2, <2>3, <3>2 DEF Copies
    <3>. QED
      BY <3>1, <3>2
  <2>. QED
    BY <1>1, <2>1, <2>2, <2>4, <2>6, OneClientMoves
<1>4. CASE Step(c, "cleanup") /\ Same /\ UNCHANGED backup
  <2>1. cli'[c].pc = "cleanup" /\ \A d \in Clients \ {c} : cli'[d] = cli[d]
    BY <1>4, StepMoves DEF ClientPc
  <2>2. Held(c)' /\ dir' = dir /\ backup' = backup
    BY <1>4, <2>1 DEF Held, Copying, Same
  <2>. QED
    BY <1>1, <1>2, <2>1, <2>2, OneClientMoves DEF Copies
<1>. QED
  BY <1>3, <1>4 DEF MoveAside, Goto

\* What is placed is there; a client that fails to place what it had moved aside goes on to restore it.
LEMMA PlaceKeepsOne ==
    ASSUME TypeOK, Copies, NEW c \in Clients, Place(c), Valid(cli[c])
    PROVE  Copies'
<1> DEFINE n == cli[c].name
<1>1. /\ backup' = backup /\ cli[c].pc = "place" /\ Held(c)
      /\ dir \in [Names -> Contents] /\ installed \subseteq Names
      /\ cli \in [Clients -> Requests] /\ cli[c] \in Requests
  BY TypeParts DEF Place, Placed, PlaceFails, Goto, Copies, DiskOK
<1>2. n \in Names /\ cli[c].version \in Versions
  BY <1>1 DEF Valid, Installing
<1>3. CASE Placed(c)
  <2> DEFINE q == [cli[c] EXCEPT !.ok = TRUE, !.pc = "cleanup"]
  <2>1. cli' = [cli EXCEPT ![c] = q]
    BY <1>1, <1>3 DEF Placed
  <2>2. q.pc = "cleanup"
    BY <1>1 DEF Requests
  <2> HIDE DEF q
  <2>3. cli'[c].pc = "cleanup" /\ \A d \in Clients \ {c} : cli'[d] = cli[d]
    BY <1>1, <2>1, <2>2
  <2>4. Held(c)' /\ installed' = installed \cup {n}
    BY <1>3, <2>3 DEF Held, Copying, Placed
  <2>5. \A m \in Names : dir'[m] = IF m = n THEN cli[c].version ELSE dir[m]
    BY <1>1, <1>3 DEF Placed, Put
  <2>6. \A m \in installed' :
           /\ dir'[m] # "partial"
           /\ dir'[m] = "absent" => m \in installed /\ dir[m] = "absent" /\ ~Carries(m, c)
    BY <1>1, <1>2, <2>4, <2>5, VersionsApart DEF Copies, Carries
  <2>. QED
    BY <1>1, <2>3, <2>4, <2>6, OneClientMoves
<1>4. CASE PlaceFails(c)
  <2>1. /\ dir' = dir /\ installed' = installed
        /\ Step(c, IF cli[c].exists THEN "restore" ELSE "cleanup")
    BY <1>4 DEF PlaceFails, Goto, Same
  <2>2. /\ cli'[c].pc = (IF cli[c].exists THEN "restore" ELSE "cleanup") /\ cli'[c].name = n
        /\ \A d \in Clients \ {c} : cli'[d] = cli[d]
    <3>1. CASE cli[c].exists
      <4>1. Step(c, "restore")
        BY <2>1, <3>1
      <4>. QED
        BY <3>1, <4>1, StepMoves DEF ClientPc
    <3>2. CASE ~cli[c].exists
      <4>1. Step(c, "cleanup")
        BY <2>1, <3>2
      <4>. QED
        BY <3>2, <4>1, StepMoves DEF ClientPc
    <3>. QED
      BY <3>1, <3>2
  <2>3. Held(c)'
    BY <2>2 DEF Held, Copying
  <2>4. \A m \in installed : Carries(m, c) => Carries(m, c)'
    BY <1>1, <2>2, VersionsApart DEF Held, Carries, Copying
  <2>. QED
    BY <1>1, <2>1, <2>2, <2>3, <2>4, OneClientMoves DEF Copies
<1>. QED
  BY <1>3, <1>4 DEF Place

\* What is put back is there; what cannot be put back is lost only if nothing is in its place.
LEMMA RestoreKeepsOne ==
    ASSUME TypeOK, Copies, NEW c \in Clients, Restore(c), Valid(cli[c])
    PROVE  Copies'
<1> DEFINE n == cli[c].name
<1>1. /\ cli[c].pc = "restore" /\ Step(c, "cleanup") /\ n \in Names
      /\ dir \in [Names -> Contents] /\ installed \subseteq Names /\ backup \in [Clients -> Contents]
  BY TypeParts DEF Restore, Goto, Valid, Installing, DiskOK
<1>2. cli'[c].pc = "cleanup" /\ \A d \in Clients \ {c} : cli'[d] = cli[d]
  BY <1>1, StepMoves DEF ClientPc
<1>3. Held(c)' /\ \A m \in installed \ {n} : ~Carries(m, c)
  BY <1>2 DEF Held, Copying, Carries
<1>4. CASE Restored(c)
  <2>1. \A d \in Clients \ {c} : backup'[d] = backup[d]
    BY <1>1, <1>4 DEF Restored
  <2>2. installed' \subseteq installed /\ (n \in installed' => backup[c] \in Versions)
    BY <1>4 DEF Restored
  <2>3. \A m \in Names : dir'[m] = IF m = n THEN backup[c] ELSE dir[m]
    BY <1>1, <1>4 DEF Restored, Put
  <2>4. \A m \in installed' :
           /\ dir'[m] # "partial"
           /\ dir'[m] = "absent" => m \in installed /\ dir[m] = "absent" /\ ~Carries(m, c)
    BY <1>1, <1>3, <2>2, <2>3, VersionsApart DEF Copies
  <2>. QED
    BY <1>2, <1>3, <2>1, <2>4, OneClientMoves
<1>5. CASE RestoreFails(c)
  <2>1. dir' = dir /\ backup' = backup /\ installed' = IF dir[n] = "absent" THEN installed \ {n} ELSE installed
    BY <1>5 DEF RestoreFails, Same
  <2>2. \A m \in installed' :
           /\ dir'[m] # "partial"
           /\ dir'[m] = "absent" => m \in installed /\ dir[m] = "absent" /\ ~Carries(m, c)
    BY <1>3, <2>1 DEF Copies
  <2>. QED
    BY <1>2, <1>3, <2>1, <2>2, OneClientMoves
<1>. QED
  BY <1>4, <1>5 DEF Restore

\* A remove touches only its own package.
LEMMA RemoveSparesOthers ==
    ASSUME TypeOK, Copies, NEW c \in Clients, Unlink(c) \/ RemoveDir(c), Valid(cli[c])
    PROVE  Copies'
<1> DEFINE n == cli[c].name
<1>1. /\ cli[c].pc \in {"remove", "unlink"} /\ backup' = backup /\ n \in Names
      /\ \E next \in {"unlink", "idle", "unscope", "reload"} : Step(c, next)
      /\ dir \in [Names -> Contents] /\ installed \subseteq Names
  BY TypeParts DEF Unlink, RemoveDir, Goto, Valid, Removing, DiskOK
<1>2. cli'[c].pc \in {"unlink", "idle", "unscope", "reload"} /\ \A d \in Clients \ {c} : cli'[d] = cli[d]
  BY <1>1, StepMoves DEF ClientPc
<1>3. Held(c)' /\ \A m \in installed : ~Carries(m, c)
  BY <1>1, <1>2 DEF Copies, Held, Copying, Carries
<1>4. \/ dir' = dir /\ installed' = installed
      \/ (\E x : dir' = [dir EXCEPT ![n] = x]) /\ installed' = installed \ {n}
  BY DEF Unlink, RemoveDir, Put, Same
<1>5. \A m \in installed' : m \in installed /\ dir'[m] = dir[m]
  BY <1>1, <1>4
<1>. QED
  BY <1>1, <1>2, <1>3, <1>5, OneClientMoves DEF Copies

\* The daemon and the communities carry no package.
LEMMA DaemonSparesPackages ==
    ASSUME TypeOK, Copies,
           \/ StartDaemon \/ StopDaemon \/ \E r \in Reloads : ReloadStep(r)
           \/ \E k \in Communities, n \in Wanted : EditCommunity(k, n)
    PROVE  Copies'
<1>1. UNCHANGED disk /\ backup' = backup
  <2>1. CASE StartDaemon \/ StopDaemon \/ \E k \in Communities, n \in Wanted : EditCommunity(k, n)
    BY <2>1 DEF StartDaemon, StopDaemon, EditCommunity, disk
  <2>2. ASSUME NEW r \in Reloads, ReloadStep(r)
        PROVE  UNCHANGED disk
    <3>1. ReadDir(r) \/ (\E n \in Names : ReadPackage(r, n)) \/ (\E n \in Names : Hash(r, n)) => UNCHANGED disk
      BY DEF ReadDir, ReadPackage, Hash
    <3>2. HandBack(r) \/ Import(r) \/ ImportFails(r) \/ Register(r) \/ Answer(r) => UNCHANGED disk
      BY DEF HandBack, Import, ImportFails, Register, Answer
    <3>. QED
      BY <2>2, <3>1, <3>2 DEF ReloadStep
  <2>3. UNCHANGED disk
    BY <2>1, <2>2
  <2>. QED
    BY <2>3 DEF disk
<1>2. cli \in [Clients -> Requests]
  BY TypeParts
<1>3. \A c \in Clients :
         \/ cli'[c].pc = cli[c].pc /\ cli'[c].name = cli[c].name /\ cli'[c].exists = cli[c].exists
         \/ cli[c].pc = "waiting" /\ cli'[c] = NoCommand
  <2>1. CASE StopDaemon
    BY <2>1 DEF StopDaemon
  <2>2. ASSUME NEW r \in Reloads, Answer(r)
        PROVE  \A c \in Clients : cli'[c] = cli[c] \/ (cli[c].pc = "waiting" /\ cli'[c] = NoCommand)
    BY <1>2, <2>2 DEF Answer
  <2>3. CASE \E k \in Communities, n \in Wanted : EditCommunity(k, n)
    <3>1. PICK k \in Communities, n \in Wanted : EditCommunity(k, n)
      BY <2>3
    <3> SUFFICES ASSUME NEW c \in Clients
                 PROVE  cli'[c].pc = cli[c].pc /\ cli'[c].name = cli[c].name /\ cli'[c].exists = cli[c].exists
      OBVIOUS
    <3>2. cli'[c] = [cli[c] EXCEPT !.edited = @ \cup {k}] \/ cli'[c] = cli[c]
      BY <3>1 DEF EditCommunity
    <3>3. cli[c] \in Requests
      BY <1>2
    <3>. QED
      BY <3>2, <3>3 DEF Requests
  <2>4. CASE UNCHANGED cli
    BY <2>4
  <2>5. \/ StopDaemon \/ (\E r \in Reloads : Answer(r)) \/ UNCHANGED cli
        \/ \E k \in Communities, n \in Wanted : EditCommunity(k, n)
    BY DEF StartDaemon, ReloadStep, ReadDir, ReadPackage, HandBack, Hash, Import, ImportFails, Register
  <2>. QED
    BY <2>1, <2>2, <2>3, <2>4, <2>5
<1>4. \A c \in Clients : Held(c)'
  BY <1>1, <1>3 DEF Copies, Held, Copying, NoCommand
<1>. QED
  BY <1>1, <1>3, <1>4, DiskUntouched DEF Copying

-----------------------------------------------------------------------------
(* The theorems *)

LEMMA InitInvariant == Init => TypeOK /\ IInv
<1> SUFFICES ASSUME Init
             PROVE  TypeOK /\ IInv
  OBVIOUS
<1>1. DiskOK
  <2>1. dir \in [Names -> Versions \cup {"absent"}] /\ installed \subseteq Names
        /\ scope = (Scoped \cap installed # {}) /\ backup = [c \in Clients |-> "absent"]
    BY DEF Init
  <2>2. dir \in [Names -> Contents] /\ backup \in [Clients -> Contents]
    BY <2>1 DEF Contents
  <2>. QED
    BY <2>1, <2>2 DEF DiskOK
<1>2. NodeOK
  BY ConstantsOK DEF Init, NodeOK, BuiltIn, Factories
<1>3. /\ cli \in [Clients -> Requests] /\ \A c \in Clients : cli[c] = NoCommand
      /\ reload \in [Reloads -> Runs] /\ \A r \in Reloads : reload[r] = NoReload
  BY NoCommandIsValid, NoReloadIsTyped DEF Init
<1>4. /\ uses \in [Communities -> SUBSET Names] /\ raced \in BOOLEAN
      /\ commands \in 0..MaxCommands /\ faults \in 0..MaxFaults
  <2>1. uses = [k \in Communities |-> {}] /\ raced = FALSE /\ commands = 0 /\ faults = 0
    BY DEF Init
  <2>2. uses \in [Communities -> SUBSET Names]
    BY <2>1
  <2>3. 0 \in 0..MaxCommands /\ 0 \in 0..MaxFaults
    BY ConstantsOK
  <2>. QED
    BY <2>1, <2>2, <2>3
<1>5. TypeOK
  BY <1>1, <1>2, <1>3, <1>4, TypeParts
<1>6. Commands /\ Reads
  BY <1>3, NoCommandIsValid, NoReloadIsTyped DEF Commands, Reads
<1>7. BuiltInKept
  BY DEF Init, BuiltInKept
<1>8. Undisturbed
  <2>1. \A r \in Reloads : Knows(r)
    BY <1>3, NoReloadIsTyped DEF Knows
  <2>2. \A n \in Names, v \in Versions : modules[n][v] = "none"
    BY DEF Init
  <2>. QED
    BY <1>3, <2>1, <2>2, NoReloadIsTyped DEF Undisturbed
<1>. QED
  BY <1>5, <1>6, <1>7, <1>8 DEF IInv

LEMMA InvariantStep == TypeOK /\ IInv /\ [Next]_vars => TypeOK' /\ IInv'
<1> SUFFICES ASSUME TypeOK, IInv, [Next]_vars
             PROVE  TypeOK' /\ IInv'
  OBVIOUS
<1>1. ASSUME NEW c \in Clients, ClientStep(c)
      PROVE  TypeOK' /\ IInv'
  BY <1>1, NewCommand, OnlyTheCommand, AroundThePackages, AccessStep, MoveSteps, PlaceStep, AskStep,
     RemoveSteps, KillStep, RequestStep DEF ClientStep
<1>2. ASSUME NEW r \in Reloads, ReloadStep(r)
      PROVE  TypeOK' /\ IInv'
  BY <1>2, ReadDirStep, ReadPackageStep, HandBackStep, HashStep, ImportStep, ImportFailsStep,
     RegisterStep, AnswerStep DEF ReloadStep
<1>3. CASE StartDaemon \/ StopDaemon
  BY <1>3, StartDaemonStep, StopDaemonStep
<1>4. CASE \E k \in Communities, n \in Wanted : EditCommunity(k, n)
  BY <1>4, EditStep
<1>5. CASE UNCHANGED vars
  <2>1. UNCHANGED <<disk, node, reload, uses, cli, raced, commands, faults>>
    BY <1>5 DEF vars
  <2>2. UNCHANGED <<node, reload, uses>> /\ Same /\ commands' \in 0..MaxCommands /\ UNCHANGED faults
    BY <2>1, TypeParts DEF disk, Same
  <2>3. cli' \in [Clients -> Requests] /\ Commands'
    BY <2>1, TypeParts DEF IInv, Commands, Valid
  <2>. QED
    BY <2>1, <2>2, <2>3, DiskStays, ClientKeeps
<1>. QED
  BY <1>1, <1>2, <1>3, <1>4, <1>5 DEF Next

\* IInv holds in every reachable state.
THEOREM Invariant == Spec => [](TypeOK /\ IInv)
BY InitInvariant, InvariantStep, PTL DEF Spec

\* TypeOK: the directories, the commands, the registry, the module cache and the reloads keep their
\* types.
THEOREM TypeCorrect == Spec => []TypeOK
BY Invariant, PTL

\* BuiltInKept: the daemon hands back what pkc-js ships for a name when the package goes.
THEOREM BuiltInsSurvive == Spec => []BuiltInKept
<1>1. IInv => BuiltInKept
  BY DEF IInv
<1>. QED
  BY Invariant, <1>1, PTL

\* ReloadTakesEffect: a reload that nothing interferes with brings the registry to what is installed.
THEOREM ReloadsTakeEffect == Spec => []ReloadTakesEffect
<1>1. TypeOK /\ IInv => ReloadTakesEffect
  <2> SUFFICES ASSUME TypeOK, IInv, NEW r \in Reloads, ~raced, Loaded(r), NEW n \in Names
               PROVE  /\ dir[n] = "absent" => registry[n] = BuiltIn(n)
                      /\ n \in reload[r].loaded => registry[n] = dir[n]
    BY DEF ReloadTakesEffect
  <2>1. /\ \A m \in Names : shadowed[m] # "absent" => m \in Present
        /\ \A m \in reload[r].loaded : registry[m] = dir[m]
    BY DEF IInv, Undisturbed, Knows, Loaded
  <2>2. dir[n] = "absent" => shadowed[n] = "absent"
    BY <2>1, VersionsApart DEF Present
  <2>. QED
    BY <2>1, <2>2 DEF IInv, BuiltInKept
<1>. QED
  BY Invariant, <1>1, PTL

LEMMA CopiesAtFirst == Init => Copies
<1> SUFFICES ASSUME Init
             PROVE  Copies
  OBVIOUS
<1>1. \A c \in Clients : backup[c] = "absent" /\ cli[c].pc = "idle"
  BY DEF Init, NoCommand
<1>2. \A n \in installed : dir[n] \in Versions
  BY DEF Init
<1>. QED
  BY <1>1, <1>2, VersionsApart DEF Copies, Held

LEMMA CopiesStep == TypeOK /\ IInv /\ Copies /\ [Next]_vars => Copies'
<1> SUFFICES ASSUME TypeOK, IInv, Copies, [Next]_vars
             PROVE  Copies'
  OBVIOUS
<1>1. ASSUME NEW c \in Clients, ClientStep(c)
      PROVE  Copies'
  <2>1. Valid(cli[c])
    BY DEF IInv, Commands
  <2>. QED
    BY <1>1, <2>1, ClientThinks, ClientWaits, ClientTidies, MoveAsideCarries, PlaceKeepsOne, RestoreKeepsOne,
       RemoveSparesOthers DEF ClientStep
<1>2. CASE UNCHANGED vars
  BY <1>2 DEF vars, disk, Copies, Held, Carries
<1>. QED
  BY <1>1, <1>2, DaemonSparesPackages DEF Next

\* NothingLost: whichever clients replace a package at once, and whichever of them is killed or fails
\* to place it, a version of it remains, in its place or in the temporary directory of a client,
\* until a remove touches it, or a restore fails or puts back what a remove had touched.
THEOREM NothingIsLost == Spec => []NothingLost
<1>1. TypeOK /\ Copies => NothingLost
  <2> SUFFICES ASSUME TypeOK, Copies, NEW n \in installed
               PROVE  dir[n] \in Versions \/ \E c \in Clients : cli[c].name = n /\ backup[c] \in Versions
    BY DEF NothingLost
  <2>1. dir[n] \in Contents /\ dir[n] # "partial"
    BY TypeParts DEF DiskOK, Copies
  <2>. QED
    BY <2>1 DEF Contents, Copies, Carries
<1>. QED
  BY Invariant, CopiesAtFirst, CopiesStep, <1>1, PTL DEF Spec

\* InUseIsRefused: without --force no package is removed that a community named when it was asked.
THEOREM InUseIsSafe == Spec => InUseIsRefused
<1> DEFINE Refused == \A c \in Clients : cli[c].pc = "check" /\ cli'[c].pc = "remove" =>
                          \A k \in Communities : cli[c].name \in uses[k] => k \in cli[c].edited
<1>1. TypeOK /\ IInv /\ [Next]_vars => [Refused]_vars
  <2> SUFFICES ASSUME TypeOK, IInv, Next, NEW c \in Clients, cli[c].pc = "check", cli'[c].pc = "remove",
                      NEW k \in Communities, cli[c].name \in uses[k]
               PROVE  k \in cli[c].edited
    OBVIOUS
  <2>1. cli \in [Clients -> Requests] /\ cli[c] \in Requests /\ NoCommand.pc = "idle"
    BY TypeParts DEF NoCommand
  <2>2. PICK d \in Clients : ClientStep(d)
    <3>1. CASE StartDaemon
      BY <3>1 DEF StartDaemon
    <3>2. CASE StopDaemon
      BY <2>1, <3>2 DEF StopDaemon
    <3>3. ASSUME NEW r \in Reloads, ReloadStep(r)
          PROVE  FALSE
      <4>1. CASE Answer(r)
        BY <2>1, <4>1 DEF Answer
      <4>2. CASE UNCHANGED cli
        BY <4>2
      <4>. QED
        BY <3>3, <4>1, <4>2 DEF ReloadStep, ReadDir, ReadPackage, HandBack, Hash, Import, ImportFails, Register
    <3>4. ASSUME NEW j \in Communities, NEW n \in Wanted, EditCommunity(j, n)
          PROVE  FALSE
      <4>1. cli'[c] = [cli[c] EXCEPT !.edited = @ \cup {j}]
        BY <3>4 DEF EditCommunity
      <4>. QED
        BY <2>1, <4>1 DEF Requests
    <3>. QED
      BY <3>1, <3>2, <3>3, <3>4 DEF Next
  <2>3. RefuseIfInUse(c)
    <3>1. \A e \in Clients : \A q : cli' = [cli EXCEPT ![e] = q] => cli'[c] = IF e = c THEN q ELSE cli[c]
      BY <2>1
    <3>2. \A next : Step(d, next) => d = c /\ next = "remove"
      <4> SUFFICES ASSUME NEW next, Step(d, next)
                   PROVE  d = c /\ next = "remove"
        OBVIOUS
      <4> DEFINE q == IF next = "idle" THEN NoCommand ELSE [cli[d] EXCEPT !.pc = next]
      <4>1. cli' = [cli EXCEPT ![d] = q]
        BY <2>1 DEF Step
      <4>2. cli'[c] = IF d = c THEN q ELSE cli[c]
        BY <3>1, <4>1
      <4>3. d = c
        BY <4>2
      <4>4. cli[d] \in Requests
        BY <2>1
      <4>5. q.pc = next \/ q.pc = "idle"
        BY <2>1, <4>4 DEF Requests
      <4>. QED
        BY <4>2, <4>3, <4>5
    <3>3. \A this, next : Goto(d, this, next) => d = c /\ this = "check" /\ next = "remove"
      BY <3>2 DEF Goto
    <3>4. CASE \E n \in Names, v \in Versions : Install(d, n, v)
      BY <2>1, <3>4 DEF Install, NoCommand
    <3>5. CASE \E n \in Names, force \in BOOLEAN : Remove(d, n, force)
      <4>1. d # c /\ cli'[c] = cli[c]
        BY <2>1, <3>5 DEF Remove
      <4>. QED
        BY <4>1
    <3>6. CASE Access(d)
      BY <2>1, <3>6 DEF Access
    <3>7. CASE Placed(d)
      BY <2>1, <3>7 DEF Placed
    <3>8. CASE \E j \in Communities : AskCommunity(d, j)
      <4>1. PICK j \in Communities : AskCommunity(d, j)
        BY <3>8
      <4>2. cli' = [cli EXCEPT ![d] = [cli[d] EXCEPT !.unread = @ \ {j}, !.edited = @ \ {j},
                                                     !.found = @ \/ cli[d].name \in uses[j]]]
        BY <2>1, <4>1 DEF AskCommunity
      <4>3. cli'[c].pc = cli[c].pc
        BY <2>1, <4>2 DEF Requests
      <4>. QED
        BY <4>3
    <3>9. CASE KillClient(d)
      BY <2>1, <3>9 DEF KillClient
    <3>10. CASE \/ Stage(d) \/ MoveAside(d) \/ MakeScope(d) \/ PlaceFails(d) \/ Restore(d) \/ Cleanup(d)
                \/ CannotCheck(d) \/ Unlink(d) \/ RemoveDir(d) \/ ReadScope(d) \/ RemoveScope(d)
                \/ ReloadPackagesInDaemon(d) \/ ReloadTimesOut(d)
      <4>1. CASE CannotCheck(d)
        <5>1. Step(d, "idle")
          BY <4>1 DEF CannotCheck, Goto
        <5>. QED
          BY <3>2, <5>1
      <4>2. CASE ~CannotCheck(d)
        <5>1. cli[d].pc # "check"
          BY <3>10, <4>2 DEF Stage, MoveAside, MakeScope, PlaceFails, Restore, Cleanup, Unlink, RemoveDir,
             ReadScope, RemoveScope, ReloadPackagesInDaemon, ReloadTimesOut, Goto
        <5>2. \E next : Step(d, next)
          BY <3>10, <4>2 DEF Stage, MoveAside, MakeScope, PlaceFails, Restore, Cleanup, Unlink, RemoveDir,
             ReadScope, RemoveScope, ReloadPackagesInDaemon, ReloadTimesOut, Goto
        <5>. QED
          BY <3>2, <5>1, <5>2
      <4>. QED
        BY <4>1, <4>2
    <3>11. CASE RefuseIfInUse(d)
      BY <3>3, <3>11 DEF RefuseIfInUse
    <3>12. \/ \E n \in Names, v \in Versions : Install(d, n, v)
           \/ \E n \in Names, force \in BOOLEAN : Remove(d, n, force)
           \/ Access(d) \/ Placed(d) \/ KillClient(d) \/ RefuseIfInUse(d)
           \/ \E j \in Communities : AskCommunity(d, j)
           \/ \/ Stage(d) \/ MoveAside(d) \/ MakeScope(d) \/ PlaceFails(d) \/ Restore(d) \/ Cleanup(d)
              \/ CannotCheck(d) \/ Unlink(d) \/ RemoveDir(d) \/ ReadScope(d) \/ RemoveScope(d)
              \/ ReloadPackagesInDaemon(d) \/ ReloadTimesOut(d)
      BY <2>2 DEF ClientStep, Place
    <3>. QED
      BY <3>4, <3>5, <3>6, <3>7, <3>8, <3>9, <3>10, <3>11, <3>12
  <2>4. cli[c].unread = {} /\ ~cli[c].found
    <3>1. cli[c].unread = {} /\ Step(c, IF cli[c].found THEN "idle" ELSE "remove")
      BY <2>3 DEF RefuseIfInUse, Goto
    <3>2. CASE cli[c].found
      BY <2>1, <3>1, <3>2 DEF Step
    <3>. QED
      BY <3>1, <3>2
  <2>. QED
    BY <2>4 DEF IInv, Commands, Valid
<1>. QED
  BY Invariant, <1>1, PTL DEF Spec, InUseIsRefused
=============================================================================

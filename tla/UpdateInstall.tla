--------------------------- MODULE UpdateInstall ---------------------------
(***************************************************************************)
(* `bitsocial update install` (src/cli/commands/update/install.ts,         *)
(* src/update/restart-orchestration.ts and systemctl.ts) among the daemons *)
(* of DaemonStates: it finds them, stops those no supervisor owns,         *)
(* installs, starts them again and has the supervisors restart the others. *)
(* Installing is one step: FastUpdate has its own module.                  *)
(***************************************************************************)
EXTENDS DaemonStates

VARIABLES
    pc,        \* the step of the command that is due
    managed,   \* plan.managed: files, with the unit that owns each
    unmanaged, \* plan.unmanaged
    queue,     \* what the current loop has left
    current,   \* the daemon it is at
    units,     \* the units it restarted
    found,     \* observed: the daemons in service when the files were read
    owed,      \* observed: the daemons it stopped and has not started again
    result

updateVars == <<pc, managed, unmanaged, queue, current, units, found, owed, result>>
vars == <<daemonVars, updateVars>>

Plans == [file : Entries, unit : Units]

TypeOK ==
    /\ DaemonTypeOK
    /\ pc \in {"idle", "scan", "plan", "stop", "exit", "version", "fast", "full", "start", "port", "restart", "done"}
    /\ managed \in SUBSET Plans /\ unmanaged \in SUBSET Entries
    /\ queue \in SUBSET (Plans \cup Entries)
    /\ current \in Entries \cup {NoFile}
    /\ units \in SUBSET Units
    /\ found \in SUBSET Starts /\ owed \in SUBSET Entries
    /\ result \in {"none", "installed", "already", "error"}

Init ==
    /\ DaemonInit
    /\ pc = "idle"
    /\ managed = {} /\ unmanaged = {} /\ queue = {} /\ current = NoFile
    /\ units = {} /\ found = {} /\ owed = {} /\ result = "none"

Goto(this, next) == pc = this /\ pc' = next

Return(this, r) == Goto(this, "done") /\ result' = r

-----------------------------------------------------------------------------
(* Finding the daemons *)

Begin ==
    /\ Goto("idle", "scan")
    /\ ReadAllDaemonStates(Updater)
    /\ found' = {proc[p].start : p \in {q \in Pids \ reused : Recorded(q)}}
    /\ UNCHANGED <<processes, binary, files, reused, faults, managed, unmanaged, queue, current, units, owed, result>>

Scan ==
    /\ pc = "scan"
    /\ ScanStep(Updater)
    /\ UNCHANGED <<processes, binary, reused, updateVars>>

AliveDaemons ==
    /\ Goto("scan", "plan") /\ Scanned(Updater)
    /\ queue' = scan[Updater].alive
    /\ scan' = [scan EXCEPT ![Updater] = NoScan]
    /\ UNCHANGED <<processes, binary, files, reused, faults, managed, unmanaged, current, units, found, owed, result>>

\* Mutant: only what the daemon recorded counts.
RecordedUnit(f) == f.unit

\* resolveDaemonSupervisor: the recorded unit, or the one the process is found to be owned by.
OwnerOf(f) == IF f.unit # "none" THEN f.unit ELSE IF Owned(f.pid) THEN proc[f.pid].unit ELSE "none"

PlanDaemonRestarts(f) ==
    /\ pc = "plan" /\ f \in queue
    /\ queue' = queue \ {f}
    /\ \/ /\ OwnerOf(f) # "none" /\ NoFault
          /\ managed' = managed \cup {[file |-> f, unit |-> OwnerOf(f)]} /\ UNCHANGED unmanaged
       \/ /\ IF OwnerOf(f) = "none" THEN NoFault ELSE f.unit = "none" /\ Fault
          /\ unmanaged' = unmanaged \cup {f} /\ UNCHANGED managed
    /\ UNCHANGED <<processes, binary, storage, pc, current, units, found, owed, result>>

\* With --no-restart-daemons nothing is done while a daemon runs.
Planned ==
    /\ pc = "plan" /\ queue = {}
    /\ \/ managed \cup unmanaged # {} /\ Return("plan", "error") /\ UNCHANGED queue
       \/ Goto("plan", "stop") /\ queue' = unmanaged /\ UNCHANGED result
    /\ UNCHANGED <<daemonVars, managed, unmanaged, current, units, found, owed>>

-----------------------------------------------------------------------------
(* Stopping those no supervisor owns, one after the other *)

StopUnmanaged(f) ==
    /\ pc = "stop" /\ f \in queue
    /\ queue' = queue \ {f}
    /\ IF Alive(f.pid)
       THEN Signal(f.pid) /\ Goto("stop", "exit") /\ current' = f
       ELSE UNCHANGED <<proc, files, scan, pc, current>>
    /\ UNCHANGED <<launches, kills, binary, reused, faults, managed, unmanaged, units, found, owed, result>>

\* Mutant: the port being free is enough.
PortFree == proc[current.pid].phase # "serving"

\* The process id is gone.
HasExited == ~Alive(current.pid)

WaitForProcessExit ==
    /\ Goto("exit", "stop") /\ HasExited
    /\ current' = NoFile /\ owed' = owed \cup {current}
    /\ UNCHANGED <<daemonVars, managed, unmanaged, queue, units, found, result>>

\* DAEMON_SHUTDOWN_TIMEOUT_MS
StopTimesOut ==
    /\ Return("exit", "error") /\ ~HasExited
    /\ UNCHANGED <<daemonVars, managed, unmanaged, queue, current, units, found, owed>>

Stopped ==
    /\ Goto("stop", "version") /\ queue = {}
    /\ UNCHANGED <<daemonVars, managed, unmanaged, queue, current, units, found, owed, result>>

-----------------------------------------------------------------------------
(* Installing *)

FetchLatestVersionFails ==
    /\ Return("version", "error") /\ Fault
    /\ UNCHANGED <<processes, binary, storage, managed, unmanaged, queue, current, units, found, owed>>

\* The target is the version that runs, and --force is not given.
AlreadyInstalled ==
    /\ Goto("version", "start") /\ result' = "already"
    /\ queue' = unmanaged
    /\ UNCHANGED <<daemonVars, managed, unmanaged, current, units, found, owed>>

\* --force skips the fast install.
ChooseInstall ==
    /\ Goto("version", "full") \/ Goto("version", "fast")
    /\ UNCHANGED <<daemonVars, managed, unmanaged, queue, current, units, found, owed, result>>

Installed(this) ==
    /\ Goto(this, "start") /\ result' = "installed"
    /\ binary' = "new" /\ queue' = unmanaged
    /\ NoFault

FastInstallGlobal ==
    /\ \/ Installed("fast")
       \/ Goto("fast", "full") /\ Fault /\ UNCHANGED <<binary, queue, result>>
    /\ UNCHANGED <<processes, storage, managed, unmanaged, current, units, found, owed>>

InstallGlobal ==
    /\ \/ Installed("full")
       \/ Return("full", "error") /\ Fault /\ UNCHANGED <<binary, queue>>
    /\ UNCHANGED <<processes, storage, managed, unmanaged, current, units, found, owed>>

-----------------------------------------------------------------------------
(* Starting them again *)

\* A daemon that cannot be spawned, or does not come up, is only warned about.
StartUnmanaged(f) ==
    /\ pc = "start" /\ f \in queue
    /\ queue' = queue \ {f}
    /\ \/ /\ \E p \in Pids : Run(p, Daemon(f.conf, "none", "none"))
          /\ NoFault
          /\ Goto("start", "port") /\ current' = f
       \/ Fault /\ UNCHANGED <<proc, launches, pc, current>>
    /\ owed' = owed \ {f}
    /\ UNCHANGED <<kills, binary, storage, managed, unmanaged, units, found, result>>

\* waitUntilUsed answers, or gives up after 30 s.
WaitUntilUsed ==
    /\ Goto("port", "start")
    /\ current' = NoFile
    /\ UNCHANGED <<daemonVars, managed, unmanaged, queue, units, found, owed, result>>

\* Mutant: supervisors are never asked.
StartedIsAll ==
    /\ Goto("start", "done") /\ queue = {}
    /\ UNCHANGED <<daemonVars, managed, unmanaged, queue, current, units, found, owed, result>>

\* Supervisors are not asked when nothing was installed.
Started ==
    /\ pc = "start" /\ queue = {}
    /\ IF result = "installed"
       THEN Goto("start", "restart") /\ queue' = managed
       ELSE Goto("start", "done") /\ UNCHANGED queue
    /\ UNCHANGED <<daemonVars, managed, unmanaged, current, units, found, owed, result>>

\* systemctl restart: every process of the unit ends, and systemd starts its daemon.
SystemctlRestart(unit) ==
    /\ proc' = [p \in Pids |-> IF proc[p].unit = unit THEN NoProcess ELSE proc[p]]
    /\ scan' = [r \in Readers |-> IF r \in Pids /\ proc[r].unit = unit THEN NoScan ELSE scan[r]]
    /\ files' = [p \in Pids |-> IF Recorded(p) /\ proc[p].unit = unit THEN NoFile ELSE files[p]]

RestartManaged(m) ==
    /\ pc = "restart" /\ m \in queue
    /\ queue' = queue \ {m}
    /\ IF m.unit \in units
       THEN UNCHANGED <<proc, scan, files, faults, pc, units, result>>
       ELSE \/ /\ SystemctlRestart(m.unit) /\ NoFault
               /\ units' = units \cup {m.unit} /\ UNCHANGED <<pc, result>>
            \/ Return("restart", "error") /\ Fault /\ UNCHANGED <<proc, scan, files, units>>
    /\ UNCHANGED <<launches, kills, binary, reused, managed, unmanaged, current, found, owed>>

Restarted ==
    /\ Goto("restart", "done") /\ queue = {}
    /\ UNCHANGED <<daemonVars, managed, unmanaged, queue, current, units, found, owed, result>>

Install ==
    \/ Begin \/ Scan \/ AliveDaemons \/ (\E f \in queue : PlanDaemonRestarts(f)) \/ Planned
    \/ (\E f \in queue : StopUnmanaged(f)) \/ WaitForProcessExit \/ StopTimesOut \/ Stopped
    \/ FetchLatestVersionFails \/ AlreadyInstalled \/ ChooseInstall \/ FastInstallGlobal \/ InstallGlobal
    \/ (\E f \in queue : StartUnmanaged(f)) \/ WaitUntilUsed \/ Started
    \/ (\E m \in queue : RestartManaged(m)) \/ Restarted

\* What happens after the update is not followed.
Daemons ==
    /\ pc # "done"
    /\ Environment \/ \E p \in Pids : DaemonStep(p)
    /\ UNCHANGED updateVars

Next == Install \/ Daemons

Spec == Init /\ [][Next]_vars

-----------------------------------------------------------------------------
(* Properties *)

\* After an update that succeeded no daemon that was in service when it began still runs the old
\* version: each was found by its file and either stopped or restarted by its supervisor.
NobodyIsLeftBehind ==
    pc = "done" /\ result = "installed" => \A p \in Pids : proc[p].start \notin found

\* A daemon that a unit owns is left to its supervisor: while systemctl answers, the updater signals
\* none, whether the daemon recorded its supervisor or is of a version that did not (issue 82); and a
\* unit that merely contains a daemon, a CI agent's, is never restarted (issue 92).
SupervisedIsLeft ==
    [][ /\ units' \subseteq Services
        /\ \A p \in Pids : faults = 0 /\ pc = "stop" /\ pc' = "exit" /\ proc[p].start \in found /\ Owned(p)
              => current'.pid # p ]_vars

\* No daemon is started again while one that was stopped is still alive: it would find the ports
\* of kubo taken (issue 70).
RestartsDoNotCollide ==
    [][pc = "start" /\ pc' = "port" => \A f \in unmanaged : proc[f.pid].start \notin found]_vars

\* What the update stopped it starts again, however it ends.  "Stop all running daemons, update, and
\* restart them with the same settings" (README.md)
StoppedAreRestarted == pc = "done" => owed = {}
=============================================================================

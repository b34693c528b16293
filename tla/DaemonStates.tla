---------------------------- MODULE DaemonStates ----------------------------
(***************************************************************************)
(* Daemon processes and the state files by which they are found            *)
(* (src/common-utils/daemon-state.ts and its uses in daemon.ts): each      *)
(* daemon prunes stale files, writes its own, and deletes it when it shuts *)
(* down.  Process ids are reused, so a file names its process by its id    *)
(* and its start time.                                                     *)
(***************************************************************************)
EXTENDS Naturals, FiniteSets

CONSTANTS
    Pids,        \* process ids, reused
    Confs,       \* arguments of a daemon, with the RPC port they name
    Services,    \* systemd units that run a daemon
    Agents,      \* systemd units that run something else, a CI agent say
    MaxLaunches, \* bound on processes started
    MaxKills,    \* bound on processes that end without their shutdown
    MaxFaults    \* bound on failing calls

Updater == "updater" \* the command that updates, as a reader of the files

ASSUME ConstantsOK ==
    /\ Pids \cap {Updater, "none", "wrapper", "agent"} = {}
    /\ "none" \notin Confs \cup Services \cup Agents
    /\ Services \cap Agents = {}
    /\ MaxLaunches \in Nat /\ MaxKills \in Nat /\ MaxFaults \in Nat

Units == Services \cup Agents
Readers == Pids \cup {Updater}
Starts == 1..MaxLaunches

VARIABLES
    proc,     \* what runs under a process id
    binary,   \* the version that is installed
    files,    \* the files of .daemon_states
    scan,     \* the runs of getAliveDaemonStates
    reused,   \* observed: ids that were reused under a reader that had read the file
    launches, kills, faults

processes == <<proc, launches, kills>>
storage   == <<files, scan, reused>>
daemonVars == <<processes, binary, storage, faults>>

NoProcess == [kind |-> "none", start |-> 0, conf |-> "none", unit |-> "none",
              parent |-> "none", phase |-> "none", version |-> "none"]

\* procStartTime is 0 where it was not recorded.
NoFile == [pid |-> "none", start |-> 0, conf |-> "none", unit |-> "none"]

NoScan == [todo |-> {}, alive |-> {}, doomed |-> NoFile]

Entries == [pid : Pids, start : Starts \cup {0}, conf : Confs, unit : Units \cup {"none"}]

DaemonTypeOK ==
    /\ proc \in [Pids -> [kind : {"none", "daemon", "command", "other"}, start : Starts \cup {0},
                          conf : Confs \cup {"none"}, unit : Units \cup {"none"},
                          parent : {"none", "wrapper"}, version : {"none", "old", "new"},
                          phase : {"none", "prune", "scan", "recorded", "serving", "stopping"}]]
    /\ binary \in {"old", "new"}
    /\ files \in [Pids -> Entries \cup {NoFile}]
    /\ scan \in [Readers -> [todo : SUBSET Entries, alive : SUBSET Entries, doomed : Entries \cup {NoFile}]]
    /\ reused \in SUBSET Pids
    /\ launches \in 0..MaxLaunches /\ kills \in 0..MaxKills /\ faults \in 0..MaxFaults

DaemonInit ==
    /\ proc = [p \in Pids |-> NoProcess]
    /\ binary = "old"
    /\ files = [p \in Pids |-> NoFile]
    /\ scan = [r \in Readers |-> NoScan]
    /\ reused = {}
    /\ launches = 0 /\ kills = 0 /\ faults = 0

Alive(p) == proc[p].kind # "none"
Recorded(p) == proc[p].phase \in {"recorded", "serving"}
Serving(conf) == \E p \in Pids : proc[p].conf = conf /\ proc[p].phase = "serving"

Fault == faults < MaxFaults /\ faults' = faults + 1
NoFault == UNCHANGED faults

-----------------------------------------------------------------------------
(* Processes *)

Run(p, process) ==
    /\ ~Alive(p) /\ launches < MaxLaunches
    /\ launches' = launches + 1
    /\ proc' = [proc EXCEPT ![p] = [process EXCEPT !.start = launches + 1]]

Daemon(conf, unit, parent) ==
    [NoProcess EXCEPT !.kind = "daemon", !.conf = conf, !.unit = unit, !.parent = parent,
                      !.phase = "prune", !.version = binary]

\* From a shell, or by a descendant of an agent, whose unit it inherits.
LaunchDaemon(p, conf, unit) == Run(p, Daemon(conf, unit, "none"))

\* By systemd, as the unit's main process or as the child of a shell that is.
SystemdStarts(p, conf, unit, parent) ==
    /\ \A q \in Pids : proc[q].unit # unit
    /\ Run(p, Daemon(conf, unit, parent))

\* Some other program, or another command of this one.
LaunchOther(p, kind) == Run(p, [NoProcess EXCEPT !.kind = kind])

Gone(p) == proc' = [proc EXCEPT ![p] = NoProcess] /\ scan' = [scan EXCEPT ![p] = NoScan]

OtherEnds(p) ==
    /\ proc[p].kind \in {"command", "other"}
    /\ Gone(p)
    /\ UNCHANGED <<launches, kills, binary, files, reused, faults>>

\* SIGKILL, or the machine.
Kill(p) ==
    /\ proc[p].kind = "daemon" /\ kills < MaxKills /\ kills' = kills + 1
    /\ Gone(p)
    /\ UNCHANGED <<launches, binary, files, reused, faults>>

Launch ==
    /\ \E p \in Pids :
        \/ \E conf \in Confs, unit \in Agents \cup {"none"} : LaunchDaemon(p, conf, unit)
        \/ \E conf \in Confs, unit \in Services, parent \in {"none", "wrapper"} : SystemdStarts(p, conf, unit, parent)
        \/ \E kind \in {"command", "other"} : LaunchOther(p, kind)
    /\ UNCHANGED <<kills, binary, storage, faults>>

-----------------------------------------------------------------------------
(* getAliveDaemonStates *)

ReadAllDaemonStates(r) ==
    scan' = [scan EXCEPT ![r] = [NoScan EXCEPT !.todo = {files[p] : p \in Pids} \ {NoFile}]]

\* Mutant: a file without a start time is compared as well.
StartTimeOnly(f) == Alive(f.pid) /\ proc[f.pid].start = f.start

\* The start time decides; a file without one is judged by the command line.
IsDaemonStateAlive(f) ==
    /\ Alive(f.pid)
    /\ IF f.start # 0 THEN proc[f.pid].start = f.start
                      ELSE proc[f.pid].kind \in {"daemon", "command"}

Probe(r, f) ==
    /\ scan[r].doomed = NoFile /\ f \in scan[r].todo
    /\ scan' = [scan EXCEPT ![r].todo = @ \ {f},
                            ![r].alive = IF IsDaemonStateAlive(f) THEN @ \cup {f} ELSE @,
                            ![r].doomed = IF IsDaemonStateAlive(f) THEN NoFile ELSE f]

\* deleteDaemonState; a file that cannot be unlinked now is left for the next prune.
DeleteDaemonState(r) ==
    /\ scan[r].doomed # NoFile
    /\ scan' = [scan EXCEPT ![r].doomed = NoFile]
    /\ \/ files' = [files EXCEPT ![scan[r].doomed.pid] = NoFile] /\ NoFault
       \/ Fault /\ UNCHANGED files

Scanned(r) == scan[r].todo = {} /\ scan[r].doomed = NoFile

ScanStep(r) ==
    \/ (\E f \in scan[r].todo : Probe(r, f)) /\ UNCHANGED <<files, faults>>
    \/ DeleteDaemonState(r)

-----------------------------------------------------------------------------
(* A daemon *)

\* A daemon whose port is taken ends before it looks at the files.
PruneStaleStates(p) ==
    /\ proc[p].phase = "prune"
    /\ IF Serving(proc[p].conf)
       THEN Gone(p)
       ELSE proc' = [proc EXCEPT ![p].phase = "scan"] /\ ReadAllDaemonStates(p)
    /\ UNCHANGED <<launches, kills, binary, files, reused, faults>>

DaemonScans(p) ==
    /\ proc[p].phase = "scan"
    /\ ScanStep(p)
    /\ UNCHANGED <<processes, binary, reused>>

\* The MainPID of a unit, or what it is if not one of Pids; an agent runs more than daemons.
MainPid(unit) ==
    LET ours == {p \in Pids : proc[p].unit = unit}
    IN IF unit \in Agents THEN "agent"
       ELSE IF ours = {} THEN "none"
       ELSE LET p == CHOOSE p \in ours : TRUE IN IF proc[p].parent = "wrapper" THEN "wrapper" ELSE p

\* The process is the unit's main process or its child.
Owned(p) ==
    LET unit == proc[p].unit
    IN unit # "none" /\ MainPid(unit) \in {p, proc[p].parent}

\* detectSelfSupervisor; systemctl may fail.
DetectSelfSupervisor(p, unit) ==
    \/ unit = (IF Owned(p) THEN proc[p].unit ELSE "none") /\ NoFault
    \/ unit = "none" /\ Owned(p) /\ Fault

\* Daemons of old versions did not record their start time, nor their supervisor.
WriteDaemonState(p) ==
    /\ proc[p].phase = "scan" /\ Scanned(p)
    /\ proc' = [proc EXCEPT ![p].phase = "recorded"]
    /\ scan' = [scan EXCEPT ![p] = NoScan]
    /\ \/ \E unit \in Units \cup {"none"} :
              /\ DetectSelfSupervisor(p, unit)
              /\ files' = [files EXCEPT ![p] = [pid |-> p, start |-> proc[p].start, conf |-> proc[p].conf, unit |-> unit]]
       \/ /\ proc[p].version = "old" /\ NoFault
          /\ files' = [files EXCEPT ![p] = [pid |-> p, start |-> 0, conf |-> proc[p].conf, unit |-> "none"]]
    /\ reused' = IF \E r \in Readers \ {p} : \E f \in scan[r].todo \cup {scan[r].doomed} : f.pid = p
                 THEN reused \cup {p} ELSE reused \ {p}
    /\ UNCHANGED <<launches, kills, binary>>

\* shutdownDaemon deletes the file before anything else.
BeginShutdown(p) ==
    /\ proc' = [proc EXCEPT ![p].phase = "stopping"]
    /\ files' = [files EXCEPT ![p] = NoFile]

\* The RPC server binds its port; a daemon that cannot gives up.
Serve(p) ==
    /\ proc[p].phase = "recorded"
    /\ IF Serving(proc[p].conf)
       THEN BeginShutdown(p)
       ELSE proc' = [proc EXCEPT ![p].phase = "serving"] /\ UNCHANGED files
    /\ UNCHANGED <<launches, kills, binary, scan, reused, faults>>

\* SIGINT: a daemon before its handler, and any other program, just ends.
Signal(p) ==
    IF Recorded(p)
    THEN BeginShutdown(p) /\ UNCHANGED scan
    ELSE IF proc[p].phase = "stopping" THEN UNCHANGED <<proc, files, scan>>
                                       ELSE Gone(p) /\ UNCHANGED files

\* By a user or systemd.
Interrupt(p) ==
    /\ Recorded(p)
    /\ Signal(p)
    /\ UNCHANGED <<launches, kills, binary, reused, faults>>

Exit(p) ==
    /\ proc[p].phase = "stopping"
    /\ Gone(p)
    /\ UNCHANGED <<launches, kills, binary, files, reused, faults>>

DaemonStep(p) ==
    PruneStaleStates(p) \/ DaemonScans(p) \/ WriteDaemonState(p) \/ Serve(p) \/ Exit(p)

Environment ==
    Launch \/ \E p \in Pids : OtherEnds(p) \/ Kill(p) \/ Interrupt(p)

-----------------------------------------------------------------------------
(* Properties *)

\* However many daemons prune at once, a daemon in service has its file, by which the updater finds
\* it: readers delete only the files of processes that are gone.  The exception is a file written
\* while a reader was between reading an older one of the same process id and unlinking it.
OwnFileKept ==
    \A p \in Pids \ reused : Recorded(p) => files[p].pid = p /\ files[p].start \in {0, proc[p].start}
=============================================================================

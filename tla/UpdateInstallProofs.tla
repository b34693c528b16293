------------------------ MODULE UpdateInstallProofs ------------------------
(***************************************************************************)
(* Proofs about UpdateInstall, and about DaemonStates as it is used there. *)
(*                                                                         *)
(* All of them rest on what becomes of a process in a step (Evolves): it   *)
(* keeps its start time, unit and parent, or it is gone, or a process with *)
(* a start time nobody had takes its id.                                   *)
(***************************************************************************)
EXTENDS UpdateInstall, TLAPS

Phases == {"none", "prune", "scan", "recorded", "serving", "stopping"}

Process == [kind : {"none", "daemon", "command", "other"}, start : Starts \cup {0},
            conf : Confs \cup {"none"}, unit : Units \cup {"none"},
            parent : {"none", "wrapper"}, version : {"none", "old", "new"}, phase : Phases]

Same(p) == \E phase \in Phases : /\ proc'[p] = [proc[p] EXCEPT !.phase = phase]
                                 /\ phase # proc[p].phase => proc[p].phase # "none"
Ends(p) == proc'[p] = NoProcess
Begins(p) ==
    /\ ~Alive(p) /\ launches' = launches + 1
    /\ \A q \in Pids \ {p} : proc'[q] = proc[q]
    /\ proc'[p].start = launches + 1
    /\ proc'[p].phase # "none" => proc'[p].kind = "daemon" /\ proc'[p].conf \in Confs /\ proc'[p].phase = "prune"
    /\ proc'[p].kind # "none"
    /\ proc'[p].unit \in Services => \A q \in Pids : proc[q].unit # proc'[p].unit

Evolves ==
    /\ proc' \in [Pids -> Process]
    /\ launches' \in {launches, launches + 1} /\ launches' <= MaxLaunches
    /\ \A p \in Pids : Same(p) \/ Ends(p) \/ Begins(p)

LEMMA NoProcessIsProcess == NoProcess \in Process
  BY DEF NoProcess, Process, Starts, Phases

LEMMA Unchanged ==
  ASSUME TypeOK, UNCHANGED <<proc, launches>>
  PROVE  Evolves
  <1>1. proc \in [Pids -> Process] /\ launches \in 0..MaxLaunches
    BY DEF TypeOK, DaemonTypeOK, Process, Phases
  <1>2. \A p \in Pids : Same(p)
    <2> SUFFICES ASSUME NEW p \in Pids PROVE Same(p)
      OBVIOUS
    <2>1. proc[p] \in Process
      BY <1>1
    <2>2. proc[p].phase \in Phases /\ proc[p] = [proc[p] EXCEPT !.phase = proc[p].phase]
      BY <2>1 DEF Process
    <2>. QED
      BY <2>2 DEF Same
  <1>. QED
    BY <1>1, <1>2, ConstantsOK DEF Evolves

\* A change of one process, to another phase or to none.
LEMMA OneChanges ==
  ASSUME TypeOK, NEW p \in Pids, UNCHANGED launches,
         \/ proc' = [proc EXCEPT ![p] = NoProcess]
         \/ /\ proc[p].phase # "none"
            /\ \E phase \in Phases : proc' = [proc EXCEPT ![p].phase = phase]
  PROVE  Evolves
  <1>1. proc \in [Pids -> Process] /\ launches \in 0..MaxLaunches
    BY DEF TypeOK, DaemonTypeOK, Process, Phases
  <1>2. \A q \in Pids \ {p} : Same(q)
    <2> SUFFICES ASSUME NEW q \in Pids \ {p} PROVE Same(q)
      OBVIOUS
    <2>1. proc[q] \in Process /\ proc'[q] = proc[q]
      BY <1>1
    <2>2. proc[q].phase \in Phases /\ proc[q] = [proc[q] EXCEPT !.phase = proc[q].phase]
      BY <2>1 DEF Process
    <2>. QED
      BY <2>1, <2>2 DEF Same
  <1>3. CASE proc' = [proc EXCEPT ![p] = NoProcess]
    BY <1>1, <1>2, <1>3, NoProcessIsProcess, ConstantsOK DEF Evolves, Ends
  <1>4. ASSUME proc[p].phase # "none", NEW phase \in Phases, proc' = [proc EXCEPT ![p].phase = phase]
        PROVE  Evolves
    <2>1. [proc[p] EXCEPT !.phase = phase] \in Process
      BY <1>1 DEF Process
    <2>2. proc' \in [Pids -> Process] /\ Same(p)
      BY <1>1, <1>4, <2>1 DEF Same
    <2>. QED
      BY <1>1, <1>2, <1>4, <2>2, ConstantsOK DEF Evolves
  <1>. QED
    BY <1>3, <1>4

LEMMA RunBegins ==
  ASSUME TypeOK, NEW p \in Pids, NEW q \in Process, Run(p, q), q.kind # "none",
         q.phase # "none" => q.kind = "daemon" /\ q.conf \in Confs /\ q.phase = "prune",
         q.unit \in Services => \A r \in Pids : proc[r].unit # q.unit
  PROVE  Evolves
  <1>1. proc \in [Pids -> Process] /\ launches \in 0..MaxLaunches
    BY DEF TypeOK, DaemonTypeOK, Process, Phases
  <1> DEFINE new == [q EXCEPT !.start = launches + 1]
  <1>2. launches + 1 \in Starts /\ launches' = launches + 1 /\ launches' <= MaxLaunches
    BY <1>1, ConstantsOK DEF Run, Starts
  <1>3. new \in Process
    BY <1>2 DEF Process
  <1>4. proc' = [proc EXCEPT ![p] = new]
    BY DEF Run
  <1>5. Begins(p)
    BY <1>1, <1>2, <1>4 DEF Begins, Run, Process
  <1>6. \A r \in Pids \ {p} : Same(r)
    <2> SUFFICES ASSUME NEW r \in Pids \ {p} PROVE Same(r)
      OBVIOUS
    <2>1. proc[r] \in Process /\ proc'[r] = proc[r]
      BY <1>1, <1>4
    <2>2. proc[r].phase \in Phases /\ proc[r] = [proc[r] EXCEPT !.phase = proc[r].phase]
      BY <2>1 DEF Process
    <2>. QED
      BY <2>1, <2>2 DEF Same
  <1>7. proc' \in [Pids -> Process]
    BY <1>1, <1>3, <1>4
  <1>. QED
    BY <1>2, <1>5, <1>6, <1>7 DEF Evolves

-----------------------------------------------------------------------------
(* What the loops of the command hold *)

Queues ==
    /\ pc = "plan" => queue \subseteq Entries
    /\ pc \in {"stop", "exit", "start", "port"} => queue \subseteq unmanaged
    /\ pc = "restart" => queue \subseteq managed
    /\ pc = "exit" => current \in unmanaged

LEMMA SignalEvolves ==
  ASSUME TypeOK, NEW p \in Pids, Signal(p), UNCHANGED launches
  PROVE  Evolves
  <1>1. CASE Recorded(p)
    BY <1>1, OneChanges DEF Signal, BeginShutdown, Recorded, Phases
  <1>2. CASE ~Recorded(p) /\ proc[p].phase = "stopping"
    BY <1>2, Unchanged DEF Signal
  <1>3. CASE ~Recorded(p) /\ proc[p].phase # "stopping"
    BY <1>3, OneChanges DEF Signal, Gone
  <1>. QED
    BY <1>1, <1>2, <1>3

LEMMA DaemonIsProcess ==
  ASSUME TypeOK, NEW conf \in Confs, NEW unit \in Units \cup {"none"}, NEW parent \in {"none", "wrapper"}
  PROVE  /\ Daemon(conf, unit, parent) \in Process
         /\ Daemon(conf, unit, parent).kind = "daemon" /\ Daemon(conf, unit, parent).conf = conf
         /\ Daemon(conf, unit, parent).unit = unit /\ Daemon(conf, unit, parent).phase = "prune"
  BY DEF TypeOK, DaemonTypeOK, Daemon, NoProcess, Process, Phases

LEMMA LaunchEvolves ==
  ASSUME TypeOK, Launch
  PROVE  Evolves
  <1>1. ASSUME NEW p \in Pids, NEW conf \in Confs, NEW unit \in Agents \cup {"none"}, LaunchDaemon(p, conf, unit)
        PROVE  Evolves
    <2>1. unit \in Units \cup {"none"} /\ unit \notin Services
      BY ConstantsOK DEF Units
    <2>. QED
      BY <1>1, <2>1, DaemonIsProcess, RunBegins DEF LaunchDaemon
  <1>2. ASSUME NEW p \in Pids, NEW conf \in Confs, NEW unit \in Services, NEW parent \in {"none", "wrapper"},
               SystemdStarts(p, conf, unit, parent)
        PROVE  Evolves
    <2>1. unit \in Units \cup {"none"}
      BY DEF Units
    <2>. QED
      BY <1>2, <2>1, DaemonIsProcess, RunBegins DEF SystemdStarts
  <1>3. ASSUME NEW p \in Pids, NEW kind \in {"command", "other"}, LaunchOther(p, kind)
        PROVE  Evolves
    <2> DEFINE q == [NoProcess EXCEPT !.kind = kind]
    <2>1. q \in Process /\ q.kind = kind /\ q.phase = "none" /\ q.unit = "none"
      BY DEF NoProcess, Process, Phases
    <2>2. "none" \notin Services
      BY ConstantsOK
    <2>. QED
      BY <1>3, <2>1, <2>2, RunBegins DEF LaunchOther
  <1>. QED
    BY <1>1, <1>2, <1>3 DEF Launch

LEMMA DaemonStepEvolves ==
  ASSUME TypeOK, NEW p \in Pids, DaemonStep(p)
  PROVE  Evolves
  <1>1. CASE PruneStaleStates(p)
    BY <1>1, OneChanges DEF PruneStaleStates, Gone, Phases
  <1>2. CASE DaemonScans(p)
    BY <1>2, Unchanged DEF DaemonScans, processes
  <1>3. CASE WriteDaemonState(p)
    BY <1>3, OneChanges DEF WriteDaemonState, Phases
  <1>4. CASE Serve(p)
    BY <1>4, OneChanges DEF Serve, BeginShutdown, Phases
  <1>5. CASE Exit(p)
    BY <1>5, OneChanges DEF Exit, Gone
  <1>. QED
    BY <1>1, <1>2, <1>3, <1>4, <1>5 DEF DaemonStep

LEMMA RestartEvolves ==
  ASSUME TypeOK, NEW unit, SystemctlRestart(unit), UNCHANGED launches
  PROVE  Evolves
  <1>1. proc \in [Pids -> Process] /\ launches \in 0..MaxLaunches
    BY DEF TypeOK, DaemonTypeOK, Process, Phases
  <1>2. \A p \in Pids : proc'[p] = IF proc[p].unit = unit THEN NoProcess ELSE proc[p]
    BY DEF SystemctlRestart
  <1>3. proc' \in [Pids -> Process]
    BY <1>1, NoProcessIsProcess DEF SystemctlRestart
  <1>4. ASSUME NEW p \in Pids PROVE Same(p) \/ Ends(p)
    <2>1. CASE proc[p].unit = unit
      BY <1>2, <2>1 DEF Ends
    <2>2. CASE proc[p].unit # unit
      <3>1. proc[p] \in Process /\ proc'[p] = proc[p]
        BY <1>1, <1>2, <2>2
      <3>2. proc[p].phase \in Phases /\ proc[p] = [proc[p] EXCEPT !.phase = proc[p].phase]
        BY <3>1 DEF Process
      <3>. QED
        BY <3>1, <3>2 DEF Same
    <2>. QED
      BY <2>1, <2>2
  <1>. QED
    BY <1>1, <1>3, <1>4, ConstantsOK DEF Evolves

\* Every step is one of these: of the environment, of a daemon, or of the command; what the last does
\* to the processes is to signal one, to start one or to restart a unit.
LEMMA NextEvolves ==
  ASSUME TypeOK, Queues, [Next]_vars
  PROVE  Evolves
  <1>1. CASE UNCHANGED vars
    BY <1>1, Unchanged DEF vars, daemonVars, processes
  <1>2. CASE Daemons
    <2>1. CASE Launch
      BY <2>1, LaunchEvolves
    <2>2. ASSUME NEW p \in Pids, OtherEnds(p) \/ Kill(p) PROVE Evolves
      BY <2>2, OneChanges DEF OtherEnds, Kill, Gone
    <2>3. ASSUME NEW p \in Pids, Interrupt(p) PROVE Evolves
      BY <2>3, SignalEvolves DEF Interrupt
    <2>4. ASSUME NEW p \in Pids, DaemonStep(p) PROVE Evolves
      BY <2>4, DaemonStepEvolves
    <2>. QED
      BY <1>2, <2>1, <2>2, <2>3, <2>4 DEF Daemons, Environment
  <1>3. CASE UNCHANGED <<proc, launches>>
    BY <1>3, Unchanged
  <1>4. ASSUME NEW f \in queue, StopUnmanaged(f) PROVE Evolves
    <2>1. f.pid \in Pids
      BY <1>4 DEF StopUnmanaged, Queues, TypeOK, Entries
    <2>. QED
      BY <1>4, <2>1, SignalEvolves, Unchanged DEF StopUnmanaged
  <1>5. ASSUME NEW f \in queue, StartUnmanaged(f) PROVE Evolves
    <2>1. f.conf \in Confs
      BY <1>5 DEF StartUnmanaged, Queues, TypeOK, Entries
    <2>2. "none" \in Units \cup {"none"} /\ "none" \notin Services
      BY ConstantsOK
    <2>3. ASSUME NEW p \in Pids, Run(p, Daemon(f.conf, "none", "none")) PROVE Evolves
      BY <2>1, <2>2, <2>3, DaemonIsProcess, RunBegins
    <2>. QED
      BY <1>5, <2>3, Unchanged DEF StartUnmanaged
  <1>6. ASSUME NEW m \in queue, RestartManaged(m) PROVE Evolves
    BY <1>6, RestartEvolves, Unchanged DEF RestartManaged
  <1>7. ASSUME Install,
               ~ \E f \in queue : StopUnmanaged(f) \/ StartUnmanaged(f) \/ RestartManaged(f)
        PROVE  UNCHANGED <<proc, launches>>
    BY <1>7 DEF Install, Begin, Scan, AliveDaemons, PlanDaemonRestarts, Planned, WaitForProcessExit,
                StopTimesOut, Stopped, FetchLatestVersionFails, AlreadyInstalled, ChooseInstall,
                FastInstallGlobal, InstallGlobal, WaitUntilUsed, Started, Restarted, daemonVars, processes
  <1>. QED
    BY <1>1, <1>2, <1>3, <1>4, <1>5, <1>6, <1>7 DEF Next

-----------------------------------------------------------------------------
(* Types *)

ScanRun == [todo : SUBSET Entries, alive : SUBSET Entries, doomed : Entries \cup {NoFile}]

StorageOK ==
    /\ binary \in {"old", "new"}
    /\ files \in [Pids -> Entries \cup {NoFile}]
    /\ scan \in [Readers -> ScanRun]
    /\ reused \in SUBSET Pids
    /\ kills \in 0..MaxKills /\ faults \in 0..MaxFaults

CommandOK ==
    /\ pc \in {"idle", "scan", "plan", "stop", "exit", "version", "fast", "full", "start", "port", "restart", "done"}
    /\ managed \in SUBSET Plans /\ unmanaged \in SUBSET Entries
    /\ queue \in SUBSET (Plans \cup Entries)
    /\ current \in Entries \cup {NoFile}
    /\ units \in SUBSET Units
    /\ found \in SUBSET Starts /\ owed \in SUBSET Entries
    /\ result \in {"none", "installed", "already", "error"}

\* What is fixed of a process, and that a process without a phase of a daemon is none.
Processes ==
    \A p \in Pids :
        /\ proc[p].kind = "none" => proc[p] = NoProcess
        /\ proc[p].kind # "none" => proc[p].start \in 1..launches
        /\ proc[p].phase # "none" => proc[p].kind = "daemon" /\ proc[p].conf \in Confs

LEMMA TypeParts == TypeOK <=> StorageOK /\ CommandOK /\ proc \in [Pids -> Process] /\ launches \in 0..MaxLaunches
  BY DEF TypeOK, DaemonTypeOK, StorageOK, CommandOK, Process, Phases, ScanRun

LEMMA NoScanIsRun == NoScan \in ScanRun
  BY DEF NoScan, ScanRun

LEMMA ReadAllOK ==
  ASSUME StorageOK, NEW r \in Readers, ReadAllDaemonStates(r)
  PROVE  scan' \in [Readers -> ScanRun]
  <1>1. [NoScan EXCEPT !.todo = {files[p] : p \in Pids} \ {NoFile}] \in ScanRun
    BY DEF StorageOK, NoScan, ScanRun
  <1>. QED
    BY <1>1 DEF StorageOK, ReadAllDaemonStates

LEMMA ScanStepOK ==
  ASSUME StorageOK, NEW r \in Readers, ScanStep(r), UNCHANGED <<binary, reused, kills>>
  PROVE  StorageOK'
  <1>1. CASE (\E f \in scan[r].todo : Probe(r, f)) /\ UNCHANGED <<files, faults>>
    <2>1. PICK f \in scan[r].todo : Probe(r, f)
      BY <1>1
    <2> DEFINE run == [scan[r] EXCEPT !.todo = @ \ {f},
                                      !.alive = IF IsDaemonStateAlive(f) THEN @ \cup {f} ELSE @,
                                      !.doomed = IF IsDaemonStateAlive(f) THEN NoFile ELSE f]
    <2>2. run \in ScanRun
      BY DEF StorageOK, ScanRun
    <2>3. scan' = [scan EXCEPT ![r] = run]
      BY <2>1 DEF Probe, StorageOK
    <2>4. scan' \in [Readers -> ScanRun]
      BY <2>2, <2>3 DEF StorageOK
    <2>. QED
      BY <1>1, <2>4 DEF StorageOK
  <1>2. CASE DeleteDaemonState(r)
    <2>1. scan[r].doomed.pid \in Pids
      BY <1>2 DEF DeleteDaemonState, StorageOK, ScanRun, Entries
    <2>2. [scan[r] EXCEPT !.doomed = NoFile] \in ScanRun
      BY DEF StorageOK, ScanRun
    <2>3. scan' \in [Readers -> ScanRun]
      BY <1>2, <2>2 DEF DeleteDaemonState, StorageOK
    <2>4. files' \in [Pids -> Entries \cup {NoFile}] /\ faults' \in 0..MaxFaults
      BY <1>2, <2>1, ConstantsOK DEF DeleteDaemonState, StorageOK, Fault, NoFault
    <2>. QED
      BY <2>3, <2>4 DEF StorageOK
  <1>. QED
    BY <1>1, <1>2 DEF ScanStep

LEMMA GoneOK ==
  ASSUME StorageOK, NEW p \in Pids, Gone(p)
  PROVE  scan' \in [Readers -> ScanRun]
  BY NoScanIsRun DEF Gone, StorageOK

LEMMA SignalOK ==
  ASSUME StorageOK, NEW p \in Pids, Signal(p)
  PROVE  scan' \in [Readers -> ScanRun] /\ files' \in [Pids -> Entries \cup {NoFile}]
  BY GoneOK DEF Signal, BeginShutdown, StorageOK

\* What a daemon writes is a file.
LEMMA WritesAnEntry ==
  ASSUME TypeOK, Processes, NEW p \in Pids, WriteDaemonState(p)
  PROVE  \E f \in Entries :
            /\ files' = [files EXCEPT ![p] = f]
            /\ f.pid = p /\ f.conf = proc[p].conf
            /\ \/ f.start = proc[p].start /\ f.unit \in {"none"} \cup (IF Owned(p) THEN {proc[p].unit} ELSE {})
               \/ f.start = 0 /\ f.unit = "none"
            /\ faults' \in {faults} \cup {n \in {faults + 1} : n <= MaxFaults}
  <1>1. proc[p] \in Process /\ proc[p].conf \in Confs /\ faults \in Nat
    BY ConstantsOK, TypeParts DEF Processes, WriteDaemonState, StorageOK
  <1>2. proc[p].start \in Starts \cup {0} /\ proc[p].unit \in Units \cup {"none"}
    BY <1>1 DEF Process
  <1>3. ASSUME NEW unit \in Units \cup {"none"}, DetectSelfSupervisor(p, unit),
               files' = [files EXCEPT ![p] = [pid |-> p, start |-> proc[p].start, conf |-> proc[p].conf, unit |-> unit]]
        PROVE  \E f \in Entries :
                  /\ files' = [files EXCEPT ![p] = f]
                  /\ f.pid = p /\ f.conf = proc[p].conf
                  /\ f.start = proc[p].start /\ f.unit \in {"none"} \cup (IF Owned(p) THEN {proc[p].unit} ELSE {})
                  /\ faults' \in {faults} \cup {n \in {faults + 1} : n <= MaxFaults}
    <2> DEFINE f == [pid |-> p, start |-> proc[p].start, conf |-> proc[p].conf, unit |-> unit]
    <2>1. f \in Entries
      BY <1>1, <1>2 DEF Entries
    <2>2. unit \in {"none"} \cup (IF Owned(p) THEN {proc[p].unit} ELSE {})
      BY <1>3 DEF DetectSelfSupervisor
    <2>3. faults' \in {faults} \cup {n \in {faults + 1} : n <= MaxFaults}
      BY <1>1, <1>3, ConstantsOK DEF DetectSelfSupervisor, Fault, NoFault
    <2>. QED
      BY <1>3, <2>1, <2>2, <2>3
  <1>4. ASSUME NoFault,
               files' = [files EXCEPT ![p] = [pid |-> p, start |-> 0, conf |-> proc[p].conf, unit |-> "none"]]
        PROVE  \E f \in Entries :
                  /\ files' = [files EXCEPT ![p] = f]
                  /\ f.pid = p /\ f.conf = proc[p].conf
                  /\ f.start = 0 /\ f.unit = "none"
                  /\ faults' \in {faults} \cup {n \in {faults + 1} : n <= MaxFaults}
    <2> DEFINE f == [pid |-> p, start |-> 0, conf |-> proc[p].conf, unit |-> "none"]
    <2>1. f \in Entries
      BY <1>1 DEF Entries
    <2>. QED
      BY <1>4, <2>1 DEF NoFault
  <1>. QED
    BY <1>3, <1>4 DEF WriteDaemonState

LEMMA DaemonStepStorage ==
  ASSUME TypeOK, Processes, NEW p \in Pids, DaemonStep(p)
  PROVE  StorageOK'
  <1>1. StorageOK /\ p \in Readers
    BY TypeParts DEF Readers
  <1>2. CASE PruneStaleStates(p)
    <2>1. scan' \in [Readers -> ScanRun]
      BY <1>1, <1>2, GoneOK, ReadAllOK DEF PruneStaleStates
    <2>. QED
      BY <1>1, <1>2, <2>1 DEF PruneStaleStates, StorageOK
  <1>3. CASE DaemonScans(p)
    BY <1>1, <1>3, ScanStepOK DEF DaemonScans, processes
  <1>4. CASE WriteDaemonState(p)
    <2>1. scan' \in [Readers -> ScanRun]
      BY <1>1, <1>4, NoScanIsRun DEF WriteDaemonState, StorageOK
    <2>2. PICK f \in Entries : /\ files' = [files EXCEPT ![p] = f]
                               /\ faults' \in {faults} \cup {n \in {faults + 1} : n <= MaxFaults}
      BY <1>4, WritesAnEntry
    <2>3. files' \in [Pids -> Entries \cup {NoFile}] /\ faults' \in 0..MaxFaults
      BY <1>1, <2>2, ConstantsOK DEF StorageOK
    <2>4. reused' \in SUBSET Pids /\ UNCHANGED <<binary, kills>>
      BY <1>1, <1>4 DEF WriteDaemonState, StorageOK
    <2>. QED
      BY <1>1, <2>1, <2>3, <2>4 DEF StorageOK
  <1>5. CASE Serve(p)
    <2>1. files' \in [Pids -> Entries \cup {NoFile}]
      BY <1>1, <1>5 DEF Serve, BeginShutdown, StorageOK
    <2>. QED
      BY <1>1, <1>5, <2>1 DEF Serve, StorageOK
  <1>6. CASE Exit(p)
    <2>1. scan' \in [Readers -> ScanRun]
      BY <1>1, <1>6, GoneOK DEF Exit
    <2>. QED
      BY <1>1, <1>6, <2>1 DEF Exit, StorageOK
  <1>. QED
    BY <1>2, <1>3, <1>4, <1>5, <1>6 DEF DaemonStep

LEMMA EnvironmentStorage ==
  ASSUME TypeOK, Environment
  PROVE  StorageOK'
  <1>1. StorageOK
    BY TypeParts
  <1>2. CASE Launch
    BY <1>1, <1>2 DEF Launch, storage, StorageOK
  <1>3. ASSUME NEW p \in Pids, OtherEnds(p) PROVE StorageOK'
    <2>1. scan' \in [Readers -> ScanRun]
      BY <1>1, <1>3, GoneOK DEF OtherEnds
    <2>. QED
      BY <1>1, <1>3, <2>1 DEF OtherEnds, StorageOK
  <1>4. ASSUME NEW p \in Pids, Kill(p) PROVE StorageOK'
    <2>1. scan' \in [Readers -> ScanRun]
      BY <1>1, <1>4, GoneOK DEF Kill
    <2>2. kills' \in 0..MaxKills
      BY <1>1, <1>4, ConstantsOK DEF Kill, StorageOK
    <2>. QED
      BY <1>1, <1>4, <2>1, <2>2 DEF Kill, StorageOK
  <1>5. ASSUME NEW p \in Pids, Interrupt(p) PROVE StorageOK'
    <2>1. scan' \in [Readers -> ScanRun] /\ files' \in [Pids -> Entries \cup {NoFile}]
      BY <1>1, <1>5, SignalOK DEF Interrupt
    <2>. QED
      BY <1>1, <1>5, <2>1 DEF Interrupt, StorageOK
  <1>. QED
    BY <1>2, <1>3, <1>4, <1>5 DEF Environment

LEMMA InstallStorage ==
  ASSUME TypeOK, Queues, Install
  PROVE  StorageOK'
  <1>1. StorageOK /\ Updater \in Readers
    BY TypeParts DEF Readers
  <1>2. CASE Begin
    BY <1>1, <1>2, ReadAllOK DEF Begin, processes, StorageOK
  <1>3. CASE Scan
    BY <1>1, <1>3, ScanStepOK DEF Scan, processes
  <1>4. CASE AliveDaemons
    <2>1. scan' \in [Readers -> ScanRun]
      BY <1>1, <1>4, NoScanIsRun DEF AliveDaemons, StorageOK
    <2>. QED
      BY <1>1, <1>4, <2>1 DEF AliveDaemons, processes, StorageOK
  <1>5. ASSUME Fault \/ NoFault PROVE faults' \in 0..MaxFaults
    BY <1>1, <1>5, ConstantsOK DEF Fault, NoFault, StorageOK
  <1>6. ASSUME NEW f \in queue, PlanDaemonRestarts(f) PROVE StorageOK'
    <2>1. faults' \in 0..MaxFaults
      BY <1>5, <1>6 DEF PlanDaemonRestarts
    <2>. QED
      BY <1>1, <1>6, <2>1 DEF PlanDaemonRestarts, processes, storage, StorageOK
  <1>7. ASSUME NEW f \in queue, StopUnmanaged(f) PROVE StorageOK'
    <2>1. f.pid \in Pids
      BY <1>7 DEF StopUnmanaged, Queues, TypeOK, Entries
    <2>2. scan' \in [Readers -> ScanRun] /\ files' \in [Pids -> Entries \cup {NoFile}]
      BY <1>1, <1>7, <2>1, SignalOK DEF StopUnmanaged, StorageOK
    <2>. QED
      BY <1>1, <1>7, <2>2 DEF StopUnmanaged, StorageOK
  <1>8. CASE FetchLatestVersionFails
    BY <1>1, <1>5, <1>8 DEF FetchLatestVersionFails, processes, storage, StorageOK
  <1>9. CASE FastInstallGlobal
    <2>1. faults' \in 0..MaxFaults /\ binary' \in {"old", "new"}
      BY <1>1, <1>5, <1>9 DEF FastInstallGlobal, Installed, StorageOK
    <2>. QED
      BY <1>1, <1>9, <2>1 DEF FastInstallGlobal, processes, storage, StorageOK
  <1>10. CASE InstallGlobal
    <2>1. faults' \in 0..MaxFaults /\ binary' \in {"old", "new"}
      BY <1>1, <1>5, <1>10 DEF InstallGlobal, Installed, StorageOK
    <2>. QED
      BY <1>1, <1>10, <2>1 DEF InstallGlobal, processes, storage, StorageOK
  <1>11. ASSUME NEW f \in queue, StartUnmanaged(f) PROVE StorageOK'
    <2>1. faults' \in 0..MaxFaults
      BY <1>5, <1>11 DEF StartUnmanaged
    <2>. QED
      BY <1>1, <1>11, <2>1 DEF StartUnmanaged, storage, StorageOK
  <1>12. ASSUME NEW m \in queue, RestartManaged(m) PROVE StorageOK'
    <2>1. faults' \in 0..MaxFaults
      BY <1>1, <1>5, <1>12 DEF RestartManaged, StorageOK
    <2>2. scan' \in [Readers -> ScanRun] /\ files' \in [Pids -> Entries \cup {NoFile}]
      BY <1>1, <1>12, NoScanIsRun DEF RestartManaged, SystemctlRestart, StorageOK
    <2>. QED
      BY <1>1, <1>12, <2>1, <2>2 DEF RestartManaged, StorageOK
  <1>13. CASE Planned \/ WaitForProcessExit \/ StopTimesOut \/ Stopped \/ AlreadyInstalled \/ ChooseInstall
              \/ WaitUntilUsed \/ Started \/ Restarted
    BY <1>1, <1>13 DEF Planned, WaitForProcessExit, StopTimesOut, Stopped, AlreadyInstalled, ChooseInstall,
                       WaitUntilUsed, Started, Restarted, daemonVars, processes, storage, StorageOK
  <1>. QED
    BY <1>2, <1>3, <1>4, <1>6, <1>7, <1>8, <1>9, <1>10, <1>11, <1>12, <1>13 DEF Install

LEMMA InstallCommand ==
  ASSUME TypeOK, Queues, Processes, Install
  PROVE  CommandOK' /\ Queues'
  <1>1. StorageOK /\ CommandOK /\ Updater \in Readers /\ proc \in [Pids -> Process] /\ launches \in 0..MaxLaunches
    BY TypeParts DEF Readers
  <1>2. CASE Begin
    <2>1. ASSUME NEW p \in Pids, Recorded(p) PROVE proc[p].start \in Starts
      <3>1. proc[p].kind # "none" /\ proc[p].start \in 1..launches
        BY <1>1, <2>1 DEF Recorded, Processes
      <3>. QED
        BY <1>1, <3>1, ConstantsOK DEF Starts
    <2>2. found' \in SUBSET Starts
      BY <1>2, <2>1 DEF Begin
    <2>3. pc' = "scan" /\ UNCHANGED <<managed, unmanaged, queue, current, units, owed, result>>
      BY <1>2 DEF Begin, Goto
    <2>. QED
      BY <1>1, <2>2, <2>3 DEF CommandOK, Queues
  <1>3. CASE Scan
    BY <1>1, <1>3 DEF Scan, updateVars, CommandOK, Queues
  <1>4. CASE AliveDaemons
    <2>1. queue' \in SUBSET Entries
      BY <1>1, <1>4 DEF AliveDaemons, StorageOK, ScanRun
    <2>2. pc' = "plan" /\ UNCHANGED <<managed, unmanaged, current, units, found, owed, result>>
      BY <1>4 DEF AliveDaemons, Goto
    <2>. QED
      BY <1>1, <2>1, <2>2 DEF CommandOK, Queues
  <1>5. ASSUME NEW f \in queue, PlanDaemonRestarts(f) PROVE CommandOK' /\ Queues'
    <2>1. f \in Entries /\ pc = "plan" /\ queue' = queue \ {f} /\ UNCHANGED <<pc, current, units, found, owed, result>>
      BY <1>5 DEF PlanDaemonRestarts, Queues
    <2>2. f.unit \in Units \cup {"none"} /\ f.pid \in Pids /\ proc[f.pid].unit \in Units \cup {"none"}
      BY <1>1, <2>1 DEF Entries, Process
    <2>3. OwnerOf(f) # "none" => [file |-> f, unit |-> OwnerOf(f)] \in Plans
      BY <2>1, <2>2 DEF OwnerOf, Owned, Plans
    <2>4. managed' \in SUBSET Plans /\ unmanaged' \in SUBSET Entries
      BY <1>1, <1>5, <2>1, <2>3 DEF PlanDaemonRestarts, CommandOK
    <2>. QED
      BY <1>1, <2>1, <2>4 DEF CommandOK, Queues
  <1>6. CASE Planned
    BY <1>1, <1>6 DEF Planned, Return, Goto, CommandOK, Queues
  <1>7. ASSUME NEW f \in queue, StopUnmanaged(f) PROVE CommandOK' /\ Queues'
    BY <1>1, <1>7 DEF StopUnmanaged, Goto, CommandOK, Queues
  <1>8. CASE WaitForProcessExit
    <2>1. current \in Entries
      BY <1>1, <1>8 DEF WaitForProcessExit, Goto, Queues, CommandOK
    <2>. QED
      BY <1>1, <1>8, <2>1 DEF WaitForProcessExit, Goto, CommandOK, Queues
  <1>9. CASE StopTimesOut \/ Stopped \/ FetchLatestVersionFails \/ AlreadyInstalled \/ ChooseInstall
    BY <1>1, <1>9 DEF StopTimesOut, Stopped, FetchLatestVersionFails, AlreadyInstalled, ChooseInstall,
                      Return, Goto, CommandOK, Queues
  <1>10. CASE FastInstallGlobal
    BY <1>1, <1>10 DEF FastInstallGlobal, Installed, Goto, CommandOK, Queues
  <1>11. CASE InstallGlobal
    BY <1>1, <1>11 DEF InstallGlobal, Installed, Return, Goto, CommandOK, Queues
  <1>12. ASSUME NEW f \in queue, StartUnmanaged(f) PROVE CommandOK' /\ Queues'
    <2>1. f \in Entries /\ pc = "start"
      BY <1>1, <1>12 DEF StartUnmanaged, Queues, CommandOK
    <2>. QED
      BY <1>1, <1>12, <2>1 DEF StartUnmanaged, Goto, CommandOK, Queues
  <1>13. CASE WaitUntilUsed \/ Started \/ Restarted
    BY <1>1, <1>13 DEF WaitUntilUsed, Started, Restarted, Goto, CommandOK, Queues
  <1>14. ASSUME NEW m \in queue, RestartManaged(m) PROVE CommandOK' /\ Queues'
    <2>1. m \in Plans /\ pc = "restart"
      BY <1>1, <1>14 DEF RestartManaged, Queues, CommandOK
    <2>2. m.unit \in Units
      BY <2>1 DEF Plans
    <2>. QED
      BY <1>1, <1>14, <2>1, <2>2 DEF RestartManaged, Return, Goto, CommandOK, Queues
  <1>. QED
    BY <1>2, <1>3, <1>4, <1>5, <1>6, <1>7, <1>8, <1>9, <1>10, <1>11, <1>12, <1>13, <1>14 DEF Install

\* The three shapes of a process (Evolves) keep what is known of it.
LEMMA ProcessesStep ==
  ASSUME proc \in [Pids -> Process], launches \in Nat, Processes, Evolves
  PROVE  Processes'
  <1> SUFFICES ASSUME NEW p \in Pids
               PROVE  /\ proc'[p].kind = "none" => proc'[p] = NoProcess
                      /\ proc'[p].kind # "none" => proc'[p].start \in 1..launches'
                      /\ proc'[p].phase # "none" => proc'[p].kind = "daemon" /\ proc'[p].conf \in Confs
    BY DEF Processes
  <1>1. proc[p] \in Process /\ proc'[p] \in Process /\ launches' \in {launches, launches + 1}
    BY DEF Evolves
  <1>2. CASE Same(p)
    <2>1. PICK phase \in Phases : /\ proc'[p] = [proc[p] EXCEPT !.phase = phase]
                                  /\ phase # proc[p].phase => proc[p].phase # "none"
      BY <1>2 DEF Same
    <2>2. /\ proc'[p].kind = proc[p].kind /\ proc'[p].start = proc[p].start
          /\ proc'[p].conf = proc[p].conf /\ proc'[p].phase = phase
      BY <1>1, <2>1 DEF Process
    <2>3. proc[p].kind = "none" => proc'[p] = NoProcess
      BY <1>1, <2>1 DEF Processes, NoProcess, Process
    <2>. QED
      BY <1>1, <2>1, <2>2, <2>3 DEF Processes
  <1>3. CASE Ends(p)
    BY <1>3 DEF Ends, NoProcess
  <1>4. CASE Begins(p)
    BY <1>1, <1>4 DEF Begins
  <1>. QED
    BY <1>2, <1>3, <1>4 DEF Evolves

LEMMA TypeStep ==
  ASSUME TypeOK, Queues, Processes, [Next]_vars
  PROVE  TypeOK' /\ Queues' /\ Processes' /\ Evolves
  <1>1. StorageOK /\ CommandOK /\ proc \in [Pids -> Process] /\ launches \in 0..MaxLaunches
    BY TypeParts
  <1>2. Evolves
    BY NextEvolves
  <1>3. Processes'
    BY <1>1, <1>2, ProcessesStep, ConstantsOK
  <1>4. proc' \in [Pids -> Process] /\ launches' \in 0..MaxLaunches
    BY <1>1, <1>2, ConstantsOK DEF Evolves
  <1>5. StorageOK' /\ CommandOK' /\ Queues'
    <2>1. CASE UNCHANGED vars
      BY <1>1, <2>1 DEF vars, daemonVars, processes, storage, updateVars, StorageOK, CommandOK, Queues
    <2>2. CASE Daemons
      <3>1. StorageOK'
        BY <2>2, EnvironmentStorage, DaemonStepStorage DEF Daemons
      <3>2. CommandOK' /\ Queues'
        BY <1>1, <2>2 DEF Daemons, updateVars, CommandOK, Queues
      <3>. QED
        BY <3>1, <3>2
    <2>3. CASE Install
      BY <2>3, InstallStorage, InstallCommand
    <2>. QED
      BY <2>1, <2>2, <2>3 DEF Next
  <1>6. TypeOK'
    BY <1>4, <1>5 DEF TypeOK, DaemonTypeOK, StorageOK, CommandOK, Process, Phases, ScanRun
  <1>. QED
    BY <1>2, <1>3, <1>5, <1>6

LEMMA TypeInit ==
  ASSUME Init
  PROVE  TypeOK /\ Queues /\ Processes
  <1>1. proc \in [Pids -> Process] /\ launches \in 0..MaxLaunches
    BY NoProcessIsProcess, ConstantsOK DEF Init, DaemonInit
  <1>2. StorageOK
    BY NoScanIsRun, ConstantsOK DEF Init, DaemonInit, StorageOK
  <1>3. CommandOK /\ Queues
    BY DEF Init, CommandOK, Queues
  <1>4. Processes
    BY DEF Init, DaemonInit, Processes, NoProcess
  <1>. QED
    BY <1>1, <1>2, <1>3, <1>4, TypeParts

-----------------------------------------------------------------------------
(* The files *)

StillRecorded ==
    \A p \in Pids : proc'[p].phase \in {"recorded", "serving"} =>
        Recorded(p) /\ proc'[p].start = proc[p].start /\ files'[p] = files[p]

\* A step that reads no file, deletes none of a daemon in service and writes none.
Quiet ==
    /\ StillRecorded
    /\ \A p \in Pids : files'[p] \in {files[p], NoFile}
    /\ \A r \in Readers : scan'[r] \in {scan[r], NoScan}
    /\ UNCHANGED reused

\* Processes, files and scans change in one of these ways.
Reads(r)  == StillRecorded /\ ReadAllDaemonStates(r) /\ UNCHANGED <<files, reused>>
Scans(r)  == ScanStep(r) /\ UNCHANGED <<proc, reused>>

StorageSteps ==
    \/ Quiet
    \/ \E r \in Readers : Reads(r) \/ Scans(r)
    \/ \E p \in Pids : WriteDaemonState(p)

LEMMA StillRecordedIf ==
  ASSUME proc \in [Pids -> Process], NEW p \in Pids,
         \/ proc' = [proc EXCEPT ![p] = NoProcess]
         \/ \E phase \in {"prune", "scan", "stopping"} : proc' = [proc EXCEPT ![p].phase = phase],
         \A q \in Pids \ {p} : files'[q] = files[q]
  PROVE  StillRecorded
  <1> SUFFICES ASSUME NEW q \in Pids, proc'[q].phase \in {"recorded", "serving"}
               PROVE  Recorded(q) /\ proc'[q].start = proc[q].start /\ files'[q] = files[q]
    BY DEF StillRecorded
  <1>1. q # p
    BY DEF NoProcess, Process
  <1>. QED
    BY <1>1 DEF Recorded

LEMMA GoneIsQuiet ==
  ASSUME proc \in [Pids -> Process], StorageOK, NEW p \in Pids, Gone(p), UNCHANGED <<files, reused>>
  PROVE  Quiet
  <1>1. StillRecorded
    BY StillRecordedIf DEF Gone
  <1>2. \A r \in Readers : scan'[r] \in {scan[r], NoScan}
    BY DEF Gone, StorageOK
  <1>. QED
    BY <1>1, <1>2 DEF Quiet

LEMMA ShutdownIsQuiet ==
  ASSUME proc \in [Pids -> Process], StorageOK, NEW p \in Pids, BeginShutdown(p), UNCHANGED <<scan, reused>>
  PROVE  Quiet
  <1>1. \A q \in Pids : files'[q] = IF q = p THEN NoFile ELSE files[q]
    BY DEF BeginShutdown, StorageOK
  <1>2. StillRecorded
    BY <1>1, StillRecordedIf DEF BeginShutdown
  <1>. QED
    BY <1>1, <1>2 DEF Quiet

LEMMA SignalIsQuiet ==
  ASSUME proc \in [Pids -> Process], StorageOK, NEW p \in Pids, Signal(p), UNCHANGED reused
  PROVE  Quiet
  <1>1. CASE Recorded(p)
    BY <1>1, ShutdownIsQuiet DEF Signal
  <1>2. CASE ~Recorded(p) /\ proc[p].phase = "stopping"
    BY <1>2 DEF Signal, Quiet, StillRecorded, Recorded
  <1>3. CASE ~Recorded(p) /\ proc[p].phase # "stopping"
    BY <1>3, GoneIsQuiet DEF Signal
  <1>. QED
    BY <1>1, <1>2, <1>3

LEMMA RunIsQuiet ==
  ASSUME proc \in [Pids -> Process], NEW p \in Pids, NEW q, q.phase \in {"none", "prune"}, q \in Process, Run(p, q),
         UNCHANGED <<files, scan, reused>>
  PROVE  Quiet
  <1>1. proc' = [proc EXCEPT ![p] = [q EXCEPT !.start = launches + 1]]
    BY DEF Run
  <1> DEFINE new == [q EXCEPT !.start = launches + 1]
  <1>2. new.phase \in {"none", "prune"}
    BY DEF Process
  <1>3. ASSUME NEW r \in Pids, proc'[r].phase \in {"recorded", "serving"}
        PROVE  r # p /\ proc'[r] = proc[r]
    <2>1. proc' = [proc EXCEPT ![p] = new]
      BY <1>1
    <2> HIDE DEF new
    <2>. QED
      BY <1>2, <1>3, <2>1
  <1>4. StillRecorded
    BY <1>3 DEF StillRecorded, Recorded
  <1>. QED
    BY <1>4 DEF Quiet

LEMMA RestartIsQuiet ==
  ASSUME proc \in [Pids -> Process], StorageOK, NEW unit, SystemctlRestart(unit), UNCHANGED reused
  PROVE  Quiet
  <1>1. \A p \in Pids : proc'[p] = IF proc[p].unit = unit THEN NoProcess ELSE proc[p]
    BY DEF SystemctlRestart
  <1>2. \A p \in Pids : files'[p] = IF Recorded(p) /\ proc[p].unit = unit THEN NoFile ELSE files[p]
    BY DEF SystemctlRestart
  <1>3. \A r \in Readers : scan'[r] \in {scan[r], NoScan}
    BY DEF SystemctlRestart
  <1>4. StillRecorded
    BY <1>1, <1>2 DEF StillRecorded, Recorded, NoProcess
  <1>. QED
    BY <1>2, <1>3, <1>4 DEF Quiet

\* Files and scans change only by a read, a step of a scan or a write; all else is quiet.
LEMMA NextStorage ==
  ASSUME TypeOK, Queues, [Next]_vars
  PROVE  StorageSteps
  <1>1. StorageOK /\ proc \in [Pids -> Process] /\ Updater \in Readers /\ Pids \subseteq Readers
    BY TypeParts DEF Readers
  <1>2. CASE UNCHANGED <<proc, files, scan, reused>>
    BY <1>2 DEF StorageSteps, Quiet, StillRecorded, Recorded
  <1>3. CASE Launch
    <2>1. UNCHANGED <<files, scan, reused>>
      BY <1>3 DEF Launch, storage
    <2>2. ASSUME NEW p \in Pids, NEW conf \in Confs, NEW unit \in Agents \cup {"none"}, LaunchDaemon(p, conf, unit)
          PROVE  Quiet
      <3>1. unit \in Units \cup {"none"}
        BY DEF Units
      <3>. QED
        BY <1>1, <2>1, <2>2, <3>1, RunIsQuiet, DaemonIsProcess DEF LaunchDaemon
    <2>3. ASSUME NEW p \in Pids, NEW conf \in Confs, NEW unit \in Services, NEW parent \in {"none", "wrapper"},
                 SystemdStarts(p, conf, unit, parent)
          PROVE  Quiet
      <3>1. unit \in Units \cup {"none"}
        BY DEF Units
      <3>. QED
        BY <1>1, <2>1, <2>3, <3>1, RunIsQuiet, DaemonIsProcess DEF SystemdStarts
    <2>4. ASSUME NEW p \in Pids, NEW kind \in {"command", "other"}, LaunchOther(p, kind)
          PROVE  Quiet
      <3> DEFINE q == [NoProcess EXCEPT !.kind = kind]
      <3>1. q \in Process /\ q.phase = "none"
        BY DEF NoProcess, Process, Phases
      <3>2. Run(p, q)
        BY <2>4 DEF LaunchOther
      <3> HIDE DEF q
      <3>. QED
        BY <1>1, <2>1, <3>1, <3>2, RunIsQuiet
    <2>. QED
      BY <1>3, <2>2, <2>3, <2>4 DEF Launch, StorageSteps
  <1>4. ASSUME NEW p \in Pids, OtherEnds(p) \/ Kill(p) \/ Interrupt(p)
        PROVE  StorageSteps
    BY <1>1, <1>4, GoneIsQuiet, SignalIsQuiet DEF OtherEnds, Kill, Interrupt, StorageSteps
  <1>5. ASSUME NEW p \in Pids, DaemonStep(p)
        PROVE  StorageSteps
    <2>1. CASE PruneStaleStates(p)
      <3>1. CASE Serving(proc[p].conf)
        BY <1>1, <2>1, <3>1, GoneIsQuiet DEF PruneStaleStates, StorageSteps
      <3>2. CASE ~Serving(proc[p].conf)
        BY <1>1, <2>1, <3>2, StillRecordedIf DEF PruneStaleStates, StorageSteps, Reads
      <3>. QED
        BY <3>1, <3>2
    <2>2. CASE DaemonScans(p)
      BY <1>1, <2>2 DEF DaemonScans, processes, Scans, StorageSteps
    <2>3. CASE WriteDaemonState(p)
      BY <2>3 DEF StorageSteps
    <2>4. CASE Serve(p)
      <3>1. CASE Serving(proc[p].conf)
        BY <1>1, <2>4, <3>1, ShutdownIsQuiet DEF Serve, StorageSteps
      <3>2. CASE ~Serving(proc[p].conf)
        <4>1. Recorded(p) /\ proc' = [proc EXCEPT ![p].phase = "serving"] /\ UNCHANGED <<files, scan, reused>>
          BY <2>4, <3>2 DEF Serve, Recorded
        <4>2. \A q \in Pids : proc'[q].phase = proc[q].phase \/ q = p
          BY <1>1, <4>1
        <4>3. \A q \in Pids : proc'[q].start = proc[q].start
          BY <1>1, <4>1 DEF Process
        <4>4. StillRecorded
          BY <4>1, <4>2, <4>3 DEF StillRecorded, Recorded
        <4>. QED
          BY <4>1, <4>4 DEF Quiet, StorageSteps
      <3>. QED
        BY <3>1, <3>2
    <2>5. CASE Exit(p)
      BY <1>1, <2>5, GoneIsQuiet DEF Exit, StorageSteps
    <2>. QED
      BY <1>5, <2>1, <2>2, <2>3, <2>4, <2>5 DEF DaemonStep
  <1>6. CASE Begin
    <2>1. StillRecorded
      BY <1>6 DEF Begin, processes, StillRecorded, Recorded
    <2>. QED
      BY <1>1, <1>6, <2>1 DEF Begin, Reads, StorageSteps
  <1>7. CASE Scan
    BY <1>1, <1>7 DEF Scan, processes, Scans, StorageSteps
  <1>8. CASE AliveDaemons
    <2>1. \A r \in Readers : scan'[r] \in {scan[r], NoScan}
      BY <1>1, <1>8 DEF AliveDaemons, StorageOK
    <2>. QED
      BY <1>8, <2>1 DEF AliveDaemons, processes, StorageSteps, Quiet, StillRecorded, Recorded
  <1>9. ASSUME NEW f \in queue, StopUnmanaged(f) PROVE StorageSteps
    <2>1. f.pid \in Pids
      BY <1>9 DEF StopUnmanaged, Queues, TypeOK, Entries
    <2>2. CASE Alive(f.pid)
      BY <1>1, <1>9, <2>1, <2>2, SignalIsQuiet DEF StopUnmanaged, StorageSteps
    <2>3. CASE ~Alive(f.pid)
      BY <1>2, <1>9, <2>3 DEF StopUnmanaged
    <2>. QED
      BY <2>2, <2>3
  <1>10. ASSUME NEW f \in queue, StartUnmanaged(f) PROVE StorageSteps
    <2>1. f.conf \in Confs /\ "none" \in Units \cup {"none"}
      BY <1>10 DEF StartUnmanaged, Queues, TypeOK, Entries
    <2>2. UNCHANGED <<files, scan, reused>>
      BY <1>10 DEF StartUnmanaged, storage
    <2>3. ASSUME NEW p \in Pids, Run(p, Daemon(f.conf, "none", "none")) PROVE Quiet
      BY <1>1, <2>1, <2>2, <2>3, RunIsQuiet, DaemonIsProcess
    <2>4. CASE UNCHANGED proc
      BY <1>2, <2>2, <2>4
    <2>. QED
      BY <1>10, <2>3, <2>4 DEF StartUnmanaged, StorageSteps
  <1>11. ASSUME NEW m \in queue, RestartManaged(m) PROVE StorageSteps
    <2>1. CASE SystemctlRestart(m.unit)
      BY <1>1, <1>11, <2>1, RestartIsQuiet DEF RestartManaged, StorageSteps
    <2>2. CASE ~SystemctlRestart(m.unit)
      BY <1>2, <1>11, <2>2 DEF RestartManaged
    <2>. QED
      BY <2>1, <2>2
  <1>12. ASSUME NEW f \in queue, PlanDaemonRestarts(f) PROVE StorageSteps
    BY <1>2, <1>12 DEF PlanDaemonRestarts, processes, storage
  <1>13. CASE Planned \/ WaitForProcessExit \/ StopTimesOut \/ Stopped \/ FetchLatestVersionFails
              \/ AlreadyInstalled \/ ChooseInstall \/ FastInstallGlobal \/ InstallGlobal
              \/ WaitUntilUsed \/ Started \/ Restarted
    BY <1>2, <1>13 DEF Planned, WaitForProcessExit, StopTimesOut, Stopped, FetchLatestVersionFails, AlreadyInstalled,
                       ChooseInstall, FastInstallGlobal, InstallGlobal, WaitUntilUsed, Started, Restarted,
                       daemonVars, processes, storage
  <1>14. CASE UNCHANGED vars
    BY <1>2, <1>14 DEF vars, daemonVars, processes, storage
  <1>. QED
    BY <1>3, <1>4, <1>5, <1>6, <1>7, <1>8, <1>9, <1>10, <1>11, <1>12, <1>13, <1>14
    DEF Next, Daemons, Environment, Install

FileNames == \A p \in Pids : files[p] # NoFile => files[p].pid = p

\* No reader is about to delete the file of a daemon in service, nor will its scan come to that.
Guarded ==
    \A p \in Pids \ reused : Recorded(p) =>
        /\ files[p].pid = p /\ files[p].start \in {0, proc[p].start}
        /\ \A r \in Readers : /\ scan[r].doomed.pid # p
                              /\ \A f \in scan[r].todo : f.pid = p => f.start \in {0, proc[p].start}

LEMMA NoScanIsHarmless == NoScan.todo = {} /\ NoScan.doomed = NoFile /\ NoFile.pid \notin Pids
  BY ConstantsOK DEF NoScan, NoFile

\* A reader that comes between is harmless: what it read of a daemon in service has the right start time.
LEMMA FilesStep ==
  ASSUME TypeOK, Processes, FileNames, Guarded, StorageSteps
  PROVE  FileNames' /\ Guarded'
  <1>1. StorageOK /\ proc \in [Pids -> Process]
    BY TypeParts
  <1>2. CASE Quiet
    BY <1>2, NoScanIsHarmless DEF Quiet, StillRecorded, FileNames, Guarded, Recorded
  <1>3. ASSUME NEW r \in Readers, Reads(r) PROVE FileNames' /\ Guarded'
    <2>1. FileNames'
      BY <1>3 DEF Reads, FileNames
    <2>2. \A q \in Readers : scan'[q] = IF q = r THEN [NoScan EXCEPT !.todo = {files[p] : p \in Pids} \ {NoFile}]
                                                 ELSE scan[q]
      BY <1>1, <1>3 DEF Reads, ReadAllDaemonStates, StorageOK
    <2>3. scan'[r].todo = {files[p] : p \in Pids} \ {NoFile} /\ scan'[r].doomed = NoFile
      BY <2>2 DEF NoScan
    <2>4. ASSUME NEW p \in Pids \ reused', proc'[p].phase \in {"recorded", "serving"}
          PROVE  /\ files'[p].pid = p /\ files'[p].start \in {0, proc'[p].start}
                 /\ \A q \in Readers : /\ scan'[q].doomed.pid # p
                                       /\ \A f \in scan'[q].todo : f.pid = p => f.start \in {0, proc'[p].start}
      <3>1. p \notin reused /\ Recorded(p) /\ proc'[p].start = proc[p].start /\ files' = files
        BY <1>3, <2>4 DEF Reads, StillRecorded
      <3>2. \A f \in scan'[r].todo : f.pid = p => f = files[p]
        BY <2>3 DEF FileNames
      <3>3. \A q \in Readers \ {r} : scan'[q] = scan[q]
        BY <2>2
      <3>4. \A q \in Readers : q # r \/ q = r
        OBVIOUS
      <3>. QED
        BY <2>3, <3>1, <3>2, <3>3, <3>4, NoScanIsHarmless DEF Guarded
    <2>. QED
      BY <2>1, <2>4 DEF Guarded, Recorded
  <1>4. ASSUME NEW r \in Readers, Scans(r) PROVE FileNames' /\ Guarded'
    <2>1. CASE DeleteDaemonState(r)
      <3>1. \A q \in Pids : files'[q] = files[q] \/ (files'[q] = NoFile /\ q = scan[r].doomed.pid)
        BY <1>1, <2>1 DEF DeleteDaemonState, StorageOK
      <3>2. \A q \in Readers : scan'[q].todo = scan[q].todo /\ scan'[q].doomed \in {scan[q].doomed, NoFile}
        BY <1>1, <2>1 DEF DeleteDaemonState, StorageOK, ScanRun
      <3>3. UNCHANGED <<proc, reused>>
        BY <1>4 DEF Scans
      <3>4. FileNames'
        BY <3>1 DEF FileNames
      <3>5. Guarded'
        BY <3>1, <3>2, <3>3, NoScanIsHarmless DEF Guarded, Recorded
      <3>. QED
        BY <3>4, <3>5
    <2>2. ASSUME NEW f \in scan[r].todo, Probe(r, f), UNCHANGED files
          PROVE  FileNames' /\ Guarded'
      <3>1. \A q \in Readers : /\ scan'[q].todo \subseteq scan[q].todo
                               /\ \/ scan'[q].doomed \in {scan[q].doomed, NoFile}
                                  \/ scan'[q].doomed = f /\ q = r /\ ~IsDaemonStateAlive(f)
        BY <1>1, <2>2 DEF Probe, StorageOK, ScanRun
      <3>2. UNCHANGED <<proc, files, reused>>
        BY <1>4, <2>2 DEF Scans
      <3>3. ASSUME NEW p \in Pids \ reused, Recorded(p), f.pid = p PROVE IsDaemonStateAlive(f)
        <4>1. f.start \in {0, proc[p].start}
          BY <3>3 DEF Guarded
        <4>2. proc[p].kind = "daemon"
          BY <3>3 DEF Recorded, Processes
        <4>. QED
          BY <3>3, <4>1, <4>2 DEF IsDaemonStateAlive, Alive
      <3>4. FileNames'
        BY <3>2 DEF FileNames
      <3>5. Guarded'
        BY <3>1, <3>2, <3>3, NoScanIsHarmless DEF Guarded, Recorded
      <3>. QED
        BY <3>4, <3>5
    <2>. QED
      BY <1>4, <2>1, <2>2 DEF Scans, ScanStep
  <1>5. ASSUME NEW p \in Pids, WriteDaemonState(p) PROVE FileNames' /\ Guarded'
    <2>1. PICK f \in Entries : /\ files' = [files EXCEPT ![p] = f]
                               /\ f.pid = p /\ f.start \in {0, proc[p].start}
      BY <1>5, WritesAnEntry
    <2>2. \A q \in Pids : files'[q] = IF q = p THEN f ELSE files[q]
      BY <1>1, <2>1 DEF StorageOK
    <2>3. \A q \in Readers : scan'[q] = IF q = p THEN NoScan ELSE scan[q]
      BY <1>1, <1>5 DEF WriteDaemonState, StorageOK
    <2>4. \A q \in Pids : proc'[q].start = proc[q].start /\ (q # p => proc'[q] = proc[q])
      BY <1>1, <1>5 DEF WriteDaemonState, Process
    <2>5. reused' = IF \E r \in Readers \ {p} : \E e \in scan[r].todo \cup {scan[r].doomed} : e.pid = p
                    THEN reused \cup {p} ELSE reused \ {p}
      BY <1>5 DEF WriteDaemonState
    <2>6. FileNames'
      BY <2>1, <2>2 DEF FileNames
    <2>7. ASSUME NEW q \in Pids \ reused', proc'[q].phase \in {"recorded", "serving"}
          PROVE  /\ files'[q].pid = q /\ files'[q].start \in {0, proc'[q].start}
                 /\ \A r \in Readers : /\ scan'[r].doomed.pid # q
                                       /\ \A e \in scan'[r].todo : e.pid = q => e.start \in {0, proc'[q].start}
      <3>1. CASE q = p
        <4>1. \A r \in Readers \ {p} : \A e \in scan[r].todo \cup {scan[r].doomed} : e.pid # p
          BY <2>5, <2>7, <3>1
        <4>. QED
          BY <2>1, <2>2, <2>3, <2>4, <3>1, <4>1, NoScanIsHarmless
      <3>2. CASE q # p
        <4>1. q \notin reused /\ Recorded(q)
          BY <2>4, <2>5, <2>7, <3>2 DEF Recorded
        <4>. QED
          BY <2>2, <2>3, <2>4, <3>2, <4>1, NoScanIsHarmless DEF Guarded
      <3>. QED
        BY <3>1, <3>2
    <2>8. Guarded'
      BY <2>7 DEF Guarded, Recorded
    <2>. QED
      BY <2>6, <2>8
  <1>. QED
    BY <1>2, <1>3, <1>4, <1>5 DEF StorageSteps

-----------------------------------------------------------------------------
(* Processes, units and what the files say of them *)

Distinct == \A p, q \in Pids : Alive(p) /\ proc[p].start = proc[q].start => p = q

\* A unit runs one daemon at a time.
Alone == \A p, q \in Pids : proc[p].unit \in Services /\ proc[q].unit = proc[p].unit => p = q

\* The process a file is of, if it runs still, is in the unit that the file names.
Sound(f) ==
    /\ f.start \in 0..launches
    /\ f.unit \in Services \cup {"none"}
    /\ f.start = 0 => f.unit = "none"
    /\ f.start # 0 /\ proc[f.pid].start = f.start => f.unit \in {"none", proc[f.pid].unit}

AllSound ==
    /\ \A p \in Pids : files[p] # NoFile => Sound(files[p])
    /\ \A r \in Readers : \A f \in scan[r].todo \cup scan[r].alive : Sound(f)
    /\ pc = "plan" => \A f \in queue : Sound(f)

Keeps(p) == /\ proc'[p].kind = proc[p].kind /\ proc'[p].start = proc[p].start
            /\ proc'[p].unit = proc[p].unit /\ proc'[p].parent = proc[p].parent

LEMMA KeptOrNot ==
  ASSUME TypeOK, Evolves, NEW p \in Pids
  PROVE  Keeps(p) \/ Ends(p) \/ Begins(p)
  <1>1. proc[p] \in Process
    BY TypeParts
  <1>2. CASE Same(p)
    BY <1>1, <1>2 DEF Same, Keeps, Process
  <1>. QED
    BY <1>2 DEF Evolves

LEMMA UnitsStep ==
  ASSUME TypeOK, Processes, Distinct, Alone, Evolves
  PROVE  Distinct' /\ Alone'
  <1>1. proc \in [Pids -> Process] /\ proc' \in [Pids -> Process] /\ launches \in Nat
    BY TypeParts, ConstantsOK DEF Evolves
  <1>2. NoProcess.kind = "none" /\ NoProcess.unit \notin Services /\ NoProcess.start = 0
    BY ConstantsOK DEF NoProcess
  <1>3. \A p \in Pids : proc[p].start \in 0..launches /\ (Alive(p) => proc[p].start # 0)
    BY <1>1, <1>2 DEF Processes, Alive
  <1>4. CASE \E p \in Pids : Begins(p)
    <2>1. PICK p \in Pids : Begins(p)
      BY <1>4
    <2>2. Distinct'
      BY <1>1, <1>3, <2>1 DEF Begins, Distinct, Alive
    <2>3. Alone'
      BY <2>1 DEF Begins, Alone
    <2>. QED
      BY <2>2, <2>3
  <1>5. CASE \A p \in Pids : ~Begins(p)
    <2>1. \A p \in Pids : Keeps(p) \/ Ends(p)
      BY <1>5, KeptOrNot
    <2>2. \A p, q \in Pids : Keeps(p) /\ Keeps(q) /\ Alive(p)' /\ proc'[p].start = proc'[q].start => p = q
      BY DEF Keeps, Distinct, Alive
    <2>3. \A p, q \in Pids : Keeps(p) /\ Ends(q) /\ Alive(p)' => proc'[p].start # proc'[q].start
      BY <1>2, <1>3 DEF Keeps, Ends, Alive
    <2>4. \A p \in Pids : Ends(p) => ~Alive(p)' /\ proc'[p].unit \notin Services
      BY <1>2 DEF Ends, Alive
    <2>5. Distinct'
      BY <2>1, <2>2, <2>3, <2>4 DEF Distinct
    <2>6. Alone'
      BY <2>1, <2>4 DEF Alone, Keeps
    <2>. QED
      BY <2>5, <2>6
  <1>. QED
    BY <1>4, <1>5

\* A daemon owned by a unit is in one that runs a daemon; an agent is the main process of its own unit.
LEMMA OwnedByService ==
  ASSUME TypeOK, NEW p \in Pids, Owned(p)
  PROVE  proc[p].unit \in Services
  <1>1. proc[p].unit \in Units \cup {"none"} /\ proc[p].parent \in {"none", "wrapper"}
    BY TypeParts DEF Process
  <1>2. "agent" # p /\ "agent" # proc[p].parent
    BY <1>1, ConstantsOK
  <1>3. proc[p].unit \notin Agents
    BY <1>2 DEF Owned, MainPid
  <1>. QED
    BY <1>1, <1>3 DEF Owned, Units

\* A daemon in such a unit is owned by it: it is the only one there, and CHOOSE finds it.
LEMMA ServiceOwns ==
  ASSUME TypeOK, Alone, NEW p \in Pids, proc[p].unit \in Services
  PROVE  Owned(p)
  <1> DEFINE ours == {q \in Pids : proc[q].unit = proc[p].unit}
  <1>1. ours = {p}
    BY DEF Alone
  <1>2. (CHOOSE q \in ours : TRUE) = p
    BY <1>1
  <1>3. proc[p].unit # "none" /\ proc[p].unit \notin Agents
    BY ConstantsOK
  <1>4. MainPid(proc[p].unit) = IF proc[p].parent = "wrapper" THEN "wrapper" ELSE p
    BY <1>1, <1>2, <1>3 DEF MainPid
  <1>. QED
    BY <1>3, <1>4 DEF Owned

\* A start time is not used twice, so a file that was right stays right.
LEMMA SoundStays ==
  ASSUME TypeOK, Processes, Evolves, NEW f \in Entries, Sound(f)
  PROVE  Sound(f)'
  <1>1. f.pid \in Pids /\ launches \in Nat /\ launches' \in {launches, launches + 1}
    BY TypeParts, ConstantsOK DEF Entries, Evolves
  <1>2. CASE Keeps(f.pid)
    BY <1>1, <1>2 DEF Keeps, Sound
  <1>3. CASE Ends(f.pid)
    BY <1>1, <1>3 DEF Ends, NoProcess, Sound
  <1>4. CASE Begins(f.pid)
    BY <1>1, <1>4 DEF Begins, Sound
  <1>. QED
    BY <1>1, <1>2, <1>3, <1>4, KeptOrNot

\* A list of daemons is made from what a scan found alive.
LEMMA PlanQueue ==
  ASSUME [Next]_vars, pc' = "plan"
  PROVE  \/ pc = "plan" /\ queue' \subseteq queue
         \/ AliveDaemons
  <1>1. CASE UNCHANGED updateVars
    BY <1>1 DEF updateVars
  <1>2. ASSUME Install, pc' = "plan" PROVE AliveDaemons \/ (pc = "plan" /\ queue' \subseteq queue) \/ UNCHANGED updateVars
    BY <1>2 DEF Install, Begin, Scan, PlanDaemonRestarts, Planned, StopUnmanaged, WaitForProcessExit,
                StopTimesOut, Stopped, FetchLatestVersionFails, AlreadyInstalled, ChooseInstall,
                FastInstallGlobal, InstallGlobal, Installed, StartUnmanaged, WaitUntilUsed, Started,
                RestartManaged, Restarted, Goto, Return
  <1>. QED
    BY <1>1, <1>2 DEF Next, Daemons, vars

LEMMA SoundStep ==
  ASSUME TypeOK, Queues, Processes, AllSound, Evolves, StorageSteps, [Next]_vars
  PROVE  AllSound'
  <1>1. StorageOK /\ proc \in [Pids -> Process] /\ Updater \in Readers
    BY TypeParts DEF Readers
  <1>2. \A f \in Entries : Sound(f) => Sound(f)'
    BY SoundStays
  <1>3. ASSUME NEW p \in Pids, files'[p] # NoFile, ~WriteDaemonState(p) PROVE Sound(files[p])' /\ files'[p] = files[p]
    <2>1. files'[p] = files[p]
      <3>1. CASE Quiet
        BY <1>3, <3>1 DEF Quiet
      <3>2. ASSUME NEW r \in Readers, Reads(r) PROVE files'[p] = files[p]
        BY <3>2 DEF Reads
      <3>3. ASSUME NEW r \in Readers, Scans(r) PROVE files'[p] = files[p]
        BY <1>1, <1>3, <3>3 DEF Scans, ScanStep, DeleteDaemonState, StorageOK
      <3>4. ASSUME NEW q \in Pids, WriteDaemonState(q) PROVE files'[p] = files[p]
        BY <1>1, <1>3, <3>4 DEF WriteDaemonState, StorageOK
      <3>. QED
        BY <3>1, <3>2, <3>3, <3>4 DEF StorageSteps
    <2>2. files[p] \in Entries /\ Sound(files[p])
      BY <1>1, <1>3, <2>1 DEF StorageOK, AllSound
    <2>. QED
      BY <1>2, <2>1, <2>2
  <1>4. ASSUME NEW p \in Pids, WriteDaemonState(p) PROVE Sound(files[p])'
    <2>1. PICK f \in Entries :
             /\ files' = [files EXCEPT ![p] = f]
             /\ f.pid = p
             /\ \/ f.start = proc[p].start /\ f.unit \in {"none"} \cup (IF Owned(p) THEN {proc[p].unit} ELSE {})
                \/ f.start = 0 /\ f.unit = "none"
      BY <1>4, WritesAnEntry
    <2>2. Keeps(p) /\ launches' = launches /\ launches \in Nat
      BY <1>1, <1>4, TypeParts, ConstantsOK DEF WriteDaemonState, Keeps, Process
    <2>3. proc[p].start \in 1..launches
      BY <1>4 DEF WriteDaemonState, Processes
    <2>4. Sound(f)'
      BY <2>1, <2>2, <2>3, OwnedByService DEF Sound, Keeps
    <2>5. files'[p] = f
      BY <1>1, <2>1 DEF StorageOK
    <2>. QED
      BY <2>4, <2>5
  <1>5. ASSUME NEW r \in Readers, NEW f \in scan'[r].todo \cup scan'[r].alive PROVE Sound(f)'
    <2>1. f \in Entries /\ Sound(f)
      <3>1. CASE Quiet
        <4>1. scan'[r] \in {scan[r], NoScan} /\ NoScan.todo = {} /\ NoScan.alive = {}
          BY <3>1 DEF Quiet, NoScan
        <4>2. f \in scan[r].todo \cup scan[r].alive
          BY <1>5, <4>1
        <4>. QED
          BY <1>1, <4>2 DEF AllSound, StorageOK, ScanRun
      <3>2. ASSUME NEW q \in Readers, Reads(q) PROVE f \in Entries /\ Sound(f)
        <4>1. CASE r = q
          <5>1. scan'[r].todo = {files[p] : p \in Pids} \ {NoFile} /\ scan'[r].alive = {}
            BY <1>1, <3>2, <4>1 DEF Reads, ReadAllDaemonStates, NoScan, StorageOK
          <5>. QED
            BY <1>1, <1>5, <5>1 DEF AllSound, StorageOK
        <4>2. CASE r # q
          <5>1. scan'[r] = scan[r]
            BY <1>1, <3>2, <4>2 DEF Reads, ReadAllDaemonStates, StorageOK
          <5>2. f \in scan[r].todo \cup scan[r].alive
            BY <1>5, <5>1
          <5>. QED
            BY <1>1, <5>2 DEF AllSound, StorageOK, ScanRun
        <4>. QED
          BY <4>1, <4>2
      <3>3. ASSUME NEW q \in Readers, Scans(q) PROVE f \in Entries /\ Sound(f)
        <4>1. scan'[r].todo \cup scan'[r].alive \subseteq scan[r].todo \cup scan[r].alive
          <5>1. ASSUME NEW g \in scan[q].todo, Probe(q, g)
                PROVE  scan'[r].todo \cup scan'[r].alive \subseteq scan[r].todo \cup scan[r].alive
            <6>1. \/ scan'[r] = scan[r]
                  \/ /\ r = q /\ scan'[r].todo = scan[r].todo \ {g}
                     /\ scan'[r].alive \in {scan[r].alive, scan[r].alive \cup {g}}
              BY <1>1, <5>1 DEF Probe, StorageOK, ScanRun
            <6>. QED
              BY <5>1, <6>1
          <5>2. CASE DeleteDaemonState(q)
            <6>1. scan'[r].todo = scan[r].todo /\ scan'[r].alive = scan[r].alive
              BY <1>1, <5>2 DEF DeleteDaemonState, StorageOK, ScanRun
            <6>. QED
              BY <6>1
          <5>. QED
            BY <3>3, <5>1, <5>2 DEF Scans, ScanStep
        <4>2. f \in scan[r].todo \cup scan[r].alive
          BY <1>5, <4>1
        <4>. QED
          BY <1>1, <4>2 DEF AllSound, StorageOK, ScanRun
      <3>4. ASSUME NEW q \in Pids, WriteDaemonState(q) PROVE f \in Entries /\ Sound(f)
        <4>1. scan'[r] \in {scan[r], NoScan}
          BY <1>1, <3>4 DEF WriteDaemonState, StorageOK
        <4>. QED
          BY <1>1, <1>5, <4>1 DEF NoScan, AllSound, StorageOK, ScanRun
      <3>. QED
        BY <3>1, <3>2, <3>3, <3>4 DEF StorageSteps
    <2>. QED
      BY <1>2, <2>1
  <1>6. ASSUME pc' = "plan", NEW f \in queue' PROVE Sound(f)'
    <2>1. CASE pc = "plan" /\ queue' \subseteq queue
      BY <1>2, <1>6, <2>1 DEF AllSound, Queues
    <2>2. CASE AliveDaemons
      BY <1>1, <1>2, <1>6, <2>2 DEF AliveDaemons, AllSound, StorageOK, ScanRun
    <2>. QED
      BY <1>6, <2>1, <2>2, PlanQueue
  <1>. QED
    BY <1>3, <1>4, <1>5, <1>6 DEF AllSound

-----------------------------------------------------------------------------
(* The command: where each daemon is that was in service when it began *)

\* The process was in service when the files were read.
WasFound(p) == proc[p].start \in found

Left == {"stop", "exit", "version", "fast", "full", "start", "port", "restart"}

FoundOK ==
    /\ found \subseteq 1..launches
    /\ pc = "idle" => found = {} /\ managed = {} /\ unmanaged = {}
    /\ pc = "scan" => managed = {} /\ unmanaged = {}
    /\ \A p \in Pids : WasFound(p) => proc[p].kind = "daemon"

\* While it scans, the file of each is on the way.
Scanning ==
    pc = "scan" =>
        /\ \A p \in Pids : WasFound(p) => \E f \in scan[Updater].todo \cup scan[Updater].alive :
                                             f.pid = p /\ f.start \in {0, proc[p].start}
        /\ \A f \in scan[Updater].alive : WasFound(f.pid) => f.start \in {0, proc[f.pid].start}

Listing ==
    /\ pc = "plan" =>
        /\ \A p \in Pids : WasFound(p) => \E f \in queue \cup unmanaged \cup {m.file : m \in managed} : f.pid = p
        /\ \A f \in queue : WasFound(f.pid) => f.start \in {0, proc[f.pid].start}
    /\ pc \in Left =>
        \A p \in Pids : WasFound(p) => \E f \in unmanaged \cup {m.file : m \in managed} : f.pid = p

\* What the plan says of those that still run is true.
ManagedOK ==
    \A m \in managed : m.unit \in Services /\ (WasFound(m.file.pid) => proc[m.file.pid].unit = m.unit)
UnmanagedOK ==
    faults = 0 => \A f \in unmanaged : WasFound(f.pid) => proc[f.pid].unit \notin Services

\* Those it stops are gone once it is done with them.
StoppedOK ==
    pc \in Left => \A f \in unmanaged : WasFound(f.pid) =>
        \/ pc = "stop" /\ f \in queue
        \/ pc = "exit" /\ (f \in queue \/ f = current)

RestartedOK ==
    /\ units \subseteq Services
    /\ pc \notin {"restart", "done"} => units = {}
    /\ pc = "restart" =>
        /\ \A m \in managed \ queue : ~WasFound(m.file.pid)
        /\ \A p \in Pids : proc[p].unit \in units => ~WasFound(p)

ResultOK ==
    result = "installed" => /\ pc \in {"start", "port", "restart", "done"}
                            /\ pc = "done" => \A p \in Pids : ~WasFound(p)

Command == FoundOK /\ Scanning /\ Listing /\ ManagedOK /\ UnmanagedOK /\ StoppedOK /\ RestartedOK /\ ResultOK

\* A process with the start time of one that was found is that one.
FoundStay == \A p \in Pids : proc'[p].start \in found => WasFound(p) /\ Keeps(p)

LEMMA FoundAreOld ==
  ASSUME TypeOK, FoundOK, Evolves
  PROVE  FoundStay
  <1>1. launches \in Nat
    BY TypeParts, ConstantsOK
  <1> SUFFICES ASSUME NEW p \in Pids, proc'[p].start \in found PROVE WasFound(p) /\ Keeps(p)
    BY DEF FoundStay
  <1>2. ~Begins(p)
    BY <1>1 DEF Begins, FoundOK
  <1>3. ~Ends(p)
    BY <1>1 DEF Ends, NoProcess, FoundOK
  <1>. QED
    BY <1>2, <1>3, KeptOrNot DEF Keeps, WasFound

\* Whatever the others do, and as long as the command does nothing.
LEMMA CommandStays ==
  ASSUME TypeOK, Queues, Command, Evolves, UNCHANGED updateVars, scan'[Updater] = scan[Updater],
         faults' \in {faults, faults + 1}
  PROVE  Command'
  <1>1. FoundStay /\ launches \in Nat /\ launches' \in {launches, launches + 1} /\ faults \in Nat
    BY FoundAreOld, TypeParts, ConstantsOK DEF Command, Evolves, StorageOK
  <1>2. \A p \in Pids : WasFound(p)' => WasFound(p) /\ Keeps(p)
    BY <1>1 DEF FoundStay, WasFound, updateVars
  <1>3. /\ \A f \in unmanaged : f.pid \in Pids
        /\ \A m \in managed : m.file.pid \in Pids
        /\ \A f \in scan[Updater].alive : f.pid \in Pids
        /\ pc = "plan" => \A f \in queue : f.pid \in Pids
    BY TypeParts DEF StorageOK, CommandOK, Readers, ScanRun, Entries, Plans, Queues
  <1>4. FoundOK'
    BY <1>1, <1>2 DEF Command, FoundOK, updateVars, Keeps
  <1>5. Scanning'
    BY <1>2, <1>3 DEF Command, Scanning, updateVars, Keeps
  <1>6. Listing'
    BY <1>2, <1>3 DEF Command, Listing, updateVars, Keeps
  <1>7. ManagedOK' /\ UnmanagedOK'
    BY <1>1, <1>2, <1>3 DEF Command, ManagedOK, UnmanagedOK, updateVars, Keeps
  <1>8. StoppedOK'
    BY <1>2, <1>3 DEF Command, StoppedOK, updateVars
  <1>9. RestartedOK' /\ ResultOK'
    BY <1>2, <1>3 DEF Command, RestartedOK, ResultOK, updateVars, Keeps
  <1>. QED
    BY <1>4, <1>5, <1>6, <1>7, <1>8, <1>9 DEF Command

LEMMA OthersStep ==
  ASSUME TypeOK, Queues, Processes, Command, Evolves, Daemons
  PROVE  Command'
  <1>1. StorageOK /\ proc \in [Pids -> Process] /\ Updater \in Readers /\ Updater \notin Pids /\ faults \in Nat
    BY TypeParts, ConstantsOK DEF Readers, StorageOK
  <1>2. \A p \in Pids : Gone(p) => scan'[Updater] = scan[Updater]
    BY <1>1 DEF Gone, StorageOK
  <1>3. \A p \in Pids : Signal(p) => scan'[Updater] = scan[Updater]
    BY <1>2 DEF Signal
  <1>4. CASE Environment
    <2>1. scan'[Updater] = scan[Updater] /\ UNCHANGED faults
      BY <1>2, <1>3, <1>4 DEF Environment, Launch, storage, OtherEnds, Kill, Interrupt
    <2>. QED
      BY <1>1, <2>1, CommandStays DEF Daemons
  <1>5. ASSUME NEW p \in Pids, DaemonStep(p) PROVE Command'
    <2>1. CASE PruneStaleStates(p)
      <3>1. scan'[Updater] = scan[Updater] /\ UNCHANGED faults
        BY <1>1, <1>2, <2>1 DEF PruneStaleStates, ReadAllDaemonStates, StorageOK
      <3>. QED
        BY <3>1, CommandStays DEF Daemons
    <2>2. CASE DaemonScans(p)
      <3>1. scan'[Updater] = scan[Updater] /\ faults' \in {faults, faults + 1}
        BY <1>1, <2>2 DEF DaemonScans, ScanStep, Probe, DeleteDaemonState, Fault, NoFault, StorageOK
      <3>. QED
        BY <3>1, CommandStays DEF Daemons
    <2>3. CASE WriteDaemonState(p)
      <3>1. scan'[Updater] = scan[Updater] /\ faults' \in {faults, faults + 1}
        BY <1>1, <2>3 DEF WriteDaemonState, DetectSelfSupervisor, Fault, NoFault, StorageOK
      <3>. QED
        BY <3>1, CommandStays DEF Daemons
    <2>4. CASE Serve(p) \/ Exit(p)
      <3>1. scan'[Updater] = scan[Updater] /\ UNCHANGED faults
        BY <1>2, <2>4 DEF Serve, Exit
      <3>. QED
        BY <3>1, CommandStays DEF Daemons
    <2>. QED
      BY <1>5, <2>1, <2>2, <2>3, <2>4 DEF DaemonStep
  <1>. QED
    BY <1>4, <1>5 DEF Daemons

\* Guarded is what makes the command find them all.
LEMMA BeginStep ==
  ASSUME TypeOK, Queues, Processes, Distinct, FileNames, Guarded, Command, Begin
  PROVE  Command'
  <1>1. StorageOK /\ CommandOK /\ proc \in [Pids -> Process] /\ Updater \in Readers /\ launches \in Nat
    BY TypeParts, ConstantsOK DEF Readers
  <1>2. /\ pc = "idle" /\ pc' = "scan" /\ managed = {} /\ unmanaged = {} /\ units = {} /\ result # "installed"
        /\ UNCHANGED <<proc, launches, files, faults, managed, unmanaged, units, result>>
    BY DEF Begin, processes, Goto, Command, FoundOK, RestartedOK, ResultOK
  <1>3. found' = {proc[p].start : p \in {q \in Pids \ reused : Recorded(q)}}
    BY DEF Begin
  <1>4. scan'[Updater].todo = {files[p] : p \in Pids} \ {NoFile} /\ scan'[Updater].alive = {}
    BY <1>1 DEF Begin, ReadAllDaemonStates, NoScan, StorageOK
  <1>5. ASSUME NEW p \in Pids, proc[p].start \in found'
        PROVE  p \notin reused /\ Recorded(p) /\ proc[p].kind = "daemon"
    <2>1. PICK q \in Pids \ reused : Recorded(q) /\ proc[q].start = proc[p].start
      BY <1>3, <1>5
    <2>2. Alive(q) /\ proc[q].kind = "daemon"
      BY <2>1 DEF Recorded, Processes, Alive
    <2>3. q = p
      BY <2>1, <2>2 DEF Distinct
    <2>. QED
      BY <2>1, <2>2, <2>3
  <1>6. FoundOK'
    <2>1. found' \subseteq 1..launches
      <3> SUFFICES ASSUME NEW p \in Pids, Recorded(p) PROVE proc[p].start \in 1..launches
        BY <1>3
      <3>. QED
        BY DEF Recorded, Processes
    <2>. QED
      BY <1>2, <1>5, <2>1 DEF FoundOK, WasFound
  <1>7. Scanning'
    <2> SUFFICES ASSUME NEW p \in Pids, proc[p].start \in found'
                 PROVE  \E f \in scan'[Updater].todo : f.pid = p /\ f.start \in {0, proc[p].start}
      BY <1>2, <1>4 DEF Scanning, WasFound
    <2>1. files[p].pid = p /\ files[p].start \in {0, proc[p].start}
      BY <1>5 DEF Guarded
    <2>2. files[p] # NoFile
      BY <2>1, ConstantsOK DEF NoFile
    <2>. QED
      BY <1>4, <2>1, <2>2
  <1>8. Listing' /\ ManagedOK' /\ UnmanagedOK' /\ StoppedOK' /\ RestartedOK' /\ ResultOK'
    BY <1>2 DEF Listing, ManagedOK, UnmanagedOK, StoppedOK, RestartedOK, ResultOK, Left
  <1>. QED
    BY <1>6, <1>7, <1>8 DEF Command

LEMMA ScanningStep ==
  ASSUME TypeOK, Queues, Processes, Command, Scan \/ AliveDaemons
  PROVE  Command'
  <1>1. StorageOK /\ CommandOK /\ proc \in [Pids -> Process] /\ Updater \in Readers /\ launches \in Nat /\ faults \in Nat
    BY TypeParts, ConstantsOK DEF Readers, StorageOK
  <1>2. CASE Scan
    <2>1. /\ pc = "scan" /\ ScanStep(Updater) /\ UNCHANGED <<proc, launches>> /\ UNCHANGED updateVars
          /\ faults' \in {faults, faults + 1}
      BY <1>1, <1>2 DEF Scan, processes, ScanStep, DeleteDaemonState, Fault, NoFault
    <2>2. FoundOK' /\ Listing' /\ ManagedOK' /\ StoppedOK' /\ RestartedOK' /\ ResultOK'
      BY <2>1 DEF Command, FoundOK, Listing, ManagedOK, StoppedOK, RestartedOK, ResultOK, updateVars, WasFound
    <2>3. UnmanagedOK'
      BY <1>1, <2>1 DEF Command, UnmanagedOK, updateVars, WasFound
    <2>4. Scanning'
      <3>1. CASE DeleteDaemonState(Updater)
        <4>1. scan'[Updater].todo = scan[Updater].todo /\ scan'[Updater].alive = scan[Updater].alive
          BY <1>1, <3>1 DEF DeleteDaemonState, StorageOK, ScanRun
        <4>. QED
          BY <2>1, <4>1 DEF Command, Scanning, updateVars, WasFound
      <3>2. ASSUME NEW g \in scan[Updater].todo, Probe(Updater, g) PROVE Scanning'
        <4>1. /\ scan'[Updater].todo = scan[Updater].todo \ {g}
              /\ scan'[Updater].alive = IF IsDaemonStateAlive(g) THEN scan[Updater].alive \cup {g}
                                                                 ELSE scan[Updater].alive
          BY <1>1, <3>2 DEF Probe, StorageOK, ScanRun
        <4>2. ASSUME NEW p \in Pids, WasFound(p), g.pid = p, g.start \in {0, proc[p].start}
              PROVE  IsDaemonStateAlive(g)
          BY <4>2 DEF Command, FoundOK, IsDaemonStateAlive, Alive
        <4>3. IsDaemonStateAlive(g) => g.start \in {0, proc[g.pid].start}
          BY DEF IsDaemonStateAlive
        <4>4. \A p \in Pids : WasFound(p) => \E f \in scan'[Updater].todo \cup scan'[Updater].alive :
                                                f.pid = p /\ f.start \in {0, proc[p].start}
          <5> SUFFICES ASSUME NEW p \in Pids, WasFound(p)
                       PROVE  \E f \in scan'[Updater].todo \cup scan'[Updater].alive :
                                 f.pid = p /\ f.start \in {0, proc[p].start}
            OBVIOUS
          <5>1. PICK f \in scan[Updater].todo \cup scan[Updater].alive : f.pid = p /\ f.start \in {0, proc[p].start}
            BY <2>1 DEF Command, Scanning
          <5>2. f \in scan'[Updater].todo \cup scan'[Updater].alive
            BY <4>1, <4>2, <5>1
          <5>. QED
            BY <5>1, <5>2
        <4>5. \A f \in scan'[Updater].alive : WasFound(f.pid) => f.start \in {0, proc[f.pid].start}
          BY <2>1, <4>1, <4>3 DEF Command, Scanning
        <4>. QED
          BY <2>1, <4>4, <4>5 DEF Scanning, updateVars, WasFound
      <3>. QED
        BY <2>1, <3>1, <3>2 DEF ScanStep
    <2>. QED
      BY <2>2, <2>3, <2>4 DEF Command
  <1>3. CASE AliveDaemons
    <2>1. /\ pc = "scan" /\ pc' = "plan" /\ scan[Updater].todo = {} /\ queue' = scan[Updater].alive
          /\ UNCHANGED <<proc, launches, faults, managed, unmanaged, units, found, result>>
      BY <1>3 DEF AliveDaemons, Goto, Scanned, processes
    <2>2. Listing'
      BY <2>1 DEF Command, Scanning, Listing, Left, WasFound
    <2>3. FoundOK' /\ Scanning' /\ ManagedOK' /\ UnmanagedOK' /\ StoppedOK' /\ RestartedOK' /\ ResultOK'
      BY <2>1 DEF Command, FoundOK, Scanning, ManagedOK, UnmanagedOK, StoppedOK, RestartedOK, ResultOK, Left, WasFound
    <2>. QED
      BY <2>2, <2>3 DEF Command
  <1>. QED
    BY <1>2, <1>3

\* A plan puts each daemon where it belongs, and never one that a unit owns among those to stop.
LEMMA PlanStep ==
  ASSUME TypeOK, Queues, Processes, Alone, AllSound, Command, NEW f \in queue, PlanDaemonRestarts(f)
  PROVE  Command'
  <1>1. StorageOK /\ CommandOK /\ proc \in [Pids -> Process] /\ launches \in Nat /\ faults \in Nat
    BY TypeParts, ConstantsOK DEF StorageOK
  <1>2. /\ pc = "plan" /\ f \in Entries /\ f.pid \in Pids /\ Sound(f) /\ queue' = queue \ {f}
        /\ UNCHANGED <<proc, launches, scan, pc, current, units, found, result>>
    BY DEF PlanDaemonRestarts, processes, storage, Queues, AllSound, Entries
  <1>3. WasFound(f.pid) => f.start \in {0, proc[f.pid].start}
    BY <1>2 DEF Command, Listing
  <1>4. FoundOK' /\ Scanning' /\ StoppedOK' /\ RestartedOK' /\ ResultOK'
    BY <1>2 DEF Command, FoundOK, Scanning, StoppedOK, RestartedOK, ResultOK, Left, WasFound
  <1>5. CASE /\ OwnerOf(f) # "none" /\ NoFault
             /\ managed' = managed \cup {[file |-> f, unit |-> OwnerOf(f)]} /\ UNCHANGED unmanaged
    <2>1. Listing'
      <3>1. [file |-> f, unit |-> OwnerOf(f)] \in managed' /\ [file |-> f, unit |-> OwnerOf(f)].file = f
        BY <1>5
      <3>2. managed \subseteq managed' /\ unmanaged' = unmanaged
        BY <1>5
      <3>3. queue \cup unmanaged \cup {m.file : m \in managed}
              \subseteq queue' \cup unmanaged' \cup {m.file : m \in managed'}
        BY <1>2, <3>1, <3>2
      <3>. QED
        BY <1>2, <3>3 DEF Command, Listing, Left, WasFound
    <2>2. OwnerOf(f) \in Services /\ (WasFound(f.pid) => proc[f.pid].unit = OwnerOf(f))
      <3>1. CASE f.unit # "none"
        <4>1. OwnerOf(f) = f.unit /\ f.unit \in Services /\ f.start # 0
          BY <1>2, <3>1 DEF OwnerOf, Sound
        <4>. QED
          BY <1>2, <1>3, <3>1, <4>1 DEF Sound
      <3>2. CASE f.unit = "none"
        <4>1. OwnerOf(f) = proc[f.pid].unit /\ Owned(f.pid)
          BY <1>5, <3>2 DEF OwnerOf
        <4>. QED
          BY <1>2, <4>1, OwnedByService
      <3>. QED
        BY <3>1, <3>2
    <2>3. ManagedOK'
      BY <1>2, <1>5, <2>2 DEF Command, ManagedOK, WasFound
    <2>4. UnmanagedOK'
      BY <1>2, <1>5 DEF Command, UnmanagedOK, NoFault, WasFound
    <2>. QED
      BY <1>4, <2>1, <2>3, <2>4 DEF Command
  <1>6. CASE /\ IF OwnerOf(f) = "none" THEN NoFault ELSE f.unit = "none" /\ Fault
             /\ unmanaged' = unmanaged \cup {f} /\ UNCHANGED managed
    <2>1. Listing'
      BY <1>2, <1>6 DEF Command, Listing, Left, WasFound
    <2>2. ManagedOK'
      BY <1>2, <1>6 DEF Command, ManagedOK, WasFound
    <2>3. UnmanagedOK'
      <3>1. OwnerOf(f) = "none" => proc[f.pid].unit \notin Services
        <4> SUFFICES ASSUME proc[f.pid].unit \in Services PROVE OwnerOf(f) # "none"
          OBVIOUS
        <4>. QED
          BY <1>2, ServiceOwns, ConstantsOK DEF OwnerOf
      <3>2. CASE OwnerOf(f) = "none"
        BY <1>2, <1>6, <3>1, <3>2 DEF Command, UnmanagedOK, NoFault, WasFound
      <3>3. CASE OwnerOf(f) # "none"
        BY <1>1, <1>6, <3>3 DEF UnmanagedOK, Fault
      <3>. QED
        BY <3>2, <3>3
    <2>. QED
      BY <1>4, <2>1, <2>2, <2>3 DEF Command
  <1>. QED
    BY <1>5, <1>6 DEF PlanDaemonRestarts

\* The plan is made; from here the processes that were found are accounted for one by one.
LEMMA StopStep ==
  ASSUME TypeOK, Queues, Processes, Command, Evolves, NEW f \in queue, StopUnmanaged(f)
  PROVE  Command'
  <1>1. StorageOK /\ CommandOK /\ launches \in Nat /\ launches' \in {launches, launches + 1}
    BY TypeParts, ConstantsOK DEF Evolves
  <1>2. /\ pc = "stop" /\ pc' \in {"stop", "exit"} /\ queue' = queue \ {f}
        /\ UNCHANGED <<faults, managed, unmanaged, units, found, result>>
    BY DEF StopUnmanaged, Goto
  <1>3. \A p \in Pids : WasFound(p)' => WasFound(p) /\ Keeps(p)
    BY <1>2, FoundAreOld DEF Command, FoundStay, WasFound
  <1>4. /\ \A g \in unmanaged : g.pid \in Pids
        /\ \A m \in managed : m.file.pid \in Pids
    BY <1>1 DEF CommandOK, Entries, Plans
  <1>5. FoundOK'
    BY <1>1, <1>2, <1>3 DEF Command, FoundOK, Keeps
  <1>6. Scanning' /\ Listing'
    BY <1>2, <1>3 DEF Command, Scanning, Listing, Left
  <1>7. ManagedOK' /\ UnmanagedOK'
    BY <1>2, <1>3, <1>4 DEF Command, ManagedOK, UnmanagedOK, Keeps
  <1>8. StoppedOK'
    <2>1. CASE Alive(f.pid)
      <3>1. pc' = "exit" /\ current' = f
        BY <2>1 DEF StopUnmanaged, Goto
      <3>. QED
        BY <1>2, <1>3, <1>4, <3>1 DEF Command, StoppedOK, Left
    <2>2. CASE ~Alive(f.pid)
      <3>1. f \in unmanaged /\ f.pid \in Pids
        BY <1>2, <1>4 DEF Queues
      <3>2. ~WasFound(f.pid)
        BY <2>2, <3>1 DEF Command, FoundOK, Alive
      <3>3. pc' = "stop"
        BY <1>2, <2>2 DEF StopUnmanaged
      <3>. QED
        BY <1>2, <1>3, <1>4, <3>1, <3>2, <3>3 DEF Command, StoppedOK, Left
    <2>. QED
      BY <2>1, <2>2
  <1>9. RestartedOK' /\ ResultOK'
    BY <1>2 DEF Command, RestartedOK, ResultOK
  <1>. QED
    BY <1>5, <1>6, <1>7, <1>8, <1>9 DEF Command

\* The steps that change no process.
LEMMA OwnStep ==
  ASSUME TypeOK, Queues, Processes, Command,
         \/ Planned \/ WaitForProcessExit \/ StopTimesOut \/ Stopped \/ FetchLatestVersionFails
         \/ AlreadyInstalled \/ ChooseInstall \/ FastInstallGlobal \/ InstallGlobal
         \/ WaitUntilUsed \/ Started \/ Restarted
  PROVE  Command'
  <1>1. StorageOK /\ CommandOK /\ launches \in Nat /\ faults \in Nat
    BY TypeParts, ConstantsOK DEF StorageOK
  <1>2. /\ UNCHANGED <<proc, launches, scan, managed, unmanaged, units, found>>
        /\ faults' \in {faults, faults + 1}
        /\ pc \in {"plan"} \cup Left /\ pc' \in Left \cup {"done"}
    BY DEF Planned, WaitForProcessExit, StopTimesOut, Stopped, FetchLatestVersionFails, AlreadyInstalled, ChooseInstall,
           FastInstallGlobal, InstallGlobal, Installed, WaitUntilUsed, Started, Restarted, Goto, Return, Left,
           Fault, NoFault, daemonVars, processes, storage
  <1>3. FoundOK' /\ Scanning' /\ ManagedOK' /\ UnmanagedOK'
    BY <1>1, <1>2 DEF Command, FoundOK, Scanning, ManagedOK, UnmanagedOK, WasFound, Left
  <1>4. Listing'
    <2>1. CASE pc = "plan"
      <3>1. pc' = "done" \/ queue = {}
        BY <2>1 DEF Planned, WaitForProcessExit, StopTimesOut, Stopped, FetchLatestVersionFails, AlreadyInstalled, ChooseInstall,
           FastInstallGlobal, InstallGlobal, Installed, WaitUntilUsed, Started, Restarted, Goto, Return
      <3>. QED
        BY <1>2, <2>1, <3>1 DEF Command, Listing, WasFound, Left
    <2>2. CASE pc # "plan"
      BY <1>2, <2>2 DEF Command, Listing, WasFound, Left
    <2>. QED
      BY <2>1, <2>2
  <1>5. \A f \in unmanaged : f.pid \in Pids /\ proc[f.pid].kind = "none" => ~WasFound(f.pid)
    BY DEF Command, FoundOK
  <1>6. StoppedOK'
    <2>1. CASE Planned
      BY <1>2, <2>1 DEF Planned, Return, Goto, StoppedOK, Left, WasFound
    <2>2. CASE WaitForProcessExit
      <3>1. pc = "exit" /\ pc' = "stop" /\ ~Alive(current.pid) /\ current \in unmanaged /\ queue' = queue
        BY <2>2 DEF WaitForProcessExit, HasExited, Goto, Queues
      <3>2. ~WasFound(current.pid)
        BY <1>1, <1>5, <3>1 DEF Alive, CommandOK, Entries
      <3>. QED
        BY <1>2, <3>1, <3>2 DEF Command, StoppedOK, Left, WasFound
    <2>3. CASE StopTimesOut \/ Restarted
      BY <2>3 DEF StopTimesOut, Restarted, Return, Goto, StoppedOK, Left
    <2>4. CASE Stopped
      BY <1>2, <2>4 DEF Stopped, Goto, Command, StoppedOK, Left, WasFound
    <2>5. CASE pc \in {"version", "fast", "full", "start", "port"}
      BY <1>2, <2>5 DEF Command, StoppedOK, Left, WasFound
    <2>. QED
      BY <2>1, <2>2, <2>3, <2>4, <2>5
      DEF FetchLatestVersionFails, AlreadyInstalled, ChooseInstall, FastInstallGlobal, InstallGlobal, Installed,
          WaitUntilUsed, Started, Goto, Return
  <1>7. RestartedOK' /\ ResultOK'
    <2>1. CASE Started
      BY <1>2, <2>1 DEF Started, Goto, Command, RestartedOK, ResultOK
    <2>2. CASE Restarted
      <3>1. pc = "restart" /\ pc' = "done" /\ queue = {}
        BY <2>2 DEF Restarted, Goto
      <3>2. \A p \in Pids : ~WasFound(p)
        <4> SUFFICES ASSUME NEW p \in Pids, WasFound(p) PROVE FALSE
          OBVIOUS
        <4>1. PICK f \in unmanaged \cup {m.file : m \in managed} : f.pid = p
          BY <3>1 DEF Command, Listing, Left
        <4>2. f \notin unmanaged
          BY <3>1, <4>1 DEF Command, StoppedOK, Left
        <4>. QED
          BY <3>1, <4>1, <4>2 DEF Command, RestartedOK
      <3>. QED
        BY <1>2, <3>1, <3>2 DEF Command, RestartedOK, ResultOK, WasFound
    <2>3. CASE ~Started /\ ~Restarted
      <3>1. /\ pc' \in {"done"} \cup (Left \ {"restart"}) /\ pc # "restart"
            /\ result' = "installed" => pc' = "start" \/ (result = "installed" /\ pc' # "done" /\ pc \in {"start", "port"} /\ pc' \in {"start", "port"})
        BY <2>3 DEF Planned, WaitForProcessExit, StopTimesOut, Stopped, FetchLatestVersionFails, AlreadyInstalled,
                    ChooseInstall, FastInstallGlobal, InstallGlobal, Installed, WaitUntilUsed, Goto, Return, Left,
                    Command, ResultOK
      <3>. QED
        BY <1>2, <3>1 DEF Command, RestartedOK, ResultOK, Left
    <2>. QED
      BY <2>1, <2>2, <2>3
  <1>. QED
    BY <1>3, <1>4, <1>6, <1>7 DEF Command

LEMMA StartStep ==
  ASSUME TypeOK, Queues, Processes, Command, Evolves, NEW f \in queue, StartUnmanaged(f)
  PROVE  Command'
  <1>1. StorageOK /\ CommandOK /\ launches \in Nat /\ launches' \in {launches, launches + 1} /\ faults \in Nat
    BY TypeParts, ConstantsOK DEF Evolves, StorageOK
  <1>2. /\ pc = "start" /\ pc' \in {"start", "port"} /\ faults' \in {faults, faults + 1}
        /\ UNCHANGED <<scan, managed, unmanaged, units, found, result>>
    BY DEF StartUnmanaged, Goto, storage, Fault, NoFault
  <1>3. \A p \in Pids : WasFound(p)' => WasFound(p) /\ Keeps(p)
    BY <1>2, FoundAreOld DEF Command, FoundStay, WasFound
  <1>4. /\ \A g \in unmanaged : g.pid \in Pids
        /\ \A m \in managed : m.file.pid \in Pids
    BY <1>1 DEF CommandOK, Entries, Plans
  <1>5. FoundOK' /\ Scanning' /\ Listing'
    BY <1>1, <1>2, <1>3 DEF Command, FoundOK, Scanning, Listing, Left, Keeps
  <1>6. ManagedOK' /\ UnmanagedOK'
    BY <1>1, <1>2, <1>3, <1>4 DEF Command, ManagedOK, UnmanagedOK, Keeps
  <1>7. StoppedOK'
    BY <1>2, <1>3, <1>4 DEF Command, StoppedOK, Left
  <1>8. RestartedOK' /\ ResultOK'
    BY <1>2 DEF Command, RestartedOK, ResultOK
  <1>. QED
    BY <1>5, <1>6, <1>7, <1>8 DEF Command

\* Restarting a unit ends the daemons found in it.
LEMMA RestartStep ==
  ASSUME TypeOK, Queues, Processes, Command, Evolves, NEW m \in queue, RestartManaged(m)
  PROVE  Command'
  <1>1. StorageOK /\ CommandOK /\ launches \in Nat /\ launches' \in {launches, launches + 1} /\ faults \in Nat
    BY TypeParts, ConstantsOK DEF Evolves, StorageOK
  <1>2. /\ pc = "restart" /\ pc' \in {"restart", "done"} /\ queue' = queue \ {m} /\ m \in managed
        /\ faults' \in {faults, faults + 1} /\ UNCHANGED <<managed, unmanaged, found>>
    BY <1>1 DEF RestartManaged, Return, Goto, Fault, NoFault, Queues
  <1>3. \A p \in Pids : WasFound(p)' => WasFound(p) /\ Keeps(p)
    BY <1>2, FoundAreOld DEF Command, FoundStay, WasFound
  <1>4. /\ \A g \in unmanaged : g.pid \in Pids
        /\ \A n \in managed : n.file.pid \in Pids
    BY <1>1 DEF CommandOK, Entries, Plans
  <1>5. FoundOK' /\ Scanning' /\ Listing'
    BY <1>1, <1>2, <1>3 DEF Command, FoundOK, Scanning, Listing, Left, Keeps
  <1>6. ManagedOK' /\ UnmanagedOK'
    BY <1>1, <1>2, <1>3, <1>4 DEF Command, ManagedOK, UnmanagedOK, Keeps
  <1>7. StoppedOK'
    BY <1>2, <1>3, <1>4 DEF Command, StoppedOK, Left
  <1>8. m.unit \in Services /\ (WasFound(m.file.pid) => proc[m.file.pid].unit = m.unit)
    BY <1>2 DEF Command, ManagedOK
  <1>9. CASE m.unit \in units
    <2>1. ~WasFound(m.file.pid)
      BY <1>2, <1>4, <1>8, <1>9 DEF Command, RestartedOK
    <2>2. UNCHANGED <<proc, pc, units, result>>
      BY <1>9 DEF RestartManaged
    <2>3. RestartedOK' /\ ResultOK'
      BY <1>2, <2>1, <2>2 DEF Command, RestartedOK, ResultOK, WasFound
    <2>. QED
      BY <1>5, <1>6, <1>7, <2>3 DEF Command
  <1>10. CASE SystemctlRestart(m.unit) /\ units' = units \cup {m.unit} /\ UNCHANGED <<pc, result>>
    <2>1. \A p \in Pids : proc'[p] = IF proc[p].unit = m.unit THEN NoProcess ELSE proc[p]
      BY <1>10 DEF SystemctlRestart
    <2>2. \A p \in Pids : WasFound(p)' => proc[p].unit # m.unit
      BY <1>1, <1>2, <2>1 DEF WasFound, Command, FoundOK, NoProcess
    <2>3. ~WasFound(m.file.pid)'
      BY <1>2, <1>3, <1>4, <1>8, <2>2
    <2>4. RestartedOK'
      BY <1>2, <1>3, <1>4, <1>8, <1>10, <2>2, <2>3 DEF Command, RestartedOK, Keeps
    <2>5. ResultOK'
      BY <1>2, <1>10 DEF Command, ResultOK
    <2>. QED
      BY <1>5, <1>6, <1>7, <2>4, <2>5 DEF Command
  <1>11. CASE Return("restart", "error") /\ UNCHANGED units
    BY <1>5, <1>6, <1>7, <1>11 DEF Return, Goto, Command, RestartedOK, ResultOK
  <1>. QED
    BY <1>9, <1>10, <1>11 DEF RestartManaged

-----------------------------------------------------------------------------
(* The theorems *)

\* The files tell of every daemon in service, and the command has each of those it found somewhere.
IInv ==
    /\ TypeOK /\ Queues /\ Processes
    /\ FileNames /\ Guarded
    /\ Distinct /\ Alone /\ AllSound
    /\ Command

\* Every step of the daemons, of their world and of the command keeps it.
THEOREM Invariant == Spec => []IInv
  <1>1. Init => IInv
    <2> SUFFICES ASSUME Init PROVE IInv
      OBVIOUS
    <2>1. FileNames /\ Guarded /\ Distinct /\ Alone /\ AllSound
      BY ConstantsOK DEF Init, DaemonInit, NoProcess, NoScan, FileNames, Guarded, Recorded, Distinct, Alive, Alone, AllSound
    <2>2. Command
      BY DEF Init, DaemonInit, NoProcess, Command, FoundOK, Scanning, Listing, ManagedOK, UnmanagedOK, StoppedOK,
             RestartedOK, ResultOK, Left, WasFound
    <2>. QED
      BY <2>1, <2>2, TypeInit DEF IInv
  <1>2. IInv /\ [Next]_vars => IInv'
    <2> SUFFICES ASSUME IInv, [Next]_vars PROVE IInv'
      OBVIOUS
    <2> USE DEF IInv
    <2>1. TypeOK' /\ Queues' /\ Processes' /\ Evolves /\ StorageSteps
      BY TypeStep, NextStorage
    <2>2. FileNames' /\ Guarded' /\ Distinct' /\ Alone' /\ AllSound'
      BY <2>1, FilesStep, UnitsStep, SoundStep
    <2>3. Command'
      <3>1. CASE UNCHANGED vars
        BY <2>1, <3>1, CommandStays DEF vars, daemonVars, storage
      <3>2. CASE Daemons
        BY <2>1, <3>2, OthersStep
      <3>3. CASE Install
        BY <2>1, <3>3, BeginStep, ScanningStep, PlanStep, StopStep, OwnStep, StartStep, RestartStep DEF Install
      <3>. QED
        BY <3>1, <3>2, <3>3 DEF Next
    <2>. QED
      BY <2>1, <2>2, <2>3
  <1>. QED
    BY <1>1, <1>2, PTL DEF Spec

\* The variables keep their types (UpdateInstall, DaemonStates).
THEOREM TypeCorrect == Spec => []TypeOK
  BY Invariant, PTL DEF IInv

\* A daemon in service has its file: the readers that prune at the same time delete only files of
\* processes that are gone (getAliveDaemonStates, deleteDaemonState).
THEOREM FilesAreKept == Spec => []OwnFileKept
  <1>1. IInv => OwnFileKept
    BY DEF IInv, Guarded, OwnFileKept
  <1>. QED
    BY <1>1, Invariant, PTL

\* A successful update leaves none of the daemons running that were in service when it began
\* (planDaemonRestarts, stopUnmanagedDaemons, restartManagedDaemons).
THEOREM NoneIsLeftBehind == Spec => []NobodyIsLeftBehind
  <1>1. IInv => NobodyIsLeftBehind
    BY DEF IInv, Command, ResultOK, WasFound, NobodyIsLeftBehind
  <1>. QED
    BY <1>1, Invariant, PTL

\* The command starts a daemon only when those it stopped are gone (waitForProcessExit).
THEOREM NoCollision == Spec => RestartsDoNotCollide
  <1>1. IInv /\ [Next]_vars => [pc = "start" /\ pc' = "port" => \A f \in unmanaged : proc[f.pid].start \notin found]_vars
    BY DEF IInv, Command, StoppedOK, Left, WasFound
  <1>. QED
    BY <1>1, Invariant, PTL DEF Spec, RestartsDoNotCollide

\* It signals no daemon that a supervisor owns, and restarts no unit but those that run a daemon as their
\* main process or its child (resolveDaemonSupervisor).
THEOREM SupervisorsDecide == Spec => SupervisedIsLeft
  <1>1. IInv /\ IInv' /\ [Next]_vars =>
          [ /\ units' \subseteq Services
            /\ \A p \in Pids : faults = 0 /\ pc = "stop" /\ pc' = "exit" /\ proc[p].start \in found /\ Owned(p)
                  => current'.pid # p ]_vars
    <2> SUFFICES ASSUME IInv, IInv', [Next]_vars
                 PROVE  /\ units' \subseteq Services
                        /\ \A p \in Pids : faults = 0 /\ pc = "stop" /\ pc' = "exit" /\ proc[p].start \in found /\ Owned(p)
                              => current'.pid # p
      OBVIOUS
    <2>1. units' \subseteq Services
      BY DEF IInv, Command, RestartedOK
    <2>2. ASSUME NEW p \in Pids, faults = 0, pc = "stop", pc' = "exit", proc[p].start \in found, Owned(p),
                 current'.pid = p
          PROVE  FALSE
      <3>1. current' \in unmanaged' /\ unmanaged' = unmanaged
        <4>1. Install
          BY <2>2 DEF Next, Daemons, updateVars, vars
        <4>2. UNCHANGED unmanaged
          BY <2>2, <4>1 DEF Install, Begin, Scan, AliveDaemons, PlanDaemonRestarts, Planned, StopUnmanaged,
             WaitForProcessExit, StopTimesOut, Stopped, FetchLatestVersionFails, AlreadyInstalled, ChooseInstall,
             FastInstallGlobal, InstallGlobal, Installed, StartUnmanaged, WaitUntilUsed, Started, RestartManaged,
             Restarted, Goto, Return
        <4>. QED
          BY <2>2, <4>2 DEF IInv, Queues
      <3>2. proc[p].unit \in Services
        BY <2>2, OwnedByService DEF IInv
      <3>. QED
        BY <2>2, <3>1, <3>2 DEF IInv, Command, UnmanagedOK, WasFound
    <2>. QED
      BY <2>1, <2>2
  <1>. QED
    BY <1>1, Invariant, PTL DEF Spec, SupervisedIsLeft

=============================================================================

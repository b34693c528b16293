---------------------------- MODULE CaddyRuntime ----------------------------
(***************************************************************************)
(* The daemon's ReachabilityRuntime around its Caddy and the router's port *)
(* forwards: start(), the timers, stop() and the exit handler              *)
(* (src/reachability/runtime.ts), with what caddy.ts, nat.ts and the       *)
(* commands setup and disable do to the same Caddy from other processes.   *)
(*                                                                         *)
(* file is what Caddy is to serve: a version of the Caddyfile, or 0 while  *)
(* reachability is disabled.  What the checks decide is in                 *)
(* ReachabilityFiles; of a check only the change of the Caddyfile around   *)
(* its wait is kept here.                                                  *)
(***************************************************************************)
EXTENDS Naturals, FiniteSets, Sequences

CONSTANTS
    Procs,        \* Caddy processes
    None,
    MaxEvents     \* bound on changes of the Caddyfile, crashes, failing requests and
                  \* processes that hang, together

ASSUME ConstantsOK == None \notin Procs /\ MaxEvents \in Nat

VARIABLES
    file,      \* what is to be served
    caddy,     \* the Caddy processes
    rt,        \* caddyRunning, caddyAdopted, expectingCaddyExit, loadedCaddyfile, caddyChild,
               \* and the child stop() waits for
    queue,     \* watchQueue: who asked for the runs of watchCaddyOnce that are not done
    watch,     \* the run in progress
    phase,     \* the runtime: before, in and after start() and stop()
    check,     \* handleIpChange of the check in flight
    lease,     \* refreshLeases: the one of start(), and the one of the interval
    router,    \* whether the runtime knows a router
    forward,   \* whether the router forwards our ports
    cli,       \* a setup or disable in another process
    late,      \* observed: a refresh of the interval was in flight when stop() began
    crossed,   \* observed: a Caddy was started while one of this daemon was exiting, or a stop
               \* request for one that was starting went to another
    changes, faults

world == <<file, cli, changes>>
nat == <<lease, router, forward>>
observed == <<late, crossed>>
vars == <<world, caddy, rt, queue, watch, phase, check, nat, observed, faults>>

Refreshes == {"first", "interval"}
NoProc == [state |-> "none", owner |-> "none", conf |-> 0]
IdleWatch == [pc |-> "idle", file |-> 0]
NoChild == [running |-> FALSE, adopted |-> FALSE, expecting |-> FALSE, loaded |-> 0, child |-> None, awaited |-> None]

Versions == 1..(MaxEvents + 1)
NewVersion == changes + 2
Stopping == phase \in {"check", "queue", "leases", "release", "caddy", "wait", "stopped", "exited"}
Running == phase # "exited"
Live(p) == caddy[p].state \in {"starting", "up", "stopping", "hung"}
Up(p) == caddy[p].state = "up"
HasFree == \E p \in Procs : caddy[p] = NoProc
Free == CHOOSE p \in Procs : caddy[p] = NoProc
IsUp == \E p \in Procs : Up(p)  \* isOurCaddyRunning

TypeOK ==
    /\ file \in Versions \cup {0}
    /\ caddy \in [Procs -> [state : {"none", "starting", "up", "stopping", "hung", "exited"},
                            owner : {"none", "daemon", "earlier", "setup"}, conf : Versions \cup {0}]]
    /\ rt \in [running : BOOLEAN, adopted : BOOLEAN, expecting : BOOLEAN,
               loaded : Versions \cup {0}, child : Procs \cup {None}, awaited : Procs \cup {None}]
    /\ rt.running => rt.adopted \/ rt.child # None
    /\ queue \in Seq({"start", "tick", "check"}) /\ Len(queue) <= 3
    /\ watch \in [pc : {"idle", "halt", "stillUp", "probe", "start", "reload"}, file : Versions \cup {0}]
    /\ phase \in {"starting", "running", "check", "queue", "leases", "release", "caddy", "wait",
                  "stopped", "exited"}
    /\ check \in [pc : {"idle", "watched", "issue", "restored"}, previous : Versions \cup {0}]
    /\ lease \in [Refreshes -> {"idle", "asks"}]
    /\ router \in BOOLEAN /\ forward \in BOOLEAN
    /\ cli \in {"idle", "grace", "own"}
    /\ late \in BOOLEAN /\ crossed \in BOOLEAN
    /\ changes \in 0..MaxEvents /\ faults \in 0..MaxEvents

\* A Caddy may be left from a daemon that was killed.
Init ==
    /\ file \in {0, 1}
    /\ \E left \in {NoProc, [state |-> "up", owner |-> "earlier", conf |-> 0]} :
          caddy = [q \in Procs |-> IF q = CHOOSE p \in Procs : TRUE THEN left ELSE NoProc]
    /\ rt = NoChild /\ queue = <<"start">> /\ watch = IdleWatch
    /\ phase = "starting" /\ check = [pc |-> "idle", previous |-> 0]
    /\ lease = [l \in Refreshes |-> "idle"] /\ router = FALSE /\ forward = FALSE
    /\ cli = "idle" /\ late = FALSE /\ crossed = FALSE /\ changes = 0 /\ faults = 0

Room == changes + faults < MaxEvents

Fault == Room /\ faults' = faults + 1

-----------------------------------------------------------------------------
(* The Caddy processes *)

\* POST /stop on the admin port, which only a Caddy that is up answers.
StopRequest == caddy' = [p \in Procs |-> IF Up(p) THEN [caddy[p] EXCEPT !.state = "stopping"] ELSE caddy[p]]

\* kill() sends SIGTERM.
Terminate(p) ==
    caddy' = [q \in Procs |-> IF q = p /\ caddy[q].state \in {"starting", "up"}
                             THEN [caddy[q] EXCEPT !.state = "stopping"] ELSE caddy[q]]

\* It reads the Caddyfile, and cannot start while another holds the ports.
CaddyStarts(p) ==
    /\ caddy[p].state = "starting"
    /\ caddy' = [caddy EXCEPT ![p] = IF IsUp THEN [@ EXCEPT !.state = "exited"]
                                     ELSE [@ EXCEPT !.state = "up", !.conf = file]]
    /\ UNCHANGED <<world, rt, queue, watch, phase, check, nat, observed, faults>>

CaddyExits(p) ==
    /\ caddy[p].state = "stopping"
    /\ caddy' = [caddy EXCEPT ![p].state = "exited"]
    /\ UNCHANGED <<world, rt, queue, watch, phase, check, nat, observed, faults>>

CaddyCrashes(p) ==
    /\ caddy[p].state \in {"starting", "up"} /\ Fault
    /\ caddy' = [caddy EXCEPT ![p].state = "exited"]
    /\ UNCHANGED <<world, rt, queue, watch, phase, check, nat, observed>>

\* Told to stop, it never does.
CaddyHangs(p) ==
    /\ caddy[p].state = "stopping" /\ Fault
    /\ caddy' = [caddy EXCEPT ![p].state = "hung"]
    /\ UNCHANGED <<world, rt, queue, watch, phase, check, nat, observed>>

\* The exit listeners of startCaddy and watchCaddyOnce do not ask which child it was.
OnExit == rt' = [rt EXCEPT !.child = None, !.expecting = FALSE, !.running = FALSE, !.loaded = 0]

ExitEvent(p) ==
    /\ caddy[p].state = "exited"
    /\ caddy' = [caddy EXCEPT ![p] = NoProc]
    /\ IF caddy[p].owner = "daemon" THEN OnExit ELSE UNCHANGED rt
    /\ UNCHANGED <<world, queue, watch, phase, check, nat, observed, faults>>

CaddyStep == \E p \in Procs : CaddyStarts(p) \/ CaddyExits(p) \/ CaddyCrashes(p) \/ CaddyHangs(p) \/ ExitEvent(p)

-----------------------------------------------------------------------------
(* watchCaddyOnce, one run at a time *)

Goto(pc) == watch' = [watch EXCEPT !.pc = pc] /\ UNCHANGED <<queue, check, phase, nat>>

\* refreshLeases: the router is asked for the forwards (that none answers is left out); once disabled they are given
\* back and the router is forgotten.
RefreshLeases(l) ==
    IF file = 0 THEN forward' = (forward /\ ~router) /\ router' = FALSE /\ UNCHANGED lease
    ELSE router' = TRUE /\ lease' = [lease EXCEPT ![l] = "asks"] /\ UNCHANGED forward

\* The run ends and whoever asked for it goes on: a check only if it did not fail.
End(ok) ==
    /\ watch' = IdleWatch /\ queue' = Tail(queue)
    /\ check' = IF Head(queue) # "check" THEN check
                ELSE [check EXCEPT !.pc = IF ok /\ @ = "watched" THEN "issue" ELSE "idle"]
    /\ IF Head(queue) = "start" /\ phase = "starting"
       THEN phase' = "running" /\ RefreshLeases("first")
       ELSE UNCHANGED <<phase, nat>>

Done == End(TRUE)

\* Reads the config and the Caddyfile, and compares with what this process knows.
Reload == rt.running /\ ~rt.adopted /\ file # rt.loaded

Watch ==
    /\ watch.pc = "idle" /\ queue # <<>>
    /\ IF Stopping \/ (file = 0 /\ ~rt.running) \/ (file # 0 /\ rt.running /\ ~rt.adopted /\ ~Reload)
       THEN Done
       ELSE /\ watch' = [pc |-> IF file = 0 THEN "halt" ELSE IF rt.adopted THEN "stillUp"
                                ELSE IF rt.running THEN "reload" ELSE "probe", file |-> file]
            /\ UNCHANGED <<queue, check, phase, nat>>
    /\ UNCHANGED <<world, caddy, rt, observed, faults>>

\* Mutant: an exit is expected of an adopted Caddy as well.
ExpectAlways == TRUE

\* An adopted Caddy is no child: no exit of it would ever clear the expectation.
ExpectExit == ~rt.adopted

\* caddy.stop: through the admin port, else with a signal.
StopOwn ==
    \/ IsUp /\ StopRequest /\ UNCHANGED faults
    \/ ~IsUp /\ Terminate(rt.child) /\ UNCHANGED faults
    \/ IsUp /\ Terminate(rt.child) /\ Fault

Crosses == IsUp /\ rt.child # None /\ ~Up(rt.child)

\* The expectation is set before the request, the rest after it; an exit between them changes
\* nothing else.
Halt ==
    /\ watch.pc = "halt" /\ rt.running
    /\ StopOwn
    /\ rt' = [rt EXCEPT !.expecting = ExpectExit, !.running = FALSE, !.adopted = FALSE, !.loaded = 0]
    /\ crossed' = (crossed \/ Crosses)
    /\ Done
    /\ UNCHANGED <<world, late>>

\* It exited meanwhile.
HaltMissed ==
    /\ watch.pc = "halt" /\ ~rt.running
    /\ Done
    /\ UNCHANGED <<world, caddy, rt, observed, faults>>

StillUp ==
    /\ watch.pc = "stillUp"
    /\ IF IsUp THEN Goto("reload") /\ UNCHANGED rt
       ELSE rt' = [rt EXCEPT !.adopted = FALSE, !.running = FALSE] /\ Goto("probe")
    /\ UNCHANGED <<world, caddy, observed, faults>>

\* Mutant: an adopted Caddy is taken to serve the Caddyfile.
AdoptAsLoaded == rt' = [rt EXCEPT !.running = TRUE, !.adopted = TRUE, !.loaded = watch.file]

\* What an adopted Caddy serves is not known.
Adopt == rt' = [rt EXCEPT !.running = TRUE, !.adopted = TRUE, !.loaded = 0]

Probe ==
    /\ watch.pc = "probe"
    /\ IF IsUp THEN Adopt /\ Goto("reload") ELSE Goto("start") /\ UNCHANGED rt
    /\ UNCHANGED <<world, caddy, observed, faults>>

\* The binary may have to be downloaded first, which stop() aborts.
Start ==
    LET p == Free IN
    /\ watch.pc = "start" /\ HasFree
    /\ caddy' = [caddy EXCEPT ![p] = [state |-> "starting", owner |-> "daemon", conf |-> 0]]
    /\ rt' = [rt EXCEPT !.running = TRUE, !.loaded = watch.file, !.child = p]
    /\ crossed' = (crossed \/ \E q \in Procs : caddy[q].owner = "daemon" /\ caddy[q].state # "none")
    /\ Done
    /\ UNCHANGED <<world, late, faults>>

StartFails ==
    /\ watch.pc = "start"
    /\ IF Stopping THEN UNCHANGED faults ELSE Fault
    /\ End(FALSE)
    /\ UNCHANGED <<world, caddy, rt, observed>>

LoadFile(v) == [p \in Procs |-> IF Up(p) THEN [caddy[p] EXCEPT !.conf = v] ELSE caddy[p]]

\* Fails also while the Caddy is still starting.
ReloadCaddy ==
    /\ watch.pc = "reload"
    /\ IF watch.file = rt.loaded THEN Done /\ UNCHANGED <<caddy, rt, faults>>
       ELSE \/ IsUp /\ Done /\ UNCHANGED faults
               /\ caddy' = LoadFile(watch.file) /\ rt' = [rt EXCEPT !.loaded = watch.file]
            \/ End(FALSE) /\ UNCHANGED <<caddy, rt>> /\ IF IsUp THEN Fault ELSE UNCHANGED faults
    /\ UNCHANGED <<world, observed>>

WatchStep ==
    \/ Watch \/ Halt \/ HaltMissed \/ StillUp \/ Probe \/ Start \/ StartFails \/ ReloadCaddy

-----------------------------------------------------------------------------
(* The timers, the checks and the refreshes of the leases *)

\* Every five seconds; the ticks that queue up behind a slow run are one here.
Tick ==
    /\ phase = "running" /\ \A i \in DOMAIN queue : queue[i] # "tick"
    /\ queue' = Append(queue, "tick")
    /\ UNCHANGED <<world, caddy, rt, watch, phase, check, nat, observed, faults>>

\* handleIpChange puts a candidate in place and has Caddy load it.
CheckChanges ==
    /\ phase = "running" /\ check.pc = "idle" /\ file # 0 /\ Room
    /\ file' = NewVersion /\ changes' = changes + 1
    /\ check' = [pc |-> "watched", previous |-> file] /\ queue' = Append(queue, "check")
    /\ UNCHANGED <<caddy, rt, watch, phase, nat, cli, observed, faults>>

\* Certificates came, or none and the previous Caddyfile comes back, or stop() ended the wait.
CheckWaited ==
    /\ check.pc = "issue"
    /\ \/ ~Stopping /\ check' = [check EXCEPT !.pc = "idle"] /\ UNCHANGED <<file, queue>>
       \/ /\ file' = IF file = 0 THEN 0 ELSE check.previous
          /\ IF Stopping THEN check' = [check EXCEPT !.pc = "idle"] /\ UNCHANGED queue
             ELSE check' = [check EXCEPT !.pc = "restored"] /\ queue' = Append(queue, "check")
    /\ UNCHANGED <<caddy, rt, watch, phase, nat, cli, changes, observed, faults>>

\* Every 20 minutes.
RefreshDue ==
    /\ phase = "running" /\ \A l \in Refreshes : lease[l] = "idle"
    /\ RefreshLeases("interval")
    /\ UNCHANGED <<world, caddy, rt, queue, watch, phase, check, observed, faults>>

MapPorts(l) ==
    /\ lease[l] = "asks"
    /\ forward' = TRUE /\ lease' = [lease EXCEPT ![l] = "idle"]
    /\ UNCHANGED <<world, caddy, rt, queue, watch, phase, check, router, observed, faults>>

LeaseStep == RefreshDue \/ \E l \in Refreshes : MapPorts(l)

-----------------------------------------------------------------------------
(* stop() and the exit of the process *)

StopGoto(next) == phase' = next /\ UNCHANGED <<world, caddy, rt, queue, watch, check, nat, observed, faults>>

StopBegins ==
    /\ phase \in {"starting", "running"} /\ phase' = "check"
    /\ late' = (lease["interval"] # "idle")
    /\ UNCHANGED <<world, caddy, rt, queue, watch, check, nat, crossed, faults>>

\* Mutant: the first refresh is not waited for.
NotSettled == TRUE

\* The first refresh, which start() began.
LeasesSettled == lease["first"] = "idle"

\* The check in flight, the runs of watchCaddyOnce and the first refresh are waited for, in
\* this order.
StopWaits ==
    \/ phase = "check" /\ check.pc = "idle" /\ StopGoto("queue")
    \/ phase = "queue" /\ queue = <<>> /\ StopGoto("leases")
    \/ phase = "leases" /\ LeasesSettled /\ StopGoto("release")

Release ==
    /\ phase = "release" /\ phase' = "caddy"
    /\ \/ forward' = (forward /\ ~router) /\ UNCHANGED faults
       \/ router /\ Fault /\ UNCHANGED forward
    /\ UNCHANGED <<world, caddy, rt, queue, watch, check, lease, router, observed>>

StopCaddy ==
    /\ phase = "caddy"
    /\ IF ~rt.running THEN StopGoto("stopped")
       ELSE /\ StopOwn
            /\ rt' = [rt EXCEPT !.awaited = rt.child] /\ phase' = "wait"
            /\ crossed' = (crossed \/ Crosses)
            /\ UNCHANGED <<world, queue, watch, check, nat, late>>

SigKill(p) ==
    caddy' = [q \in Procs |-> IF q = p /\ Live(q) THEN [caddy[q] EXCEPT !.state = "exited"] ELSE caddy[q]]

\* Mutant: the wait for the exit has no limit.
OnlyExited == \A p \in Procs : p = rt.awaited => ~Live(p)

\* The child exits, or five seconds pass and it is killed.
ExitedOrTimedOut == TRUE

ChildGone ==
    /\ phase = "wait" /\ phase' = "stopped"
    /\ ExitedOrTimedOut
    /\ SigKill(rt.awaited)
    /\ rt' = [rt EXCEPT !.running = FALSE]
    /\ UNCHANGED <<world, queue, watch, check, nat, observed, faults>>

\* Mutant: the exit handler leaves Caddy alone.
NobodyIsKilled == UNCHANGED caddy

KillCaddySync == SigKill(rt.child)

\* The process exits once stop() is done, or before that by a second signal or the time limit.
Exit ==
    /\ Stopping /\ phase # "exited" /\ phase' = "exited"
    /\ KillCaddySync
    /\ rt' = NoChild /\ queue' = <<>> /\ watch' = IdleWatch
    /\ check' = [pc |-> "idle", previous |-> 0] /\ lease' = [l \in Refreshes |-> "idle"]
    /\ UNCHANGED <<world, router, forward, observed, faults>>

StopStep == StopBegins \/ StopWaits \/ Release \/ StopCaddy \/ ChildGone \/ Exit

-----------------------------------------------------------------------------
(* setup and disable, in a process of their own *)

\* disable gives a running daemon 15 seconds to stop its Caddy itself.
Disable ==
    /\ cli = "idle" /\ file # 0 /\ Room
    /\ file' = 0 /\ cli' = "grace" /\ changes' = changes + 1
    /\ UNCHANGED <<caddy, rt, queue, watch, phase, check, nat, observed, faults>>

DisableEnds ==
    /\ cli = "grace" /\ cli' = "idle"
    /\ StopRequest
    /\ UNCHANGED <<file, changes, rt, queue, watch, phase, check, nat, observed, faults>>

\* setup has a Caddy that is up load the new file, or runs one of its own for the certificates.
\* The first setup enables reachability only at its end.
Setup ==
    /\ cli = "idle" /\ Room /\ changes' = changes + 1
    /\ IF IsUp THEN file' = NewVersion /\ caddy' = LoadFile(NewVersion) /\ UNCHANGED cli
       ELSE /\ cli' = "own" /\ file' = IF file = 0 THEN 0 ELSE NewVersion
            /\ HasFree /\ caddy' = [caddy EXCEPT ![Free] = [NoProc EXCEPT !.state = "starting", !.owner = "setup"]]
    /\ UNCHANGED <<rt, queue, watch, phase, check, nat, observed, faults>>

SetupStops ==
    /\ cli = "own" /\ \E p \in Procs : Up(p) /\ caddy[p].owner = "setup"
    /\ StopRequest
    /\ UNCHANGED <<world, rt, queue, watch, phase, check, nat, observed, faults>>

SetupEnds ==
    /\ cli = "own" /\ \A p \in Procs : Live(p) => caddy[p].owner # "setup"
    /\ cli' = "idle" /\ file' = IF file = 0 THEN changes + 1 ELSE file
    /\ UNCHANGED <<changes, caddy, rt, queue, watch, phase, check, nat, observed, faults>>

Command == Disable \/ DisableEnds \/ Setup \/ SetupStops \/ SetupEnds

-----------------------------------------------------------------------------

Daemon == Running /\ (WatchStep \/ Tick \/ CheckChanges \/ CheckWaited \/ LeaseStep \/ StopStep)

\* What happens once the daemon is gone is not looked at.
Next == (Running /\ (CaddyStep \/ Command)) \/ Daemon

\* The daemon's promises, timeouts and timers come; a Caddy that does not hang starts, exits and
\* has its exit reported; disable ends.  Nothing says that setup ends or that anybody stops the
\* daemon.
Fairness ==
    /\ WF_vars(Running /\ WatchStep) /\ WF_vars(Tick) /\ WF_vars(Running /\ CheckWaited)
    /\ \A l \in Refreshes : WF_vars(Running /\ MapPorts(l))
    /\ WF_vars(StopWaits \/ Release \/ StopCaddy \/ ChildGone)
    /\ \A p \in Procs : WF_vars(Running /\ CaddyStarts(p)) /\ WF_vars(Running /\ CaddyExits(p))
                        /\ WF_vars(Running /\ ExitEvent(p))
    /\ WF_vars(Running /\ DisableEnds)

Spec == Init /\ [][Next]_vars /\ Fairness

-----------------------------------------------------------------------------
(* Properties *)

Own(p) == caddy[p].owner = "daemon"

\* However the daemon's process ends, no Caddy it started runs on: not one that is starting, that
\* was told to stop or that hangs (stop, killCaddySync).  Crossed ones are excepted: the exit of
\* another then hides it.
NoCaddyOutlivesDaemon == phase = "exited" /\ ~crossed => \A p \in Procs : Own(p) => ~Live(p)

\* Once stop() is done the router forwards nothing to this machine, if the router answered and no
\* refresh of the interval was in flight when it began (refreshLeases, stop).
ForwardsReleased == phase = "stopped" /\ ~late /\ faults = 0 => ~forward

\* An exit is expected only while there is one to come: a stale expectation would hide the next
\* crash from the operator (watchCaddyOnce).
ExpectedExitComes ==
    rt.expecting /\ ~crossed => \E p \in Procs : Own(p) /\ caddy[p].state # "none" /\ ~Up(p)

\* stop() ends, with a check in flight, a run of the watch it waits for, or a Caddy that hangs.
StopTerminates == Stopping ~> phase \in {"stopped", "exited"}

\* While the daemon runs, a Caddy that serves what the Caddyfile says comes back after every change,
\* crash and failing request, whoever started it; once reachability is disabled, the daemon's goes.
CaddyFollowsFile ==
    []<>(\/ phase # "running"
         \/ IF file = 0 THEN crossed \/ \A p \in Procs : Own(p) => ~Up(p)
            ELSE \E p \in Procs : Up(p) /\ caddy[p].conf = file)
=============================================================================

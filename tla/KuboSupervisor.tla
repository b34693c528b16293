--------------------------- MODULE KuboSupervisor ---------------------------
(***************************************************************************)
(* The daemon's supervision of its kubo (IPFS) child process:              *)
(* src/cli/commands/daemon.ts (keepKuboUp, the watchdog tick, startup and  *)
(* shutdown) over src/ipfs/startIpfs.ts (startKuboNode).                   *)
(*                                                                         *)
(* The daemon is one JavaScript thread.  A step of this module is what it  *)
(* runs between two awaits, or one event handler; everything another       *)
(* process does (kubo, another program at the kubo API port, the user's    *)
(* signals) is a step of its own and may fall between any two of them.     *)
(***************************************************************************)
EXTENDS Naturals, FiniteSets

CONSTANTS
    Kubos,         \* kubo child processes; one that is reaped and forgotten may be spawned again
    Attempts,      \* slots for runs of keepKuboUpOnce
    Ticks,         \* slots for watchdog ticks that overlap
    None,          \* "undefined"
    ExternalKubo,  \* --pkcOptions.kuboRpcClientsOptions was given
    MaxFaults      \* bound on failures of the environment (crashes, busy ports, failed calls)

ASSUME ConstantsOK ==
    /\ None \notin Kubos \cup Attempts
    /\ ExternalKubo \in BOOLEAN
    /\ MaxFaults \in Nat

VARIABLES
    \* the operating system
    kubo,       \* status of each kubo process
    sig,        \* strongest signal each live kubo was sent
    foreign,    \* what another program runs at the kubo API port
    faults,     \* failures of the environment so far
    listeners,  \* Node's event listeners on each child process object
    \* locals of Daemon.run
    mainProcessExited, kuboProcess, pendingKuboStart, liveKuboPids,
    keepKuboUpInFlight, warnedAboutKuboConfigMismatch,
    \* the asynchronous activities of the daemon
    attempt,    \* where each run of keepKuboUpOnce is
    isKuboApiPortTaken, spawnedProcess,  \* its locals
    tick,       \* watchdog ticks that wait for their port check
    startup,    \* where the body of run() is
    server,     \* daemonServer
    watchdog,   \* keepKuboUpInterval is set
    reach,      \* reachabilityRuntime and the Caddy it runs
    shutdown,   \* where shutdownDaemon is
    teardown,   \* where killKuboProcess is
    awaited,    \* the start attempts killKuboProcess waits for
    victim,     \* the pid killKuboProcess sent SIGINT to
    signals,    \* terminationSignalCount
    exitKind    \* "running", or how the daemon process ended

osVars       == <<kubo, sig, foreign, faults>>
trackingVars == <<kuboProcess, pendingKuboStart, liveKuboPids>>
localVars    == <<isKuboApiPortTaken, spawnedProcess>>
flightVars   == <<attempt, localVars, keepKuboUpInFlight, warnedAboutKuboConfigMismatch>>
kuboVars     == <<osVars, listeners, trackingVars, flightVars>>
startupVars  == <<startup, server, reach>>
teardownVars == <<teardown, awaited, victim>>
exitVars     == <<mainProcessExited, shutdown, signals, exitKind>>
mainVars     == <<tick, watchdog, startupVars, teardownVars, exitVars>>
daemonVars   == <<listeners, trackingVars, flightVars, mainVars>>
vars         == <<osVars, daemonVars>>

-----------------------------------------------------------------------------
(* Types *)

\* "died": gone before it printed "Daemon is ready", "stopped": gone after; both with their
\* exit event still queued.  "stillborn": spawn() failed, there is no pid.
KuboStatus == {"none", "booting", "serving", "died", "stopped", "reaped", "stillborn"}

\* untrack: liveKuboPids.delete; startup: onProcessExit and onProcessError; restart: onKuboExit;
\* teardown: the wait of killKuboProcess
Listener == {"untrack", "startup", "restart", "teardown"}

AttemptPc == {"idle", "portCheck", "portChecked", "health", "warning", "preparing", "validated", "booting"}

\* What a tick read before its await (runKeepKuboUpTick's hasKuboProcess, hasPendingKuboStart).
Tick     == [waiting : BOOLEAN, hasKubo : BOOLEAN, hasPending : BOOLEAN]
NoTick   == [waiting |-> FALSE, hasKubo |-> FALSE, hasPending |-> FALSE]

TypeOK ==
    /\ kubo \in [Kubos -> KuboStatus]
    /\ sig \in [Kubos -> {"none", "INT", "KILL"}]
    /\ foreign \in {"none", "healthy", "sick"}
    /\ faults \in 0..MaxFaults
    /\ listeners \in [Kubos -> SUBSET Listener]
    /\ mainProcessExited \in BOOLEAN
    /\ kuboProcess \in Kubos \cup {None}
    /\ pendingKuboStart \in Attempts \cup {None}
    /\ liveKuboPids \in SUBSET Kubos
    /\ keepKuboUpInFlight \in Attempts \cup {None}
    /\ warnedAboutKuboConfigMismatch \in BOOLEAN
    /\ attempt \in [Attempts -> AttemptPc]
    /\ isKuboApiPortTaken \in [Attempts -> BOOLEAN]
    /\ spawnedProcess \in [Attempts -> Kubos \cup {None}]
    /\ tick \in [Ticks -> Tick]
    /\ startup \in {"begin", "awaitKubo", "createRpc", "startServer", "afterRpc", "startReach",
                    "done", "failed", "unwinding"}
    /\ server \in {"none", "up", "destroyed"}
    /\ watchdog \in BOOLEAN
    /\ reach \in {"none", "starting", "on", "stopping", "off"}
    /\ shutdown \in {"none", "deletingState", "destroying", "awaitTeardown"}
    /\ teardown \in {"off", "waitStarts", "waitExit", "done"}
    /\ awaited \in SUBSET Attempts
    /\ victim \in Kubos \cup {None}
    /\ signals \in 0..1
    /\ exitKind \in {"running", "clean", "capped", "forced", "cutShort", "crashed"}

\* The state at line 774, with the exit hook, the "exit" handler and the signal guard registered.
Init ==
    /\ kubo = [k \in Kubos |-> "none"]
    /\ sig = [k \in Kubos |-> "none"]
    /\ foreign \in {"none", "healthy", "sick"}
    /\ faults = 0
    /\ listeners = [k \in Kubos |-> {}]
    /\ mainProcessExited = FALSE
    /\ kuboProcess = None
    /\ pendingKuboStart = None
    /\ liveKuboPids = {}
    /\ keepKuboUpInFlight = None
    /\ warnedAboutKuboConfigMismatch = FALSE
    /\ attempt = [a \in Attempts |-> "idle"]
    /\ isKuboApiPortTaken = [a \in Attempts |-> FALSE]
    /\ spawnedProcess = [a \in Attempts |-> None]
    /\ tick = [t \in Ticks |-> NoTick]
    /\ startup = "begin"
    /\ server = "none"
    /\ watchdog = FALSE
    /\ reach = "none"
    /\ shutdown = "none"
    /\ teardown = "off"
    /\ awaited = {}
    /\ victim = None
    /\ signals = 0
    /\ exitKind = "running"

-----------------------------------------------------------------------------
(* The operating system *)

Running   == exitKind = "running"
Alive(k)  == kubo[k] \in {"booting", "serving"}
Exited(k) == kubo[k] \in {"died", "stopped"}

\* No variable of the daemon refers to k any more, so the name can stand for a new process.
Fresh(k) ==
    /\ \/ kubo[k] \in {"none", "reaped"}
       \/ kubo[k] = "stillborn" /\ listeners[k] = {}
    /\ k \notin liveKuboPids \cup {kuboProcess, victim}
    /\ \A a \in Attempts : spawnedProcess[a] # k

PortTaken     == foreign # "none" \/ \E k \in Kubos : kubo[k] = "serving"
HealthyAtPort == foreign = "healthy" \/ \E k \in Kubos : kubo[k] = "serving"

Fault == faults < MaxFaults /\ faults' = faults + 1

\* killKuboProcessGroup with SIGKILL: a no-op on processes that are gone.
Kill(S) == sig' = [k \in Kubos |-> IF k \in S /\ Alive(k) THEN "KILL" ELSE sig[k]]

\* kubo binds its API port and prints "Daemon is ready".
KuboServes(k) ==
    /\ kubo[k] = "booting" /\ ~PortTaken
    /\ kubo' = [kubo EXCEPT ![k] = "serving"]
    /\ UNCHANGED <<sig, foreign, faults, daemonVars>>

\* kubo obeys a signal, cannot bind its port, or crashes (pkc-js also posts /shutdown to it).
KuboDies(k) ==
    /\ Alive(k)
    /\ \/ sig[k] # "none" /\ UNCHANGED faults
       \/ kubo[k] = "booting" /\ PortTaken /\ UNCHANGED faults
       \/ Fault
    /\ kubo' = [kubo EXCEPT ![k] = IF @ = "booting" THEN "died" ELSE "stopped"]
    /\ UNCHANGED <<sig, foreign, daemonVars>>

ForeignAppears == ~PortTaken /\ foreign' \in {"healthy", "sick"} /\ Fault /\ UNCHANGED <<kubo, sig, daemonVars>>

ForeignLeaves == foreign # "none" /\ foreign' = "none" /\ UNCHANGED <<kubo, sig, faults, daemonVars>>

-----------------------------------------------------------------------------
(* keepKuboUp *)

\* Mutant: callers do not share the attempt in flight.
NeverInFlight == FALSE

InFlight == keepKuboUpInFlight # None

\* A call up to its first await.  The caller joins the attempt in flight, if any; a new one ends
\* at once when the daemon shuts down or a kubo is tracked.
KeepKuboUp ==
    IF InFlight \/ mainProcessExited' \/ kuboProcess' # None \/ pendingKuboStart' # None
    THEN UNCHANGED <<attempt, keepKuboUpInFlight>>
    ELSE \E a \in Attempts :
            /\ attempt[a] = "idle"
            /\ attempt' = [attempt EXCEPT ![a] = "portCheck"]
            /\ keepKuboUpInFlight' = a

Goto(a, pc) ==
    /\ attempt' = [attempt EXCEPT ![a] = pc]
    /\ UNCHANGED <<keepKuboUpInFlight, startup>>

\* The promise of attempt a settles: the single-flight slot is freed, and startup, if it awaits
\* the attempt, goes on or fails with it.
Settle(a, ok) ==
    /\ attempt' = [attempt EXCEPT ![a] = "idle"]
    /\ isKuboApiPortTaken' = [isKuboApiPortTaken EXCEPT ![a] = FALSE]
    /\ spawnedProcess' = [spawnedProcess EXCEPT ![a] = None]
    /\ keepKuboUpInFlight' = None
    /\ startup' = IF startup # "awaitKubo" THEN startup ELSE IF ok THEN "createRpc" ELSE "failed"

\* Mutant: a start that is over stays pending.
KeepPending(a) == UNCHANGED pendingKuboStart

ClearPending(a) == pendingKuboStart' = IF pendingKuboStart = a THEN None ELSE pendingKuboStart

\* startKuboNode rejects: only state that this attempt owns is cleared.
Reject(a) ==
    /\ ClearPending(a)
    /\ kuboProcess' = IF ~mainProcessExited /\ kuboProcess = spawnedProcess[a] THEN None ELSE kuboProcess
    /\ Settle(a, FALSE)

\* The TCP probe of the kubo API port is answered.
CheckPort(a) ==
    /\ attempt[a] = "portCheck"
    /\ Goto(a, "portChecked")
    /\ isKuboApiPortTaken' = [isKuboApiPortTaken EXCEPT ![a] = PortTaken]
    /\ UNCHANGED <<osVars, listeners, trackingVars, spawnedProcess, warnedAboutKuboConfigMismatch>>

\* The probe throws (ETIMEDOUT).
CheckPortFails(a) ==
    /\ attempt[a] = "portCheck"
    /\ Fault
    /\ Settle(a, FALSE)
    /\ UNCHANGED <<kubo, sig, foreign, listeners, trackingVars, warnedAboutKuboConfigMismatch>>

Blocked == mainProcessExited \/ kuboProcess # None \/ pendingKuboStart # None

\* The guards are read again after the await: a shutdown or a tracked kubo ends the attempt.
GiveWay(a) ==
    /\ attempt[a] = "portChecked" /\ Blocked
    /\ Settle(a, TRUE)
    /\ UNCHANGED <<osVars, listeners, trackingVars, warnedAboutKuboConfigMismatch>>

\* Nothing is in the way: ask whoever holds the port, or warn about the configuration once (which
\* awaits when an environment variable names an endpoint) and start kubo.
GoOn(a) ==
    /\ attempt[a] = "portChecked" /\ ~Blocked
    /\ \/ /\ isKuboApiPortTaken[a]
          /\ Goto(a, "health")
          /\ UNCHANGED <<warnedAboutKuboConfigMismatch, pendingKuboStart>>
       \/ /\ ~isKuboApiPortTaken[a]
          /\ warnedAboutKuboConfigMismatch' = TRUE
          /\ \/ ~warnedAboutKuboConfigMismatch /\ Goto(a, "warning") /\ UNCHANGED pendingKuboStart
             \/ Goto(a, "preparing") /\ pendingKuboStart' = a
    /\ UNCHANGED <<osVars, listeners, kuboProcess, liveKuboPids, localVars>>

\* The warning is printed; the guards are not read again before kubo is started.
Warned(a) ==
    /\ attempt[a] = "warning"
    /\ Goto(a, "preparing")
    /\ pendingKuboStart' = a
    /\ UNCHANGED <<osVars, listeners, kuboProcess, liveKuboPids, localVars, warnedAboutKuboConfigMismatch>>

\* POST /version answers: a healthy kubo of another program is used as it is, anything else is an
\* error ("already in use").
Health(a) ==
    /\ attempt[a] = "health"
    /\ Settle(a, HealthyAtPort)
    /\ UNCHANGED <<osVars, listeners, trackingVars, warnedAboutKuboConfigMismatch>>

\* startKuboNode: init, config, routing and "repo migrate" succeed, every configured port is free.
Prepared(a) ==
    /\ attempt[a] = "preparing" /\ ~PortTaken
    /\ Goto(a, "validated")
    /\ UNCHANGED <<osVars, listeners, trackingVars, localVars, warnedAboutKuboConfigMismatch>>

\* One of them fails, or a port is taken.
PrepareFails(a) ==
    /\ attempt[a] = "preparing"
    /\ IF PortTaken THEN UNCHANGED faults ELSE Fault
    /\ Reject(a)
    /\ UNCHANGED <<kubo, sig, foreign, listeners, liveKuboPids, warnedAboutKuboConfigMismatch>>

PidsOf(k, status) == IF status = "booting" THEN {k} ELSE {}

\* spawn() and onSpawn: the process is tracked before it is ready.  When no process could be
\* created there is no pid, and an "error" event follows.
SpawnAs(a, k, status) ==
    /\ attempt[a] = "validated" /\ Fresh(k)
    /\ Goto(a, "booting")
    /\ spawnedProcess' = [spawnedProcess EXCEPT ![a] = k]
    /\ kubo' = [kubo EXCEPT ![k] = status]
    /\ sig' = [sig EXCEPT ![k] = "none"]
    /\ kuboProcess' = k
    /\ liveKuboPids' = liveKuboPids \cup PidsOf(k, status)
    /\ UNCHANGED <<foreign, pendingKuboStart, isKuboApiPortTaken, warnedAboutKuboConfigMismatch>>

Spawn(a, k) ==
    /\ SpawnAs(a, k, "booting")
    /\ listeners' = [listeners EXCEPT ![k] = {"untrack", "startup"}]
    /\ UNCHANGED faults

SpawnFails(a, k) ==
    /\ SpawnAs(a, k, "stillborn")
    /\ listeners' = [listeners EXCEPT ![k] = {"startup"}]
    /\ Fault

\* onProcessError for a process that was never created.
ErrorEvent(a, k) ==
    /\ attempt[a] = "booting" /\ spawnedProcess[a] = k
    /\ kubo[k] = "stillborn" /\ "startup" \in listeners[k]
    /\ listeners' = [listeners EXCEPT ![k] = {}]
    /\ Reject(a)
    /\ UNCHANGED <<osVars, liveKuboPids, warnedAboutKuboConfigMismatch>>

\* "Daemon is ready" is read from stdout, possibly after the process is gone: the attempt succeeds
\* or, when the daemon is shutting down, kills what it started.
ReadyEvent(a, k) ==
    /\ attempt[a] = "booting" /\ spawnedProcess[a] = k
    /\ kubo[k] \in {"serving", "stopped"}
    /\ ClearPending(a)
    /\ \/ /\ mainProcessExited
          /\ Kill({k})
          /\ kuboProcess' = IF kuboProcess = k THEN None ELSE kuboProcess
          /\ listeners' = [listeners EXCEPT ![k] = @ \ {"startup"}]
       \/ /\ ~mainProcessExited
          /\ kuboProcess' = k
          /\ listeners' = [listeners EXCEPT ![k] = (@ \ {"startup"}) \cup {"restart"}]
          /\ UNCHANGED sig
    /\ Settle(a, TRUE)
    /\ UNCHANGED <<kubo, foreign, faults, liveKuboPids, warnedAboutKuboConfigMismatch>>

-----------------------------------------------------------------------------
(* A kubo's exit event *)

Reap(k) == Exited(k) /\ kubo' = [kubo EXCEPT ![k] = "reaped"]

Untracked(k) == IF "untrack" \in listeners[k] THEN liveKuboPids \ {k} ELSE liveKuboPids

\* Mutant: liveKuboPids is cleared without the kills.
SweepNothing(pids) == UNCHANGED sig

Sweep(pids) == Kill(pids)

\* The last part of killKuboProcess: forget the tracked kubo and its listeners, then SIGKILL pids.
FinishTeardown(pids) ==
    /\ Sweep(pids)
    /\ listeners' = [k \in Kubos |-> IF k = kuboProcess THEN {} ELSE listeners[k]]
    /\ kuboProcess' = None
    /\ liveKuboPids' = {}
    /\ teardown' = "done"

\* killKuboProcess waits for this exit.
AwaitedExit(k) == teardown = "waitExit" /\ "teardown" \in listeners[k]

\* The listeners of the exit event that change what the daemon tracks, or that finish its wait in
\* killKuboProcess.
ExitHeard(k, tracked) ==
    \/ /\ ~AwaitedExit(k)
       /\ listeners' = [listeners EXCEPT ![k] = {}]
       /\ liveKuboPids' = Untracked(k)
       /\ kuboProcess' = tracked
       /\ UNCHANGED <<sig, teardown>>
    \/ /\ AwaitedExit(k)
       /\ FinishTeardown(Untracked(k))

\* Before ready: onProcessExit rejects the attempt.
ExitBeforeReady(a, k) ==
    /\ attempt[a] = "booting" /\ spawnedProcess[a] = k
    /\ "startup" \in listeners[k]
    /\ Reap(k)
    /\ ExitHeard(k, IF ~mainProcessExited /\ kuboProcess = k THEN None ELSE kuboProcess)
    /\ ClearPending(a)
    /\ Settle(a, FALSE)
    /\ UNCHANGED <<foreign, faults, warnedAboutKuboConfigMismatch, server, reach>>

\* Later, onKuboExit: forget the kubo and call keepKuboUp, unless the daemon is shutting down.
ExitAfterReady(k) ==
    LET restarts == "restart" \in listeners[k] /\ ~mainProcessExited IN
    /\ "startup" \notin listeners[k]
    /\ Reap(k)
    /\ ExitHeard(k, IF restarts /\ kuboProcess = k THEN None ELSE kuboProcess)
    /\ UNCHANGED <<foreign, faults, pendingKuboStart, localVars, warnedAboutKuboConfigMismatch,
                   startupVars, mainProcessExited>>
    /\ IF restarts THEN KeepKuboUp ELSE UNCHANGED <<attempt, keepKuboUpInFlight>>

-----------------------------------------------------------------------------
(* The watchdog tick *)

\* The interval fires: what the tick will decide on is read now, before its port check.
TickFires(t) ==
    /\ watchdog /\ ~mainProcessExited /\ ~tick[t].waiting
    /\ tick' = [tick EXCEPT ![t] = [waiting    |-> TRUE,
                                    hasKubo    |-> kuboProcess # None,
                                    hasPending |-> pendingKuboStart # None]]
    /\ UNCHANGED <<osVars, flightVars>>

\* Mutant: a taken RPC port means that kubo is fine as well.
TickTrustsRpc(t) == server # "up"

\* Whether a tick whose RPC port check was answered calls keepKuboUp.
TickWantsKubo(t) == ExternalKubo \/ server # "up" \/ ~(tick[t].hasKubo \/ tick[t].hasPending)

\* The port check is answered.  createOrConnectRpc, called last, returns at once: the interval is
\* only set once the daemon's own RPC is up (WatchdogImpliesRpc).
TickChecked(t) ==
    /\ tick[t].waiting
    /\ tick' = [tick EXCEPT ![t] = NoTick]
    /\ UNCHANGED <<osVars, trackingVars, localVars, warnedAboutKuboConfigMismatch, mainProcessExited>>
    /\ IF TickWantsKubo(t) THEN KeepKuboUp ELSE UNCHANGED <<attempt, keepKuboUpInFlight>>

\* The port check throws: the tick is dropped, a later one tries again.
TickFails(t) ==
    /\ tick[t].waiting
    /\ tick' = [tick EXCEPT ![t] = NoTick]
    /\ Fault
    /\ UNCHANGED <<kubo, sig, foreign, flightVars>>

-----------------------------------------------------------------------------
(* Startup, from line 774 on *)

StartupBegins ==
    /\ startup = "begin"
    /\ startup' = IF ExternalKubo THEN "createRpc" ELSE "awaitKubo"
    /\ UNCHANGED <<osVars, listeners, trackingVars, localVars, warnedAboutKuboConfigMismatch, server,
                   reach, watchdog, mainProcessExited>>
    /\ IF ExternalKubo THEN UNCHANGED <<attempt, keepKuboUpInFlight>> ELSE KeepKuboUp

\* createOrConnectRpc begins; during shutdown it does nothing.
CreateRpc ==
    /\ startup = "createRpc"
    /\ startup' = IF mainProcessExited THEN "afterRpc" ELSE "startServer"
    /\ UNCHANGED <<kuboVars, server, reach, watchdog, mainProcessExited>>

\* Its awaits are over and the RPC server listens.  The shutdown flag is not read again.
RpcUp ==
    /\ startup = "startServer"
    /\ startup' = "afterRpc"
    /\ server' = "up"
    /\ UNCHANGED <<kuboVars, reach, watchdog, mainProcessExited>>

\* What becomes of the startup when createOrConnectRpc throws.
RpcFailed == "failed"

\* The RPC port was taken meanwhile, or a package or the server failed to load.
RpcFails ==
    /\ startup = "startServer"
    /\ startup' = RpcFailed
    /\ Fault
    /\ UNCHANGED <<kubo, sig, foreign, listeners, trackingVars, flightVars, server, reach, watchdog,
                   mainProcessExited>>

\* The interval is set and, for a kubo of its own, the reachability runtime is created.
SetWatchdog ==
    /\ startup = "afterRpc"
    /\ watchdog' = TRUE
    /\ startup' = IF ExternalKubo THEN "done" ELSE "startReach"
    /\ reach' = IF ExternalKubo THEN reach ELSE "starting"
    /\ UNCHANGED <<kuboVars, server, mainProcessExited>>

\* reachabilityRuntime.start() returns or throws; a failure never takes the node down.
ReachStarted ==
    /\ startup = "startReach"
    /\ startup' = "done"
    /\ IF reach = "starting" THEN reach' \in {"on", "off"} ELSE UNCHANGED reach
    /\ UNCHANGED <<kuboVars, server, watchdog, mainProcessExited>>

-----------------------------------------------------------------------------
(* Shutdown *)

\* Mutant: the "exit" handler is not registered.
NoExitHandler == UNCHANGED <<sig, reach>>

\* The "exit" handler SIGKILLs Caddy, the tracked kubo and every live one.
ExitHandler ==
    /\ Kill(liveKuboPids \cup {kuboProcess})
    /\ reach' = IF reach = "none" THEN "none" ELSE "off"

\* The process ends through process.exit().
ExitProcess(kind) ==
    /\ exitKind' = kind
    /\ ExitHandler
    /\ UNCHANGED <<kubo, foreign, faults, listeners, trackingVars, server, teardownVars,
                   mainProcessExited, shutdown>>

\* shutdownDaemon up to its first await.
BeginShutdown ==
    /\ mainProcessExited' = TRUE
    /\ shutdown' = "deletingState"
    /\ UNCHANGED <<osVars, listeners, trackingVars, server, reach, teardownVars, exitKind>>

\* SIGINT or SIGTERM: the exit hook runs shutdownDaemon, which returns at once when a failed
\* startup already runs it, and the hook then exits the process.
FirstSignal ==
    /\ startup # "begin" /\ signals = 0
    /\ signals' = 1
    /\ watchdog' = FALSE
    /\ IF mainProcessExited THEN ExitProcess("cutShort") ELSE BeginShutdown
    /\ UNCHANGED startup

\* A repeated signal force-quits.
SecondSignal ==
    /\ signals = 1
    /\ ExitProcess("forced")
    /\ UNCHANGED <<startup, watchdog, signals>>

\* The catch block of run(): shut down, unless a signal already does, then rethrow; oclif ends the
\* process with process.exit().
StartupFails ==
    /\ startup = "failed"
    /\ startup' = "unwinding"
    /\ watchdog' = FALSE
    /\ IF mainProcessExited THEN ExitProcess("cutShort") ELSE BeginShutdown
    /\ UNCHANGED signals

\* The state file is gone: killKuboProcess and the reachability stop begin side by side with the
\* destruction of the RPC server, if there is one by now.
StateDeleted ==
    /\ shutdown = "deletingState"
    /\ shutdown' = IF server = "up" THEN "destroying" ELSE "awaitTeardown"
    /\ teardown' = "waitStarts"
    /\ awaited' = {keepKuboUpInFlight, pendingKuboStart} \ {None}
    /\ reach' = IF reach = "none" THEN "none" ELSE "stopping"
    /\ UNCHANGED <<osVars, listeners, trackingVars, startup, server, watchdog, victim,
                   mainProcessExited, signals, exitKind>>

\* daemonServer.destroy() returns or throws.
ServerDestroyed ==
    /\ shutdown = "destroying"
    /\ shutdown' = "awaitTeardown"
    /\ server' = "destroyed"
    /\ UNCHANGED <<osVars, listeners, trackingVars, startup, reach, watchdog, teardownVars,
                   mainProcessExited, signals, exitKind>>

ReachStopped ==
    /\ reach = "stopping"
    /\ reach' = "off"
    /\ UNCHANGED <<osVars, listeners, trackingVars, startup, server, watchdog, teardownVars, exitVars>>

\* Mutant: nothing is tracked, so that every kubo is left to the sweep.
NothingTracked == FALSE

\* kuboProcess has a pid.
TrackedPid == kuboProcess # None /\ kubo[kuboProcess] # "stillborn"

\* killKuboProcess after its first wait: SIGINT the tracked kubo and wait for its exit, or go
\* straight to the sweep.
InterruptKubo ==
    /\ \/ /\ TrackedPid
          /\ victim' = kuboProcess
          /\ sig' = [sig EXCEPT ![kuboProcess] = IF Alive(kuboProcess) /\ @ = "none" THEN "INT" ELSE @]
          /\ listeners' = [listeners EXCEPT ![kuboProcess] = @ \cup {"teardown"}]
          /\ teardown' = "waitExit"
          /\ UNCHANGED liveKuboPids
       \/ /\ ~TrackedPid
          /\ Sweep(liveKuboPids)
          /\ liveKuboPids' = {}
          /\ teardown' = "done"
          /\ UNCHANGED <<victim, listeners>>
    /\ UNCHANGED <<kubo, foreign, faults, kuboProcess, pendingKuboStart, awaited, startupVars, watchdog, exitVars>>

StartsSettled == \A a \in awaited : attempt[a] = "idle"

\* Mutant: the wait for the starts in flight has no bound.
NoStartTimeout == FALSE

\* 15 s have passed: a start is wedged.
StartTimeout == TRUE

\* Every start in flight has settled, or killKuboProcess stops waiting for them.
TeardownBegins ==
    /\ teardown = "waitStarts"
    /\ StartsSettled \/ StartTimeout
    /\ InterruptKubo

\* 5 s after the SIGINT: escalate.
TeardownExitTimeout ==
    /\ teardown = "waitExit"
    /\ FinishTeardown(liveKuboPids \cup {victim})
    /\ UNCHANGED <<kubo, foreign, faults, pendingKuboStart, startupVars, watchdog, awaited, victim, exitVars>>

\* Everything shutdownDaemon awaits is over: the hook, or the catch block, ends the process.
ShutdownCompletes ==
    /\ shutdown = "awaitTeardown" /\ teardown = "done" /\ reach # "stopping"
    /\ ExitProcess("clean")
    /\ UNCHANGED <<startup, watchdog, signals>>

\* DAEMON_SHUTDOWN_TIMEOUT_MS (120 s) has passed; the two bounded waits of killKuboProcess (15 s
\* and 5 s) are over well before.
ShutdownCapped ==
    /\ shutdown # "none" /\ teardown \in {"off", "done"}
    /\ ExitProcess("capped")
    /\ UNCHANGED <<startup, watchdog, signals>>

\* SIGKILL, the OOM killer, power: no handler runs.
HardCrash ==
    /\ exitKind' = "crashed"
    /\ UNCHANGED <<osVars, listeners, trackingVars, startupVars, watchdog, teardownVars,
                   mainProcessExited, shutdown, signals>>

-----------------------------------------------------------------------------
(* Who takes which step, and what each of them leaves alone *)

OsStep == \E k \in Kubos : KuboServes(k) \/ KuboDies(k)

ByAttempt == Running /\ UNCHANGED <<tick, server, reach, watchdog, teardownVars, exitVars>>

AttemptStep(a) ==
    /\ ByAttempt
    /\ \/ CheckPort(a) \/ GiveWay(a) \/ GoOn(a) \/ Warned(a) \/ Health(a) \/ Prepared(a) \/ PrepareFails(a)
       \/ \E k \in Kubos : Spawn(a, k) \/ ErrorEvent(a, k) \/ ReadyEvent(a, k)

AttemptFault(a) == ByAttempt /\ (CheckPortFails(a) \/ \E k \in Kubos : SpawnFails(a, k))

ByExit == Running /\ UNCHANGED <<tick, watchdog, awaited, victim, exitVars>>

KuboExitEvent(k) ==
    /\ ByExit
    /\ \/ ExitAfterReady(k)
       \/ \E a \in Attempts : ExitBeforeReady(a, k)

ByTick == Running /\ UNCHANGED <<listeners, trackingVars, startupVars, watchdog, teardownVars, exitVars>>

ByStartup == Running /\ UNCHANGED <<tick, teardownVars, exitVars>>

ByShutdown == Running /\ UNCHANGED <<flightVars, tick>>

StartupStep == ByStartup /\ (StartupBegins \/ CreateRpc \/ RpcUp \/ SetWatchdog)

ShutdownStep ==
    /\ ByShutdown
    /\ \/ StartupFails \/ StateDeleted \/ TeardownBegins \/ TeardownExitTimeout
       \/ ShutdownCompletes \/ ShutdownCapped

\* Steps nothing obliges to happen: other programs, users, failures, calls that may hang.
Environment ==
    \/ OsStep \/ ForeignAppears \/ ForeignLeaves
    \/ \E a \in Attempts : AttemptFault(a)
    \/ \E t \in Ticks : ByTick /\ TickFails(t)
    \/ ByStartup /\ (RpcFails \/ ReachStarted)
    \/ ByShutdown /\ (FirstSignal \/ SecondSignal \/ ServerDestroyed \/ ReachStopped \/ HardCrash)

Next ==
    \/ Environment
    \/ \E a \in Attempts : AttemptStep(a)
    \/ \E k \in Kubos : KuboExitEvent(k)
    \/ \E t \in Ticks : ByTick /\ (TickFires(t) \/ TickChecked(t))
    \/ StartupStep
    \/ ShutdownStep

Safety == Init /\ [][Next]_vars

\* Node runs what is due, timers fire, and the kernel carries out a SIGKILL.  Nothing is assumed
\* of a kubo that never becomes ready, a destroy() that hangs, or of other programs.
Fairness ==
    /\ \A a \in Attempts : WF_vars(AttemptStep(a))
    /\ \A k \in Kubos : WF_vars(KuboExitEvent(k)) /\ WF_vars(sig[k] = "KILL" /\ KuboDies(k))
    /\ \A t \in Ticks : WF_vars(ByTick /\ TickFires(t)) /\ WF_vars(ByTick /\ TickChecked(t))
    /\ WF_vars(StartupStep) /\ WF_vars(ShutdownStep)

Spec == Safety /\ Fairness

\* A kubo that can become ready or cannot bind its port does not sit there for ever.
FairBoot == \A k \in Kubos : WF_vars(kubo[k] = "booting" /\ (KuboServes(k) \/ KuboDies(k)))

-----------------------------------------------------------------------------
(* Properties *)

\* Issue #70: keepKuboUp is entered from the exit handler, the watchdog and startup, and its awaits
\* lie between its guards and the spawn; two kubos on one repository never run at once.
AtMostOneKubo == \A k, j \in Kubos : Alive(k) /\ Alive(j) => k = j

\* Issues #70, #98: "so nothing outlives the daemon".  However the daemon ends short of a crash,
\* also while a start is still in flight, every kubo left was sent SIGKILL.
NoOrphan == exitKind \notin {"running", "crashed"} => \A k \in Kubos : Alive(k) => sig[k] = "KILL"

\* Stale tracking would wedge the supervision: keepKuboUp does nothing as long as kuboProcess or
\* pendingKuboStart is set.  A running daemon never keeps a kubo whose exit it has handled, or a
\* start attempt that is over.
NoStaleTracking ==
    /\ Running /\ ~mainProcessExited /\ kuboProcess # None =>
          Alive(kuboProcess) \/ Exited(kuboProcess) \/ "startup" \in listeners[kuboProcess]
    /\ pendingKuboStart # None => attempt[pendingKuboStart] \in {"preparing", "validated", "booting"}

\* Every tick calls createOrConnectRpc, which is not single-flight: it is harmless because the
\* interval only runs once the daemon's own RPC server is up.
WatchdogImpliesRpc == watchdog /\ ~mainProcessExited => server = "up"

\* A kubo that was ready and adopted is asked to stop (SIGINT, so that it can close its
\* datastore) before it is SIGKILLed, as long as the daemon process itself is not ending.
AdoptedKuboGetsGrace ==
    [][\A k \in Kubos : sig[k] = "none" /\ sig'[k] = "KILL" /\ Running' => "restart" \notin listeners[k]]_vars

Served == kuboProcess # None /\ kubo[kuboProcess] = "serving"

\* Whatever failed, once failures stop the daemon is back on a kubo of its own, unless another
\* program holds the kubo port or the daemon is shutting down; provided that no kubo hangs at boot.
KuboKeptUp == FairBoot => []<>(Served \/ foreign # "none" \/ mainProcessExited \/ ~Running)

\* A shutdown that began ends with the process, even when a kubo is wedged before ready, the RPC
\* server does not close or the reachability runtime does not stop.
ShutdownTerminates == mainProcessExited ~> ~Running

\* What KuboContract sees of a state.
Contract == INSTANCE KuboContract WITH
    alive  <- {k \in Kubos : Alive(k)},
    doomed <- {k \in Kubos : Alive(k) /\ sig[k] = "KILL"},
    daemon <- IF Running THEN "up" ELSE IF exitKind = "crashed" THEN "crashed" ELSE "down"

\* The supervisor's awaits and handlers keep the promise of KuboContract: one kubo at a time, and
\* none left without a SIGKILL.
ImplementsContract == Contract!Spec
=============================================================================

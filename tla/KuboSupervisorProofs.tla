------------------------ MODULE KuboSupervisorProofs ------------------------
(***************************************************************************)
(* Theorems about KuboSupervisor for every set of kubos, attempts and      *)
(* ticks, every kind of kubo endpoint and any number of faults.  A proof   *)
(* that a step keeps an invariant has a step of its own for each action    *)
(* that can disturb it; the actions of an actor that leave its variables   *)
(* alone share one.                                                        *)
(***************************************************************************)
EXTENDS KuboSupervisor, TLAPS

-----------------------------------------------------------------------------
(* Types *)

\* Every step keeps the types of the variables.
LEMMA TypeInductive == TypeOK /\ [Next]_vars => TypeOK'
<1> SUFFICES ASSUME TypeOK, [Next]_vars
             PROVE  TypeOK'
  OBVIOUS
<1>. USE ConstantsOK DEF TypeOK, KuboStatus, Listener, AttemptPc, Tick, Running, Alive,
          ByAttempt, ByExit, ByTick, ByStartup, ByShutdown, localVars, osVars, trackingVars,
          flightVars, kuboVars, startupVars, teardownVars, exitVars, mainVars, daemonVars
<1>1. ASSUME NEW k \in Kubos, KuboServes(k) \/ KuboDies(k)
      PROVE  TypeOK'
  BY <1>1 DEF KuboServes, KuboDies, Fault
<1>2. ASSUME ForeignAppears \/ ForeignLeaves
      PROVE  TypeOK'
  BY <1>2 DEF ForeignAppears, Fault, ForeignLeaves
<1>3. ASSUME NEW a \in Attempts, ByAttempt, CheckPort(a)
      PROVE  TypeOK'
  BY <1>3 DEF CheckPort, Goto, PortTaken
<1>4. ASSUME NEW a \in Attempts, ByAttempt, CheckPortFails(a)
      PROVE  TypeOK'
  BY <1>4 DEF CheckPortFails, Fault, Settle
<1>5. ASSUME NEW a \in Attempts, ByAttempt, GoOn(a)
      PROVE  TypeOK'
  <2>1. attempt' \in [Attempts -> AttemptPc] /\ pendingKuboStart' \in Attempts \cup {None}
    BY <1>5 DEF GoOn, Goto
  <2>2. warnedAboutKuboConfigMismatch' \in BOOLEAN
    BY <1>5 DEF GoOn
  <2>. QED
    BY <1>5, <2>1, <2>2 DEF GoOn, Goto
<1>6. ASSUME NEW a \in Attempts, ByAttempt, Warned(a)
      PROVE  TypeOK'
  BY <1>6 DEF Warned, Goto
<1>7. ASSUME NEW a \in Attempts, ByAttempt, Health(a)
      PROVE  TypeOK'
  BY <1>7 DEF Health, Settle
<1>8. ASSUME NEW a \in Attempts, ByAttempt, Prepared(a)
      PROVE  TypeOK'
  BY <1>8 DEF Prepared, Goto
<1>9. ASSUME NEW a \in Attempts, ByAttempt, PrepareFails(a)
      PROVE  TypeOK'
  BY <1>9 DEF PrepareFails, Fault, Reject, ClearPending, Settle
<1>10. ASSUME NEW a \in Attempts, NEW k \in Kubos, ByAttempt, Spawn(a, k)
      PROVE  TypeOK'
  BY <1>10 DEF Spawn, SpawnAs, Fresh, PidsOf, Goto
<1>11. ASSUME NEW a \in Attempts, NEW k \in Kubos, ByAttempt, SpawnFails(a, k)
      PROVE  TypeOK'
  BY <1>11 DEF SpawnFails, SpawnAs, Fresh, PidsOf, Goto, Fault
<1>12. ASSUME NEW a \in Attempts, NEW k \in Kubos, ByAttempt, ErrorEvent(a, k)
      PROVE  TypeOK'
  BY <1>12 DEF ErrorEvent, Reject, ClearPending, Settle
<1>13. ASSUME NEW a \in Attempts, NEW k \in Kubos, ByAttempt, ReadyEvent(a, k)
      PROVE  TypeOK'
  BY <1>13 DEF ReadyEvent, ClearPending, Kill, Settle
<1>14. ASSUME NEW a \in Attempts, ByAttempt, GiveWay(a)
      PROVE  TypeOK'
  BY <1>14 DEF GiveWay, Settle
<1>15. ASSUME NEW a \in Attempts, NEW k \in Kubos, ByExit, ExitBeforeReady(a, k)
      PROVE  TypeOK'
  BY <1>15 DEF ExitBeforeReady, Reap, Exited, ExitHeard, AwaitedExit, FinishTeardown, Sweep,
     Kill, Untracked, ClearPending, Settle
<1>16. ASSUME NEW k \in Kubos, ByExit, ExitAfterReady(k)
      PROVE  TypeOK'
  BY <1>16 DEF ExitAfterReady, Reap, Exited, ExitHeard, AwaitedExit, FinishTeardown, Sweep,
     Kill, Untracked, KeepKuboUp, InFlight
<1>17. ASSUME NEW t \in Ticks, ByTick, TickFires(t)
      PROVE  TypeOK'
  BY <1>17 DEF TickFires
<1>18. ASSUME NEW t \in Ticks, ByTick, TickChecked(t)
      PROVE  TypeOK'
  BY <1>18 DEF TickChecked, NoTick, KeepKuboUp, InFlight
<1>19. ASSUME NEW t \in Ticks, ByTick, TickFails(t)
      PROVE  TypeOK'
  BY <1>19 DEF TickFails, NoTick, Fault
<1>20. ASSUME ByStartup, StartupBegins
      PROVE  TypeOK'
  BY <1>20 DEF StartupBegins, KeepKuboUp, InFlight
<1>21. ASSUME ByStartup, SetWatchdog
      PROVE  TypeOK'
  BY <1>21 DEF SetWatchdog
<1>22. ASSUME ByStartup, CreateRpc \/ RpcUp \/ RpcFails \/ ReachStarted
      PROVE  TypeOK'
  BY <1>22 DEF CreateRpc, RpcUp, RpcFails, RpcFailed, Fault, ReachStarted
<1>23. ASSUME ByShutdown, FirstSignal
      PROVE  TypeOK'
  <2>1. CASE mainProcessExited
    <3>1. watchdog' \in BOOLEAN
      BY <1>23 DEF FirstSignal
    <3>. QED
      BY <1>23, <2>1, <3>1 DEF FirstSignal, ExitProcess, ExitHandler, Kill
  <2>2. CASE ~mainProcessExited
    <3>1. watchdog' \in BOOLEAN /\ mainProcessExited' \in BOOLEAN
      BY <1>23, <2>2 DEF FirstSignal, BeginShutdown
    <3>. QED
      BY <1>23, <2>2, <3>1 DEF FirstSignal, BeginShutdown
  <2>. QED
    BY <2>1, <2>2
<1>24. ASSUME ByShutdown, StartupFails
      PROVE  TypeOK'
  <2>1. CASE mainProcessExited
    <3>1. watchdog' \in BOOLEAN
      BY <1>24 DEF StartupFails
    <3>. QED
      BY <1>24, <2>1, <3>1 DEF StartupFails, ExitProcess, ExitHandler, Kill
  <2>2. CASE ~mainProcessExited
    <3>1. watchdog' \in BOOLEAN /\ mainProcessExited' \in BOOLEAN
      BY <1>24, <2>2 DEF StartupFails, BeginShutdown
    <3>. QED
      BY <1>24, <2>2, <3>1 DEF StartupFails, BeginShutdown
  <2>. QED
    BY <2>1, <2>2
<1>25. ASSUME ByShutdown, TeardownBegins
      PROVE  TypeOK'
  BY <1>25 DEF TeardownBegins, InterruptKubo, TrackedPid, Sweep, Kill
<1>26. ASSUME ByShutdown, TeardownExitTimeout
      PROVE  TypeOK'
  BY <1>26 DEF TeardownExitTimeout, FinishTeardown, Sweep, Kill
<1>27. ASSUME ByShutdown, SecondSignal \/ StateDeleted \/ ServerDestroyed \/ ReachStopped \/
            ShutdownCompletes \/ ShutdownCapped \/ HardCrash
      PROVE  TypeOK'
  BY <1>27 DEF SecondSignal, ExitProcess, ExitHandler, Kill, StateDeleted, ServerDestroyed,
     ReachStopped, ShutdownCompletes, ShutdownCapped, HardCrash
<1>28. CASE UNCHANGED vars
  BY <1>28 DEF vars
<1>. QED
  BY <1>1, <1>2, <1>3, <1>4, <1>5, <1>6, <1>7, <1>8, <1>9, <1>10, <1>11, <1>12, <1>13, <1>14,
     <1>15, <1>16, <1>17, <1>18, <1>19, <1>20, <1>21, <1>22, <1>23, <1>24, <1>25, <1>26, <1>27,
     <1>28 DEF Next, Environment, OsStep, AttemptStep, AttemptFault, KuboExitEvent, StartupStep,
     ShutdownStep

\* Every variable always has its type.
THEOREM TypeCorrect == Safety => []TypeOK
<1>1. Init => TypeOK
  <2>1. Init => kubo \in [Kubos -> KuboStatus] /\ listeners \in [Kubos -> SUBSET Listener]
    BY DEF Init, KuboStatus, Listener
  <2>2. Init => tick \in [Ticks -> Tick] /\ isKuboApiPortTaken \in [Attempts -> BOOLEAN]
    BY DEF Init, NoTick, Tick
  <2>3. Init => warnedAboutKuboConfigMismatch \in BOOLEAN /\ watchdog \in BOOLEAN /\ mainProcessExited \in BOOLEAN
    BY DEF Init
  <2>. QED
    BY <2>1, <2>2, <2>3, ConstantsOK DEF Init, TypeOK, AttemptPc
<1>. QED
  BY <1>1, TypeInductive, PTL DEF Safety

-----------------------------------------------------------------------------
(* No kubo is orphaned *)

\* Every kubo that runs can be found by the "exit" handler, or was sent SIGKILL already.
Reachable == \A k \in Kubos : Running /\ Alive(k) => k \in liveKuboPids \/ sig[k] = "KILL"

\* Only the exit handlers and the teardown remove a pid from liveKuboPids: the former's process is gone,
\* the latter kills it.
LEMMA OrphanInductive == TypeOK /\ Reachable /\ NoOrphan /\ [Next]_vars => Reachable' /\ NoOrphan'
<1> SUFFICES ASSUME TypeOK, Reachable, NoOrphan, [Next]_vars
             PROVE  Reachable' /\ NoOrphan'
  OBVIOUS
<1>. USE ConstantsOK DEF TypeOK, Reachable, NoOrphan, Running, Alive, ByAttempt, ByExit,
          ByTick, ByStartup, ByShutdown, localVars, osVars, trackingVars, flightVars, kuboVars,
          startupVars, teardownVars, exitVars, mainVars, daemonVars
<1>1. ASSUME NEW k \in Kubos, KuboDies(k)
      PROVE  Reachable' /\ NoOrphan'
  BY <1>1 DEF KuboDies, Fault
<1>2. ASSUME NEW k \in Kubos, KuboServes(k)
      PROVE  Reachable' /\ NoOrphan'
  BY <1>2 DEF KuboServes
<1>3. ASSUME ForeignAppears \/ ForeignLeaves
      PROVE  Reachable' /\ NoOrphan'
  BY <1>3 DEF ForeignAppears, Fault, ForeignLeaves
<1>4. ASSUME NEW a \in Attempts, NEW k \in Kubos, ByAttempt, Spawn(a, k)
      PROVE  Reachable' /\ NoOrphan'
  BY <1>4 DEF Spawn, SpawnAs, Fresh, PidsOf, Goto
<1>5. ASSUME NEW a \in Attempts, NEW k \in Kubos, ByAttempt, SpawnFails(a, k)
      PROVE  Reachable' /\ NoOrphan'
  BY <1>5 DEF SpawnFails, SpawnAs, Fresh, PidsOf, Goto, Fault
<1>6. ASSUME NEW a \in Attempts, NEW k \in Kubos, ByAttempt, ReadyEvent(a, k)
      PROVE  Reachable' /\ NoOrphan'
  BY <1>6 DEF ReadyEvent, ClearPending, Kill, Settle
<1>7. ASSUME NEW a \in Attempts, ByAttempt, CheckPort(a) \/ CheckPortFails(a) \/ GiveWay(a) \/
            GoOn(a) \/ Warned(a) \/ Health(a) \/ Prepared(a) \/ PrepareFails(a)
      PROVE  Reachable' /\ NoOrphan'
  BY <1>7 DEF CheckPort, Goto, PortTaken, CheckPortFails, Fault, Settle, GiveWay, GoOn,
     Blocked, Warned, Health, Prepared, PrepareFails, Reject, ClearPending
<1>8. ASSUME NEW a \in Attempts, NEW k \in Kubos, ByAttempt, ErrorEvent(a, k)
      PROVE  Reachable' /\ NoOrphan'
  BY <1>8 DEF ErrorEvent, Reject, ClearPending, Settle
<1>9. ASSUME NEW a \in Attempts, NEW k \in Kubos, ByExit, ExitBeforeReady(a, k)
      PROVE  Reachable' /\ NoOrphan'
  BY <1>9 DEF ExitBeforeReady, Reap, Exited, ExitHeard, AwaitedExit, FinishTeardown, Sweep,
     Kill, Untracked, ClearPending, Settle
<1>10. ASSUME NEW k \in Kubos, ByExit, ExitAfterReady(k)
      PROVE  Reachable' /\ NoOrphan'
  BY <1>10 DEF ExitAfterReady, Reap, Exited, ExitHeard, AwaitedExit, FinishTeardown, Sweep,
     Kill, Untracked, KeepKuboUp, InFlight
<1>11. ASSUME NEW t \in Ticks, ByTick, TickFires(t) \/ TickChecked(t) \/ TickFails(t)
      PROVE  Reachable' /\ NoOrphan'
  BY <1>11 DEF TickFires, TickChecked, NoTick, KeepKuboUp, InFlight, TickFails, Fault
<1>12. ASSUME ByStartup, StartupBegins \/ CreateRpc \/ RpcUp \/ RpcFails \/ SetWatchdog \/
            ReachStarted
      PROVE  Reachable' /\ NoOrphan'
  BY <1>12 DEF StartupBegins, KeepKuboUp, InFlight, CreateRpc, RpcUp, RpcFails, RpcFailed,
     Fault, SetWatchdog, ReachStarted
<1>13. ASSUME ByShutdown, FirstSignal
      PROVE  Reachable' /\ NoOrphan'
  BY <1>13 DEF FirstSignal, BeginShutdown, ExitProcess, ExitHandler, Kill
<1>14. ASSUME ByShutdown, SecondSignal
      PROVE  Reachable' /\ NoOrphan'
  BY <1>14 DEF SecondSignal, ExitProcess, ExitHandler, Kill
<1>15. ASSUME ByShutdown, StartupFails
      PROVE  Reachable' /\ NoOrphan'
  BY <1>15 DEF StartupFails, BeginShutdown, ExitProcess, ExitHandler, Kill
<1>16. ASSUME ByShutdown, TeardownBegins
      PROVE  Reachable' /\ NoOrphan'
  BY <1>16 DEF TeardownBegins, InterruptKubo, TrackedPid, Sweep, Kill
<1>17. ASSUME ByShutdown, TeardownExitTimeout
      PROVE  Reachable' /\ NoOrphan'
  BY <1>17 DEF TeardownExitTimeout, FinishTeardown, Sweep, Kill
<1>18. ASSUME ByShutdown, ShutdownCompletes
      PROVE  Reachable' /\ NoOrphan'
  BY <1>18 DEF ShutdownCompletes, ExitProcess, ExitHandler, Kill
<1>19. ASSUME ByShutdown, ShutdownCapped
      PROVE  Reachable' /\ NoOrphan'
  BY <1>19 DEF ShutdownCapped, ExitProcess, ExitHandler, Kill
<1>20. ASSUME ByShutdown, HardCrash
      PROVE  Reachable' /\ NoOrphan'
  BY <1>20 DEF HardCrash
<1>21. ASSUME ByShutdown, StateDeleted \/ ServerDestroyed \/ ReachStopped
      PROVE  Reachable' /\ NoOrphan'
  BY <1>21 DEF StateDeleted, ServerDestroyed, ReachStopped
<1>22. CASE UNCHANGED vars
  BY <1>22 DEF vars
<1>. QED
  BY <1>1, <1>2, <1>3, <1>4, <1>5, <1>6, <1>7, <1>8, <1>9, <1>10, <1>11, <1>12, <1>13, <1>14,
     <1>15, <1>16, <1>17, <1>18, <1>19, <1>20, <1>21, <1>22 DEF Next, Environment, OsStep,
     AttemptStep, AttemptFault, KuboExitEvent, StartupStep, ShutdownStep

\* Issues #70 and #98: nothing outlives a daemon that ends short of a crash, however its awaits,
\* timers, handlers and signals interleave.
THEOREM NothingOutlivesTheDaemon == Safety => []NoOrphan
<1>1. Init => Reachable /\ NoOrphan
  BY DEF Init, Reachable, NoOrphan, Alive
<1>. QED
  BY <1>1, OrphanInductive, TypeCorrect, PTL DEF Safety

-----------------------------------------------------------------------------
(* One kubo at a time *)

\* Only the attempt that holds the single-flight slot is under way.
SingleFlight == \A a \in Attempts : attempt[a] # "idle" => keepKuboUpInFlight = a

PreSpawn == {"portCheck", "portChecked", "health", "warning", "preparing", "validated"}

\* An attempt only begins without a kubo, and only an attempt creates one: the guards need not be
\* read again after the awaits of its preparation.
NotYetSpawned == \A a \in Attempts : attempt[a] \in PreSpawn => \A k \in Kubos : ~Alive(k)

\* Until the daemon shuts down, a kubo that runs is the tracked one.
Tracked == ~mainProcessExited => \A k \in Kubos : Alive(k) => kuboProcess = k

\* The kubo an attempt waits for stays tracked, so that no other attempt can begin meanwhile.
StartTracked ==
    ~mainProcessExited =>
        \A a \in Attempts : attempt[a] = "booting" =>
            /\ spawnedProcess[a] \in Kubos /\ kuboProcess = spawnedProcess[a]
            /\ "startup" \in listeners[spawnedProcess[a]]

ShutdownOrder == ~mainProcessExited => shutdown = "none" /\ teardown = "off"

OneKuboInv == SingleFlight /\ NotYetSpawned /\ Tracked /\ StartTracked /\ ShutdownOrder /\ AtMostOneKubo

\* Single flight, the guard at the start of an attempt and the ownership checks of its failure path
\* together keep kubos apart.
LEMMA OneKuboInductive == TypeOK /\ TypeOK' /\ OneKuboInv /\ [Next]_vars => OneKuboInv'
<1> SUFFICES ASSUME TypeOK, TypeOK', OneKuboInv, [Next]_vars
             PROVE  OneKuboInv'
  OBVIOUS
<1>. USE ConstantsOK DEF TypeOK, OneKuboInv, SingleFlight, PreSpawn, NotYetSpawned, Tracked,
          StartTracked, ShutdownOrder, AtMostOneKubo, Running, Alive, ByAttempt, ByExit, ByTick,
          ByStartup, ByShutdown, localVars, osVars, trackingVars, flightVars, kuboVars,
          startupVars, teardownVars, exitVars, mainVars, daemonVars
<1>1. ASSUME NEW k \in Kubos, KuboDies(k)
      PROVE  OneKuboInv'
  BY <1>1 DEF KuboDies, Fault
<1>2. ASSUME NEW k \in Kubos, KuboServes(k)
      PROVE  OneKuboInv'
  BY <1>2 DEF KuboServes
<1>3. ASSUME ForeignAppears \/ ForeignLeaves
      PROVE  OneKuboInv'
  BY <1>3 DEF ForeignAppears, Fault, ForeignLeaves
<1>4. ASSUME NEW a \in Attempts, ByAttempt, GoOn(a)
      PROVE  OneKuboInv'
  BY <1>4 DEF GoOn, Goto, Blocked
<1>5. ASSUME NEW a \in Attempts, ByAttempt, PrepareFails(a)
      PROVE  OneKuboInv'
  BY <1>5 DEF PrepareFails, Fault, Reject, ClearPending, Settle
<1>6. ASSUME NEW a \in Attempts, NEW k \in Kubos, ByAttempt, Spawn(a, k)
      PROVE  OneKuboInv'
  BY <1>6 DEF Spawn, SpawnAs, Fresh, PidsOf, Goto
<1>7. ASSUME NEW a \in Attempts, NEW k \in Kubos, ByAttempt, SpawnFails(a, k)
      PROVE  OneKuboInv'
  BY <1>7 DEF SpawnFails, SpawnAs, Fresh, PidsOf, Goto, Fault
<1>8. ASSUME NEW a \in Attempts, NEW k \in Kubos, ByAttempt, ErrorEvent(a, k)
      PROVE  OneKuboInv'
  BY <1>8 DEF ErrorEvent, Reject, ClearPending, Settle
<1>9. ASSUME NEW a \in Attempts, NEW k \in Kubos, ByAttempt, ReadyEvent(a, k)
      PROVE  OneKuboInv'
  BY <1>9 DEF ReadyEvent, ClearPending, Kill, Settle
<1>10. ASSUME NEW a \in Attempts, ByAttempt, CheckPort(a) \/ CheckPortFails(a) \/ GiveWay(a) \/
            Warned(a) \/ Health(a) \/ Prepared(a)
      PROVE  OneKuboInv'
  BY <1>10 DEF CheckPort, Goto, PortTaken, CheckPortFails, Fault, Settle, GiveWay, Warned,
     Health, Prepared
<1>11. ASSUME NEW a \in Attempts, NEW k \in Kubos, ByExit, ExitBeforeReady(a, k)
      PROVE  OneKuboInv'
  BY <1>11 DEF ExitBeforeReady, Reap, Exited, ExitHeard, AwaitedExit, FinishTeardown, Sweep,
     Kill, Untracked, ClearPending, Settle
<1>12. ASSUME NEW k \in Kubos, ByExit, ExitAfterReady(k)
      PROVE  OneKuboInv'
  BY <1>12 DEF ExitAfterReady, Reap, Exited, ExitHeard, AwaitedExit, FinishTeardown, Sweep,
     Kill, Untracked, KeepKuboUp, InFlight
<1>13. ASSUME NEW t \in Ticks, ByTick, TickChecked(t)
      PROVE  OneKuboInv'
  BY <1>13 DEF TickChecked, NoTick, KeepKuboUp, InFlight
<1>14. ASSUME NEW t \in Ticks, ByTick, TickFires(t) \/ TickFails(t)
      PROVE  OneKuboInv'
  BY <1>14 DEF TickFires, TickFails, NoTick, Fault
<1>15. ASSUME ByStartup, StartupBegins
      PROVE  OneKuboInv'
  BY <1>15 DEF StartupBegins, KeepKuboUp, InFlight
<1>16. ASSUME ByStartup, CreateRpc \/ RpcUp \/ RpcFails \/ SetWatchdog \/ ReachStarted
      PROVE  OneKuboInv'
  BY <1>16 DEF CreateRpc, RpcUp, RpcFails, RpcFailed, Fault, SetWatchdog, ReachStarted
<1>17. ASSUME ByShutdown, FirstSignal
      PROVE  OneKuboInv'
  BY <1>17 DEF FirstSignal, BeginShutdown, ExitProcess, ExitHandler, Kill
<1>18. ASSUME ByShutdown, StartupFails
      PROVE  OneKuboInv'
  BY <1>18 DEF StartupFails, BeginShutdown, ExitProcess, ExitHandler, Kill
<1>19. ASSUME ByShutdown, TeardownBegins
      PROVE  OneKuboInv'
  BY <1>19 DEF TeardownBegins, InterruptKubo, TrackedPid, Sweep, Kill
<1>20. ASSUME ByShutdown, TeardownExitTimeout
      PROVE  OneKuboInv'
  BY <1>20 DEF TeardownExitTimeout, FinishTeardown, Sweep, Kill
<1>21. ASSUME ByShutdown, SecondSignal \/ StateDeleted \/ ServerDestroyed \/ ReachStopped \/
            ShutdownCompletes \/ ShutdownCapped \/ HardCrash
      PROVE  OneKuboInv'
  BY <1>21 DEF SecondSignal, ExitProcess, ExitHandler, Kill, StateDeleted, ServerDestroyed,
     ReachStopped, ShutdownCompletes, ShutdownCapped, HardCrash
<1>22. CASE UNCHANGED vars
  BY <1>22 DEF vars
<1>. QED
  BY <1>1, <1>2, <1>3, <1>4, <1>5, <1>6, <1>7, <1>8, <1>9, <1>10, <1>11, <1>12, <1>13, <1>14,
     <1>15, <1>16, <1>17, <1>18, <1>19, <1>20, <1>21, <1>22 DEF Next, Environment, OsStep,
     AttemptStep, AttemptFault, KuboExitEvent, StartupStep, ShutdownStep

\* The single-flight slot and what is tracked are consistent in every state.
LEMMA OneKuboInvariant == Safety => []OneKuboInv
<1>1. Init => OneKuboInv
  BY ConstantsOK DEF Init, OneKuboInv, SingleFlight, PreSpawn, NotYetSpawned, Tracked, StartTracked, ShutdownOrder,
     AtMostOneKubo, Alive
<1>. QED
  BY <1>1, OneKuboInductive, TypeCorrect, PTL DEF Safety

\* Issue #70: two kubos of one daemon never run at the same time.
THEOREM OneKuboAtATime == Safety => []AtMostOneKubo
<1>1. OneKuboInv => AtMostOneKubo
  BY DEF OneKuboInv
<1>. QED
  BY <1>1, OneKuboInvariant, PTL

-----------------------------------------------------------------------------
(* What is tracked is not stale *)

\* A tracked kubo has the listener that will forget it.
Heard ==
    ~mainProcessExited /\ kuboProcess # None =>
        "startup" \in listeners[kuboProcess] \/ "restart" \in listeners[kuboProcess]

\* A kubo's last listener goes together with its tracking.
LEMMA TrackingInductive == TypeOK /\ TypeOK' /\ OneKuboInv /\ Heard /\ NoStaleTracking /\ [Next]_vars => Heard' /\ NoStaleTracking'
<1> SUFFICES ASSUME TypeOK, TypeOK', OneKuboInv, Heard, NoStaleTracking, [Next]_vars
             PROVE  Heard' /\ NoStaleTracking'
  OBVIOUS
<1>. USE ConstantsOK DEF TypeOK, Heard, NoStaleTracking, Exited, OneKuboInv, SingleFlight,
          PreSpawn, NotYetSpawned, Tracked, StartTracked, ShutdownOrder, AtMostOneKubo, Running,
          Alive, ByAttempt, ByExit, ByTick, ByStartup, ByShutdown, localVars, osVars,
          trackingVars, flightVars, kuboVars, startupVars, teardownVars, exitVars, mainVars,
          daemonVars
<1>1. ASSUME NEW k \in Kubos, KuboDies(k)
      PROVE  Heard' /\ NoStaleTracking'
  BY <1>1 DEF KuboDies, Fault
<1>2. ASSUME NEW k \in Kubos, KuboServes(k)
      PROVE  Heard' /\ NoStaleTracking'
  BY <1>2 DEF KuboServes
<1>3. ASSUME ForeignAppears \/ ForeignLeaves
      PROVE  Heard' /\ NoStaleTracking'
  BY <1>3 DEF ForeignAppears, Fault, ForeignLeaves
<1>4. ASSUME NEW a \in Attempts, ByAttempt, GoOn(a)
      PROVE  Heard' /\ NoStaleTracking'
  BY <1>4 DEF GoOn, Goto, Blocked
<1>5. ASSUME NEW a \in Attempts, ByAttempt, Warned(a)
      PROVE  Heard' /\ NoStaleTracking'
  BY <1>5 DEF Warned, Goto
<1>6. ASSUME NEW a \in Attempts, ByAttempt, PrepareFails(a)
      PROVE  Heard' /\ NoStaleTracking'
  BY <1>6 DEF PrepareFails, Fault, Reject, ClearPending, Settle
<1>7. ASSUME NEW a \in Attempts, NEW k \in Kubos, ByAttempt, Spawn(a, k)
      PROVE  Heard' /\ NoStaleTracking'
  BY <1>7 DEF Spawn, SpawnAs, Fresh, PidsOf, Goto
<1>8. ASSUME NEW a \in Attempts, NEW k \in Kubos, ByAttempt, SpawnFails(a, k)
      PROVE  Heard' /\ NoStaleTracking'
  BY <1>8 DEF SpawnFails, SpawnAs, Fresh, PidsOf, Goto, Fault
<1>9. ASSUME NEW a \in Attempts, NEW k \in Kubos, ByAttempt, ErrorEvent(a, k)
      PROVE  Heard' /\ NoStaleTracking'
  BY <1>9 DEF ErrorEvent, Reject, ClearPending, Settle
<1>10. ASSUME NEW a \in Attempts, NEW k \in Kubos, ByAttempt, ReadyEvent(a, k)
      PROVE  Heard' /\ NoStaleTracking'
  BY <1>10 DEF ReadyEvent, ClearPending, Kill, Settle
<1>11. ASSUME NEW a \in Attempts, ByAttempt, CheckPort(a) \/ CheckPortFails(a) \/ GiveWay(a) \/
            Health(a) \/ Prepared(a)
      PROVE  Heard' /\ NoStaleTracking'
  BY <1>11 DEF CheckPort, Goto, PortTaken, CheckPortFails, Fault, Settle, GiveWay, Health,
     Prepared
<1>12. ASSUME NEW a \in Attempts, NEW k \in Kubos, ByExit, ExitBeforeReady(a, k)
      PROVE  Heard' /\ NoStaleTracking'
  BY <1>12 DEF ExitBeforeReady, Reap, Exited, ExitHeard, AwaitedExit, FinishTeardown, Sweep,
     Kill, Untracked, ClearPending, Settle
<1>13. ASSUME NEW k \in Kubos, ByExit, ExitAfterReady(k)
      PROVE  Heard' /\ NoStaleTracking'
  BY <1>13 DEF ExitAfterReady, Reap, Exited, ExitHeard, AwaitedExit, FinishTeardown, Sweep,
     Kill, Untracked, KeepKuboUp, InFlight
<1>14. ASSUME NEW t \in Ticks, ByTick, TickChecked(t)
      PROVE  Heard' /\ NoStaleTracking'
  BY <1>14 DEF TickChecked, NoTick, KeepKuboUp, InFlight
<1>15. ASSUME NEW t \in Ticks, ByTick, TickFires(t) \/ TickFails(t)
      PROVE  Heard' /\ NoStaleTracking'
  BY <1>15 DEF TickFires, TickFails, NoTick, Fault
<1>16. ASSUME ByStartup, StartupBegins
      PROVE  Heard' /\ NoStaleTracking'
  BY <1>16 DEF StartupBegins, KeepKuboUp, InFlight
<1>17. ASSUME ByStartup, CreateRpc \/ RpcUp \/ RpcFails \/ SetWatchdog \/ ReachStarted
      PROVE  Heard' /\ NoStaleTracking'
  BY <1>17 DEF CreateRpc, RpcUp, RpcFails, RpcFailed, Fault, SetWatchdog, ReachStarted
<1>18. ASSUME ByShutdown, FirstSignal
      PROVE  Heard' /\ NoStaleTracking'
  BY <1>18 DEF FirstSignal, BeginShutdown, ExitProcess, ExitHandler, Kill
<1>19. ASSUME ByShutdown, StartupFails
      PROVE  Heard' /\ NoStaleTracking'
  BY <1>19 DEF StartupFails, BeginShutdown, ExitProcess, ExitHandler, Kill
<1>20. ASSUME ByShutdown, TeardownBegins
      PROVE  Heard' /\ NoStaleTracking'
  BY <1>20 DEF TeardownBegins, InterruptKubo, TrackedPid, Sweep, Kill
<1>21. ASSUME ByShutdown, TeardownExitTimeout
      PROVE  Heard' /\ NoStaleTracking'
  BY <1>21 DEF TeardownExitTimeout, FinishTeardown, Sweep, Kill
<1>22. ASSUME ByShutdown, SecondSignal \/ StateDeleted \/ ServerDestroyed \/ ReachStopped \/
            ShutdownCompletes \/ ShutdownCapped \/ HardCrash
      PROVE  Heard' /\ NoStaleTracking'
  BY <1>22 DEF SecondSignal, ExitProcess, ExitHandler, Kill, StateDeleted, ServerDestroyed,
     ReachStopped, ShutdownCompletes, ShutdownCapped, HardCrash
<1>23. CASE UNCHANGED vars
  BY <1>23 DEF vars
<1>. QED
  BY <1>1, <1>2, <1>3, <1>4, <1>5, <1>6, <1>7, <1>8, <1>9, <1>10, <1>11, <1>12, <1>13, <1>14,
     <1>15, <1>16, <1>17, <1>18, <1>19, <1>20, <1>21, <1>22, <1>23 DEF Next, Environment,
     OsStep, AttemptStep, AttemptFault, KuboExitEvent, StartupStep, ShutdownStep

\* keepKuboUp is never blocked for ever by a kubo or a start that is over.
THEOREM TrackingIsNotStale == Safety => []NoStaleTracking
<1>1. Init => Heard /\ NoStaleTracking
  BY DEF Init, Heard, NoStaleTracking
<1>. QED
  BY <1>1, TrackingInductive, OneKuboInvariant, TypeCorrect, PTL DEF Safety

-----------------------------------------------------------------------------
(* The watchdog runs once the daemon's RPC server is up *)

RpcFirst == startup = "afterRpc" /\ ~mainProcessExited => server = "up"

\* The interval is set after createOrConnectRpc and only a shutdown destroys the server.
LEMMA WatchdogInductive == TypeOK /\ OneKuboInv /\ RpcFirst /\ WatchdogImpliesRpc /\ [Next]_vars => RpcFirst' /\ WatchdogImpliesRpc'
<1> SUFFICES ASSUME TypeOK, OneKuboInv, RpcFirst, WatchdogImpliesRpc, [Next]_vars
             PROVE  RpcFirst' /\ WatchdogImpliesRpc'
  OBVIOUS
<1>. USE ConstantsOK DEF TypeOK, RpcFirst, WatchdogImpliesRpc, OneKuboInv, ShutdownOrder,
          Running, Alive, ByAttempt, ByExit, ByTick, ByStartup, ByShutdown, localVars, osVars,
          trackingVars, flightVars, kuboVars, startupVars, teardownVars, exitVars, mainVars,
          daemonVars
<1>1. ASSUME NEW k \in Kubos, KuboServes(k) \/ KuboDies(k)
      PROVE  RpcFirst' /\ WatchdogImpliesRpc'
  BY <1>1 DEF KuboServes, KuboDies, Fault
<1>2. ASSUME ForeignAppears \/ ForeignLeaves
      PROVE  RpcFirst' /\ WatchdogImpliesRpc'
  BY <1>2 DEF ForeignAppears, Fault, ForeignLeaves
<1>3. ASSUME NEW a \in Attempts, ByAttempt, CheckPort(a) \/ CheckPortFails(a) \/ GiveWay(a) \/
            GoOn(a) \/ Warned(a) \/ Health(a) \/ Prepared(a) \/ PrepareFails(a)
      PROVE  RpcFirst' /\ WatchdogImpliesRpc'
  BY <1>3 DEF CheckPort, Goto, PortTaken, CheckPortFails, Fault, Settle, GiveWay, GoOn,
     Blocked, Warned, Health, Prepared, PrepareFails, Reject, ClearPending
<1>4. ASSUME NEW a \in Attempts, NEW k \in Kubos, ByAttempt, Spawn(a, k) \/ SpawnFails(a, k) \/
            ErrorEvent(a, k) \/ ReadyEvent(a, k)
      PROVE  RpcFirst' /\ WatchdogImpliesRpc'
  BY <1>4 DEF Spawn, SpawnAs, Fresh, PidsOf, Goto, SpawnFails, Fault, ErrorEvent, Reject,
     ClearPending, Settle, ReadyEvent, Kill
<1>5. ASSUME NEW a \in Attempts, NEW k \in Kubos, ByExit, ExitBeforeReady(a, k)
      PROVE  RpcFirst' /\ WatchdogImpliesRpc'
  BY <1>5 DEF ExitBeforeReady, Reap, Exited, ExitHeard, AwaitedExit, FinishTeardown, Sweep,
     Kill, Untracked, ClearPending, Settle
<1>6. ASSUME NEW k \in Kubos, ByExit, ExitAfterReady(k)
      PROVE  RpcFirst' /\ WatchdogImpliesRpc'
  BY <1>6 DEF ExitAfterReady, Reap, Exited, ExitHeard, AwaitedExit, FinishTeardown, Sweep,
     Kill, Untracked, KeepKuboUp, InFlight
<1>7. ASSUME NEW t \in Ticks, ByTick, TickFires(t) \/ TickChecked(t) \/ TickFails(t)
      PROVE  RpcFirst' /\ WatchdogImpliesRpc'
  BY <1>7 DEF TickFires, TickChecked, NoTick, KeepKuboUp, InFlight, TickFails, Fault
<1>8. ASSUME ByStartup, StartupBegins
      PROVE  RpcFirst' /\ WatchdogImpliesRpc'
  BY <1>8 DEF StartupBegins, KeepKuboUp, InFlight
<1>9. ASSUME ByStartup, CreateRpc
      PROVE  RpcFirst' /\ WatchdogImpliesRpc'
  BY <1>9 DEF CreateRpc
<1>10. ASSUME ByStartup, RpcUp
      PROVE  RpcFirst' /\ WatchdogImpliesRpc'
  BY <1>10 DEF RpcUp
<1>11. ASSUME ByStartup, RpcFails
      PROVE  RpcFirst' /\ WatchdogImpliesRpc'
  BY <1>11 DEF RpcFails, RpcFailed, Fault
<1>12. ASSUME ByStartup, SetWatchdog
      PROVE  RpcFirst' /\ WatchdogImpliesRpc'
  BY <1>12 DEF SetWatchdog
<1>13. ASSUME ByStartup, ReachStarted
      PROVE  RpcFirst' /\ WatchdogImpliesRpc'
  BY <1>13 DEF ReachStarted
<1>14. ASSUME ByShutdown, FirstSignal
      PROVE  RpcFirst' /\ WatchdogImpliesRpc'
  BY <1>14 DEF FirstSignal, BeginShutdown, ExitProcess, ExitHandler, Kill
<1>15. ASSUME ByShutdown, SecondSignal
      PROVE  RpcFirst' /\ WatchdogImpliesRpc'
  BY <1>15 DEF SecondSignal, ExitProcess, ExitHandler, Kill
<1>16. ASSUME ByShutdown, StartupFails
      PROVE  RpcFirst' /\ WatchdogImpliesRpc'
  BY <1>16 DEF StartupFails, BeginShutdown, ExitProcess, ExitHandler, Kill
<1>17. ASSUME ByShutdown, ServerDestroyed
      PROVE  RpcFirst' /\ WatchdogImpliesRpc'
  BY <1>17 DEF ServerDestroyed
<1>18. ASSUME ByShutdown, ShutdownCompletes
      PROVE  RpcFirst' /\ WatchdogImpliesRpc'
  BY <1>18 DEF ShutdownCompletes, ExitProcess, ExitHandler, Kill
<1>19. ASSUME ByShutdown, ShutdownCapped
      PROVE  RpcFirst' /\ WatchdogImpliesRpc'
  BY <1>19 DEF ShutdownCapped, ExitProcess, ExitHandler, Kill
<1>20. ASSUME ByShutdown, StateDeleted \/ ReachStopped \/ TeardownBegins \/ TeardownExitTimeout \/
            HardCrash
      PROVE  RpcFirst' /\ WatchdogImpliesRpc'
  BY <1>20 DEF StateDeleted, ReachStopped, TeardownBegins, InterruptKubo, TrackedPid, Sweep,
     Kill, TeardownExitTimeout, FinishTeardown, HardCrash
<1>21. CASE UNCHANGED vars
  BY <1>21 DEF vars
<1>. QED
  BY <1>1, <1>2, <1>3, <1>4, <1>5, <1>6, <1>7, <1>8, <1>9, <1>10, <1>11, <1>12, <1>13, <1>14,
     <1>15, <1>16, <1>17, <1>18, <1>19, <1>20, <1>21 DEF Next, Environment, OsStep, AttemptStep,
     AttemptFault, KuboExitEvent, StartupStep, ShutdownStep

\* createOrConnectRpc is called from every tick without a single-flight guard of its own; it never
\* needs one.
THEOREM WatchdogFollowsRpc == Safety => []WatchdogImpliesRpc
<1>1. Init => RpcFirst /\ WatchdogImpliesRpc
  BY DEF Init, RpcFirst, WatchdogImpliesRpc
<1>. QED
  BY <1>1, WatchdogInductive, OneKuboInvariant, TypeCorrect, PTL DEF Safety

-----------------------------------------------------------------------------
(* A kubo in service is asked to stop before it is killed *)

NotYetAdopted ==
    \A a \in Attempts : attempt[a] = "booting" =>
        spawnedProcess[a] \in Kubos /\ "restart" \notin listeners[spawnedProcess[a]]

\* The SIGINT of killKuboProcess goes to the kubo that was adopted.
AdoptedTracked ==
    \A k \in Kubos : Running /\ Alive(k) /\ "restart" \in listeners[k] => kuboProcess = k \/ sig[k] # "none"

AdoptedAsked ==
    teardown = "waitExit" => \A k \in Kubos : Alive(k) /\ "restart" \in listeners[k] => sig[k] # "none"

GraceInv == NotYetAdopted /\ AdoptedTracked /\ AdoptedAsked

GraceStep == \A k \in Kubos : sig[k] = "none" /\ sig'[k] = "KILL" /\ Running' => "restart" \notin listeners[k]

\* A kubo is adopted once it is ready and stays tracked until it was sent SIGINT.
LEMMA GraceInductive == TypeOK /\ TypeOK' /\ OneKuboInv /\ OneKuboInv' /\ GraceInv /\ [Next]_vars => GraceInv' /\ GraceStep
<1> SUFFICES ASSUME TypeOK, TypeOK', OneKuboInv, OneKuboInv', GraceInv, [Next]_vars
             PROVE  GraceInv' /\ GraceStep
  OBVIOUS
<1>. USE ConstantsOK DEF TypeOK, GraceInv, NotYetAdopted, AdoptedTracked, AdoptedAsked,
          GraceStep, OneKuboInv, SingleFlight, PreSpawn, NotYetSpawned, Tracked, StartTracked,
          ShutdownOrder, AtMostOneKubo, Running, Alive, ByAttempt, ByExit, ByTick, ByStartup,
          ByShutdown, localVars, osVars, trackingVars, flightVars, kuboVars, startupVars,
          teardownVars, exitVars, mainVars, daemonVars
<1>1. ASSUME NEW k \in Kubos, KuboDies(k)
      PROVE  GraceInv' /\ GraceStep
  BY <1>1 DEF KuboDies, Fault
<1>2. ASSUME NEW k \in Kubos, KuboServes(k)
      PROVE  GraceInv' /\ GraceStep
  BY <1>2 DEF KuboServes
<1>3. ASSUME ForeignAppears \/ ForeignLeaves
      PROVE  GraceInv' /\ GraceStep
  BY <1>3 DEF ForeignAppears, Fault, ForeignLeaves
<1>4. ASSUME NEW a \in Attempts, ByAttempt, PrepareFails(a)
      PROVE  GraceInv' /\ GraceStep
  BY <1>4 DEF PrepareFails, Fault, Reject, ClearPending, Settle
<1>5. ASSUME NEW a \in Attempts, NEW k \in Kubos, ByAttempt, Spawn(a, k)
      PROVE  GraceInv' /\ GraceStep
  BY <1>5 DEF Spawn, SpawnAs, Fresh, PidsOf, Goto
<1>6. ASSUME NEW a \in Attempts, NEW k \in Kubos, ByAttempt, SpawnFails(a, k)
      PROVE  GraceInv' /\ GraceStep
  BY <1>6 DEF SpawnFails, SpawnAs, Fresh, PidsOf, Goto, Fault
<1>7. ASSUME NEW a \in Attempts, NEW k \in Kubos, ByAttempt, ErrorEvent(a, k)
      PROVE  GraceInv' /\ GraceStep
  BY <1>7 DEF ErrorEvent, Reject, ClearPending, Settle
<1>8. ASSUME NEW a \in Attempts, NEW k \in Kubos, ByAttempt, ReadyEvent(a, k)
      PROVE  GraceInv' /\ GraceStep
  BY <1>8 DEF ReadyEvent, ClearPending, Kill, Settle
<1>9. ASSUME NEW a \in Attempts, ByAttempt, CheckPort(a) \/ CheckPortFails(a) \/ GiveWay(a) \/
            GoOn(a) \/ Warned(a) \/ Health(a) \/ Prepared(a)
      PROVE  GraceInv' /\ GraceStep
  BY <1>9 DEF CheckPort, Goto, PortTaken, CheckPortFails, Fault, Settle, GiveWay, GoOn,
     Blocked, Warned, Health, Prepared
<1>10. ASSUME NEW a \in Attempts, NEW k \in Kubos, ByExit, ExitBeforeReady(a, k)
      PROVE  GraceInv' /\ GraceStep
  BY <1>10 DEF ExitBeforeReady, Reap, Exited, ExitHeard, AwaitedExit, FinishTeardown, Sweep,
     Kill, Untracked, ClearPending, Settle
<1>11. ASSUME NEW k \in Kubos, ByExit, ExitAfterReady(k)
      PROVE  GraceInv' /\ GraceStep
  BY <1>11 DEF ExitAfterReady, Reap, Exited, ExitHeard, AwaitedExit, FinishTeardown, Sweep,
     Kill, Untracked, KeepKuboUp, InFlight
<1>12. ASSUME NEW t \in Ticks, ByTick, TickFires(t) \/ TickChecked(t) \/ TickFails(t)
      PROVE  GraceInv' /\ GraceStep
  BY <1>12 DEF TickFires, TickChecked, NoTick, KeepKuboUp, InFlight, TickFails, Fault
<1>13. ASSUME ByStartup, StartupBegins \/ CreateRpc \/ RpcUp \/ RpcFails \/ SetWatchdog \/
            ReachStarted
      PROVE  GraceInv' /\ GraceStep
  BY <1>13 DEF StartupBegins, KeepKuboUp, InFlight, CreateRpc, RpcUp, RpcFails, RpcFailed,
     Fault, SetWatchdog, ReachStarted
<1>14. ASSUME ByShutdown, FirstSignal
      PROVE  GraceInv' /\ GraceStep
  BY <1>14 DEF FirstSignal, BeginShutdown, ExitProcess, ExitHandler, Kill
<1>15. ASSUME ByShutdown, SecondSignal
      PROVE  GraceInv' /\ GraceStep
  BY <1>15 DEF SecondSignal, ExitProcess, ExitHandler, Kill
<1>16. ASSUME ByShutdown, StartupFails
      PROVE  GraceInv' /\ GraceStep
  BY <1>16 DEF StartupFails, BeginShutdown, ExitProcess, ExitHandler, Kill
<1>17. ASSUME ByShutdown, TeardownBegins
      PROVE  GraceInv' /\ GraceStep
  BY <1>17 DEF TeardownBegins, InterruptKubo, TrackedPid, Sweep, Kill
<1>18. ASSUME ByShutdown, TeardownExitTimeout
      PROVE  GraceInv' /\ GraceStep
  BY <1>18 DEF TeardownExitTimeout, FinishTeardown, Sweep, Kill
<1>19. ASSUME ByShutdown, ShutdownCompletes
      PROVE  GraceInv' /\ GraceStep
  BY <1>19 DEF ShutdownCompletes, ExitProcess, ExitHandler, Kill
<1>20. ASSUME ByShutdown, ShutdownCapped
      PROVE  GraceInv' /\ GraceStep
  BY <1>20 DEF ShutdownCapped, ExitProcess, ExitHandler, Kill
<1>21. ASSUME ByShutdown, StateDeleted \/ ServerDestroyed \/ ReachStopped \/ HardCrash
      PROVE  GraceInv' /\ GraceStep
  BY <1>21 DEF StateDeleted, ServerDestroyed, ReachStopped, HardCrash
<1>22. CASE UNCHANGED vars
  BY <1>22 DEF vars
<1>. QED
  BY <1>1, <1>2, <1>3, <1>4, <1>5, <1>6, <1>7, <1>8, <1>9, <1>10, <1>11, <1>12, <1>13, <1>14,
     <1>15, <1>16, <1>17, <1>18, <1>19, <1>20, <1>21, <1>22 DEF Next, Environment, OsStep,
     AttemptStep, AttemptFault, KuboExitEvent, StartupStep, ShutdownStep

\* Only the end of the daemon process itself takes an adopted kubo's chance to close its datastore.
THEOREM AdoptedKuboIsAsked == Safety => AdoptedKuboGetsGrace
<1>1. Init => GraceInv
  BY DEF Init, GraceInv, NotYetAdopted, AdoptedTracked, AdoptedAsked, Alive
<1>2. GraceInv /\ UNCHANGED vars => GraceStep
  BY DEF GraceStep, vars, osVars
<1>3. GraceStep <=> \A k \in Kubos : sig[k] = "none" /\ sig'[k] = "KILL" /\ Running' => "restart" \notin listeners[k]
  BY DEF GraceStep
<1>. QED
  BY <1>1, <1>2, <1>3, GraceInductive, OneKuboInvariant, TypeCorrect, PTL DEF Safety, AdoptedKuboGetsGrace

-----------------------------------------------------------------------------
(* The supervisor implements KuboContract *)

\* A step that only sends SIGKILLs is a Doom step of the contract.
LEMMA KillsAreDooms ==
    ASSUME Running, Running', UNCHANGED exitKind,
           \A k \in Kubos : Alive(k)' <=> Alive(k),
           \A k \in Kubos : Alive(k) /\ sig[k] = "KILL" => sig'[k] = "KILL"
    PROVE  Contract!Next
<1>. DEFINE S == {k \in Kubos : sig'[k] = "KILL"}
<1>1. S \in SUBSET Kubos
  OBVIOUS
<1>2. Contract!Doom(S)
  BY DEF Contract!Doom, Running
<1>. QED
  BY <1>1, <1>2 DEF Contract!Next, Contract!Doom

\* Every step is a step of the contract or leaves what it sees unchanged.
LEMMA ContractStep == TypeOK /\ OneKuboInv /\ Reachable /\ [Next]_vars => Contract!Next \/ UNCHANGED Contract!cvars
<1> SUFFICES ASSUME TypeOK, OneKuboInv, Reachable, [Next]_vars
             PROVE  Contract!Next \/ UNCHANGED Contract!cvars
  OBVIOUS
<1>. USE ConstantsOK DEF TypeOK, Reachable, Contract!Next, Contract!Start, Contract!Die,
          Contract!Doom, Contract!Stop, Contract!Crash, Contract!cvars, OneKuboInv,
          SingleFlight, PreSpawn, NotYetSpawned, Tracked, StartTracked, ShutdownOrder,
          AtMostOneKubo, Running, Alive, ByAttempt, ByExit, ByTick, ByStartup, ByShutdown,
          localVars, osVars, trackingVars, flightVars, kuboVars, startupVars, teardownVars,
          exitVars, mainVars, daemonVars
<1>1. ASSUME NEW k \in Kubos, KuboServes(k)
      PROVE  Contract!Next \/ UNCHANGED Contract!cvars
  BY <1>1 DEF KuboServes
<1>2. ASSUME NEW k \in Kubos, KuboDies(k)
      PROVE  Contract!Next \/ UNCHANGED Contract!cvars
  BY <1>2 DEF KuboDies, Fault
<1>3. ASSUME ForeignAppears \/ ForeignLeaves
      PROVE  Contract!Next \/ UNCHANGED Contract!cvars
  BY <1>3 DEF ForeignAppears, Fault, ForeignLeaves
<1>4. ASSUME NEW a \in Attempts, NEW k \in Kubos, ByAttempt, Spawn(a, k)
      PROVE  Contract!Next \/ UNCHANGED Contract!cvars
  BY <1>4 DEF Spawn, SpawnAs, Fresh, PidsOf, Goto
<1>5. ASSUME NEW a \in Attempts, NEW k \in Kubos, ByAttempt, SpawnFails(a, k)
      PROVE  Contract!Next \/ UNCHANGED Contract!cvars
  BY <1>5 DEF SpawnFails, SpawnAs, Fresh, PidsOf, Goto, Fault
<1>6. ASSUME NEW a \in Attempts, NEW k \in Kubos, ByAttempt, ErrorEvent(a, k)
      PROVE  Contract!Next \/ UNCHANGED Contract!cvars
  BY <1>6 DEF ErrorEvent, Reject, ClearPending, Settle
<1>7. ASSUME NEW a \in Attempts, NEW k \in Kubos, ByAttempt, ReadyEvent(a, k)
      PROVE  Contract!Next \/ UNCHANGED Contract!cvars
  <2>1. /\ \A j \in Kubos : Alive(j)' <=> Alive(j)
        /\ \A j \in Kubos : Alive(j) /\ sig[j] = "KILL" => sig'[j] = "KILL"
        /\ Running' /\ UNCHANGED exitKind
    BY <1>7 DEF ReadyEvent, Kill
  <2>. QED
    BY <1>7, <2>1, KillsAreDooms
<1>8. ASSUME NEW a \in Attempts, ByAttempt, CheckPort(a) \/ CheckPortFails(a) \/ GiveWay(a) \/
            GoOn(a) \/ Warned(a) \/ Health(a) \/ Prepared(a) \/ PrepareFails(a)
      PROVE  Contract!Next \/ UNCHANGED Contract!cvars
  BY <1>8 DEF CheckPort, Goto, PortTaken, CheckPortFails, Fault, Settle, GiveWay, GoOn,
     Blocked, Warned, Health, Prepared, PrepareFails, Reject, ClearPending
<1>9. ASSUME NEW a \in Attempts, NEW k \in Kubos, ByExit, ExitBeforeReady(a, k)
      PROVE  Contract!Next \/ UNCHANGED Contract!cvars
  <2>1. /\ \A j \in Kubos : Alive(j)' <=> Alive(j)
        /\ \A j \in Kubos : Alive(j) /\ sig[j] = "KILL" => sig'[j] = "KILL"
        /\ Running' /\ UNCHANGED exitKind
    BY <1>9 DEF ExitBeforeReady, Reap, Exited, ExitHeard, AwaitedExit, FinishTeardown, Sweep, Kill
  <2>. QED
    BY <1>9, <2>1, KillsAreDooms
<1>10. ASSUME NEW k \in Kubos, ByExit, ExitAfterReady(k)
      PROVE  Contract!Next \/ UNCHANGED Contract!cvars
  <2>1. /\ \A j \in Kubos : Alive(j)' <=> Alive(j)
        /\ \A j \in Kubos : Alive(j) /\ sig[j] = "KILL" => sig'[j] = "KILL"
        /\ Running' /\ UNCHANGED exitKind
    BY <1>10 DEF ExitAfterReady, Reap, Exited, ExitHeard, AwaitedExit, FinishTeardown, Sweep, Kill
  <2>. QED
    BY <1>10, <2>1, KillsAreDooms
<1>11. ASSUME NEW t \in Ticks, ByTick, TickFires(t) \/ TickChecked(t) \/ TickFails(t)
      PROVE  Contract!Next \/ UNCHANGED Contract!cvars
  BY <1>11 DEF TickFires, TickChecked, NoTick, KeepKuboUp, InFlight, TickFails, Fault
<1>12. ASSUME ByStartup, StartupBegins \/ CreateRpc \/ RpcUp \/ RpcFails \/ SetWatchdog \/
            ReachStarted
      PROVE  Contract!Next \/ UNCHANGED Contract!cvars
  BY <1>12 DEF StartupBegins, KeepKuboUp, InFlight, CreateRpc, RpcUp, RpcFails, RpcFailed,
     Fault, SetWatchdog, ReachStarted
<1>13. ASSUME ByShutdown, FirstSignal
      PROVE  Contract!Next \/ UNCHANGED Contract!cvars
  BY <1>13 DEF FirstSignal, BeginShutdown, ExitProcess, ExitHandler, Kill
<1>14. ASSUME ByShutdown, SecondSignal
      PROVE  Contract!Next \/ UNCHANGED Contract!cvars
  BY <1>14 DEF SecondSignal, ExitProcess, ExitHandler, Kill
<1>15. ASSUME ByShutdown, StartupFails
      PROVE  Contract!Next \/ UNCHANGED Contract!cvars
  BY <1>15 DEF StartupFails, BeginShutdown, ExitProcess, ExitHandler, Kill
<1>16. ASSUME ByShutdown, TeardownBegins
      PROVE  Contract!Next \/ UNCHANGED Contract!cvars
  BY <1>16 DEF TeardownBegins, InterruptKubo, TrackedPid, Sweep, Kill
<1>17. ASSUME ByShutdown, TeardownExitTimeout
      PROVE  Contract!Next \/ UNCHANGED Contract!cvars
  BY <1>17 DEF TeardownExitTimeout, FinishTeardown, Sweep, Kill
<1>18. ASSUME ByShutdown, ShutdownCompletes
      PROVE  Contract!Next \/ UNCHANGED Contract!cvars
  BY <1>18 DEF ShutdownCompletes, ExitProcess, ExitHandler, Kill
<1>19. ASSUME ByShutdown, ShutdownCapped
      PROVE  Contract!Next \/ UNCHANGED Contract!cvars
  BY <1>19 DEF ShutdownCapped, ExitProcess, ExitHandler, Kill
<1>20. ASSUME ByShutdown, HardCrash
      PROVE  Contract!Next \/ UNCHANGED Contract!cvars
  BY <1>20 DEF HardCrash
<1>21. ASSUME ByShutdown, StateDeleted \/ ServerDestroyed \/ ReachStopped
      PROVE  Contract!Next \/ UNCHANGED Contract!cvars
  BY <1>21 DEF StateDeleted, ServerDestroyed, ReachStopped
<1>22. CASE UNCHANGED vars
  BY <1>22 DEF vars
<1>. QED
  BY <1>1, <1>2, <1>3, <1>4, <1>5, <1>6, <1>7, <1>8, <1>9, <1>10, <1>11, <1>12, <1>13, <1>14,
     <1>15, <1>16, <1>17, <1>18, <1>19, <1>20, <1>21, <1>22 DEF Next, Environment, OsStep,
     AttemptStep, AttemptFault, KuboExitEvent, StartupStep, ShutdownStep

\* For an observer of the kubo processes, the supervisor behaves like KuboContract.
THEOREM SupervisorImplementsContract == Safety => ImplementsContract
<1>1. Init => Contract!Init
  BY DEF Init, Contract!Init, Alive, Running
<1>2. Safety => []Reachable
  <2>1. Init => Reachable /\ NoOrphan
    BY DEF Init, Reachable, NoOrphan, Alive
  <2>. QED
    BY <2>1, OrphanInductive, TypeCorrect, PTL DEF Safety
<1>. QED
  BY <1>1, <1>2, ContractStep, OneKuboInvariant, TypeCorrect, PTL DEF Safety, ImplementsContract, Contract!Spec
=============================================================================

------------------------- MODULE CaddyRuntimeProofs -------------------------
(***************************************************************************)
(* The daemon around its Caddy and the router's forwards, for any number   *)
(* of processes and events: TypeOK, NoCaddyOutlivesDaemon,                 *)
(* ExpectedExitComes and ForwardsReleased.                                 *)
(*                                                                         *)
(* IInv has a part for each of the three things that are shared: the queue *)
(* of the watch (Runs), the Caddy this process started (Child, Expected,   *)
(* Gone), and the forwards (Leases, Released).                             *)
(***************************************************************************)
EXTENDS CaddyRuntime, SequenceTheorems, TLAPS

Reasons == {"start", "tick", "check"}

Processes == [state : {"none", "starting", "up", "stopping", "hung", "exited"},
              owner : {"none", "daemon", "earlier", "setup"}, conf : Versions \cup {0}]

Runtimes == [running : BOOLEAN, adopted : BOOLEAN, expecting : BOOLEAN,
             loaded : Versions \cup {0}, child : Procs \cup {None}, awaited : Procs \cup {None}]

\* Told to stop, or over.
Going == {"stopping", "hung", "exited"}

\* Nobody asks twice, and a run is in progress only for somebody who asked.
Runs ==
    /\ \A i, j \in DOMAIN queue : i # j => queue[i] # queue[j]
    /\ \A i \in DOMAIN queue : queue[i] = "check" => check.pc \in {"watched", "restored"}
    /\ watch.pc # "idle" => queue # <<>>

\* The child is a process of this daemon, and the only one.
Child ==
    /\ \A p \in Procs : Own(p) => caddy[p].state # "none"
    /\ rt.child # None => Own(rt.child)
    /\ phase # "exited" /\ ~crossed => \A p \in Procs : Own(p) => p = rt.child

\* An exit that is expected is that of a process told to stop.
Expected == rt.expecting /\ ~crossed => \E p \in Procs : Own(p) /\ caddy[p].state \in Going

\* What the exit of the process leaves.
Gone == phase = "exited" /\ ~crossed => \A p \in Procs : Own(p) => ~Live(p)

\* Forwards are asked for only where they can be given back.
Leases ==
    /\ forward => router
    /\ \A l \in Refreshes : lease[l] = "asks" => router
    /\ phase = "starting" => lease["first"] = "idle" /\ lease["interval"] = "idle"

\* After its waits, stop() finds no refresh that it does not know of.
Released ==
    /\ phase \in {"release", "caddy", "wait", "stopped"} => lease["first"] = "idle"
    /\ phase \notin {"starting", "running"} /\ ~late => lease["interval"] = "idle"
    /\ phase \in {"caddy", "wait", "stopped"} /\ ~late /\ faults = 0 => ~forward

IInv == Runs /\ Child /\ Expected /\ Gone /\ Leases /\ Released

-----------------------------------------------------------------------------
(* The processes *)

\* Processes are told to stop, start, end or load a file; none of the daemon's is added, and none is
\* forgotten or revived.
Aged ==
    /\ caddy' \in [Procs -> Processes]
    /\ \A p \in Procs :
          /\ (caddy'[p].owner = "daemon") <=> (caddy[p].owner = "daemon")
          /\ caddy[p].state # "none" => caddy'[p].state # "none"
          /\ caddy[p].state \in Going => caddy'[p].state \in Going

LEMMA StateEdit ==
    ASSUME NEW r \in Processes, NEW s \in {"starting", "up", "stopping", "hung", "exited"}
    PROVE  /\ [r EXCEPT !.state = s] \in Processes
           /\ [r EXCEPT !.state = s].owner = r.owner /\ [r EXCEPT !.state = s].state = s
BY DEF Processes

LEMMA ConfEdit ==
    ASSUME NEW r \in Processes, NEW v \in Versions \cup {0}
    PROVE  /\ [r EXCEPT !.conf = v] \in Processes
           /\ [r EXCEPT !.conf = v].owner = r.owner /\ [r EXCEPT !.conf = v].state = r.state
BY DEF Processes

LEMMA Typed ==
    TypeOK => /\ caddy \in [Procs -> Processes] /\ rt \in Runtimes /\ file \in Versions \cup {0}
              /\ \A p \in Procs : caddy[p] \in Processes
              /\ MaxEvents \in Nat /\ None \notin Procs
BY ConstantsOK DEF TypeOK, Processes, Runtimes

\* What a change of one process amounts to.
LEMMA OneAges ==
    ASSUME TypeOK, NEW p \in Procs, NEW r \in Processes, caddy' = [caddy EXCEPT ![p] = r],
           r.owner = caddy[p].owner, caddy[p].state # "none", r.state # "none",
           caddy[p].state \in Going => r.state \in Going
    PROVE  Aged
<1>1. caddy \in [Procs -> Processes]
  BY Typed
<1>2. \A q \in Procs : caddy'[q] = IF q = p THEN r ELSE caddy[q]
  BY <1>1
<1>3. caddy' \in [Procs -> Processes]
  BY <1>1
<1>. QED
  BY <1>2, <1>3 DEF Aged

LEMMA StopRequestAges == TypeOK /\ StopRequest => Aged
<1> SUFFICES ASSUME TypeOK, StopRequest
             PROVE  Aged
  OBVIOUS
<1>1. \A p \in Procs : caddy'[p] = IF Up(p) THEN [caddy[p] EXCEPT !.state = "stopping"] ELSE caddy[p]
  BY DEF StopRequest
<1>2. \A p \in Procs : /\ [caddy[p] EXCEPT !.state = "stopping"] \in Processes
                       /\ [caddy[p] EXCEPT !.state = "stopping"].owner = caddy[p].owner
                       /\ [caddy[p] EXCEPT !.state = "stopping"].state = "stopping"
  BY Typed, StateEdit
<1>3. caddy' \in [Procs -> Processes]
  BY <1>2, Typed DEF StopRequest
<1>. QED
  BY <1>1, <1>2, <1>3 DEF Aged, Up, Going

LEMMA LoadFileAges == ASSUME TypeOK, NEW v \in Versions \cup {0}, caddy' = LoadFile(v)
                      PROVE  Aged
<1>1. \A p \in Procs : caddy'[p] = IF Up(p) THEN [caddy[p] EXCEPT !.conf = v] ELSE caddy[p]
  BY DEF LoadFile
<1>2. \A p \in Procs : /\ [caddy[p] EXCEPT !.conf = v] \in Processes
                       /\ [caddy[p] EXCEPT !.conf = v].owner = caddy[p].owner
                       /\ [caddy[p] EXCEPT !.conf = v].state = caddy[p].state
  BY Typed, ConfEdit
<1>3. caddy' \in [Procs -> Processes]
  BY <1>2, Typed DEF LoadFile
<1>. QED
  BY <1>1, <1>2, <1>3 DEF Aged

LEMMA TerminateAges == ASSUME TypeOK, NEW p, Terminate(p)
                       PROVE  Aged
<1>1. \A q \in Procs : caddy'[q] = IF q = p /\ caddy[q].state \in {"starting", "up"}
                                   THEN [caddy[q] EXCEPT !.state = "stopping"] ELSE caddy[q]
  BY DEF Terminate
<1>2. \A q \in Procs : /\ [caddy[q] EXCEPT !.state = "stopping"] \in Processes
                       /\ [caddy[q] EXCEPT !.state = "stopping"].owner = caddy[q].owner
                       /\ [caddy[q] EXCEPT !.state = "stopping"].state = "stopping"
  BY Typed, StateEdit
<1>3. caddy' \in [Procs -> Processes]
  BY <1>2, Typed DEF Terminate
<1>. QED
  BY <1>1, <1>2, <1>3 DEF Aged, Going

LEMMA SigKillAges ==
    ASSUME TypeOK, NEW p, SigKill(p)
    PROVE  /\ Aged
           /\ p \in Procs => caddy'[p].state \notin {"starting", "up", "stopping", "hung"}
<1>1. \A q \in Procs : caddy'[q] = IF q = p /\ Live(q) THEN [caddy[q] EXCEPT !.state = "exited"] ELSE caddy[q]
  BY DEF SigKill
<1>2. \A q \in Procs : /\ [caddy[q] EXCEPT !.state = "exited"] \in Processes
                       /\ [caddy[q] EXCEPT !.state = "exited"].owner = caddy[q].owner
                       /\ [caddy[q] EXCEPT !.state = "exited"].state = "exited"
  BY Typed, StateEdit
<1>3. caddy' \in [Procs -> Processes]
  BY <1>2, Typed DEF SigKill
<1>. QED
  BY <1>1, <1>2, <1>3 DEF Aged, Going, Live

\* caddy.stop ends the child, unless another one has answered for it.
LEMMA StopOwnAges ==
    ASSUME TypeOK, Child, StopOwn
    PROVE  /\ Aged
           /\ UNCHANGED faults \/ Fault
           /\ rt.child # None /\ ~Crosses => caddy'[rt.child].state \in Going
<1>1. Aged
  BY StopRequestAges, TerminateAges DEF StopOwn
<1>2. UNCHANGED faults \/ Fault
  BY DEF StopOwn
<1>3. ASSUME rt.child # None, ~Crosses
      PROVE  caddy'[rt.child].state \in Going
  <2>. DEFINE p == rt.child
  <2>1. p \in Procs /\ caddy[p] \in Processes /\ caddy[p].state # "none"
    BY <1>3, Typed DEF Child, Runtimes
  <2>2. [caddy[p] EXCEPT !.state = "stopping"].state = "stopping"
    BY <2>1, StateEdit
  <2>3. CASE IsUp
    <3>1. Up(p)
      BY <1>3, <2>3 DEF Crosses
    <3>2. caddy'[p] = [caddy[p] EXCEPT !.state = "stopping"]
      BY <2>1, <2>3, <3>1 DEF StopOwn, StopRequest, Terminate, Up
    <3>. QED
      BY <2>2, <3>2 DEF Going
  <2>4. CASE ~IsUp
    <3>1. /\ caddy[p].state # "up"
          /\ caddy'[p] = IF caddy[p].state \in {"starting", "up"}
                         THEN [caddy[p] EXCEPT !.state = "stopping"] ELSE caddy[p]
      BY <2>1, <2>4 DEF StopOwn, Terminate, IsUp, Up
    <3>. QED
      BY <2>1, <2>2, <3>1 DEF Going, Processes
  <2>. QED
    BY <2>3, <2>4
<1>. QED
  BY <1>1, <1>2, <1>3

\* All that TypeOK says but of the processes and of what this one knows of them.
Rest ==
    /\ file \in Versions \cup {0}
    /\ queue \in Seq(Reasons) /\ Len(queue) <= 3
    /\ watch \in [pc : {"idle", "halt", "stillUp", "probe", "start", "reload"}, file : Versions \cup {0}]
    /\ phase \in {"starting", "running", "check", "queue", "leases", "release", "caddy", "wait", "stopped", "exited"}
    /\ check \in [pc : {"idle", "watched", "issue", "restored"}, previous : Versions \cup {0}]
    /\ lease \in [Refreshes -> {"idle", "asks"}] /\ router \in BOOLEAN /\ forward \in BOOLEAN
    /\ cli \in {"idle", "grace", "own"} /\ late \in BOOLEAN
    /\ changes \in 0..MaxEvents /\ faults \in 0..MaxEvents

LEMMA TypeParts ==
    TypeOK => /\ Rest /\ caddy \in [Procs -> Processes] /\ rt \in Runtimes /\ crossed \in BOOLEAN
              /\ rt.running => rt.adopted \/ rt.child # None
BY DEF TypeOK, Rest, Processes, Runtimes, Reasons

LEMMA FromTypeParts ==
    ASSUME Rest', caddy' \in [Procs -> Processes], rt' \in Runtimes, crossed' \in BOOLEAN,
           rt'.running => rt'.adopted \/ rt'.child # None
    PROVE  TypeOK'
BY DEF TypeOK, Rest, Processes, Runtimes, Reasons

\* Three reasons that differ are all there are.
LEMMA AtMostThree ==
    ASSUME NEW s \in Seq(Reasons), \A i, j \in DOMAIN s : i # j => s[i] # s[j]
    PROVE  Len(s) <= 3
<1>1. Len(s) \in Nat /\ DOMAIN s = 1..Len(s) /\ \A i \in 1..Len(s) : s[i] \in Reasons
  BY LenProperties, ElementOfSeq
<1>2. SUFFICES ASSUME Len(s) > 3
               PROVE  FALSE
  BY <1>1
<1>3. 1 \in DOMAIN s /\ 2 \in DOMAIN s /\ 3 \in DOMAIN s /\ 4 \in DOMAIN s
  BY <1>1, <1>2
<1>4. /\ s[1] \in Reasons /\ s[2] \in Reasons /\ s[3] \in Reasons /\ s[4] \in Reasons
      /\ s[1] # s[2] /\ s[1] # s[3] /\ s[1] # s[4] /\ s[2] # s[3] /\ s[2] # s[4] /\ s[3] # s[4]
  BY <1>1, <1>3
<1>. QED
  BY <1>4 DEF Reasons

\* One more asks.
LEMMA Asks ==
    ASSUME TypeOK, Runs, NEW r \in Reasons, queue' = Append(queue, r), \A i \in DOMAIN queue : queue[i] # r,
           watch' = watch,
           (\E i \in DOMAIN queue : queue[i] = "check") \/ r = "check" => check'.pc \in {"watched", "restored"}
    PROVE  queue' \in Seq(Reasons) /\ Len(queue') <= 3 /\ Runs'
<1>1. /\ queue \in Seq(Reasons) /\ Len(queue) \in Nat /\ DOMAIN queue = 1..Len(queue)
      /\ queue' \in Seq(Reasons) /\ DOMAIN queue' = 1..(Len(queue) + 1)
      /\ \A i \in 1..Len(queue) : queue'[i] = queue[i]
      /\ queue'[Len(queue) + 1] = r
      /\ queue' # <<>>
  BY DEF TypeOK, Reasons
<1>2. \A i, j \in DOMAIN queue' : i # j => queue'[i] # queue'[j]
  BY <1>1 DEF Runs
<1>3. \A i \in DOMAIN queue' : queue'[i] = "check" => check'.pc \in {"watched", "restored"}
  BY <1>1 DEF Runs
<1>4. Len(queue') <= 3
  BY <1>1, <1>2, AtMostThree
<1>. QED
  BY <1>1, <1>2, <1>3, <1>4 DEF Runs

\* A run ends.
LEMMA Ends ==
    ASSUME TypeOK, Runs, queue # <<>>, NEW ok \in BOOLEAN, End(ok)
    PROVE  /\ queue' \in Seq(Reasons) /\ Len(queue') <= 3 /\ Runs'
           /\ watch' = IdleWatch
           /\ check' \in [pc : {"idle", "watched", "issue", "restored"}, previous : Versions \cup {0}]
           /\ \/ UNCHANGED <<phase, nat>>
              \/ phase = "starting" /\ phase' = "running" /\ RefreshLeases("first")
<1>1. /\ watch' = IdleWatch /\ queue' = Tail(queue)
      /\ check' = IF Head(queue) # "check" THEN check
                  ELSE [check EXCEPT !.pc = IF ok /\ check.pc = "watched" THEN "issue" ELSE "idle"]
      /\ \/ UNCHANGED <<phase, nat>>
         \/ phase = "starting" /\ phase' = "running" /\ RefreshLeases("first")
  BY DEF End
<1>2. /\ queue \in Seq(Reasons) /\ Len(queue) \in Nat /\ Len(queue) >= 1 /\ DOMAIN queue = 1..Len(queue)
      /\ Head(queue) = queue[1]
  BY DEF TypeOK, Reasons
<1>3. /\ queue' \in Seq(Reasons) /\ Len(queue') = Len(queue) - 1 /\ DOMAIN queue' = 1..(Len(queue) - 1)
      /\ \A i \in 1..(Len(queue) - 1) : queue'[i] = queue[i + 1]
  BY <1>1, <1>2
<1>4. check' \in [pc : {"idle", "watched", "issue", "restored"}, previous : Versions \cup {0}]
  BY <1>1 DEF TypeOK
<1>5. \A i \in DOMAIN queue' : i + 1 \in DOMAIN queue /\ i + 1 # 1 /\ queue'[i] = queue[i + 1]
  BY <1>2, <1>3
<1>6. \A i, j \in DOMAIN queue' : i # j => queue'[i] # queue'[j]
  <2>1. \A i, j \in DOMAIN queue' : i # j => i + 1 # j + 1
    BY <1>3
  <2>. QED
    BY <1>5, <2>1 DEF Runs
<1>7. ASSUME NEW i \in DOMAIN queue', queue'[i] = "check"
      PROVE  check'.pc \in {"watched", "restored"}
  <2>1. i + 1 \in DOMAIN queue /\ queue[i + 1] = "check" /\ 1 \in DOMAIN queue /\ i + 1 # 1
    BY <1>2, <1>5, <1>7
  <2>2. queue[1] # "check"
    BY <2>1 DEF Runs
  <2>. QED
    BY <1>1, <1>2, <2>1, <2>2 DEF Runs
<1>8. Len(queue') <= 3
  BY <1>2, <1>3 DEF TypeOK
<1>9. Runs'
  BY <1>1, <1>6, <1>7 DEF Runs, IdleWatch
<1>. QED
  BY <1>1, <1>3, <1>4, <1>8, <1>9

\* The processes age and the child stays, or nothing is left of it to wait for.
LEMMA ChildStays ==
    ASSUME TypeOK, Child, Aged, crossed => crossed', rt'.child = rt.child, phase # "exited"
    PROVE  Child'
<1>1. \A p \in Procs : Own(p)' <=> Own(p)
  BY DEF Aged, Own
<1>2. rt.child # None => rt.child \in Procs
  BY Typed DEF Runtimes
<1>. QED
  BY <1>1, <1>2 DEF Child, Aged

LEMMA StillExpected ==
    ASSUME TypeOK, Expected, Aged, crossed => crossed', rt'.expecting => rt.expecting
    PROVE  Expected'
<1>1. SUFFICES ASSUME rt.expecting, ~crossed
               PROVE  \E p \in Procs : Own(p)' /\ caddy'[p].state \in Going
  BY DEF Expected
<1>2. PICK p \in Procs : Own(p) /\ caddy[p].state \in Going
  BY <1>1 DEF Expected
<1>. QED
  BY <1>2 DEF Aged, Own

\* The forwards are left alone.
LEMMA LeasesStay ==
    ASSUME Leases, Released, UNCHANGED nat, late' = late, faults = faults' \/ faults' # 0,
           phase' = phase \/ (phase = "starting" /\ phase' = "running")
    PROVE  Leases' /\ Released'
<1>1. forward' = forward /\ router' = router /\ lease' = lease
  BY DEF nat
<1>. QED
  BY <1>1 DEF Leases, Released

LEMMA RefreshKeeps ==
    ASSUME TypeOK, Leases, Released, NEW l \in Refreshes, RefreshLeases(l), \A k \in Refreshes : lease[k] = "idle",
           late' = late, phase \in {"starting", "running"}, phase' = "running"
    PROVE  Leases' /\ Released' /\ lease' \in [Refreshes -> {"idle", "asks"}] /\ router' \in BOOLEAN /\ forward' \in BOOLEAN
<1>1. /\ lease \in [Refreshes -> {"idle", "asks"}] /\ router \in BOOLEAN /\ forward \in BOOLEAN
  BY DEF TypeOK
<1>2. CASE file = 0
  <2>1. lease' = lease /\ router' = FALSE /\ forward' = FALSE
    BY <1>2 DEF RefreshLeases, Leases
  <2>. QED
    BY <1>1, <2>1 DEF Leases, Released
<1>3. CASE file # 0
  <2>1. lease' = [lease EXCEPT ![l] = "asks"] /\ router' = TRUE /\ forward' = forward
    BY <1>3 DEF RefreshLeases
  <2>. QED
    BY <1>1, <2>1 DEF Leases, Released
<1>. QED
  BY <1>2, <1>3

LEMMA FaultIsCounted ==
    ASSUME TypeOK, UNCHANGED faults \/ Fault
    PROVE  faults' \in 0..MaxEvents /\ (faults' = faults \/ faults' # 0)
BY ConstantsOK DEF TypeOK, Fault, Room

LEMMA Unmoved == TypeOK /\ UNCHANGED caddy => Aged
BY Typed DEF Aged

\* Runs, the forwards and the rest, when a run of the watch moves on or ends.
LEMMA RunMoves ==
    ASSUME TypeOK, IInv, phase # "exited", queue # <<>>, UNCHANGED <<world, late>>, UNCHANGED faults \/ Fault,
           \/ \E ok \in BOOLEAN : End(ok)
           \/ /\ watch' \in [pc : {"idle", "halt", "stillUp", "probe", "start", "reload"}, file : Versions \cup {0}]
              /\ UNCHANGED <<queue, check, phase, nat>>
    PROVE  Rest' /\ Runs' /\ Leases' /\ Released' /\ phase' # "exited"
<1>1. /\ Rest /\ faults' \in 0..MaxEvents /\ (faults' = faults \/ faults' # 0)
      /\ Runs /\ Leases /\ Released /\ UNCHANGED <<file, cli, changes, late>>
  <2>1. Rest
    BY TypeParts
  <2>2. faults' \in 0..MaxEvents /\ (faults' = faults \/ faults' # 0)
    BY FaultIsCounted
  <2>. QED
    BY <2>1, <2>2 DEF IInv, world
<1>2. CASE UNCHANGED <<queue, check, phase, nat>> /\ watch' \in [pc : {"idle", "halt", "stillUp", "probe", "start", "reload"}, file : Versions \cup {0}]
  <2>1. Leases' /\ Released'
    BY <1>1, <1>2, LeasesStay
  <2>2. Rest'
    BY <1>1, <1>2 DEF Rest, nat
  <2>3. Runs'
    BY <1>1, <1>2 DEF Runs
  <2>. QED
    BY <1>2, <2>1, <2>2, <2>3
<1>3. CASE \E ok \in BOOLEAN : End(ok)
  <2>1. /\ queue' \in Seq(Reasons) /\ Len(queue') <= 3 /\ Runs' /\ watch' = IdleWatch
        /\ check' \in [pc : {"idle", "watched", "issue", "restored"}, previous : Versions \cup {0}]
        /\ \/ UNCHANGED <<phase, nat>>
           \/ phase = "starting" /\ phase' = "running" /\ RefreshLeases("first")
    BY <1>1, <1>3, Ends
  <2>2. watch' \in [pc : {"idle", "halt", "stillUp", "probe", "start", "reload"}, file : Versions \cup {0}]
    BY <2>1 DEF IdleWatch
  <2>3. CASE UNCHANGED <<phase, nat>>
    <3>1. Leases' /\ Released'
      BY <1>1, <2>3, LeasesStay
    <3>2. Rest'
      BY <1>1, <2>1, <2>2, <2>3 DEF Rest, nat
    <3>. QED
      BY <2>1, <2>3, <3>1, <3>2
  <2>4. CASE phase = "starting" /\ phase' = "running" /\ RefreshLeases("first")
    <3>1. \A k \in Refreshes : lease[k] = "idle"
      BY <1>1, <2>4 DEF Leases, Refreshes
    <3>2. /\ Leases' /\ Released'
          /\ lease' \in [Refreshes -> {"idle", "asks"}] /\ router' \in BOOLEAN /\ forward' \in BOOLEAN
      BY <1>1, <2>4, <3>1, RefreshKeeps DEF Refreshes
    <3>3. Rest'
      BY <1>1, <2>1, <2>2, <2>4, <3>2 DEF Rest
    <3>. QED
      BY <2>1, <2>4, <3>2, <3>3
  <2>. QED
    BY <2>1, <2>3, <2>4
<1>. QED
  BY <1>2, <1>3

\* The processes age, or the Caddyfile changes under the daemon.
LEMMA OutsideStep ==
    ASSUME TypeOK, IInv, phase # "exited", Aged, UNCHANGED <<rt, queue, watch, phase, check, nat, observed>>,
           UNCHANGED faults \/ Fault, file' \in Versions \cup {0}, cli' \in {"idle", "grace", "own"},
           changes' \in 0..MaxEvents
    PROVE  TypeOK' /\ IInv'
<1>1. /\ Rest /\ rt \in Runtimes /\ crossed \in BOOLEAN
      /\ rt.running => rt.adopted \/ rt.child # None
      /\ faults' \in 0..MaxEvents
      /\ faults' = faults \/ faults' # 0
  <2>1. faults' \in 0..MaxEvents /\ (faults' = faults \/ faults' # 0)
    BY FaultIsCounted
  <2>. QED
    BY <2>1, TypeParts
<1>2. late' = late /\ crossed' = crossed /\ rt' = rt /\ phase' = phase
  BY DEF observed
<1>3. Rest'
  BY <1>1, <1>2 DEF Rest, nat
<1>4. TypeOK'
  <2>1. caddy' \in [Procs -> Processes]
    BY DEF Aged
  <2>. QED
    BY <1>1, <1>2, <1>3, <2>1, FromTypeParts
<1>5. Runs'
  BY DEF IInv, Runs
<1>6. Child' /\ Expected'
  BY <1>2, ChildStays, StillExpected DEF IInv
<1>7. Leases' /\ Released'
  BY <1>1, <1>2, LeasesStay DEF IInv
<1>8. Gone'
  BY <1>2 DEF Gone
<1>. QED
  BY <1>4, <1>5, <1>6, <1>7, <1>8 DEF IInv

-----------------------------------------------------------------------------
(* What the processes do *)

LEMMA CaddyAgesStep ==
    ASSUME TypeOK, IInv, phase # "exited", NEW p \in Procs,
           CaddyStarts(p) \/ CaddyExits(p) \/ CaddyCrashes(p) \/ CaddyHangs(p)
    PROVE  TypeOK' /\ IInv'
<1>1. caddy[p] \in Processes /\ file \in Versions \cup {0}
  BY Typed
<1>2. /\ UNCHANGED <<rt, queue, watch, phase, check, nat, observed, file, cli, changes>>
      /\ UNCHANGED faults \/ Fault
  BY DEF CaddyStarts, CaddyExits, CaddyCrashes, CaddyHangs, world
<1>3. Aged
  <2>1. CASE CaddyStarts(p)
    <3>. DEFINE r == IF IsUp THEN [caddy[p] EXCEPT !.state = "exited"]
                     ELSE [[caddy[p] EXCEPT !.state = "up"] EXCEPT !.conf = file]
    <3>1. [caddy[p] EXCEPT !.state = "up", !.conf = file] = [[caddy[p] EXCEPT !.state = "up"] EXCEPT !.conf = file]
      OBVIOUS
    <3>2. caddy[p].state = "starting" /\ caddy' = [caddy EXCEPT ![p] = r]
      BY <2>1, <3>1 DEF CaddyStarts
    <3>3. r \in Processes /\ r.owner = caddy[p].owner /\ r.state # "none"
      <4>1. CASE IsUp
        BY <1>1, <4>1, StateEdit
      <4>2. CASE ~IsUp
        <5>1. /\ [caddy[p] EXCEPT !.state = "up"] \in Processes
              /\ [caddy[p] EXCEPT !.state = "up"].owner = caddy[p].owner
              /\ [caddy[p] EXCEPT !.state = "up"].state = "up"
          BY <1>1, StateEdit
        <5>. QED
          BY <1>1, <4>2, <5>1, ConfEdit
      <4>. QED
        BY <4>1, <4>2
    <3>. HIDE DEF r
    <3>. QED
      BY <3>2, <3>3, OneAges DEF Going
  <2>2. CASE CaddyExits(p) \/ CaddyCrashes(p)
    <3>. DEFINE r == [caddy[p] EXCEPT !.state = "exited"]
    <3>1. caddy[p].state # "none" /\ caddy' = [caddy EXCEPT ![p] = r]
      BY <2>2 DEF CaddyExits, CaddyCrashes
    <3>2. r \in Processes /\ r.owner = caddy[p].owner /\ r.state = "exited"
      BY <1>1, StateEdit
    <3>. HIDE DEF r
    <3>. QED
      BY <3>1, <3>2, OneAges DEF Going
  <2>3. CASE CaddyHangs(p)
    <3>. DEFINE r == [caddy[p] EXCEPT !.state = "hung"]
    <3>1. caddy[p].state # "none" /\ caddy' = [caddy EXCEPT ![p] = r]
      BY <2>3 DEF CaddyHangs
    <3>2. r \in Processes /\ r.owner = caddy[p].owner /\ r.state = "hung"
      BY <1>1, StateEdit
    <3>. HIDE DEF r
    <3>. QED
      BY <3>1, <3>2, OneAges DEF Going
  <2>. QED
    BY <2>1, <2>2, <2>3
<1>4. file' \in Versions \cup {0} /\ cli' \in {"idle", "grace", "own"} /\ changes' \in 0..MaxEvents
  BY <1>2 DEF TypeOK
<1>. QED
  BY <1>2, <1>3, <1>4, OutsideStep

\* The exit of the child is reported: no other process of the daemon was there.
LEMMA ExitEventStep ==
    ASSUME TypeOK, IInv, phase # "exited", NEW p \in Procs, ExitEvent(p)
    PROVE  TypeOK' /\ IInv'
<1>1. /\ caddy[p].state = "exited" /\ caddy' = [caddy EXCEPT ![p] = NoProc]
      /\ UNCHANGED <<file, cli, changes, queue, watch, phase, check, nat, late, crossed, faults>>
      /\ \/ Own(p) /\ OnExit
         \/ ~Own(p) /\ rt' = rt
  BY DEF ExitEvent, world, observed, Own
<1>2. /\ Rest /\ caddy \in [Procs -> Processes] /\ rt \in Runtimes /\ crossed \in BOOLEAN
      /\ rt.running => rt.adopted \/ rt.child # None
  BY TypeParts
<1>3. /\ caddy' \in [Procs -> Processes]
      /\ \A q \in Procs : caddy'[q] = IF q = p THEN NoProc ELSE caddy[q]
      /\ NoProc.owner = "none" /\ NoProc.state = "none"
  <2>1. NoProc \in Processes
    BY DEF NoProc, Processes
  <2>. QED
    BY <1>1, <1>2, <2>1 DEF NoProc
<1>4. /\ rt' \in Runtimes
      /\ rt'.running => rt'.adopted \/ rt'.child # None
      /\ Own(p) => rt'.child = None /\ ~rt'.running /\ ~rt'.expecting
      /\ ~Own(p) => rt' = rt
  BY <1>1, <1>2 DEF OnExit, Runtimes
<1>5. TypeOK'
  <2>1. Rest'
    BY <1>1, <1>2 DEF Rest, nat
  <2>. QED
    BY <1>1, <1>2, <1>3, <1>4, <2>1, FromTypeParts
<1>6. Runs' /\ Leases' /\ Released'
  BY <1>1, LeasesStay DEF IInv, Runs
<1>7. \A q \in Procs : Own(q)' => q # p /\ Own(q) /\ caddy'[q] = caddy[q]
  BY <1>3 DEF Own
<1>8. Child'
  <2>1. CASE Own(p)
    <3>1. ~crossed => \A q \in Procs : ~Own(q)'
      BY <1>7, <2>1 DEF IInv, Child
    <3>. QED
      BY <1>1, <1>4, <1>7, <2>1, <3>1 DEF IInv, Child
  <2>2. CASE ~Own(p)
    <3>1. rt.child # None => rt.child \in Procs /\ rt.child # p
      BY <1>2, <2>2 DEF Runtimes, IInv, Child
    <3>2. rt' = rt /\ (rt.child # None => caddy'[rt.child] = caddy[rt.child])
      BY <1>3, <1>4, <2>2, <3>1
    <3>3. (rt.child # None => Own(rt.child))'
      BY <3>2 DEF IInv, Child, Own
    <3>4. \A q \in Procs : Own(q)' => caddy'[q].state # "none"
      BY <1>7 DEF IInv, Child
    <3>5. phase # "exited" /\ ~crossed => \A q \in Procs : Own(q)' => q = rt.child
      BY <1>7 DEF IInv, Child
    <3>. QED
      BY <1>1, <3>2, <3>3, <3>4, <3>5 DEF Child
  <2>. QED
    BY <2>1, <2>2
<1>9. Expected'
  <2>1. SUFFICES ASSUME ~Own(p), rt.expecting, ~crossed
                 PROVE  \E q \in Procs : Own(q)' /\ caddy'[q].state \in Going
    BY <1>1, <1>4 DEF Expected
  <2>2. PICK q \in Procs : Own(q) /\ caddy[q].state \in Going
    BY <2>1 DEF IInv, Expected
  <2>. QED
    BY <1>3, <2>1, <2>2 DEF Own
<1>10. Gone'
  BY <1>1 DEF Gone
<1>. QED
  BY <1>5, <1>6, <1>8, <1>9, <1>10 DEF IInv

-----------------------------------------------------------------------------
(* watchCaddyOnce *)

WatchMoves ==
    \/ \E ok \in BOOLEAN : End(ok)
    \/ /\ watch' \in [pc : {"idle", "halt", "stillUp", "probe", "start", "reload"}, file : Versions \cup {0}]
       /\ UNCHANGED <<queue, check, phase, nat>>

LEMMA GotoMoves ==
    ASSUME TypeOK, NEW pc \in {"idle", "halt", "stillUp", "probe", "start", "reload"}, Goto(pc)
    PROVE  WatchMoves
<1>1. watch \in [pc : {"idle", "halt", "stillUp", "probe", "start", "reload"}, file : Versions \cup {0}]
  BY DEF TypeOK
<1>2. watch' = [watch EXCEPT !.pc = pc] /\ UNCHANGED <<queue, check, phase, nat>>
  BY DEF Goto
<1>. QED
  BY <1>1, <1>2 DEF WatchMoves

\* A step of the watch that starts nothing.
LEMMA RunStep ==
    ASSUME TypeOK, IInv, phase # "exited", queue # <<>>, UNCHANGED <<world, late>>, UNCHANGED faults \/ Fault,
           WatchMoves, Aged, rt' \in Runtimes, rt'.running => rt'.adopted \/ rt'.child # None, rt'.child = rt.child,
           crossed' \in BOOLEAN, crossed => crossed', Expected'
    PROVE  TypeOK' /\ IInv'
<1>1. Rest' /\ Runs' /\ Leases' /\ Released' /\ phase' # "exited"
  BY RunMoves DEF WatchMoves
<1>2. TypeOK'
  <2>1. caddy' \in [Procs -> Processes]
    BY DEF Aged
  <2>. QED
    BY <1>1, <2>1, FromTypeParts
<1>3. Child'
  BY ChildStays DEF IInv
<1>4. Gone'
  BY <1>1 DEF Gone
<1>. QED
  BY <1>1, <1>2, <1>3, <1>4 DEF IInv

LEMMA WatchBeginsStep ==
    ASSUME TypeOK, IInv, phase # "exited", Watch \/ HaltMissed \/ StillUp \/ Probe \/ StartFails \/ ReloadCaddy
    PROVE  TypeOK' /\ IInv'
<1>1. /\ rt \in Runtimes /\ crossed \in BOOLEAN /\ file \in Versions \cup {0}
      /\ rt.running => rt.adopted \/ rt.child # None
      /\ watch.file \in Versions \cup {0}
  BY TypeParts DEF Rest
<1>2. /\ UNCHANGED <<world, late>> /\ crossed' = crossed
      /\ UNCHANGED faults \/ Fault
  BY DEF Watch, HaltMissed, StillUp, Probe, StartFails, ReloadCaddy, observed, Done
<1>3. queue # <<>>
  BY DEF Watch, HaltMissed, StillUp, Probe, StartFails, ReloadCaddy, IInv, Runs
<1>4. WatchMoves
  <2>1. CASE Watch
    <3>1. CASE Done
      BY <3>1 DEF Done, WatchMoves
    <3>2. CASE ~Done
      <4>1. /\ watch' = [pc |-> IF file = 0 THEN "halt" ELSE IF rt.adopted THEN "stillUp"
                                ELSE IF rt.running THEN "reload" ELSE "probe", file |-> file]
            /\ UNCHANGED <<queue, check, phase, nat>>
        BY <2>1, <3>2 DEF Watch
      <4>. QED
        BY <1>1, <4>1 DEF WatchMoves
    <3>. QED
      BY <3>1, <3>2
  <2>2. CASE HaltMissed
    BY <2>2 DEF HaltMissed, Done, WatchMoves
  <2>3. CASE StillUp
    <3>1. Goto("reload") \/ Goto("probe")
      BY <2>3 DEF StillUp
    <3>. QED
      BY <3>1, GotoMoves
  <2>4. CASE Probe
    <3>1. Goto("reload") \/ Goto("start")
      BY <2>4 DEF Probe
    <3>. QED
      BY <3>1, GotoMoves
  <2>5. CASE StartFails
    BY <2>5 DEF StartFails, WatchMoves
  <2>6. CASE ReloadCaddy
    BY <2>6 DEF ReloadCaddy, Done, WatchMoves
  <2>. QED
    BY <2>1, <2>2, <2>3, <2>4, <2>5, <2>6
<1>5. Aged
  <2>1. CASE ReloadCaddy /\ caddy' = LoadFile(watch.file)
    BY <1>1, <2>1, LoadFileAges
  <2>2. CASE UNCHANGED caddy
    BY <2>2, Unmoved
  <2>. QED
    BY <2>1, <2>2 DEF Watch, HaltMissed, StillUp, Probe, StartFails, ReloadCaddy
<1>6. /\ rt' \in Runtimes /\ rt'.child = rt.child /\ rt'.expecting = rt.expecting
      /\ rt'.running => rt'.adopted \/ rt'.child # None
  <2>1. CASE rt' = rt
    BY <1>1, <2>1
  <2>2. CASE rt' = [rt EXCEPT !.adopted = FALSE, !.running = FALSE]
    BY <1>1, <2>2 DEF Runtimes
  <2>3. CASE rt' = [rt EXCEPT !.running = TRUE, !.adopted = TRUE, !.loaded = 0]
    BY <1>1, <2>3 DEF Runtimes
  <2>4. CASE rt' = [rt EXCEPT !.loaded = watch.file]
    BY <1>1, <2>4 DEF Runtimes
  <2>. QED
    BY <2>1, <2>2, <2>3, <2>4 DEF Watch, HaltMissed, StillUp, Probe, StartFails, ReloadCaddy, Adopt
<1>7. Expected'
  BY <1>2, <1>5, <1>6, StillExpected DEF IInv
<1>. QED
  BY <1>1, <1>2, <1>3, <1>4, <1>5, <1>6, <1>7, RunStep

\* The exit that is expected from now on is that of the child.
LEMMA HaltStep ==
    ASSUME TypeOK, IInv, phase # "exited", Halt
    PROVE  TypeOK' /\ IInv'
<1>1. /\ rt \in Runtimes /\ crossed \in BOOLEAN
      /\ rt.running => rt.adopted \/ rt.child # None
  BY TypeParts
<1>2. /\ watch.pc = "halt" /\ rt.running /\ StopOwn /\ Done
      /\ rt' = [rt EXCEPT !.expecting = ~rt.adopted, !.running = FALSE, !.adopted = FALSE, !.loaded = 0]
      /\ crossed' = (crossed \/ Crosses)
      /\ UNCHANGED <<world, late>>
  BY DEF Halt, ExpectExit
<1>3. /\ queue # <<>> /\ WatchMoves
  BY <1>2 DEF IInv, Runs, Done, WatchMoves
<1>4. /\ Aged
      /\ UNCHANGED faults \/ Fault
      /\ rt.child # None /\ ~Crosses => caddy'[rt.child].state \in Going
  BY <1>2, StopOwnAges DEF IInv
<1>5. /\ rt' \in Runtimes /\ rt'.child = rt.child /\ ~rt'.running /\ rt'.expecting = ~rt.adopted
  BY <1>1, <1>2 DEF Runtimes
<1>6. crossed' \in BOOLEAN /\ (crossed => crossed') /\ (Crosses => crossed')
  <2>1. Crosses \in BOOLEAN
    BY DEF Crosses, IsUp
  <2>. QED
    BY <1>1, <1>2, <2>1
<1>7. Expected'
  <2>1. SUFFICES ASSUME ~rt.adopted, ~crossed'
                 PROVE  \E p \in Procs : Own(p)' /\ caddy'[p].state \in Going
    BY <1>5 DEF Expected
  <2>2. rt.child # None /\ rt.child \in Procs /\ Own(rt.child)
    BY <1>1, <1>2, <2>1 DEF Runtimes, IInv, Child
  <2>3. caddy'[rt.child].owner = "daemon" /\ caddy'[rt.child].state \in Going
    BY <1>4, <1>6, <2>1, <2>2 DEF Aged, Own
  <2>. QED
    BY <2>2, <2>3 DEF Own
<1>. QED
  BY <1>2, <1>3, <1>4, <1>5, <1>6, <1>7, RunStep

\* A process that has its place is free to start in.
LEMMA FreeIsFree ==
    ASSUME HasFree
    PROVE  Free \in Procs /\ caddy[Free] = NoProc
BY DEF HasFree, Free

\* A new child: crossed, unless it is the only process of the daemon.
LEMMA StartStep ==
    ASSUME TypeOK, IInv, phase # "exited", Start
    PROVE  TypeOK' /\ IInv'
<1>. DEFINE p == Free
            r == [state |-> "starting", owner |-> "daemon", conf |-> 0]
<1>1. /\ rt \in Runtimes /\ crossed \in BOOLEAN /\ caddy \in [Procs -> Processes]
      /\ watch.file \in Versions \cup {0}
  BY TypeParts DEF Rest
<1>2. /\ watch.pc = "start" /\ HasFree /\ caddy' = [caddy EXCEPT ![p] = r] /\ Done
      /\ rt' = [rt EXCEPT !.running = TRUE, !.loaded = watch.file, !.child = p]
      /\ crossed' = (crossed \/ \E q \in Procs : caddy[q].owner = "daemon" /\ caddy[q].state # "none")
      /\ UNCHANGED <<world, late, faults>>
  BY DEF Start
<1>3. p \in Procs /\ caddy[p] = NoProc
  BY <1>2, FreeIsFree
<1>. HIDE DEF p
<1>4. queue # <<>> /\ \E ok \in BOOLEAN : End(ok)
  BY <1>2 DEF IInv, Runs, Done
<1>5. Rest' /\ Runs' /\ Leases' /\ Released' /\ phase' # "exited"
  BY <1>2, <1>4, RunMoves
<1>6. /\ caddy' \in [Procs -> Processes]
      /\ \A q \in Procs : caddy'[q] = IF q = p THEN r ELSE caddy[q]
  <2>1. r \in Processes
    BY DEF Processes
  <2>. QED
    BY <1>1, <1>2, <1>3, <2>1
<1>7. /\ rt' \in Runtimes /\ rt'.child = p /\ p # None
  BY <1>1, <1>2, <1>3, Typed DEF Runtimes
<1>8. TypeOK'
  <2>1. crossed' \in BOOLEAN
    BY <1>1, <1>2
  <2>. QED
    BY <1>5, <1>6, <1>7, <2>1, FromTypeParts
<1>9. ~crossed' => ~crossed /\ \A q \in Procs : ~Own(q)
  BY <1>1, <1>2 DEF IInv, Child, Own
<1>10. Child'
  <2>1. \A q \in Procs : Own(q)' => caddy'[q].state # "none"
    BY <1>6 DEF IInv, Child, Own
  <2>2. (rt.child # None => Own(rt.child))'
    BY <1>3, <1>6, <1>7 DEF Own
  <2>3. ~crossed' => \A q \in Procs : Own(q)' => q = p
    BY <1>6, <1>9 DEF Own
  <2>. QED
    BY <1>7, <2>1, <2>2, <2>3 DEF Child
<1>11. Expected' /\ Gone'
  <2>1. rt'.expecting = rt.expecting
    BY <1>1, <1>2 DEF Runtimes
  <2>2. ~(rt.expecting /\ ~crossed')
    BY <1>9 DEF IInv, Expected
  <2>. QED
    BY <1>5, <2>1, <2>2 DEF Expected, Gone
<1>. QED
  BY <1>5, <1>8, <1>10, <1>11 DEF IInv

-----------------------------------------------------------------------------
(* Timers, checks and refreshes *)

\* A step of the daemon that leaves the processes alone.
LEMMA QuietStep ==
    ASSUME TypeOK, IInv, UNCHANGED <<caddy, rt, observed>>, phase # "exited", phase' # "exited",
           Rest', Runs', Leases', Released'
    PROVE  TypeOK' /\ IInv'
<1>1. /\ rt \in Runtimes /\ crossed \in BOOLEAN /\ caddy \in [Procs -> Processes]
      /\ rt.running => rt.adopted \/ rt.child # None
      /\ crossed' = crossed
  BY TypeParts DEF observed
<1>2. TypeOK'
  BY <1>1, FromTypeParts
<1>3. Aged
  BY Unmoved
<1>4. Child' /\ Expected'
  BY <1>1, <1>3, ChildStays, StillExpected DEF IInv
<1>. QED
  BY <1>2, <1>4 DEF IInv, Gone

LEMMA TimerStep ==
    ASSUME TypeOK, IInv, phase # "exited", Tick \/ CheckChanges \/ CheckWaited
    PROVE  TypeOK' /\ IInv'
<1>1. Rest /\ Runs /\ Leases /\ Released
  BY TypeParts DEF IInv
<1>2. /\ UNCHANGED <<caddy, rt, observed, nat, phase, watch, faults, cli>>
      /\ late' = late
  BY DEF Tick, CheckChanges, CheckWaited, observed, world
<1>3. Leases' /\ Released'
  BY <1>1, <1>2, LeasesStay
<1>4. /\ queue' \in Seq(Reasons) /\ Len(queue') <= 3 /\ Runs'
      /\ check' \in [pc : {"idle", "watched", "issue", "restored"}, previous : Versions \cup {0}]
      /\ file' \in Versions \cup {0} /\ changes' \in 0..MaxEvents
  <2>1. /\ check \in [pc : {"idle", "watched", "issue", "restored"}, previous : Versions \cup {0}]
        /\ file \in Versions \cup {0} /\ changes \in 0..MaxEvents /\ faults \in 0..MaxEvents
        /\ queue \in Seq(Reasons) /\ Len(queue) <= 3
    BY <1>1 DEF Rest
  <2>2. CASE Tick
    <3>1. /\ queue' = Append(queue, "tick") /\ \A i \in DOMAIN queue : queue[i] # "tick"
          /\ UNCHANGED <<file, changes, check>>
      BY <2>2 DEF Tick, world
    <3>2. \A i \in DOMAIN queue : queue[i] = "check" => check'.pc \in {"watched", "restored"}
      BY <1>1, <3>1 DEF Runs
    <3>. QED
      BY <1>1, <1>2, <2>1, <3>1, <3>2, Asks DEF Reasons
  <2>3. CASE CheckChanges
    <3>1. /\ check.pc = "idle" /\ Room /\ file' = NewVersion /\ changes' = changes + 1
          /\ check' = [pc |-> "watched", previous |-> file] /\ queue' = Append(queue, "check")
      BY <2>3 DEF CheckChanges
    <3>2. NewVersion \in Versions /\ changes' \in 0..MaxEvents
      BY <2>1, <3>1, ConstantsOK DEF Room, NewVersion, Versions
    <3>3. \A i \in DOMAIN queue : queue[i] # "check"
      BY <1>1, <3>1 DEF Runs
    <3>4. check' \in [pc : {"idle", "watched", "issue", "restored"}, previous : Versions \cup {0}] /\ check'.pc = "watched"
      BY <2>1, <3>1
    <3>5. queue' \in Seq(Reasons) /\ Len(queue') <= 3 /\ Runs'
      BY <1>1, <1>2, <3>1, <3>3, <3>4, Asks DEF Reasons
    <3>. QED
      BY <3>1, <3>2, <3>4, <3>5
  <2>4. CASE CheckWaited
    <3>1. /\ check.pc = "issue" /\ changes' = changes
          /\ file' \in {file, 0, check.previous}
          /\ \/ queue' = queue /\ check' = [check EXCEPT !.pc = "idle"]
             \/ queue' = Append(queue, "check") /\ check' = [check EXCEPT !.pc = "restored"]
      BY <2>4 DEF CheckWaited
    <3>2. \A i \in DOMAIN queue : queue[i] # "check"
      BY <1>1, <3>1 DEF Runs
    <3>3. file' \in Versions \cup {0}
      BY <2>1, <3>1
    <3>4. CASE queue' = queue /\ check' = [check EXCEPT !.pc = "idle"]
      <4>1. Runs'
        BY <1>1, <1>2, <3>2, <3>4 DEF Runs
      <4>. QED
        BY <2>1, <3>1, <3>3, <3>4, <4>1
    <3>5. CASE queue' = Append(queue, "check") /\ check' = [check EXCEPT !.pc = "restored"]
      <4>1. check' \in [pc : {"idle", "watched", "issue", "restored"}, previous : Versions \cup {0}] /\ check'.pc = "restored"
        BY <2>1, <3>5
      <4>2. queue' \in Seq(Reasons) /\ Len(queue') <= 3 /\ Runs'
        BY <1>1, <1>2, <3>2, <3>5, <4>1, Asks DEF Reasons
      <4>. QED
        BY <2>1, <3>1, <3>3, <4>1, <4>2
    <3>. QED
      BY <3>1, <3>4, <3>5
  <2>. QED
    BY <2>2, <2>3, <2>4
<1>5. Rest'
  BY <1>1, <1>2, <1>4 DEF Rest, nat
<1>. QED
  BY <1>2, <1>3, <1>4, <1>5, QuietStep

LEMMA LeaseMoves ==
    ASSUME TypeOK, IInv, phase # "exited", LeaseStep
    PROVE  TypeOK' /\ IInv'
<1>1. Rest /\ Runs /\ Leases /\ Released
  BY TypeParts DEF IInv
<1>2. UNCHANGED <<caddy, rt, observed, phase, watch, check, queue, file, cli, changes, late, faults>>
  BY DEF LeaseStep, RefreshDue, MapPorts, observed, world
<1>3. Leases' /\ Released' /\ lease' \in [Refreshes -> {"idle", "asks"}] /\ router' \in BOOLEAN /\ forward' \in BOOLEAN
  <2>1. CASE RefreshDue
    <3>1. /\ phase = "running" /\ RefreshLeases("interval")
          /\ \A l \in Refreshes : lease[l] = "idle"
      BY <2>1 DEF RefreshDue
    <3>. QED
      BY <1>1, <1>2, <3>1, RefreshKeeps DEF Refreshes
  <2>2. ASSUME NEW l \in Refreshes, MapPorts(l)
        PROVE  Leases' /\ Released' /\ lease' \in [Refreshes -> {"idle", "asks"}] /\ router' \in BOOLEAN /\ forward' \in BOOLEAN
    <3>1. /\ lease[l] = "asks" /\ forward' = TRUE /\ lease' = [lease EXCEPT ![l] = "idle"]
          /\ router' = router /\ lease \in [Refreshes -> {"idle", "asks"}] /\ router \in BOOLEAN
      BY <1>1, <2>2 DEF MapPorts, Rest
    <3>2. router
      BY <1>1, <3>1 DEF Leases
    <3>3. phase # "starting" /\ ~(phase \in {"caddy", "wait", "stopped"} /\ ~late)
      BY <1>1, <3>1 DEF Leases, Released, Refreshes
    <3>4. lease' \in [Refreshes -> {"idle", "asks"}] /\ \A k \in Refreshes : lease[k] = "idle" => lease'[k] = "idle"
      BY <3>1
    <3>5. \A k \in Refreshes : lease'[k] = "asks" => lease[k] = "asks"
      BY <3>1
    <3>. QED
      BY <1>1, <1>2, <3>1, <3>2, <3>3, <3>4, <3>5 DEF Leases, Released, Refreshes
  <2>. QED
    BY <2>1, <2>2 DEF LeaseStep
<1>4. Rest'
  BY <1>1, <1>2, <1>3 DEF Rest
<1>5. Runs'
  BY <1>1, <1>2 DEF Runs
<1>. QED
  BY <1>2, <1>3, <1>4, <1>5, QuietStep

-----------------------------------------------------------------------------
(* stop() and the exit *)

LEMMA StopWaitsStep ==
    ASSUME TypeOK, IInv, phase # "exited", StopBegins \/ StopWaits \/ Release
    PROVE  TypeOK' /\ IInv'
<1>1. Rest /\ Runs /\ Leases /\ Released
  BY TypeParts DEF IInv
<1>2. /\ UNCHANGED <<caddy, rt, crossed, file, cli, changes, queue, watch, check, lease, router>>
      /\ UNCHANGED faults \/ Fault
      /\ phase' \in {"check", "queue", "leases", "release", "caddy"}
  BY DEF StopBegins, StopWaits, Release, StopGoto, world, nat, observed
<1>3. faults' \in 0..MaxEvents /\ (faults' = faults \/ faults' # 0)
  BY <1>2, FaultIsCounted
<1>4. late' \in BOOLEAN /\ forward' \in BOOLEAN /\ Leases' /\ Released'
  <2>1. CASE StopBegins
    BY <1>1, <2>1 DEF StopBegins, Rest, Leases, Released, nat, Refreshes
  <2>2. CASE StopWaits
    <3>1. /\ late' = late /\ forward' = forward /\ lease' = lease /\ router' = router /\ faults' = faults
          /\ phase \in {"check", "queue", "leases"}
          /\ phase' \in {"queue", "leases"} \/ (phase' = "release" /\ lease["first"] = "idle")
      BY <2>2 DEF StopWaits, StopGoto, nat, observed, LeasesSettled
    <3>. QED
      BY <1>1, <3>1 DEF Rest, Leases, Released
  <2>3. CASE Release
    <3>0. /\ phase = "release" /\ phase' = "caddy" /\ late' = late /\ lease' = lease /\ router' = router
          /\ forward' = (forward /\ ~router) \/ (UNCHANGED forward /\ Fault)
      BY <2>3 DEF Release, observed
    <3>1. forward' = (forward /\ ~router) \/ (forward' = forward /\ faults' # 0)
      <4>1. faults \in Nat
        BY <1>1, ConstantsOK DEF Rest
      <4>2. Fault => faults' # 0
        BY <4>1 DEF Fault
      <4>. QED
        BY <3>0, <4>2
    <3>2. forward' \in BOOLEAN /\ (forward' => forward) /\ (faults' = 0 => ~forward')
      <4>1. forward \in BOOLEAN /\ router \in BOOLEAN /\ (forward => router)
        BY <1>1 DEF Leases, Rest
      <4>2. CASE forward' = (forward /\ ~router)
        <5>1. (forward /\ ~router) = FALSE
          BY <4>1
        <5>. QED
          BY <4>2, <5>1
      <4>3. CASE forward' = forward /\ faults' # 0
        BY <4>1, <4>3
      <4>. QED
        BY <3>1, <4>2, <4>3
    <3>. QED
      BY <1>1, <3>0, <3>2 DEF Rest, Leases, Released
  <2>. QED
    BY <2>1, <2>2, <2>3
<1>5. Rest'
  BY <1>1, <1>2, <1>3, <1>4 DEF Rest
<1>6. Runs'
  BY <1>1, <1>2 DEF Runs
<1>7. TypeOK'
  <2>1. /\ rt \in Runtimes /\ crossed \in BOOLEAN /\ caddy \in [Procs -> Processes]
        /\ rt.running => rt.adopted \/ rt.child # None
    BY TypeParts
  <2>. QED
    BY <1>2, <1>5, <2>1, FromTypeParts
<1>8. Aged
  BY <1>2, Unmoved
<1>9. Child' /\ Expected'
  BY <1>2, <1>8, ChildStays, StillExpected DEF IInv
<1>. QED
  BY <1>2, <1>4, <1>6, <1>7, <1>9 DEF IInv, Gone

\* Stopping the Caddy, and killing the child after the wait.
LEMMA StopCaddyStep ==
    ASSUME TypeOK, IInv, phase # "exited", StopCaddy \/ ChildGone
    PROVE  TypeOK' /\ IInv'
<1>1. /\ Rest /\ Runs /\ Leases /\ Released /\ rt \in Runtimes /\ crossed \in BOOLEAN
      /\ rt.running => rt.adopted \/ rt.child # None
  BY TypeParts DEF IInv
<1>2. /\ UNCHANGED <<file, cli, changes, queue, watch, check, nat, late>>
      /\ phase \in {"caddy", "wait"} /\ phase' \in {"wait", "stopped"}
  BY DEF StopCaddy, ChildGone, StopGoto, world, observed
<1>3. /\ Aged /\ crossed' \in BOOLEAN /\ (crossed => crossed')
      /\ UNCHANGED faults \/ Fault
  <2>1. CASE StopCaddy /\ ~rt.running
    BY <1>1, <2>1, Unmoved DEF StopCaddy, StopGoto, observed
  <2>2. CASE StopCaddy /\ rt.running
    <3>1. StopOwn /\ crossed' = (crossed \/ Crosses)
      BY <2>2 DEF StopCaddy
    <3>2. Crosses \in BOOLEAN
      BY DEF Crosses, IsUp
    <3>. QED
      BY <1>1, <3>1, <3>2, StopOwnAges DEF IInv
  <2>3. CASE ChildGone
    <3>1. SigKill(rt.awaited) /\ crossed' = crossed /\ faults' = faults
      BY <2>3 DEF ChildGone, observed
    <3>. QED
      BY <1>1, <3>1, SigKillAges
  <2>. QED
    BY <2>1, <2>2, <2>3
<1>4. /\ rt' \in Runtimes /\ rt'.child = rt.child /\ rt'.expecting = rt.expecting
      /\ rt'.running => rt'.adopted \/ rt'.child # None
  <2>1. CASE rt' = rt
    BY <1>1, <2>1
  <2>2. CASE rt' = [rt EXCEPT !.awaited = rt.child]
    BY <1>1, <2>2 DEF Runtimes
  <2>3. CASE rt' = [rt EXCEPT !.running = FALSE]
    BY <1>1, <2>3 DEF Runtimes
  <2>. QED
    BY <2>1, <2>2, <2>3 DEF StopCaddy, ChildGone, StopGoto
<1>5. faults' \in 0..MaxEvents /\ (faults' = faults \/ faults' # 0)
  BY <1>3, FaultIsCounted
<1>6. Rest'
  BY <1>1, <1>2, <1>5 DEF Rest, nat
<1>7. Runs' /\ Leases' /\ Released'
  BY <1>1, <1>2, <1>5 DEF Runs, Leases, Released, nat
<1>8. TypeOK'
  <2>1. caddy' \in [Procs -> Processes]
    BY <1>3 DEF Aged
  <2>. QED
    BY <1>3, <1>4, <1>6, <2>1, FromTypeParts
<1>9. Child' /\ Expected'
  BY <1>3, <1>4, ChildStays, StillExpected DEF IInv
<1>. QED
  BY <1>2, <1>7, <1>8, <1>9 DEF IInv, Gone

\* The exit handler kills the child: without a crossing that is all there is.
LEMMA ExitStep ==
    ASSUME TypeOK, IInv, phase # "exited", Exit
    PROVE  TypeOK' /\ IInv'
<1>1. Rest /\ Runs /\ Leases /\ Released /\ rt \in Runtimes /\ crossed \in BOOLEAN
  BY TypeParts DEF IInv
<1>2. /\ phase' = "exited" /\ SigKill(rt.child) /\ rt' = NoChild /\ queue' = <<>> /\ watch' = IdleWatch
      /\ check' = [pc |-> "idle", previous |-> 0] /\ lease' = [l \in Refreshes |-> "idle"]
      /\ UNCHANGED <<file, cli, changes, router, forward, late, crossed, faults>>
  BY DEF Exit, KillCaddySync, world, observed
<1>3. /\ Aged
      /\ rt.child \in Procs => caddy'[rt.child].state \notin {"starting", "up", "stopping", "hung"}
  BY <1>2, SigKillAges
<1>4. Rest'
  <2>1. <<>> \in Seq(Reasons) /\ Len(<<>>) = 0
    BY EmptySeq
  <2>2. IdleWatch \in [pc : {"idle", "halt", "stillUp", "probe", "start", "reload"}, file : Versions \cup {0}]
    BY DEF IdleWatch
  <2>. QED
    BY <1>1, <1>2, <2>1, <2>2 DEF Rest
<1>5. NoChild \in Runtimes /\ NoChild.running = FALSE /\ NoChild.expecting = FALSE /\ NoChild.child = None
  BY DEF NoChild, Runtimes
<1>6. TypeOK'
  <2>1. caddy' \in [Procs -> Processes]
    BY <1>3 DEF Aged
  <2>. QED
    BY <1>1, <1>2, <1>4, <1>5, <2>1, FromTypeParts
<1>7. Runs'
  BY <1>2 DEF Runs, IdleWatch
<1>8. Leases' /\ Released'
  <2>1. \A l \in Refreshes : lease'[l] = "idle"
    BY <1>2
  <2>. QED
    BY <1>1, <1>2, <2>1 DEF Leases, Released, Refreshes
<1>9. Child' /\ Expected'
  BY <1>2, <1>3, <1>5 DEF IInv, Child, Expected, Aged, Own
<1>10. Gone'
  <2>1. SUFFICES ASSUME ~crossed, NEW p \in Procs, caddy'[p].owner = "daemon"
                 PROVE  caddy'[p].state \notin {"starting", "up", "stopping", "hung"}
    BY <1>2 DEF Gone, Own, Live
  <2>2. Own(p)
    BY <1>3, <2>1 DEF Aged, Own
  <2>3. p = rt.child
    BY <2>1, <2>2 DEF IInv, Child
  <2>. QED
    BY <1>3, <2>3
<1>. QED
  BY <1>6, <1>7, <1>8, <1>9, <1>10 DEF IInv

-----------------------------------------------------------------------------
(* setup and disable *)

LEMMA CommandStep ==
    ASSUME TypeOK, IInv, phase # "exited", Command
    PROVE  TypeOK' /\ IInv'
<1>1. Rest /\ caddy \in [Procs -> Processes]
  BY TypeParts
<1>2. UNCHANGED <<rt, queue, watch, phase, check, nat, observed, faults>>
  BY DEF Command, Disable, DisableEnds, Setup, SetupStops, SetupEnds
<1>3. Room => NewVersion \in Versions /\ changes + 1 \in 0..MaxEvents
  BY <1>1, ConstantsOK DEF Rest, Room, NewVersion, Versions
<1>4. changes + 1 \in Versions
  BY <1>1, ConstantsOK DEF Rest, Versions
<1>5. file' \in Versions \cup {0} /\ cli' \in {"idle", "grace", "own"} /\ changes' \in 0..MaxEvents
  BY <1>1, <1>3, <1>4 DEF Command, Disable, DisableEnds, Setup, SetupStops, SetupEnds, world, Rest
<1>6. Aged
  <2>1. CASE Disable \/ SetupEnds
    BY <2>1, Unmoved DEF Disable, SetupEnds
  <2>2. CASE DisableEnds \/ SetupStops
    BY <2>2, StopRequestAges DEF DisableEnds, SetupStops
  <2>3. CASE Setup /\ IsUp
    BY <1>3, <2>3, LoadFileAges DEF Setup
  <2>4. CASE Setup /\ ~IsUp
    <3>. DEFINE p == Free
                r == [NoProc EXCEPT !.state = "starting", !.owner = "setup"]
    <3>1. HasFree /\ caddy' = [caddy EXCEPT ![p] = r]
      BY <2>4 DEF Setup
    <3>2. p \in Procs /\ caddy[p] = NoProc
      BY <3>1, FreeIsFree
    <3>. HIDE DEF p
    <3>3. r \in Processes /\ r.owner = "setup" /\ r.state = "starting" /\ NoProc.owner = "none" /\ NoProc.state = "none"
      BY DEF NoProc, Processes
    <3>. HIDE DEF r
    <3>4. caddy' \in [Procs -> Processes] /\ \A q \in Procs : caddy'[q] = IF q = p THEN r ELSE caddy[q]
      BY <1>1, <3>1, <3>2, <3>3
    <3>. QED
      BY <3>2, <3>3, <3>4 DEF Aged, Going
  <2>. QED
    BY <2>1, <2>2, <2>3, <2>4 DEF Command
<1>. QED
  BY <1>2, <1>5, <1>6, OutsideStep

-----------------------------------------------------------------------------
(* The theorems *)

LEMMA InitInvariant == Init => TypeOK /\ IInv
<1> SUFFICES ASSUME Init
             PROVE  TypeOK /\ IInv
  OBVIOUS
<1>1. PICK left \in {NoProc, [state |-> "up", owner |-> "earlier", conf |-> 0]} :
         caddy = [q \in Procs |-> IF q = CHOOSE p \in Procs : TRUE THEN left ELSE NoProc]
  BY DEF Init
<1>2. /\ left \in Processes /\ NoProc \in Processes /\ left.owner # "daemon" /\ NoProc.owner # "daemon"
  BY DEF NoProc, Processes
<1>3. caddy \in [Procs -> Processes] /\ \A p \in Procs : ~Own(p)
  BY <1>1, <1>2 DEF Own
<1>4. /\ NoChild \in Runtimes /\ ~NoChild.running /\ ~NoChild.expecting /\ NoChild.child = None
  BY DEF NoChild, Runtimes
<1>5. /\ queue = <<"start">> /\ queue \in Seq(Reasons) /\ Len(queue) = 1 /\ DOMAIN queue = {1} /\ queue[1] = "start"
  BY DEF Init, Reasons
<1>6. TypeOK
  <2>1. 1 \in Versions /\ 0 \in 0..MaxEvents /\ 1 <= 3
    BY ConstantsOK DEF Versions
  <2>2. watch \in [pc : {"idle", "halt", "stillUp", "probe", "start", "reload"}, file : Versions \cup {0}]
    BY DEF Init, IdleWatch
  <2>3. check \in [pc : {"idle", "watched", "issue", "restored"}, previous : Versions \cup {0}]
    BY DEF Init
  <2>4. lease \in [Refreshes -> {"idle", "asks"}]
    BY DEF Init
  <2>5. file \in Versions \cup {0}
    BY <2>1 DEF Init
  <2>6. /\ phase = "starting" /\ router = FALSE /\ forward = FALSE /\ cli = "idle"
        /\ late = FALSE /\ changes = 0 /\ faults = 0
    BY DEF Init
  <2>7. Rest
    BY <1>5, <2>1, <2>2, <2>3, <2>4, <2>5, <2>6 DEF Rest
  <2>8. rt = NoChild /\ crossed = FALSE
    BY DEF Init
  <2>. QED
    BY <1>3, <1>4, <2>7, <2>8 DEF TypeOK, Rest, Processes, Runtimes, Reasons
<1>7. Runs
  BY <1>5 DEF Init, Runs, IdleWatch
<1>8. Child /\ Expected /\ Gone
  BY <1>3, <1>4 DEF Init, Child, Expected, Gone
<1>9. Leases /\ Released
  BY DEF Init, Leases, Released, Refreshes
<1>. QED
  BY <1>6, <1>7, <1>8, <1>9 DEF IInv

LEMMA InvariantStep == TypeOK /\ IInv /\ [Next]_vars => TypeOK' /\ IInv'
<1> SUFFICES ASSUME TypeOK, IInv, [Next]_vars
             PROVE  TypeOK' /\ IInv'
  OBVIOUS
<1>1. CASE Running /\ CaddyStep
  <2>1. ASSUME NEW p \in Procs, CaddyStarts(p) \/ CaddyExits(p) \/ CaddyCrashes(p) \/ CaddyHangs(p) \/ ExitEvent(p)
        PROVE  TypeOK' /\ IInv'
    BY <1>1, <2>1, CaddyAgesStep, ExitEventStep DEF Running
  <2>. QED
    BY <1>1, <2>1 DEF CaddyStep
<1>2. CASE Running /\ Command
  BY <1>2, CommandStep DEF Running
<1>3. CASE Running /\ WatchStep
  BY <1>3, WatchBeginsStep, HaltStep, StartStep DEF Running, WatchStep
<1>4. CASE Running /\ (Tick \/ CheckChanges \/ CheckWaited \/ LeaseStep)
  BY <1>4, TimerStep, LeaseMoves DEF Running
<1>5. CASE Running /\ StopStep
  BY <1>5, StopWaitsStep, StopCaddyStep, ExitStep DEF Running, StopStep
<1>6. CASE UNCHANGED vars
  <2>1. UNCHANGED <<file, cli, changes, caddy, rt, queue, watch, phase, check, lease, router, forward, late, crossed, faults>>
    BY <1>6 DEF vars, world, nat, observed
  <2>2. TypeOK'
    BY <2>1 DEF TypeOK
  <2>3. IInv'
    BY <2>1 DEF IInv, Runs, Child, Expected, Gone, Leases, Released, Own, Live
  <2>. QED
    BY <2>2, <2>3
<1>. QED
  BY <1>1, <1>2, <1>3, <1>4, <1>5, <1>6 DEF Next, Daemon

\* IInv holds in every reachable state.
THEOREM Invariant == Spec => [](TypeOK /\ IInv)
BY InitInvariant, InvariantStep, PTL DEF Spec

\* TypeOK: among others, what watchCaddyOnce takes for running is a child or was adopted, and nobody
\* who asks for a run asks twice.
THEOREM TypeCorrect == Spec => []TypeOK
BY Invariant, PTL

\* NoCaddyOutlivesDaemon: however the daemon's process ends, no Caddy that it started runs on.
THEOREM NothingRunsOn == Spec => []NoCaddyOutlivesDaemon
<1>1. IInv => NoCaddyOutlivesDaemon
  BY DEF IInv, Gone, NoCaddyOutlivesDaemon
<1>. QED
  BY Invariant, <1>1, PTL

\* ExpectedExitComes: an exit is expected only while there is one to come.
THEOREM NoExpectationIsStale == Spec => []ExpectedExitComes
<1>1. IInv => ExpectedExitComes
  BY DEF IInv, Expected, ExpectedExitComes, Going, Up
<1>. QED
  BY Invariant, <1>1, PTL

\* ForwardsReleased: once stop() is done the router forwards nothing to this machine.
THEOREM NothingIsForwarded == Spec => []ForwardsReleased
<1>1. IInv => ForwardsReleased
  BY DEF IInv, Released, ForwardsReleased
<1>. QED
  BY Invariant, <1>1, PTL
=============================================================================

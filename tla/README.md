# Verification of bitsocial-cli

`bitsocial-cli` runs a Bitsocial node: a daemon that supervises a kubo (IPFS)
child process, serves a PKC RPC and web UIs, keeps the node reachable from
browsers, and updates itself; and commands that talk to that daemon.  This
directory holds TLA+ models of its concurrent and failure-prone parts, the TLC
runs that check them, and TLAPS proofs of the most important results.
Paths below are relative to the repository.

## 1. Inventory

| # | Component | State | Operations | Hard behaviour |
|---|---|---|---|---|
| 1 | Kubo supervision, `src/cli/commands/daemon.ts` | `kuboProcess`, `pendingKuboStart`, `liveKuboPids`, `keepKuboUpInFlight`, `mainProcessExited`, the watchdog interval, `daemonServer`, `reachabilityRuntime` | `keepKuboUp`, watchdog tick, `createOrConnectRpc`, `killKuboProcess`, `shutdownDaemon`, exit and signal handlers, the catch block of `run` | three callers re-enter `keepKuboUp` across its awaits; exits, signals and timeouts race starts; shutdown from two sides |
| 2 | Kubo start, `src/ipfs/startIpfs.ts` | the kubo repository and its config, listeners on the child | preparation (init, config, routing, migrate, port check), spawn, ready / error / exit | events in any order; non-atomic edits of the config |
| 3 | Daemon state registry, `src/common-utils/daemon-state.ts` | one file per daemon pid | write, read all, prune, delete, supervisor detection | pid reuse, concurrent pruning |
| 4 | Update install, `src/cli/commands/update/install.ts`, `src/update/*` | which daemons run, the installed files | stop, fast update, full install, restart | partial failure between stop and restart |
| 5 | Fast update, `src/update/fast-update.ts` | install root, staging, backup | download, move `node_modules` and web UIs, swap, roll back | crash or failure between renames |
| 6 | Package registry, `src/common-utils/package-registry.ts` | installed packages, registries of pkc-js | install, remove, list, load, reload | failure half way, reload during reload |
| 7 | RPC and web server, `src/webui/daemon-server.ts` | auth key, reload endpoints, server handles | start, reload, destroy | start and shutdown overlap |
| 8 | Log file, `src/common-utils/daemon-file-logger.ts` | write stream, pending buffer, trim in flight | write, trim, close | writes during a trim, failed trim |
| 9 | Repo GC, `src/ipfs/repoGc.ts` | GC in flight, timer | schedule, run, stop | overlap, stop during a run |
| 10 | `bitsocial logs`, `src/cli/commands/logs.ts` | file followed, offset | read new data, switch to a newer file | two timers share the offset |
| 11 | Community export and edit, `src/cli/commands/community/{export,edit}.ts`, `src/util.ts` | temporary files | export, download, verify; merge | failure after export |
| 12 | Reachability runtime, `src/reachability/runtime.ts`, `caddy.ts` | Caddy process, leases, certificates, back-off | start, checks, address changes, stop | checks that overlap, Caddy restarts, stop |
| 13 | Reachability setup, `src/reachability/{setup,kubo-config,lifecycle,state}.ts` | kubo config, applied edits, state file | setup, apply, verify, disable, purge | partial failure, exact undo |
| 14 | Thin commands, hooks, banner | none | one request each | none |

Component 1 calls 2 (`startKuboNode`), 7 (`startDaemonServer`, `destroy`), 12
(`start`, `stop`, `killCaddySync`), 9 and 3; component 4 drives daemons through
3 and signals and installs through 5; 6 reaches a running daemon through the
reload endpoints of 7; 13 restarts and checks the kubo that 1 supervises.

What makes each of them correct:

1. one kubo at a time; none survives the daemon; tracking is never stale; kubo
   comes back after failures; shutdown ends; a kubo in service gets SIGINT first.
2. every path settles the promise exactly once; the config survives concurrent edits.
3. a live daemon is always listed; pruning never deletes a live daemon's file.
4. every daemon stopped is started again, on one version; nothing runs twice.
5. the installation is the old or the new one, complete, after any failure.
6. what is loaded is what is installed; a failed install changes nothing.
7. no server outlives `destroy`.
8. lines come out in order, once; a line reported as written is in the file.
9. at most one GC; none after stop.
10. each line is printed once, in order, across file switches.
11. the export is complete and verified or absent.
12. one Caddy at most, none after stop; issuance backs off.
13. undo restores what the user had; a failed verification restores the config.

PROJECT.json lists every component with its status, and the hazards at their lines.

## 2. Plan

All modules of the plan are written: `KuboSupervisor` (components 1, 2) over
`KuboContract`, `FastUpdate` (5), `FileLogger` (8), `LogsFollow` (10), `PackageRegistry` (6, 7),
`DaemonStates` (3) with `UpdateInstall` (4) on top, `KuboEdits` (13) with
`ReachabilityFiles` (12, 13) on top, and `CaddyRuntime` (12, 13).

What could still be added:

- the composition of `FileLogger` with `LogsFollow`: the log file of the one is the
  input of the other, where `LogsFollow` now treats a trim as one step;
- in `ReachabilityFiles`, changes of the network while an apply runs.

## 3. Modules

### KuboSupervisor

The daemon is one JavaScript thread, so a step is what it runs between two
awaits, or one event handler.  Steps of kubo, of other programs at its port, of
users (signals) and failures (counted by `faults`, bounded by `MaxFaults`)
interleave freely.

| State | Code |
|---|---|
| `kubo`, `sig`, `listeners` | each child process: life, strongest signal, Node's `exit`/`error` listeners |
| `foreign` | another program at the kubo API port, a healthy kubo or not |
| `kuboProcess`, `pendingKuboStart`, `liveKuboPids`, `keepKuboUpInFlight`, `mainProcessExited`, `warnedAboutKuboConfigMismatch` | the locals of `Daemon.run` of that name (promises stand for the attempt that owns them) |
| `attempt`, `isKuboApiPortTaken`, `spawnedProcess` | program counter and locals of each `keepKuboUpOnce` call |
| `tick` | watchdog ticks that wait for the port check, with the parameters read before it |
| `startup` | where the body of `run` is, from line 774 |
| `server`, `watchdog`, `reach` | `daemonServer`, `keepKuboUpInterval`, `reachabilityRuntime` with its Caddy |
| `shutdown`, `teardown`, `awaited`, `victim`, `signals`, `exitKind` | `shutdownDaemon`, `killKuboProcess`, its awaited promises and the pid it signalled, `terminationSignalCount`, how the process ended |

The composites `ByAttempt`, `ByExit`, `ByTick`, `ByStartup` and `ByShutdown` hold
the frame of each actor and require that the daemon runs.  A kubo's exit runs
all its listeners in one step, in registration order, as Node does.

Abstractions: POSIX only; an `error` event only comes for a process that could
not be created; the effects of the state file, repo GC and the reachability
runtime are left to their own modules (here only their await points are kept);
the `PKC_CLI_TEST_*` hooks are left out.  A kubo name is used again only once
nothing in the daemon refers to it (`Fresh`), so names do not limit restarts.

### KuboContract

What the daemon promises of its kubos: they run one at a time, and a daemon that
stops leaves only kubos that were sent SIGKILL; a crash may leave one running.
`KuboSupervisor!Contract` is the refinement mapping.

### FastUpdate

`fastInstallGlobal` and `downloadWebui`, one action per call on the file system or the
network.  Any of them may fail, the process may be killed between any two of
them, and updates follow one another, each from what the last one left.

| State | Code |
|---|---|
| `dir` | `installRoot`, `stagingDir` and `backupDir`: the package, the release of each web UI its `package.json` declares, `node_modules`, `dist/webuis`, and for each release of a web UI whether its directory there is missing, half extracted or whole |
| `pc` | the call that is due, in the body, in the catch block or in the loop of downloads |
| `nodeModulesMoved`, `webuisDirMoved`, `changedWebuis` | the locals of that name |
| `toDownload` | what is left of the loop over web UIs |
| `result` | `true`, `false` (the caller falls back to `npm install -g`), thrown, or killed |
| `sound`, `failed`, `faults`, `runs` | observed: whether the daemon could start when the update began; history and bounds |

`Throw` is every failure inside the try block, with what the failing call had
done by then (`Debris`); `FallBack` is a changed dependency or `EXDEV`.
`InstallGlobal` is the full installation that the caller, or the user, runs
after a failure; like `bin/postinstall.js` it may skip web UIs, but not all of them (`NpmInstalled`).

Each version declares web UIs and releases of its own (`Extract`), so that a web UI that a version no longer
declares stays in a reused `dist/webuis`.  Only releases that differ count as changed (`Compare`), and only
while `webuisDirMoved` are their directories removed (`Dropped`).  `Starts` is the command line; `Usable` is the daemon, which also lists
`dist/webuis` at its start and reads a page in every directory there (`daemon-server.ts:103`), so that it fails without
the one, or over a half extracted one.

A directory stands for a web UI with a release: the code recognises it by the name of the repository within
the name of the directory, which is taken not to occur in that of another web UI.

### FileLogger

`createDaemonFileLogger` and how the daemon uses it.  Lines are numbered, and sizes
are counted in lines.

| State | Code |
|---|---|
| `stream`, `queue`, `bytesWritten` | the current `fs.WriteStream`, what it has not yet written, its counter |
| `file` | the lines in the file |
| `trimming`, `tail` | `trimming` with the await of `trim()` that is due, and what it has read |
| `pending`, `closed` | `pendingDuringTrim`, `closed` |
| `lines`, `accepted` | history: the lines written, and those that got `true` |
| `process` | whether the daemon runs; its exit handler calls `close()`, of which only the synchronous part runs |

`Flush`, `FlushFails` and `StreamEnds` are Node's stream in the background.  A trim
keeps what follows the first newline of the last `trimToBytes`, so `Recent` has one
line less.  `writeFile` empties the file and then fills it: two steps, between
which it may fail.

### LogsFollow

`bitsocial logs --follow`: the timers of `readNewData` and `checkForNewLogFile` over
shared `currentLogFile`, `position` and `pendingBuffer`, with a step per await.
The daemons are the environment: they append, start anew with a new file, and
trim.  A file is a sequence of pieces, three to an entry (a beginning with the
timestamp, the rest of that line, and a second line), so a read may end within a
line or an entry.

Abstractions: a check is over before the next one begins (it awaits three calls,
the timer has 3 s); listing the directory and using the result are one step; a trim
is one step; a filter is on or off, and every entry passes it.

### PackageRegistry

Command-line clients that install and remove packages (`installPackage`, `removePackage`,
`_refuseIfInUse`) and the daemon that loads them (`loadPackagesIntoPKC`), with a step per
file-system call of a client and per stretch between two awaits of the daemon.

| State | Code |
|---|---|
| `dir`, `scope` | what each package's directory holds; whether the directory of the one scope exists |
| `backup` | `previous-install` in a client's temporary directory |
| `cli` | a client: its step, name and version, and what it has asked of which community |
| `daemon`, `registry`, `shadowed`, `modules` | `PKC[registryKey]`, `shadowedByRegistry`, Node's cache of modules by url |
| `reload` | each run of `loadPackagesIntoPKC`: the entries it has still to read, the packages it found, the import in progress |
| `uses` | the packages a community's settings name |
| `installed`, `raced` | observed: what was installed and since then neither touched by a remove nor lost by a restore (below), and whether anything ran concurrently with a reload |

`Stage` is everything before the swap (npm pack, extraction, `npm install`, the ABI
check, validation): it works in a directory of its own and may refuse.  A url that was
imported before is answered from `modules`; the contents hash is in the url (`Key`).  A rename may
succeed over a directory that a remove has just emptied (`Takes`), and may fail for no reason seen here
(`Fault`); the `mkdir` of the scope's directory, outside the `try` with the restore, is taken to succeed.

### DaemonStates and UpdateInstall

`DaemonStates` has the processes with their reused ids, the files in `.daemon_states`, and
`getAliveDaemonStates` as a read, a probe per file and a deletion per dead one.
`UpdateInstall` EXTENDS it with `bitsocial update install`: find, plan, stop, fetch, install,
start, restart.

| State | Code |
|---|---|
| `proc` | what runs under a process id, with its start time, arguments, systemd unit, parent; `MainPid` reads a unit's MainPID off it |
| `files`, `scan` | the state files; each reader's list, with the one it is about to delete |
| `binary` | the installed version |
| `pc`, `queue`, `current` | the step of the command, and its loops |
| `managed`, `unmanaged`, `units` | `planDaemonRestarts`, and the units already restarted |
| `found`, `owed`, `reused` | observed: the daemons in service when the files were read, those stopped and not started again, ids reused under a reader |

A daemon that an old version wrote has no start time and no supervisor in its file.  Agents
are units that contain a daemon but do not run it.  The installation itself is one step:
what it may leave is the business of `FastUpdate`.

### KuboEdits and ReachabilityFiles

`KuboEdits` has `planKuboConfig` and its undo (`kubo-config.ts`) as operators on lists with
duplicates and with the three shapes kubo writes for an empty one.  `ReachabilityFiles` EXTENDS
it with everybody who reads and writes the four files without a lock.

| State | Code |
|---|---|
| `kubo`, `running` | kubo's config, and what it said of the addresses to announce when the running kubo was started |
| `cfg`, `site`, `status` | `reachability/config.json`, the Caddyfile, `runtime-status.json` |
| `daemon`, `pending`, `backoff` | `pendingIps`, `issuanceBackoff` |
| `chk`, `cli` | the check of the daemon and the command in progress, with what they read at their beginning |
| `job` | the `applyKuboConfig` of each, and what follows it: read, plan, write kubo's config, write the record, have kubo restarted |
| `here`, `answers`, `base` | the machine's addresses, the names that resolve to it, kubo's config as the operator alone would have it |
| `verified`, `lost`, `overlap`, `refused`, `fresh` | observed, below |

A certificate authority, a router, DNS and a dial are nondeterministic answers.
An address is an IP, a domain of the operator as `/dns4` or as `/dns6` (which one, its records decide when setup runs), or
`Proxy`, the address `--announce` was given, whose name is taken to differ from the domain.  A domain
may be replaced by another one, and a domain that need not be there is a set of at most one.

Kubo is restarted by a request (`Restart`) that a caller makes when its apply changed kubo's file, and setup also when it
finds that kubo does not announce what is stored (`RestartDue`).  The request may not be made, because kubo does not
answer, or not be taken; no caller fails for that, and kubo then runs on from an older copy.
A check may fail in an error at each of its steps and leave what it wrote, with the daemon living on (`CheckFails`).

`lost` is set when an apply was based on something that changed meanwhile or was cut short between
its two writes; `overlap` when a command and a check ran at once or one was cut short, by a kill or an error;
`verified` is cleared when a restart that was due was not taken, and set again by one that was, or by a setup that compared.

### CaddyRuntime

The daemon around its Caddy and the router: `watchCaddyOnce` with its queue, the child's exit
listener, `refreshLeases`, the change of the Caddyfile by a check, `stop()`, the exit handler; and
`setup` and `disable` in another process, which talk to the same admin port.

| State | Code |
|---|---|
| `caddy` | each Caddy process: who started it, whether it starts, serves, was told to stop, hangs or is over, and the file it loaded |
| `rt` | `caddyRunning`, `caddyAdopted`, `expectingCaddyExit`, `loadedCaddyfile`, `caddyChild`, the child `stop()` waits for |
| `queue`, `watch` | `watchQueue` and the run in progress |
| `phase` | the runtime, through `start()` and the awaits of `stop()` |
| `check`, `cli`, `file` | a check and a command that change the Caddyfile; what is to be served (0: disabled) |
| `lease`, `router`, `forward` | refreshes in flight, the discovered router, whether it forwards our ports |
| `late`, `crossed` | observed, below |

`crossed`: this daemon started a Caddy while one of its own was exiting, or its stop request went
to a Caddy other than its child; the exit of the one is then taken for that of the other.
`late`: a refresh of the 20-minute interval was in flight when `stop()` began.

## 4. Runs

| Run | Question | Bounds | Distinct states |
|---|---|---|---|
| `KuboSafety` | the safety properties of the supervisor and its refinement, over every interleaving | 2 kubos, 2 attempts, 2 ticks, 2 faults; symmetry | 476,430 |
| `KuboLiveness` | does the daemon get back on a kubo after failures; does a shutdown end | 2 kubos, 1 attempt, 1 tick, 2 faults | 396,856 |
| `FastUpdateSafety` | what an update may leave behind | 2 web UIs, 2 releases, 3 updates, 3 faults; symmetry | 1.4 million |
| `FileLoggerSafety` | order, loss, retry of a trim, close | trims above 3 lines to 2, buffer of 2, 12 lines, 2 faults | 64,169 |
| `LogsFollowTail` | what is printed while one file is followed, and what in the end | files of 5 and 1 pieces, 1 trim to 1, reads of 2 | 22,794 |
| `PackagesSafety` | what installs, removes and reloads at once do to disk and registry | 2 names (one scoped, one built in), 2 versions, 2 clients, 2 reloads, 1 community, 2 commands, 1 start, 1 fault; symmetry | 3.9 million |
| `UpdateSafety` | are the right daemons found, stopped and restarted | 2 process ids, 1 service, 1 agent, 3 launches, 1 kill or fault (`OneMishap`); symmetry | 3.6 million |
| `ReachSafety` | what commands, checks and the operator's edits leave in the files | 2 domains, 3 addresses (one IPv6), 2 networks, 2 kubo configs, 4 rounds, 1 change (`OneMishap`); symmetry | 2.2 million |
| `CaddyRuns` | does the right Caddy run; does anything outlive `stop()`; does it end | 3 processes, 2 events | 404,864 |
| `FastUpdateRollback`, `LogsFollowSwitch`, `UpdateRestarts` | findings, below | one fault or none | |

Why the bounds are enough:

- Supervisor: two kubos for "two at once", two attempts for a re-entry, two ticks for
  overlapping stale parameters; with two faults a failed start follows a
  crash, or another program takes the port between two starts.  For
  liveness one attempt slot does: attempts are single-flight (proved).
  `ExternalKubo` is `FALSE` in both runs; the proofs cover both values.
- Update: three faults are a failing step, a failing rollback step and a kill, or one
  in each of three updates, so that leftovers of one are the input of the next.  Two releases of two web UIs are
  enough for one to change, to be dropped or to come back while the other one stays.
- Log file: twelve lines are three trims with a full buffer; two faults, a failed trim
  whose retry fails.
- Follow mode: five pieces are an entry and the beginning of the next one, and with
  reads of two pieces every division of a line occurs; the second file is
  for the switch.
- Packages: two clients meet at every call of the swap, on one name or on two; two reloads
  of one daemon overlap with either; one fault is a kill, a failing rename or a failing import.
  A restore loses a package with two faults, both renames of one install, or with four commands, a
  remove and three installs (below): more than the run allows.  What `NothingLost` says there is left to its
  proof, which bounds neither; the property also held on 2 names of one scope, 3 clients, 4 commands
  and 2 faults without a daemon (2.8 million states).
- Update and restart: two ids and three launches are a daemon that ends and whose id another
  process takes; with one kill it leaves its file behind.  A kill together with a failing call is left
  to the proofs, which bound neither.
- Reachability: a command counts for three rounds, so one command meets one check, or four checks
  follow one another from every stored configuration (`Init` has those that setups leave).
  Two networks are a change of the IPv4 address together with a new IPv6 one, so that a domain may get
  an IPv6 record; two domains are one that is replaced by another; two configs
  of kubo are its default and one with duplicates of what reachability adds.  Nothing tells the domains
  apart, so they are symmetric.  `OneMishap` ends a behaviour in which, beside the one
  change, an apply has gone wrong or a command and a check run at once; what follows then is left to the proofs.
- Caddy: three processes are one exiting, one starting and one of another owner; two events
  are a change of the Caddyfile and a failure in any order, or two of either.

Deadlock checking is off everywhere: a daemon ends, and the bounded inputs run out.

### Properties

- Supervisor: `AtMostOneKubo`, `NoOrphan`, `NoStaleTracking` (invariants); `AdoptedKuboGetsGrace` (action property: SIGINT comes before
  SIGKILL); `ImplementsContract` (refinement); `KuboKeptUp`, `ShutdownTerminates` (liveness).
- Update: `StartsAfterwards` (the command line), `UsableAfterwards` (the daemon), `ModulesSurvive`,
  `NoOutdatedWebui`, `InstalledIsComplete` (invariants).  They name the steps whose failure they exclude:
  the rollback's own renames, the second rename of the swap, a kill within the swap (`Unrecovered`, `Window`);
  for the daemon also those that lose `dist/webuis`, do not make it or leave half a web UI in it (`WebuisLost`).
- Log file: `InOrder`, `RecentAreKept`, `FailedTrimIsRetried` (invariants); `CloseFlushes` (liveness).
- Follow mode: `OnceInOrder` (invariant); `LinesAppear` (liveness: while one file is
  followed and nothing was trimmed or filtered, each complete line is printed in the
  end; and a newer daemon's file is followed in the end).
- Packages: `BuiltInKept`, `NothingLost`, `ReloadTakesEffect` (invariants); `InUseIsRefused` (action
  property).
- Update and restart: `OwnFileKept`, `NobodyIsLeftBehind` (invariants); `SupervisedIsLeft`,
  `RestartsDoNotCollide` (action properties).
- Reachability: `BaselineKept` (undoing the recorded edits always gives the operator's
  own config), `ServesWhatIsStored`, `KuboRunsWhatIsStored` (what kubo was started with holds every stored address) (invariants); `DisableStands`, `ServingIsKept`,
  `NamesSurviveChecks`, `FailedFamilyWaits`, `FreshDay` (action properties).
- Caddy: `NoCaddyOutlivesDaemon`, `ForwardsReleased`, `ExpectedExitComes` (invariants);
  `StopTerminates`, `CaddyFollowsFile` (liveness).

`ReachSafety` also checks `TypeOK`; it is proved in every module.

### Where the properties claim nothing

The code really behaves as follows; the properties except it, by the name given.

- Supervisor: an RPC server that comes up after shutdown has looked for one (`daemon.ts:688`) is not
  destroyed; it ends with the process.
- Follow mode: after a trim the offset points into the middle of the shortened file or behind
  its end, and lines are skipped; with a filter, the second line of an entry is dropped when
  it begins a batch.
- Log file: a line written to a stream that failed is lost although `true` was
  returned (`daemon-file-logger.ts:15`); the process's exit loses what the stream had queued, and within a trim, between the
  emptying of the file and its filling, the file's lines.
- Update: a web UI that is missing, not changed, is not downloaded (`fast-update.ts:115`), and one that the new
  version no longer declares is kept and served.
- `UsableAfterwards`: when a step fails after `dist/webuis` was moved to the staging directory (`fast-update.ts:83`) and before
  the swap is over, the catch block puts `node_modules` back, but not the web UIs, and deletes them with the
  staging directory (`:157`).  The installation then has no `dist/webuis`, and its daemon does not start.
  Neither does it when a download that failed left a half extracted web UI, or none and no directory for it (`:125`).
- `NothingLost` (`installed`): when a restore fails, the temporary directory with the only copy is
  removed.  It fails if both renames do, or if the `removePackage` of another package of the scope deletes the
  empty scope directory between the `mkdir` and the `rename` of the install (`package-registry.ts:241`, `:291`).
  And a restore may put back what another client's remove had half emptied before it was moved aside: two
  clients with four commands, without any fault.  While that copy is being put back, the second client may
  have a good one aside, and then neither its new version nor its old one fits in.
- `ReloadTakesEffect` (`raced`): concurrent reloads, or a change during a reload, may leave the registry
  behind the disk; a package replaced between its hash and its import stays in Node's cache
  under the wrong hash.
- `InUseIsRefused`: a community edited after it was asked, and before the package is removed, is not asked
  again (`package-registry.ts:313`).
- `OwnFileKept` (`reused`): a daemon whose id another reader has just found dead may lose its
  file.  `SupervisedIsLeft` holds only while `systemctl` answers.  That an id is reused between the
  plan and the SIGINT is not excluded by the code.
- `lost`: nothing locks kubo's config or the record of its edits, so two applies at once, or a kill between
  the two writes, leave edits that are not recorded.
- `verified`: no caller learns whether the restart it asked for was done (`discovery.ts:229`), a disable and setup make no
  request when kubo does not answer (`lifecycle.ts:39`, `setup.ts:297`), and an apply of a check or a
  disable that changes nothing asks for none.  Kubo may then run from an older copy of its config, until it is
  restarted for another reason or a setup finds addresses missing; the comment at `setup.ts:303` says so.  A
  daemon that finds a kubo from before its own start (one that outlived a killed daemon) takes it as it is.
- `ServingIsKept`: setup takes a node to serve something of its own when it announces more addresses
  than it has proxies (`setup.ts:412`), and counts a proxy that is dropped for now too.  A node that announces one
  address, with a dropped proxy beside it, so loses that address when a rerun of setup gets no certificate, although
  `docs/reachability.md:45` says that such a rerun leaves a node already serving "exactly as it was".
- The status file knows a failing name, not an address (`runtime.ts:477`).  When a domain's `/dns4` address
  is dropped and a setup announces its `/dns6` one, the name counts as dropped: if it fails, every check starts a
  new 24 hours for the announced address, and when it recovers both forms may be announced.
- `overlap`: a setup killed during its wait, or refused at it (`NeedsAnswerError`), and a check whose reload
  fails (`CheckFails`) leave the candidate Caddyfile.  `saveAndApply` takes only `enabled` and `kuboEdits` from the
  config it reads again (`runtime.ts:382`), so what a setup stored during a check's wait
  (the domain, `--announce`) is overwritten.
- `FailedFamilyWaits` (`refused`): when a setup stores a new address of a family during the very wait
  that fails for it, the back-off holds only the addresses the check read before the wait
  (`runtime.ts:396`), so the next check takes the new one as proof of a later certificate
  (`runtime.ts:405`) and tries the failed address again; a certificate from `setup` is meant to end the wait.
- `FreshDay` (`fresh`): a name that setup itself dropped, while the status file already had it as failing, and
  that a second setup announces again before any check, keeps the old `failingSince` and may be dropped by the
  next check; `docs/reachability.md:128` says "Rerunning `setup` can also announce it again, which starts a
  new 24 hours", and the comment at `runtime.ts:474` handles only a name that a check has seen dropped.
- `late`: a refresh of the 20-minute interval that is in flight when `stop()` begins maps the ports after `stop()` has released them, and the forward outlives
  the daemon (compare the comment at `runtime.ts:558`).

### Fairness

- `KuboSupervisor`: what is due in Node's loop runs (attempt steps, exit events,
  ticks, startup and shutdown steps, timers), and the kernel carries out a SIGKILL.
  `KuboKeptUp` has a premise, `FairBoot`: a kubo that can become ready or
  cannot bind its port does not hang.  The code has no timeout for a start, so a kubo
  that hangs before "Daemon is ready" blocks `keepKuboUp` for good.
  Nothing is assumed of `destroy()`, of the reachability stop, or of another program's leaving.
- `FileLogger`: what Node's stream and `trim()` have begun they go on with, one step of
  them at a time (`InBackground`).  Nothing makes the daemon write or close.
- `LogsFollow`: both timers fire again and again and what they await arrives (weak
  fairness of `Start`, `Poll` and `Check`).  Nothing makes a daemon write.
- `CaddyRuntime`: the awaits of a watch run, of a check and of `stop()` end (each has a time
  limit in the code), the timers fire, requests to the router are answered or fail, a Caddy
  that does not hang starts, exits and has its exit reported, and `disable` ends.  Nothing makes a
  setup end, or anybody stop the daemon.

### Findings

- `FastUpdateRollback`, `SwapFailureRestoresModules` (`src/update/fast-update.ts:136`): when the second rename of the swap
  fails, the catch block puts `node_modules` back before the installation is back in its
  place; that fails silently, and the staging directory with `node_modules` is deleted.
- `LogsFollowSwitch`, `SwitchSkipsNothing` (`src/cli/commands/logs.ts:190`): on a switch the offset comes from a
  `stat` after the dump, and what is appended in between is never printed.
- `UpdateRestarts`, `StoppedAreRestarted` (`src/cli/commands/update/install.ts:87`): daemons are stopped before the
  latest version is fetched; when that or the installation fails the command
  ends, and nobody starts them again.

## 5. Proofs

### KuboSupervisorProofs

For every set of kubos, attempts and ticks, every `MaxFaults` and both values of
`ExternalKubo`, all safety properties of the supervisor.  The only assumption
is `ConstantsOK` (`None` is not a kubo or an attempt; types of constants).

- `TypeCorrect`: `TypeOK` is inductive.
- `NothingOutlivesTheDaemon`: `NoOrphan` is strengthened by `Reachable`: while
  the daemon runs, each live kubo is in `liveKuboPids` or was sent SIGKILL, so the
  exit handler finds it.  It needs no assumption about attempts at all: `onSpawn` adds the pid
  in the turn of the spawn, and only an exit or a sweep removes it.
- `OneKuboAtATime`: the core.  `AtMostOneKubo` is not inductive: that no kubo
  runs when an attempt spawns follows from `NotYetSpawned` (no kubo lives while
  an attempt is before its spawn), which needs `SingleFlight` (nobody else
  spawns meanwhile) and, when an attempt begins, `Tracked` (a live kubo is the tracked
  one until shutdown begins), which in turn needs `StartTracked` (a kubo that is
  being started is not forgotten by a failing attempt) and `ShutdownOrder`.
- `TrackingIsNotStale`: adds `Heard`, a tracked kubo has the listener that will forget it.
- `AdoptedKuboIsAsked`, and `WatchdogFollowsRpc`: from the same invariant.  No run checks the latter
  (`WatchdogImpliesRpc`); it justifies that in `TickChecked` the `createOrConnectRpc` of a tick does nothing.
- `SupervisorImplementsContract`: each step is a step of `KuboContract` or a stutter.

### FastUpdateProofs

For every set of web UIs and releases and any number of faults and updates, all that
`FastUpdateSafety` checks.  The only assumption is `ConstantsOK` (both bounds are natural numbers, and
"none" is no release).

- `TypeCorrect`: `TypeOK` is inductive.
- `Invariant`: `IInv`, the conjunction of six parts, is.  None of the properties is
  inductive: each speaks of the end of an update, or of one directory, and depends on
  where things are half way.  `Where` says for each step of the body in which
  directory `node_modules` and a complete package are; `Rollback` says it for the
  catch block, by the step that failed; `Ended` carries it over to the end; `Fetched` says what the loop
  over the downloads has made so far; `Current` says at which steps which directory may hold an outdated web UI;
  `Served` says where a `dist/webuis` is from which the daemon could start, and which failures end that.
- `ProgramStarts` (`StartsAfterwards`), `DaemonStarts` (`UsableAfterwards`), `ModulesAreNeverLost` (`ModulesSurvive`),
  `TrueMeansInstalled` (`InstalledIsComplete`), `WebuisAreCurrent` (`NoOutdatedWebui`) follow from it.

### FileLoggerProofs

For any limits and any number of lines and failures; the assumption is `OptionsOK`
(natural numbers; `trimToBytes` is at least 1 and below `maxBytes`).
`InOrder` is not inductive: a trim moves the file's lines through `tail` and lets
lines pass it in `pending`.  `IInv` adds that from `stat()` on nothing is left in the stream that
could reach the file (`Stopped`), that `tail` is what the file will hold (`Tails`), that each place's
lines come before the next one's (`Sorted`), that the stream is only over while a trim is due (`Due`), and
that lines are only lost off the front, by a trim that kept enough (`Losses`).
`LinesAreInOrder` (`InOrder`), `TrimIsTriedAgain` (`FailedTrimIsRetried`), `NewestSurvive`
(`RecentAreKept`) and `TypeCorrect` follow.

### LogsFollowProofs

For any number of files, sizes, reads and trims, assuming `ParametersOK`.  `PrintedOnceInOrder` (`OnceInOrder`) rests on the
position of a piece in all that was ever appended to its file: `ReadUpTo` is the offset
plus what trims have cut off.  A trim only moves it forward, so what is read next lies behind all that
was printed or kept (`Following`), and so does the chunk of a read in progress (`Reading`).
Splitting a chunk at its last complete line needs the greatest of a set of positions, proved
from the well-foundedness of finite sets.

### PackageRegistryProofs

For any packages, versions, clients, concurrent reloads, kills and failures, assuming `ConstantsOK`.
`BuiltInsSurvive` (`BuiltInKept`): inductive as it stands.  `InUseIsSafe` (`InUseIsRefused`): a command that
asks has, for every community that names the package and was not edited since, a question
left or the answer that it is in use (`Commands`).  `ReloadsTakeEffect` (`ReloadTakesEffect`): as long as
nothing interfered (`Undisturbed`), only one reload runs, the cache holds under each hash what
has that hash, and each step of the reload knows what is on the disk (`Knows`).

`NothingIsLost` (`NothingLost`), beside that invariant, from `Copies`: a client's temporary directory holds
something only from the step that moves it aside to the one that cleans up, the client then knows that
there was something to restore (`Held`), and a package that is not in its place is carried by a client that has
yet to place or restore it, or that was killed (`Carries`).  The proof has one lemma for a step of one client
among the others (`OneClientMoves`), and one for steps that leave the disk alone (`DiskUntouched`).  The attempt
showed that `NothingLost` had been false beyond the bounds of its run (two commands), and that it
had left out packages with a scope, more than it needed to: `installed` now says exactly which restores lose one.

### UpdateInstallProofs

For any process ids, units, numbers of processes, kills and failures, all that `UpdateSafety`
checks, assuming `ConstantsOK`.  Every step leaves a process as it is but for its phase, ends it, or
gives its id to a new one with an unused start time (`Evolves`), so what is known of a process by
its start time lasts.  `FilesAreKept` (`OwnFileKept`) needs that no reader holds, or is about to delete, a file
of a daemon in service that names another start time (`Guarded`).  `NoneIsLeftBehind` (`NobodyIsLeftBehind`)
follows each daemon that was found through the command: its file is on the way (`Scanning`), in the
list or in the plan (`Listing`), with the unit it is in (`ManagedOK`, from `Sound`); those to stop are gone
when the loop is over (`StoppedOK`), those of a unit when it is restarted (`RestartedOK`).
`NoCollision` (`RestartsDoNotCollide`) and `SupervisorsDecide` (`SupervisedIsLeft`, from `UnmanagedOK`
and `Alone`: a unit runs one daemon at a time) follow from the same invariant.

### CaddyRuntimeProofs

For any number of processes and events, assuming `ConstantsOK`.  `NothingRunsOn` (`NoCaddyOutlivesDaemon`) needs that every
Caddy of this daemon is `caddyChild` (`Child`), because `killCaddySync` kills only that one; it
holds through the exit events, which forget the child whoever exited, because only one of this daemon's is there
unless they `crossed`.  `NoExpectationIsStale` (`ExpectedExitComes`) needs that the expectation
is set only together with a request to a child (`Expected`).  `NothingIsForwarded` (`ForwardsReleased`)
needs that ports are mapped only with a known router (`Leases`), and that after its waits `stop()` finds no refresh
in flight that it does not know of (`Released`).  `Runs` says that nobody asks for a watch run twice, which bounds the queue.

### ReachabilityFilesProofs

For any addresses, kubo configs of the operator and numbers of commands, checks, edits and kills, assuming
`ConstantsOK`.  No property is inductive: a check and a command decide on copies of the files, so `IInv` says what
each knows at each step.  `TypeCorrect` (`TypeOK`) is `Typed` with the locals; it needs that `planKuboConfig`
returns a config and a record again (`Planned`).  `Steps` ties an apply to the caller that waits for it.

- `DisablesStand` (`DisableStands`): `Recorded`, an apply that holds an enabled config over a
  disabled one has `lost` sight of it.
- `NamesSurvive` (`NamesSurviveChecks`): `Disjoint`, for every copy of the config, address by address and with those of
  the stored domain and the proxies only (`Apart`); `Alone`, without `overlap` the copy
  a check decides on is what is stored.
- `ServingStays` (`ServingIsKept`): `Alone` too, which says what a setup that got no certificate
  found and what it is going to announce (`Holding`).  Its guard counts, and the property speaks of the addresses themselves;
  `OwnAreCounted` relates the two, for sets that are finite and a config all of whose proxies are announced.
- `SitesAreStored` (`ServesWhatIsStored`): `SitesStored` says whose addresses the Caddyfile has at each step,
  and which copy puts them back.
- `KuboRunsTheFile` (`KuboRunsWhatIsStored`): `Announcing`, kept beside `IInv` and `Undoable`.  Kubo's file announces
  what is stored unless an apply is between its two writes, and is then what that apply is about to store
  (`PlanAnnounces`: every plan of an enabled config announces its addresses, which adding, undoing and adding anew
  must not lose); what runs is what was in the file when kubo last started, so a change that does not restart it
  keeps the property only where it announces nothing new, and clears `verified` elsewhere.
- `FailedFamiliesWait` (`FailedFamilyWaits`): `Waits`, a family that waits has no stored address, in the file
  or in a copy, that its back-off does not hold; else `addressesWorthTrying` would end the wait.
- `FreshDays` (`FreshDay`): `Excuses`, a name announced again that fails in the status file is dropped there,
  and the check's copy of the status is the file's.
- `BaselineStands` (`BaselineKept`): `Undoable`, kept beside `IInv`. `Undoes(k, e, b)` says what an apply has
  made of the operator's config `b`: each list has the operator's own entries in their order, those that were
  added in one place, each of them once and no such entry before, and behind them what the operator added
  since (`Holds`); the filters are the operator's without the loopback ones. `Undoable` says it of kubo's
  config and the stored record while no apply is between its two writes, else of what that apply is about to
  store; after a write it did not expect, `lost` is set. Every apply and every edit of the operator keep it
  (`PlanKeepsOwn`, `AppendedToBoth`, `SwitchedInBoth`), and from it the undo returns `b` (`OwnConfigBack`).
- `RoundTrip`: the same of `planKuboConfig` alone, for any config and two applies in a row.

What the code computes in loops (`withoutOneOfEach`, the `splice` of the filters) `KuboEdits` defines by
positions, without a fold: the first occurrence of each entry goes, and an index says where a filter lands. So
no induction over lists is needed: an entry is found by the rank of its position (`EntryAtRank`).
`ConstantsOK` takes `Ips` and `Domains` to be finite, the kinds of address to be distinct, and every config of `Bases` to be as kubo writes it: a list that is
absent or null has no entries.

The attempt showed `FailedFamilyWaits` and `FreshDay` false as they had been stated: the bounds of the run
leave no room for a setup within the wait that fails, or for two setups between checks. They now except what
the code does there (above).

### Only model-checked

Liveness (`KuboKeptUp`, `ShutdownTerminates`, `CloseFlushes`, `LinesAppear`, `StopTerminates`,
`CaddyFollowsFile`), which is out of the prover's reach.  Every invariant and action property that a
passing run checks is proved.

## 6. Not modelled

- Of 1, what `run` does before line 774 other than through the parameters it sets.  Of 2, what is written
  into the kubo config: `startIpfs.ts` merges defaults into it, and `ensureKuboRouting` reads and writes it without
  a lock before kubo starts; `ReachabilityFiles` leaves that writer out.
- Of 3, the one-time move of an old data directory (`data-migration.ts`).
- 4: two updates of one installation at once, which nothing in the code prevents, are assumed away.
- Of 7, HTML, the auth key and proxying.
- 9, the GC scheduler: one flag and one abort signal, set and cleared without an
  await in between; a model would restate it.
- Of 10, the flags and the dump without `--follow`.
- 11, community export and edit: sequential requests, one temporary file.
- Of 12 and 13: `--force`, `--staging` and the ports; kubo configs without the sections `Addresses` or `Swarm`; what the
  probes (`checks.ts`, `libp2p-dial.ts`, `unmanaged.ts`) and discovery compute, which are inputs; reports that only log
  (`reportNotConfigured`, `verifyBrowserAddresses`).  The network changes only while no apply runs.  In
  `CaddyRuntime`, that no router answers and that a setup puts an older Caddyfile back within
  one period of the watch.
- 14, message texts and archive contents: they keep no state of their own.

------------------------- MODULE ReachabilityFiles -------------------------
(***************************************************************************)
(* The files reachability lives in, and the processes that read, decide,   *)
(* wait and write them without a lock:                                     *)
(*   - `bitsocial reachability setup`, `enable` and `disable [--purge]`    *)
(*     (src/reachability/setup.ts, lifecycle.ts), one at a time;           *)
(*   - the daemon's checks (runChecks of src/reachability/runtime.ts).     *)
(* The files are reachability/config.json, the Caddyfile, kubo's config    *)
(* (module KuboEdits) and runtime-status.json.  Each is read or replaced   *)
(* in one step (writeJsonAtomic); between two of them anything may happen. *)
(*                                                                         *)
(* An address is an IP of Ips, a domain of the operator as /dns4 or /dns6, *)
(* which our Caddy serves, or Proxy, an address of the operator's own      *)
(* proxy, which has a name too.  --force, --staging and the ports are left *)
(* out.  A domain that may be missing is a set of at most one.             *)
(***************************************************************************)
EXTENDS KuboEdits

CONSTANTS
    Ips,
    V6,           \* those of Ips that are IPv6
    Domains,      \* the names the operator may give as --domain
    Hosts,        \* the sets of public IPs the machine may have
    Bases,        \* kubo configs an operator may have
    OperatorsOwn, \* addresses the operator may add to kubo's config
    MaxRounds,    \* bound on commands and checks; a command counts for three
    MaxChanges    \* bound on what the operator and the network change, and on stops, kills and failures

ASSUME ConstantsOK ==
    /\ V6 \subseteq Ips /\ Hosts \subseteq SUBSET Ips
    /\ Ips \cap ((Domains \cup {"proxy"}) \cup ({"dns4", "dns6"} \X (Domains \cup {"proxy"}))) = {}
    /\ "proxy" \notin Domains
    /\ IsFiniteSet(Ips) /\ IsFiniteSet(Domains) /\ \A b \in Bases : WellFormed(b)
    /\ MaxRounds \in Nat /\ MaxChanges \in Nat

VARIABLES
    kubo,      \* kubo's config
    running,   \* the entries of Addresses.AppendAnnounce the running kubo was started with
    verified,  \* observed: each change of kubo's config was followed by a restart kubo took, or setup
               \* has since found that kubo announces what is stored
    cfg,       \* reachability/config.json
    site,      \* the sites of the Caddyfile
    status,    \* runtime-status.json: names seen failing, names recorded as dropped
    here,      \* the public IPs of the machine
    answers,   \* the names that resolve as they should
    daemon,    \* "up", "stopping" or "down"
    pending,   \* pendingIps
    backoff,   \* issuanceBackoff, by family
    chk,       \* the check in flight
    cli,       \* the command that runs
    job,       \* the applyKuboConfig of each of the two
    base,      \* observed: kubo's config without any edit of reachability
    lost,      \* observed: an apply was based on something that changed meanwhile, or was cut short
    overlap,   \* observed: a check and a command ran at once, or one was cut short (also by an error)
    refused,   \* observed: families whose last attempt failed and whose wait is not over; one that
               \* got an address since the attempt began, from a setup, does not wait
    fresh,     \* observed: addresses of dropped names a setup announced again, not checked since,
               \* whose name the status file knew as dropped or had nothing against
    rounds, changes

process == <<running, verified>>
files == <<kubo, process, cfg, site, status>>
world == <<here, answers, base, changes>>
memory == <<daemon, pending, backoff>>
observed == <<lost, overlap, refused, fresh>>
vars == <<files, world, memory, chk, cli, job, observed, rounds>>

Names == Domains \cup {"proxy"}
Protocols == {"dns4", "dns6"}
NameOf(address) == address[2]

\* The addresses a domain has had or may get: its records decide which one a setup announces.
Own(domain) == Protocols \X domain
Proxy == <<"dns4", "proxy">>
Named == Own(Domains) \cup {Proxy}
Addresses == Ips \cup Named
Families == {"v4", "v6"}
InFamily(f, ips) == IF f = "v6" THEN ips \cap V6 ELSE ips \ V6
Actors == {"cli", "check"}

NoConfig == [there |-> FALSE, enabled |-> FALSE, ips |-> {}, domain |-> {}, external |-> {},
             announce |-> {}, dropped |-> {}, serveWss |-> FALSE, edits |-> NoEdits]
NoSite == [there |-> FALSE, ips |-> {}, domain |-> {}]
\* generateCaddyfile: of all it writes, the sites matter here.
Caddyfile(ips, domain) == [there |-> TRUE, ips |-> ips, domain |-> domain]
NoCheck == [pc |-> "idle", config |-> NoConfig, next |-> {}, previous |-> NoSite,
            status |-> [failing |-> {}, dropped |-> {}]]
NoCli == [pc |-> "idle", kind |-> "none", previous |-> NoConfig, domain |-> {}, protocol |-> "dns4",
          announce |-> FALSE, ips |-> {}, usable |-> FALSE, busy |-> FALSE, issued |-> {},
          site |-> NoSite, edits |-> NoEdits]
NoJob == [step |-> "none", config |-> NoConfig, read |-> NoEdits, plan |-> NoEdits, changed |-> FALSE, then |-> "idle"]
NoBackoff == [on |-> FALSE, due |-> FALSE, held |-> {}]

Edits == [kept : BOOLEAN, swarmShape : Shapes, announceShape : Shapes,
          swarm : SUBSET {LocalWs, WebTransport}, announce : SUBSET Addresses,
          filters : SUBSET Nat, tls : TlsValues \cup {"none"}]
Config == [there : BOOLEAN, enabled : BOOLEAN, ips : SUBSET Ips, domain : SUBSET Domains,
           external : SUBSET {Proxy}, announce : SUBSET Addresses, dropped : SUBSET Named,
           serveWss : BOOLEAN, edits : Edits]

TypeOK ==
    /\ KuboConfig(kubo) /\ verified \in BOOLEAN
    /\ cfg \in Config
    /\ site \in [there : BOOLEAN, ips : SUBSET Ips, domain : SUBSET Domains]
    /\ status \in [failing : SUBSET Names, dropped : SUBSET Names]
    /\ here \subseteq Ips /\ answers \subseteq Names
    /\ daemon \in {"up", "stopping", "down"} /\ pending \subseteq Ips
    /\ backoff \in [Families -> [on : BOOLEAN, due : BOOLEAN, held : SUBSET Ips]]
    /\ chk.pc \in {"idle", "change", "wait", "settle", "names", "finish", "apply"}
    /\ cli.pc \in {"idle", "issue", "wait", "restore", "sites", "apply", "dial", "purge"}
    /\ \A a \in Actors : job[a].step \in {"none", "latest", "read", "kubo", "save", "restart"}
    /\ lost \in BOOLEAN /\ overlap \in BOOLEAN /\ refused \subseteq Families /\ fresh \subseteq Named
    /\ rounds \in 0..MaxRounds /\ changes \in 0..MaxChanges

\* planIpChange: an address of a family stays while it is seen; nothing seen says nothing.
PlannedIps(current, seen) ==
    LET OfFamily(f) ==
            LET held == InFamily(f, current)
                found == InFamily(f, seen)
            IN  IF found = {} THEN {held}
                ELSE IF held \cap found # {} THEN {held \cap found} ELSE {{ip} : ip \in found}
    IN  {v4 \cup v6 : v4 \in OfFamily("v4"), v6 \in OfFamily("v6")}

\* The state a setup leaves that got a certificate for every address, and for the name if there
\* is one; the daemon may have dropped the name since, or the operator disabled it all.
Configured(ips, domain, dropped, enabled) ==
    LET names == {"dns4"} \X domain
        announce == ips \cup (IF dropped THEN {} ELSE names)
        plan == PlanKuboConfig(base, announce # {}, announce, NoEdits, enabled)
    IN  /\ kubo = plan.config
        /\ cfg = [there |-> TRUE, enabled |-> enabled, ips |-> ips, domain |-> domain, external |-> {},
                  announce |-> announce, dropped |-> IF dropped THEN names ELSE {},
                  serveWss |-> announce # {}, edits |-> plan.edits]
        /\ site = Caddyfile(ips, domain)
        /\ status = IF dropped THEN [failing |-> domain, dropped |-> domain]
                    ELSE [failing |-> {}, dropped |-> {}]

Init ==
    /\ base \in Bases /\ here \in Hosts
    /\ \/ kubo = base /\ cfg = NoConfig /\ site = NoSite /\ status = [failing |-> {}, dropped |-> {}]
       \/ \E ips \in Hosts, enabled \in BOOLEAN : Configured(ips, {}, FALSE, enabled)
       \/ \E dropped \in BOOLEAN, d \in Domains : Configured(here, {d}, dropped, TRUE)
    /\ answers \in {Names, Names \ cfg.domain}
    /\ running = ToSet(kubo.announce.items) /\ verified = TRUE
    /\ daemon = "up" /\ backoff = [f \in Families |-> NoBackoff]
    /\ pending \in {{}} \cup (IF cfg.enabled THEN PlannedIps(cfg.ips, here) \ {cfg.ips} ELSE {})
    /\ chk = NoCheck /\ cli = NoCli /\ job = [a \in Actors |-> NoJob]
    /\ lost = FALSE /\ overlap = FALSE /\ refused = {} /\ fresh = {}
    /\ rounds = 0 /\ changes = 0

-----------------------------------------------------------------------------
(* applyKuboConfig, by either actor *)

Apply(a, config, step, then) ==
    job' = [job EXCEPT ![a] = [NoJob EXCEPT !.step = step, !.config = config, !.then = then]]

\* The actor goes on where the apply was to return to.
Return(a, pc) ==
    IF a = "check" THEN chk' = [chk EXCEPT !.pc = pc] /\ UNCHANGED cli
    ELSE /\ cli' = IF pc = "idle" THEN NoCli ELSE [cli EXCEPT !.pc = pc, !.edits = job[a].config.edits]
         /\ UNCHANGED chk

\* Mutant: the file being there is enough.
StillThere == cfg.there

\* The config may have been disabled, or moved away, since it was read.
StillEnabled == cfg.there /\ cfg.enabled

\* saveAndApply reads the config again: a disable in the meantime must stand.
ReadLatest ==
    LET j == job["check"] IN
    /\ j.step = "latest"
    /\ IF StillEnabled
       THEN /\ job' = [job EXCEPT !["check"].step = "read", !["check"].config.edits = cfg.edits]
            /\ UNCHANGED chk
       ELSE /\ job' = [job EXCEPT !["check"] = NoJob]
            /\ chk' = [chk EXCEPT !.pc = j.then, !.config = IF cfg.there THEN cfg ELSE j.config]
    /\ UNCHANGED <<files, world, memory, cli, observed, rounds>>

ReadKubo(a) ==
    LET c == job[a].config
        plan == PlanKuboConfig(kubo, c.serveWss, c.announce, c.edits, c.enabled)
    IN  /\ job[a].step = "read"
        /\ job' = [job EXCEPT ![a] = [@ EXCEPT
                       !.step = "kubo", !.read = kubo, !.plan = plan.config,
                       !.changed = plan.config # kubo, !.config.edits = plan.edits]]
        /\ lost' = (lost \/ cfg.edits # c.edits)
        /\ UNCHANGED <<files, world, memory, chk, cli, overlap, refused, fresh, rounds>>

WriteKubo(a) ==
    /\ job[a].step = "kubo"
    /\ job' = [job EXCEPT ![a].step = "save"]
    /\ kubo' = IF job[a].changed THEN job[a].plan ELSE kubo
    /\ lost' = (lost \/ kubo # job[a].read)
    /\ UNCHANGED <<process, cfg, site, status, world, memory, chk, cli, overlap, refused, fresh, rounds>>

\* The addresses whose name the status file knows as dropped, or has nothing against.
Excused == {a \in Named : NameOf(a) \in status.dropped \/ NameOf(a) \notin status.failing}

\* The addresses in c of the names dropped so far, in whichever form.
Again(c) == {a \in c.announce \cap Named : \E b \in cfg.dropped : NameOf(a) = NameOf(b)}

\* writeReachabilityConfig.  A kubo that need not be restarted for it may still announce less.
Save(a) ==
    LET other == CHOOSE b \in Actors : b # a IN
    /\ job[a].step = "save"
    /\ cfg' = job[a].config
    /\ job' = [job EXCEPT ![a].step = "restart"]
    /\ chk' = IF a = "check" THEN [chk EXCEPT !.config = job[a].config] ELSE chk
    /\ lost' = (lost \/ job[other].step \in {"kubo", "save"})
    /\ fresh' = IF a = "cli" THEN fresh \cup (Again(cfg') \cap Excused) ELSE fresh \cap cfg'.announce
    /\ refused' = {f \in refused : InFamily(f, cfg'.ips \ cfg.ips) = {}}
    /\ verified' = (verified /\ (job[a].changed \/ (cfg'.enabled = cfg.enabled /\ cfg'.announce \subseteq cfg.announce)))
    /\ UNCHANGED <<kubo, running, site, status, world, memory, cli, overlap, rounds>>

\* Mutant: kubo runs from its file unless this run changed it.
DueIfChanged(a) == job[a].changed

\* Setup also looks at what kubo announces: the file can be right and kubo run from an older copy.
Compares(a) == a = "cli" /\ cli.kind = "setup"
RestartDue(a) == job[a].changed \/ (Compares(a) /\ ~(job[a].config.announce \subseteq running))

\* Kubo is asked to shut down, and the daemon starts it again.  It may not answer, or not take the
\* request, and no caller fails for that; without a daemon there is no kubo.  The actor goes on.
Restart(a, taken) ==
    /\ job[a].step = "restart"
    /\ taken => daemon # "down"
    /\ running' = IF RestartDue(a) /\ taken THEN ToSet(kubo.announce.items) ELSE running
    /\ verified' = IF RestartDue(a) THEN taken ELSE verified \/ (Compares(a) /\ taken /\ cfg = job[a].config)
    /\ job' = [job EXCEPT ![a] = NoJob]
    /\ Return(a, job[a].then)
    /\ IF taken \/ daemon = "down" THEN UNCHANGED changes ELSE changes < MaxChanges /\ changes' = changes + 1
    /\ UNCHANGED <<kubo, cfg, site, status, here, answers, base, memory, observed, rounds>>

ApplyStep ==
    \/ ReadLatest
    \/ \E a \in Actors : ReadKubo(a) \/ WriteKubo(a) \/ Save(a) \/ \E taken \in BOOLEAN : Restart(a, taken)

\* What discovery finds: an IPv4 address may be known only to a router, which may not answer.
Discovered == {here, here \cap V6}

-----------------------------------------------------------------------------
(* setup and enable *)

\* Mutant: a node serves only if its domain is announced.
ServedByName(c) == c.there /\ c.enabled /\ c.announce \cap Own(c.domain) # {}

\* Reruns only add or repair: what a node serves already must survive a failed attempt.
ServedByUs(c) == c.there /\ c.enabled /\ Cardinality(c.announce) > Cardinality(c.external)

\* A stored name that does not point here any more keeps its site if it had one.
StaleOwn == IF cli.usable THEN {} ELSE Own(cli.domain) \ cli.previous.external
KeepsStaleSite == ~cli.busy /\ StaleOwn \cap (cli.previous.announce \cup cli.previous.dropped) # {}

CertificateNames == IF cli.busy THEN {} ELSE cli.ips \cup (IF cli.usable THEN cli.domain ELSE {})

\* Reading the stored config, discovery, the port, the DNS: all before the first change of a file.
\* A domain without an IPv4 record is announced as /dns6.
SetupBegins(asked, protocol, askAnnounce, ips, busy) ==
    LET previous == cfg
        domain == IF asked # {} THEN asked ELSE previous.domain
        usable == domain # {} /\ domain \subseteq answers /\ ips # {}
        begun == [NoCli EXCEPT !.kind = "setup", !.previous = previous, !.domain = domain,
                               !.protocol = protocol, !.announce = askAnnounce, !.ips = ips,
                               !.usable = usable, !.busy = busy]
    IN  /\ asked # {} => usable                      \* else it refuses
        /\ askAnnounce => daemon # "down"            \* else it refuses
        /\ protocol = "dns6" => usable /\ ips \cap V6 # {}
        /\ ServedByUs(previous) => ips # {} \/ busy  \* else it keeps serving what it has
        /\ cli' = [begun EXCEPT !.pc = IF busy \/ ips = {} THEN "sites" ELSE "issue"]

\* issueCertificates writes the Caddyfile, and starts Caddy or has the running one load it.
SetupIssues ==
    /\ cli.pc = "issue"
    /\ site' = Caddyfile(cli.ips, IF cli.usable \/ KeepsStaleSite THEN cli.domain ELSE {})
    /\ cli' = [cli EXCEPT !.pc = "wait", !.site = site]
    /\ UNCHANGED <<kubo, process, cfg, status, world, memory, chk, job, observed, rounds>>

SetupWaited(issued) ==
    /\ cli.pc = "wait"
    /\ cli' = [cli EXCEPT !.issued = issued,
                          !.pc = IF issued = {} /\ ServedByUs(cli.previous) THEN "restore" ELSE "sites"]
    /\ UNCHANGED <<files, world, memory, chk, job, observed, rounds>>

\* Nothing was issued: the old Caddyfile is put back and setup ends, or refuses --announce.
SetupRestores ==
    /\ cli.pc = "restore"
    /\ site' = IF cli.site.there THEN cli.site ELSE site
    /\ cli' = NoCli
    /\ UNCHANGED <<kubo, process, cfg, status, world, memory, chk, job, observed, rounds>>

\* Mutant: every name given up before is kept, whatever was asked for since.
EverDropped(announce, external) == (cli.previous.dropped \cup cli.previous.announce) \ announce

\* What the daemon may announce again: addresses of the domain asked for now, and of proxies.
StillDropped(announce, external) ==
    LET stale == IF KeepsStaleSite THEN StaleOwn \cap cli.previous.announce ELSE {}
    IN  {a \in (cli.previous.dropped \cup stale) \ announce : NameOf(a) \in cli.domain \/ a \in external}

\* buildConfig, with the record of the edits made so far.
BuildConfig(external, serveWss, edits) ==
    LET ips == cli.ips \cap cli.issued
        announce == ips \cup ({cli.protocol} \X (cli.domain \cap cli.issued)) \cup external
    IN  [there |-> TRUE, enabled |-> TRUE, ips |-> ips, domain |-> cli.domain, external |-> external,
         announce |-> announce, dropped |-> StillDropped(announce, external),
         serveWss |-> serveWss, edits |-> edits]

WantsWss(external) ==
    cli.issued # {} \/ external # {} \/ KeepsStaleSite \/ (cli.busy /\ cli.usable)

\* Keeps only the sites that work, then gives kubo its listeners and its addresses.
SetupWritesSites ==
    LET external == cli.previous.external IN
    /\ cli.pc = "sites"
    /\ site' = Caddyfile(cli.ips \cap cli.issued,
                         IF KeepsStaleSite THEN cli.domain ELSE cli.domain \cap cli.issued)
    /\ cli' = [cli EXCEPT !.pc = "apply"]
    /\ Apply("cli", BuildConfig(external, WantsWss(external) \/ cli.announce, cli.previous.edits),
             "read", IF cli.announce THEN "dial" ELSE "idle")
    /\ UNCHANGED <<kubo, process, cfg, status, world, memory, chk, observed, rounds>>

\* --announce is announced once a handshake through it worked; else everything is as before it.
SetupDials(ok) ==
    LET before == cli.previous.external
        external == IF ok THEN before \cup {Proxy} ELSE before
        serveWss == ok \/ WantsWss(before)
    IN  /\ cli.pc = "dial"
        /\ cli' = [cli EXCEPT !.pc = "apply", !.announce = FALSE]
        /\ Apply("cli", BuildConfig(external, serveWss, cli.edits), "read", "idle")
        /\ UNCHANGED <<files, world, memory, chk, observed, rounds>>

\* Kubo does not answer when --announce is to be verified: setup ends with the listeners in place.
SetupGivesUp ==
    /\ cli.pc = "dial"
    /\ cli' = NoCli
    /\ UNCHANGED <<files, world, memory, chk, job, observed, rounds>>

\* The operator runs setup; enable is setup with neither option, on a stored config.
StartSetup ==
    /\ cli.pc = "idle" /\ rounds + 3 <= MaxRounds /\ rounds' = rounds + 3
    /\ \E asked \in {{}} \cup {{d} : d \in Domains}, protocol \in Protocols,
          askAnnounce, busy \in BOOLEAN, ips \in Discovered :
             SetupBegins(asked, protocol, askAnnounce, ips, busy)
    /\ overlap' = (overlap \/ chk.pc # "idle")
    /\ UNCHANGED <<files, world, memory, chk, job, lost, refused, fresh>>

SetupStep ==
    \/ SetupIssues \/ SetupRestores \/ SetupWritesSites \/ SetupGivesUp
    \/ \E issued \in SUBSET CertificateNames : SetupWaited(issued)
    \/ \E ok \in BOOLEAN : SetupDials(ok)

-----------------------------------------------------------------------------
(* disable *)

\* disableReachability.  It writes the config it read first, with enabled FALSE.
StartDisable(kind) ==
    LET then == IF kind = "purge" THEN "purge" ELSE "idle"
        begun == [NoCli EXCEPT !.kind = kind, !.previous = cfg]
    IN  /\ cli.pc = "idle" /\ rounds + 3 <= MaxRounds /\ rounds' = rounds + 3
        /\ cfg.there
        /\ IF cfg.enabled
           THEN /\ cli' = [begun EXCEPT !.pc = "apply"]
                /\ Apply("cli", [cfg EXCEPT !.enabled = FALSE], "read", then)
           ELSE cli' = (IF then = "idle" THEN NoCli ELSE [begun EXCEPT !.pc = then]) /\ UNCHANGED job
        /\ overlap' = (overlap \/ chk.pc # "idle")
        /\ UNCHANGED <<files, world, memory, chk, lost, refused, fresh>>

\* purgeReachability moves the whole directory away.
Purge ==
    /\ cli.pc = "purge"
    /\ cfg' = NoConfig /\ site' = NoSite /\ status' = [failing |-> {}, dropped |-> {}]
    /\ lost' = (lost \/ cfg.edits.kept \/ job["check"].step \in {"kubo", "save"})
    /\ cli' = NoCli /\ fresh' = {}
    /\ UNCHANGED <<kubo, process, world, memory, chk, job, overlap, refused, rounds>>

DisableStep == StartDisable("disable") \/ StartDisable("purge") \/ Purge

-----------------------------------------------------------------------------
(* The daemon's checks *)

\* Only an address the family did not hold when it failed proves a certificate came since.
StillBackedOff(f) == backoff[f].on /\ InFamily(f, cfg.ips) \subseteq backoff[f].held

BackoffKept == [f \in Families |-> IF StillBackedOff(f) THEN backoff[f] ELSE NoBackoff]

WorthTrying(derived) ==
    UNION {InFamily(f, derived) : f \in {g \in Families : StillBackedOff(g) => backoff[g].due}}

\* A changed address must be seen by two checks in a row.
CheckBegins(derived, next) ==
    LET changed == next # cfg.ips
        act == changed /\ next = pending
        begun == [NoCheck EXCEPT !.config = cfg, !.status = status]
    IN  /\ IF cfg.ips = {} THEN next = {} /\ UNCHANGED <<pending, backoff>>
           ELSE /\ next \in PlannedIps(cfg.ips, WorthTrying(derived))
                /\ backoff' = BackoffKept
                /\ pending' = IF changed /\ ~act THEN next ELSE {}
        /\ chk' = IF act /\ cfg.ips # {} THEN [begun EXCEPT !.pc = "change", !.next = next]
                                       ELSE [begun EXCEPT !.pc = "names"]

StartCheck ==
    /\ daemon = "up" /\ chk.pc = "idle" /\ rounds < MaxRounds /\ rounds' = rounds + 1
    /\ cfg.there /\ cfg.enabled
    /\ \E derived \in Discovered, next \in SUBSET Ips : CheckBegins(derived, next)
    /\ overlap' = (overlap \/ cli.pc # "idle")
    /\ UNCHANGED <<files, world, daemon, cli, job, lost, refused, fresh>>

\* handleIpChange has Caddy order certificates for the new addresses.  A domain keeps its site.
WriteCandidate ==
    /\ chk.pc = "change"
    /\ site' = Caddyfile(chk.next, chk.config.domain \cap site.domain)
    /\ chk' = [chk EXCEPT !.pc = "wait", !.previous = site]
    /\ UNCHANGED <<kubo, process, cfg, status, world, memory, cli, job, observed, rounds>>

\* Mutant: the candidate stays.
PutNothingBack == UNCHANGED site

PutBack == site' = IF chk.previous.there THEN chk.previous ELSE site

\* stop() ends the wait; what the config does not hold must not be served by the next start.
StoppedWaiting ==
    /\ chk.pc = "wait" /\ daemon = "stopping"
    /\ PutBack
    /\ chk' = [chk EXCEPT !.pc = "names"]
    /\ UNCHANGED <<kubo, process, cfg, status, world, memory, cli, job, observed, rounds>>

\* Mutant: the back-off forgets which addresses it is for.
BackOffHeldUnknown(failed) ==
    [f \in Families |-> IF InFamily(f, failed) = {} THEN backoff[f] ELSE [on |-> TRUE, due |-> FALSE, held |-> {}]]

BackOff(failed) ==
    [f \in Families |-> IF InFamily(f, failed) = {} THEN backoff[f]
                        ELSE [on |-> TRUE, due |-> FALSE, held |-> InFamily(f, chk.config.ips)]]

\* The addresses that got a certificate are kept; the others' families wait.
SettleCandidate(issued) ==
    LET failed == chk.next \ issued
        config == [chk.config EXCEPT !.ips = issued, !.announce = (@ \ chk.config.ips) \cup issued]
    IN  /\ issued \subseteq chk.next
        /\ backoff' = BackOff(failed)
        /\ refused' = refused \cup {f \in Families : /\ InFamily(f, failed) # {}
                                                   /\ InFamily(f, cfg.ips \ chk.config.ips) = {}}
        /\ IF issued = {} THEN PutBack
           ELSE site' = IF failed = {} THEN site ELSE Caddyfile(issued, chk.config.domain \cap chk.previous.domain)
        /\ IF issued \in {{}, chk.config.ips}
           THEN chk' = [chk EXCEPT !.pc = "names"] /\ UNCHANGED job
           ELSE chk' = [chk EXCEPT !.pc = "apply"] /\ Apply("check", config, "latest", "names")

WaitEnds ==
    /\ chk.pc = "wait" /\ daemon = "up"
    /\ \E issued \in SUBSET chk.next : SettleCandidate(issued)
    /\ UNCHANGED <<kubo, process, cfg, status, world, daemon, pending, cli, lost, overlap, fresh, rounds>>

\* Mutant: whatever the status file says is failing.
FailingByStatus(c) == {a \in Named : NameOf(a) \in chk.status.failing}

\* The addresses seen failing before this check; the status file goes by name, the config by
\* address.  One that is announced of a name given up starts anew.
KnownFailing(c) == {a \in FailingByStatus(c) : NameOf(a) \in chk.status.dropped => a \in c.dropped}

\* Mutant: a name that is given up is forgotten.
MovedForGood(c, drop, restore) == [c EXCEPT !.announce = (@ \ drop) \cup restore, !.dropped = @ \ restore]

Moved(c, drop, restore) ==
    [c EXCEPT !.announce = (@ \ drop) \cup restore, !.dropped = (@ \ restore) \cup drop]

\* checkNames.  day: the names that have failed for 24 hours.
CheckNames(day) ==
    LET c == chk.config
        names == (c.announce \cup c.dropped) \cap Named
        failing == {a \in names : NameOf(a) \notin answers}
        drop == {a \in (failing \cap KnownFailing(c)) \ c.dropped : NameOf(a) \in day}
        restore == (names \ failing) \cap c.dropped
        config == Moved(c, drop, restore)
        seen == [failing |-> {NameOf(a) : a \in failing}, dropped |-> {NameOf(a) : a \in config.dropped}]
    IN  /\ chk.pc = "names"
        /\ IF drop \cup restore = {}
           THEN chk' = [NoCheck EXCEPT !.pc = "finish", !.status = seen] /\ UNCHANGED job
           ELSE chk' = [chk EXCEPT !.pc = "apply", !.status = seen] /\ Apply("check", config, "latest", "finish")
        /\ UNCHANGED <<files, world, memory, cli, observed, rounds>>

FinishCheck ==
    /\ chk.pc = "finish"
    /\ status' = chk.status
    /\ chk' = NoCheck
    /\ fresh' = {a \in fresh : NameOf(a) \notin chk.status.failing \cup answers}
    /\ UNCHANGED <<kubo, process, cfg, site, world, memory, cli, job, lost, overlap, refused, rounds>>

\* What an actor was about to apply stays as far as it got.
CutShort(a) ==
    /\ job' = [job EXCEPT ![a] = NoJob]
    /\ lost' = (lost \/ job[a].step = "save")
    /\ verified' = (verified /\ job[a].step # "restart")

\* A file cannot be read or written, or the running Caddy cannot be made to load the candidate: the
\* check ends there, what it wrote stays, and the daemon goes on.  A restart never fails.
CheckFails ==
    /\ chk.pc # "idle" /\ job["check"].step # "restart" /\ changes < MaxChanges /\ changes' = changes + 1
    /\ chk' = NoCheck /\ overlap' = TRUE /\ CutShort("check")
    /\ UNCHANGED <<kubo, running, cfg, site, status, here, answers, base, memory, cli, refused, fresh, rounds>>

CheckStep ==
    \/ StartCheck \/ WriteCandidate \/ StoppedWaiting \/ WaitEnds \/ FinishCheck \/ CheckFails
    \/ \E day \in SUBSET chk.status.failing : CheckNames(day)

-----------------------------------------------------------------------------
(* The processes and the world around them *)

\* Kubo is started too, unless one that outlived a killed daemon still runs.
StartDaemon ==
    /\ daemon = "down" /\ daemon' = "up"
    /\ pending' = {} /\ backoff' = [f \in Families |-> NoBackoff] /\ refused' = {}
    /\ \/ running' = ToSet(kubo.announce.items) /\ verified' = TRUE
       \/ UNCHANGED process
    /\ UNCHANGED <<kubo, cfg, site, status, world, chk, cli, job, lost, overlap, fresh, rounds>>

StopDaemon ==
    \/ daemon = "up" /\ daemon' = "stopping" /\ chk.pc \in {"idle", "wait"} /\ changes < MaxChanges /\ changes' = changes + 1
       /\ UNCHANGED <<files, here, answers, base, pending, backoff, chk, cli, job, observed, rounds>>
    \/ daemon = "stopping" /\ chk.pc = "idle" /\ daemon' = "down"
       /\ UNCHANGED <<files, world, pending, backoff, chk, cli, job, observed, rounds>>

\* A kill, or for a command Ctrl+C or an error it ends with, such as a port it may not bind.
Kill ==
    /\ changes < MaxChanges /\ changes' = changes + 1
    /\ overlap' = TRUE
    /\ \/ /\ daemon # "down" /\ chk.pc # "idle"
          /\ daemon' = "down" /\ chk' = NoCheck /\ CutShort("check") /\ UNCHANGED cli
       \/ cli.pc # "idle" /\ cli' = NoCli /\ CutShort("cli") /\ UNCHANGED <<daemon, chk>>
    /\ UNCHANGED <<kubo, running, cfg, site, status, here, answers, base, pending, backoff, refused, fresh, rounds>>

\* What changes around them changes while no apply runs; it would not see the difference.
Settled == \A a \in Actors : job[a].step = "none"

\* The machine's addresses and the names' records change, a proxy's as soon as it is stored; the
\* time of a back-off passes.
Moves ==
    \/ /\ Settled /\ changes < MaxChanges /\ changes' = changes + 1
       /\ \/ here' \in Hosts \ {here} /\ UNCHANGED answers
          \/ UNCHANGED here /\ \E n \in cfg.domain \cup {NameOf(a) : a \in cfg.external} :
                                  answers' = IF n \in answers THEN answers \ {n} ELSE answers \cup {n}
       /\ UNCHANGED <<backoff, refused>>
    \/ \E f \in Families : /\ chk.pc = "idle" /\ backoff[f].on /\ ~backoff[f].due
                           /\ backoff' = [backoff EXCEPT ![f].due = TRUE]
                           /\ refused' = refused \ {f} /\ UNCHANGED <<here, answers, changes>>

\* The operator edits kubo's config: an address of theirs, one of ours, AutoTLS back on.
OperatorEdits ==
    LET Appended(c, e) == [c EXCEPT !.announce = Field("present", Append(@.items, e))] IN
    /\ chk.pc = "idle" /\ cli.pc = "idle" /\ changes < MaxChanges /\ changes' = changes + 1
    /\ \/ \E e \in OperatorsOwn : kubo' = Appended(kubo, e) /\ base' = Appended(base, e)
       \/ kubo.tls = "false" /\ kubo' = [kubo EXCEPT !.tls = "true"] /\ base' = [base EXCEPT !.tls = "true"]

Environment ==
    \/ StartDaemon \/ StopDaemon \/ Kill
    \/ Moves /\ UNCHANGED <<files, base, daemon, pending, chk, cli, job, lost, overlap, fresh, rounds>>
    \/ OperatorEdits /\ UNCHANGED <<process, cfg, site, status, here, answers, memory, chk, cli, job, observed, rounds>>

Next == ApplyStep \/ StartSetup \/ SetupStep \/ DisableStep \/ CheckStep \/ Environment

Spec == Init /\ [][Next]_vars

-----------------------------------------------------------------------------
(* Properties *)

Quiet == chk.pc = "idle" /\ cli.pc = "idle"

\* Whatever sequence of setups, checks, disables and edits by the operator led here, undoing the
\* recorded edits gives back the config the operator would have without reachability: nothing of
\* ours stays for good and nothing of theirs is lost (planKuboConfig, applyKuboConfig).
BaselineKept == ~lost /\ (\A a \in Actors : job[a].step # "save") => UndoAll(kubo, cfg.edits) = base

\* Once a change is over, also when it failed or was stopped, the Caddyfile serves exactly the
\* addresses the config holds, since the next start would order certificates for any other
\* (handleIpChange, runReachabilitySetup).
ServesWhatIsStored == Quiet /\ ~overlap /\ cfg.enabled => site.ips = cfg.ips

\* Kubo announces every stored address, and after a disable none that only reachability had put
\* there, although nobody who restarts it learns whether that worked: once a restart did, or setup
\* has compared, no check, command or daemon start undoes it, alone or beside another
\* (restartAndVerifyKubo, saveAndApply, disableReachability).
KuboRunsWhatIsStored ==
    Quiet /\ ~lost /\ verified
    => IF cfg.enabled THEN cfg.announce \subseteq running ELSE running \subseteq ToSet(kubo.announce.items)

\* A disable that comes during a check's wait stands: only a setup turns reachability on again
\* (saveAndApply reads the config again), except in the moment between that read and the write.
DisableStands ==
    [][cfg.there /\ ~cfg.enabled /\ cfg'.enabled => job["cli"].step = "save" \/ lost']_vars

\* A failed attempt costs a node nothing it serves already: a rerun of setup leaves an address
\* of ours announced unless another server took the port, and a check never ends without one.
\* Not so a node one of whose proxies is dropped: setup counts the dropped one too.
ServingIsKept ==
    [][ /\ job["cli"].step = "save" /\ cfg'.enabled /\ cfg.announce \ cfg.external # {} /\ cfg.enabled
           /\ cfg.external \subseteq cfg.announce /\ ~overlap /\ ~cli.busy
            => (cfg'.announce \cup cfg'.dropped) \ cfg'.external # {}
        /\ job["check"].step = "save" /\ ~overlap /\ cfg.ips # {} => cfg'.ips # {} ]_cfg

\* An address is announced or dropped, not both, whoever moved it last, and no address is left of a
\* domain the operator moved away from: the daemon would announce it, and Caddy has no site for it.
\* The checks only move addresses of names between the two: they never forget one, and never
\* announce one nobody asked for (buildConfig, checkNames).
NamesSurviveChecks ==
    [][ /\ cfg'.announce \cap cfg'.dropped = {}
        /\ \A a \in (cfg'.announce \cup cfg'.dropped) \cap Named : NameOf(a) \in cfg'.domain \/ a \in cfg'.external
        /\ job["check"].step = "save" /\ ~overlap
           => (cfg'.announce \cup cfg'.dropped) \cap Named = (cfg.announce \cup cfg.dropped) \cap Named ]_cfg

\* No certificate is ordered for a family whose last attempt failed until its wait is over:
\* an address that looks new on every check must not use up the rate limit of the CA.
FailedFamilyWaits ==
    [][chk.pc = "change" /\ chk'.pc = "wait" => \A f \in refused : InFamily(f, chk.next \ chk.config.ips) = {}]_chk

\* An address that setup announces again is not dropped by a check that did not see it fail
\* before: it starts a new 24 hours (checkNames).  Not so one of a name that setup itself had
\* dropped while the status file had it as failing.
FreshDay ==
    [][chk.pc = "names" /\ chk'.pc = "apply" /\ ~overlap
       => fresh \cap (job'["check"].config.dropped \ chk.config.dropped) = {}]_chk
=============================================================================

---------------------- MODULE ReachabilityFilesProofs ----------------------
(***************************************************************************)
(* The files of reachability, for any addresses, kubo configs of an        *)
(* operator, and numbers of commands, checks and kills: TypeOK,            *)
(* ServesWhatIsStored, KuboRunsWhatIsStored, BaselineKept, DisableStands,  *)
(* ServingIsKept, NamesSurviveChecks, FailedFamilyWaits and FreshDay.      *)
(*                                                                         *)
(* IInv has the types and a part for each question: who is at work (Steps, *)
(* Alone), what a config says of the edits (Recorded), where an address is *)
(* (Disjoint), which families wait (Waits), which names are excused        *)
(* (Excuses), and what the Caddyfile serves (SitesStored).  Two more are   *)
(* kept beside it.  Undoable says of which config and record the undo      *)
(* gives the operator's own config: it rests on Undoes, which says what an *)
(* apply has made of the operator's lists.  Announcing says which config   *)
(* has its addresses in kubo's file, and when they are in the kubo that    *)
(* runs.                                                                   *)
(***************************************************************************)
EXTENDS ReachabilityFiles, TLAPS, FiniteSetTheorems, SequenceTheorems

CheckSteps == {"idle", "change", "wait", "settle", "names", "finish", "apply"}
CommandSteps == {"idle", "issue", "wait", "restore", "sites", "apply", "dial", "purge"}
ApplySteps == {"none", "latest", "read", "kubo", "save", "restart"}
Sites == [there : BOOLEAN, ips : SUBSET Ips, domain : SUBSET Domains]
Statuses == [failing : SUBSET Names, dropped : SUBSET Names]

Checks == [pc : CheckSteps, config : Config, next : SUBSET Ips, previous : Sites, status : Statuses]

Commands == [pc : CommandSteps, kind : {"none", "setup", "disable", "purge"}, previous : Config,
             domain : SUBSET Domains, protocol : Protocols, announce : BOOLEAN, ips : SUBSET Ips,
             usable : BOOLEAN, busy : BOOLEAN, issued : SUBSET (Ips \cup Domains), site : Sites,
             edits : Edits]

\* An apply; what it read and what it is to write are kubo configs, or nothing yet.
ApplyTyped(j) ==
    /\ j \in [step : ApplySteps, config : Config, read : {j.read}, plan : {j.plan}, changed : BOOLEAN,
              then : {"idle", "dial", "purge", "names", "finish"}]
    /\ j.step \in {"kubo", "save"} => KuboConfig(j.plan)

Typed ==
    /\ TypeOK
    /\ chk \in Checks /\ cli \in Commands
    /\ DOMAIN job = Actors /\ \A a \in Actors : ApplyTyped(job[a])

\* An apply is in progress exactly while its caller waits for it, and returns to one of its steps.
Steps ==
    /\ chk.pc = "apply" <=> job["check"].step # "none"
    /\ cli.pc = "apply" <=> job["cli"].step # "none"
    /\ job["cli"].step # "latest"
    /\ chk.pc = "apply" => job["check"].then \in {"names", "finish"}
    /\ cli.pc = "apply" => job["cli"].then \in {"idle", "dial", "purge"}
    /\ cli.pc \in {"issue", "wait", "restore", "sites", "dial"} => cli.kind = "setup"
    /\ cli.issued \subseteq cli.ips \cup cli.domain
    /\ cli.pc = "apply" /\ cli.kind = "setup" => job["cli"].config.enabled
    /\ cli.pc = "apply" /\ cli.kind # "setup" => ~job["cli"].config.enabled /\ job["cli"].then # "dial"

\* A config that is enabled has a record of the edits, one that is disabled none; a check that
\* applies an enabled config on a disabled one has lost sight of it.
Recorded ==
    /\ cfg.enabled => cfg.there
    /\ IF cfg.enabled THEN cfg.edits.kept ELSE cfg.edits = NoEdits
    /\ chk.config.enabled => chk.config.there
    /\ \A a \in Actors : job[a].config.enabled => job[a].config.there
    /\ \A a \in Actors : job[a].step \in {"kubo", "save"} =>
           IF job[a].config.enabled THEN job[a].config.edits.kept ELSE job[a].config.edits = NoEdits
    /\ job["check"].step = "read" => job["check"].config.edits.kept
    /\ job["check"].step \in {"kubo", "save"} /\ job["check"].config.enabled /\ ~cfg.enabled => lost

\* An address is announced or dropped, not both, and each one of a name was asked for.
Apart(c) == /\ c.announce \cap c.dropped = {}
            /\ \A a \in (c.announce \cup c.dropped) \cap Named : NameOf(a) \in c.domain \/ a \in c.external
Disjoint == Apart(cfg) /\ Apart(chk.config) /\ \A a \in Actors : Apart(job[a].config)

\* Without overlap a check and a command do not meet, so each works on what is stored.
NamesOf(c) == (c.announce \cup c.dropped) \cap Named
OwnAddresses(c) == c.announce \ c.external
\* What a setup stores: an address of ours, or nothing but those of proxies.
Holding(c) == IF cli.issued = {} THEN c.announce = c.external ELSE OwnAddresses(c) # {}

Alone == ~overlap =>
    /\ chk.pc = "idle" \/ cli.pc = "idle"
    /\ chk.pc \notin {"idle", "finish"} => chk.config = cfg /\ cfg.enabled
    /\ chk.pc = "apply" => /\ job["check"].config.enabled
                           /\ NamesOf(job["check"].config) = NamesOf(cfg)
                           /\ cfg.ips # {} => job["check"].config.ips # {}
    /\ cli.pc \in {"issue", "wait", "restore"} => cli.previous = cfg
    /\ cli.pc \in {"sites", "apply", "dial"} /\ cli.kind = "setup" /\ ~cli.busy /\ cli.issued = {} /\ cfg.enabled
       => ~ServedByUs(cfg)
    /\ cli.pc = "apply" /\ cli.kind = "setup" => Holding(job["cli"].config)
    /\ \A a \in Actors : job[a].step = "restart" => job[a].config = cfg

\* What is known of the wait of a family whose last attempt failed, and how a check honours it.
Waits ==
    /\ \A f \in refused :
          /\ backoff[f].on /\ ~backoff[f].due
          /\ InFamily(f, cfg.ips) \subseteq backoff[f].held
          /\ InFamily(f, chk.config.ips) \subseteq backoff[f].held
          /\ chk.pc = "apply" => InFamily(f, job["check"].config.ips) \subseteq backoff[f].held
          /\ chk.pc \in {"change", "wait"} => /\ InFamily(f, chk.next \ chk.config.ips) = {}
                                              /\ InFamily(f, cfg.ips) \subseteq chk.config.ips
    /\ chk.pc \in {"change", "wait"} =>
          \A f \in Families : \/ InFamily(f, chk.next) \subseteq chk.config.ips
                              \/ \E ip \in Ips : InFamily(f, chk.next) = {ip}

\* A name announced again is excused until a check has seen it, which reads the status first.
Excuses == ~overlap =>
    /\ \A a \in fresh : NameOf(a) \in status.failing => NameOf(a) \in status.dropped
    /\ chk.pc \in {"change", "wait", "names"} \/ (chk.pc = "apply" /\ job["check"].then = "names")
       => chk.status = status

\* What the Caddyfile serves at each step of a check and of a command.
SitesStored == ~overlap =>
    /\ cfg.there => site.there
    /\ chk.pc \in {"idle", "change", "names", "finish"} /\ cli.pc \in {"idle", "issue", "purge"} /\ cfg.enabled
       => site.ips = cfg.ips
    /\ chk.pc = "wait" => /\ site.there /\ site.ips = chk.next
                          /\ chk.previous.there /\ chk.previous.ips = cfg.ips
    /\ chk.pc = "apply" => site.ips = job["check"].config.ips
    /\ cli.pc \in {"wait", "restore"} /\ cfg.enabled => cli.site.there /\ cli.site.ips = cfg.ips
    /\ cli.pc \in {"apply", "dial"} => site.there
    /\ cli.pc \in {"apply", "dial"} /\ cli.kind = "setup" => site.ips = cli.ips \cap cli.issued
    /\ cli.pc = "dial" /\ cfg.enabled => site.ips = cfg.ips
    /\ cli.pc = "apply" => IF cli.kind = "setup" THEN job["cli"].config.ips = site.ips
                           ELSE cfg.enabled => site.ips = cfg.ips

IInv == Typed /\ Steps /\ Recorded /\ Disjoint /\ Alone /\ Waits /\ Excuses /\ SitesStored

-----------------------------------------------------------------------------
(* What planKuboConfig returns *)

LEMMA ListUndone ==
    ASSUME NEW list, list.shape \in Shapes, NEW entries, NEW shape \in Shapes
    PROVE  UndoList(list, entries, shape).shape \in Shapes
BY DEF UndoList, RestoreShape, Field, Shapes

LEMMA FiltersUndone ==
    ASSUME NEW list, list.shape \in Shapes, NEW removed
    PROVE  UndoFilters(list, removed).shape \in Shapes
BY DEF UndoFilters, Field, Shapes

LEMMA ListsUndone ==
    ASSUME NEW k, KuboConfig(k), NEW e \in Edits
    PROVE  KuboConfig(UndoListEdits(k, e))
<1>1. /\ k.swarm.shape \in Shapes /\ k.announce.shape \in Shapes /\ k.filters.shape \in Shapes
      /\ DOMAIN k = {"swarm", "announce", "filters", "tls"} /\ k.tls \in TlsValues
  BY DEF KuboConfig
<1>2. e.swarmShape \in Shapes /\ e.announceShape \in Shapes
  BY DEF Edits
<1>3. /\ UndoList(k.swarm, e.swarm, e.swarmShape).shape \in Shapes
      /\ UndoList(k.announce, e.announce, e.announceShape).shape \in Shapes
      /\ UndoFilters(k.filters, e.filters).shape \in Shapes
  BY <1>1, <1>2, ListUndone, FiltersUndone
<1>. QED
  BY <1>1, <1>3 DEF KuboConfig, UndoListEdits

LEMMA TlsRestored ==
    ASSUME NEW k, KuboConfig(k), NEW tls \in TlsValues \cup {"none"}
    PROVE  KuboConfig(RestoreAutoTls(k, tls))
BY DEF KuboConfig, RestoreAutoTls

LEMMA AllUndone ==
    ASSUME NEW k, KuboConfig(k), NEW e \in Edits
    PROVE  KuboConfig(UndoAll(k, e))
<1>1. e.tls \in TlsValues \cup {"none"}
  BY DEF Edits
<1>. QED
  BY <1>1, ListsUndone, TlsRestored DEF UndoAll

LEMMA Redone ==
    ASSUME NEW k, KuboConfig(k), NEW serveWss \in BOOLEAN, NEW announce \in SUBSET Addresses,
           NEW e \in Edits
    PROVE  /\ KuboConfig(Redo(k, serveWss, announce, e).config)
           /\ Redo(k, serveWss, announce, e).edits \in Edits
           /\ Redo(k, serveWss, announce, e).edits.kept
<1> DEFINE u == IF e.kept THEN UndoListEdits(k, e) ELSE k
<1>1. KuboConfig(u)
  BY ListsUndone
<1>2. /\ DOMAIN u = {"swarm", "announce", "filters", "tls"} /\ u.tls \in TlsValues
      /\ u.swarm.shape \in Shapes /\ u.announce.shape \in Shapes /\ u.filters.shape \in Shapes
  BY <1>1 DEF KuboConfig
<1>3. /\ e.swarmShape \in Shapes /\ e.announceShape \in Shapes /\ e.tls \in TlsValues \cup {"none"}
  BY DEF Edits
<1>4. RestoreAutoTls(u, e.tls).tls \in TlsValues
  BY <1>1, <1>3, TlsRestored DEF KuboConfig
<1>5. "false" \in TlsValues /\ "present" \in Shapes
  BY DEF TlsValues, Shapes
<1>6. LoopbackIndexes(u.filters.items) \subseteq Nat
  BY DEF LoopbackIndexes
<1>. HIDE DEF u
<1>7. Redo(k, serveWss, announce, e) =
        LET listeners == (IF serveWss THEN {LocalWs} ELSE {}) \cup {WebTransport}
            removed == IF serveWss THEN LoopbackIndexes(u.filters.items) ELSE {}
            original == IF ~serveWss THEN "none"
                        ELSE IF e.tls # "none" THEN e.tls ELSE u.tls
            tls == IF serveWss THEN (IF e.tls # "none" THEN u.tls ELSE "false")
                   ELSE RestoreAutoTls(u, e.tls).tls
        IN  [config |-> [swarm |-> AppendMissing(u.swarm, listeners),
                         announce |-> AppendMissing(u.announce, announce),
                         filters |-> IF serveWss THEN Field(u.filters.shape, WithoutLoopback(u.filters.items))
                                     ELSE u.filters,
                         tls |-> tls],
             edits |-> [kept |-> TRUE,
                        swarmShape |-> IF e.kept THEN e.swarmShape ELSE u.swarm.shape,
                        announceShape |-> IF e.kept THEN e.announceShape ELSE u.announce.shape,
                        swarm |-> listeners \ ToSet(u.swarm.items),
                        announce |-> announce \ ToSet(u.announce.items),
                        filters |-> removed, tls |-> original]]
  BY DEF Redo, u
<1>8. KuboConfig(Redo(k, serveWss, announce, e).config)
  BY <1>2, <1>4, <1>5, <1>7 DEF KuboConfig, AppendMissing, Field
<1>9. Redo(k, serveWss, announce, e).edits \in Edits
  BY <1>2, <1>3, <1>6, <1>7 DEF Edits
<1>. QED
  BY <1>7, <1>8, <1>9

LEMMA NoEditsTyped == NoEdits \in Edits /\ ~NoEdits.kept
BY DEF NoEdits, Edits, Shapes

LEMMA Planned ==
    ASSUME NEW k, KuboConfig(k), NEW serveWss \in BOOLEAN, NEW announce \in SUBSET Addresses,
           NEW e \in Edits, NEW enabled \in BOOLEAN
    PROVE  LET plan == PlanKuboConfig(k, serveWss, announce, e, enabled)
           IN  /\ KuboConfig(plan.config) /\ plan.edits \in Edits
               /\ IF enabled THEN plan.edits.kept ELSE plan.edits = NoEdits
<1>1. CASE enabled
  BY <1>1, Redone DEF PlanKuboConfig
<1>2. CASE ~enabled
  BY <1>2, AllUndone, NoEditsTyped DEF PlanKuboConfig
<1>. QED
  BY <1>1, <1>2

-----------------------------------------------------------------------------
(* Positions of a list and their ranks *)

\* How many of the positions of a set are not above one.
Rank(S, i) == Cardinality({j \in S : j <= i})

LEMMA RankIsCounted ==
    ASSUME NEW S, IsFiniteSet(S), S \subseteq Int, NEW i \in Int
    PROVE  /\ IsFiniteSet({j \in S : j <= i}) /\ Rank(S, i) \in Nat /\ Rank(S, i) <= Cardinality(S)
           /\ Cardinality(S) \in Nat
           /\ i \in S => Rank(S, i) >= 1
<1> DEFINE T == {j \in S : j <= i}
<1>1. IsFiniteSet(T) /\ Cardinality(T) <= Cardinality(S)
  BY FS_Subset
<1>2. Cardinality(T) \in Nat /\ Cardinality(S) \in Nat
  BY <1>1, FS_CardinalityType
<1>3. i \in S => Cardinality(T) >= 1
  <2>1. i \in S => i \in T
    OBVIOUS
  <2>2. Cardinality(T) = 0 => T = {}
    BY <1>1, FS_EmptySet
  <2>. QED
    BY <1>2, <2>1, <2>2
<1>. QED
  BY <1>1, <1>2, <1>3 DEF Rank

LEMMA RanksAreCounted ==
    ASSUME NEW S, IsFiniteSet(S), S \subseteq Int
    PROVE  \A i \in S : Rank(S, i) \in 1..Cardinality(S)
<1>1. TAKE i \in S
<1>2. i \in Int
  OBVIOUS
<1>3. /\ Rank(S, i) \in Nat /\ Rank(S, i) <= Cardinality(S) /\ Cardinality(S) \in Nat
      /\ Rank(S, i) >= 1
  BY <1>2, RankIsCounted
<1>. QED
  BY <1>3

LEMMA RankGrows ==
    ASSUME NEW S, IsFiniteSet(S), S \subseteq Int, NEW i \in S, NEW k \in S, i < k
    PROVE  Rank(S, i) < Rank(S, k)
<1> DEFINE T == {j \in S : j <= i}
           U == {j \in S : j <= k}
<1>1. IsFiniteSet(T) /\ IsFiniteSet(U) /\ Cardinality(T) \in Nat /\ Cardinality(U) \in Nat
  BY RankIsCounted DEF Rank
<1>2. T \subseteq U /\ k \in U /\ k \notin T
  <2>1. i \in Int /\ k \in Int
    OBVIOUS
  <2>2. \A j \in S : j \in Int
    OBVIOUS
  <2>3. \A j \in Int : j <= i => j <= k
    BY <2>1
  <2>4. k <= k /\ ~(k <= i)
    BY <2>1
  <2>. QED
    BY <2>2, <2>3, <2>4
<1>. HIDE DEF T, U
<1>3. Cardinality(T) <= Cardinality(U) /\ (Cardinality(U) = Cardinality(T) => U = T)
  BY <1>1, <1>2, FS_Subset
<1>4. Cardinality(T) < Cardinality(U)
  BY <1>1, <1>2, <1>3
<1>. QED
  BY <1>4 DEF T, U, Rank

LEMMA RanksDiffer ==
    ASSUME NEW S, IsFiniteSet(S), S \subseteq Int, NEW i \in S, NEW k \in S, Rank(S, i) = Rank(S, k)
    PROVE  i = k
<1>1. Rank(S, i) \in 1..Cardinality(S) /\ Cardinality(S) \in Nat
  BY RanksAreCounted, FS_CardinalityType
<1>2. ~(i < k)
  <2>1. i < k => Rank(S, i) < Rank(S, k)
    BY RankGrows
  <2>. QED
    BY <1>1, <2>1
<1>3. ~(k < i)
  <2>1. k < i => Rank(S, k) < Rank(S, i)
    BY RankGrows
  <2>. QED
    BY <1>1, <2>1
<1>4. i \in Int /\ k \in Int
  OBVIOUS
<1>. QED
  BY <1>2, <1>3, <1>4

LEMMA RankIsReached ==
    ASSUME NEW S, IsFiniteSet(S), S \subseteq Int
    PROVE  \A n \in 1..Cardinality(S) : \E i \in S : Rank(S, i) = n
<1> DEFINE N == 1..Cardinality(S)
           f == [i \in S |-> Rank(S, i)]
<1>1. Cardinality(S) \in Nat
  BY FS_CardinalityType
<1>2. IsFiniteSet(N) /\ Cardinality(N) = Cardinality(S)
  BY <1>1, FS_Interval
<1>3. \A i \in S : Rank(S, i) \in N
  BY RanksAreCounted
<1>4. \A i, k \in S : Rank(S, i) = Rank(S, k) => i = k
  BY RanksDiffer
<1>5. f \in Injection(S, N)
  BY <1>3, <1>4 DEF Injection, IsInjective
<1>6. f \in Surjection(S, N)
  BY <1>2, <1>5, FS_Injection
<1>. QED
  BY <1>6 DEF Surjection

\* Each entry is found at its rank.
LEMMA EntryAtRank ==
    ASSUME NEW items, NEW S, IsFiniteSet(S), S \subseteq Int
    PROVE  /\ AtPositions(items, S) = [n \in 1..Cardinality(S) |-> AtPositions(items, S)[n]]
           /\ \A i \in S : AtPositions(items, S)[Rank(S, i)] = items[i]
<1>1. AtPositions(items, S) = [n \in 1..Cardinality(S) |-> items[CHOOSE i \in S : Rank(S, i) = n]]
  BY DEF AtPositions, Rank
<1>2. ASSUME NEW i \in S
      PROVE  AtPositions(items, S)[Rank(S, i)] = items[i]
  <2>1. Rank(S, i) \in 1..Cardinality(S)
    BY RanksAreCounted
  <2>2. \A k \in S : Rank(S, k) = Rank(S, i) => k = i
    BY RanksDiffer
  <2>3. (CHOOSE k \in S : Rank(S, k) = Rank(S, i)) = i
    BY <2>2
  <2>. QED
    BY <1>1, <2>1, <2>3
<1>. QED
  BY <1>1, <1>2

\* The positions of a list of m + n entries but for n in a row.
AcrossGap(p, n, m) == (1..p) \cup ((p + n + 1)..(m + n))

LEMMA RankAcrossGap ==
    ASSUME NEW p \in Nat, NEW n \in Nat, NEW m \in Nat, p <= m
    PROVE  /\ IsFiniteSet(AcrossGap(p, n, m)) /\ AcrossGap(p, n, m) \subseteq Int
           /\ Cardinality(AcrossGap(p, n, m)) = m
           /\ \A i \in 1..p : Rank(AcrossGap(p, n, m), i) = i
           /\ \A i \in (p + n + 1)..(m + n) : Rank(AcrossGap(p, n, m), i) = i - n
<1> DEFINE S == (1..p) \cup ((p + n + 1)..(m + n))
<1>1. ASSUME NEW i \in Nat, i <= m + n, p + n <= i
      PROVE  LET T == (1..p) \cup ((p + n + 1)..i) IN IsFiniteSet(T) /\ Cardinality(T) = i - n
  <2> DEFINE A == 1..p
             B == (p + n + 1)..i
  <2>1. IsFiniteSet(A) /\ Cardinality(A) = p
    BY FS_Interval
  <2>2. IsFiniteSet(B) /\ Cardinality(B) = i - (p + n)
    <3>1. p + n + 1 \in Int /\ i \in Int
      OBVIOUS
    <3>2. IsFiniteSet(B) /\ Cardinality(B) = IF p + n + 1 > i THEN 0 ELSE i - (p + n + 1) + 1
      BY <3>1, FS_Interval
    <3>. QED
      BY <3>2, <1>1
  <2>3. A \cap B = {}
    OBVIOUS
  <2>4. Cardinality(A \cap B) = 0
    BY <2>3, FS_EmptySet
  <2>. HIDE DEF A, B
  <2>5. IsFiniteSet(A \cup B) /\ Cardinality(A \cup B) = Cardinality(A) + Cardinality(B) - Cardinality(A \cap B)
    BY <2>1, <2>2, FS_Union
  <2>6. Cardinality(A \cup B) = p + (i - (p + n)) - 0
    BY <2>1, <2>2, <2>4, <2>5
  <2>7. p + (i - (p + n)) - 0 = i - n
    BY <1>1
  <2>. QED
    BY <2>5, <2>6, <2>7 DEF A, B
<1>2. IsFiniteSet(S) /\ Cardinality(S) = m
  BY <1>1
<1>3. ASSUME NEW i \in 1..p
      PROVE  Rank(S, i) = i
  <2>1. {j \in S : j <= i} = 1..i
    OBVIOUS
  <2>2. Cardinality(1..i) = i
    BY FS_Interval
  <2>. QED
    BY <2>1, <2>2 DEF Rank
<1>4. ASSUME NEW i \in (p + n + 1)..(m + n)
      PROVE  Rank(S, i) = i - n
  <2>1. {j \in S : j <= i} = (1..p) \cup ((p + n + 1)..i)
    OBVIOUS
  <2>2. i \in Nat /\ i <= m + n /\ p + n <= i
    OBVIOUS
  <2>. QED
    BY <1>1, <2>1, <2>2 DEF Rank
<1>5. S \subseteq Int /\ AcrossGap(p, n, m) = S
  BY DEF AcrossGap
<1>. HIDE DEF S
<1>. QED
  BY <1>2, <1>3, <1>4, <1>5

-----------------------------------------------------------------------------
(* Lists with entries added *)

IsList(items) == items \in Seq(ToSet(items))

LEMMA ListFacts ==
    ASSUME NEW items, IsList(items)
    PROVE  /\ Len(items) \in Nat /\ DOMAIN items = 1..Len(items)
           /\ items = [i \in 1..Len(items) |-> items[i]]
           /\ ToSet(items) = {items[i] : i \in 1..Len(items)}
<1>1. Len(items) \in Nat /\ DOMAIN items = 1..Len(items) /\ items \in [1..Len(items) -> ToSet(items)]
  BY DEF IsList
<1>. QED
  BY <1>1 DEF ToSet

\* A function on 1..n is a list.
LEMMA MadeList ==
    ASSUME NEW n \in Nat, NEW items, items = [i \in 1..n |-> items[i]]
    PROVE  IsList(items) /\ Len(items) = n
<1>1. DOMAIN items = 1..n
  OBVIOUS
<1>2. ToSet(items) = {items[i] : i \in 1..n}
  BY <1>1 DEF ToSet
<1>3. items \in [1..n -> ToSet(items)]
  BY <1>2
<1>4. items \in Seq(ToSet(items))
  BY <1>3, SeqDef
<1>. QED
  BY <1>1, <1>4 DEF IsList

LEMMA SequenceIsList ==
    ASSUME NEW T, NEW items \in Seq(T)
    PROVE  IsList(items)
<1>1. Len(items) \in Nat /\ items \in [1..Len(items) -> T]
  OBVIOUS
<1>2. items = [i \in 1..Len(items) |-> items[i]]
  BY <1>1
<1>. QED
  BY <1>1, <1>2, MadeList

\* Of all its positions the list is what is kept.
LEMMA AllPositions ==
    ASSUME NEW items, IsList(items)
    PROVE  AtPositions(items, 1..Len(items)) = items
<1> DEFINE m == Len(items)
           S == (1..m) \cup ((m + 0 + 1)..(m + 0))
<1>1. m \in Nat /\ items = [i \in 1..m |-> items[i]]
  BY ListFacts
<1>. HIDE DEF m
<1>2. S = 1..m /\ AcrossGap(m, 0, m) = S
  BY <1>1 DEF AcrossGap
<1>3. /\ IsFiniteSet(S) /\ S \subseteq Int /\ Cardinality(S) = m /\ \A i \in 1..m : Rank(S, i) = i
  <2> DEFINE G == AcrossGap(m, 0, m)
  <2>1. /\ IsFiniteSet(G) /\ G \subseteq Int /\ Cardinality(G) = m
        /\ \A i \in 1..m : Rank(G, i) = i
    <3>1. m \in Nat /\ 0 \in Nat /\ m <= m
      BY <1>1
    <3>. QED
      BY <3>1, RankAcrossGap
  <2>. HIDE DEF S, G
  <2>2. G = S
    BY <1>2 DEF G
  <2>. QED
    BY <2>1, <2>2
<1>. HIDE DEF S
<1>4. AtPositions(items, S) = [i \in 1..m |-> AtPositions(items, S)[i]]
  BY <1>3, EntryAtRank
<1>5. ASSUME NEW i \in 1..m
      PROVE  AtPositions(items, S)[i] = items[i]
  <2>1. i \in S /\ Rank(S, i) = i
    BY <1>2, <1>3
  <2>2. AtPositions(items, S)[Rank(S, i)] = items[i]
    BY <1>3, <2>1, EntryAtRank
  <2>. QED
    BY <2>1, <2>2
<1>6. AtPositions(items, S) = items
  BY <1>1, <1>4, <1>5
<1>. QED
  BY <1>2, <1>6 DEF m

\* What was added to a list are the n entries after the first p of the operator's own, each of them once.
AddedAfter(items, own, added, p, n) ==
    /\ \A i \in 1..p : items[i] = own[i] /\ own[i] \notin added
    /\ \A i \in (p + 1)..(p + n) : items[i] \in added
    /\ \A i, j \in (p + 1)..(p + n) : items[i] = items[j] => i = j
    /\ \A e \in added : \E i \in (p + 1)..(p + n) : items[i] = e
    /\ \A i \in (p + 1)..Len(own) : items[i + n] = own[i]

\* A list of the config while reachability is on: the operator's own, with what was added to it
\* in one place, each of them once, and behind it what the operator added since.
Holds(items, own, added) ==
    /\ IsList(items) /\ IsList(own) /\ Len(own) <= Len(items)
    /\ \E p \in 0..Len(own) : AddedAfter(items, own, added, p, Len(items) - Len(own))

LEMMA AddedGoAway ==
    ASSUME NEW items, NEW own, NEW added, Holds(items, own, added)
    PROVE  WithoutOneOfEach(items, added) = own
<1> DEFINE m == Len(own)
           n == Len(items) - m
<1>1. /\ IsList(items) /\ IsList(own) /\ m <= Len(items)
  BY DEF Holds
<1>2. PICK p \in 0..m :
          /\ \A i \in 1..p : items[i] = own[i] /\ own[i] \notin added
          /\ \A i \in (p + 1)..(p + n) : items[i] \in added
          /\ \A i, j \in (p + 1)..(p + n) : items[i] = items[j] => i = j
          /\ \A e \in added : \E i \in (p + 1)..(p + n) : items[i] = e
          /\ \A i \in (p + 1)..m : items[i + n] = own[i]
  BY DEF Holds, AddedAfter
<1>3. /\ Len(items) \in Nat /\ DOMAIN items = 1..Len(items)
      /\ m \in Nat /\ own = [i \in 1..m |-> own[i]]
  BY <1>1, ListFacts
<1>4. n \in Nat /\ Len(items) = m + n /\ m \in Nat /\ p \in Nat /\ p <= m
  BY <1>1, <1>3
<1>. HIDE DEF m, n
<1> DEFINE First(i) == items[i] \in added => \E j \in 1..(i - 1) : items[j] = items[i]
           S == (1..p) \cup ((p + n + 1)..(m + n))
<1>5. ASSUME NEW i \in 1..p
      PROVE  First(i)
  BY <1>2
<1>6. ASSUME NEW i \in (p + 1)..(p + n)
      PROVE  ~First(i)
  <2>1. items[i] \in added
    BY <1>2
  <2>2. ASSUME NEW j \in 1..(i - 1)
        PROVE  items[j] # items[i]
    <3>1. CASE j <= p
      <4>1. j \in 1..p
        BY <1>4, <3>1
      <4>. QED
        BY <1>2, <2>1, <4>1
    <3>2. CASE p < j
      <4>1. j \in (p + 1)..(p + n) /\ j # i
        BY <1>4, <3>2
      <4>. QED
        BY <1>2, <4>1
    <3>. QED
      BY <1>4, <3>1, <3>2
  <2>. QED
    BY <2>1, <2>2
<1>7. ASSUME NEW i \in (p + n + 1)..(m + n)
      PROVE  First(i)
  <2>1. SUFFICES ASSUME items[i] \in added
                 PROVE  \E j \in 1..(i - 1) : items[j] = items[i]
    OBVIOUS
  <2>2. PICK j \in (p + 1)..(p + n) : items[j] = items[i]
    BY <1>2, <2>1
  <2>3. j \in 1..(i - 1)
    BY <1>4
  <2>. QED
    BY <2>2, <2>3
<1>8. DOMAIN items = (1..p) \cup ((p + 1)..(p + n)) \cup ((p + n + 1)..(m + n))
  BY <1>3, <1>4
<1>9. {i \in DOMAIN items : First(i)} = S
  <2>1. \A i \in DOMAIN items : i \in 1..p \/ i \in (p + 1)..(p + n) \/ i \in (p + n + 1)..(m + n)
    BY <1>8
  <2>2. \A i \in (p + 1)..(p + n) : i \notin S
    BY <1>4
  <2>3. S \subseteq DOMAIN items
    BY <1>8
  <2>. HIDE DEF S, First
  <2>4. \A i \in S : First(i)
    BY <1>5, <1>7 DEF S
  <2>5. \A i \in DOMAIN items : First(i) => i \in S
    BY <1>6, <2>1 DEF S
  <2>. QED
    BY <2>3, <2>4, <2>5
<1>10. WithoutOneOfEach(items, added) = AtPositions(items, S)
  BY <1>9 DEF WithoutOneOfEach
<1>. HIDE DEF First
<1>11. /\ IsFiniteSet(S) /\ S \subseteq Int /\ Cardinality(S) = m
       /\ \A i \in 1..p : Rank(S, i) = i
       /\ \A i \in (p + n + 1)..(m + n) : Rank(S, i) = i - n
  <2>1. n \in Nat /\ m \in Nat /\ p \in Nat /\ p <= m
    BY <1>4
  <2> DEFINE G == AcrossGap(p, n, m)
  <2>2. /\ IsFiniteSet(G) /\ G \subseteq Int /\ Cardinality(G) = m
        /\ \A i \in 1..p : Rank(G, i) = i
        /\ \A i \in (p + n + 1)..(m + n) : Rank(G, i) = i - n
    BY <2>1, RankAcrossGap
  <2>3. G = S
    BY DEF AcrossGap
  <2>. HIDE DEF S, G
  <2>. QED
    BY <2>2, <2>3
<1>12. \A i \in 1..p : i \in S
  OBVIOUS
<1>13. ASSUME NEW i \in (p + 1)..m
       PROVE  i + n \in (p + n + 1)..(m + n) /\ i + n \in S /\ (i + n) - n = i
  <2>1. i + n \in (p + n + 1)..(m + n) /\ (i + n) - n = i
    BY <1>4
  <2>. QED
    BY <2>1
<1>. HIDE DEF S
<1>14. AtPositions(items, S) = [i \in 1..m |-> AtPositions(items, S)[i]]
  BY <1>11, EntryAtRank
<1>15. ASSUME NEW i \in 1..m
       PROVE  AtPositions(items, S)[i] = own[i]
  <2>1. CASE i \in 1..p
    <3>1. AtPositions(items, S)[Rank(S, i)] = items[i]
      BY <1>11, <1>12, <2>1, EntryAtRank
    <3>. QED
      BY <1>2, <1>11, <2>1, <3>1
  <2>2. CASE i \in (p + 1)..m
    <3>1. AtPositions(items, S)[Rank(S, i + n)] = items[i + n]
      BY <1>11, <1>13, <2>2, EntryAtRank
    <3>2. Rank(S, i + n) = i
      BY <1>11, <1>13, <2>2
    <3>. QED
      BY <1>2, <2>2, <3>1, <3>2
  <2>3. i \in 1..p \/ i \in (p + 1)..m
    BY <1>4
  <2>. QED
    BY <2>1, <2>2, <2>3
<1>16. AtPositions(items, S) = own
  BY <1>3, <1>14, <1>15
<1>. QED
  BY <1>10, <1>16
LEMMA SequenceOfSet ==
    ASSUME NEW S, IsFiniteSet(S)
    PROVE  LET s == SetToSeq(S) IN
           /\ IsList(s) /\ Len(s) = Cardinality(S) /\ Len(s) \in Nat
           /\ \A i \in 1..Len(s) : s[i] \in S
           /\ \A i, j \in 1..Len(s) : s[i] = s[j] => i = j
           /\ \A e \in S : \E i \in 1..Len(s) : s[i] = e
<1> DEFINE s == SetToSeq(S)
           n == Cardinality(S)
<1>1. n \in Nat /\ ExistsBijection(1..n, S)
  BY FS_CardinalityType
<1>2. PICK f : f \in Bijection(1..n, S)
  BY <1>1 DEF ExistsBijection
<1>3. f \in [1..n -> S] /\ IsInjective(f)
  BY <1>2 DEF Bijection, Injection, IsInjective
<1>4. s = CHOOSE g \in [1..n -> S] : IsInjective(g)
  BY DEF SetToSeq
<1>. HIDE DEF s, n
<1>5. s \in [1..n -> S] /\ IsInjective(s)
  BY <1>3, <1>4
<1>6. s \in Injection(1..n, S)
  BY <1>5 DEF Injection, IsInjective
<1>7. IsFiniteSet(1..n) /\ Cardinality(1..n) = n
  BY <1>1, FS_Interval
<1>8. s \in Surjection(1..n, S)
  BY <1>6, <1>7, FS_Injection DEF n
<1>9. IsList(s) /\ Len(s) = n
  BY <1>1, <1>5, MadeList
<1>10. /\ \A i \in 1..n : s[i] \in S
       /\ \A i, j \in 1..n : s[i] = s[j] => i = j
       /\ \A e \in S : \E i \in 1..n : s[i] = e
  BY <1>5, <1>8 DEF IsInjective, Surjection
<1>. QED
  BY <1>1, <1>9, <1>10 DEF s, n

LEMMA Concatenated ==
    ASSUME NEW own, IsList(own), NEW s, IsList(s)
    PROVE  LET items == own \o s IN
           /\ IsList(items) /\ Len(items) = Len(own) + Len(s)
           /\ \A i \in 1..Len(own) : items[i] = own[i]
           /\ \A i \in 1..Len(s) : items[i + Len(own)] = s[i]
<1> DEFINE items == own \o s
           T == ToSet(own) \cup ToSet(s)
<1>1. own \in Seq(ToSet(own)) /\ s \in Seq(ToSet(s))
  BY DEF IsList
<1>2. own \in Seq(T) /\ s \in Seq(T)
  BY <1>1
<1>3. /\ items \in Seq(T) /\ Len(items) = Len(own) + Len(s)
      /\ \A i \in 1..(Len(own) + Len(s)) : items[i] = IF i <= Len(own) THEN own[i] ELSE s[i - Len(own)]
  BY <1>2, ConcatProperties
<1>4. Len(own) \in Nat /\ Len(s) \in Nat
  BY <1>1
<1>. HIDE DEF items
<1>6. IsList(items)
  BY <1>3, SequenceIsList
<1>7. \A i \in 1..Len(own) : items[i] = own[i]
  BY <1>3, <1>4
<1>8. \A i \in 1..Len(s) : items[i + Len(own)] = s[i]
  <2>1. TAKE i \in 1..Len(s)
  <2>2. /\ i + Len(own) \in 1..(Len(own) + Len(s)) /\ ~(i + Len(own) <= Len(own))
        /\ (i + Len(own)) - Len(own) = i
    BY <1>4
  <2>. QED
    BY <1>3, <2>2
<1>. QED
  BY <1>3, <1>6, <1>7, <1>8 DEF items

\* What appendMissing adds goes away again.
LEMMA MissingAreAdded ==
    ASSUME NEW field, IsList(field.items), NEW entries, IsFiniteSet(entries)
    PROVE  /\ AppendMissing(field, entries).shape = "present"
           /\ AppendMissing(field, entries) = Field("present", AppendMissing(field, entries).items)
           /\ Holds(AppendMissing(field, entries).items, field.items, entries \ ToSet(field.items))
<1> DEFINE own == field.items
           added == entries \ ToSet(own)
           s == SetToSeq(added)
           items == own \o s
           p == Len(own)
           n == Len(s)
<1>1. IsFiniteSet(added)
  BY FS_Difference
<1>2. /\ IsList(s) /\ n \in Nat
      /\ \A i \in 1..n : s[i] \in added
      /\ \A i, j \in 1..n : s[i] = s[j] => i = j
      /\ \A e \in added : \E i \in 1..n : s[i] = e
  BY <1>1, SequenceOfSet
<1>3. p \in Nat /\ \A i \in 1..p : own[i] \notin added
  BY ListFacts
<1>4. AppendMissing(field, entries) = Field("present", items)
  BY DEF AppendMissing
<1>5. AppendMissing(field, entries).items = items /\ AppendMissing(field, entries).shape = "present"
  BY <1>4 DEF Field
<1>. HIDE DEF s
<1>6. /\ IsList(items) /\ Len(items) = p + n
      /\ \A i \in 1..p : items[i] = own[i]
      /\ \A i \in 1..n : items[i + p] = s[i]
  BY <1>2, Concatenated
<1>. HIDE DEF items, own, added
<1>7. IsList(own)
  BY DEF own
<1>8. \A i \in (p + 1)..(p + n) : i - p \in 1..n /\ (i - p) + p = i
  BY <1>2, <1>3
<1>9. \A i \in (p + 1)..(p + n) : items[i] = s[i - p]
  BY <1>6, <1>8
<1>10. Len(items) - Len(own) = n /\ p \in 0..Len(own) /\ p <= Len(items)
  BY <1>2, <1>3, <1>6
<1>11. /\ \A i \in 1..p : items[i] = own[i] /\ own[i] \notin added
       /\ \A i \in (p + 1)..(p + n) : items[i] \in added
       /\ \A i \in (p + 1)..Len(own) : items[i + n] = own[i]
  BY <1>2, <1>3, <1>6, <1>8, <1>9
<1>12. ASSUME NEW i \in (p + 1)..(p + n), NEW j \in (p + 1)..(p + n), items[i] = items[j]
       PROVE  i = j
  <2>1. i - p \in 1..n /\ j - p \in 1..n /\ s[i - p] = s[j - p]
    BY <1>8, <1>9, <1>12
  <2>2. i - p = j - p
    BY <1>2, <2>1
  <2>. QED
    BY <1>3, <2>2
<1>13. ASSUME NEW e \in added
       PROVE  \E i \in (p + 1)..(p + n) : items[i] = e
  <2>1. PICK k \in 1..n : s[k] = e
    BY <1>2
  <2>2. k + p \in (p + 1)..(p + n) /\ items[k + p] = e
    BY <1>2, <1>3, <1>6, <2>1
  <2>. QED
    BY <2>2
<1>14. AddedAfter(items, own, added, p, n)
  BY <1>11, <1>12, <1>13 DEF AddedAfter
<1>15. Holds(items, own, added)
  BY <1>6, <1>7, <1>10, <1>14 DEF Holds
<1>. QED
  BY <1>4, <1>5, <1>15 DEF items, own, added

\* What the operator appends is the operator's.
LEMMA OperatorAppends ==
    ASSUME NEW items, NEW own, NEW added, Holds(items, own, added), NEW e
    PROVE  /\ Holds(Append(items, e), Append(own, e), added)
           /\ IsList(Append(own, e)) /\ Append(own, e) # <<>>
<1> DEFINE m == Len(own)
           n == Len(items) - m
           items2 == Append(items, e)
           own2 == Append(own, e)
<1>1. IsList(items) /\ IsList(own) /\ m <= Len(items)
  BY DEF Holds
<1>2. PICK p \in 0..m :
          /\ \A i \in 1..p : items[i] = own[i] /\ own[i] \notin added
          /\ \A i \in (p + 1)..(p + n) : items[i] \in added
          /\ \A i, j \in (p + 1)..(p + n) : items[i] = items[j] => i = j
          /\ \A x \in added : \E i \in (p + 1)..(p + n) : items[i] = x
          /\ \A i \in (p + 1)..m : items[i + n] = own[i]
  BY DEF Holds, AddedAfter
<1>3. ASSUME NEW l, IsList(l)
      PROVE  /\ IsList(Append(l, e)) /\ Len(l) \in Nat /\ Len(Append(l, e)) = Len(l) + 1
             /\ \A i \in 1..Len(l) : Append(l, e)[i] = l[i]
             /\ Append(l, e)[Len(l) + 1] = e
  <2> DEFINE T == ToSet(l) \cup {e}
             k == Append(l, e)
  <2>1. l \in Seq(T) /\ e \in T
    BY <1>3 DEF IsList
  <2>2. /\ k \in Seq(T) /\ Len(k) = Len(l) + 1 /\ Len(l) \in Nat
        /\ \A i \in 1..Len(l) : k[i] = l[i]
        /\ k[Len(l) + 1] = e
    BY <2>1, AppendProperties
  <2>. HIDE DEF k
  <2>4. IsList(k)
    BY <2>2, SequenceIsList
  <2>. QED
    BY <2>2, <2>4 DEF k
<1>4. /\ IsList(items2) /\ Len(items2) = Len(items) + 1 /\ Len(items) \in Nat
      /\ \A i \in 1..Len(items) : items2[i] = items[i]
      /\ items2[Len(items) + 1] = e
  BY <1>1, <1>3
<1>5. /\ IsList(own2) /\ Len(own2) = m + 1 /\ m \in Nat
      /\ \A i \in 1..m : own2[i] = own[i]
      /\ own2[m + 1] = e
  BY <1>1, <1>3
<1>6. own2 # <<>>
  <2>1. Len(own2) # 0
    BY <1>5
  <2>2. Len(<<>>) = 0
    OBVIOUS
  <2>. HIDE DEF own2
  <2>. QED
    BY <2>1, <2>2
<1>7. n \in Nat /\ Len(items) = m + n /\ p \in Nat /\ p <= m /\ Len(items2) - Len(own2) = n
  BY <1>1, <1>4, <1>5
<1>. HIDE DEF m, n, items2, own2
<1>8. /\ \A i \in 1..p : items2[i] = own2[i] /\ own2[i] \notin added
      /\ \A i \in (p + 1)..(p + n) : items2[i] = items[i]
  <2>1. \A i \in 1..p : i \in 1..m /\ i \in 1..Len(items)
    BY <1>5, <1>7
  <2>2. \A i \in (p + 1)..(p + n) : i \in 1..Len(items)
    BY <1>5, <1>7
  <2>. QED
    BY <1>2, <1>4, <1>5, <2>1, <2>2
<1>9. /\ \A i \in (p + 1)..(p + n) : items2[i] \in added
      /\ \A i, j \in (p + 1)..(p + n) : items2[i] = items2[j] => i = j
      /\ \A x \in added : \E i \in (p + 1)..(p + n) : items2[i] = x
  BY <1>2, <1>8
<1>10. ASSUME NEW i \in (p + 1)..(m + 1)
       PROVE  items2[i + n] = own2[i]
  <2>1. CASE i <= m
    <3>1. i \in (p + 1)..m /\ i \in 1..m /\ i + n \in 1..Len(items)
      BY <1>5, <1>7, <2>1
    <3>. QED
      BY <1>2, <1>4, <1>5, <3>1
  <2>2. CASE i = m + 1
    <3>1. i + n = Len(items) + 1
      BY <1>5, <1>7, <2>2
    <3>. QED
      BY <1>4, <1>5, <2>2, <3>1
  <2>. QED
    BY <1>5, <1>7, <2>1, <2>2
<1>11. p \in 0..Len(own2) /\ Len(own2) <= Len(items2)
  BY <1>4, <1>5, <1>7
<1>12. AddedAfter(items2, own2, added, p, n)
  BY <1>5, <1>8, <1>9, <1>10 DEF AddedAfter
<1>13. Holds(items2, own2, added)
  BY <1>4, <1>5, <1>7, <1>11, <1>12 DEF Holds
<1>. QED
  BY <1>5, <1>6, <1>13 DEF items2, own2

-----------------------------------------------------------------------------
(* Filters taken out and put back *)

Below(S, i) == Cardinality({k \in S : k < i})

\* S has positions of a list of length L (from 1), X the indexes (from 0) of the others.
Complement(L, S, X) ==
    /\ L \in Nat /\ S \subseteq 1..L /\ X \subseteq 0..(L - 1)
    /\ \A i \in 0..(L - 1) : i \in X <=> i + 1 \notin S

\* The positions up to p that are not of S (counted from 1) are the indexes of X below p (from 0).
LEMMA CountedOnce ==
    ASSUME NEW L, NEW S, NEW X, Complement(L, S, X), NEW p \in 0..L
    PROVE  Rank(S, p) \in Nat /\ Below(X, p) \in Nat /\ Rank(S, p) + Below(X, p) = p
<1> DEFINE A == {j \in S : j <= p}
           B == {k \in X : k < p}
           C == (1..p) \ A
           f == [k \in B |-> k + 1]
<1>0. /\ L \in Nat /\ S \subseteq 1..L /\ X \subseteq 0..(L - 1)
      /\ \A i \in 0..(L - 1) : i \in X <=> i + 1 \notin S
  BY DEF Complement
<1>1. p \in Nat /\ p <= L /\ IsFiniteSet(1..p) /\ Cardinality(1..p) = p
  BY <1>0, FS_Interval
<1>2. A \subseteq 1..p
  <2>1. \A j \in S : j \in 1..L
    BY <1>0
  <2>2. \A j \in 1..L : j <= p => j \in 1..p
    BY <1>0, <1>1
  <2>. QED
    BY <2>1, <2>2
<1>3. (1..p) \cap A = A
  BY <1>2
<1>. HIDE DEF A
<1>4. IsFiniteSet(A)
  BY <1>1, <1>2, FS_Subset
<1>5. IsFiniteSet(C) /\ Cardinality(C) = Cardinality(1..p) - Cardinality((1..p) \cap A)
  BY <1>1, FS_Difference
<1>6. Cardinality(C) = p - Cardinality(A)
  BY <1>1, <1>3, <1>5
<1>7. B \subseteq Int /\ \A k \in B : k + 1 \in C
  <2>1. B \subseteq Int
    <3>1. \A k \in X : k \in 0..(L - 1)
      BY <1>0
    <3>2. \A k \in 0..(L - 1) : k \in Int
      BY <1>0
    <3>. QED
      BY <3>1, <3>2
  <2>2. ASSUME NEW k \in B
        PROVE  k + 1 \in C
    <3>1. k \in 0..(L - 1) /\ k < p /\ k + 1 \notin S
      BY <1>0
    <3>2. k + 1 \in 1..p
      BY <1>0, <1>1, <3>1
    <3>. QED
      BY <3>1, <3>2 DEF A
  <2>. QED
    BY <2>1, <2>2
<1>8. ASSUME NEW c \in C
      PROVE  c - 1 \in B /\ (c - 1) + 1 = c
  <2>1. c \in 1..p /\ c \notin S
    BY <1>1 DEF A
  <2>2. c - 1 \in 0..(L - 1) /\ (c - 1) + 1 = c /\ c - 1 < p
    BY <1>0, <1>1, <2>1
  <2>. QED
    BY <1>0, <2>1, <2>2
<1>. HIDE DEF B, C
<1>9. f \in Injection(B, C)
  BY <1>7 DEF Injection, IsInjective
<1>10. f \in Surjection(B, C)
  BY <1>7, <1>8 DEF Surjection
<1>11. IsFiniteSet(B) /\ Cardinality(B) = Cardinality(C)
  BY <1>5, <1>9, <1>10, FS_Injection
<1>12. Cardinality(A) \in Nat /\ Cardinality(B) \in Nat
  BY <1>4, <1>11, FS_CardinalityType
<1>13. Cardinality(A) + Cardinality(B) = p
  BY <1>1, <1>6, <1>11, <1>12
<1>. QED
  BY <1>12, <1>13 DEF A, B, Rank, Below

LEMMA LoopbackPositions ==
    ASSUME NEW own, IsList(own)
    PROVE  LET S == {i \in DOMAIN own : own[i] # LoopbackFilter}
               L == Len(own)
           IN  /\ L \in Nat /\ S \subseteq 1..L /\ S \subseteq Int /\ IsFiniteSet(S)
               /\ Cardinality(S) = Rank(S, L) /\ Cardinality(S) \in Nat
               /\ LoopbackIndexes(own) = {i \in 0..(L - 1) : i + 1 \notin S}
               /\ IsFiniteSet(LoopbackIndexes(own))
               /\ Cardinality(LoopbackIndexes(own)) = Below(LoopbackIndexes(own), L)
<1> DEFINE S == {i \in DOMAIN own : own[i] # LoopbackFilter}
           L == Len(own)
           X == LoopbackIndexes(own)
<1>1. L \in Nat /\ DOMAIN own = 1..L
  BY ListFacts
<1>2. S \subseteq 1..L /\ S \subseteq Int
  BY <1>1
<1>3. IsFiniteSet(1..L)
  BY <1>1, FS_Interval
<1>4. IsFiniteSet(S) /\ Cardinality(S) \in Nat
  BY <1>2, <1>3, FS_Subset, FS_CardinalityType
<1>5. {j \in S : j <= L} = S
  BY <1>1, <1>2
<1>6. X = {i \in 0..(L - 1) : own[i + 1] = LoopbackFilter}
  BY DEF LoopbackIndexes
<1>7. \A i \in 0..(L - 1) : i + 1 \in DOMAIN own
  BY <1>1
<1>8. X = {i \in 0..(L - 1) : i + 1 \notin S}
  BY <1>6, <1>7
<1>9. X \subseteq 0..(L - 1) /\ IsFiniteSet(0..(L - 1))
  <2>1. 0 \in Int /\ L - 1 \in Int
    BY <1>1
  <2>. QED
    BY <1>6, <2>1, FS_Interval
<1>10. IsFiniteSet(X)
  BY <1>9, FS_Subset
<1>11. {k \in X : k < L} = X
  BY <1>1, <1>9
<1>. QED
  BY <1>1, <1>2, <1>4, <1>5, <1>8, <1>10, <1>11 DEF Rank, Below

\* A list without the loopback filter is left as it is.
LEMMA NothingToRemove ==
    ASSUME NEW own, IsList(own), \A i \in DOMAIN own : own[i] # LoopbackFilter
    PROVE  WithoutLoopback(own) = own
<1>1. {i \in DOMAIN own : own[i] # LoopbackFilter} = 1..Len(own)
  BY ListFacts
<1>. QED
  BY <1>1, AllPositions DEF WithoutLoopback

LEMMA LoopbackRemoved ==
    ASSUME NEW own, IsList(own)
    PROVE  LET rest == WithoutLoopback(own) IN
           /\ IsList(rest) /\ \A i \in DOMAIN rest : rest[i] # LoopbackFilter
           /\ LoopbackIndexes(own) = {} => rest = own
<1> DEFINE S == {i \in DOMAIN own : own[i] # LoopbackFilter}
           rest == AtPositions(own, S)
           m == Cardinality(S)
<1>1. S \subseteq Int /\ IsFiniteSet(S) /\ m \in Nat
  BY LoopbackPositions
<1>2. \A i \in S : own[i] # LoopbackFilter
  OBVIOUS
<1>3. LoopbackIndexes(own) = {} => \A i \in DOMAIN own : own[i] # LoopbackFilter
  <2>1. ASSUME NEW i \in DOMAIN own, LoopbackIndexes(own) = {}
        PROVE  own[i] # LoopbackFilter
    <3>1. i - 1 \in 0..(Len(own) - 1) /\ (i - 1) + 1 = i
      BY ListFacts
    <3>2. \A k \in 0..(Len(own) - 1) : own[k + 1] # LoopbackFilter
      BY <2>1 DEF LoopbackIndexes
    <3>. QED
      BY <3>1, <3>2
  <2>. QED
    BY <2>1
<1>4. rest = WithoutLoopback(own)
  BY DEF WithoutLoopback
<1>5. LoopbackIndexes(own) = {} => rest = own
  BY <1>3, <1>4, NothingToRemove
<1>. HIDE DEF S
<1>6. rest = [n \in 1..m |-> rest[n]] /\ \A i \in S : rest[Rank(S, i)] = own[i]
  BY <1>1, EntryAtRank
<1>7. \A n \in 1..m : \E i \in S : Rank(S, i) = n
  BY <1>1, RankIsReached
<1>. HIDE DEF rest, m
<1>8. \A n \in 1..m : rest[n] # LoopbackFilter
  BY <1>2, <1>6, <1>7
<1>9. IsList(rest) /\ DOMAIN rest = 1..m
  BY <1>1, <1>6, MadeList
<1>. QED
  BY <1>4, <1>5, <1>8, <1>9

\* Put in again at the indexes they had, the loopback filters are where they were.
LEMMA LoopbackPutBack ==
    ASSUME NEW own, IsList(own)
    PROVE  InsertFilters(WithoutLoopback(own), LoopbackIndexes(own)) = own
<1> DEFINE S == {i \in DOMAIN own : own[i] # LoopbackFilter}
           L == Len(own)
           X == LoopbackIndexes(own)
           rest == WithoutLoopback(own)
           m == Cardinality(S)
           Lands(k) == LET length == Len(rest) + Below(X, k) IN IF k < length THEN k ELSE length
           landed == {Lands(k) : k \in X}
<1>1. /\ L \in Nat /\ S \subseteq 1..L /\ S \subseteq Int /\ IsFiniteSet(S)
      /\ m = Rank(S, L) /\ m \in Nat
      /\ X = {i \in 0..(L - 1) : i + 1 \notin S}
      /\ IsFiniteSet(X) /\ Cardinality(X) = Below(X, L)
  BY LoopbackPositions
<1>2. rest = AtPositions(own, S)
  BY DEF WithoutLoopback
<1>3. own = [i \in 1..L |-> own[i]] /\ \A i \in 1..L : i \notin S => own[i] = LoopbackFilter
  BY ListFacts
<1>4. InsertFilters(rest, X) =
        [i \in 1..(Len(rest) + Cardinality(X)) |->
            IF i - 1 \in landed THEN LoopbackFilter ELSE rest[i - Below(landed, i - 1)]]
  BY DEF InsertFilters, Below
<1>. HIDE DEF S, X, rest
<1>5. rest = [n \in 1..m |-> rest[n]] /\ \A i \in S : rest[Rank(S, i)] = own[i]
  BY <1>1, <1>2, EntryAtRank
<1>6. Len(rest) = m
  BY <1>1, <1>5, MadeList
<1>. HIDE DEF m, L
<1>7. ASSUME NEW p \in 0..L
      PROVE  Rank(S, p) \in Nat /\ Below(X, p) \in Nat /\ Rank(S, p) + Below(X, p) = p
  <2>1. Complement(L, S, X)
    BY <1>1 DEF Complement
  <2>. QED
    BY <2>1, CountedOnce
<1>8. m + Cardinality(X) = L
  BY <1>1, <1>7
<1>9. ASSUME NEW k \in X
      PROVE  Lands(k) = k
  <2>1. k \in 0..L
    BY <1>1
  <2>2. Rank(S, k) <= m
    <3>1. k \in Int /\ IsFiniteSet(S) /\ S \subseteq Int
      BY <1>1, <2>1
    <3>2. Rank(S, k) <= Cardinality(S)
      BY <3>1, RankIsCounted
    <3>. QED
      BY <3>2 DEF m
  <2>3. k <= Len(rest) + Below(X, k)
    BY <1>1, <1>6, <1>7, <2>1, <2>2
  <2>. QED
    BY <1>1, <1>6, <1>7, <2>1, <2>3
<1>10. landed = X
  BY <1>9
<1>. HIDE DEF landed
<1>11. InsertFilters(rest, X) =
         [i \in 1..L |-> IF i - 1 \in X THEN LoopbackFilter ELSE rest[i - Below(X, i - 1)]]
  BY <1>4, <1>6, <1>8, <1>10
<1>12. ASSUME NEW i \in 1..L
       PROVE  own[i] = IF i - 1 \in X THEN LoopbackFilter ELSE rest[i - Below(X, i - 1)]
  <2>1. CASE i \in S
    <3>1. i - 1 \notin X
      BY <1>1, <2>1
    <3>2. {k \in X : k < i - 1} = {k \in X : k < i}
      BY <1>1, <3>1
    <3>3. Below(X, i - 1) = Below(X, i)
      BY <3>2 DEF Below
    <3>4. i \in 0..L
      BY <1>1
    <3>5. i - Below(X, i - 1) = Rank(S, i)
      BY <1>7, <3>3, <3>4
    <3>. QED
      BY <1>5, <2>1, <3>1, <3>5
  <2>2. CASE i \notin S
    <3>1. i - 1 \in 0..(L - 1) /\ (i - 1) + 1 = i
      BY <1>1
    <3>2. i - 1 \in X
      BY <1>1, <2>2, <3>1
    <3>. QED
      BY <1>3, <2>2, <3>2 DEF L
  <2>. QED
    BY <2>1, <2>2
<1>13. InsertFilters(rest, X) = own
  BY <1>3, <1>11, <1>12 DEF L
<1>. QED
  BY <1>13 DEF rest, X

-----------------------------------------------------------------------------
(* What undoing gives back *)

\* A list as reachability leaves it, with the shape its own had.
ListKept(field, own, added, shape) ==
    /\ field = Field("present", field.items) /\ Holds(field.items, own.items, added)
    /\ own.shape = IF own.items = <<>> THEN shape ELSE "present"

FiltersKept(field, own, removed) ==
    IF removed = {} THEN field = own
    ELSE /\ own.items # <<>> /\ removed = LoopbackIndexes(own.items)
         /\ field.items = WithoutLoopback(own.items)

\* k is what the edits recorded in e have made of the operator's own config b.
Undoes(k, e, b) ==
    IF ~e.kept THEN e = NoEdits /\ k = b
    ELSE /\ k = [swarm |-> k.swarm, announce |-> k.announce, filters |-> k.filters, tls |-> k.tls]
         /\ ListKept(k.swarm, b.swarm, e.swarm, e.swarmShape)
         /\ ListKept(k.announce, b.announce, e.announce, e.announceShape)
         /\ FiltersKept(k.filters, b.filters, e.filters)
         /\ b.tls = IF k.tls = "false" /\ e.tls # "none" THEN e.tls ELSE k.tls

LEMMA WellFormedFacts ==
    ASSUME NEW b, WellFormed(b)
    PROVE  /\ b = [swarm |-> b.swarm, announce |-> b.announce, filters |-> b.filters, tls |-> b.tls]
           /\ b.tls \in TlsValues
           /\ \A list \in {b.swarm, b.announce, b.filters} :
                 /\ list = Field(list.shape, list.items) /\ IsList(list.items) /\ list.shape \in Shapes
                 /\ list.shape # "present" => list.items = <<>>
BY DEF WellFormed, KuboConfig, IsList

LEMMA OwnListBack ==
    ASSUME NEW field, NEW own, own = Field(own.shape, own.items), NEW added, NEW shape,
           ListKept(field, own, added, shape)
    PROVE  UndoList(field, added, shape) = own
<1>1. WithoutOneOfEach(field.items, added) = own.items /\ field.shape = "present"
  BY AddedGoAway DEF ListKept, Field
<1>2. UndoList(field, added, shape) = RestoreShape(Field("present", own.items), shape)
  BY <1>1 DEF UndoList
<1>3. own.shape = IF own.items = <<>> THEN shape ELSE "present"
  BY DEF ListKept
<1>. QED
  BY <1>2, <1>3 DEF RestoreShape, Field

LEMMA OwnFiltersBack ==
    ASSUME NEW field, NEW own, own = Field(own.shape, own.items), IsList(own.items),
           own.shape # "present" => own.items = <<>>, NEW removed, FiltersKept(field, own, removed)
    PROVE  UndoFilters(field, removed) = own
<1>1. CASE removed = {}
  BY <1>1 DEF FiltersKept, UndoFilters
<1>2. CASE removed # {}
  <2>1. removed = LoopbackIndexes(own.items) /\ field.items = WithoutLoopback(own.items) /\ own.shape = "present"
    BY <1>2 DEF FiltersKept
  <2>2. IsList(field.items) /\ \A i \in DOMAIN field.items : field.items[i] # LoopbackFilter
    BY <2>1, LoopbackRemoved
  <2>3. WithoutLoopback(field.items) = field.items
    BY <2>2, NothingToRemove
  <2>4. InsertFilters(field.items, removed) = own.items
    BY <2>1, LoopbackPutBack
  <2>. QED
    BY <1>2, <2>1, <2>3, <2>4 DEF UndoFilters
<1>. QED
  BY <1>1, <1>2

LEMMA EditsUndone ==
    ASSUME NEW swarm, NEW announce, NEW filters, NEW tls, NEW e
    PROVE  UndoListEdits([swarm |-> swarm, announce |-> announce, filters |-> filters, tls |-> tls], e)
           = [swarm |-> UndoList(swarm, e.swarm, e.swarmShape),
              announce |-> UndoList(announce, e.announce, e.announceShape),
              filters |-> UndoFilters(filters, e.filters), tls |-> tls]
<1> DEFINE k == [swarm |-> swarm, announce |-> announce, filters |-> filters, tls |-> tls]
           s == UndoList(swarm, e.swarm, e.swarmShape)
           a == UndoList(announce, e.announce, e.announceShape)
           f == UndoFilters(filters, e.filters)
<1>1. k.swarm = swarm /\ k.announce = announce /\ k.filters = filters
  OBVIOUS
<1>2. UndoListEdits(k, e) = [k EXCEPT !.swarm = UndoList(k.swarm, e.swarm, e.swarmShape),
                                     !.announce = UndoList(k.announce, e.announce, e.announceShape),
                                     !.filters = UndoFilters(k.filters, e.filters)]
  BY DEF UndoListEdits
<1>3. UndoListEdits(k, e) = [k EXCEPT !.swarm = s, !.announce = a, !.filters = f]
  BY <1>1, <1>2
<1>. HIDE DEF s, a, f
<1>4. [k EXCEPT !.swarm = s, !.announce = a, !.filters = f]
      = [swarm |-> s, announce |-> a, filters |-> f, tls |-> tls]
  <2> DEFINE D == {"swarm", "announce", "filters", "tls"}
             l == [k EXCEPT !.swarm = s, !.announce = a, !.filters = f]
             r == [swarm |-> s, announce |-> a, filters |-> f, tls |-> tls]
  <2>1. l = [x \in D |-> l[x]] /\ r = [x \in D |-> r[x]]
    OBVIOUS
  <2>2. l.swarm = s /\ l.announce = a /\ l.filters = f /\ l.tls = tls
    OBVIOUS
  <2>3. r.swarm = s /\ r.announce = a /\ r.filters = f /\ r.tls = tls
    OBVIOUS
  <2>. HIDE DEF l, r
  <2>4. \A x \in D : l[x] = r[x]
    BY <2>2, <2>3
  <2>5. l = r
    BY <2>1, <2>4
  <2>. QED
    BY <2>5 DEF l, r
<1>. QED
  BY <1>3, <1>4 DEF s, a, f

LEMMA OwnListsBack ==
    ASSUME NEW k, NEW e, e.kept, NEW b, WellFormed(b), Undoes(k, e, b)
    PROVE  UndoListEdits(k, e) = [swarm |-> b.swarm, announce |-> b.announce, filters |-> b.filters, tls |-> k.tls]
<1>1. /\ k = [swarm |-> k.swarm, announce |-> k.announce, filters |-> k.filters, tls |-> k.tls]
      /\ ListKept(k.swarm, b.swarm, e.swarm, e.swarmShape)
      /\ ListKept(k.announce, b.announce, e.announce, e.announceShape)
      /\ FiltersKept(k.filters, b.filters, e.filters)
  BY DEF Undoes
<1>2. \A list \in {b.swarm, b.announce, b.filters} :
          /\ list = Field(list.shape, list.items) /\ IsList(list.items)
          /\ list.shape # "present" => list.items = <<>>
  BY WellFormedFacts
<1>3. /\ b.swarm = Field(b.swarm.shape, b.swarm.items)
      /\ b.announce = Field(b.announce.shape, b.announce.items)
      /\ b.filters = Field(b.filters.shape, b.filters.items) /\ IsList(b.filters.items)
      /\ b.filters.shape # "present" => b.filters.items = <<>>
  BY <1>2
<1>4. /\ UndoList(k.swarm, e.swarm, e.swarmShape) = b.swarm
      /\ UndoList(k.announce, e.announce, e.announceShape) = b.announce
  BY <1>1, <1>3, OwnListBack
<1>5. UndoFilters(k.filters, e.filters) = b.filters
  BY <1>1, <1>3, OwnFiltersBack
<1>6. UndoListEdits(k, e) = [swarm |-> UndoList(k.swarm, e.swarm, e.swarmShape),
                             announce |-> UndoList(k.announce, e.announce, e.announceShape),
                             filters |-> UndoFilters(k.filters, e.filters), tls |-> k.tls]
  <2>1. UndoListEdits(k, e) =
          UndoListEdits([swarm |-> k.swarm, announce |-> k.announce, filters |-> k.filters, tls |-> k.tls], e)
    BY <1>1
  <2>. QED
    BY <2>1, EditsUndone
<1>. QED
  BY <1>4, <1>5, <1>6

\* Undoing what is recorded gives the operator's config back: the point of the record.
LEMMA OwnConfigBack ==
    ASSUME NEW k, NEW e, e.kept \in BOOLEAN, NEW b, WellFormed(b), Undoes(k, e, b)
    PROVE  UndoAll(k, e) = b
<1>1. CASE ~e.kept
  BY <1>1 DEF Undoes, UndoAll
<1>2. CASE e.kept
  <2> DEFINE u == UndoListEdits(k, e)
  <2>1. u = [swarm |-> b.swarm, announce |-> b.announce, filters |-> b.filters, tls |-> k.tls]
    BY <1>2, OwnListsBack
  <2>2. b = [swarm |-> b.swarm, announce |-> b.announce, filters |-> b.filters, tls |-> b.tls]
    BY WellFormedFacts
  <2>3. b.tls = IF k.tls = "false" /\ e.tls # "none" THEN e.tls ELSE k.tls
    BY <1>2 DEF Undoes
  <2>4. UndoAll(k, e) = RestoreAutoTls(u, e.tls)
    BY <1>2 DEF UndoAll
  <2>. HIDE DEF u
  <2>5. u.tls = k.tls /\ [u EXCEPT !.tls = e.tls] = [swarm |-> b.swarm, announce |-> b.announce,
                                                     filters |-> b.filters, tls |-> e.tls]
    BY <2>1
  <2>6. CASE k.tls = "false" /\ e.tls # "none"
    BY <2>2, <2>3, <2>4, <2>5, <2>6 DEF RestoreAutoTls
  <2>7. CASE ~(k.tls = "false" /\ e.tls # "none")
    BY <2>1, <2>2, <2>3, <2>4, <2>5, <2>7 DEF RestoreAutoTls
  <2>. QED
    BY <2>6, <2>7
<1>. QED
  BY <1>1, <1>2

\* What an apply writes and records undoes to the same config.
LEMMA RedoKeepsOwn ==
    ASSUME NEW k, NEW e, e.kept \in BOOLEAN, NEW b, WellFormed(b), Undoes(k, e, b),
           NEW serveWss \in BOOLEAN, NEW announce, IsFiniteSet(announce)
    PROVE  LET plan == Redo(k, serveWss, announce, e)
           IN  Undoes(plan.config, plan.edits, b)
<1> DEFINE u == IF e.kept THEN UndoListEdits(k, e) ELSE k
           listeners == (IF serveWss THEN {LocalWs} ELSE {}) \cup {WebTransport}
           removed == IF serveWss THEN LoopbackIndexes(u.filters.items) ELSE {}
           original == IF ~serveWss THEN "none" ELSE IF e.tls # "none" THEN e.tls ELSE u.tls
           tls == IF serveWss THEN (IF e.tls # "none" THEN u.tls ELSE "false") ELSE RestoreAutoTls(u, e.tls).tls
           filters == IF serveWss THEN Field(u.filters.shape, WithoutLoopback(u.filters.items)) ELSE u.filters
           swarmShape == IF e.kept THEN e.swarmShape ELSE u.swarm.shape
           announceShape == IF e.kept THEN e.announceShape ELSE u.announce.shape
           config == [swarm |-> AppendMissing(u.swarm, listeners), announce |-> AppendMissing(u.announce, announce),
                      filters |-> filters, tls |-> tls]
           edits == [kept |-> TRUE, swarmShape |-> swarmShape, announceShape |-> announceShape,
                     swarm |-> listeners \ ToSet(u.swarm.items), announce |-> announce \ ToSet(u.announce.items),
                     filters |-> removed, tls |-> original]
<1>1. Redo(k, serveWss, announce, e) = [config |-> config, edits |-> edits]
  BY DEF Redo
<1>2. u = [swarm |-> b.swarm, announce |-> b.announce, filters |-> b.filters, tls |-> k.tls]
  <2>1. CASE e.kept
    BY <2>1, OwnListsBack
  <2>2. CASE ~e.kept
    BY <2>2, WellFormedFacts DEF Undoes
  <2>. QED
    BY <2>1, <2>2
<1>. HIDE DEF u
<1>3. u.swarm = b.swarm /\ u.announce = b.announce /\ u.filters = b.filters /\ u.tls = k.tls
  BY <1>2
<1>4. /\ b.swarm = Field(b.swarm.shape, b.swarm.items) /\ IsList(b.swarm.items)
      /\ b.announce = Field(b.announce.shape, b.announce.items) /\ IsList(b.announce.items)
      /\ b.filters = Field(b.filters.shape, b.filters.items) /\ IsList(b.filters.items)
      /\ b.swarm.shape # "present" => b.swarm.items = <<>>
      /\ b.announce.shape # "present" => b.announce.items = <<>>
      /\ b.tls \in TlsValues
  BY WellFormedFacts
<1>5. IsFiniteSet(listeners)
  <2>1. listeners \in {{LocalWs} \cup {WebTransport}, {WebTransport}}
    OBVIOUS
  <2>2. IsFiniteSet({WebTransport}) /\ IsFiniteSet({LocalWs})
    BY FS_Singleton
  <2>3. IsFiniteSet({LocalWs} \cup {WebTransport})
    BY <2>2, FS_Union
  <2>. HIDE DEF listeners
  <2>. QED
    BY <2>1, <2>2, <2>3
<1>6. b.swarm.shape = IF b.swarm.items = <<>> THEN swarmShape ELSE "present"
  <2>1. CASE e.kept
    BY <2>1 DEF Undoes, ListKept
  <2>2. CASE ~e.kept
    BY <1>3, <1>4, <2>2
  <2>. QED
    BY <2>1, <2>2
<1>7. b.announce.shape = IF b.announce.items = <<>> THEN announceShape ELSE "present"
  <2>1. CASE e.kept
    BY <2>1 DEF Undoes, ListKept
  <2>2. CASE ~e.kept
    BY <1>3, <1>4, <2>2
  <2>. QED
    BY <2>1, <2>2
<1>. HIDE DEF listeners, swarmShape, announceShape
<1>8. ListKept(config.swarm, b.swarm, edits.swarm, edits.swarmShape)
  BY <1>3, <1>4, <1>5, <1>6, MissingAreAdded DEF ListKept
<1>9. ListKept(config.announce, b.announce, edits.announce, edits.announceShape)
  BY <1>3, <1>4, <1>7, MissingAreAdded DEF ListKept
<1>10. FiltersKept(filters, b.filters, removed)
  <2>1. CASE ~serveWss
    BY <1>3, <2>1 DEF FiltersKept
  <2>2. CASE serveWss /\ LoopbackIndexes(b.filters.items) = {}
    <3>1. WithoutLoopback(b.filters.items) = b.filters.items
      BY <1>4, <2>2, LoopbackRemoved
    <3>2. filters = b.filters
      BY <1>3, <1>4, <2>2, <3>1
    <3>. QED
      BY <1>3, <2>2, <3>2 DEF FiltersKept
  <2>3. CASE serveWss /\ LoopbackIndexes(b.filters.items) # {}
    <3>1. b.filters.items # <<>>
      <4>1. LoopbackIndexes(<<>>) = {}
        BY DEF LoopbackIndexes
      <4>. QED
        BY <2>3, <4>1
    <3>2. filters.items = WithoutLoopback(b.filters.items) /\ removed = LoopbackIndexes(b.filters.items)
      BY <1>3, <2>3 DEF Field
    <3>. QED
      BY <2>3, <3>1, <3>2 DEF FiltersKept
  <2>. QED
    BY <2>1, <2>2, <2>3
<1>11. b.tls = IF tls = "false" /\ original # "none" THEN original ELSE tls
  <2>1. b.tls = IF k.tls = "false" /\ e.tls # "none" THEN e.tls ELSE k.tls
    <3>1. CASE e.kept
      BY <3>1 DEF Undoes
    <3>2. CASE ~e.kept
      BY <3>2 DEF Undoes, NoEdits
    <3>. QED
      BY <3>1, <3>2
  <2>2. CASE serveWss /\ e.tls # "none"
    BY <1>3, <2>1, <2>2
  <2>3. CASE serveWss /\ e.tls = "none"
    <3>1. original = b.tls /\ tls = "false"
      BY <1>3, <2>1, <2>3
    <3>2. b.tls # "none"
      BY <1>4 DEF TlsValues
    <3>. QED
      BY <3>1, <3>2
  <2>4. CASE ~serveWss
    <3>1. RestoreAutoTls(u, e.tls).tls = IF u.tls = "false" /\ e.tls # "none" THEN e.tls ELSE u.tls
      BY <1>2 DEF RestoreAutoTls
    <3>. QED
      BY <1>3, <2>1, <2>4, <3>1
  <2>. QED
    BY <2>2, <2>3, <2>4
<1>. HIDE DEF filters, removed, original, tls
<1>12. Undoes(config, edits, b)
  BY <1>8, <1>9, <1>10, <1>11 DEF Undoes
<1>. HIDE DEF config, edits
<1>. QED
  BY <1>1, <1>12

LEMMA PlanKeepsOwn ==
    ASSUME NEW k, NEW e, e.kept \in BOOLEAN, NEW b, WellFormed(b), Undoes(k, e, b),
           NEW serveWss \in BOOLEAN, NEW announce, IsFiniteSet(announce), NEW enabled \in BOOLEAN
    PROVE  LET plan == PlanKuboConfig(k, serveWss, announce, e, enabled)
           IN  Undoes(plan.config, plan.edits, b)
<1>1. CASE enabled
  BY <1>1, RedoKeepsOwn DEF PlanKuboConfig
<1>2. CASE ~enabled
  <2>1. PlanKuboConfig(k, serveWss, announce, e, enabled) = [config |-> b, edits |-> NoEdits]
    BY <1>2, OwnConfigBack DEF PlanKuboConfig
  <2>. QED
    BY <2>1 DEF Undoes, NoEdits
<1>. QED
  BY <1>1, <1>2

LEMMA NothingDone ==
    ASSUME NEW b
    PROVE  Undoes(b, NoEdits, b)
BY DEF Undoes, NoEdits

\* Reachability can be enabled, enabled anew with other addresses or another serveWss, and disabled:
\* any config of an operator comes back as it was, lists in their order and with their shape, also
\* when they hold the entries that enabling adds or removes (planKuboConfig, "byte-for-byte round trip").
THEOREM RoundTrip ==
    ASSUME NEW b, WellFormed(b), NEW wss \in BOOLEAN, NEW announce, IsFiniteSet(announce),
           NEW later \in BOOLEAN, NEW moved, IsFiniteSet(moved)
    PROVE  LET enabled == PlanKuboConfig(b, wss, announce, NoEdits, TRUE)
               again == PlanKuboConfig(enabled.config, later, moved, enabled.edits, TRUE)
           IN  /\ PlanKuboConfig(enabled.config, wss, announce, enabled.edits, FALSE).config = b
               /\ PlanKuboConfig(again.config, later, moved, again.edits, FALSE).config = b
<1> DEFINE enabled == PlanKuboConfig(b, wss, announce, NoEdits, TRUE)
           again == PlanKuboConfig(enabled.config, later, moved, enabled.edits, TRUE)
<1>1. NoEdits.kept \in BOOLEAN /\ Undoes(b, NoEdits, b)
  BY NoEditsTyped, NothingDone DEF Edits
<1>2. /\ Undoes(enabled.config, enabled.edits, b)
      /\ enabled.edits.kept \in BOOLEAN
  <2> DEFINE plan == Redo(b, wss, announce, NoEdits)
  <2>1. enabled = plan
    BY DEF PlanKuboConfig
  <2>2. Undoes(plan.config, plan.edits, b)
    BY <1>1, RedoKeepsOwn
  <2>3. plan.edits.kept = TRUE
    BY DEF Redo
  <2>. QED
    BY <2>1, <2>2, <2>3
<1>. HIDE DEF enabled
<1>3. /\ Undoes(again.config, again.edits, b)
      /\ again.edits.kept \in BOOLEAN
  <2> DEFINE plan == Redo(enabled.config, later, moved, enabled.edits)
  <2>1. again = plan
    BY DEF PlanKuboConfig
  <2>2. Undoes(plan.config, plan.edits, b)
    BY <1>2, RedoKeepsOwn
  <2>3. plan.edits.kept = TRUE
    BY DEF Redo
  <2>. QED
    BY <2>1, <2>2, <2>3
<1>. HIDE DEF again
<1>6. UndoAll(enabled.config, enabled.edits) = b /\ UndoAll(again.config, again.edits) = b
  BY <1>2, <1>3, OwnConfigBack
<1>7. /\ PlanKuboConfig(enabled.config, wss, announce, enabled.edits, FALSE).config = b
      /\ PlanKuboConfig(again.config, later, moved, again.edits, FALSE).config = b
  BY <1>6 DEF PlanKuboConfig
<1>. QED
  BY <1>7 DEF enabled, again

-----------------------------------------------------------------------------
(* What the operator does *)

LEMMA RecordAppended ==
    ASSUME NEW c, c = [swarm |-> c.swarm, announce |-> c.announce, filters |-> c.filters, tls |-> c.tls], NEW list
    PROVE  [c EXCEPT !.announce = list]
           = [swarm |-> c.swarm, announce |-> list, filters |-> c.filters, tls |-> c.tls]
<1> DEFINE D == {"swarm", "announce", "filters", "tls"}
           l == [c EXCEPT !.announce = list]
           r == [swarm |-> c.swarm, announce |-> list, filters |-> c.filters, tls |-> c.tls]
<1>1. DOMAIN c = D
  OBVIOUS
<1>2. l = [x \in D |-> l[x]] /\ r = [x \in D |-> r[x]]
  BY <1>1
<1>3. l.swarm = c.swarm /\ l.announce = list /\ l.filters = c.filters /\ l.tls = c.tls
  BY <1>1
<1>4. r.swarm = c.swarm /\ r.announce = list /\ r.filters = c.filters /\ r.tls = c.tls
  OBVIOUS
<1>. HIDE DEF l, r
<1>5. \A x \in D : l[x] = r[x]
  BY <1>3, <1>4
<1>6. l = r
  BY <1>2, <1>5
<1>. QED
  BY <1>6 DEF l, r

LEMMA RecordSwitched ==
    ASSUME NEW c, c = [swarm |-> c.swarm, announce |-> c.announce, filters |-> c.filters, tls |-> c.tls], NEW tls
    PROVE  [c EXCEPT !.tls = tls]
           = [swarm |-> c.swarm, announce |-> c.announce, filters |-> c.filters, tls |-> tls]
<1> DEFINE D == {"swarm", "announce", "filters", "tls"}
           l == [c EXCEPT !.tls = tls]
           r == [swarm |-> c.swarm, announce |-> c.announce, filters |-> c.filters, tls |-> tls]
<1>1. DOMAIN c = D
  OBVIOUS
<1>2. l = [x \in D |-> l[x]] /\ r = [x \in D |-> r[x]]
  BY <1>1
<1>3. l.swarm = c.swarm /\ l.announce = c.announce /\ l.filters = c.filters /\ l.tls = tls
  BY <1>1
<1>4. r.swarm = c.swarm /\ r.announce = c.announce /\ r.filters = c.filters /\ r.tls = tls
  OBVIOUS
<1>. HIDE DEF l, r
<1>5. \A x \in D : l[x] = r[x]
  BY <1>3, <1>4
<1>6. l = r
  BY <1>2, <1>5
<1>. QED
  BY <1>6 DEF l, r

LEMMA WellFormedAgain ==
    ASSUME NEW swarm, NEW announce, NEW filters, NEW tls \in TlsValues,
           \A list \in {swarm, announce, filters} :
               /\ list = Field(list.shape, list.items) /\ IsList(list.items) /\ list.shape \in Shapes
               /\ list.shape # "present" => list.items = <<>>
    PROVE  WellFormed([swarm |-> swarm, announce |-> announce, filters |-> filters, tls |-> tls])
<1> DEFINE c == [swarm |-> swarm, announce |-> announce, filters |-> filters, tls |-> tls]
<1>1. /\ c.swarm = swarm /\ c.announce = announce /\ c.filters = filters /\ c.tls = tls
      /\ DOMAIN c = {"swarm", "announce", "filters", "tls"}
  OBVIOUS
<1>2. c = [swarm |-> c.swarm, announce |-> c.announce, filters |-> c.filters, tls |-> c.tls]
  BY <1>1
<1>. HIDE DEF c
<1>3. WellFormed(c)
  BY <1>1, <1>2 DEF WellFormed, KuboConfig, IsList
<1>. QED
  BY <1>3 DEF c

LEMMA AppendedToBoth ==
    ASSUME NEW k, NEW e, e.kept \in BOOLEAN, NEW b, WellFormed(b), Undoes(k, e, b), NEW x
    PROVE  LET k2 == [k EXCEPT !.announce = Field("present", Append(k.announce.items, x))]
               b2 == [b EXCEPT !.announce = Field("present", Append(b.announce.items, x))]
           IN  WellFormed(b2) /\ Undoes(k2, e, b2)
<1> DEFINE own == Append(b.announce.items, x)
           items == Append(k.announce.items, x)
           k2 == [k EXCEPT !.announce = Field("present", items)]
           b2 == [b EXCEPT !.announce = Field("present", own)]
<1>1. /\ b = [swarm |-> b.swarm, announce |-> b.announce, filters |-> b.filters, tls |-> b.tls]
      /\ b.tls \in TlsValues
      /\ \A list \in {b.swarm, b.announce, b.filters} :
            /\ list = Field(list.shape, list.items) /\ IsList(list.items) /\ list.shape \in Shapes
            /\ list.shape # "present" => list.items = <<>>
  BY WellFormedFacts
<1>2. b2 = [swarm |-> b.swarm, announce |-> Field("present", own), filters |-> b.filters, tls |-> b.tls]
  BY <1>1, RecordAppended
<1>3. Field("present", own).shape = "present" /\ Field("present", own).items = own
  BY DEF Field
<1>4. IsList(own)
  <2>1. Holds(b.announce.items, b.announce.items, {})
    <3>1. IsList(b.announce.items) /\ Len(b.announce.items) \in Nat
      BY <1>1, ListFacts
    <3>2. /\ Len(b.announce.items) - Len(b.announce.items) = 0
          /\ Len(b.announce.items) \in 0..Len(b.announce.items)
      BY <3>1
    <3>. QED
      BY <3>1, <3>2 DEF Holds, AddedAfter
  <2>. QED
    BY <2>1, OperatorAppends
<1>. HIDE DEF own, b2
<1>5. WellFormed(b2)
  <2>1. "present" \in Shapes
    BY DEF Shapes
  <2>. QED
    BY <1>1, <1>2, <1>3, <1>4, <2>1, WellFormedAgain
<1>6. CASE ~e.kept
  <2>1. k = b /\ e = NoEdits
    BY <1>6 DEF Undoes
  <2>2. k2 = b2
    BY <2>1 DEF own, b2
  <2>. QED
    BY <1>5, <1>6, <2>1, <2>2 DEF Undoes, own, b2
<1>7. CASE e.kept
  <2>1. /\ k = [swarm |-> k.swarm, announce |-> k.announce, filters |-> k.filters, tls |-> k.tls]
        /\ ListKept(k.swarm, b.swarm, e.swarm, e.swarmShape)
        /\ ListKept(k.announce, b.announce, e.announce, e.announceShape)
        /\ FiltersKept(k.filters, b.filters, e.filters)
        /\ b.tls = IF k.tls = "false" /\ e.tls # "none" THEN e.tls ELSE k.tls
    BY <1>7 DEF Undoes
  <2>2. k2 = [swarm |-> k.swarm, announce |-> Field("present", items), filters |-> k.filters, tls |-> k.tls]
    BY <2>1, RecordAppended
  <2>3. Holds(items, own, e.announce) /\ own # <<>>
    BY <2>1, OperatorAppends DEF ListKept, own
  <2>. HIDE DEF items, k2
  <2>4. ListKept(Field("present", items), Field("present", own), e.announce, e.announceShape)
    <3>1. Field("present", items).items = items
      BY DEF Field
    <3>. QED
      BY <1>3, <2>3, <3>1 DEF ListKept
  <2>5. /\ k2.swarm = k.swarm /\ k2.announce = Field("present", items) /\ k2.filters = k.filters /\ k2.tls = k.tls
        /\ b2.swarm = b.swarm /\ b2.announce = Field("present", own) /\ b2.filters = b.filters /\ b2.tls = b.tls
    BY <1>2, <2>2
  <2>6. k2 = [swarm |-> k2.swarm, announce |-> k2.announce, filters |-> k2.filters, tls |-> k2.tls]
    BY <2>2, <2>5
  <2>7. Undoes(k2, e, b2)
    BY <1>7, <2>1, <2>4, <2>5, <2>6 DEF Undoes
  <2>. QED
    BY <1>5, <2>7 DEF own, items, k2, b2
<1>. QED
  BY <1>6, <1>7

LEMMA SwitchedInBoth ==
    ASSUME NEW k, NEW e, e.kept \in BOOLEAN, NEW b, WellFormed(b), Undoes(k, e, b)
    PROVE  LET k2 == [k EXCEPT !.tls = "true"]
               b2 == [b EXCEPT !.tls = "true"]
           IN  WellFormed(b2) /\ Undoes(k2, e, b2)
<1> DEFINE k2 == [k EXCEPT !.tls = "true"]
           b2 == [b EXCEPT !.tls = "true"]
<1>1. /\ b = [swarm |-> b.swarm, announce |-> b.announce, filters |-> b.filters, tls |-> b.tls]
      /\ \A list \in {b.swarm, b.announce, b.filters} :
            /\ list = Field(list.shape, list.items) /\ IsList(list.items) /\ list.shape \in Shapes
            /\ list.shape # "present" => list.items = <<>>
  BY WellFormedFacts
<1>2. b2 = [swarm |-> b.swarm, announce |-> b.announce, filters |-> b.filters, tls |-> "true"]
  BY <1>1, RecordSwitched
<1>. HIDE DEF b2
<1>3. WellFormed(b2)
  <2>1. "true" \in TlsValues
    BY DEF TlsValues
  <2>. QED
    BY <1>1, <1>2, <2>1, WellFormedAgain
<1>4. CASE ~e.kept
  <2>1. k = b /\ e = NoEdits
    BY <1>4 DEF Undoes
  <2>2. k2 = b2
    BY <2>1 DEF b2
  <2>. QED
    BY <1>3, <1>4, <2>1, <2>2 DEF Undoes, b2
<1>5. CASE e.kept
  <2>1. /\ k = [swarm |-> k.swarm, announce |-> k.announce, filters |-> k.filters, tls |-> k.tls]
        /\ ListKept(k.swarm, b.swarm, e.swarm, e.swarmShape)
        /\ ListKept(k.announce, b.announce, e.announce, e.announceShape)
        /\ FiltersKept(k.filters, b.filters, e.filters)
    BY <1>5 DEF Undoes
  <2>2. k2 = [swarm |-> k.swarm, announce |-> k.announce, filters |-> k.filters, tls |-> "true"]
    BY <2>1, RecordSwitched
  <2>. HIDE DEF k2
  <2>3. /\ k2.swarm = k.swarm /\ k2.announce = k.announce /\ k2.filters = k.filters /\ k2.tls = "true"
        /\ b2.swarm = b.swarm /\ b2.announce = b.announce /\ b2.filters = b.filters /\ b2.tls = "true"
    BY <1>2, <2>2
  <2>4. k2 = [swarm |-> k2.swarm, announce |-> k2.announce, filters |-> k2.filters, tls |-> k2.tls]
    BY <2>2, <2>3
  <2>5. Undoes(k2, e, b2)
    BY <1>5, <2>1, <2>3, <2>4 DEF Undoes
  <2>. QED
    BY <1>3, <2>5 DEF k2, b2
<1>. QED
  BY <1>4, <1>5

-----------------------------------------------------------------------------
(* Records *)

LEMMA NoneTyped ==
    /\ NoConfig \in Config /\ NoSite \in Sites /\ NoCheck \in Checks /\ NoCli \in Commands
    /\ ApplyTyped(NoJob)
<1>1. NoConfig \in Config
  BY NoEditsTyped DEF NoConfig, Config
<1>2. NoSite \in Sites
  BY DEF NoSite, Sites
<1>3. NoCheck \in Checks
  BY <1>1, <1>2 DEF NoCheck, Checks, CheckSteps, Statuses
<1>4. NoCli \in Commands
  BY <1>1, <1>2, NoEditsTyped DEF NoCli, Commands, CommandSteps, Protocols
<1>5. ApplyTyped(NoJob)
  BY <1>1 DEF NoJob, ApplyTyped, ApplySteps
<1>. QED
  BY <1>1, <1>2, <1>3, <1>4, <1>5

LEMMA NoneFields ==
    /\ ~NoConfig.there /\ ~NoConfig.enabled /\ NoConfig.ips = {} /\ NoConfig.domain = {} /\ NoConfig.external = {}
    /\ NoConfig.announce = {} /\ NoConfig.dropped = {} /\ NoConfig.edits = NoEdits
    /\ ~NoSite.there /\ NoSite.ips = {}
    /\ NoCheck.pc = "idle" /\ NoCheck.config = NoConfig
    /\ NoCli.pc = "idle" /\ NoCli.kind = "none" /\ NoCli.issued = {}
    /\ NoJob.step = "none" /\ NoJob.config = NoConfig
BY DEF NoConfig, NoSite, NoCheck, NoCli, NoJob

\* Addresses of names, and what distinguishes them from the others.
LEMMA NamedFacts ==
    /\ \A a \in Named : NameOf(a) \in Names /\ a \notin Ips
    /\ \A ds \in SUBSET Domains : Own(ds) \subseteq Named /\ \A a \in Own(ds) : NameOf(a) \in ds /\ a # Proxy
    /\ \A protocol \in Protocols, d \in Domains : <<protocol, d>> \in Own(Domains)
    /\ Proxy \in Named /\ Ips \cap Domains = {} /\ Ips \cap Named = {} /\ Addresses = Ips \cup Named
<1>1. /\ "proxy" \notin Domains
      /\ Ips \cap (Domains \cup {"proxy"}) = {} /\ Ips \cap ({"dns4", "dns6"} \X (Domains \cup {"proxy"})) = {}
  BY ConstantsOK
<1>2. \A ds \in SUBSET Domains : \A a \in Own(ds) : \E protocol \in Protocols, d \in ds : a = <<protocol, d>>
  BY DEF Own
<1>3. \A protocol \in Protocols, d \in Domains : <<protocol, d>> \in Own(Domains) /\ <<protocol, d>> # Proxy
  BY <1>1 DEF Own, Proxy
<1>4. \A a \in Own(Domains) : NameOf(a) \in Domains /\ a \notin Ips /\ a # Proxy
  BY <1>1, <1>2 DEF NameOf, Protocols, Proxy
<1>5. NameOf(Proxy) = "proxy" /\ Proxy \notin Ips
  BY <1>1 DEF NameOf, Proxy
<1>6. \A ds \in SUBSET Domains : Own(ds) \subseteq Own(Domains) /\ \A a \in Own(ds) : NameOf(a) \in ds
  BY <1>2, <1>3 DEF NameOf
<1>. QED
  BY <1>1, <1>3, <1>4, <1>5, <1>6 DEF Named, Names, Addresses

LEMMA TypedFacts ==
    ASSUME Typed
    PROVE  /\ KuboConfig(kubo) /\ verified \in BOOLEAN /\ cfg \in Config /\ site \in Sites /\ status \in Statuses
           /\ chk \in Checks /\ cli \in Commands
           /\ DOMAIN job = Actors /\ \A a \in Actors : ApplyTyped(job[a])
           /\ pending \subseteq Ips /\ here \subseteq Ips /\ lost \in BOOLEAN /\ overlap \in BOOLEAN
           /\ refused \subseteq Families /\ fresh \subseteq Named
           /\ backoff \in [Families -> [on : BOOLEAN, due : BOOLEAN, held : SUBSET Ips]]
           /\ V6 \subseteq Ips
BY ConstantsOK DEF Typed, TypeOK, Sites, Statuses

LEMMA ConfigFacts ==
    ASSUME NEW c \in Config
    PROVE  /\ c.there \in BOOLEAN /\ c.enabled \in BOOLEAN /\ c.ips \subseteq Ips /\ c.domain \subseteq Domains
           /\ c.external \subseteq {Proxy} /\ c.announce \subseteq Addresses /\ c.dropped \subseteq Named
           /\ c.serveWss \in BOOLEAN /\ c.edits \in Edits
BY DEF Config

\* What an apply and a disable leave of a config.
Keeps(c, d) == /\ d.there = c.there /\ d.ips = c.ips /\ d.domain = c.domain /\ d.external = c.external
               /\ d.announce = c.announce /\ d.dropped = c.dropped

LEMMA EditsOfConfig ==
    ASSUME NEW c \in Config, NEW e \in Edits
    PROVE  LET d == [c EXCEPT !.edits = e]
           IN  d \in Config /\ d.edits = e /\ d.enabled = c.enabled /\ Keeps(c, d)
BY DEF Config, Keeps

LEMMA CheckFacts ==
    ASSUME NEW r \in Checks
    PROVE  /\ r.pc \in CheckSteps /\ r.config \in Config /\ r.next \subseteq Ips /\ r.previous \in Sites
           /\ r.status \in Statuses
BY DEF Checks

LEMMA CommandFacts ==
    ASSUME NEW r \in Commands
    PROVE  /\ r.pc \in CommandSteps /\ r.kind \in {"none", "setup", "disable", "purge"} /\ r.previous \in Config
           /\ r.domain \subseteq Domains /\ r.protocol \in Protocols /\ r.announce \in BOOLEAN
           /\ r.ips \subseteq Ips /\ r.usable \in BOOLEAN /\ r.busy \in BOOLEAN
           /\ r.issued \subseteq Ips \cup Domains /\ r.site \in Sites /\ r.edits \in Edits
BY DEF Commands

LEMMA ApplyFacts ==
    ASSUME NEW j, ApplyTyped(j)
    PROVE  /\ j.step \in ApplySteps /\ j.config \in Config /\ j.changed \in BOOLEAN
           /\ j.then \in {"idle", "dial", "purge", "names", "finish"}
           /\ DOMAIN j = {"step", "config", "read", "plan", "changed", "then"}
           /\ j.step \in {"kubo", "save"} => KuboConfig(j.plan)
BY DEF ApplyTyped

\* One of the two applies changes.
LEMMA OneApply ==
    ASSUME Typed, NEW a \in Actors, NEW j, ApplyTyped(j), job' = [job EXCEPT ![a] = j]
    PROVE  /\ job'[a] = j /\ \A b \in Actors \ {a} : job'[b] = job[b]
           /\ DOMAIN job' = Actors /\ \A b \in Actors : ApplyTyped(job'[b])
<1>1. DOMAIN job = Actors /\ \A b \in Actors : ApplyTyped(job[b])
  BY TypedFacts
<1>2. DOMAIN job' = Actors /\ \A b \in Actors : job'[b] = IF b = a THEN j ELSE job[b]
  BY <1>1
<1>. QED
  BY <1>1, <1>2

LEMMA ApplyBegins ==
    ASSUME Typed, NEW a \in Actors, NEW c \in Config, NEW step \in {"latest", "read"},
           NEW then \in {"idle", "dial", "purge", "names", "finish"}, Apply(a, c, step, then)
    PROVE  /\ job'[a].step = step /\ job'[a].config = c /\ job'[a].then = then
           /\ \A b \in Actors \ {a} : job'[b] = job[b]
           /\ DOMAIN job' = Actors /\ \A b \in Actors : ApplyTyped(job'[b])
<1> DEFINE j == [NoJob EXCEPT !.step = step, !.config = c, !.then = then]
<1>1. ApplyTyped(j) /\ j.step = step /\ j.config = c /\ j.then = then
  BY NoneTyped DEF ApplyTyped, NoJob, ApplySteps
<1>2. job' = [job EXCEPT ![a] = j]
  BY DEF Apply
<1>. HIDE DEF j
<1>. QED
  BY <1>1, <1>2, OneApply

-----------------------------------------------------------------------------
(* What each step of an apply does *)

\* What stays of a check, and of a command, beside its step.
CheckOnly(p) == /\ chk' \in Checks /\ chk'.pc = p /\ chk'.next = chk.next
                /\ chk'.previous = chk.previous /\ chk'.status = chk.status

CommandOnly(p) == /\ cli' \in Commands /\ cli'.pc = p /\ cli'.kind = cli.kind /\ cli'.busy = cli.busy
                  /\ cli'.domain = cli.domain /\ cli'.ips = cli.ips /\ cli'.issued = cli.issued /\ cli'.site = cli.site
                  /\ cli'.previous = cli.previous

OnlyJobOf(a) == /\ \A b \in Actors \ {a} : job'[b] = job[b]
                /\ DOMAIN job' = Actors /\ \A b \in Actors : ApplyTyped(job'[b])

LEMMA CheckMoves ==
    ASSUME Typed, NEW p \in CheckSteps, NEW c \in Config, chk' = [chk EXCEPT !.pc = p, !.config = c]
    PROVE  CheckOnly(p) /\ chk'.config = c
<1>1. chk \in Checks
  BY TypedFacts
<1>. QED
  BY <1>1 DEF CheckOnly, Checks

LEMMA CheckStays ==
    ASSUME Typed, NEW p \in CheckSteps, chk' = [chk EXCEPT !.pc = p]
    PROVE  CheckOnly(p) /\ chk'.config = chk.config
<1>1. chk \in Checks
  BY TypedFacts
<1>. QED
  BY <1>1 DEF CheckOnly, Checks

LEMMA CommandMoves ==
    ASSUME Typed, NEW p \in CommandSteps, NEW e \in Edits, cli' = [cli EXCEPT !.pc = p, !.edits = e]
    PROVE  CommandOnly(p)
<1>1. cli \in Commands
  BY TypedFacts
<1>. QED
  BY <1>1 DEF CommandOnly, Commands

LEMMA CommandStays ==
    ASSUME Typed, NEW p \in CommandSteps, cli' = [cli EXCEPT !.pc = p]
    PROVE  CommandOnly(p)
<1>1. cli \in Commands
  BY TypedFacts
<1>. QED
  BY <1>1 DEF CommandOnly, Commands

LEMMA ReadLatestDoes ==
    ASSUME Typed, Steps, ReadLatest
    PROVE  /\ job["check"].step = "latest" /\ job["check"].then \in {"names", "finish"} /\ OnlyJobOf("check")
           /\ IF cfg.there /\ cfg.enabled
              THEN /\ job'["check"].step = "read" /\ job'["check"].then = job["check"].then
                   /\ Keeps(job["check"].config, job'["check"].config)
                   /\ job'["check"].config.enabled = job["check"].config.enabled
                   /\ job'["check"].config.edits = cfg.edits
                   /\ chk' = chk
              ELSE /\ job'["check"] = NoJob /\ CheckOnly(job["check"].then)
                   /\ chk'.config = IF cfg.there THEN cfg ELSE job["check"].config
           /\ UNCHANGED <<files, world, memory, cli, observed, rounds>>
<1> DEFINE j == job["check"]
<1>1. /\ "check" \in Actors /\ ApplyTyped(j) /\ cfg \in Config /\ chk \in Checks
      /\ j.step = "latest" /\ UNCHANGED <<files, world, memory, cli, observed, rounds>>
  BY TypedFacts DEF Actors, ReadLatest
<1>2. j.then \in {"names", "finish"} /\ j.then \in CheckSteps
  BY <1>1 DEF Steps, CheckSteps
<1>3. CASE cfg.there /\ cfg.enabled
  <2> DEFINE n == [j EXCEPT !.step = "read", !.config.edits = cfg.edits]
             d == [j.config EXCEPT !.edits = cfg.edits]
  <2>1. job' = [job EXCEPT !["check"] = n] /\ chk' = chk
    BY <1>3, TypedFacts DEF ReadLatest, StillEnabled, Actors
  <2>2. /\ n.step = "read" /\ n.then = j.then /\ n.config = d
        /\ n.read = j.read /\ n.plan = j.plan /\ n.changed = j.changed
        /\ DOMAIN n = {"step", "config", "read", "plan", "changed", "then"}
    BY <1>1, ApplyFacts
  <2>3. d \in Config /\ Keeps(j.config, d) /\ d.enabled = j.config.enabled /\ d.edits = cfg.edits
    BY <1>1, ApplyFacts, ConfigFacts, EditsOfConfig
  <2>. HIDE DEF d
  <2>4. ApplyTyped(n)
    BY <1>1, <2>2, <2>3, ApplyFacts DEF ApplyTyped, ApplySteps
  <2>. HIDE DEF n
  <2>. QED
    BY <1>1, <1>2, <1>3, <2>1, <2>2, <2>3, <2>4, OneApply DEF OnlyJobOf
<1>4. CASE ~(cfg.there /\ cfg.enabled)
  <2> DEFINE c == IF cfg.there THEN cfg ELSE j.config
  <2>1. c \in Config
    BY <1>1, ApplyFacts
  <2>2. /\ job' = [job EXCEPT !["check"] = NoJob]
        /\ chk' = [chk EXCEPT !.pc = j.then, !.config = c]
    BY <1>4 DEF ReadLatest, StillEnabled
  <2>. HIDE DEF c
  <2>3. CheckOnly(j.then) /\ chk'.config = c
    BY <1>2, <2>1, <2>2, CheckMoves
  <2>. QED
    BY <1>1, <1>2, <1>4, <2>2, <2>3, OneApply, NoneTyped DEF OnlyJobOf, c
<1>. QED
  BY <1>3, <1>4

\* The apply j has become n, which holds what planKuboConfig made of the config it read.
Plans(j, n) ==
    LET plan == PlanKuboConfig(kubo, j.config.serveWss, j.config.announce, j.config.edits, j.config.enabled)
    IN  n.read = kubo /\ n.plan = plan.config /\ n.changed = (plan.config # kubo) /\ n.config.edits = plan.edits

LEMMA ReadKuboDoes ==
    ASSUME Typed, NEW a \in Actors, ReadKubo(a)
    PROVE  /\ job[a].step = "read" /\ OnlyJobOf(a)
           /\ job'[a].step = "kubo" /\ job'[a].then = job[a].then
           /\ Keeps(job[a].config, job'[a].config) /\ job'[a].config.enabled = job[a].config.enabled
           /\ IF job[a].config.enabled THEN job'[a].config.edits.kept ELSE job'[a].config.edits = NoEdits
           /\ Plans(job[a], job'[a])
           /\ lost' = (lost \/ cfg.edits # job[a].config.edits)
           /\ UNCHANGED <<files, world, memory, chk, cli, overlap, refused, fresh, rounds>>
<1> DEFINE j == job[a]
           c == j.config
           plan == PlanKuboConfig(kubo, c.serveWss, c.announce, c.edits, c.enabled)
           n == [j EXCEPT !.step = "kubo", !.read = kubo, !.plan = plan.config,
                          !.changed = plan.config # kubo, !.config.edits = plan.edits]
           d == [c EXCEPT !.edits = plan.edits]
<1>1. ApplyTyped(j) /\ KuboConfig(kubo)
  BY TypedFacts
<1>2. c \in Config
  BY <1>1, ApplyFacts
<1>3. c.serveWss \in BOOLEAN /\ c.announce \subseteq Addresses /\ c.edits \in Edits /\ c.enabled \in BOOLEAN
  BY <1>2, ConfigFacts
<1>4. /\ KuboConfig(plan.config) /\ plan.edits \in Edits
      /\ IF c.enabled THEN plan.edits.kept ELSE plan.edits = NoEdits
  BY <1>1, <1>3, Planned
<1>5. /\ j.step = "read" /\ job' = [job EXCEPT ![a] = n] /\ lost' = (lost \/ cfg.edits # c.edits)
      /\ UNCHANGED <<files, world, memory, chk, cli, overlap, refused, fresh, rounds>>
  BY TypedFacts DEF ReadKubo
<1>. HIDE DEF plan
<1>6. /\ n.step = "kubo" /\ n.then = j.then /\ n.config = d
      /\ n.read = kubo /\ n.plan = plan.config /\ n.changed = (plan.config # kubo)
      /\ DOMAIN n = {"step", "config", "read", "plan", "changed", "then"}
  BY <1>1, ApplyFacts
<1>7. d \in Config /\ Keeps(c, d) /\ d.enabled = c.enabled /\ d.edits = plan.edits
  BY <1>2, <1>4, EditsOfConfig
<1>. HIDE DEF d
<1>8. ApplyTyped(n)
  BY <1>1, <1>4, <1>6, <1>7, ApplyFacts DEF ApplyTyped, ApplySteps
<1>9. Plans(j, n)
  BY <1>6, <1>7 DEF Plans, plan
<1>. HIDE DEF n
<1>. QED
  BY <1>4, <1>5, <1>6, <1>7, <1>8, <1>9, OneApply DEF OnlyJobOf

LEMMA WriteKuboDoes ==
    ASSUME Typed, NEW a \in Actors, WriteKubo(a)
    PROVE  /\ job[a].step = "kubo" /\ OnlyJobOf(a)
           /\ job'[a].step = "save" /\ job'[a].then = job[a].then /\ job'[a].config = job[a].config
           /\ job'[a].changed = job[a].changed
           /\ kubo' = IF job[a].changed THEN job[a].plan ELSE kubo
           /\ KuboConfig(kubo')
           /\ lost' = (lost \/ kubo # job[a].read)
           /\ UNCHANGED <<process, cfg, site, status, world, memory, chk, cli, overlap, refused, fresh, rounds>>
<1> DEFINE j == job[a]
           n == [j EXCEPT !.step = "save"]
<1>1. ApplyTyped(j) /\ KuboConfig(kubo)
  BY TypedFacts
<1>2. job' = [job EXCEPT ![a] = n] /\ j.step = "kubo"
  BY TypedFacts DEF WriteKubo
<1>3. /\ n.step = "save" /\ n.then = j.then /\ n.config = j.config /\ n.changed = j.changed
      /\ n.read = j.read /\ n.plan = j.plan
      /\ DOMAIN n = {"step", "config", "read", "plan", "changed", "then"}
  BY <1>1, ApplyFacts
<1>4. ApplyTyped(n) /\ KuboConfig(j.plan)
  BY <1>1, <1>2, <1>3, ApplyFacts DEF ApplyTyped, ApplySteps
<1>. HIDE DEF n
<1>. QED
  BY <1>1, <1>2, <1>3, <1>4, OneApply DEF OnlyJobOf, WriteKubo

\* Where the caller goes on.
Goes(a, p, c) == IF a = "check" THEN CheckOnly(p) /\ chk'.config = c /\ cli' = cli
                 ELSE chk' = chk /\ IF p = "idle" THEN cli' = NoCli ELSE CommandOnly(p)

LEMMA SaveDoes ==
    ASSUME Typed, Steps, NEW a \in Actors, Save(a)
    PROVE  /\ job[a].step = "save" /\ OnlyJobOf(a)
           /\ job'[a].step = "restart" /\ job'[a].then = job[a].then /\ job'[a].config = job[a].config
           /\ job'[a].changed = job[a].changed
           /\ cfg' = job[a].config /\ cfg' \in Config
           /\ IF a = "check" THEN chk.pc = "apply" /\ CheckOnly("apply") /\ chk'.config = job[a].config ELSE chk' = chk
           /\ chk' \in Checks
           /\ \A b \in Actors : b # a /\ job[b].step \in {"kubo", "save"} => lost'
           /\ lost => lost'
           /\ fresh' = IF a = "cli" THEN fresh \cup (Again(cfg') \cap Excused) ELSE fresh \cap cfg'.announce
           /\ refused' = {f \in refused : InFamily(f, cfg'.ips \ cfg.ips) = {}}
           /\ lost' \in BOOLEAN /\ verified' \in BOOLEAN
           /\ verified' => verified /\ (job[a].changed \/ (cfg'.enabled = cfg.enabled /\ cfg'.announce \subseteq cfg.announce))
           /\ UNCHANGED <<kubo, running, site, status, world, memory, cli, overlap, rounds>>
<1> DEFINE j == job[a]
           other == CHOOSE b \in Actors : b # a
           n == [j EXCEPT !.step = "restart"]
<1>1. ApplyTyped(j) /\ chk \in Checks /\ cli \in Commands /\ j.step = "save" /\ lost \in BOOLEAN
  BY TypedFacts DEF Save
<1>2. j.config \in Config /\ j.changed \in BOOLEAN
  BY <1>1, ApplyFacts
<1>3. /\ job' = [job EXCEPT ![a] = n] /\ cfg' = j.config
      /\ chk' = IF a = "check" THEN [chk EXCEPT !.config = j.config] ELSE chk
      /\ lost' = (lost \/ job[other].step \in {"kubo", "save"})
  BY TypedFacts DEF Save
<1>4. \A b \in Actors : b # a => b = other
  <2>1. \E b \in Actors : b # a
    BY DEF Actors
  <2>2. other \in Actors /\ other # a
    BY <2>1
  <2>. QED
    BY <2>2 DEF Actors
<1>. HIDE DEF other
<1>5. /\ n.step = "restart" /\ n.then = j.then /\ n.config = j.config /\ n.changed = j.changed
      /\ n.read = j.read /\ n.plan = j.plan
      /\ DOMAIN n = {"step", "config", "read", "plan", "changed", "then"}
  BY <1>1, ApplyFacts
<1>6. ApplyTyped(n)
  BY <1>1, <1>5, ApplyFacts DEF ApplyTyped, ApplySteps
<1>. HIDE DEF n
<1>7. /\ IF a = "check" THEN chk.pc = "apply" /\ CheckOnly("apply") /\ chk'.config = j.config ELSE chk' = chk
      /\ chk' \in Checks
  <2>1. CASE a = "check"
    <3>1. chk.pc = "apply"
      BY <1>1, <2>1 DEF Steps
    <3>. QED
      BY <1>1, <1>2, <1>3, <2>1, <3>1 DEF CheckOnly, Checks
  <2>2. CASE a # "check"
    BY <1>1, <1>3, <2>2
  <2>. QED
    BY <2>1, <2>2
<1>8. verified' = (verified /\ (j.changed \/ (cfg'.enabled = cfg.enabled /\ cfg'.announce \subseteq cfg.announce)))
  BY DEF Save
<1>9. /\ fresh' = IF a = "cli" THEN fresh \cup (Again(cfg') \cap Excused) ELSE fresh \cap cfg'.announce
      /\ refused' = {f \in refused : InFamily(f, cfg'.ips \ cfg.ips) = {}}
      /\ UNCHANGED <<kubo, running, site, status, world, memory, cli, overlap, rounds>>
  BY DEF Save
<1>10. job'[a] = n /\ OnlyJobOf(a)
  BY <1>3, <1>6, OneApply DEF OnlyJobOf
<1>11. verified' \in BOOLEAN
  BY <1>8
<1>12. lost' \in BOOLEAN /\ (lost => lost') /\ \A b \in Actors : b # a /\ job[b].step \in {"kubo", "save"} => lost'
  BY <1>3, <1>4
<1>. QED
  BY <1>1, <1>2, <1>3, <1>5, <1>7, <1>8, <1>9, <1>10, <1>11, <1>12

LEMMA RestartDoes ==
    ASSUME Typed, Steps, NEW a \in Actors, NEW taken \in BOOLEAN, Restart(a, taken)
    PROVE  /\ job[a].step = "restart" /\ job'[a] = NoJob /\ OnlyJobOf(a)
           /\ Goes(a, job[a].then, chk.config) /\ chk' \in Checks /\ cli' \in Commands
           /\ IF a = "check" THEN job[a].then \in {"names", "finish"} ELSE job[a].then \in {"idle", "dial", "purge"}
           /\ running' = IF RestartDue(a) /\ taken THEN ToSet(kubo.announce.items) ELSE running
           /\ verified' = IF RestartDue(a) THEN taken ELSE verified \/ (Compares(a) /\ taken /\ cfg = job[a].config)
           /\ verified' \in BOOLEAN /\ changes' \in 0..MaxChanges
           /\ UNCHANGED <<kubo, cfg, site, status, here, answers, base, memory, observed, rounds>>
<1> DEFINE j == job[a]
<1>1. ApplyTyped(j) /\ chk \in Checks /\ cli \in Commands /\ j.step = "restart"
  BY TypedFacts DEF Restart
<1>2. j.config \in Config
  BY <1>1, ApplyFacts
<1>3. job' = [job EXCEPT ![a] = NoJob] /\ Return(a, j.then)
  BY DEF Restart
<1>4. job'[a] = NoJob /\ OnlyJobOf(a)
  BY <1>3, OneApply, NoneTyped DEF OnlyJobOf
<1>5. /\ running' = IF RestartDue(a) /\ taken THEN ToSet(kubo.announce.items) ELSE running
      /\ verified' = IF RestartDue(a) THEN taken ELSE verified \/ (Compares(a) /\ taken /\ cfg = j.config)
      /\ UNCHANGED <<kubo, cfg, site, status, here, answers, base, memory, observed, rounds>>
  BY DEF Restart
<1>6. verified' \in BOOLEAN
  BY <1>5, TypedFacts
<1>7. changes' \in 0..MaxChanges
  <2>1. changes \in 0..MaxChanges /\ MaxChanges \in Nat
    BY ConstantsOK DEF Typed, TypeOK
  <2>2. changes' = changes \/ (changes < MaxChanges /\ changes' = changes + 1)
    BY DEF Restart
  <2>. QED
    BY <2>1, <2>2
<1>8. CASE a = "check"
  <2>1. j.then \in {"names", "finish"} /\ j.then \in CheckSteps
    BY <1>1, <1>8 DEF Steps, CheckSteps
  <2>2. chk' = [chk EXCEPT !.pc = j.then] /\ cli' = cli
    BY <1>3, <1>8 DEF Return
  <2>3. CheckOnly(j.then) /\ chk'.config = chk.config
    BY <2>1, <2>2, CheckStays
  <2>. QED
    BY <1>1, <1>4, <1>5, <1>6, <1>7, <1>8, <2>1, <2>2, <2>3 DEF Goes, CheckOnly
<1>9. CASE a = "cli"
  <2>1. j.then \in {"idle", "dial", "purge"} /\ j.then \in CommandSteps
    BY <1>1, <1>9 DEF Steps, CommandSteps
  <2>2. chk' = chk /\ cli' = IF j.then = "idle" THEN NoCli ELSE [cli EXCEPT !.pc = j.then, !.edits = j.config.edits]
    BY <1>3, <1>9 DEF Return
  <2>3. Goes(a, j.then, chk.config) /\ cli' \in Commands
    <3>1. j.then # "idle" => CommandOnly(j.then)
      BY <1>2, <2>1, <2>2, CommandMoves, ConfigFacts
    <3>. QED
      BY <1>9, <2>2, <3>1, NoneTyped DEF Goes, CommandOnly
  <2>. QED
    BY <1>1, <1>4, <1>5, <1>6, <1>7, <1>9, <2>1, <2>2, <2>3
<1>. QED
  BY <1>8, <1>9 DEF Actors

-----------------------------------------------------------------------------
(* What each step of a command does *)

LEMMA Found ==
    ASSUME Typed, NEW ips \in Discovered
    PROVE  ips \subseteq Ips
BY TypedFacts DEF Discovered

LEMMA CertificatesAsked ==
    ASSUME Typed
    PROVE  CertificateNames \subseteq cli.ips \cup cli.domain /\ CertificateNames \subseteq Ips \cup Domains
BY TypedFacts, CommandFacts DEF CertificateNames

LEMMA SitesTyped ==
    ASSUME NEW ips \in SUBSET Ips, NEW domain \in SUBSET Domains
    PROVE  Caddyfile(ips, domain) \in Sites /\ Caddyfile(ips, domain).there /\ Caddyfile(ips, domain).ips = ips
BY DEF Caddyfile, Sites

\* What is known of a config a setup builds.
Built(c) == /\ c \in Config /\ c.there /\ c.enabled /\ c.ips = cli.ips \cap cli.issued
            /\ Apart(c) /\ Holding(c)

LEMMA ConfigBuilt ==
    ASSUME Typed, Steps, NEW external \in SUBSET {Proxy}, NEW serveWss \in BOOLEAN, NEW edits \in Edits
    PROVE  Built(BuildConfig(external, serveWss, edits))
<1> DEFINE ips == cli.ips \cap cli.issued
           own == {cli.protocol} \X (cli.domain \cap cli.issued)
           announce == ips \cup own \cup external
           dropped == StillDropped(announce, external)
           c == BuildConfig(external, serveWss, edits)
<1>1. /\ cli.ips \subseteq Ips /\ cli.issued \subseteq Ips \cup Domains /\ cli.domain \subseteq Domains
      /\ cli.issued \subseteq cli.ips \cup cli.domain /\ cli.previous \in Config /\ cli.protocol \in Protocols
  BY TypedFacts, CommandFacts DEF Steps
<1>2. \A a \in own : \E d \in cli.domain \cap cli.issued : a = <<cli.protocol, d>>
  OBVIOUS
<1>3. \A d \in cli.domain \cap cli.issued : <<cli.protocol, d>> \in own
  OBVIOUS
<1>. HIDE DEF own
<1>4. \A a \in own : a \in Named /\ NameOf(a) \in cli.domain /\ a # Proxy
  <2>1. \A d \in cli.domain \cap cli.issued : <<cli.protocol, d>> \in Own(Domains) /\ NameOf(<<cli.protocol, d>>) = d
    BY <1>1, NamedFacts DEF NameOf
  <2>. QED
    BY <1>2, <2>1, NamedFacts
<1>5. announce \subseteq Addresses /\ ips \subseteq Ips
  BY <1>1, <1>4, NamedFacts
<1>6. cli.previous.dropped \subseteq Named /\ StaleOwn \subseteq Named
  <2>1. Own(cli.domain) \subseteq Named
    BY <1>1, NamedFacts
  <2>. QED
    BY <1>1, <2>1, ConfigFacts DEF StaleOwn
<1>7. /\ dropped \subseteq Named /\ announce \cap dropped = {}
      /\ \A a \in dropped : NameOf(a) \in cli.domain \/ a \in external
  BY <1>6 DEF StillDropped
<1>8. \A a \in announce \cap Named : NameOf(a) \in cli.domain \/ a \in external
  BY <1>1, <1>4, NamedFacts
<1>9. IF cli.issued = {} THEN announce = external ELSE announce \ external # {}
  <2>1. CASE cli.issued = {}
    BY <1>2, <2>1
  <2>2. CASE cli.issued # {}
    <3>1. PICK x \in cli.issued : TRUE
      BY <2>2
    <3>2. x \in cli.ips => x \in ips /\ x \notin external
      BY <1>1, <3>1, NamedFacts
    <3>3. x \in cli.domain => <<cli.protocol, x>> \in own /\ <<cli.protocol, x>> \notin external
      BY <1>3, <1>4, <3>1
    <3>4. x \in cli.ips \/ x \in cli.domain
      BY <1>1, <3>1
    <3>. QED
      BY <2>2, <3>2, <3>3, <3>4
  <2>. QED
    BY <2>1, <2>2
<1>10. c = [there |-> TRUE, enabled |-> TRUE, ips |-> ips, domain |-> cli.domain, external |-> external,
            announce |-> announce, dropped |-> dropped, serveWss |-> serveWss, edits |-> edits]
  BY DEF BuildConfig, own
<1>. HIDE DEF announce, dropped, ips, c
<1>11. c \in Config
  BY <1>1, <1>5, <1>7, <1>10 DEF Config
<1>12. /\ c.there /\ c.enabled /\ c.ips = ips /\ c.domain = cli.domain /\ c.external = external
       /\ c.announce = announce /\ c.dropped = dropped
  BY <1>10
<1>13. Apart(c)
  BY <1>7, <1>8, <1>12 DEF Apart
<1>14. Holding(c)
  BY <1>9, <1>12 DEF Holding, OwnAddresses
<1>. QED
  BY <1>11, <1>12, <1>13, <1>14 DEF Built, ips, c

LEMMA StartSetupDoes ==
    ASSUME Typed, StartSetup
    PROVE  /\ cli.pc = "idle" /\ rounds' \in 0..MaxRounds /\ overlap' = (overlap \/ chk.pc # "idle")
           /\ cli' \in Commands /\ cli'.pc \in {"issue", "sites"} /\ cli'.kind = "setup" /\ cli'.previous = cfg
           /\ cli'.issued = {}
           /\ cli'.pc = "sites" /\ ~cli'.busy => ~ServedByUs(cfg)
           /\ UNCHANGED <<files, world, memory, chk, job, lost, refused, fresh>>
<1>1. /\ cli.pc = "idle" /\ rounds + 3 <= MaxRounds /\ rounds' = rounds + 3
      /\ overlap' = (overlap \/ chk.pc # "idle")
      /\ UNCHANGED <<files, world, memory, chk, job, lost, refused, fresh>>
  BY DEF StartSetup
<1>2. rounds' \in 0..MaxRounds
  BY <1>1, ConstantsOK DEF Typed, TypeOK
<1>3. PICK asked \in {{}} \cup {{d} : d \in Domains}, protocol \in Protocols, askAnnounce \in BOOLEAN,
           busy \in BOOLEAN, ips \in Discovered :
               SetupBegins(asked, protocol, askAnnounce, ips, busy)
  BY DEF StartSetup
<1> DEFINE domain == IF asked # {} THEN asked ELSE cfg.domain
           usable == domain # {} /\ domain \subseteq answers /\ ips # {}
           pc == IF busy \/ ips = {} THEN "sites" ELSE "issue"
<1>4. /\ ServedByUs(cfg) => ips # {} \/ busy
      /\ cli' = [[NoCli EXCEPT !.kind = "setup", !.previous = cfg, !.domain = domain, !.protocol = protocol,
                               !.announce = askAnnounce, !.ips = ips, !.usable = usable, !.busy = busy]
                 EXCEPT !.pc = pc]
  BY <1>3 DEF SetupBegins
<1>5. cfg \in Config /\ ips \subseteq Ips
  BY TypedFacts, Found
<1>6. domain \subseteq Domains /\ usable \in BOOLEAN /\ pc \in {"issue", "sites"}
  BY <1>5, ConfigFacts
<1>. HIDE DEF domain, usable, pc
<1>7. /\ cli' \in Commands /\ cli'.pc = pc /\ cli'.kind = "setup" /\ cli'.previous = cfg /\ cli'.issued = {}
      /\ cli'.busy = busy
  <2>1. cli' = [pc |-> pc, kind |-> "setup", previous |-> cfg, domain |-> domain, protocol |-> protocol,
                announce |-> askAnnounce, ips |-> ips, usable |-> usable, busy |-> busy, issued |-> {}, site |-> NoSite, edits |-> NoEdits]
    BY <1>4 DEF NoCli
  <2>2. cli' \in Commands
    BY <1>5, <1>6, <2>1, NoneTyped, NoEditsTyped DEF Commands, CommandSteps
  <2>. QED
    BY <2>1, <2>2
<1>8. pc = "sites" /\ ~busy => ~ServedByUs(cfg)
  BY <1>4 DEF pc
<1>. QED
  BY <1>1, <1>2, <1>6, <1>7, <1>8

LEMMA SetupIssuesDoes ==
    ASSUME Typed, SetupIssues
    PROVE  /\ cli.pc = "issue" /\ site' \in Sites /\ site'.there /\ site'.ips = cli.ips
           /\ cli' \in Commands /\ cli'.pc = "wait" /\ cli'.site = site
           /\ cli'.kind = cli.kind /\ cli'.busy = cli.busy /\ cli'.ips = cli.ips /\ cli'.issued = cli.issued
           /\ cli'.previous = cli.previous /\ cli'.domain = cli.domain
           /\ UNCHANGED <<kubo, process, cfg, status, world, memory, chk, job, observed, rounds>>
<1> DEFINE domain == IF cli.usable \/ KeepsStaleSite THEN cli.domain ELSE {}
<1>1. /\ cli.pc = "issue" /\ site' = Caddyfile(cli.ips, domain)
      /\ cli' = [cli EXCEPT !.pc = "wait", !.site = site]
      /\ UNCHANGED <<kubo, process, cfg, status, world, memory, chk, job, observed, rounds>>
  BY DEF SetupIssues
<1>2. cli \in Commands /\ site \in Sites /\ cli.ips \subseteq Ips /\ domain \in SUBSET Domains
  BY TypedFacts, CommandFacts
<1>. HIDE DEF domain
<1>3. site' \in Sites /\ site'.there /\ site'.ips = cli.ips
  BY <1>1, <1>2, SitesTyped
<1>4. /\ cli' \in Commands /\ cli'.pc = "wait" /\ cli'.site = site
      /\ cli'.kind = cli.kind /\ cli'.busy = cli.busy /\ cli'.ips = cli.ips /\ cli'.issued = cli.issued
      /\ cli'.previous = cli.previous /\ cli'.domain = cli.domain
  BY <1>1, <1>2 DEF Commands, CommandSteps
<1>. QED
  BY <1>1, <1>3, <1>4

LEMMA SetupWaitedDoes ==
    ASSUME Typed, NEW issued \in SUBSET CertificateNames, SetupWaited(issued)
    PROVE  /\ cli.pc = "wait"
           /\ cli' \in Commands /\ cli'.issued = issued /\ issued \subseteq cli.ips \cup cli.domain
           /\ cli'.domain = cli.domain
           /\ cli'.pc = IF issued = {} /\ ServedByUs(cli.previous) THEN "restore" ELSE "sites"
           /\ cli'.kind = cli.kind /\ cli'.busy = cli.busy /\ cli'.ips = cli.ips /\ cli'.site = cli.site
           /\ cli'.previous = cli.previous
           /\ UNCHANGED <<files, world, memory, chk, job, observed, rounds>>
<1> DEFINE pc == IF issued = {} /\ ServedByUs(cli.previous) THEN "restore" ELSE "sites"
<1>1. /\ cli.pc = "wait" /\ cli' = [cli EXCEPT !.issued = issued, !.pc = pc]
      /\ UNCHANGED <<files, world, memory, chk, job, observed, rounds>>
  BY DEF SetupWaited
<1>2. /\ cli \in Commands /\ issued \subseteq Ips \cup Domains /\ issued \subseteq cli.ips \cup cli.domain
      /\ pc \in {"restore", "sites"}
  BY TypedFacts, CertificatesAsked
<1>3. pc = IF issued = {} /\ ServedByUs(cli.previous) THEN "restore" ELSE "sites"
  OBVIOUS
<1>. HIDE DEF pc
<1>4. /\ cli' \in Commands /\ cli'.issued = issued /\ cli'.domain = cli.domain /\ cli'.pc = pc
      /\ cli'.kind = cli.kind /\ cli'.busy = cli.busy /\ cli'.ips = cli.ips /\ cli'.site = cli.site
      /\ cli'.previous = cli.previous
  BY <1>1, <1>2 DEF Commands, CommandSteps
<1>. QED
  BY <1>1, <1>2, <1>3, <1>4

LEMMA SetupRestoresDoes ==
    ASSUME Typed, SetupRestores
    PROVE  /\ cli.pc = "restore" /\ cli' = NoCli
           /\ site' \in Sites /\ site' = IF cli.site.there THEN cli.site ELSE site
           /\ UNCHANGED <<kubo, process, cfg, status, world, memory, chk, job, observed, rounds>>
<1>1. cli.site \in Sites /\ site \in Sites
  BY TypedFacts, CommandFacts
<1>. QED
  BY <1>1 DEF SetupRestores

LEMMA WssTyped ==
    ASSUME NEW external
    PROVE  WantsWss(external) \in BOOLEAN
BY DEF WantsWss

LEMMA SetupWritesSitesDoes ==
    ASSUME Typed, Steps, SetupWritesSites
    PROVE  /\ cli.pc = "sites" /\ site' \in Sites /\ site'.there /\ site'.ips = cli.ips \cap cli.issued
           /\ CommandOnly("apply") /\ OnlyJobOf("cli")
           /\ job'["cli"].step = "read" /\ job'["cli"].then \in {"idle", "dial"}
           /\ Built(job'["cli"].config)
           /\ UNCHANGED <<kubo, process, cfg, status, world, memory, chk, observed, rounds>>
<1> DEFINE external == cli.previous.external
           wss == WantsWss(external) \/ cli.announce
           c == BuildConfig(external, wss, cli.previous.edits)
           then == IF cli.announce THEN "dial" ELSE "idle"
           domain == IF KeepsStaleSite THEN cli.domain ELSE cli.domain \cap cli.issued
<1>1. /\ cli.pc = "sites"
      /\ site' = Caddyfile(cli.ips \cap cli.issued, domain)
      /\ cli' = [cli EXCEPT !.pc = "apply"]
      /\ Apply("cli", c, "read", then)
      /\ UNCHANGED <<kubo, process, cfg, status, world, memory, chk, observed, rounds>>
  BY DEF SetupWritesSites
<1>2. /\ cli \in Commands /\ cli.previous \in Config /\ cli.ips \subseteq Ips /\ cli.announce \in BOOLEAN
  BY TypedFacts, CommandFacts
<1>3. external \in SUBSET {Proxy} /\ cli.previous.edits \in Edits /\ wss \in BOOLEAN
  BY <1>2, ConfigFacts, WssTyped
<1>4. Built(c)
  BY <1>3, ConfigBuilt
<1>5. then \in {"idle", "dial"} /\ "cli" \in Actors /\ "apply" \in CommandSteps
  BY DEF Actors, CommandSteps
<1>. HIDE DEF c, then
<1>6. site' \in Sites /\ site'.there /\ site'.ips = cli.ips \cap cli.issued
  <2>1. cli.ips \cap cli.issued \in SUBSET Ips /\ domain \in SUBSET Domains
    BY <1>2, CommandFacts
  <2>. QED
    BY <1>1, <2>1, SitesTyped
<1>7. CommandOnly("apply")
  BY <1>1, <1>5, CommandStays
<1>8. /\ job'["cli"].step = "read" /\ job'["cli"].config = c /\ job'["cli"].then = then /\ OnlyJobOf("cli")
  BY <1>1, <1>4, <1>5, ApplyBegins DEF OnlyJobOf, Built
<1>. QED
  BY <1>1, <1>4, <1>5, <1>6, <1>7, <1>8

LEMMA SetupDialsDoes ==
    ASSUME Typed, Steps, NEW ok \in BOOLEAN, SetupDials(ok)
    PROVE  /\ cli.pc = "dial" /\ CommandOnly("apply") /\ OnlyJobOf("cli")
           /\ job'["cli"].step = "read" /\ job'["cli"].then = "idle"
           /\ Built(job'["cli"].config)
           /\ UNCHANGED <<files, world, memory, chk, observed, rounds>>
<1> DEFINE before == cli.previous.external
           external == IF ok THEN before \cup {Proxy} ELSE before
           wss == ok \/ WantsWss(before)
           c == BuildConfig(external, wss, cli.edits)
<1>1. /\ cli.pc = "dial" /\ cli' = [cli EXCEPT !.pc = "apply", !.announce = FALSE]
      /\ Apply("cli", c, "read", "idle")
      /\ UNCHANGED <<files, world, memory, chk, observed, rounds>>
  BY DEF SetupDials
<1>2. cli \in Commands /\ cli.previous \in Config /\ cli.edits \in Edits
  BY TypedFacts, CommandFacts
<1>3. external \in SUBSET {Proxy} /\ wss \in BOOLEAN
  BY <1>2, ConfigFacts, WssTyped
<1>4. Built(c)
  BY <1>2, <1>3, ConfigBuilt
<1>5. "cli" \in Actors
  BY DEF Actors
<1>. HIDE DEF c
<1>6. CommandOnly("apply")
  BY <1>1, <1>2 DEF CommandOnly, Commands, CommandSteps
<1>7. /\ job'["cli"].step = "read" /\ job'["cli"].config = c /\ job'["cli"].then = "idle" /\ OnlyJobOf("cli")
  BY <1>1, <1>4, <1>5, ApplyBegins DEF OnlyJobOf, Built
<1>. QED
  BY <1>1, <1>4, <1>6, <1>7

LEMMA SetupGivesUpDoes ==
    ASSUME SetupGivesUp
    PROVE  /\ cli.pc = "dial" /\ cli' = NoCli
           /\ UNCHANGED <<files, world, memory, chk, job, observed, rounds>>
BY DEF SetupGivesUp

LEMMA DisabledConfig ==
    ASSUME NEW c \in Config
    PROVE  LET d == [c EXCEPT !.enabled = FALSE]
           IN  d \in Config /\ d.edits = c.edits /\ ~d.enabled /\ Keeps(c, d)
BY DEF Config, Keeps

LEMMA StartDisableDoes ==
    ASSUME Typed, NEW kind \in {"disable", "purge"}, StartDisable(kind)
    PROVE  /\ cli.pc = "idle" /\ cfg.there /\ rounds' \in 0..MaxRounds /\ overlap' = (overlap \/ chk.pc # "idle")
           /\ cli' \in Commands /\ cli'.issued = {}
           /\ IF cfg.enabled
              THEN /\ cli'.pc = "apply" /\ cli'.kind = kind /\ OnlyJobOf("cli")
                   /\ job'["cli"].step = "read" /\ job'["cli"].then \in {"idle", "purge"}
                   /\ Keeps(cfg, job'["cli"].config) /\ ~job'["cli"].config.enabled
                   /\ job'["cli"].config.edits = cfg.edits
              ELSE cli'.pc \in {"idle", "purge"} /\ job' = job
           /\ UNCHANGED <<files, world, memory, chk, lost, refused, fresh>>
<1> DEFINE then == IF kind = "purge" THEN "purge" ELSE "idle"
           begun == [NoCli EXCEPT !.kind = kind, !.previous = cfg]
<1>1. /\ cli.pc = "idle" /\ rounds + 3 <= MaxRounds /\ rounds' = rounds + 3 /\ cfg.there
      /\ IF cfg.enabled
         THEN /\ cli' = [begun EXCEPT !.pc = "apply"]
              /\ Apply("cli", [cfg EXCEPT !.enabled = FALSE], "read", then)
         ELSE cli' = (IF then = "idle" THEN NoCli ELSE [begun EXCEPT !.pc = then]) /\ UNCHANGED job
      /\ overlap' = (overlap \/ chk.pc # "idle")
      /\ UNCHANGED <<files, world, memory, chk, lost, refused, fresh>>
  BY DEF StartDisable
<1>2. cfg \in Config /\ then \in {"idle", "purge"} /\ "cli" \in Actors
  BY TypedFacts DEF Actors
<1>3. rounds' \in 0..MaxRounds
  BY <1>1, ConstantsOK DEF Typed, TypeOK
<1>. HIDE DEF then
<1>4. \A p \in {"apply", "purge"} :
        LET r == [begun EXCEPT !.pc = p]
        IN  r \in Commands /\ r.pc = p /\ r.kind = kind /\ r.issued = {}
  BY <1>2, NoneTyped DEF NoCli, Commands, CommandSteps
<1>5. NoCli \in Commands /\ NoCli.pc = "idle" /\ NoCli.issued = {}
  BY NoneTyped DEF NoCli
<1>. HIDE DEF begun
<1>6. CASE cfg.enabled
  <2>1. [cfg EXCEPT !.enabled = FALSE] \in Config
    BY <1>2, DisabledConfig
  <2>2. Apply("cli", [cfg EXCEPT !.enabled = FALSE], "read", then)
    BY <1>1, <1>6
  <2>3. /\ job'["cli"].step = "read" /\ job'["cli"].then = then /\ OnlyJobOf("cli")
        /\ job'["cli"].config = [cfg EXCEPT !.enabled = FALSE]
    BY <1>2, <2>1, <2>2, ApplyBegins DEF OnlyJobOf
  <2>. QED
    BY <1>1, <1>2, <1>3, <1>4, <1>6, <2>3, DisabledConfig
<1>7. CASE ~cfg.enabled
  BY <1>1, <1>2, <1>3, <1>4, <1>5, <1>7
<1>. QED
  BY <1>6, <1>7

LEMMA PurgeDoes ==
    ASSUME Purge
    PROVE  /\ cli.pc = "purge" /\ cfg' = NoConfig /\ site' = NoSite /\ status' = [failing |-> {}, dropped |-> {}]
           /\ lost' = (lost \/ cfg.edits.kept \/ job["check"].step \in {"kubo", "save"})
           /\ cli' = NoCli /\ fresh' = {}
           /\ UNCHANGED <<kubo, process, world, memory, chk, job, overlap, refused, rounds>>
BY DEF Purge

-----------------------------------------------------------------------------
(* What each step of a check does *)

Backoffs == [Families -> [on : BOOLEAN, due : BOOLEAN, held : SUBSET Ips]]

LEMMA FamilyFacts ==
    ASSUME NEW f \in Families, NEW ips, NEW more
    PROVE  /\ InFamily(f, ips) \subseteq ips
           /\ InFamily(f, ips \cap more) = InFamily(f, ips) \cap more
           /\ InFamily(f, ips \cup more) = InFamily(f, ips) \cup InFamily(f, more)
           /\ InFamily(f, ips \ more) = InFamily(f, ips) \ more
           /\ InFamily(f, InFamily(f, ips)) = InFamily(f, ips)
BY DEF InFamily

LEMMA OtherFamily ==
    ASSUME NEW ips
    PROVE  /\ InFamily("v4", InFamily("v6", ips)) = {} /\ InFamily("v6", InFamily("v4", ips)) = {}
           /\ InFamily("v4", ips) \cup InFamily("v6", ips) = ips
BY DEF InFamily

\* planIpChange leaves a family alone of which nothing is seen; else it keeps some addresses or
\* takes one.
PlanOf(f, current, seen, planned) ==
    /\ planned \subseteq InFamily(f, current) \/ \E ip \in InFamily(f, seen) : planned = {ip}
    /\ InFamily(f, seen) = {} => planned = InFamily(f, current)

LEMMA IpsPlanned ==
    ASSUME NEW current \in SUBSET Ips, NEW seen \in SUBSET Ips, NEW next \in PlannedIps(current, seen)
    PROVE  /\ next \subseteq Ips
           /\ \A f \in Families :
                 /\ InFamily(f, next) \subseteq current \/ \E ip \in Ips : InFamily(f, next) = {ip}
                 /\ InFamily(f, seen) = {} => InFamily(f, next) = InFamily(f, current)
<1> DEFINE OfFamily(f) ==
             LET held == InFamily(f, current)
                 found == InFamily(f, seen)
             IN  IF found = {} THEN {held}
                 ELSE IF held \cap found # {} THEN {held \cap found} ELSE {{ip} : ip \in found}
<1>1. PICK v4 \in OfFamily("v4"), v6 \in OfFamily("v6") : next = v4 \cup v6
  BY DEF PlannedIps
<1>2. ASSUME NEW f, NEW planned \in OfFamily(f)
      PROVE  PlanOf(f, current, seen, planned)
  <2>1. CASE InFamily(f, seen) = {}
    BY <1>2, <2>1 DEF PlanOf
  <2>2. CASE InFamily(f, seen) # {} /\ InFamily(f, current) \cap InFamily(f, seen) # {}
    BY <1>2, <2>2 DEF PlanOf
  <2>3. CASE InFamily(f, seen) # {} /\ InFamily(f, current) \cap InFamily(f, seen) = {}
    BY <1>2, <2>3 DEF PlanOf
  <2>. QED
    BY <2>1, <2>2, <2>3
<1>. HIDE DEF OfFamily
<1>3. PlanOf("v4", current, seen, v4) /\ PlanOf("v6", current, seen, v6)
  BY <1>2
<1>4. /\ \A ip \in v4 : ip \in Ips /\ ip \notin V6
      /\ \A ip \in v6 : ip \in Ips /\ ip \in V6
  BY <1>3 DEF PlanOf, InFamily
<1>5. InFamily("v4", next) = v4 /\ InFamily("v6", next) = v6
  BY <1>1, <1>4 DEF InFamily
<1>6. /\ v4 \subseteq current \/ \E ip \in Ips : v4 = {ip}
      /\ v6 \subseteq current \/ \E ip \in Ips : v6 = {ip}
  BY <1>3 DEF PlanOf, InFamily
<1>7. /\ InFamily("v4", seen) = {} => v4 = InFamily("v4", current)
      /\ InFamily("v6", seen) = {} => v6 = InFamily("v6", current)
  BY <1>3 DEF PlanOf
<1>. QED
  BY <1>1, <1>4, <1>5, <1>6, <1>7 DEF Families

LEMMA NotWorthTrying ==
    ASSUME NEW derived, NEW f \in Families, StillBackedOff(f), ~backoff[f].due
    PROVE  InFamily(f, WorthTrying(derived)) = {}
<1>1. \A ip \in WorthTrying(derived) :
         \E g \in Families : (StillBackedOff(g) => backoff[g].due) /\ ip \in InFamily(g, derived)
  BY DEF WorthTrying
<1>2. \A g \in Families : (StillBackedOff(g) => backoff[g].due) => g # f
  OBVIOUS
<1>. QED
  BY <1>1, <1>2 DEF InFamily, Families

LEMMA TriesFound ==
    ASSUME NEW derived \in SUBSET Ips
    PROVE  WorthTrying(derived) \subseteq Ips
<1>1. \A f \in Families : InFamily(f, derived) \subseteq Ips
  BY FamilyFacts
<1>. QED
  BY <1>1 DEF WorthTrying

LEMMA NoBackoffTyped == NoBackoff \in [on : BOOLEAN, due : BOOLEAN, held : SUBSET Ips]
BY DEF NoBackoff

LEMMA BackoffKeptTyped ==
    ASSUME Typed
    PROVE  /\ BackoffKept \in Backoffs
           /\ \A f \in Families : StillBackedOff(f) => BackoffKept[f] = backoff[f]
BY TypedFacts, NoBackoffTyped DEF BackoffKept, Backoffs

LEMMA StartCheckDoes ==
    ASSUME Typed, StartCheck
    PROVE  /\ chk.pc = "idle" /\ cfg.there /\ cfg.enabled /\ rounds' \in 0..MaxRounds
           /\ overlap' = (overlap \/ cli.pc # "idle")
           /\ chk' \in Checks /\ chk'.pc \in {"change", "names"} /\ chk'.config = cfg /\ chk'.status = status
           /\ chk'.pc = "change" => \A f \in Families :
                 /\ InFamily(f, chk'.next) \subseteq cfg.ips \/ \E ip \in Ips : InFamily(f, chk'.next) = {ip}
                 /\ StillBackedOff(f) /\ ~backoff[f].due => InFamily(f, chk'.next) = InFamily(f, cfg.ips)
           /\ backoff' \in Backoffs /\ \A f \in Families : StillBackedOff(f) => backoff'[f] = backoff[f]
           /\ pending' \subseteq Ips
           /\ UNCHANGED <<files, world, daemon, cli, job, lost, refused, fresh>>
<1>1. /\ chk.pc = "idle" /\ rounds < MaxRounds /\ rounds' = rounds + 1 /\ cfg.there /\ cfg.enabled
      /\ overlap' = (overlap \/ cli.pc # "idle")
      /\ UNCHANGED <<files, world, daemon, cli, job, lost, refused, fresh>>
  BY DEF StartCheck
<1>2. rounds' \in 0..MaxRounds
  BY <1>1, ConstantsOK DEF Typed, TypeOK
<1>3. PICK derived \in Discovered, next \in SUBSET Ips : CheckBegins(derived, next)
  BY DEF StartCheck
<1> DEFINE changed == next # cfg.ips
           act == changed /\ next = pending
           begun == [NoCheck EXCEPT !.config = cfg, !.status = status]
<1>4. /\ cfg \in Config /\ status \in Statuses /\ cfg.ips \subseteq Ips /\ derived \subseteq Ips
      /\ pending \subseteq Ips /\ backoff \in Backoffs
  BY TypedFacts, Found, ConfigFacts DEF Backoffs
<1>5. /\ IF cfg.ips = {} THEN next = {} /\ UNCHANGED <<pending, backoff>>
         ELSE /\ next \in PlannedIps(cfg.ips, WorthTrying(derived))
              /\ backoff' = BackoffKept
              /\ pending' = IF changed /\ ~act THEN next ELSE {}
      /\ chk' = IF act /\ cfg.ips # {} THEN [begun EXCEPT !.pc = "change", !.next = next]
                                      ELSE [begun EXCEPT !.pc = "names"]
  BY <1>3 DEF CheckBegins
<1>6. /\ backoff' \in Backoffs /\ \A f \in Families : StillBackedOff(f) => backoff'[f] = backoff[f]
      /\ pending' \subseteq Ips
  BY <1>4, <1>5, BackoffKeptTyped
<1>7. LET r == [begun EXCEPT !.pc = "change", !.next = next]
      IN  r \in Checks /\ r.pc = "change" /\ r.config = cfg /\ r.status = status /\ r.next = next
  BY <1>4, NoneTyped DEF NoCheck, Checks, CheckSteps
<1>8. LET r == [begun EXCEPT !.pc = "names"]
      IN  r \in Checks /\ r.pc = "names" /\ r.config = cfg /\ r.status = status
  BY <1>4, NoneTyped DEF NoCheck, Checks, CheckSteps
<1>. HIDE DEF begun, act
<1>9. chk'.pc = "change" => chk'.next = next /\ next \in PlannedIps(cfg.ips, WorthTrying(derived))
  BY <1>5, <1>7, <1>8
<1>10. ASSUME chk'.pc = "change", NEW f \in Families
       PROVE  /\ InFamily(f, chk'.next) \subseteq cfg.ips \/ \E ip \in Ips : InFamily(f, chk'.next) = {ip}
              /\ StillBackedOff(f) /\ ~backoff[f].due => InFamily(f, chk'.next) = InFamily(f, cfg.ips)
  BY <1>4, <1>9, <1>10, TriesFound, IpsPlanned, NotWorthTrying
<1>11. chk' \in Checks /\ chk'.pc \in {"change", "names"} /\ chk'.config = cfg /\ chk'.status = status
  BY <1>5, <1>7, <1>8
<1>. QED
  BY <1>1, <1>2, <1>6, <1>10, <1>11

LEMMA WriteCandidateDoes ==
    ASSUME Typed, WriteCandidate
    PROVE  /\ chk.pc = "change" /\ site' \in Sites /\ site'.there /\ site'.ips = chk.next
           /\ chk' \in Checks /\ chk'.pc = "wait" /\ chk'.previous = site
           /\ chk'.config = chk.config /\ chk'.next = chk.next /\ chk'.status = chk.status
           /\ UNCHANGED <<kubo, process, cfg, status, world, memory, cli, job, observed, rounds>>
<1>1. /\ chk.pc = "change" /\ site' = Caddyfile(chk.next, chk.config.domain \cap site.domain)
      /\ chk' = [chk EXCEPT !.pc = "wait", !.previous = site]
      /\ UNCHANGED <<kubo, process, cfg, status, world, memory, cli, job, observed, rounds>>
  BY DEF WriteCandidate
<1>2. /\ chk \in Checks /\ site \in Sites /\ chk.next \subseteq Ips
      /\ chk.config.domain \cap site.domain \in SUBSET Domains
  BY TypedFacts, CheckFacts, ConfigFacts
<1>3. site' \in Sites /\ site'.there /\ site'.ips = chk.next
  BY <1>1, <1>2, SitesTyped
<1>4. /\ chk' \in Checks /\ chk'.pc = "wait" /\ chk'.previous = site
      /\ chk'.config = chk.config /\ chk'.next = chk.next /\ chk'.status = chk.status
  BY <1>1, <1>2 DEF Checks, CheckSteps
<1>. QED
  BY <1>1, <1>3, <1>4

LEMMA PutBackDoes ==
    ASSUME Typed, PutBack
    PROVE  site' \in Sites /\ site' = IF chk.previous.there THEN chk.previous ELSE site
<1>1. chk.previous \in Sites /\ site \in Sites
  BY TypedFacts, CheckFacts
<1>. QED
  BY <1>1 DEF PutBack

LEMMA StoppedWaitingDoes ==
    ASSUME Typed, StoppedWaiting
    PROVE  /\ chk.pc = "wait" /\ CheckOnly("names") /\ chk'.config = chk.config
           /\ site' \in Sites /\ site' = IF chk.previous.there THEN chk.previous ELSE site
           /\ UNCHANGED <<kubo, process, cfg, status, world, memory, cli, job, observed, rounds>>
<1>1. "names" \in CheckSteps
  BY DEF CheckSteps
<1>. QED
  BY <1>1, PutBackDoes, CheckStays DEF StoppedWaiting

LEMMA BackOffTyped ==
    ASSUME Typed, NEW failed
    PROVE  /\ BackOff(failed) \in Backoffs
           /\ \A f \in Families :
                 BackOff(failed)[f] = IF InFamily(f, failed) = {} THEN backoff[f]
                                      ELSE [on |-> TRUE, due |-> FALSE, held |-> InFamily(f, chk.config.ips)]
<1>1. chk.config.ips \subseteq Ips
  BY TypedFacts, CheckFacts, ConfigFacts
<1>2. \A f \in Families :
         [on |-> TRUE, due |-> FALSE, held |-> InFamily(f, chk.config.ips)]
             \in [on : BOOLEAN, due : BOOLEAN, held : SUBSET Ips]
  BY <1>1, FamilyFacts
<1>. QED
  BY <1>2, TypedFacts DEF BackOff, Backoffs

LEMMA MovedIps ==
    ASSUME Typed, NEW c \in Config, NEW issued \in SUBSET Ips, Apart(c)
    PROVE  LET d == [c EXCEPT !.ips = issued, !.announce = (@ \ c.ips) \cup issued]
           IN  /\ d \in Config /\ d.ips = issued /\ d.there = c.there /\ d.enabled = c.enabled
               /\ Apart(d) /\ NamesOf(d) = NamesOf(c)
<1> DEFINE d == [c EXCEPT !.ips = issued, !.announce = (@ \ c.ips) \cup issued]
<1>1. /\ d \in Config /\ d.ips = issued /\ d.there = c.there /\ d.enabled = c.enabled
      /\ d.announce = (c.announce \ c.ips) \cup issued /\ d.dropped = c.dropped
      /\ d.domain = c.domain /\ d.external = c.external
  BY DEF Config, Addresses
<1>2. c.ips \subseteq Ips /\ c.dropped \subseteq Named /\ Ips \cap Named = {}
  BY ConfigFacts, NamedFacts
<1>. HIDE DEF d
<1>3. Apart(d) /\ NamesOf(d) = NamesOf(c)
  BY <1>1, <1>2 DEF Apart, NamesOf
<1>. QED
  BY <1>1, <1>3 DEF d

\* A wait ends: with nothing new the check goes on, else it saves the addresses that were issued.
Settles(issued) ==
    /\ chk.pc = "wait" /\ issued \subseteq chk.next
    /\ backoff' = BackOff(chk.next \ issued)
    /\ refused' = refused \cup {f \in Families : /\ InFamily(f, chk.next \ issued) # {}
                                                 /\ InFamily(f, cfg.ips \ chk.config.ips) = {}}
    /\ site' \in Sites
    /\ IF issued = {} THEN site' = IF chk.previous.there THEN chk.previous ELSE site
       ELSE /\ site.there => site'.there
            /\ (site' = site /\ issued = chk.next) \/ site'.ips = issued
    /\ chk'.config = chk.config
    /\ IF issued = {} \/ issued = chk.config.ips
       THEN CheckOnly("names") /\ job' = job
       ELSE /\ CheckOnly("apply") /\ OnlyJobOf("check")
            /\ job'["check"].step = "latest" /\ job'["check"].then = "names"
            /\ LET d == job'["check"].config
               IN  /\ d.ips = issued /\ d.there = chk.config.there /\ d.enabled = chk.config.enabled
                   /\ Apart(d) /\ NamesOf(d) = NamesOf(chk.config)
    /\ UNCHANGED <<kubo, process, cfg, status, world, daemon, pending, cli, lost, overlap, fresh, rounds>>

LEMMA WaitEndsDoes ==
    ASSUME Typed, Apart(chk.config), WaitEnds
    PROVE  \E issued \in SUBSET Ips : Settles(issued)
<1>1. PICK issued \in SUBSET chk.next : SettleCandidate(issued)
  BY DEF WaitEnds
<1> DEFINE failed == chk.next \ issued
           d == [chk.config EXCEPT !.ips = issued, !.announce = (@ \ chk.config.ips) \cup issued]
<1>2. /\ chk.pc = "wait"
      /\ UNCHANGED <<kubo, process, cfg, status, world, daemon, pending, cli, lost, overlap, fresh, rounds>>
  BY DEF WaitEnds
<1>3. /\ backoff' = BackOff(failed)
      /\ refused' = refused \cup {f \in Families : /\ InFamily(f, failed) # {}
                                                   /\ InFamily(f, cfg.ips \ chk.config.ips) = {}}
      /\ IF issued = {} THEN PutBack
         ELSE site' = IF failed = {} THEN site ELSE Caddyfile(issued, chk.config.domain \cap chk.previous.domain)
      /\ IF issued \in {{}, chk.config.ips}
         THEN chk' = [chk EXCEPT !.pc = "names"] /\ UNCHANGED job
         ELSE chk' = [chk EXCEPT !.pc = "apply"] /\ Apply("check", d, "latest", "names")
  BY <1>1 DEF SettleCandidate
<1>4. chk \in Checks /\ chk.config \in Config /\ issued \subseteq Ips /\ site \in Sites /\ issued \in SUBSET Ips
  BY TypedFacts, CheckFacts
<1>5. /\ d \in Config /\ d.ips = issued /\ d.there = chk.config.there /\ d.enabled = chk.config.enabled
      /\ Apart(d) /\ NamesOf(d) = NamesOf(chk.config)
  BY <1>4, MovedIps
<1>. HIDE DEF d
<1>6. /\ site' \in Sites
      /\ IF issued = {} THEN site' = IF chk.previous.there THEN chk.previous ELSE site
         ELSE /\ site.there => site'.there
              /\ (site' = site /\ issued = chk.next) \/ site'.ips = issued
  <2>1. CASE issued = {}
    BY <1>3, <2>1, PutBackDoes
  <2>2. CASE issued # {} /\ failed = {}
    <3>1. site' = site /\ issued = chk.next
      BY <1>3, <2>2
    <3>. QED
      BY <1>4, <2>2, <3>1
  <2>3. CASE issued # {} /\ failed # {}
    <3>1. chk.config.domain \cap chk.previous.domain \in SUBSET Domains
      BY <1>4, ConfigFacts
    <3>. QED
      BY <1>3, <1>4, <2>3, <3>1, SitesTyped
  <2>. QED
    BY <2>1, <2>2, <2>3
<1>7. "names" \in CheckSteps /\ "apply" \in CheckSteps /\ "check" \in Actors
  BY DEF CheckSteps, Actors
<1>8. CASE issued = {} \/ issued = chk.config.ips
  <2>1. CheckOnly("names") /\ chk'.config = chk.config /\ job' = job
    BY <1>3, <1>7, <1>8, CheckStays
  <2>. QED
    BY <1>2, <1>3, <1>4, <1>6, <1>8, <2>1 DEF Settles
<1>9. CASE ~(issued = {} \/ issued = chk.config.ips)
  <2>1. chk' = [chk EXCEPT !.pc = "apply"] /\ Apply("check", d, "latest", "names")
    BY <1>3, <1>9
  <2>2. CheckOnly("apply") /\ chk'.config = chk.config
    BY <1>7, <2>1, CheckStays
  <2>3. /\ job'["check"].step = "latest" /\ job'["check"].config = d /\ job'["check"].then = "names"
        /\ OnlyJobOf("check")
    BY <1>5, <1>7, <2>1, ApplyBegins DEF OnlyJobOf
  <2>. QED
    BY <1>2, <1>3, <1>4, <1>5, <1>6, <1>9, <2>2, <2>3 DEF Settles
<1>. QED
  BY <1>8, <1>9

LEMMA NamesMoved ==
    ASSUME Typed, NEW c \in Config, Apart(c), NEW drop \in SUBSET (NamesOf(c) \ c.dropped),
           NEW restore \in SUBSET c.dropped
    PROVE  LET d == Moved(c, drop, restore)
           IN  /\ d \in Config /\ d.ips = c.ips /\ d.there = c.there /\ d.enabled = c.enabled
               /\ d.dropped = (c.dropped \ restore) \cup drop
               /\ Apart(d) /\ NamesOf(d) = NamesOf(c)
<1> DEFINE d == Moved(c, drop, restore)
<1>1. c.dropped \subseteq Named /\ c.announce \subseteq Addresses /\ drop \subseteq Named /\ restore \subseteq Named
  BY ConfigFacts DEF NamesOf
<1>2. /\ d \in Config /\ d.ips = c.ips /\ d.there = c.there /\ d.enabled = c.enabled
      /\ d.announce = (c.announce \ drop) \cup restore /\ d.dropped = (c.dropped \ restore) \cup drop
      /\ d.domain = c.domain /\ d.external = c.external
  BY <1>1 DEF Config, Moved, Addresses
<1>. HIDE DEF d
<1>3. Apart(d) /\ NamesOf(d) = NamesOf(c)
  BY <1>1, <1>2 DEF Apart, NamesOf
<1>. QED
  BY <1>2, <1>3 DEF d

LEMMA CheckNamesDoes ==
    ASSUME Typed, Apart(chk.config), NEW day \in SUBSET chk.status.failing, CheckNames(day)
    PROVE  /\ chk.pc = "names" /\ chk' \in Checks
           /\ \/ /\ chk'.pc = "finish" /\ chk'.config = NoConfig /\ job' = job
              \/ /\ chk'.pc = "apply" /\ chk'.config = chk.config /\ OnlyJobOf("check")
                 /\ job'["check"].step = "latest" /\ job'["check"].then = "finish"
                 /\ LET c == chk.config
                        d == job'["check"].config
                    IN  /\ d.ips = c.ips /\ d.there = c.there /\ d.enabled = c.enabled
                        /\ d.dropped \ c.dropped \subseteq KnownFailing(c)
                        /\ Apart(d) /\ NamesOf(d) = NamesOf(c)
           /\ UNCHANGED <<files, world, memory, cli, observed, rounds>>
<1> DEFINE c == chk.config
           names == (c.announce \cup c.dropped) \cap Named
           failing == {a \in names : NameOf(a) \notin answers}
           drop == {a \in (failing \cap KnownFailing(c)) \ c.dropped : NameOf(a) \in day}
           restore == (names \ failing) \cap c.dropped
           d == Moved(c, drop, restore)
           seen == [failing |-> {NameOf(a) : a \in failing}, dropped |-> {NameOf(a) : a \in d.dropped}]
<1>1. /\ chk.pc = "names"
      /\ IF drop \cup restore = {}
         THEN chk' = [NoCheck EXCEPT !.pc = "finish", !.status = seen] /\ UNCHANGED job
         ELSE chk' = [chk EXCEPT !.pc = "apply", !.status = seen] /\ Apply("check", d, "latest", "finish")
      /\ UNCHANGED <<files, world, memory, cli, observed, rounds>>
  BY DEF CheckNames
<1>2. chk \in Checks /\ c \in Config
  BY TypedFacts, CheckFacts
<1>3. failing \subseteq Named /\ drop \in SUBSET (NamesOf(c) \ c.dropped) /\ restore \in SUBSET c.dropped
  BY DEF NamesOf
<1>4. drop \subseteq KnownFailing(c)
  OBVIOUS
<1>. HIDE DEF failing, drop, restore
<1>5. /\ d \in Config /\ d.ips = c.ips /\ d.there = c.there /\ d.enabled = c.enabled
      /\ d.dropped = (c.dropped \ restore) \cup drop
      /\ Apart(d) /\ NamesOf(d) = NamesOf(c)
  BY <1>2, <1>3, NamesMoved
<1>. HIDE DEF d
<1>6. seen \in Statuses
  BY <1>3, <1>5, ConfigFacts, NamedFacts DEF Statuses
<1>7. "check" \in Actors
  BY DEF Actors
<1>. HIDE DEF seen
<1>8. CASE drop \cup restore = {}
  <2>1. chk' \in Checks /\ chk'.pc = "finish" /\ chk'.config = NoConfig
    BY <1>1, <1>6, <1>8, NoneTyped DEF NoCheck, Checks, CheckSteps
  <2>. QED
    BY <1>1, <1>8, <2>1
<1>9. CASE drop \cup restore # {}
  <2>1. chk' \in Checks /\ chk'.pc = "apply" /\ chk'.config = c
    BY <1>1, <1>2, <1>6, <1>9 DEF Checks, CheckSteps
  <2>2. /\ job'["check"].step = "latest" /\ job'["check"].config = d /\ job'["check"].then = "finish"
        /\ OnlyJobOf("check")
    BY <1>1, <1>5, <1>7, <1>9, ApplyBegins DEF OnlyJobOf
  <2>3. d.dropped \ c.dropped \subseteq KnownFailing(c)
    BY <1>4, <1>5
  <2>. QED
    BY <1>1, <1>5, <2>1, <2>2, <2>3
<1>. QED
  BY <1>8, <1>9

LEMMA FinishCheckDoes ==
    ASSUME Typed, FinishCheck
    PROVE  /\ chk.pc = "finish" /\ status' = chk.status /\ status' \in Statuses /\ chk' = NoCheck
           /\ fresh' = {a \in fresh : NameOf(a) \notin chk.status.failing \cup answers}
           /\ UNCHANGED <<kubo, process, cfg, site, world, memory, cli, job, lost, overlap, refused, rounds>>
BY TypedFacts, CheckFacts DEF FinishCheck

\* What is left of an actor that does not get to the end of its apply.
CutOff(a) == /\ job'[a] = NoJob /\ OnlyJobOf(a)
             /\ lost' \in BOOLEAN /\ (lost => lost') /\ (job[a].step = "save" => lost')
             /\ verified' \in BOOLEAN /\ (verified' => verified /\ job[a].step # "restart")

LEMMA CutShortDoes ==
    ASSUME Typed, NEW a \in Actors, CutShort(a)
    PROVE  CutOff(a)
<1>1. job'[a] = NoJob /\ OnlyJobOf(a)
  BY OneApply, NoneTyped DEF OnlyJobOf, CutShort
<1>2. lost \in BOOLEAN /\ verified \in BOOLEAN
  BY TypedFacts
<1>3. lost' = (lost \/ job[a].step = "save") /\ verified' = (verified /\ job[a].step # "restart")
  BY DEF CutShort
<1>. QED
  BY <1>1, <1>2, <1>3 DEF CutOff

LEMMA CheckFailsDoes ==
    ASSUME Typed, CheckFails
    PROVE  /\ overlap' = TRUE /\ changes' \in 0..MaxChanges
           /\ chk' = NoCheck /\ CutOff("check")
           /\ UNCHANGED <<kubo, running, cfg, site, status, here, answers, base, memory, cli, refused, fresh, rounds>>
<1>1. "check" \in Actors
  BY DEF Actors
<1>2. changes' \in 0..MaxChanges
  BY ConstantsOK DEF Typed, TypeOK, CheckFails
<1>3. CutOff("check")
  BY <1>1, CutShortDoes DEF CheckFails
<1>. QED
  BY <1>2, <1>3 DEF CheckFails

LEMMA KillDoes ==
    ASSUME Typed, Kill
    PROVE  /\ overlap' = TRUE /\ changes' \in 0..MaxChanges
           /\ \/ chk' = NoCheck /\ CutOff("check") /\ cli' = cli /\ daemon' = "down"
              \/ cli' = NoCli /\ CutOff("cli") /\ chk' = chk /\ daemon' = daemon
           /\ UNCHANGED <<kubo, running, cfg, site, status, here, answers, base, pending, backoff, refused, fresh, rounds>>
<1>1. "check" \in Actors /\ "cli" \in Actors
  BY DEF Actors
<1>2. /\ overlap' = TRUE /\ changes < MaxChanges /\ changes' = changes + 1
      /\ \/ daemon' = "down" /\ chk' = NoCheck /\ CutShort("check") /\ UNCHANGED cli
         \/ cli' = NoCli /\ CutShort("cli") /\ UNCHANGED <<daemon, chk>>
      /\ UNCHANGED <<kubo, running, cfg, site, status, here, answers, base, pending, backoff, refused, fresh, rounds>>
  BY DEF Kill
<1>3. changes' \in 0..MaxChanges
  BY <1>2, ConstantsOK DEF Typed, TypeOK
<1>. QED
  BY <1>1, <1>2, <1>3, CutShortDoes

LEMMA MovesDoes ==
    ASSUME Typed, Moves
    PROVE  /\ here' \subseteq Ips /\ answers' \subseteq Names /\ changes' \in 0..MaxChanges
           /\ backoff' \in Backoffs
           /\ \/ UNCHANGED <<backoff, refused>>
              \/ \E f \in Families : /\ refused' = refused \ {f}
                                     /\ \A g \in Families \ {f} : backoff'[g] = backoff[g]
<1>1. here \subseteq Ips /\ answers \subseteq Names /\ backoff \in Backoffs /\ changes \in 0..MaxChanges
  BY DEF Typed, TypeOK, Backoffs
<1>2. CASE /\ changes < MaxChanges /\ changes' = changes + 1
           /\ \/ here' \in Hosts \ {here} /\ UNCHANGED answers
              \/ UNCHANGED here /\ \E n \in cfg.domain \cup {NameOf(a) : a \in cfg.external} :
                                      answers' = IF n \in answers THEN answers \ {n} ELSE answers \cup {n}
           /\ UNCHANGED <<backoff, refused>>
  <2>1. cfg.domain \cup {NameOf(a) : a \in cfg.external} \subseteq Names
    <3>1. cfg.domain \subseteq Domains /\ cfg.external \subseteq {Proxy}
      BY TypedFacts, ConfigFacts
    <3>2. NameOf(Proxy) \in Names /\ Domains \subseteq Names
      BY NamedFacts DEF Names
    <3>. QED
      BY <3>1, <3>2
  <2>2. answers' \subseteq Names
    BY <1>1, <1>2, <2>1
  <2>3. here' \subseteq Ips /\ changes' \in 0..MaxChanges
    BY <1>1, <1>2, ConstantsOK
  <2>. QED
    BY <1>1, <1>2, <2>2, <2>3
<1>3. CASE \E f \in Families : /\ backoff' = [backoff EXCEPT ![f].due = TRUE]
                               /\ refused' = refused \ {f} /\ UNCHANGED <<here, answers, changes>>
  <2>1. PICK f \in Families : /\ backoff' = [backoff EXCEPT ![f].due = TRUE]
                              /\ refused' = refused \ {f} /\ UNCHANGED <<here, answers, changes>>
    BY <1>3
  <2>2. backoff[f] \in [on : BOOLEAN, due : BOOLEAN, held : SUBSET Ips]
    BY <1>1 DEF Backoffs
  <2>3. [backoff[f] EXCEPT !.due = TRUE] \in [on : BOOLEAN, due : BOOLEAN, held : SUBSET Ips]
    BY <2>2
  <2>4. backoff' \in Backoffs /\ \A g \in Families \ {f} : backoff'[g] = backoff[g]
    BY <1>1, <2>1, <2>3 DEF Backoffs
  <2>. QED
    BY <1>1, <2>1, <2>4
<1>. QED
  BY <1>2, <1>3 DEF Moves

LEMMA OperatorEditsDoes ==
    ASSUME Typed, OperatorEdits
    PROVE  KuboConfig(kubo') /\ changes' \in 0..MaxChanges /\ chk.pc = "idle" /\ cli.pc = "idle"
<1>1. KuboConfig(kubo) /\ changes \in 0..MaxChanges
  BY DEF Typed, TypeOK
<1>2. changes' \in 0..MaxChanges /\ chk.pc = "idle" /\ cli.pc = "idle"
  BY <1>1, ConstantsOK DEF OperatorEdits
<1>3. KuboConfig(kubo')
  <2>1. CASE kubo' = [kubo EXCEPT !.tls = "true"]
    BY <1>1, <2>1 DEF KuboConfig, TlsValues
  <2>2. ASSUME NEW e, kubo' = [kubo EXCEPT !.announce = Field("present", Append(@.items, e))]
        PROVE  KuboConfig(kubo')
    BY <1>1, <2>2 DEF KuboConfig, Field, Shapes
  <2>. QED
    BY <2>1, <2>2 DEF OperatorEdits
<1>. QED
  BY <1>2, <1>3

-----------------------------------------------------------------------------
(* Types *)

LEMMA Initially == Init => IInv
<1> SUFFICES ASSUME Init
             PROVE  IInv
  OBVIOUS
<1>1. /\ base \in Bases /\ here \in Hosts /\ verified = TRUE /\ daemon = "up"
      /\ answers \in {Names, Names \ cfg.domain}
      /\ backoff = [f \in Families |-> NoBackoff]
      /\ pending \in {{}} \cup (IF cfg.enabled THEN PlannedIps(cfg.ips, here) \ {cfg.ips} ELSE {})
      /\ chk = NoCheck /\ cli = NoCli /\ job = [a \in Actors |-> NoJob]
      /\ lost = FALSE /\ overlap = FALSE /\ refused = {} /\ fresh = {} /\ rounds = 0 /\ changes = 0
  BY DEF Init
<1>2. WellFormed(base) /\ KuboConfig(base) /\ here \subseteq Ips
  BY <1>1, ConstantsOK DEF WellFormed
<1>3. /\ KuboConfig(kubo) /\ cfg \in Config /\ site \in Sites /\ status \in Statuses
      /\ (cfg.enabled => cfg.there) /\ Apart(cfg)
      /\ IF cfg.enabled THEN cfg.edits.kept ELSE cfg.edits = NoEdits
      /\ cfg.there => site.there /\ site.ips = cfg.ips
  <2>1. CASE kubo = base /\ cfg = NoConfig /\ site = NoSite /\ status = [failing |-> {}, dropped |-> {}]
    BY <1>2, <2>1, NoneTyped, NoneFields DEF Statuses, Apart
  <2>2. ASSUME NEW ips \in Hosts, NEW domain \in SUBSET Domains, NEW dropped \in BOOLEAN, NEW enabled \in BOOLEAN,
               Configured(ips, domain, dropped, enabled)
        PROVE  /\ KuboConfig(kubo) /\ cfg \in Config /\ site \in Sites /\ status \in Statuses
               /\ (cfg.enabled => cfg.there) /\ Apart(cfg)
               /\ IF cfg.enabled THEN cfg.edits.kept ELSE cfg.edits = NoEdits
               /\ cfg.there => site.there /\ site.ips = cfg.ips
    <3> DEFINE names == {"dns4"} \X domain
               announce == ips \cup (IF dropped THEN {} ELSE names)
               plan == PlanKuboConfig(base, announce # {}, announce, NoEdits, enabled)
               gone == IF dropped THEN names ELSE {}
    <3>1. /\ ips \subseteq Ips /\ announce \in SUBSET Addresses /\ (announce # {}) \in BOOLEAN /\ gone \subseteq Named
          /\ announce \cap gone = {}
          /\ \A a \in (announce \cup gone) \cap Named : NameOf(a) \in domain
      <4>1. \A a \in names : a \in Named /\ NameOf(a) \in domain
        <5>1. \A a \in names : a \in Own(domain)
          BY DEF Own, Protocols
        <5>. QED
          BY <5>1, NamedFacts
      <4>2. ips \subseteq Ips
        BY ConstantsOK
      <4>. HIDE DEF names
      <4>. QED
        BY <4>1, <4>2, NamedFacts
    <3>. HIDE DEF announce, gone
    <3>2. KuboConfig(plan.config) /\ plan.edits \in Edits
      BY <1>2, <3>1, Planned, NoEditsTyped
    <3>3. enabled => plan.edits.kept
      BY <1>2, <3>1, Planned, NoEditsTyped
    <3>4. ~enabled => plan.edits = NoEdits
      BY DEF PlanKuboConfig
    <3>5. /\ kubo = plan.config /\ site = Caddyfile(ips, domain)
          /\ cfg = [there |-> TRUE, enabled |-> enabled, ips |-> ips, domain |-> domain, external |-> {},
                    announce |-> announce, dropped |-> gone, serveWss |-> announce # {}, edits |-> plan.edits]
          /\ status \in {[failing |-> domain, dropped |-> domain], [failing |-> {}, dropped |-> {}]}
      BY <2>2 DEF Configured, announce, gone
    <3>. HIDE DEF plan
    <3>6. cfg \in Config
      BY <3>1, <3>2, <3>5 DEF Config
    <3>7. status \in Statuses
      BY <3>5 DEF Statuses, Names
    <3>8. Apart(cfg)
      <4>1. cfg.announce = announce /\ cfg.dropped = gone /\ cfg.domain = domain
        BY <3>5
      <4>. QED
        BY <3>1, <4>1 DEF Apart
    <3>. QED
      BY <3>1, <3>2, <3>3, <3>4, <3>5, <3>6, <3>7, <3>8, SitesTyped
  <2>3. \A d \in Domains : {d} \in SUBSET Domains
    OBVIOUS
  <2>4. CASE \E ips \in Hosts, enabled \in BOOLEAN : Configured(ips, {}, FALSE, enabled)
    BY <2>2, <2>4
  <2>5. CASE \E dropped \in BOOLEAN, d \in Domains : Configured(here, {d}, dropped, TRUE)
    BY <1>1, <2>2, <2>3, <2>5
  <2>. QED
    BY <2>1, <2>4, <2>5 DEF Init
<1>4. pending \subseteq Ips
  BY <1>1, <1>2, <1>3, IpsPlanned, ConfigFacts
<1>5. backoff \in Backoffs /\ answers \subseteq Names
  BY <1>1, NoBackoffTyped DEF Backoffs, Names
<1>6. DOMAIN job = Actors /\ \A a \in Actors : ApplyTyped(job[a]) /\ job[a].step = "none"
  BY <1>1, NoneTyped DEF NoJob
<1>7. chk \in Checks /\ chk.pc = "idle" /\ cli \in Commands /\ cli.pc = "idle"
  BY <1>1, NoneTyped DEF NoCheck, NoCli
<1>8. rounds \in 0..MaxRounds /\ changes \in 0..MaxChanges
  BY <1>1, ConstantsOK
<1>9. TypeOK
  BY <1>1, <1>2, <1>3, <1>4, <1>5, <1>6, <1>7, <1>8 DEF TypeOK, Sites, Statuses, Backoffs
<1>10. Typed
  BY <1>6, <1>7, <1>9 DEF Typed
<1>11. Actors = {"cli", "check"} /\ \A a \in Actors : job[a] = NoJob
  BY <1>1 DEF Actors
<1>. USE NoneFields
<1>12. Steps
  BY <1>1, <1>11 DEF Steps
<1>13. Recorded
  BY <1>1, <1>3, <1>11 DEF Recorded
<1>14. Disjoint
  BY <1>1, <1>3, <1>11 DEF Disjoint, Apart
<1>15. Alone /\ Waits /\ Excuses
  BY <1>1 DEF Alone, Waits, Excuses
<1>16. SitesStored
  BY <1>1, <1>3 DEF SitesStored
<1>. QED
  BY <1>10, <1>12, <1>13, <1>14, <1>15, <1>16 DEF IInv

-----------------------------------------------------------------------------
(* Every step keeps every part of the invariant *)

TypedFiles == /\ KuboConfig(kubo) /\ verified \in BOOLEAN /\ cfg \in Config /\ site \in Sites
              /\ status \in Statuses
TypedWorld == here \subseteq Ips /\ answers \subseteq Names /\ changes \in 0..MaxChanges
TypedMemory == daemon \in {"up", "stopping", "down"} /\ pending \subseteq Ips /\ backoff \in Backoffs
TypedActors == chk \in Checks /\ cli \in Commands /\ DOMAIN job = Actors /\ \A a \in Actors : ApplyTyped(job[a])
TypedObserved == lost \in BOOLEAN /\ overlap \in BOOLEAN /\ refused \subseteq Families /\ fresh \subseteq Named

LEMMA TypedParts ==
    ASSUME Typed
    PROVE  TypedFiles /\ TypedWorld /\ TypedMemory /\ TypedActors /\ TypedObserved /\ rounds \in 0..MaxRounds
BY DEF Typed, TypeOK, TypedFiles, TypedWorld, TypedMemory, TypedActors, TypedObserved, Sites, Statuses, Backoffs

LEMMA PartsTyped ==
    ASSUME TypedFiles', TypedWorld', TypedMemory', TypedActors', TypedObserved', rounds' \in 0..MaxRounds
    PROVE  Typed'
<1>1. chk'.pc \in CheckSteps /\ cli'.pc \in CommandSteps /\ \A a \in Actors : job'[a].step \in ApplySteps
  BY CheckFacts, CommandFacts, ApplyFacts DEF TypedActors
<1>. QED
  BY <1>1 DEF Typed, TypeOK, TypedFiles, TypedWorld, TypedMemory, TypedActors, TypedObserved, Sites,
              Statuses, Backoffs, CheckSteps, CommandSteps, ApplySteps

LEMMA PartsStay ==
    ASSUME Typed
    PROVE  /\ UNCHANGED files => TypedFiles'
           /\ UNCHANGED world => TypedWorld'
           /\ UNCHANGED memory => TypedMemory'
           /\ UNCHANGED observed => TypedObserved'
           /\ UNCHANGED <<chk, cli, job>> => TypedActors'
           /\ UNCHANGED rounds => rounds' \in 0..MaxRounds
BY TypedParts DEF files, process, world, memory, observed, TypedFiles, TypedWorld, TypedMemory, TypedActors, TypedObserved

LEMMA TypedKept ==
    ASSUME Typed, Steps, Apart(chk.config), [Next]_vars
    PROVE  Typed'
<1>. USE PartsTyped, PartsStay DEF process
<1>1. CASE UNCHANGED vars
  BY <1>1 DEF vars
<1>2. CASE ReadLatest
  <2>1. TypedActors'
    BY <1>2, ReadLatestDoes, TypedFacts DEF TypedActors, CheckOnly, OnlyJobOf
  <2>. QED
    BY <1>2, <2>1, ReadLatestDoes
<1>3. ASSUME NEW a \in Actors, ReadKubo(a) PROVE Typed'
  <2>1. TypedActors'
    BY <1>3, ReadKuboDoes, TypedFacts DEF TypedActors, OnlyJobOf
  <2>2. TypedObserved'
    BY <1>3, ReadKuboDoes, TypedFacts DEF TypedObserved
  <2>. QED
    BY <1>3, <2>1, <2>2, ReadKuboDoes
<1>4. ASSUME NEW a \in Actors, WriteKubo(a) PROVE Typed'
  <2>1. TypedActors'
    BY <1>4, WriteKuboDoes, TypedFacts DEF TypedActors, OnlyJobOf
  <2>2. TypedObserved' /\ TypedFiles'
    BY <1>4, WriteKuboDoes, TypedFacts DEF TypedObserved, TypedFiles
  <2>. QED
    BY <1>4, <2>1, <2>2, WriteKuboDoes
<1>5. ASSUME NEW a \in Actors, Save(a) PROVE Typed'
  <2>1. TypedActors' /\ TypedFiles'
    BY <1>5, SaveDoes, TypedFacts, ApplyFacts DEF TypedActors, TypedFiles, OnlyJobOf
  <2>2. TypedObserved'
    <3>1. fresh \cup (Again(cfg') \cap Excused) \subseteq Named
      BY TypedFacts DEF Again
    <3>. QED
      BY <1>5, <3>1, SaveDoes, TypedFacts DEF TypedObserved
  <2>. QED
    BY <1>5, <2>1, <2>2, SaveDoes
<1>6. CASE StartSetup
  <2>1. TypedActors' /\ TypedObserved'
    BY <1>6, StartSetupDoes, TypedFacts DEF TypedActors, TypedObserved
  <2>. QED
    BY <1>6, <2>1, StartSetupDoes
<1>7. CASE SetupIssues
  <2>1. TypedActors' /\ TypedFiles'
    BY <1>7, SetupIssuesDoes, TypedFacts DEF TypedActors, TypedFiles
  <2>. QED
    BY <1>7, <2>1, SetupIssuesDoes
<1>8. ASSUME NEW issued \in SUBSET CertificateNames, SetupWaited(issued) PROVE Typed'
  <2>1. TypedActors'
    BY <1>8, SetupWaitedDoes, TypedFacts DEF TypedActors
  <2>. QED
    BY <1>8, <2>1, SetupWaitedDoes
<1>9. CASE SetupRestores
  <2>1. TypedActors' /\ TypedFiles'
    BY <1>9, SetupRestoresDoes, TypedFacts, NoneTyped DEF TypedActors, TypedFiles
  <2>. QED
    BY <1>9, <2>1, SetupRestoresDoes
<1>10. CASE SetupWritesSites
  <2>1. TypedActors' /\ TypedFiles'
    BY <1>10, SetupWritesSitesDoes, TypedFacts DEF TypedActors, TypedFiles, CommandOnly, OnlyJobOf
  <2>. QED
    BY <1>10, <2>1, SetupWritesSitesDoes
<1>11. ASSUME NEW ok \in BOOLEAN, SetupDials(ok) PROVE Typed'
  <2>1. TypedActors'
    BY <1>11, SetupDialsDoes, TypedFacts DEF TypedActors, CommandOnly, OnlyJobOf
  <2>. QED
    BY <1>11, <2>1, SetupDialsDoes
<1>12. ASSUME NEW kind \in {"disable", "purge"}, StartDisable(kind) PROVE Typed'
  <2>1. TypedActors' /\ TypedObserved'
    BY <1>12, StartDisableDoes, TypedFacts DEF TypedActors, TypedObserved, OnlyJobOf
  <2>. QED
    BY <1>12, <2>1, StartDisableDoes
<1>13. CASE Purge
  <2>1. TypedActors' /\ TypedFiles'
    BY <1>13, PurgeDoes, TypedFacts, NoneTyped DEF TypedActors, TypedFiles, Statuses
  <2>2. cfg.edits.kept \in BOOLEAN
    BY TypedFacts, ConfigFacts DEF Edits
  <2>3. TypedObserved'
    BY <1>13, <2>2, PurgeDoes, TypedFacts DEF TypedObserved
  <2>. QED
    BY <1>13, <2>1, <2>3, PurgeDoes
<1>14. CASE StartCheck
  <2>1. TypedActors' /\ TypedObserved'
    BY <1>14, StartCheckDoes, TypedFacts DEF TypedActors, TypedObserved
  <2>2. TypedMemory'
    BY <1>14, StartCheckDoes, TypedParts DEF TypedMemory, memory
  <2>. QED
    BY <1>14, <2>1, <2>2, StartCheckDoes
<1>15. CASE WriteCandidate
  <2>1. TypedActors' /\ TypedFiles'
    BY <1>15, WriteCandidateDoes, TypedFacts DEF TypedActors, TypedFiles
  <2>. QED
    BY <1>15, <2>1, WriteCandidateDoes
<1>16. CASE CheckFails
  <2>1. TypedActors' /\ TypedObserved' /\ TypedFiles'
    BY <1>16, CheckFailsDoes, TypedFacts, NoneTyped DEF TypedActors, TypedObserved, TypedFiles, OnlyJobOf, CutOff
  <2>2. TypedWorld'
    BY <1>16, CheckFailsDoes, TypedParts DEF TypedWorld
  <2>. QED
    BY <1>16, <2>1, <2>2, CheckFailsDoes
<1>17. CASE StoppedWaiting
  <2>1. TypedActors' /\ TypedFiles'
    BY <1>17, StoppedWaitingDoes, TypedFacts DEF TypedActors, TypedFiles, CheckOnly
  <2>. QED
    BY <1>17, <2>1, StoppedWaitingDoes
<1>18. CASE WaitEnds
  <2>1. PICK issued \in SUBSET Ips : Settles(issued)
    BY <1>18, WaitEndsDoes
  <2>2. TypedActors' /\ TypedFiles' /\ TypedObserved'
    BY <2>1, TypedFacts DEF TypedActors, TypedFiles, TypedObserved, CheckOnly, OnlyJobOf, Settles
  <2>3. TypedMemory'
    BY <2>1, BackOffTyped, TypedParts DEF TypedMemory, Settles
  <2>. QED
    BY <2>1, <2>2, <2>3 DEF Settles
<1>19. CASE FinishCheck
  <2>1. TypedActors' /\ TypedFiles' /\ TypedObserved'
    BY <1>19, FinishCheckDoes, TypedFacts, NoneTyped DEF TypedActors, TypedFiles, TypedObserved
  <2>. QED
    BY <1>19, <2>1, FinishCheckDoes
<1>20. ASSUME NEW day \in SUBSET chk.status.failing, CheckNames(day) PROVE Typed'
  <2>1. TypedActors'
    BY <1>20, CheckNamesDoes, TypedFacts DEF TypedActors, OnlyJobOf
  <2>. QED
    BY <1>20, <2>1, CheckNamesDoes
<1>21. CASE StartDaemon
  <2>1. TypedMemory'
    BY <1>21, NoBackoffTyped DEF StartDaemon, TypedMemory, Backoffs
  <2>2. TypedFiles' /\ TypedObserved'
    BY <1>21, TypedFacts DEF StartDaemon, TypedFiles, TypedObserved
  <2>. QED
    BY <1>21, <2>1, <2>2 DEF StartDaemon
<1>22. CASE StopDaemon
  <2>1. TypedMemory'
    BY <1>22, TypedParts DEF StopDaemon, TypedMemory
  <2>2. TypedWorld'
    BY <1>22, TypedParts, ConstantsOK DEF StopDaemon, TypedWorld, world
  <2>3. UNCHANGED <<files, chk, cli, job, observed, rounds>>
    BY <1>22 DEF StopDaemon
  <2>. QED
    BY <2>1, <2>2, <2>3
<1>23. CASE Kill
  <2>1. TypedActors' /\ TypedObserved' /\ TypedFiles'
    BY <1>23, KillDoes, TypedFacts, NoneTyped DEF TypedActors, TypedObserved, TypedFiles, OnlyJobOf, CutOff
  <2>2. TypedWorld' /\ TypedMemory'
    BY <1>23, KillDoes, TypedParts DEF TypedWorld, TypedMemory
  <2>. QED
    BY <1>23, <2>1, <2>2, KillDoes
<1>24. CASE Moves /\ UNCHANGED <<files, base, daemon, pending, chk, cli, job, lost, overlap, fresh, rounds>>
  <2>1. TypedObserved'
    BY <1>24, MovesDoes, TypedFacts DEF TypedObserved
  <2>2. TypedWorld' /\ TypedMemory'
    BY <1>24, MovesDoes, TypedParts DEF TypedWorld, TypedMemory
  <2>. QED
    BY <1>24, <2>1, <2>2
<1>25. CASE /\ OperatorEdits
            /\ UNCHANGED <<process, cfg, site, status, here, answers, memory, chk, cli, job, observed, rounds>>
  <2>1. TypedFiles'
    BY <1>25, OperatorEditsDoes, TypedFacts DEF TypedFiles
  <2>2. TypedWorld'
    BY <1>25, OperatorEditsDoes, TypedParts DEF TypedWorld
  <2>. QED
    BY <1>25, <2>1, <2>2
<1>26. ASSUME NEW a \in Actors, NEW taken \in BOOLEAN, Restart(a, taken) PROVE Typed'
  <2>1. TypedActors' /\ TypedFiles'
    BY <1>26, RestartDoes, TypedFacts DEF TypedActors, TypedFiles, OnlyJobOf
  <2>2. TypedWorld'
    BY <1>26, RestartDoes, TypedParts DEF TypedWorld
  <2>. QED
    BY <1>26, <2>1, <2>2, RestartDoes
<1>27. CASE SetupGivesUp
  <2>1. TypedActors'
    BY <1>27, SetupGivesUpDoes, TypedFacts, NoneTyped DEF TypedActors
  <2>. QED
    BY <1>27, <2>1, SetupGivesUpDoes
<1>. QED
  BY <1>1, <1>2, <1>3, <1>4, <1>5, <1>6, <1>7, <1>8, <1>9, <1>10, <1>11, <1>12, <1>13, <1>14, <1>15,
     <1>16, <1>17, <1>18, <1>19, <1>20, <1>21, <1>22, <1>23, <1>24, <1>25, <1>26, <1>27
     DEF Next, ApplyStep, SetupStep, DisableStep, CheckStep, Environment

LEMMA StepsKept ==
    ASSUME IInv, [Next]_vars
    PROVE  Steps'
<1>. Typed /\ Steps /\ Apart(chk.config) /\ Actors = {"cli", "check"}
  BY DEF IInv, Disjoint, Actors
<1>. USE TypedFacts, NoneFields DEF Steps, files, world, memory, observed, OnlyJobOf, CheckOnly,
                 CommandOnly, Goes, Built
<1>1. CASE UNCHANGED vars
  BY <1>1 DEF vars
<1>2. CASE ReadLatest
  BY <1>2, ReadLatestDoes
<1>3. ASSUME NEW a \in Actors, ReadKubo(a) PROVE Steps'
  <2>1. CASE a = "cli"
    BY <1>3, <2>1, ReadKuboDoes
  <2>2. CASE a = "check"
    BY <1>3, <2>2, ReadKuboDoes
  <2>. QED
    BY <2>1, <2>2
<1>4. ASSUME NEW a \in Actors, WriteKubo(a) PROVE Steps'
  <2>1. CASE a = "cli"
    BY <1>4, <2>1, WriteKuboDoes
  <2>2. CASE a = "check"
    BY <1>4, <2>2, WriteKuboDoes
  <2>. QED
    BY <2>1, <2>2
<1>5. ASSUME NEW a \in Actors, Save(a) PROVE Steps'
  <2>1. CASE a = "cli"
    BY <1>5, <2>1, SaveDoes
  <2>2. CASE a = "check"
    BY <1>5, <2>2, SaveDoes
  <2>. QED
    BY <2>1, <2>2
<1>6. CASE StartSetup
  BY <1>6, StartSetupDoes
<1>7. CASE SetupIssues
  BY <1>7, SetupIssuesDoes
<1>8. ASSUME NEW issued \in SUBSET CertificateNames, SetupWaited(issued) PROVE Steps'
  BY <1>8, SetupWaitedDoes
<1>9. CASE SetupRestores
  BY <1>9, SetupRestoresDoes
<1>10. CASE SetupWritesSites
  BY <1>10, SetupWritesSitesDoes
<1>11. ASSUME NEW ok \in BOOLEAN, SetupDials(ok) PROVE Steps'
  BY <1>11, SetupDialsDoes
<1>12. ASSUME NEW kind \in {"disable", "purge"}, StartDisable(kind) PROVE Steps'
  BY <1>12, StartDisableDoes
<1>13. CASE Purge
  BY <1>13, PurgeDoes
<1>14. CASE StartCheck
  BY <1>14, StartCheckDoes
<1>15. CASE WriteCandidate
  BY <1>15, WriteCandidateDoes
<1>16. CASE CheckFails
  BY <1>16, CheckFailsDoes DEF CutOff
<1>17. CASE StoppedWaiting
  BY <1>17, StoppedWaitingDoes
<1>18. CASE WaitEnds
  <2>1. PICK issued \in SUBSET Ips : Settles(issued)
    BY <1>18, WaitEndsDoes
  <2>. QED
    BY <2>1 DEF Settles
<1>19. CASE FinishCheck
  BY <1>19, FinishCheckDoes
<1>20. ASSUME NEW day \in SUBSET chk.status.failing, CheckNames(day) PROVE Steps'
  BY <1>20, CheckNamesDoes
<1>21. CASE StartDaemon
  BY <1>21 DEF StartDaemon
<1>22. CASE StopDaemon
  BY <1>22 DEF StopDaemon
<1>23. CASE Kill
  BY <1>23, KillDoes DEF CutOff
<1>24. CASE Moves /\ UNCHANGED <<files, base, daemon, pending, chk, cli, job, lost, overlap, fresh, rounds>>
  BY <1>24
<1>25. CASE /\ OperatorEdits
            /\ UNCHANGED <<process, cfg, site, status, here, answers, memory, chk, cli, job, observed, rounds>>
  BY <1>25
<1>26. ASSUME NEW a \in Actors, NEW taken \in BOOLEAN, Restart(a, taken) PROVE Steps'
  <2>1. CASE a = "cli"
    BY <1>26, <2>1, RestartDoes
  <2>2. CASE a = "check"
    BY <1>26, <2>2, RestartDoes
  <2>. QED
    BY <2>1, <2>2
<1>27. CASE SetupGivesUp
  BY <1>27, SetupGivesUpDoes
<1>. QED
  BY <1>1, <1>2, <1>3, <1>4, <1>5, <1>6, <1>7, <1>8, <1>9, <1>10, <1>11, <1>12, <1>13, <1>14, <1>15,
     <1>16, <1>17, <1>18, <1>19, <1>20, <1>21, <1>22, <1>23, <1>24, <1>25, <1>26, <1>27
     DEF Next, ApplyStep, SetupStep, DisableStep, CheckStep, Environment

LEMMA RecordedKept ==
    ASSUME IInv, [Next]_vars
    PROVE  Recorded'
<1>. Typed /\ Steps /\ Recorded /\ Apart(chk.config) /\ Actors = {"cli", "check"}
  BY DEF IInv, Disjoint, Actors
<1>. USE TypedFacts, NoneFields DEF Recorded, Keeps, files, world, memory, observed, OnlyJobOf, CheckOnly,
                 CommandOnly, Goes, Built
<1>1. CASE UNCHANGED vars
  BY <1>1 DEF vars
<1>2. CASE ReadLatest
  BY <1>2, ReadLatestDoes
<1>3. ASSUME NEW a \in Actors, ReadKubo(a) PROVE Recorded'
  <2>1. CASE a = "cli"
    BY <1>3, <2>1, ReadKuboDoes
  <2>2. CASE a = "check"
    <3>1. lost' = (lost \/ cfg.edits # job["check"].config.edits) /\ job["check"].step = "read" /\ cfg' = cfg
      BY <1>3, <2>2, ReadKuboDoes
    <3>2. ~cfg.enabled => lost'
      BY <3>1, NoEditsTyped
    <3>. QED
      BY <1>3, <2>2, <3>2, ReadKuboDoes
  <2>. QED
    BY <2>1, <2>2
<1>4. ASSUME NEW a \in Actors, WriteKubo(a) PROVE Recorded'
  <2>1. CASE a = "cli"
    BY <1>4, <2>1, WriteKuboDoes
  <2>2. CASE a = "check"
    BY <1>4, <2>2, WriteKuboDoes
  <2>. QED
    BY <2>1, <2>2
<1>5. ASSUME NEW a \in Actors, Save(a) PROVE Recorded'
  <2>1. CASE a = "cli"
    BY <1>5, <2>1, SaveDoes
  <2>2. CASE a = "check"
    BY <1>5, <2>2, SaveDoes
  <2>. QED
    BY <2>1, <2>2
<1>6. CASE StartSetup
  BY <1>6, StartSetupDoes
<1>7. CASE SetupIssues
  BY <1>7, SetupIssuesDoes
<1>8. ASSUME NEW issued \in SUBSET CertificateNames, SetupWaited(issued) PROVE Recorded'
  BY <1>8, SetupWaitedDoes
<1>9. CASE SetupRestores
  BY <1>9, SetupRestoresDoes
<1>10. CASE SetupWritesSites
  BY <1>10, SetupWritesSitesDoes
<1>11. ASSUME NEW ok \in BOOLEAN, SetupDials(ok) PROVE Recorded'
  BY <1>11, SetupDialsDoes
<1>12. ASSUME NEW kind \in {"disable", "purge"}, StartDisable(kind) PROVE Recorded'
  BY <1>12, StartDisableDoes
<1>13. CASE Purge
  BY <1>13, PurgeDoes
<1>14. CASE StartCheck
  BY <1>14, StartCheckDoes
<1>15. CASE WriteCandidate
  BY <1>15, WriteCandidateDoes
<1>16. CASE CheckFails
  BY <1>16, CheckFailsDoes DEF CutOff
<1>17. CASE StoppedWaiting
  BY <1>17, StoppedWaitingDoes
<1>18. CASE WaitEnds
  <2>1. PICK issued \in SUBSET Ips : Settles(issued)
    BY <1>18, WaitEndsDoes
  <2>. QED
    BY <2>1 DEF Settles
<1>19. CASE FinishCheck
  BY <1>19, FinishCheckDoes
<1>20. ASSUME NEW day \in SUBSET chk.status.failing, CheckNames(day) PROVE Recorded'
  BY <1>20, CheckNamesDoes
<1>21. CASE StartDaemon
  BY <1>21 DEF StartDaemon
<1>22. CASE StopDaemon
  BY <1>22 DEF StopDaemon
<1>23. CASE Kill
  BY <1>23, KillDoes DEF CutOff
<1>24. CASE Moves /\ UNCHANGED <<files, base, daemon, pending, chk, cli, job, lost, overlap, fresh, rounds>>
  BY <1>24
<1>25. CASE /\ OperatorEdits
            /\ UNCHANGED <<process, cfg, site, status, here, answers, memory, chk, cli, job, observed, rounds>>
  BY <1>25
<1>26. ASSUME NEW a \in Actors, NEW taken \in BOOLEAN, Restart(a, taken) PROVE Recorded'
  <2>1. CASE a = "cli"
    BY <1>26, <2>1, RestartDoes
  <2>2. CASE a = "check"
    BY <1>26, <2>2, RestartDoes
  <2>. QED
    BY <2>1, <2>2
<1>27. CASE SetupGivesUp
  BY <1>27, SetupGivesUpDoes
<1>. QED
  BY <1>1, <1>2, <1>3, <1>4, <1>5, <1>6, <1>7, <1>8, <1>9, <1>10, <1>11, <1>12, <1>13, <1>14, <1>15,
     <1>16, <1>17, <1>18, <1>19, <1>20, <1>21, <1>22, <1>23, <1>24, <1>25, <1>26, <1>27
     DEF Next, ApplyStep, SetupStep, DisableStep, CheckStep, Environment

LEMMA DisjointKept ==
    ASSUME IInv, [Next]_vars
    PROVE  Disjoint'
<1>. Typed /\ Steps /\ Disjoint /\ Apart(chk.config) /\ Apart(NoConfig) /\ Actors = {"cli", "check"}
  BY NoneFields DEF IInv, Disjoint, Apart, Actors
<1>. USE TypedFacts, NoneFields DEF Disjoint, Apart, Keeps, files, world, memory, observed, OnlyJobOf,
                 CheckOnly, CommandOnly, Goes, Built
<1>1. CASE UNCHANGED vars
  BY <1>1 DEF vars
<1>2. CASE ReadLatest
  BY <1>2, ReadLatestDoes
<1>3. ASSUME NEW a \in Actors, ReadKubo(a) PROVE Disjoint'
  <2>1. CASE a = "cli"
    BY <1>3, <2>1, ReadKuboDoes
  <2>2. CASE a = "check"
    BY <1>3, <2>2, ReadKuboDoes
  <2>. QED
    BY <2>1, <2>2
<1>4. ASSUME NEW a \in Actors, WriteKubo(a) PROVE Disjoint'
  <2>1. CASE a = "cli"
    BY <1>4, <2>1, WriteKuboDoes
  <2>2. CASE a = "check"
    BY <1>4, <2>2, WriteKuboDoes
  <2>. QED
    BY <2>1, <2>2
<1>5. ASSUME NEW a \in Actors, Save(a) PROVE Disjoint'
  <2>1. CASE a = "cli"
    BY <1>5, <2>1, SaveDoes
  <2>2. CASE a = "check"
    BY <1>5, <2>2, SaveDoes
  <2>. QED
    BY <2>1, <2>2
<1>6. CASE StartSetup
  BY <1>6, StartSetupDoes
<1>7. CASE SetupIssues
  BY <1>7, SetupIssuesDoes
<1>8. ASSUME NEW issued \in SUBSET CertificateNames, SetupWaited(issued) PROVE Disjoint'
  BY <1>8, SetupWaitedDoes
<1>9. CASE SetupRestores
  BY <1>9, SetupRestoresDoes
<1>10. CASE SetupWritesSites
  BY <1>10, SetupWritesSitesDoes
<1>11. ASSUME NEW ok \in BOOLEAN, SetupDials(ok) PROVE Disjoint'
  BY <1>11, SetupDialsDoes
<1>12. ASSUME NEW kind \in {"disable", "purge"}, StartDisable(kind) PROVE Disjoint'
  BY <1>12, StartDisableDoes
<1>13. CASE Purge
  BY <1>13, PurgeDoes
<1>14. CASE StartCheck
  BY <1>14, StartCheckDoes
<1>15. CASE WriteCandidate
  BY <1>15, WriteCandidateDoes
<1>16. CASE CheckFails
  BY <1>16, CheckFailsDoes DEF CutOff
<1>17. CASE StoppedWaiting
  BY <1>17, StoppedWaitingDoes
<1>18. CASE WaitEnds
  <2>1. PICK issued \in SUBSET Ips : Settles(issued)
    BY <1>18, WaitEndsDoes
  <2>. QED
    BY <2>1 DEF Settles
<1>19. CASE FinishCheck
  BY <1>19, FinishCheckDoes
<1>20. ASSUME NEW day \in SUBSET chk.status.failing, CheckNames(day) PROVE Disjoint'
  BY <1>20, CheckNamesDoes
<1>21. CASE StartDaemon
  BY <1>21 DEF StartDaemon
<1>22. CASE StopDaemon
  BY <1>22 DEF StopDaemon
<1>23. CASE Kill
  BY <1>23, KillDoes DEF CutOff
<1>24. CASE Moves /\ UNCHANGED <<files, base, daemon, pending, chk, cli, job, lost, overlap, fresh, rounds>>
  BY <1>24
<1>25. CASE /\ OperatorEdits
            /\ UNCHANGED <<process, cfg, site, status, here, answers, memory, chk, cli, job, observed, rounds>>
  BY <1>25
<1>26. ASSUME NEW a \in Actors, NEW taken \in BOOLEAN, Restart(a, taken) PROVE Disjoint'
  <2>1. CASE a = "cli"
    BY <1>26, <2>1, RestartDoes
  <2>2. CASE a = "check"
    BY <1>26, <2>2, RestartDoes
  <2>. QED
    BY <2>1, <2>2
<1>27. CASE SetupGivesUp
  BY <1>27, SetupGivesUpDoes
<1>. QED
  BY <1>1, <1>2, <1>3, <1>4, <1>5, <1>6, <1>7, <1>8, <1>9, <1>10, <1>11, <1>12, <1>13, <1>14, <1>15,
     <1>16, <1>17, <1>18, <1>19, <1>20, <1>21, <1>22, <1>23, <1>24, <1>25, <1>26, <1>27
     DEF Next, ApplyStep, SetupStep, DisableStep, CheckStep, Environment

LEMMA NothingServed ==
    ASSUME NEW c \in Config, c.announce = c.external
    PROVE  ~ServedByUs(c)
<1>1. IsFiniteSet({Proxy}) /\ c.external \subseteq {Proxy}
  BY FS_Singleton, ConfigFacts
<1>2. Cardinality(c.external) \in Nat
  BY <1>1, FS_Subset, FS_CardinalityType
<1>. QED
  BY <1>2 DEF ServedByUs

LEMMA AloneKept ==
    ASSUME IInv, [Next]_vars
    PROVE  Alone'
<1>. Typed /\ Steps /\ Recorded /\ Alone /\ Apart(chk.config) /\ Actors = {"cli", "check"}
  BY DEF IInv, Disjoint, Actors
<1>. cfg.enabled => cfg.there
  BY DEF Recorded
<1>. USE TypedFacts, NoneFields DEF Alone, Steps, Keeps, NamesOf, OwnAddresses, Holding, ServedByUs, files, world,
                 memory, observed, OnlyJobOf, CheckOnly, CommandOnly, Goes, Built
<1>1. CASE UNCHANGED vars
  BY <1>1 DEF vars
<1>2. CASE ReadLatest
  BY <1>2, ReadLatestDoes
<1>3. ASSUME NEW a \in Actors, ReadKubo(a) PROVE Alone'
  <2>1. CASE a = "cli"
    BY <1>3, <2>1, ReadKuboDoes
  <2>2. CASE a = "check"
    BY <1>3, <2>2, ReadKuboDoes
  <2>. QED
    BY <2>1, <2>2
<1>4. ASSUME NEW a \in Actors, WriteKubo(a) PROVE Alone'
  <2>1. CASE a = "cli"
    BY <1>4, <2>1, WriteKuboDoes
  <2>2. CASE a = "check"
    BY <1>4, <2>2, WriteKuboDoes
  <2>. QED
    BY <2>1, <2>2
<1>5. ASSUME NEW a \in Actors, Save(a) PROVE Alone'
  <2>1. CASE a = "cli"
    <3>1. /\ job["cli"].step = "save" /\ cfg' = job["cli"].config /\ cfg' \in Config
          /\ job'["cli"].step = "restart" /\ job'["cli"].config = job["cli"].config
          /\ job'["check"] = job["check"] /\ chk' = chk /\ cli' = cli /\ overlap' = overlap
      BY <1>5, <2>1, SaveDoes
    <3>2. cli.pc = "apply" /\ (~overlap => chk.pc = "idle" /\ job["check"].step = "none")
      BY <3>1
    <3>3. ~overlap /\ cli.kind = "setup" /\ cli.issued = {} => ~ServedByUs(cfg')
      BY <3>1, <3>2, NothingServed
    <3>. QED
      BY <3>1, <3>2, <3>3
  <2>2. CASE a = "check"
    BY <1>5, <2>2, SaveDoes
  <2>. QED
    BY <2>1, <2>2
<1>6. CASE StartSetup
  BY <1>6, StartSetupDoes
<1>7. CASE SetupIssues
  BY <1>7, SetupIssuesDoes
<1>8. ASSUME NEW issued \in SUBSET CertificateNames, SetupWaited(issued) PROVE Alone'
  BY <1>8, SetupWaitedDoes
<1>9. CASE SetupRestores
  BY <1>9, SetupRestoresDoes
<1>10. CASE SetupWritesSites
  BY <1>10, SetupWritesSitesDoes
<1>11. ASSUME NEW ok \in BOOLEAN, SetupDials(ok) PROVE Alone'
  BY <1>11, SetupDialsDoes
<1>12. ASSUME NEW kind \in {"disable", "purge"}, StartDisable(kind) PROVE Alone'
  <2>1. /\ cfg' = cfg /\ chk' = chk /\ overlap' = (overlap \/ chk.pc # "idle")
        /\ job'["check"] = job["check"] /\ (job'["cli"] = job["cli"] \/ job'["cli"].step = "read")
        /\ cli'.pc \in {"idle", "purge"} \/ (cli'.pc = "apply" /\ cli'.kind # "setup")
    BY <1>12, StartDisableDoes
  <2>2. SUFFICES ASSUME ~overlap'
                 PROVE  Alone'
    BY DEF Alone
  <2>3. ~overlap /\ chk'.pc = "idle"
    BY <2>1, <2>2
  <2>4. \A a \in Actors : job[a].step = "restart" => job[a].config = cfg
    BY <2>3 DEF Alone
  <2>5. chk'.pc = "idle" /\ \A a \in Actors : job'[a].step = "restart" => job'[a].config = cfg'
    BY <2>1, <2>3, <2>4
  <2>6. cli'.pc \notin {"issue", "wait", "restore", "sites", "dial"} /\ (cli'.pc = "apply" => cli'.kind # "setup")
    BY <2>1
  <2>. QED
    BY <2>5, <2>6
<1>13. CASE Purge
  BY <1>13, PurgeDoes
<1>14. CASE StartCheck
  BY <1>14, StartCheckDoes
<1>15. CASE WriteCandidate
  BY <1>15, WriteCandidateDoes
<1>16. CASE CheckFails
  BY <1>16, CheckFailsDoes DEF CutOff
<1>17. CASE StoppedWaiting
  BY <1>17, StoppedWaitingDoes
<1>18. CASE WaitEnds
  <2>1. PICK issued \in SUBSET Ips : Settles(issued)
    BY <1>18, WaitEndsDoes
  <2>. QED
    BY <2>1 DEF Settles
<1>19. CASE FinishCheck
  BY <1>19, FinishCheckDoes
<1>20. ASSUME NEW day \in SUBSET chk.status.failing, CheckNames(day) PROVE Alone'
  BY <1>20, CheckNamesDoes
<1>21. CASE StartDaemon
  BY <1>21 DEF StartDaemon
<1>22. CASE StopDaemon
  BY <1>22 DEF StopDaemon
<1>23. CASE Kill
  BY <1>23, KillDoes DEF CutOff
<1>24. CASE Moves /\ UNCHANGED <<files, base, daemon, pending, chk, cli, job, lost, overlap, fresh, rounds>>
  BY <1>24
<1>25. CASE /\ OperatorEdits
            /\ UNCHANGED <<process, cfg, site, status, here, answers, memory, chk, cli, job, observed, rounds>>
  BY <1>25
<1>26. ASSUME NEW a \in Actors, NEW taken \in BOOLEAN, Restart(a, taken) PROVE Alone'
  <2>1. CASE a = "cli"
    BY <1>26, <2>1, RestartDoes
  <2>2. CASE a = "check"
    BY <1>26, <2>2, RestartDoes
  <2>. QED
    BY <2>1, <2>2
<1>27. CASE SetupGivesUp
  BY <1>27, SetupGivesUpDoes
<1>. QED
  BY <1>1, <1>2, <1>3, <1>4, <1>5, <1>6, <1>7, <1>8, <1>9, <1>10, <1>11, <1>12, <1>13, <1>14, <1>15,
     <1>16, <1>17, <1>18, <1>19, <1>20, <1>21, <1>22, <1>23, <1>24, <1>25, <1>26, <1>27
     DEF Next, ApplyStep, SetupStep, DisableStep, CheckStep, Environment

\* The families that wait go on waiting when a check goes on with addresses that were held.
LEMMA WaitsMove ==
    ASSUME Waits, refused' \subseteq refused, \A f \in refused' : backoff'[f] = backoff[f],
           \A f \in refused' : InFamily(f, cfg'.ips) \subseteq InFamily(f, cfg.ips),
           chk'.config.ips \in {{}, cfg.ips, chk.config.ips}
           \/ (chk.pc = "apply" /\ chk'.config.ips = job["check"].config.ips),
           chk'.pc \in {"change", "wait"} => /\ chk.pc \in {"change", "wait"}
                                            /\ chk'.config.ips = chk.config.ips /\ chk'.next = chk.next,
           chk'.pc = "apply" => \/ chk.pc = "apply" /\ job'["check"].config.ips = job["check"].config.ips
                                \/ job'["check"].config.ips = chk.config.ips
    PROVE  Waits'
<1>1. ASSUME NEW f \in refused'
      PROVE  /\ backoff'[f].on /\ ~backoff'[f].due
             /\ InFamily(f, cfg'.ips) \subseteq backoff'[f].held
             /\ InFamily(f, chk'.config.ips) \subseteq backoff'[f].held
             /\ chk'.pc = "apply" => InFamily(f, job'["check"].config.ips) \subseteq backoff'[f].held
             /\ chk'.pc \in {"change", "wait"} => /\ InFamily(f, chk'.next \ chk'.config.ips) = {}
                                                  /\ InFamily(f, cfg'.ips) \subseteq chk'.config.ips
  <2>1. f \in refused /\ backoff'[f] = backoff[f] /\ InFamily(f, {}) = {}
    BY <1>1 DEF InFamily
  <2>2. /\ backoff[f].on /\ ~backoff[f].due
        /\ InFamily(f, cfg.ips) \subseteq backoff[f].held
        /\ InFamily(f, chk.config.ips) \subseteq backoff[f].held
        /\ chk.pc = "apply" => InFamily(f, job["check"].config.ips) \subseteq backoff[f].held
        /\ chk.pc \in {"change", "wait"} => /\ InFamily(f, chk.next \ chk.config.ips) = {}
                                            /\ InFamily(f, cfg.ips) \subseteq chk.config.ips
    BY <2>1 DEF Waits
  <2>3. InFamily(f, cfg'.ips) \subseteq InFamily(f, cfg.ips)
    BY <1>1
  <2>4. InFamily(f, chk'.config.ips) \subseteq backoff[f].held
    BY <2>1, <2>2
  <2>. QED
    BY <2>1, <2>2, <2>3, <2>4
<1>2. chk'.pc \in {"change", "wait"} =>
         \A f \in Families : \/ InFamily(f, chk'.next) \subseteq chk'.config.ips
                             \/ \E ip \in Ips : InFamily(f, chk'.next) = {ip}
  BY DEF Waits
<1>. QED
  BY <1>1, <1>2 DEF Waits

\* An attempt that fails starts the wait of a family with the addresses it holds.
LEMMA WaitsSettled ==
    ASSUME Typed, Waits, Apart(chk.config), WaitEnds
    PROVE  Waits'
<1>1. PICK issued \in SUBSET Ips : Settles(issued)
  BY WaitEndsDoes
<1> DEFINE failed == chk.next \ issued
<1>2. /\ chk.pc = "wait" /\ issued \subseteq chk.next /\ cfg' = cfg /\ chk'.config = chk.config
      /\ chk'.pc \in {"names", "apply"} /\ (chk'.pc = "apply" => job'["check"].config.ips = issued)
      /\ refused' = refused \cup {f \in Families : /\ InFamily(f, failed) # {}
                                                   /\ InFamily(f, cfg.ips \ chk.config.ips) = {}}
  BY <1>1 DEF Settles, CheckOnly
<1>3. \A f \in Families :
         backoff'[f] = IF InFamily(f, failed) = {} THEN backoff[f]
                       ELSE [on |-> TRUE, due |-> FALSE, held |-> InFamily(f, chk.config.ips)]
  <2>1. backoff' = BackOff(failed)
    BY <1>1 DEF Settles
  <2>. HIDE DEF failed
  <2>2. \A f \in Families :
           BackOff(failed)[f] = IF InFamily(f, failed) = {} THEN backoff[f]
                                ELSE [on |-> TRUE, due |-> FALSE, held |-> InFamily(f, chk.config.ips)]
    BY BackOffTyped
  <2>. QED
    BY <2>1, <2>2
<1>. HIDE DEF failed
<1>4. ASSUME NEW f \in refused'
      PROVE  /\ backoff'[f].on /\ ~backoff'[f].due
             /\ InFamily(f, cfg.ips) \subseteq backoff'[f].held
             /\ InFamily(f, chk.config.ips) \subseteq backoff'[f].held
             /\ InFamily(f, issued) \subseteq backoff'[f].held
  <2>1. f \in Families
    BY <1>2, <1>4, TypedFacts
  <2>2. /\ InFamily(f, issued) = InFamily(f, chk.next) \cap issued
        /\ InFamily(f, failed) = InFamily(f, chk.next) \ issued
    BY <1>2 DEF InFamily, failed
  <2>3. CASE InFamily(f, failed) = {}
    <3>1. f \in refused /\ backoff'[f] = backoff[f]
      BY <1>2, <1>3, <1>4, <2>1, <2>3
    <3>2. /\ backoff[f].on /\ ~backoff[f].due
          /\ InFamily(f, cfg.ips) \subseteq backoff[f].held
          /\ InFamily(f, chk.config.ips) \subseteq backoff[f].held
          /\ InFamily(f, chk.next \ chk.config.ips) = {}
      BY <1>2, <3>1 DEF Waits
    <3>3. InFamily(f, chk.next) \subseteq InFamily(f, chk.config.ips)
      BY <3>2 DEF InFamily
    <3>. QED
      BY <2>2, <3>1, <3>2, <3>3
  <2>4. CASE InFamily(f, failed) # {}
    <3>1. backoff'[f].on /\ ~backoff'[f].due /\ backoff'[f].held = InFamily(f, chk.config.ips)
      <4>1. backoff'[f] = [on |-> TRUE, due |-> FALSE, held |-> InFamily(f, chk.config.ips)]
        BY <1>3, <2>1, <2>4
      <4>. QED
        BY <4>1
    <3>2. InFamily(f, cfg.ips \ chk.config.ips) = {}
      <4>1. CASE f \in refused
        <5>1. InFamily(f, cfg.ips) \subseteq chk.config.ips
          BY <1>2, <4>1 DEF Waits
        <5>. QED
          BY <5>1 DEF InFamily
      <4>. QED
        BY <1>2, <1>4, <4>1
    <3>3. InFamily(f, cfg.ips) \subseteq InFamily(f, chk.config.ips)
      BY <3>2 DEF InFamily
    <3>4. InFamily(f, issued) \subseteq InFamily(f, chk.config.ips)
      <4>1. CASE InFamily(f, chk.next) \subseteq chk.config.ips
        BY <2>2, <4>1 DEF InFamily
      <4>2. CASE \E ip \in Ips : InFamily(f, chk.next) = {ip}
        <5>1. InFamily(f, issued) = {}
          BY <2>2, <2>4, <4>2
        <5>. QED
          BY <5>1
      <4>. QED
        BY <1>2, <2>1, <4>1, <4>2 DEF Waits
    <3>. QED
      BY <3>1, <3>3, <3>4
  <2>. QED
    BY <2>3, <2>4
<1>. QED
  BY <1>2, <1>4 DEF Waits

LEMMA WaitsKept ==
    ASSUME IInv, [Next]_vars
    PROVE  Waits'
<1>. Typed /\ Steps /\ Waits /\ Apart(chk.config) /\ Actors = {"cli", "check"}
  BY DEF IInv, Disjoint, Actors
<1>. \A f \in Families : InFamily(f, {}) = {}
  BY DEF InFamily
<1>. USE TypedFacts, NoneFields DEF Steps, Keeps, files, world, memory, observed, OnlyJobOf, CheckOnly,
                 CommandOnly, Goes, Built
<1>1. CASE UNCHANGED vars
  BY WaitsMove, <1>1 DEF vars
<1>2. CASE ReadLatest
  BY WaitsMove, <1>2, ReadLatestDoes
<1>3. ASSUME NEW a \in Actors, ReadKubo(a) PROVE Waits'
  <2>1. chk' = chk /\ cfg' = cfg /\ UNCHANGED <<refused, backoff>>
    BY <1>3, ReadKuboDoes
  <2>2. job'["check"].config.ips = job["check"].config.ips
    BY <1>3, ReadKuboDoes
  <2>. QED
    BY <2>1, <2>2, WaitsMove
<1>4. ASSUME NEW a \in Actors, WriteKubo(a) PROVE Waits'
  <2>1. chk' = chk /\ cfg' = cfg /\ UNCHANGED <<refused, backoff>>
    BY <1>4, WriteKuboDoes
  <2>2. job'["check"].config.ips = job["check"].config.ips
    <3>1. CASE a = "cli"
      BY <1>4, <3>1, WriteKuboDoes
    <3>2. CASE a = "check"
      BY <1>4, <3>2, WriteKuboDoes
    <3>. QED
      BY <3>1, <3>2
  <2>. QED
    BY <2>1, <2>2, WaitsMove
<1>5. ASSUME NEW a \in Actors, Save(a) PROVE Waits'
  <2>1. /\ cfg' = job[a].config
        /\ \A f \in refused' : f \in refused /\ InFamily(f, cfg'.ips \ cfg.ips) = {}
    BY <1>5, SaveDoes
  <2>2. \A f \in refused' : InFamily(f, cfg'.ips) \subseteq InFamily(f, cfg.ips)
    <3>1. ASSUME NEW f \in refused' PROVE InFamily(f, cfg'.ips) \subseteq InFamily(f, cfg.ips)
      <4>1. InFamily(f, cfg'.ips \ cfg.ips) = {}
        BY <2>1, <3>1
      <4>. QED
        BY <4>1 DEF InFamily
    <3>. QED
      BY <3>1
  <2>3. CASE a = "cli"
    BY WaitsMove, <1>5, <2>1, <2>2, <2>3, SaveDoes
  <2>4. CASE a = "check"
    BY WaitsMove, <1>5, <2>1, <2>2, <2>4, SaveDoes
  <2>. QED
    BY <2>3, <2>4
<1>6. CASE StartSetup
  BY WaitsMove, <1>6, StartSetupDoes
<1>7. CASE SetupIssues
  BY WaitsMove, <1>7, SetupIssuesDoes
<1>8. ASSUME NEW issued \in SUBSET CertificateNames, SetupWaited(issued) PROVE Waits'
  BY WaitsMove, <1>8, SetupWaitedDoes
<1>9. CASE SetupRestores
  BY WaitsMove, <1>9, SetupRestoresDoes
<1>10. CASE SetupWritesSites
  BY WaitsMove, <1>10, SetupWritesSitesDoes
<1>11. ASSUME NEW ok \in BOOLEAN, SetupDials(ok) PROVE Waits'
  BY WaitsMove, <1>11, SetupDialsDoes
<1>12. ASSUME NEW kind \in {"disable", "purge"}, StartDisable(kind) PROVE Waits'
  BY WaitsMove, <1>12, StartDisableDoes
<1>13. CASE Purge
  BY WaitsMove, <1>13, PurgeDoes
<1>14. CASE StartCheck
  <2>1. /\ cfg' = cfg /\ chk'.config = cfg /\ refused' = refused /\ chk'.pc \in {"change", "names"}
        /\ chk'.pc = "change" => \A f \in Families :
              InFamily(f, chk'.next) \subseteq cfg.ips \/ \E ip \in Ips : InFamily(f, chk'.next) = {ip}
    BY <1>14, StartCheckDoes
  <2>2. ASSUME NEW f \in refused
        PROVE  /\ backoff'[f] = backoff[f]
               /\ backoff[f].on /\ ~backoff[f].due /\ InFamily(f, cfg.ips) \subseteq backoff[f].held
               /\ chk'.pc = "change" => InFamily(f, chk'.next \ cfg.ips) = {}
    <3>1. /\ f \in Families
          /\ backoff[f].on /\ ~backoff[f].due /\ InFamily(f, cfg.ips) \subseteq backoff[f].held
      BY <2>2 DEF Waits
    <3>2. StillBackedOff(f)
      BY <3>1 DEF StillBackedOff
    <3>3. /\ backoff'[f] = backoff[f]
          /\ chk'.pc = "change" => InFamily(f, chk'.next) = InFamily(f, cfg.ips)
      BY <1>14, <3>1, <3>2, StartCheckDoes
    <3>4. InFamily(f, cfg.ips) \ cfg.ips = {} /\ InFamily(f, chk'.next \ cfg.ips) = InFamily(f, chk'.next) \ cfg.ips
      BY <3>1, FamilyFacts DEF InFamily
    <3>. QED
      BY <3>1, <3>3, <3>4
  <2>3. \A f \in refused : InFamily(f, cfg.ips) \subseteq cfg.ips
    BY DEF InFamily
  <2>. QED
    BY <2>1, <2>2, <2>3 DEF Waits
<1>15. CASE WriteCandidate
  BY WaitsMove, <1>15, WriteCandidateDoes
<1>16. CASE CheckFails
  BY WaitsMove, <1>16, CheckFailsDoes DEF CutOff
<1>17. CASE StoppedWaiting
  BY WaitsMove, <1>17, StoppedWaitingDoes
<1>18. CASE WaitEnds
  BY <1>18, WaitsSettled
<1>19. CASE FinishCheck
  BY WaitsMove, <1>19, FinishCheckDoes
<1>20. ASSUME NEW day \in SUBSET chk.status.failing, CheckNames(day) PROVE Waits'
  BY WaitsMove, <1>20, CheckNamesDoes
<1>21. CASE StartDaemon
  BY WaitsMove, <1>21 DEF StartDaemon
<1>22. CASE StopDaemon
  BY WaitsMove, <1>22 DEF StopDaemon
<1>23. CASE Kill
  BY WaitsMove, <1>23, KillDoes DEF CutOff
<1>24. CASE Moves /\ UNCHANGED <<files, base, daemon, pending, chk, cli, job, lost, overlap, fresh, rounds>>
  BY WaitsMove, <1>24, MovesDoes
<1>25. CASE /\ OperatorEdits
            /\ UNCHANGED <<process, cfg, site, status, here, answers, memory, chk, cli, job, observed, rounds>>
  BY WaitsMove, <1>25
<1>26. ASSUME NEW a \in Actors, NEW taken \in BOOLEAN, Restart(a, taken) PROVE Waits'
  <2>1. CASE a = "cli"
    BY WaitsMove, <1>26, <2>1, RestartDoes
  <2>2. CASE a = "check"
    BY WaitsMove, <1>26, <2>2, RestartDoes
  <2>. QED
    BY <2>1, <2>2
<1>27. CASE SetupGivesUp
  BY WaitsMove, <1>27, SetupGivesUpDoes
<1>. QED
  BY <1>1, <1>2, <1>3, <1>4, <1>5, <1>6, <1>7, <1>8, <1>9, <1>10, <1>11, <1>12, <1>13, <1>14, <1>15,
     <1>16, <1>17, <1>18, <1>19, <1>20, <1>21, <1>22, <1>23, <1>24, <1>25, <1>26, <1>27
     DEF Next, ApplyStep, SetupStep, DisableStep, CheckStep, Environment

LEMMA ExcusesKept ==
    ASSUME IInv, [Next]_vars
    PROVE  Excuses'
<1>. Typed /\ Steps /\ Alone /\ Excuses /\ Apart(chk.config) /\ Actors = {"cli", "check"}
  BY DEF IInv, Disjoint, Actors
<1>. ~overlap => chk.pc = "idle" \/ cli.pc = "idle"
  BY DEF Alone
<1>. USE TypedFacts, NoneFields DEF Excuses, Excused, Steps, files, world, memory, observed, OnlyJobOf,
                 CheckOnly, CommandOnly, Goes, Built
<1>1. CASE UNCHANGED vars
  BY <1>1 DEF vars
<1>2. CASE ReadLatest
  BY <1>2, ReadLatestDoes
<1>3. ASSUME NEW a \in Actors, ReadKubo(a) PROVE Excuses'
  <2>1. CASE a = "cli"
    BY <1>3, <2>1, ReadKuboDoes
  <2>2. CASE a = "check"
    BY <1>3, <2>2, ReadKuboDoes
  <2>. QED
    BY <2>1, <2>2
<1>4. ASSUME NEW a \in Actors, WriteKubo(a) PROVE Excuses'
  <2>1. CASE a = "cli"
    BY <1>4, <2>1, WriteKuboDoes
  <2>2. CASE a = "check"
    BY <1>4, <2>2, WriteKuboDoes
  <2>. QED
    BY <2>1, <2>2
<1>5. ASSUME NEW a \in Actors, Save(a) PROVE Excuses'
  <2>1. CASE a = "cli"
    BY <1>5, <2>1, SaveDoes
  <2>2. CASE a = "check"
    BY <1>5, <2>2, SaveDoes
  <2>. QED
    BY <2>1, <2>2
<1>6. CASE StartSetup
  BY <1>6, StartSetupDoes
<1>7. CASE SetupIssues
  BY <1>7, SetupIssuesDoes
<1>8. ASSUME NEW issued \in SUBSET CertificateNames, SetupWaited(issued) PROVE Excuses'
  BY <1>8, SetupWaitedDoes
<1>9. CASE SetupRestores
  BY <1>9, SetupRestoresDoes
<1>10. CASE SetupWritesSites
  BY <1>10, SetupWritesSitesDoes
<1>11. ASSUME NEW ok \in BOOLEAN, SetupDials(ok) PROVE Excuses'
  BY <1>11, SetupDialsDoes
<1>12. ASSUME NEW kind \in {"disable", "purge"}, StartDisable(kind) PROVE Excuses'
  BY <1>12, StartDisableDoes
<1>13. CASE Purge
  BY <1>13, PurgeDoes
<1>14. CASE StartCheck
  BY <1>14, StartCheckDoes
<1>15. CASE WriteCandidate
  BY <1>15, WriteCandidateDoes
<1>16. CASE CheckFails
  BY <1>16, CheckFailsDoes DEF CutOff
<1>17. CASE StoppedWaiting
  BY <1>17, StoppedWaitingDoes
<1>18. CASE WaitEnds
  <2>1. PICK issued \in SUBSET Ips : Settles(issued)
    BY <1>18, WaitEndsDoes
  <2>. QED
    BY <2>1 DEF Settles
<1>19. CASE FinishCheck
  BY <1>19, FinishCheckDoes
<1>20. ASSUME NEW day \in SUBSET chk.status.failing, CheckNames(day) PROVE Excuses'
  BY <1>20, CheckNamesDoes
<1>21. CASE StartDaemon
  BY <1>21 DEF StartDaemon
<1>22. CASE StopDaemon
  BY <1>22 DEF StopDaemon
<1>23. CASE Kill
  BY <1>23, KillDoes DEF CutOff
<1>24. CASE Moves /\ UNCHANGED <<files, base, daemon, pending, chk, cli, job, lost, overlap, fresh, rounds>>
  BY <1>24
<1>25. CASE /\ OperatorEdits
            /\ UNCHANGED <<process, cfg, site, status, here, answers, memory, chk, cli, job, observed, rounds>>
  BY <1>25
<1>26. ASSUME NEW a \in Actors, NEW taken \in BOOLEAN, Restart(a, taken) PROVE Excuses'
  <2>1. CASE a = "cli"
    BY <1>26, <2>1, RestartDoes
  <2>2. CASE a = "check"
    BY <1>26, <2>2, RestartDoes
  <2>. QED
    BY <2>1, <2>2
<1>27. CASE SetupGivesUp
  BY <1>27, SetupGivesUpDoes
<1>. QED
  BY <1>1, <1>2, <1>3, <1>4, <1>5, <1>6, <1>7, <1>8, <1>9, <1>10, <1>11, <1>12, <1>13, <1>14, <1>15,
     <1>16, <1>17, <1>18, <1>19, <1>20, <1>21, <1>22, <1>23, <1>24, <1>25, <1>26, <1>27
     DEF Next, ApplyStep, SetupStep, DisableStep, CheckStep, Environment

LEMMA SitesStoredKept ==
    ASSUME IInv, [Next]_vars
    PROVE  SitesStored'
<1>. Typed /\ Steps /\ SitesStored /\ Apart(chk.config) /\ Actors = {"cli", "check"}
  BY DEF IInv, Disjoint, Actors
<1>. ~overlap => /\ chk.pc = "idle" \/ cli.pc = "idle"
                 /\ chk.pc \notin {"idle", "finish"} => chk.config = cfg /\ cfg.enabled
                 /\ \A a \in Actors : job[a].step = "restart" => job[a].config = cfg
  BY DEF IInv, Alone
<1>. cfg.enabled => cfg.there
  BY DEF IInv, Recorded
<1>. USE TypedFacts, NoneFields DEF SitesStored, Keeps, Steps, files, world, memory, observed, OnlyJobOf,
                 CheckOnly, CommandOnly, Goes, Built
<1>1. CASE UNCHANGED vars
  BY <1>1 DEF vars
<1>2. CASE ReadLatest
  BY <1>2, ReadLatestDoes
<1>3. ASSUME NEW a \in Actors, ReadKubo(a) PROVE SitesStored'
  <2>1. CASE a = "cli"
    BY <1>3, <2>1, ReadKuboDoes
  <2>2. CASE a = "check"
    BY <1>3, <2>2, ReadKuboDoes
  <2>. QED
    BY <2>1, <2>2
<1>4. ASSUME NEW a \in Actors, WriteKubo(a) PROVE SitesStored'
  <2>1. CASE a = "cli"
    BY <1>4, <2>1, WriteKuboDoes
  <2>2. CASE a = "check"
    BY <1>4, <2>2, WriteKuboDoes
  <2>. QED
    BY <2>1, <2>2
<1>5. ASSUME NEW a \in Actors, Save(a) PROVE SitesStored'
  <2>1. CASE a = "cli"
    BY <1>5, <2>1, SaveDoes
  <2>2. CASE a = "check"
    BY <1>5, <2>2, SaveDoes
  <2>. QED
    BY <2>1, <2>2
<1>6. CASE StartSetup
  BY <1>6, StartSetupDoes
<1>7. CASE SetupIssues
  BY <1>7, SetupIssuesDoes
<1>8. ASSUME NEW issued \in SUBSET CertificateNames, SetupWaited(issued) PROVE SitesStored'
  BY <1>8, SetupWaitedDoes
<1>9. CASE SetupRestores
  BY <1>9, SetupRestoresDoes
<1>10. CASE SetupWritesSites
  <2>1. /\ cli.pc = "sites" /\ cli'.pc = "apply" /\ cli'.kind = cli.kind /\ cli'.ips = cli.ips
        /\ cli'.issued = cli.issued /\ chk' = chk /\ cfg' = cfg /\ overlap' = overlap
        /\ site'.there /\ site'.ips = cli.ips \cap cli.issued /\ job'["cli"].config.ips = site'.ips
    BY <1>10, SetupWritesSitesDoes
  <2>2. cli.kind = "setup"
    BY <2>1
  <2>. QED
    BY <2>1, <2>2
<1>11. ASSUME NEW ok \in BOOLEAN, SetupDials(ok) PROVE SitesStored'
  <2>1. /\ cli.pc = "dial" /\ cli'.pc = "apply" /\ cli'.kind = cli.kind /\ cli'.ips = cli.ips
        /\ cli'.issued = cli.issued /\ chk' = chk /\ cfg' = cfg /\ overlap' = overlap /\ site' = site
        /\ job'["cli"].config.ips = cli.ips \cap cli.issued
    BY <1>11, SetupDialsDoes
  <2>2. cli.kind = "setup"
    BY <2>1
  <2>. QED
    BY <2>1, <2>2
<1>12. ASSUME NEW kind \in {"disable", "purge"}, StartDisable(kind) PROVE SitesStored'
  <2>1. /\ cli.pc = "idle" /\ cfg.there /\ overlap' = (overlap \/ chk.pc # "idle") /\ UNCHANGED <<cfg, site, chk>>
        /\ cli'.pc \in {"idle", "purge", "apply"} /\ (cli'.pc = "apply" => cli'.kind \in {"disable", "purge"})
    BY <1>12, StartDisableDoes
  <2>. QED
    BY <2>1
<1>13. CASE Purge
  BY <1>13, PurgeDoes
<1>14. CASE StartCheck
  BY <1>14, StartCheckDoes
<1>15. CASE WriteCandidate
  BY <1>15, WriteCandidateDoes
<1>16. CASE CheckFails
  BY <1>16, CheckFailsDoes DEF CutOff
<1>17. CASE StoppedWaiting
  BY <1>17, StoppedWaitingDoes
<1>18. CASE WaitEnds
  <2>1. PICK issued \in SUBSET Ips : Settles(issued)
    BY <1>18, WaitEndsDoes
  <2>. QED
    BY <2>1 DEF Settles
<1>19. CASE FinishCheck
  BY <1>19, FinishCheckDoes
<1>20. ASSUME NEW day \in SUBSET chk.status.failing, CheckNames(day) PROVE SitesStored'
  BY <1>20, CheckNamesDoes
<1>21. CASE StartDaemon
  BY <1>21 DEF StartDaemon
<1>22. CASE StopDaemon
  BY <1>22 DEF StopDaemon
<1>23. CASE Kill
  BY <1>23, KillDoes DEF CutOff
<1>24. CASE Moves /\ UNCHANGED <<files, base, daemon, pending, chk, cli, job, lost, overlap, fresh, rounds>>
  BY <1>24
<1>25. CASE /\ OperatorEdits
            /\ UNCHANGED <<process, cfg, site, status, here, answers, memory, chk, cli, job, observed, rounds>>
  BY <1>25
<1>26. ASSUME NEW a \in Actors, NEW taken \in BOOLEAN, Restart(a, taken) PROVE SitesStored'
  <2>1. CASE a = "cli"
    BY <1>26, <2>1, RestartDoes
  <2>2. CASE a = "check"
    BY <1>26, <2>2, RestartDoes
  <2>. QED
    BY <2>1, <2>2
<1>27. CASE SetupGivesUp
  BY <1>27, SetupGivesUpDoes
<1>. QED
  BY <1>1, <1>2, <1>3, <1>4, <1>5, <1>6, <1>7, <1>8, <1>9, <1>10, <1>11, <1>12, <1>13, <1>14, <1>15,
     <1>16, <1>17, <1>18, <1>19, <1>20, <1>21, <1>22, <1>23, <1>24, <1>25, <1>26, <1>27
     DEF Next, ApplyStep, SetupStep, DisableStep, CheckStep, Environment

LEMMA Kept ==
    ASSUME IInv, [Next]_vars
    PROVE  IInv'
<1>1. Typed'
  BY TypedKept DEF IInv, Disjoint
<1>. QED
  BY <1>1, StepsKept, RecordedKept, DisjointKept, AloneKept, WaitsKept, ExcusesKept, SitesStoredKept
     DEF IInv

\* Which steps change the config, and which give a check that looked at the names something to save.
ConfigMoves == cfg' # cfg => Purge \/ \E a \in Actors : Save(a)
NamesMove == chk.pc = "names" /\ chk'.pc = "apply" => \E day \in SUBSET chk.status.failing : CheckNames(day)

LEMMA WhoMoves ==
    ASSUME IInv, [Next]_vars
    PROVE  ConfigMoves /\ NamesMove
<1>. Typed /\ Steps /\ Apart(chk.config) /\ Actors = {"cli", "check"}
  BY DEF IInv, Disjoint, Actors
<1>. USE TypedFacts, NoneFields DEF ConfigMoves, NamesMove, files, world, memory, observed, CheckOnly, Goes
<1>1. CASE UNCHANGED vars
  BY <1>1 DEF vars
<1>2. CASE ReadLatest
  BY <1>2, ReadLatestDoes
<1>3. ASSUME NEW a \in Actors, ReadKubo(a) PROVE ConfigMoves /\ NamesMove
  <2>1. CASE a = "cli"
    BY <1>3, <2>1, ReadKuboDoes
  <2>2. CASE a = "check"
    BY <1>3, <2>2, ReadKuboDoes
  <2>. QED
    BY <2>1, <2>2
<1>4. ASSUME NEW a \in Actors, WriteKubo(a) PROVE ConfigMoves /\ NamesMove
  <2>1. CASE a = "cli"
    BY <1>4, <2>1, WriteKuboDoes
  <2>2. CASE a = "check"
    BY <1>4, <2>2, WriteKuboDoes
  <2>. QED
    BY <2>1, <2>2
<1>5. ASSUME NEW a \in Actors, Save(a) PROVE ConfigMoves /\ NamesMove
  <2>1. CASE a = "cli"
    BY <1>5, <2>1, SaveDoes
  <2>2. CASE a = "check"
    BY <1>5, <2>2, SaveDoes
  <2>. QED
    BY <2>1, <2>2
<1>6. CASE StartSetup
  BY <1>6, StartSetupDoes
<1>7. CASE SetupIssues
  BY <1>7, SetupIssuesDoes
<1>8. ASSUME NEW issued \in SUBSET CertificateNames, SetupWaited(issued) PROVE ConfigMoves /\ NamesMove
  BY <1>8, SetupWaitedDoes
<1>9. CASE SetupRestores
  BY <1>9, SetupRestoresDoes
<1>10. CASE SetupWritesSites
  BY <1>10, SetupWritesSitesDoes
<1>11. ASSUME NEW ok \in BOOLEAN, SetupDials(ok) PROVE ConfigMoves /\ NamesMove
  BY <1>11, SetupDialsDoes
<1>12. ASSUME NEW kind \in {"disable", "purge"}, StartDisable(kind) PROVE ConfigMoves /\ NamesMove
  BY <1>12, StartDisableDoes
<1>13. CASE Purge
  BY <1>13, PurgeDoes
<1>14. CASE StartCheck
  BY <1>14, StartCheckDoes
<1>15. CASE WriteCandidate
  BY <1>15, WriteCandidateDoes
<1>16. CASE CheckFails
  BY <1>16, CheckFailsDoes DEF CutOff
<1>17. CASE StoppedWaiting
  BY <1>17, StoppedWaitingDoes
<1>18. CASE WaitEnds
  <2>1. PICK issued \in SUBSET Ips : Settles(issued)
    BY <1>18, WaitEndsDoes
  <2>. QED
    BY <2>1 DEF Settles
<1>19. CASE FinishCheck
  BY <1>19, FinishCheckDoes
<1>20. ASSUME NEW day \in SUBSET chk.status.failing, CheckNames(day) PROVE ConfigMoves /\ NamesMove
  BY <1>20, CheckNamesDoes
<1>21. CASE StartDaemon
  BY <1>21 DEF StartDaemon
<1>22. CASE StopDaemon
  BY <1>22 DEF StopDaemon
<1>23. CASE Kill
  BY <1>23, KillDoes DEF CutOff
<1>24. CASE Moves /\ UNCHANGED <<files, base, daemon, pending, chk, cli, job, lost, overlap, fresh, rounds>>
  BY <1>24
<1>25. CASE /\ OperatorEdits
            /\ UNCHANGED <<process, cfg, site, status, here, answers, memory, chk, cli, job, observed, rounds>>
  BY <1>25
<1>26. ASSUME NEW a \in Actors, NEW taken \in BOOLEAN, Restart(a, taken) PROVE ConfigMoves /\ NamesMove
  <2>1. CASE a = "cli"
    BY <1>26, <2>1, RestartDoes
  <2>2. CASE a = "check"
    BY <1>26, <2>2, RestartDoes
  <2>. QED
    BY <2>1, <2>2
<1>27. CASE SetupGivesUp
  BY <1>27, SetupGivesUpDoes
<1>. QED
  BY <1>1, <1>2, <1>3, <1>4, <1>5, <1>6, <1>7, <1>8, <1>9, <1>10, <1>11, <1>12, <1>13, <1>14, <1>15,
     <1>16, <1>17, <1>18, <1>19, <1>20, <1>21, <1>22, <1>23, <1>24, <1>25, <1>26, <1>27
     DEF Next, ApplyStep, SetupStep, DisableStep, CheckStep, Environment

-----------------------------------------------------------------------------
(* The recorded edits undo to the operator's config, at every step of an apply *)

\* Nothing reads the record between the write of kubo's config and that of config.json: in between,
\* what the apply will store is what undoes.
AtSave(a) == job[a].step = "save"
Undoable ==
    /\ WellFormed(base)
    /\ \A a \in Actors : job[a].step = "kubo" /\ ~job[a].changed => job[a].plan = job[a].read
    /\ ~lost =>
       /\ (\A a \in Actors : ~AtSave(a)) => Undoes(kubo, cfg.edits, base)
       /\ \A a \in Actors : (\A b \in Actors \ {a} : ~AtSave(b)) =>
             /\ AtSave(a) => Undoes(kubo, job[a].config.edits, base)
             /\ job[a].step = "kubo" => Undoes(job[a].plan, job[a].config.edits, base)

LEMMA AnnouncedAreFinite ==
    ASSUME NEW announce \in SUBSET Addresses
    PROVE  IsFiniteSet(announce)
<1>1. IsFiniteSet(Named)
  <2>1. IsFiniteSet({"dns4"}) /\ IsFiniteSet({"dns6"}) /\ IsFiniteSet({Proxy})
    BY FS_Singleton
  <2>2. IsFiniteSet({"dns4"} \cup {"dns6"})
    BY <2>1, FS_Union
  <2>3. {"dns4"} \cup {"dns6"} = Protocols
    BY DEF Protocols
  <2>4. IsFiniteSet(Own(Domains))
    BY <2>2, <2>3, ConstantsOK, FS_Product DEF Own
  <2>. QED
    BY <2>1, <2>4, FS_Union DEF Named
<1>2. IsFiniteSet(Addresses)
  BY <1>1, ConstantsOK, FS_Union DEF Addresses
<1>. QED
  BY <1>2, FS_Subset

LEMMA UndoableAtFirst ==
    ASSUME Init
    PROVE  Undoable
<1>1. /\ base \in Bases /\ job = [a \in Actors |-> NoJob] /\ ~lost
      /\ \/ kubo = base /\ cfg = NoConfig
         \/ \E ips \in Hosts, enabled \in BOOLEAN : Configured(ips, {}, FALSE, enabled)
         \/ \E dropped \in BOOLEAN, d \in Domains : Configured(here, {d}, dropped, TRUE)
      /\ here \in Hosts
  BY DEF Init
<1>2. WellFormed(base)
  BY <1>1, ConstantsOK
<1>3. \A a \in Actors : job[a].step = "none"
  BY <1>1, NoneFields
<1>4. Undoes(kubo, cfg.edits, base)
  <2>1. CASE kubo = base /\ cfg = NoConfig
    BY <2>1, NoneFields, NothingDone
  <2>2. ASSUME NEW ips \in Hosts, NEW domain \in SUBSET Domains, NEW dropped \in BOOLEAN, NEW enabled \in BOOLEAN,
               Configured(ips, domain, dropped, enabled)
        PROVE  Undoes(kubo, cfg.edits, base)
    <3> DEFINE names == {"dns4"} \X domain
               announce == ips \cup (IF dropped THEN {} ELSE names)
               wss == announce # {}
               plan == PlanKuboConfig(base, wss, announce, NoEdits, enabled)
    <3>1. announce \in SUBSET Addresses /\ wss \in BOOLEAN
      <4>1. names \subseteq Named
        <5>1. names \subseteq Own(domain)
          BY DEF Own, Protocols
        <5>. QED
          BY <5>1, NamedFacts
      <4>2. ips \subseteq Ips
        BY ConstantsOK
      <4>. HIDE DEF names
      <4>. QED
        BY <4>1, <4>2, NamedFacts
    <3>2. kubo = plan.config /\ cfg.edits = plan.edits
      BY <2>2 DEF Configured
    <3>. HIDE DEF announce, wss
    <3>3. IsFiniteSet(announce)
      BY <3>1, AnnouncedAreFinite
    <3>4. NoEdits.kept \in BOOLEAN /\ Undoes(base, NoEdits, base)
      BY NoEditsTyped, NothingDone DEF Edits
    <3>5. Undoes(plan.config, plan.edits, base)
      BY <1>2, <3>1, <3>3, <3>4, PlanKeepsOwn
    <3>. QED
      BY <3>2, <3>5
  <2>. QED
    BY <1>1, <2>1, <2>2
<1>. QED
  BY <1>2, <1>3, <1>4 DEF Undoable, AtSave

\* A step that leaves kubo's config and the record alone, and starts, ends or stops an apply at most.
LEMMA UndoableStays ==
    ASSUME Undoable, kubo' = kubo, base' = base, lost => lost', ~lost' => cfg'.edits = cfg.edits,
           \A a \in Actors : \/ job'[a] = job[a]
                             \/ job'[a].step \notin {"kubo", "save"} /\ (job[a].step = "save" => lost')
    PROVE  Undoable'
<1>1. \A a \in Actors : job'[a].step \in {"kubo", "save"} => job'[a] = job[a]
  OBVIOUS
<1>2. ~lost' => \A a \in Actors : AtSave(a)' <=> AtSave(a)
  BY DEF AtSave
<1>3. /\ WellFormed(base')
      /\ \A a \in Actors : job'[a].step = "kubo" /\ ~job'[a].changed => job'[a].plan = job'[a].read
  BY <1>1 DEF Undoable
<1>4. ASSUME ~lost', \A a \in Actors : ~AtSave(a)'
      PROVE  Undoes(kubo', cfg'.edits, base')
  BY <1>2, <1>4 DEF Undoable
<1>5. ASSUME ~lost', NEW a \in Actors, \A b \in Actors \ {a} : ~AtSave(b)'
      PROVE  /\ AtSave(a)' => Undoes(kubo', job'[a].config.edits, base')
             /\ job'[a].step = "kubo" => Undoes(job'[a].plan, job'[a].config.edits, base')
  <2>1. ~lost /\ \A b \in Actors \ {a} : ~AtSave(b)
    BY <1>2, <1>5
  <2>2. /\ AtSave(a) => Undoes(kubo, job[a].config.edits, base)
        /\ job[a].step = "kubo" => Undoes(job[a].plan, job[a].config.edits, base)
    BY <2>1 DEF Undoable
  <2>. QED
    BY <1>1, <2>2 DEF AtSave
<1>. QED
  BY <1>3, <1>4, <1>5 DEF Undoable

LEMMA UndoableOnceRead ==
    ASSUME Typed, Undoable, NEW a \in Actors, ReadKubo(a)
    PROVE  Undoable'
<1> DEFINE c == job[a].config
           plan == PlanKuboConfig(kubo, c.serveWss, c.announce, c.edits, c.enabled)
<1>1. /\ job[a].step = "read" /\ job'[a].step = "kubo" /\ \A b \in Actors \ {a} : job'[b] = job[b]
      /\ Plans(job[a], job'[a]) /\ lost' = (lost \/ cfg.edits # c.edits)
      /\ kubo' = kubo /\ cfg' = cfg /\ base' = base
  BY ReadKuboDoes DEF OnlyJobOf, files, world
<1>2. /\ job'[a].read = kubo /\ job'[a].plan = plan.config /\ job'[a].changed = (plan.config # kubo)
      /\ job'[a].config.edits = plan.edits
  BY <1>1 DEF Plans
<1>3. c.serveWss \in BOOLEAN /\ IsFiniteSet(c.announce) /\ c.edits.kept \in BOOLEAN /\ c.enabled \in BOOLEAN
  <2>1. c \in Config
    BY TypedFacts, ApplyFacts
  <2>2. c.serveWss \in BOOLEAN /\ c.announce \subseteq Addresses /\ c.edits \in Edits /\ c.enabled \in BOOLEAN
    BY <2>1, ConfigFacts
  <2>. QED
    BY <2>2, AnnouncedAreFinite DEF Edits
<1>4. WellFormed(base)
  BY DEF Undoable
<1>5. ASSUME ~lost', \A b \in Actors \ {a} : ~AtSave(b)
      PROVE  Undoes(plan.config, plan.edits, base)
  <2>1. Undoes(kubo, cfg.edits, base) /\ cfg.edits = c.edits
    BY <1>1, <1>5 DEF Undoable, AtSave
  <2>. HIDE DEF c
  <2>. QED
    BY <1>3, <1>4, <2>1, PlanKeepsOwn
<1>. HIDE DEF plan, c
<1>6. \A b \in Actors : AtSave(b)' <=> AtSave(b)
  BY <1>1 DEF AtSave
<1>7. \A b \in Actors : job'[b].step = "kubo" /\ ~job'[b].changed => job'[b].plan = job'[b].read
  BY <1>1, <1>2 DEF Undoable
<1>8. ASSUME ~lost', \A b \in Actors : ~AtSave(b)'
      PROVE  Undoes(kubo', cfg'.edits, base')
  BY <1>1, <1>6, <1>8 DEF Undoable
<1>9. ASSUME ~lost', NEW b \in Actors, \A d \in Actors \ {b} : ~AtSave(d)'
      PROVE  /\ AtSave(b)' => Undoes(kubo', job'[b].config.edits, base')
             /\ job'[b].step = "kubo" => Undoes(job'[b].plan, job'[b].config.edits, base')
  <2>1. \A d \in Actors \ {b} : ~AtSave(d)
    BY <1>6, <1>9
  <2>2. CASE b = a
    BY <1>1, <1>2, <1>5, <1>9, <2>1, <2>2 DEF AtSave
  <2>3. CASE b # a
    <3>1. job'[b] = job[b] /\ ~lost
      BY <1>1, <1>9, <2>3
    <3>2. /\ AtSave(b) => Undoes(kubo, job[b].config.edits, base)
          /\ job[b].step = "kubo" => Undoes(job[b].plan, job[b].config.edits, base)
      BY <2>1, <3>1 DEF Undoable
    <3>. QED
      BY <1>1, <3>1, <3>2 DEF AtSave
  <2>. QED
    BY <2>2, <2>3
<1>. QED
  BY <1>1, <1>4, <1>7, <1>8, <1>9 DEF Undoable

LEMMA UndoableOnceWritten ==
    ASSUME Typed, Undoable, NEW a \in Actors, WriteKubo(a)
    PROVE  Undoable'
<1>1. /\ job[a].step = "kubo" /\ job'[a].step = "save" /\ \A b \in Actors \ {a} : job'[b] = job[b]
      /\ job'[a].config = job[a].config
      /\ kubo' = IF job[a].changed THEN job[a].plan ELSE kubo
      /\ lost' = (lost \/ kubo # job[a].read) /\ base' = base
  BY WriteKuboDoes DEF OnlyJobOf, world
<1>2. AtSave(a)'
  BY <1>1 DEF AtSave
<1>3. \A b \in Actors : job'[b].step = "kubo" /\ ~job'[b].changed => job'[b].plan = job'[b].read
  BY <1>1 DEF Undoable
<1>4. ASSUME ~lost', NEW b \in Actors, \A d \in Actors \ {b} : ~AtSave(d)'
      PROVE  /\ AtSave(b)' => Undoes(kubo', job'[b].config.edits, base')
             /\ job'[b].step = "kubo" => Undoes(job'[b].plan, job'[b].config.edits, base')
  <2>1. b = a
    BY <1>2, <1>4
  <2>2. ~lost /\ kubo = job[a].read /\ \A d \in Actors \ {a} : ~AtSave(d)
    BY <1>1, <1>4, <2>1 DEF AtSave
  <2>3. Undoes(job[a].plan, job[a].config.edits, base)
    BY <1>1, <2>2 DEF Undoable
  <2>4. kubo' = job[a].plan
    BY <1>1, <2>2 DEF Undoable
  <2>. QED
    BY <1>1, <2>1, <2>3, <2>4
<1>. QED
  BY <1>1, <1>2, <1>3, <1>4 DEF Undoable

LEMMA UndoableOnceSaved ==
    ASSUME Typed, Steps, Undoable, NEW a \in Actors, Save(a)
    PROVE  Undoable'
<1>1. /\ job[a].step = "save" /\ job'[a].step = "restart" /\ \A b \in Actors \ {a} : job'[b] = job[b]
      /\ cfg' = job[a].config /\ kubo' = kubo /\ base' = base /\ (lost => lost')
      /\ \A b \in Actors : b # a /\ job[b].step \in {"kubo", "save"} => lost'
  BY SaveDoes DEF OnlyJobOf, world
<1>2. \A b \in Actors : job'[b].step = "kubo" /\ ~job'[b].changed => job'[b].plan = job'[b].read
  BY <1>1 DEF Undoable
<1>3. ASSUME ~lost'
      PROVE  /\ \A b \in Actors : job'[b].step \notin {"kubo", "save"}
             /\ Undoes(kubo', cfg'.edits, base')
  <2>1. ~lost /\ \A b \in Actors \ {a} : job[b].step \notin {"kubo", "save"}
    BY <1>1, <1>3
  <2>2. Undoes(kubo, job[a].config.edits, base)
    BY <1>1, <2>1 DEF Undoable, AtSave
  <2>. QED
    BY <1>1, <2>1, <2>2
<1>. QED
  BY <1>1, <1>2, <1>3 DEF Undoable, AtSave

LEMMA UndoableForTheOperator ==
    ASSUME Typed, Steps, Undoable, OperatorEdits, cfg' = cfg, job' = job, lost' = lost
    PROVE  Undoable'
<1>1. \A a \in Actors : job[a].step = "none"
  BY OperatorEditsDoes DEF Steps, Actors
<1>2. WellFormed(base) /\ (~lost => Undoes(kubo, cfg.edits, base))
  BY <1>1 DEF Undoable, AtSave
<1>3. cfg.edits.kept \in BOOLEAN /\ NoEdits.kept \in BOOLEAN
  BY TypedFacts, ConfigFacts, NoEditsTyped DEF Edits
<1>4. WellFormed(base') /\ (~lost => Undoes(kubo', cfg.edits, base'))
  <2>1. ASSUME NEW x \in OperatorsOwn,
               kubo' = [kubo EXCEPT !.announce = Field("present", Append(kubo.announce.items, x))],
               base' = [base EXCEPT !.announce = Field("present", Append(base.announce.items, x))]
        PROVE  WellFormed(base') /\ (~lost => Undoes(kubo', cfg.edits, base'))
    <3>1. WellFormed(base')
      BY <1>2, <1>3, <2>1, NothingDone, AppendedToBoth
    <3>2. ~lost => Undoes(kubo', cfg.edits, base')
      BY <1>2, <1>3, <2>1, AppendedToBoth
    <3>. QED
      BY <3>1, <3>2
  <2>2. ASSUME kubo' = [kubo EXCEPT !.tls = "true"], base' = [base EXCEPT !.tls = "true"]
        PROVE  WellFormed(base') /\ (~lost => Undoes(kubo', cfg.edits, base'))
    <3>1. WellFormed(base')
      BY <1>2, <1>3, <2>2, NothingDone, SwitchedInBoth
    <3>2. ~lost => Undoes(kubo', cfg.edits, base')
      BY <1>2, <1>3, <2>2, SwitchedInBoth
    <3>. QED
      BY <3>1, <3>2
  <2>. QED
    BY <2>1, <2>2 DEF OperatorEdits
<1>. QED
  BY <1>1, <1>4 DEF Undoable, AtSave

LEMMA UndoableKept ==
    ASSUME IInv, Undoable, [Next]_vars
    PROVE  Undoable'
<1>. Typed /\ Steps /\ Recorded /\ Apart(chk.config) /\ Actors = {"cli", "check"}
  BY DEF IInv, Disjoint, Actors
<1>. USE TypedFacts, NoneFields, UndoableStays DEF Steps, files, world, memory, observed, OnlyJobOf
<1>1. CASE UNCHANGED vars
  BY <1>1 DEF vars
<1>2. CASE ReadLatest
  BY <1>2, ReadLatestDoes
<1>3. ASSUME NEW a \in Actors, ReadKubo(a) PROVE Undoable'
  BY <1>3, UndoableOnceRead
<1>4. ASSUME NEW a \in Actors, WriteKubo(a) PROVE Undoable'
  BY <1>4, UndoableOnceWritten
<1>5. ASSUME NEW a \in Actors, Save(a) PROVE Undoable'
  BY <1>5, UndoableOnceSaved
<1>6. CASE StartSetup
  BY <1>6, StartSetupDoes
<1>7. CASE SetupIssues
  BY <1>7, SetupIssuesDoes
<1>8. ASSUME NEW issued \in SUBSET CertificateNames, SetupWaited(issued) PROVE Undoable'
  BY <1>8, SetupWaitedDoes
<1>9. CASE SetupRestores
  BY <1>9, SetupRestoresDoes
<1>10. CASE SetupWritesSites
  BY <1>10, SetupWritesSitesDoes
<1>11. ASSUME NEW ok \in BOOLEAN, SetupDials(ok) PROVE Undoable'
  BY <1>11, SetupDialsDoes
<1>12. ASSUME NEW kind \in {"disable", "purge"}, StartDisable(kind) PROVE Undoable'
  BY <1>12, StartDisableDoes
<1>13. CASE Purge
  BY <1>13, PurgeDoes DEF Recorded
<1>14. CASE StartCheck
  BY <1>14, StartCheckDoes
<1>15. CASE WriteCandidate
  BY <1>15, WriteCandidateDoes
<1>16. CASE CheckFails
  BY <1>16, CheckFailsDoes DEF CutOff
<1>17. CASE StoppedWaiting
  BY <1>17, StoppedWaitingDoes
<1>18. CASE WaitEnds
  <2>1. PICK issued \in SUBSET Ips : Settles(issued)
    BY <1>18, WaitEndsDoes
  <2>. QED
    BY <1>18, <2>1 DEF Settles, WaitEnds
<1>19. CASE FinishCheck
  BY <1>19, FinishCheckDoes
<1>20. ASSUME NEW day \in SUBSET chk.status.failing, CheckNames(day) PROVE Undoable'
  BY <1>20, CheckNamesDoes
<1>21. CASE StartDaemon
  BY <1>21 DEF StartDaemon
<1>22. CASE StopDaemon
  BY <1>22 DEF StopDaemon
<1>23. CASE Kill
  BY <1>23, KillDoes DEF CutOff
<1>24. CASE Moves /\ UNCHANGED <<files, base, daemon, pending, chk, cli, job, lost, overlap, fresh, rounds>>
  BY <1>24
<1>25. CASE /\ OperatorEdits
            /\ UNCHANGED <<process, cfg, site, status, here, answers, memory, chk, cli, job, observed, rounds>>
  BY <1>25, UndoableForTheOperator
<1>26. ASSUME NEW a \in Actors, NEW taken \in BOOLEAN, Restart(a, taken) PROVE Undoable'
  BY <1>26, RestartDoes
<1>27. CASE SetupGivesUp
  BY <1>27, SetupGivesUpDoes
<1>. QED
  BY <1>1, <1>2, <1>3, <1>4, <1>5, <1>6, <1>7, <1>8, <1>9, <1>10, <1>11, <1>12, <1>13, <1>14, <1>15,
     <1>16, <1>17, <1>18, <1>19, <1>20, <1>21, <1>22, <1>23, <1>24, <1>25, <1>26, <1>27
     DEF Next, ApplyStep, SetupStep, DisableStep, CheckStep, Environment

-----------------------------------------------------------------------------
(* What kubo's file announces, and what the kubo that runs does *)

Announces(k, c) == c.enabled => c.announce \subseteq ToSet(k.announce.items)
RunsStored == IF cfg.enabled THEN cfg.announce \subseteq running ELSE running \subseteq ToSet(kubo.announce.items)

\* An apply that changed kubo's file, and has not stored its config; or has not had kubo restarted.
Written(a) == AtSave(a) /\ job[a].changed
Unloaded(a) == job[a].step \in {"save", "restart"} /\ job[a].changed

Announcing ==
    /\ IsList(kubo.announce.items)
    /\ \A a \in Actors : job[a].step = "kubo" =>
          IsList(job[a].plan.announce.items) /\ Announces(job[a].plan, job[a].config)
    /\ ~lost /\ (\A a \in Actors : ~Written(a)) => Announces(kubo, cfg)
    /\ \A a \in Actors : ~lost /\ AtSave(a) /\ (\A b \in Actors \ {a} : ~AtSave(b))
                         => Announces(kubo, job[a].config)
    /\ ~lost /\ verified /\ (\A a \in Actors : ~Unloaded(a)) => RunsStored

LEMMA SomePositions ==
    ASSUME NEW items, IsList(items), NEW positions \in SUBSET DOMAIN items
    PROVE  IsList(AtPositions(items, positions))
<1> DEFINE n == Cardinality(positions)
           at(k) == items[CHOOSE i \in positions : Cardinality({j \in positions : j <= i}) = k]
           s == AtPositions(items, positions)
<1>1. IsFiniteSet(positions)
  <2>1. Len(items) \in Nat /\ DOMAIN items = 1..Len(items)
    BY ListFacts
  <2>2. IsFiniteSet(1..Len(items))
    BY <2>1, FS_Interval
  <2>. QED
    BY <2>1, <2>2, FS_Subset
<1>2. n \in Nat
  BY <1>1, FS_CardinalityType
<1>3. s = [k \in 1..n |-> at(k)]
  BY DEF AtPositions
<1>. HIDE DEF n, at, s
<1>4. s = [k \in 1..n |-> s[k]]
  BY <1>3
<1>5. IsList(s)
  BY <1>2, <1>4, MadeList
<1>. QED
  BY <1>5 DEF s

LEMMA UndoneIsList ==
    ASSUME NEW field, IsList(field.items), NEW entries, NEW shape
    PROVE  IsList(UndoList(field, entries, shape).items)
<1> DEFINE left == WithoutOneOfEach(field.items, entries)
<1>1. IsList(left)
  BY SomePositions DEF WithoutOneOfEach
<1>2. IsList(<<>>)
  <2>1. <<>> \in Seq({})
    OBVIOUS
  <2>. QED
    BY <2>1, SequenceIsList
<1>. HIDE DEF left
<1>3. UndoList(field, entries, shape) = RestoreShape(Field(field.shape, left), shape)
  BY DEF UndoList, left
<1>. QED
  BY <1>1, <1>2, <1>3 DEF RestoreShape, Field

LEMMA AllAreListed ==
    ASSUME NEW field, IsList(field.items), NEW entries, IsFiniteSet(entries)
    PROVE  LET items == AppendMissing(field, entries).items
           IN  IsList(items) /\ entries \subseteq ToSet(items)
<1> DEFINE own == field.items
           s == SetToSeq(entries \ ToSet(own))
           items == own \o s
<1>1. IsList(s) /\ Len(s) \in Nat /\ \A e \in entries \ ToSet(own) : \E i \in 1..Len(s) : s[i] = e
  BY FS_Difference, SequenceOfSet
<1>. HIDE DEF s
<1>2. /\ IsList(items) /\ Len(items) = Len(own) + Len(s)
      /\ \A i \in 1..Len(own) : items[i] = own[i]
      /\ \A i \in 1..Len(s) : items[i + Len(own)] = s[i]
  BY <1>1, Concatenated
<1>3. AppendMissing(field, entries).items = items
  BY DEF AppendMissing, Field, s
<1>. HIDE DEF items
<1>4. Len(own) \in Nat /\ ToSet(own) = {own[i] : i \in 1..Len(own)} /\ ToSet(items) = {items[i] : i \in 1..Len(items)}
  BY <1>2, ListFacts
<1>5. ASSUME NEW e \in entries PROVE e \in ToSet(items)
  <2>1. CASE e \in ToSet(own)
    <3>1. PICK i \in 1..Len(own) : own[i] = e
      BY <1>4, <2>1
    <3>2. i \in 1..Len(items) /\ items[i] = e
      BY <1>1, <1>2, <1>4, <3>1
    <3>. QED
      BY <1>4, <3>2
  <2>2. CASE e \notin ToSet(own)
    <3>1. PICK i \in 1..Len(s) : s[i] = e
      BY <1>1, <2>2
    <3>2. i + Len(own) \in 1..Len(items) /\ items[i + Len(own)] = e
      BY <1>1, <1>2, <1>4, <3>1
    <3>. QED
      BY <1>4, <3>2
  <2>. QED
    BY <2>1, <2>2
<1>. QED
  BY <1>2, <1>3, <1>5

\* A plan announces all the addresses of an enabled config.
LEMMA PlanAnnounces ==
    ASSUME NEW k, KuboConfig(k), IsList(k.announce.items), NEW serveWss \in BOOLEAN, NEW announce,
           IsFiniteSet(announce), NEW e \in Edits, NEW enabled \in BOOLEAN
    PROVE  LET plan == PlanKuboConfig(k, serveWss, announce, e, enabled)
           IN  /\ IsList(plan.config.announce.items)
               /\ enabled => announce \subseteq ToSet(plan.config.announce.items)
<1> DEFINE u == UndoListEdits(k, e)
           undone == IF e.kept THEN u ELSE k
<1>1. DOMAIN k = {"swarm", "announce", "filters", "tls"}
  BY DEF KuboConfig
<1>2. u.announce = UndoList(k.announce, e.announce, e.announceShape)
  BY <1>1 DEF UndoListEdits
<1>3. IsList(u.announce.items)
  BY <1>2, UndoneIsList
<1>4. RestoreAutoTls(u, e.tls).announce = u.announce
  BY DEF RestoreAutoTls
<1>5. CASE enabled
  <2>1. Redo(k, serveWss, announce, e).config.announce = AppendMissing(undone.announce, announce)
    BY DEF Redo
  <2>2. IsList(undone.announce.items)
    BY <1>3
  <2>. HIDE DEF undone
  <2>. QED
    BY <1>5, <2>1, <2>2, AllAreListed DEF PlanKuboConfig
<1>6. CASE ~enabled
  <2>1. PlanKuboConfig(k, serveWss, announce, e, enabled).config = IF e.kept THEN RestoreAutoTls(u, e.tls) ELSE k
    BY <1>6 DEF PlanKuboConfig, UndoAll
  <2>. HIDE DEF u
  <2>. QED
    BY <1>3, <1>4, <1>6, <2>1
<1>. QED
  BY <1>5, <1>6

LEMMA AnnouncingAtFirst ==
    ASSUME Init
    PROVE  Announcing
<1>1. /\ base \in Bases /\ job = [a \in Actors |-> NoJob] /\ running = ToSet(kubo.announce.items)
      /\ \/ kubo = base /\ cfg = NoConfig
         \/ \E ips \in Hosts, enabled \in BOOLEAN : Configured(ips, {}, FALSE, enabled)
         \/ \E dropped \in BOOLEAN, d \in Domains : Configured(here, {d}, dropped, TRUE)
      /\ here \in Hosts
  BY DEF Init
<1>2. KuboConfig(base) /\ IsList(base.announce.items)
  BY <1>1, ConstantsOK, WellFormedFacts DEF WellFormed
<1>3. \A a \in Actors : job[a].step = "none"
  BY <1>1, NoneFields
<1>4. IsList(kubo.announce.items) /\ Announces(kubo, cfg)
  <2>1. CASE kubo = base /\ cfg = NoConfig
    BY <1>2, <2>1, NoneFields DEF Announces
  <2>2. ASSUME NEW ips \in Hosts, NEW domain \in SUBSET Domains, NEW dropped \in BOOLEAN, NEW enabled \in BOOLEAN,
               Configured(ips, domain, dropped, enabled)
        PROVE  IsList(kubo.announce.items) /\ Announces(kubo, cfg)
    <3> DEFINE names == {"dns4"} \X domain
               announce == ips \cup (IF dropped THEN {} ELSE names)
               wss == announce # {}
               plan == PlanKuboConfig(base, wss, announce, NoEdits, enabled)
    <3>1. announce \in SUBSET Addresses /\ wss \in BOOLEAN
      <4>1. names \subseteq Named
        <5>1. names \subseteq Own(domain)
          BY DEF Own, Protocols
        <5>. QED
          BY <5>1, NamedFacts
      <4>2. ips \subseteq Ips
        BY ConstantsOK
      <4>. HIDE DEF names
      <4>. QED
        BY <4>1, <4>2, NamedFacts
    <3>2. kubo = plan.config /\ cfg.enabled = enabled /\ cfg.announce = announce
      BY <2>2 DEF Configured
    <3>. HIDE DEF announce, wss
    <3>3. IsFiniteSet(announce) /\ NoEdits \in Edits
      BY <3>1, AnnouncedAreFinite, NoEditsTyped
    <3>4. IsList(plan.config.announce.items) /\ (enabled => announce \subseteq ToSet(plan.config.announce.items))
      BY <1>2, <3>1, <3>3, PlanAnnounces
    <3>. QED
      BY <3>2, <3>4 DEF Announces
  <2>. QED
    BY <1>1, <2>1, <2>2
<1>. QED
  BY <1>1, <1>3, <1>4 DEF Announcing, Announces, RunsStored, AtSave

\* A step that leaves the files and kubo alone, and starts, ends or stops an apply at most.
LEMMA AnnouncingStays ==
    ASSUME Announcing, kubo' = kubo, running' = running, lost => lost', verified' => verified,
           ~lost' => cfg'.enabled = cfg.enabled /\ (cfg.enabled => cfg'.announce = cfg.announce),
           \A a \in Actors : \/ job'[a] = job[a]
                             \/ /\ job'[a].step \notin {"kubo", "save", "restart"}
                                /\ job[a].step = "save" => lost'
                                /\ job[a].step = "restart" => ~verified'
    PROVE  Announcing'
<1>1. /\ IsList(kubo'.announce.items)
      /\ \A a \in Actors : job'[a].step = "kubo" =>
            IsList(job'[a].plan.announce.items) /\ Announces(job'[a].plan, job'[a].config)
  BY DEF Announcing
<1>2. ASSUME ~lost' PROVE \A a \in Actors : (AtSave(a)' <=> AtSave(a)) /\ (Written(a)' <=> Written(a))
  BY <1>2 DEF AtSave, Written
<1>3. ASSUME ~lost', \A a \in Actors : ~Written(a)' PROVE Announces(kubo', cfg')
  BY <1>2, <1>3 DEF Announcing, Announces
<1>4. ASSUME NEW a \in Actors, ~lost', AtSave(a)', \A b \in Actors \ {a} : ~AtSave(b)'
      PROVE  Announces(kubo', job'[a].config)
  <2>1. job'[a] = job[a] /\ ~lost /\ AtSave(a) /\ \A b \in Actors \ {a} : ~AtSave(b)
    BY <1>2, <1>4 DEF AtSave
  <2>. QED
    BY <2>1 DEF Announcing, Announces
<1>5. ASSUME ~lost', verified', \A a \in Actors : ~Unloaded(a)' PROVE RunsStored'
  <2>1. ~lost /\ verified /\ \A a \in Actors : ~Unloaded(a)
    BY <1>5 DEF Unloaded
  <2>. QED
    BY <1>5, <2>1 DEF Announcing, RunsStored
<1>. QED
  BY <1>1, <1>3, <1>4, <1>5 DEF Announcing

LEMMA AnnouncingOnceRead ==
    ASSUME Typed, Announcing, NEW a \in Actors, ReadKubo(a)
    PROVE  Announcing'
<1> DEFINE c == job[a].config
           plan == PlanKuboConfig(kubo, c.serveWss, c.announce, c.edits, c.enabled)
<1>1. /\ job[a].step = "read" /\ job'[a].step = "kubo" /\ \A b \in Actors \ {a} : job'[b] = job[b]
      /\ Keeps(c, job'[a].config) /\ job'[a].config.enabled = c.enabled
      /\ Plans(job[a], job'[a]) /\ (lost => lost')
      /\ kubo' = kubo /\ cfg' = cfg /\ running' = running /\ verified' = verified
  BY ReadKuboDoes DEF OnlyJobOf, files, process
<1>2. job'[a].plan = plan.config
  BY <1>1 DEF Plans
<1>3. /\ c.serveWss \in BOOLEAN /\ IsFiniteSet(c.announce) /\ c.edits \in Edits /\ c.enabled \in BOOLEAN
      /\ KuboConfig(kubo)
  <2>1. c \in Config
    BY TypedFacts, ApplyFacts
  <2>2. c.serveWss \in BOOLEAN /\ c.announce \subseteq Addresses /\ c.edits \in Edits /\ c.enabled \in BOOLEAN
    BY <2>1, ConfigFacts
  <2>. QED
    BY <2>2, TypedFacts, AnnouncedAreFinite
<1>. HIDE DEF c
<1>4. IsList(plan.config.announce.items) /\ (c.enabled => c.announce \subseteq ToSet(plan.config.announce.items))
  BY <1>3, PlanAnnounces DEF Announcing
<1>. HIDE DEF plan
<1>5. IsList(job'[a].plan.announce.items) /\ Announces(job'[a].plan, job'[a].config)
  BY <1>1, <1>2, <1>4 DEF Announces, Keeps
<1>6. \A b \in Actors : /\ (AtSave(b)' <=> AtSave(b)) /\ (Written(b)' <=> Written(b)) /\ (Unloaded(b)' <=> Unloaded(b))
                        /\ AtSave(b) => job'[b] = job[b]
  BY <1>1 DEF AtSave, Written, Unloaded
<1>7. \A b \in Actors : job'[b].step = "kubo" =>
         IsList(job'[b].plan.announce.items) /\ Announces(job'[b].plan, job'[b].config)
  BY <1>1, <1>5 DEF Announcing
<1>. QED
  BY <1>1, <1>6, <1>7 DEF Announcing, Announces, RunsStored

LEMMA AnnouncingOnceWritten ==
    ASSUME Typed, Undoable, Announcing, NEW a \in Actors, WriteKubo(a)
    PROVE  Announcing'
<1>1. /\ job[a].step = "kubo" /\ job'[a].step = "save" /\ \A b \in Actors \ {a} : job'[b] = job[b]
      /\ job'[a].config = job[a].config /\ job'[a].changed = job[a].changed
      /\ kubo' = IF job[a].changed THEN job[a].plan ELSE kubo
      /\ lost' = (lost \/ kubo # job[a].read)
      /\ cfg' = cfg /\ running' = running /\ verified' = verified
  BY WriteKuboDoes DEF OnlyJobOf, process
<1>2. IsList(kubo'.announce.items)
  BY <1>1 DEF Announcing
<1>3. \A b \in Actors : job'[b].step = "kubo" =>
         IsList(job'[b].plan.announce.items) /\ Announces(job'[b].plan, job'[b].config)
  BY <1>1 DEF Announcing
<1>4. AtSave(a)' /\ (job[a].changed => Written(a)' /\ Unloaded(a)')
  BY <1>1 DEF AtSave, Written, Unloaded
<1>5. ASSUME ~job[a].changed
      PROVE  kubo' = kubo /\ \A b \in Actors : (Written(b)' <=> Written(b)) /\ (Unloaded(b)' <=> Unloaded(b))
  BY <1>1, <1>5 DEF AtSave, Written, Unloaded
<1>6. ASSUME ~lost', \A b \in Actors : ~Written(b)' PROVE Announces(kubo', cfg')
  BY <1>1, <1>4, <1>5, <1>6 DEF Announcing, Announces
<1>7. ASSUME NEW b \in Actors, ~lost', AtSave(b)', \A d \in Actors \ {b} : ~AtSave(d)'
      PROVE  Announces(kubo', job'[b].config)
  <2>1. b = a
    BY <1>4, <1>7
  <2>2. kubo' = job[a].plan
    BY <1>1, <1>7 DEF Undoable
  <2>. QED
    BY <1>1, <2>1, <2>2 DEF Announcing, Announces
<1>8. ASSUME ~lost', verified', \A b \in Actors : ~Unloaded(b)' PROVE RunsStored'
  BY <1>1, <1>4, <1>5, <1>8 DEF Announcing, RunsStored
<1>. QED
  BY <1>2, <1>3, <1>6, <1>7, <1>8 DEF Announcing

LEMMA AnnouncingOnceSaved ==
    ASSUME Typed, Steps, Announcing, NEW a \in Actors, Save(a)
    PROVE  Announcing'
<1>1. /\ job[a].step = "save" /\ job'[a].step = "restart" /\ \A b \in Actors \ {a} : job'[b] = job[b]
      /\ job'[a].changed = job[a].changed
      /\ cfg' = job[a].config /\ kubo' = kubo /\ running' = running /\ (lost => lost')
      /\ \A b \in Actors : b # a /\ job[b].step \in {"kubo", "save"} => lost'
      /\ verified' => verified /\ (job[a].changed \/ (cfg'.enabled = cfg.enabled /\ cfg'.announce \subseteq cfg.announce))
  BY SaveDoes DEF OnlyJobOf
<1>2. /\ IsList(kubo'.announce.items)
      /\ \A b \in Actors : job'[b].step = "kubo" =>
            IsList(job'[b].plan.announce.items) /\ Announces(job'[b].plan, job'[b].config)
  BY <1>1 DEF Announcing
<1>3. ASSUME ~lost' PROVE Announces(kubo', cfg') /\ \A b \in Actors : ~AtSave(b)'
  BY <1>1, <1>3 DEF Announcing, Announces, AtSave
<1>4. ASSUME ~lost', verified', \A b \in Actors : ~Unloaded(b)' PROVE RunsStored'
  <2>1. ~job[a].changed /\ ~lost /\ verified /\ \A b \in Actors : ~Unloaded(b)
    BY <1>1, <1>4 DEF Unloaded
  <2>2. cfg'.enabled = cfg.enabled /\ cfg'.announce \subseteq cfg.announce
    BY <1>1, <1>4, <2>1
  <2>3. RunsStored
    BY <2>1 DEF Announcing
  <2>. QED
    BY <1>1, <2>2, <2>3 DEF RunsStored
<1>. QED
  BY <1>2, <1>3, <1>4 DEF Announcing

LEMMA AnnouncingOnceRestarted ==
    ASSUME Typed, Steps, Announcing, NEW a \in Actors, NEW taken \in BOOLEAN, Restart(a, taken)
    PROVE  Announcing'
<1>1. /\ job[a].step = "restart" /\ job'[a].step = "none" /\ \A b \in Actors \ {a} : job'[b] = job[b]
      /\ running' = IF RestartDue(a) /\ taken THEN ToSet(kubo.announce.items) ELSE running
      /\ verified' = IF RestartDue(a) THEN taken ELSE verified \/ (Compares(a) /\ taken /\ cfg = job[a].config)
      /\ kubo' = kubo /\ cfg' = cfg /\ lost' = lost
  BY RestartDoes, NoneFields DEF OnlyJobOf, observed
<1>2. \A b \in Actors : (AtSave(b)' <=> AtSave(b)) /\ (Written(b)' <=> Written(b)) /\ (AtSave(b) => job'[b] = job[b])
  BY <1>1 DEF AtSave, Written
<1>3. /\ IsList(kubo'.announce.items)
      /\ \A b \in Actors : job'[b].step = "kubo" =>
            IsList(job'[b].plan.announce.items) /\ Announces(job'[b].plan, job'[b].config)
  BY <1>1 DEF Announcing
<1>4. ASSUME ~lost', \A b \in Actors : ~Written(b)' PROVE Announces(kubo', cfg')
  BY <1>1, <1>2, <1>4 DEF Announcing, Announces
<1>5. ASSUME NEW b \in Actors, ~lost', AtSave(b)', \A d \in Actors \ {b} : ~AtSave(d)'
      PROVE  Announces(kubo', job'[b].config)
  BY <1>1, <1>2, <1>5 DEF Announcing, Announces
<1>6. ASSUME ~lost', verified', \A b \in Actors : ~Unloaded(b)' PROVE RunsStored'
  <2>1. CASE RestartDue(a)
    <3>1. running' = ToSet(kubo.announce.items)
      BY <1>1, <1>6, <2>1
    <3>2. \A b \in Actors : ~Written(b)'
      BY <1>6 DEF Written, AtSave, Unloaded
    <3>3. Announces(kubo', cfg')
      BY <1>4, <1>6, <3>2
    <3>. QED
      BY <1>1, <3>1, <3>3 DEF RunsStored, Announces
  <2>2. CASE ~RestartDue(a) /\ verified
    <3>1. \A b \in Actors : ~Unloaded(b)
      BY <1>1, <1>6, <2>2 DEF Unloaded, RestartDue
    <3>. QED
      BY <1>1, <1>6, <2>2, <3>1 DEF Announcing, RunsStored
  <2>3. CASE ~RestartDue(a) /\ Compares(a) /\ cfg = job[a].config
    <3>1. cfg.announce \subseteq running /\ running' = running
      BY <1>1, <2>3 DEF RestartDue
    <3>2. cfg.enabled
      BY <1>1, <2>3 DEF Compares, Steps
    <3>. QED
      BY <1>1, <3>1, <3>2 DEF RunsStored
  <2>. QED
    BY <1>1, <1>6, <2>1, <2>2, <2>3
<1>. QED
  BY <1>3, <1>4, <1>5, <1>6 DEF Announcing

LEMMA AnnouncingOnceStarted ==
    ASSUME Announcing, StartDaemon
    PROVE  Announcing'
<1>1. /\ kubo' = kubo /\ cfg' = cfg /\ job' = job /\ lost' = lost
      /\ (running' = ToSet(kubo.announce.items) /\ verified') \/ (running' = running /\ verified' = verified)
  BY DEF StartDaemon, process
<1>2. ASSUME ~lost, \A a \in Actors : ~Unloaded(a), running' = ToSet(kubo.announce.items) PROVE RunsStored'
  <2>1. Announces(kubo, cfg)
    BY <1>2 DEF Announcing, Written, AtSave, Unloaded
  <2>. QED
    BY <1>1, <1>2, <2>1 DEF Announces, RunsStored
<1>3. /\ IsList(kubo'.announce.items)
      /\ \A a \in Actors : job'[a].step = "kubo" =>
            IsList(job'[a].plan.announce.items) /\ Announces(job'[a].plan, job'[a].config)
      /\ ~lost' /\ (\A a \in Actors : ~Written(a)') => Announces(kubo', cfg')
      /\ \A a \in Actors : ~lost' /\ AtSave(a)' /\ (\A b \in Actors \ {a} : ~AtSave(b)')
                           => Announces(kubo', job'[a].config)
  BY <1>1 DEF Announcing, Announces, Written, AtSave
<1>4. ASSUME ~lost', verified', \A a \in Actors : ~Unloaded(a)' PROVE RunsStored'
  BY <1>1, <1>2, <1>4 DEF Announcing, Unloaded, RunsStored
<1>. QED
  BY <1>3, <1>4 DEF Announcing

LEMMA AnnouncingForTheOperator ==
    ASSUME Typed, Steps, Announcing, OperatorEdits, UNCHANGED <<process, cfg, job, lost>>
    PROVE  Announcing'
<1>1. \A a \in Actors : job[a].step = "none"
  BY OperatorEditsDoes DEF Steps, Actors
<1>2. DOMAIN kubo = {"swarm", "announce", "filters", "tls"} /\ IsList(kubo.announce.items)
  BY TypedFacts DEF KuboConfig, Announcing
<1>3. IsList(kubo'.announce.items) /\ ToSet(kubo.announce.items) \subseteq ToSet(kubo'.announce.items)
  <2>1. ASSUME NEW e, kubo' = [kubo EXCEPT !.announce = Field("present", Append(@.items, e))]
        PROVE  IsList(kubo'.announce.items) /\ ToSet(kubo.announce.items) \subseteq ToSet(kubo'.announce.items)
    <3> DEFINE items == kubo.announce.items
               T == ToSet(items) \cup {e}
    <3>1. kubo'.announce.items = Append(items, e)
      BY <1>2, <2>1 DEF Field
    <3>2. items \in Seq(T) /\ e \in T /\ Len(items) \in Nat
      <4>1. items \in Seq(ToSet(items)) /\ Len(items) \in Nat
        BY <1>2 DEF IsList
      <4>. QED
        BY <4>1
    <3>. HIDE DEF items, T
    <3>3. /\ Append(items, e) \in Seq(T) /\ Len(Append(items, e)) = Len(items) + 1
          /\ \A i \in 1..Len(items) : Append(items, e)[i] = items[i]
      BY <3>2, AppendProperties
    <3>4. IsList(Append(items, e))
      BY <3>3, SequenceIsList
    <3>5. ToSet(items) = {items[i] : i \in 1..Len(items)}
      BY <1>2, ListFacts DEF items
    <3>6. ToSet(Append(items, e)) = {Append(items, e)[i] : i \in 1..(Len(items) + 1)}
      BY <3>3, <3>4, ListFacts
    <3>7. ToSet(items) \subseteq ToSet(Append(items, e))
      BY <3>2, <3>3, <3>5, <3>6
    <3>. QED
      BY <3>1, <3>4, <3>7 DEF items
  <2>2. CASE kubo' = [kubo EXCEPT !.tls = "true"]
    BY <1>2, <2>2
  <2>. QED
    BY <2>1, <2>2 DEF OperatorEdits
<1>4. (~lost => Announces(kubo, cfg)) /\ (~lost /\ verified => RunsStored)
  BY <1>1 DEF Announcing, Written, Unloaded, AtSave
<1>. QED
  BY <1>1, <1>3, <1>4 DEF Announcing, Announces, RunsStored, AtSave, process

LEMMA AnnouncingKept ==
    ASSUME IInv, Undoable, Announcing, [Next]_vars
    PROVE  Announcing'
<1>. Typed /\ Steps /\ Recorded /\ Apart(chk.config) /\ Actors = {"cli", "check"}
  BY DEF IInv, Disjoint, Actors
<1>. USE TypedFacts, NoneFields, AnnouncingStays DEF Steps, files, process, world, memory, observed, OnlyJobOf
<1>1. CASE UNCHANGED vars
  BY <1>1 DEF vars
<1>2. CASE ReadLatest
  BY <1>2, ReadLatestDoes
<1>3. ASSUME NEW a \in Actors, ReadKubo(a) PROVE Announcing'
  BY <1>3, AnnouncingOnceRead
<1>4. ASSUME NEW a \in Actors, WriteKubo(a) PROVE Announcing'
  BY <1>4, AnnouncingOnceWritten
<1>5. ASSUME NEW a \in Actors, Save(a) PROVE Announcing'
  BY <1>5, AnnouncingOnceSaved
<1>6. CASE StartSetup
  BY <1>6, StartSetupDoes
<1>7. CASE SetupIssues
  BY <1>7, SetupIssuesDoes
<1>8. ASSUME NEW issued \in SUBSET CertificateNames, SetupWaited(issued) PROVE Announcing'
  BY <1>8, SetupWaitedDoes
<1>9. CASE SetupRestores
  BY <1>9, SetupRestoresDoes
<1>10. CASE SetupWritesSites
  BY <1>10, SetupWritesSitesDoes
<1>11. ASSUME NEW ok \in BOOLEAN, SetupDials(ok) PROVE Announcing'
  BY <1>11, SetupDialsDoes
<1>12. ASSUME NEW kind \in {"disable", "purge"}, StartDisable(kind) PROVE Announcing'
  BY <1>12, StartDisableDoes
<1>13. CASE Purge
  <2>1. cfg'.enabled = FALSE /\ (~lost' => cfg.enabled = FALSE)
    BY <1>13, PurgeDoes, ConfigFacts DEF Recorded, NoConfig
  <2>. QED
    BY <1>13, <2>1, PurgeDoes
<1>14. CASE StartCheck
  BY <1>14, StartCheckDoes
<1>15. CASE WriteCandidate
  BY <1>15, WriteCandidateDoes
<1>16. CASE CheckFails
  BY <1>16, CheckFailsDoes DEF CutOff
<1>17. CASE StoppedWaiting
  BY <1>17, StoppedWaitingDoes
<1>18. CASE WaitEnds
  <2>1. PICK issued \in SUBSET Ips : Settles(issued)
    BY <1>18, WaitEndsDoes
  <2>. QED
    BY <1>18, <2>1 DEF Settles, WaitEnds
<1>19. CASE FinishCheck
  BY <1>19, FinishCheckDoes
<1>20. ASSUME NEW day \in SUBSET chk.status.failing, CheckNames(day) PROVE Announcing'
  BY <1>20, CheckNamesDoes
<1>21. CASE StartDaemon
  BY <1>21, AnnouncingOnceStarted
<1>22. CASE StopDaemon
  BY <1>22 DEF StopDaemon
<1>23. CASE Kill
  BY <1>23, KillDoes DEF CutOff
<1>24. CASE Moves /\ UNCHANGED <<files, base, daemon, pending, chk, cli, job, lost, overlap, fresh, rounds>>
  BY <1>24
<1>25. CASE /\ OperatorEdits
            /\ UNCHANGED <<process, cfg, site, status, here, answers, memory, chk, cli, job, observed, rounds>>
  BY <1>25, AnnouncingForTheOperator
<1>26. ASSUME NEW a \in Actors, NEW taken \in BOOLEAN, Restart(a, taken) PROVE Announcing'
  BY <1>26, AnnouncingOnceRestarted
<1>27. CASE SetupGivesUp
  BY <1>27, SetupGivesUpDoes
<1>. QED
  BY <1>1, <1>2, <1>3, <1>4, <1>5, <1>6, <1>7, <1>8, <1>9, <1>10, <1>11, <1>12, <1>13, <1>14, <1>15,
     <1>16, <1>17, <1>18, <1>19, <1>20, <1>21, <1>22, <1>23, <1>24, <1>25, <1>26, <1>27
     DEF Next, ApplyStep, SetupStep, DisableStep, CheckStep, Environment

-----------------------------------------------------------------------------
(* The properties *)

\* IInv holds in every reachable state: with any number of setups, disables, purges, checks and kills,
\* and whatever the operator and the network do between two of their steps.
THEOREM Invariant == Spec => []IInv
BY Initially, Kept, PTL DEF Spec

\* Every file is one that its reader accepts, and every command, check and apply is at one of its steps.
THEOREM TypeCorrect == Spec => []TypeOK
BY Invariant, PTL DEF IInv, Typed

\* While nothing runs, and no check met a command and neither was cut short, the Caddyfile serves the
\* addresses of the config: handleIpChange and runReachabilitySetup put the old sites back or store the
\* new ones on every path.
THEOREM SitesAreStored == Spec => []ServesWhatIsStored
<1>1. IInv => ServesWhatIsStored
  BY NoneFields DEF IInv, ServesWhatIsStored, Quiet, SitesStored, Steps, Actors
<1>. QED
  BY <1>1, Invariant, PTL

\* Once kubo has taken the restart an apply asked for, or a setup has found it announcing what is stored,
\* it keeps announcing every stored address, and after a disable nothing that is not in its file: through
\* any later applies that lose no restart, kills of a check or a command, edits by the operator, and
\* daemons that find it still running (restartAndVerifyKubo, saveAndApply, disableReachability).
THEOREM KuboRunsTheFile == Spec => []KuboRunsWhatIsStored
<1>1. IInv /\ Announcing => KuboRunsWhatIsStored
  BY DEF IInv, KuboRunsWhatIsStored, Quiet, Announcing, RunsStored, Unloaded, Steps, Actors
<1>2. Spec => []Undoable
  BY Invariant, UndoableAtFirst, UndoableKept, PTL DEF Spec
<1>3. Spec => []Announcing
  BY <1>2, Invariant, AnnouncingAtFirst, AnnouncingKept, PTL DEF Spec
<1>. QED
  BY <1>1, <1>3, Invariant, PTL

\* After any sequence of setups, checks, disables, kills and edits by the operator in which no apply was
\* based on what changed meanwhile or was cut short, undoing the recorded edits (planKuboConfig with
\* enabled off) gives back the config the operator would have without reachability: each list with its
\* own entries, order and shape, the loopback filters at their indexes, and AutoTLS.
THEOREM BaselineStands == Spec => []BaselineKept
<1>1. IInv /\ Undoable => BaselineKept
  <2>1. SUFFICES ASSUME IInv, Undoable, ~lost, \A a \in Actors : job[a].step # "save"
                 PROVE  UndoAll(kubo, cfg.edits) = base
    BY DEF BaselineKept
  <2>2. Undoes(kubo, cfg.edits, base) /\ WellFormed(base)
    BY <2>1 DEF Undoable, AtSave
  <2>3. cfg.edits.kept \in BOOLEAN
    BY <2>1, TypedFacts, ConfigFacts DEF IInv, Edits
  <2>. QED
    BY <2>2, <2>3, OwnConfigBack
<1>2. Spec => []Undoable
  BY Invariant, UndoableAtFirst, UndoableKept, PTL DEF Spec
<1>. QED
  BY <1>1, <1>2, Invariant, PTL

\* A config that gets enabled was so by a setup, or the check that did it had read it enabled.
LEMMA DisableHolds ==
    ASSUME IInv, [Next]_vars, cfg.there, ~cfg.enabled, cfg'.enabled
    PROVE  job["cli"].step = "save" \/ lost'
<1>. Typed /\ Steps /\ Actors = {"cli", "check"}
  BY DEF IInv, Actors
<1>1. PICK a \in Actors : Save(a)
  BY WhoMoves, PurgeDoes, NoneFields DEF ConfigMoves
<1>2. CASE a = "cli"
  BY <1>1, <1>2, SaveDoes
<1>3. CASE a = "check"
  <2>1. job["check"].step = "save" /\ job["check"].config.enabled /\ (lost => lost')
    BY <1>1, <1>3, SaveDoes
  <2>. QED
    BY <2>1 DEF IInv, Recorded
<1>. QED
  BY <1>2, <1>3

\* A check never turns on again what a disable turned off while it waited: saveAndApply reads the
\* config again, so only what comes between that read and the write is lost, and is seen as lost.
THEOREM DisablesStand == Spec => DisableStands
<1>1. IInv /\ [Next]_vars => [cfg.there /\ ~cfg.enabled /\ cfg'.enabled => job["cli"].step = "save" \/ lost']_vars
  BY DisableHolds
<1>. QED
  BY <1>1, Invariant, PTL DEF Spec, DisableStands

\* Setup counts the announced addresses of a config whose proxies are all announced: one more is ours.
LEMMA OwnAreCounted ==
    ASSUME NEW c \in Config, c.there, c.enabled, c.external \subseteq c.announce, OwnAddresses(c) # {}
    PROVE  ServedByUs(c)
<1>1. IsFiniteSet(c.announce)
  BY ConfigFacts, AnnouncedAreFinite
<1>2. c.external \subseteq c.announce /\ c.external # c.announce
  BY DEF OwnAddresses
<1>3. Cardinality(c.external) \in Nat /\ Cardinality(c.announce) \in Nat
  BY <1>1, <1>2, FS_Subset, FS_CardinalityType
<1>4. Cardinality(c.external) <= Cardinality(c.announce) /\ Cardinality(c.external) # Cardinality(c.announce)
  BY <1>1, <1>2, FS_Subset
<1>. QED
  BY <1>3, <1>4 DEF ServedByUs

\* A rerun of setup leaves a node an address of its own if it had one and every proxy's is announced, unless
\* the port was taken; the daemon's handleIpChange never stores a config without an IP that had one.
THEOREM ServingStays == Spec => ServingIsKept
<1> DEFINE A == /\ job["cli"].step = "save" /\ cfg'.enabled /\ cfg.announce \ cfg.external # {} /\ cfg.enabled
                   /\ cfg.external \subseteq cfg.announce /\ ~overlap /\ ~cli.busy
                   => (cfg'.announce \cup cfg'.dropped) \ cfg'.external # {}
                /\ job["check"].step = "save" /\ ~overlap /\ cfg.ips # {} => cfg'.ips # {}
<1>1. IInv /\ [Next]_vars => [A]_cfg
  <2> SUFFICES ASSUME IInv, [Next]_vars, cfg' # cfg, ~overlap
               PROVE  A
    BY DEF A
  <2>. Typed /\ Steps /\ Recorded /\ Alone /\ Actors = {"cli", "check"}
    BY DEF IInv, Actors
  <2>1. CASE Purge
    BY <2>1, PurgeDoes DEF Alone, Steps, A
  <2>2. ASSUME NEW a \in Actors, Save(a) PROVE A
    <3>1. job[a].step = "save" /\ cfg' = job[a].config
      BY <2>2, SaveDoes
    <3>2. CASE a = "cli"
      <4>1. job["check"].step # "save"
        BY <3>1, <3>2 DEF Alone, Steps
      <4>2. ASSUME cfg'.enabled, OwnAddresses(cfg) # {}, cfg.enabled, cfg.external \subseteq cfg.announce, ~cli.busy
            PROVE  (cfg'.announce \cup cfg'.dropped) \ cfg'.external # {}
        <5>1. cli.pc = "apply" /\ cli.kind = "setup"
          BY <3>1, <3>2, <4>2 DEF Steps
        <5>2. ServedByUs(cfg)
          BY <4>2, OwnAreCounted, TypedFacts DEF Recorded
        <5>3. cli.issued # {} /\ Holding(cfg')
          BY <3>1, <3>2, <4>2, <5>1, <5>2 DEF Alone
        <5>. QED
          BY <5>3 DEF Holding, OwnAddresses
      <4>. QED
        BY <4>1, <4>2 DEF OwnAddresses, A
    <3>3. CASE a = "check"
      BY <3>1, <3>3 DEF Alone, Steps, A
    <3>. QED
      BY <3>2, <3>3
  <2>. QED
    BY <2>1, <2>2, WhoMoves DEF ConfigMoves
<1>. QED
  BY <1>1, Invariant, PTL DEF Spec, ServingIsKept, A

\* Whoever writes the config, no address is both announced and dropped, also of a name that has changed its
\* form, and none is left of a domain that was moved away from; checkNames only moves addresses of names
\* from one to the other.
THEOREM NamesSurvive == Spec => NamesSurviveChecks
<1> DEFINE A == /\ cfg'.announce \cap cfg'.dropped = {}
                /\ \A a \in (cfg'.announce \cup cfg'.dropped) \cap Named :
                      NameOf(a) \in cfg'.domain \/ a \in cfg'.external
                /\ job["check"].step = "save" /\ ~overlap
                   => (cfg'.announce \cup cfg'.dropped) \cap Named = (cfg.announce \cup cfg.dropped) \cap Named
<1>1. IInv /\ [Next]_vars => [A]_cfg
  <2> SUFFICES ASSUME IInv, [Next]_vars, cfg' # cfg
               PROVE  A
    BY DEF A
  <2>. Typed /\ Steps /\ Alone /\ Actors = {"cli", "check"}
    BY DEF IInv, Actors
  <2>1. Apart(cfg')
    BY Kept DEF IInv, Disjoint
  <2>2. ASSUME job["check"].step = "save", ~overlap
        PROVE  NamesOf(cfg') = NamesOf(cfg)
    <3>1. chk.pc = "apply" /\ cli.pc = "idle" /\ NamesOf(job["check"].config) = NamesOf(cfg)
      BY <2>2 DEF Alone, Steps
    <3>2. PICK a \in Actors : Save(a)
      BY <3>1, WhoMoves, PurgeDoes DEF ConfigMoves
    <3>3. a = "check" /\ cfg' = job["check"].config
      BY <3>1, <3>2, SaveDoes DEF Steps
    <3>. QED
      BY <3>1, <3>3
  <2>. QED
    BY <2>1, <2>2 DEF A, NamesOf, Apart
<1>. QED
  BY <1>1, Invariant, PTL DEF Spec, NamesSurviveChecks, A

\* The candidate a check has Caddy order certificates for has no new address of a family that failed
\* before, until the time of its back-off has passed (issuanceBackoff, handleIpChange).
THEOREM FailedFamiliesWait == Spec => FailedFamilyWaits
<1>1. IInv => [chk.pc = "change" /\ chk'.pc = "wait"
               => \A f \in refused : InFamily(f, chk.next \ chk.config.ips) = {}]_chk
  BY DEF IInv, Waits
<1>. QED
  BY <1>1, Invariant, PTL DEF Spec, FailedFamilyWaits

\* checkNames never drops, on the strength of an old failure, an address that setup announced again
\* after the daemon had dropped its name.
THEOREM FreshDays == Spec => FreshDay
<1> DEFINE A == chk.pc = "names" /\ chk'.pc = "apply" /\ ~overlap
                => fresh \cap (job'["check"].config.dropped \ chk.config.dropped) = {}
<1>1. IInv /\ [Next]_vars => [A]_chk
  <2> SUFFICES ASSUME IInv, [Next]_vars, chk.pc = "names", chk'.pc = "apply", ~overlap
               PROVE  fresh \cap (job'["check"].config.dropped \ chk.config.dropped) = {}
    BY DEF A
  <2>1. chk.status = status /\ \A a \in fresh : NameOf(a) \in status.failing => NameOf(a) \in status.dropped
    BY DEF IInv, Excuses
  <2>2. PICK day \in SUBSET chk.status.failing : CheckNames(day)
    BY WhoMoves DEF NamesMove
  <2>3. job'["check"].config.dropped \ chk.config.dropped \subseteq KnownFailing(chk.config)
    BY <2>2, CheckNamesDoes DEF IInv, Disjoint
  <2>. QED
    BY <2>1, <2>3 DEF KnownFailing, FailingByStatus
<1>. QED
  BY <1>1, Invariant, PTL DEF Spec, FreshDay, A
=============================================================================

----------------------------- MODULE KuboEdits -----------------------------
(***************************************************************************)
(* What `bitsocial reachability` changes in the kubo config, and how it    *)
(* undoes that (src/reachability/kubo-config.ts): pure operators.          *)
(*                                                                         *)
(* Of the kubo config only the fields that code touches are kept: the      *)
(* lists Addresses.Swarm, Addresses.AppendAnnounce and Swarm.AddrFilters,  *)
(* and AutoTLS.Enabled.  The sections Addresses and Swarm are there.  The  *)
(* four UDP 443 listeners are one entry, and so is the loopback listener.  *)
(***************************************************************************)
EXTENDS Integers, FiniteSets, Sequences, SequencesExt

\* A list of the config: kubo writes null, [] or nothing for an empty one.
Field(shape, items) == [shape |-> shape, items |-> items]

Shapes == {"absent", "null", "present"}

\* The value of AutoTLS: no section, a section without Enabled, or Enabled.
TlsValues == {"absent", "unset", "true", "false"}

\* The entries of a list at the given positions, in their order.
AtPositions(items, positions) ==
    LET Rank(i) == Cardinality({j \in positions : j <= i})
    IN  [n \in 1..Cardinality(positions) |-> items[CHOOSE i \in positions : Rank(i) = n]]

\* The fields that are kept of a kubo config.
KuboConfig(c) ==
    /\ DOMAIN c = {"swarm", "announce", "filters", "tls"} /\ c.tls \in TlsValues
    /\ \A field \in {"swarm", "announce", "filters"} : c[field].shape \in Shapes

\* A config as kubo writes it: a list that is not there, or null, has no entries.
WellFormed(c) ==
    /\ KuboConfig(c)
    /\ c = [swarm |-> c.swarm, announce |-> c.announce, filters |-> c.filters, tls |-> c.tls]
    /\ \A field \in {"swarm", "announce", "filters"} :
          LET list == c[field] IN
          /\ list = Field(list.shape, list.items) /\ list.items \in Seq(ToSet(list.items))
          /\ list.shape # "present" => list.items = <<>>

LoopbackFilter == "loopback"
LocalWs == "ws"
WebTransport == "webtransport"

\* KuboEditRecord; kept is FALSE for undefined.
NoEdits == [kept |-> FALSE, swarmShape |-> "absent", announceShape |-> "absent", swarm |-> {},
            announce |-> {}, filters |-> {}, tls |-> "none"]

-----------------------------------------------------------------------------
(* Undoing *)

\* Mutant: every occurrence goes, the operator's too.
WithoutAll(items, entries) == SelectSeq(items, LAMBDA e : e \notin entries)

\* One occurrence of each, the first, because that is all that was added.
WithoutOneOfEach(items, entries) ==
    AtPositions(items, {i \in DOMAIN items : items[i] \in entries => \E j \in 1..(i - 1) : items[j] = items[i]})

\* An emptied list goes back to the shape it had; one the operator has added to stays.
RestoreShape(field, shape) ==
    IF field.items = <<>> /\ shape # "present" THEN Field(shape, <<>>) ELSE field

UndoList(field, entries, shape) ==
    RestoreShape(Field(field.shape, WithoutOneOfEach(field.items, entries)), shape)

WithoutLoopback(items) == AtPositions(items, {i \in DOMAIN items : items[i] # LoopbackFilter})

\* The filters go in again at their indexes (from 0), lowest first, or at the end of a shorter list.
InsertFilters(items, indexes) ==
    LET Below(S, i) == Cardinality({k \in S : k < i})
        Lands(k) == LET length == Len(items) + Below(indexes, k) IN IF k < length THEN k ELSE length
        landed == {Lands(k) : k \in indexes}
    IN  [i \in 1..(Len(items) + Cardinality(indexes)) |->
            IF i - 1 \in landed THEN LoopbackFilter ELSE items[i - Below(landed, i - 1)]]

UndoFilters(field, removed) ==
    IF removed = {} THEN field ELSE Field("present", InsertFilters(WithoutLoopback(field.items), removed))

UndoListEdits(config, edits) ==
    [config EXCEPT !.swarm = UndoList(@, edits.swarm, edits.swarmShape),
                   !.announce = UndoList(@, edits.announce, edits.announceShape),
                   !.filters = UndoFilters(@, edits.filters)]

\* If AutoTLS is no longer false, the operator turned it back on.
RestoreAutoTls(config, original) ==
    IF config.tls = "false" /\ original # "none" THEN [config EXCEPT !.tls = original] ELSE config

\* What disable does to the kubo config.
UndoAll(config, edits) ==
    IF edits.kept THEN RestoreAutoTls(UndoListEdits(config, edits), edits.tls) ELSE config

-----------------------------------------------------------------------------
(* Applying *)

AppendMissing(field, entries) ==
    Field("present", field.items \o SetToSeq(entries \ ToSet(field.items)))

LoopbackIndexes(items) == {i \in 0..(Len(items) - 1) : items[i + 1] = LoopbackFilter}

\* planKuboConfig with enabled = TRUE: undo what the last apply did, then do it again.
Redo(current, serveWss, announce, edits) ==
    LET undone == IF edits.kept THEN UndoListEdits(current, edits) ELSE current
        listeners == (IF serveWss THEN {LocalWs} ELSE {}) \cup {WebTransport}
        removed == IF serveWss THEN LoopbackIndexes(undone.filters.items) ELSE {}
        original == IF ~serveWss THEN "none"
                    ELSE IF edits.tls # "none" THEN edits.tls ELSE undone.tls
        tls == IF serveWss THEN (IF edits.tls # "none" THEN undone.tls ELSE "false")
               ELSE RestoreAutoTls(undone, edits.tls).tls
    IN  [config |-> [swarm |-> AppendMissing(undone.swarm, listeners),
                     announce |-> AppendMissing(undone.announce, announce),
                     filters |-> IF serveWss THEN Field(undone.filters.shape, WithoutLoopback(undone.filters.items))
                                 ELSE undone.filters,
                     tls |-> tls],
         edits |-> [kept |-> TRUE,
                    swarmShape |-> IF edits.kept THEN edits.swarmShape ELSE undone.swarm.shape,
                    announceShape |-> IF edits.kept THEN edits.announceShape ELSE undone.announce.shape,
                    swarm |-> listeners \ ToSet(undone.swarm.items),
                    announce |-> announce \ ToSet(undone.announce.items),
                    filters |-> removed, tls |-> original]]

PlanKuboConfig(current, serveWss, announce, edits, enabled) ==
    IF enabled THEN Redo(current, serveWss, announce, edits)
    ELSE [config |-> UndoAll(current, edits), edits |-> NoEdits]
=============================================================================

------------------------ MODULE MCReachabilityFiles ------------------------
(* Instances of ReachabilityFiles for TLC. *)
EXTENDS ReachabilityFiles

CONSTANTS a1, a2, b1, d1, d2

\* Behind a NAT, and after a move to a network with IPv6.
MCHosts == {{a1}, {a2, b1}}

Listed(swarm, announce, filters, tls) ==
    [swarm |-> Field("present", swarm), announce |-> announce, filters |-> filters, tls |-> tls]

\* kubo's default, and one with the filters of the server profile that the operator has edited.
MCBases == {
    Listed(<<"tcp">>, Field("null", <<>>), Field("null", <<>>), "absent"),
    Listed(<<"tcp", LocalWs>>, Field("absent", <<>>), Field("present", <<"private", LoopbackFilter, "local">>), "true")}

\* Nothing tells the domains apart: a list gets the addresses of one domain at a time, so the order
\* in which SetToSeq appends them does not either.
Symmetry == Permutations(Domains)

\* Once an apply was based on something that changed, or was cut short, the network, the operator
\* and the failures have done their part, as they have for a command and a check at once: a run in
\* which more happens ends there.
OneMishap == changes > 0 => ~lost /\ (chk.pc = "idle" \/ cli.pc = "idle")
=============================================================================

---------------------------- MODULE KuboContract ----------------------------
(***************************************************************************)
(* What the daemon promises of the kubo processes it starts, whatever its  *)
(* timers, awaits and handlers do: they run one at a time, and when the    *)
(* daemon ends in an orderly way each of them is gone or has been killed.  *)
(***************************************************************************)
CONSTANT Kubos

VARIABLES alive,   \* the kubos that run
          doomed,  \* those that were sent SIGKILL
          daemon   \* "up", "down" or "crashed"

cvars == <<alive, doomed, daemon>>

Init == alive = {} /\ doomed = {} /\ daemon = "up"

Start(k) ==
    /\ daemon = "up" /\ alive = {}
    /\ alive' = {k}
    /\ UNCHANGED <<doomed, daemon>>

Die(k) ==
    /\ k \in alive
    /\ alive' = alive \ {k}
    /\ doomed' = doomed \ {k}
    /\ UNCHANGED daemon

Doom(S) ==
    /\ daemon = "up"
    /\ doomed' = doomed \cup (alive \cap S)
    /\ UNCHANGED <<alive, daemon>>

\* Stopping kills what is left; a crash leaves it running.
Stop  == daemon = "up" /\ daemon' = "down" /\ doomed' = alive /\ UNCHANGED alive
Crash == daemon = "up" /\ daemon' = "crashed" /\ UNCHANGED <<alive, doomed>>

Next ==
    \/ \E k \in Kubos : Start(k) \/ Die(k)
    \/ \E S \in SUBSET Kubos : Doom(S)
    \/ Stop \/ Crash

Spec == Init /\ [][Next]_cvars
=============================================================================

--------------------------- MODULE MCUpdateInstall --------------------------
(* Instances of UpdateInstall for TLC. *)
EXTENDS UpdateInstall, TLC

Symmetry == Permutations(Pids)

\* At most one thing goes wrong: a daemon is killed, or a call fails.
OneMishap == kills + faults <= 1
=============================================================================

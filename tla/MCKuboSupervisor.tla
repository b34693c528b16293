-------------------------- MODULE MCKuboSupervisor --------------------------
(* Instances of KuboSupervisor for TLC. *)
EXTENDS KuboSupervisor, TLC

\* The kubos, attempt slots and tick slots are interchangeable.
Symmetry == Permutations(Kubos) \cup Permutations(Attempts) \cup Permutations(Ticks)
=============================================================================

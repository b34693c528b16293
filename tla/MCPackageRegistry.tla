-------------------------- MODULE MCPackageRegistry -------------------------
(* Instances of PackageRegistry for TLC. *)
EXTENDS PackageRegistry, TLC

Symmetry == Permutations(Clients) \cup Permutations(Versions) \cup Permutations(Reloads)
=============================================================================

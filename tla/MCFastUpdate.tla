---------------------------- MODULE MCFastUpdate ----------------------------
(* Instances of FastUpdate for TLC. *)
EXTENDS FastUpdate, TLC

\* The web UIs are interchangeable, and so are their releases.
Symmetry == Permutations(Webuis) \cup Permutations(Tags)
=============================================================================

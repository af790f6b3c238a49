----------------------------- MODULE MCVrrpSet -----------------------------
(* Small instances of VrrpSet.                                             *)
EXTENDS VrrpSet, TLC

\* Projects and subnets are interchangeable.
Symmetry == Permutations(Projects) \cup Permutations(Subnets)
=============================================================================

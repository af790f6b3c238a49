--------------------------- MODULE MCVThunderPool ---------------------------
(* Small instances of VThunderPool: the load balancers of two projects.    *)
EXTENDS VThunderPool, TLC

CONSTANTS a1, a2, a3, b1, A, B

OfProject == [l \in LBs |-> IF l = b1 THEN B ELSE A]

Symmetry == Permutations(Computes)
=============================================================================

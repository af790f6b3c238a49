------------------------------ MODULE MCNatPool ------------------------------
(* A load balancer with two members and one with a third, and two ports:   *)
(* the second is reserved after the first was released.                    *)
EXTENDS NatPool, TLC
CONSTANTS l1, l2, m1, m2, m3
MCLbOf == (m1 :> l1) @@ (m2 :> l1) @@ (m3 :> l2)
(* Nothing is stated of the count after a call failed half-way, and only   *)
(* of the ports after another cause: small counts are enough there.        *)
Bounds ==
    /\ row.count <= 3
    /\ "port" \notin blame /\ Cardinality(blame) <= 1
    /\ blame # {} => row.count <= 1
Symmetry == Permutations({m1, m2})
=============================================================================

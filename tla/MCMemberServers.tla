-------------------------- MODULE MCMemberServers --------------------------
(* Two load balancers of one project with a pool each, and three members   *)
(* with one address: two of them in one pool, two on one port.             *)
EXTENDS MemberServers, TLC
CONSTANTS l1, l2, p1, p2, m1, m2, m3, a1, w80, w81

MCLbOf == (p1 :> l1) @@ (p2 :> l2)
MCPoolOf == (m1 :> p1) @@ (m2 :> p2) @@ (m3 :> p2)
MCAddrOf == [m \in Members |-> a1]
MCPortOf == (m1 :> w80) @@ (m2 :> w80) @@ (m3 :> w81)

(* On a vThunder every request reaches l1, batches and pool deletions l2;  *)
(* on the hardware Thunder single requests race them.                      *)
AllOps == [r \in BOOLEAN |->
    (l1 :> IF r THEN {"create", "delete"} ELSE {"create", "delete", "update", "pool"})
    @@ (l2 :> IF r THEN {"create", "pool"} ELSE {"batch", "pool"})]
Creations == [r \in BOOLEAN |-> [l \in LBs |-> {"create"}]]
=============================================================================

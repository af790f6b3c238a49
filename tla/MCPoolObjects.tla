---------------------------- MODULE MCPoolObjects ----------------------------
(* Three load balancers, the first two of one project: p1 and p2 are the   *)
(* default pools of the first and second, p3 of the third.  p1 and p2 have *)
(* members on the server v1.                                               *)
EXTENDS PoolObjects, TLC
CONSTANTS l1, l2, l3, p1, p2, p3, v1, v2, s1, s2

MCLbOf == (p1 :> l1) @@ (p2 :> l2) @@ (p3 :> l3)
MCProjectOf == (l1 :> "a") @@ (l2 :> "a") @@ (l3 :> "b")
MCServersOf == (p1 :> {v1}) @@ (p2 :> {v1, v2}) @@ (p3 :> {})

Scene(exist, requests, hardware) == [exist |-> exist, requests |-> requests, rack |-> hardware]
MCScenes == {
    \* a pool through its life, with its monitor
    Scene({l1}, {"create_pool", "update_pool", "delete_pool", "create_hm", "delete_hm"} \X {p1}, FALSE),
    \* the pools of two load balancers that share a template, and a server
    Scene({l1, l2, p1}, {"create_pool", "delete_pool"} \X {p1, p2}, FALSE),
    Scene({l1, l2, p1, p2}, {"create_hm", "update_hm", "delete_hm"} \X {p1, p2}, FALSE),
    \* of two projects of one partition
    Scene({l1, l3, p1}, {"create_pool", "delete_pool"} \X {p1, p3}, TRUE),
    \* load balancers with their pools, with the busy lock and without
    Scene({l1, p1}, {<<"create_lb", l2>>, <<"delete_lb", l2>>, <<"delete_pool", p1>>}, FALSE),
    Scene({l1, p1}, {<<"create_lb", l2>>, <<"delete_pool", p1>>}, TRUE),
    Scene({l1, l2, p1, p2}, {<<"delete_lb", l2>>, <<"delete_pool", p1>>}, TRUE)}

(* Nothing is stated of what follows the failure of one of two flows that  *)
(* overlap: those behaviours end there.                                    *)
NoneOverlapped == overlapped = {}
Symmetry == Permutations(Slots)
=============================================================================

------------------------- MODULE MCListenerObjects -------------------------
(* Two load balancers; the first has the listeners x1 (with the policy q1  *)
(* and its rule r1) and x2, the second x3.                                 *)
EXTENDS ListenerObjects, TLC
CONSTANTS l1, l2, x1, x2, x3, q1, r1, c1, c2, s1, s2

MCLbOf == (x1 :> l1) @@ (x2 :> l1) @@ (x3 :> l2)
MCListenerOf == q1 :> x1
MCPolicyOf == r1 :> q1
MCTlsOf == (x1 :> c1) @@ (x2 :> None) @@ (x3 :> c1)

Scene(exist, requests, hardware) == [exist |-> exist, requests |-> requests, rack |-> hardware]
Every(S) == {"create", "update", "delete"} \X S
MCScenes == {
    \* a listener with a certificate and its policy, from nothing
    Scene({l1}, Every({x1}) \cup {"create", "delete"} \X {q1}, {FALSE}),
    \* a policy and its rule, beside updates of the listener
    Scene({l1, x1}, Every({q1, r1}) \cup {<<"update", x1>>}, {FALSE}),
    \* two load balancers whose listeners share a certificate
    Scene({l1, l2, x1, x3}, {"update", "delete"} \X {x1, x3}, {FALSE}),
    \* a load balancer created with its listeners, or without
    Scene({}, {<<"create", l1>>, <<"update", l1>>}, BOOLEAN),
    \* a load balancer deleted with its listeners
    Scene({l1, x1, x2, q1, r1}, {<<"delete", l1>>, <<"update", r1>>}, BOOLEAN)}
(* Nothing is stated of what follows the failure of one of two flows that  *)
(* overlap: those behaviours end there.                                    *)
NoneOverlapped == overlapped = {}
Symmetry == Permutations(Slots)
=============================================================================

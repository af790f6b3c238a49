---------------------------- MODULE MCWriteMemory ----------------------------
(* A hardware Thunder in a partition or a vThunder in the shared one, and  *)
(* three requests on two load balancers.  Nothing is stated of what        *)
(* follows once a status was overwritten: those behaviours end there.      *)
EXTENDS WriteMemory, TLC
CONSTANTS l1, l2, t1, t2
Bounds ==
    /\ crossed = {} /\ slipped = {} /\ masked = {} /\ hardware # shared
    /\ asked[l1] + asked[l2] <= 3
Symmetry == Permutations(Threads) \cup Permutations(LBs)
=============================================================================

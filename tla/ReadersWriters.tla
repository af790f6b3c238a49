--------------------------- MODULE ReadersWriters ---------------------------
(***************************************************************************)
(* What the busy check of the controller worker promises about a project's *)
(* vThunder, with no counters, flags or timeouts: requests that only       *)
(* configure the device share it, a request that may reload it has it      *)
(* alone.  A holder leaves only by its own step; a holder whose process    *)
(* was killed never leaves.                                                *)
(***************************************************************************)
CONSTANTS Threads,   \* the threads that run requests
          Projects   \* the keys of the lock: one per project

VARIABLES shared,    \* shared[p]: threads that configure p's vThunder
          exclusive  \* exclusive[p]: threads that may reload p's vThunder

rwVars == <<shared, exclusive>>

RWInit ==
    /\ shared = [p \in Projects |-> {}]
    /\ exclusive = [p \in Projects |-> {}]

EnterShared(t, p) ==
    /\ exclusive[p] = {}
    /\ t \notin shared[p]
    /\ shared' = [shared EXCEPT ![p] = @ \cup {t}]
    /\ UNCHANGED exclusive

EnterExclusive(t, p) ==
    /\ exclusive[p] = {}
    /\ shared[p] = {}
    /\ exclusive' = [exclusive EXCEPT ![p] = {t}]
    /\ UNCHANGED shared

Leave(t, p) ==
    /\ t \in shared[p] \cup exclusive[p]
    /\ shared' = [shared EXCEPT ![p] = @ \ {t}]
    /\ exclusive' = [exclusive EXCEPT ![p] = @ \ {t}]

RWNext ==
    \E t \in Threads, p \in Projects :
        EnterShared(t, p) \/ EnterExclusive(t, p) \/ Leave(t, p)

RWSpec == RWInit /\ [][RWNext]_rwVars
=============================================================================

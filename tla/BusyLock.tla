------------------------------ MODULE BusyLock ------------------------------
(***************************************************************************)
(* The per-project busy lock of the a10-octavia worker                     *)
(* (controller/worker/controller_worker.py).  Every RPC handler that works *)
(* on a vThunder amphora first calls _vthunder_busy_check, builds and runs *)
(* a taskflow, and hands the vThunder back twice: from the flow's          *)
(* notification handler and from a `finally' block.  The lock is a pair of *)
(* counters per project in ctx_map, a dict of a multiprocessing Manager    *)
(* that all the worker processes and their RPC threads share, guarded by   *)
(* ctx_lock; it outlives a worker process that is killed.                  *)
(*                                                                         *)
(* A request is its project, whether it may reload the device (creating or *)
(* deleting a load balancer or members: is_reload_thread) and whether it   *)
(* is a rack flow, which takes no lock.  Database reads before the check   *)
(* and the contents of the flow are left out.                              *)
(***************************************************************************)
EXTENDS Integers, FiniteSets

CONSTANTS
    Threads,         \* the RPC threads of all the worker processes
    Workers,         \* the worker processes
    WorkerOf,        \* WorkerOf[t]: the process thread t lives in
    Projects,        \* project ids, the keys of ctx_map
    AmpBusyWaitSec,  \* option amp_busy_wait_sec; 0 waits for ever
    MayCrash,        \* the processes that may be killed: a bound
    CrashInSection,  \* may a process be killed while it holds ctx_lock?
    Free,            \* ctx_lock is not held
    NoRequest        \* the thread runs no request

ASSUME BusyLockAssumption ==
    /\ IsFiniteSet(Threads)
    /\ WorkerOf \in [Threads -> Workers]
    /\ AmpBusyWaitSec \in Nat
    /\ MayCrash \subseteq Workers
    /\ CrashInSection \in BOOLEAN
    /\ Free \notin Threads

Requests == [project : Projects, reload : BOOLEAN, rack : BOOLEAN]

ASSUME NoRequestAssumption == NoRequest \notin Requests

VARIABLES
    pc,        \* where the thread is in its handler
    req,       \* the request the thread runs
    timeout,   \* local `timeout' of _vthunder_busy_check
    busy,      \* its result, stored as COMPUTE_BUSY
    flags,     \* ctx_flags[0]: this request still has to hand its hold back
    ctx_map,   \* the shared dict: project -> pair of counters
    ctx_lock   \* the thread that holds ctx_lock, or Free

vars == <<pc, req, timeout, busy, flags, ctx_map, ctx_lock>>
locals == <<req, timeout, busy, flags>>

Locations == {"idle", "wait", "try", "load", "flow", "device", "notify",
              "finally", "dead"}
WaitStep == 5    \* seconds of one sleep of the wait loop
Counters == [normal : Nat, reload : Nat]

\* Every variable keeps to its type, the time left of a wait to its range.
TypeOK ==
    /\ pc \in [Threads -> Locations]
    /\ req \in [Threads -> Requests \cup {NoRequest}]
    /\ timeout \in [Threads -> (-WaitStep)..AmpBusyWaitSec]
    /\ busy \in [Threads -> BOOLEAN]
    /\ flags \in [Threads -> BOOLEAN]
    /\ DOMAIN ctx_map \subseteq Projects
    /\ \A p \in DOMAIN ctx_map : ctx_map[p] \in Counters
    /\ ctx_lock \in Threads \cup {Free}

Init ==
    /\ pc = [t \in Threads |-> "idle"]
    /\ req = [t \in Threads |-> NoRequest]
    /\ timeout = [t \in Threads |-> AmpBusyWaitSec]
    /\ busy = [t \in Threads |-> FALSE]
    /\ flags = [t \in Threads |-> FALSE]
    /\ ctx_map = [p \in {} |-> [normal |-> 0, reload |-> 0]]
    /\ ctx_lock = Free

-----------------------------------------------------------------------------
(* ctx_map: reading, writing, granting and handing back a hold.            *)

Zero == [normal |-> 0, reload |-> 0]

\* ctx_map.get(key), with the (0, 0) the busy check takes for a missing key
CtxGet(p) == IF p \in DOMAIN ctx_map THEN ctx_map[p] ELSE Zero

\* Slip: the first hold on a project is counted but not stored.
CtxSetKnownOnly(p, c) ==
    ctx_map' = [q \in DOMAIN ctx_map |-> IF q = p THEN c ELSE ctx_map[q]]

\* ctx_map[key] = c
CtxSet(p, c) ==
    ctx_map' = [q \in DOMAIN ctx_map \cup {p} |-> IF q = p THEN c ELSE ctx_map[q]]

\* Slips: a reload that overlooks configuring requests, and the reverse.
RefusesReloadOnly(c, reload) == c.reload > 0
RefusesIfReloading(c, reload) == reload /\ (c.reload > 0 \/ c.normal > 0)

Refuses(c, reload) ==
    IF reload THEN c.reload > 0 \/ c.normal > 0 ELSE c.reload > 0

Granted(c, reload) ==
    IF reload THEN [c EXCEPT !.reload = @ + 1] ELSE [c EXCEPT !.normal = @ + 1]

Dec(n) == IF n > 0 THEN n - 1 ELSE n

\* Slip: always lowers the configuring requests' counter.
HandedBackAsNormal(c, reload) == [c EXCEPT !.normal = Dec(@)]

HandedBack(c, reload) ==
    IF reload THEN [c EXCEPT !.reload = Dec(@)] ELSE [c EXCEPT !.normal = Dec(@)]

Go(t, l) == pc' = [pc EXCEPT ![t] = l]

\* The handler returns: its locals are gone.
Return(t) ==
    /\ Go(t, "idle")
    /\ req' = [req EXCEPT ![t] = NoRequest]
    /\ timeout' = [timeout EXCEPT ![t] = AmpBusyWaitSec]
    /\ busy' = [busy EXCEPT ![t] = FALSE]
    /\ flags' = [flags EXCEPT ![t] = FALSE]

-----------------------------------------------------------------------------
(* One request, from its arrival to the return of its handler.             *)

\* An RPC reaches an idle thread.  A rack flow skips the busy check.
Receive(t, r) ==
    /\ pc[t] = "idle"
    /\ Go(t, IF r.rack THEN "load" ELSE "wait")
    /\ req' = [req EXCEPT ![t] = r]
    /\ UNCHANGED <<timeout, busy, flags, ctx_map, ctx_lock>>

\* Slips: a loop that never ends, a timeout that never runs.
TriesForEver(t) == TRUE
TimeoutStands(n) == n

MayTry(t) == timeout[t] >= 0
TimeoutAfterTry(n) == IF AmpBusyWaitSec = 0 THEN n ELSE n - WaitStep

\* Head of the wait loop: one more attempt while timeout >= 0.
NextTry(t) ==
    /\ pc[t] = "wait"
    /\ MayTry(t)
    /\ Go(t, "try")
    /\ timeout' = [timeout EXCEPT ![t] = TimeoutAfterTry(@)]
    /\ UNCHANGED <<req, busy, flags, ctx_map, ctx_lock>>

\* The loop ends without a hold: the flow is run with COMPUTE_BUSY = True.
GiveUp(t) ==
    /\ pc[t] = "wait"
    /\ ~MayTry(t)
    /\ Go(t, "load")
    /\ UNCHANGED <<locals, ctx_map, ctx_lock>>

\* Slip: the finally block hands back whatever the flag says.
HandsBackAnyway(t) == ~req[t].rack

\* Only a thread that set its flag, and only outside rack flows, hands back.
MustHandBack(t) == flags[t] /\ ~(pc[t] = "finally" /\ req[t].rack)

AcquireCtxLock(t) ==
    /\ \/ pc[t] = "try"
       \/ pc[t] \in {"notify", "finally"} /\ MustHandBack(t)
    /\ ctx_lock = Free
    /\ ctx_lock' = t
    /\ UNCHANGED <<pc, locals, ctx_map>>

ReleaseCtxLock(t) == ctx_lock' = Free

\* The critical section of _vthunder_busy_check and the release of ctx_lock.
BusyCheck(t) ==
    /\ pc[t] = "try"
    /\ ctx_lock = t
    /\ ReleaseCtxLock(t)
    /\ LET p == req[t].project
           r == req[t].reload
           refused == Refuses(CtxGet(p), r)
       IN  /\ Go(t, IF refused THEN "wait" ELSE "load")
           /\ busy' = [busy EXCEPT ![t] = refused]
           /\ flags' = [flags EXCEPT ![t] = ~refused]
           /\ IF refused THEN UNCHANGED ctx_map
                         ELSE CtxSet(p, Granted(CtxGet(p), r))
    /\ UNCHANGED <<req, timeout>>

\* Building and loading the flow; an exception goes to the finally block.
LoadFlow(t) ==
    /\ pc[t] = "load"
    /\ \E l \in {"flow", "finally"} : Go(t, l)
    /\ UNCHANGED <<locals, ctx_map, ctx_lock>>

\* _register_flow_notify_handler: rack flows and busy requests get none.
HandlerRegistered(t) == ~req[t].rack /\ ~busy[t]

\* What follows the terminal state (SUCCESS, REVERTED, FAILURE) of a flow.
AfterFlow(t) == IF HandlerRegistered(t) THEN "notify" ELSE "finally"

\* Slip: the flow has no VthunderInstanceBusy task.
StartsAnyway(t) == "device"

\* VthunderInstanceBusy, the first task of every flow: raises when COMPUTE_BUSY.
AfterFirstTask(t) == IF busy[t] THEN AfterFlow(t) ELSE "device"

\* run(): a busy flow is reverted at once; run() may also raise before any
\* state is notified.
StartFlow(t) ==
    /\ pc[t] = "flow"
    /\ \/ Go(t, AfterFirstTask(t))
       \/ Go(t, "finally")
    /\ UNCHANGED <<locals, ctx_map, ctx_lock>>

\* The tasks have configured the device, or failed and were reverted.
EndFlow(t) ==
    /\ pc[t] = "device"
    /\ Go(t, AfterFlow(t))
    /\ UNCHANGED <<locals, ctx_map, ctx_lock>>

\* Slip: flags[0] stays True after the hold is handed back.
FlagStaysUp(known) == TRUE

\* flags[0] = False, which an exception before it skips.
FlagAfterDec(known) == ~known

\* ctx_cnt_dec past its early return: flags[0] is True.  A key that is not
\* in the dict resets the counters and leaves the flag.
CtxCntDec(t) ==
    /\ pc[t] \in {"notify", "finally"}
    /\ ctx_lock = t
    /\ ReleaseCtxLock(t)
    /\ LET p == req[t].project
           known == p \in DOMAIN ctx_map
       IN  /\ CtxSet(p, IF known THEN HandedBack(ctx_map[p], req[t].reload) ELSE Zero)
           /\ IF pc[t] = "finally"
              THEN Return(t)
              ELSE /\ Go(t, "finally")
                   /\ flags' = [flags EXCEPT ![t] = FlagAfterDec(known)]
                   /\ UNCHANGED <<req, timeout, busy>>

\* _set_vthunder_available of a rack flow, and ctx_cnt_dec with the flag down.
FinallySkips(t) ==
    /\ pc[t] = "finally"
    /\ ~MustHandBack(t)
    /\ Return(t)
    /\ UNCHANGED <<ctx_map, ctx_lock>>

\* Slip: the context lives and dies with the process that is killed.
ContextDies == ctx_map' = [p \in {} |-> Zero] /\ UNCHANGED ctx_lock

\* ctx_map and ctx_lock live in the process of the multiprocessing Manager.
ContextSurvives == UNCHANGED <<ctx_map, ctx_lock>>

\* A worker process is killed: its threads stop where they are.  The process
\* cotyledon starts in its place is one of the other Workers.
Crash(w) ==
    /\ w \in MayCrash
    /\ \A t \in Threads : WorkerOf[t] = w =>
          /\ pc[t] # "dead"
          /\ CrashInSection \/ ctx_lock # t
    /\ pc' = [t \in Threads |-> IF WorkerOf[t] = w THEN "dead" ELSE pc[t]]
    /\ ContextSurvives
    /\ UNCHANGED locals

Step(t) ==
    \/ NextTry(t) \/ GiveUp(t) \/ AcquireCtxLock(t) \/ BusyCheck(t)
    \/ LoadFlow(t) \/ StartFlow(t) \/ EndFlow(t) \/ CtxCntDec(t) \/ FinallySkips(t)

Next ==
    \/ \E t \in Threads, r \in Requests : Receive(t, r)
    \/ \E t \in Threads : Step(t)
    \/ \E w \in Workers : Crash(w)

Spec == Init /\ [][Next]_vars

\* Scheduling: a thread keeps running its handler, every taskflow ends (its
\* polling loops are bounded), and a thread blocked on ctx_lock gets it if it
\* is released again and again.  Nobody has to send requests or to be killed.
Fairness ==
    \A t \in Threads : WF_vars(Step(t)) /\ SF_vars(AcquireCtxLock(t))

FairSpec == Spec /\ Fairness

-----------------------------------------------------------------------------
(* Properties.                                                             *)

\* A thread drives the vThunder of its project (rack flows drive a device of
\* their own).
Drives(t, p) == pc[t] = "device" /\ ~req[t].rack /\ req[t].project = p

\* A request that may reload a project's vThunder runs while no other request
\* drives that vThunder: a reload under another request would drop what that
\* request has configured and not yet written (is_reload_thread in
\* _vthunder_busy_check).
ReloadRunsAlone ==
    \A p \in Projects : \A t, u \in Threads :
        t # u /\ Drives(t, p) /\ Drives(u, p) => ~req[t].reload /\ ~req[u].reload

\* The requests that have a hold on p, those of killed processes included.
SharedHolders(p) ==
    {t \in Threads : flags[t] /\ req[t].project = p /\ ~req[t].reload}
ExclusiveHolders(p) ==
    {t \in Threads : flags[t] /\ req[t].project = p /\ req[t].reload}

\* The holds that the counters of p stand for, shared and exclusive together.
CountedHolds(p) == CtxGet(p).normal + CtxGet(p).reload

\* The counters of ctx_map are exactly the holds taken and not handed back:
\* neither the two releases of one request (notification and finally) nor a
\* request that timed out takes a hold of somebody else.
CountersMatchHolds ==
    \A p \in Projects :
        /\ CtxGet(p).normal = Cardinality(SharedHolders(p))
        /\ CtxGet(p).reload = Cardinality(ExclusiveHolders(p))

\* A request that gave up waiting has no hold to hand back and never drives
\* the device: VthunderInstanceBusy stops its flow at the first task.
BusyRequestStandsDown ==
    \A t \in Threads : busy[t] => ~flags[t] /\ pc[t] # "device"

\* "unexpected error should not happen, reset counters here" (ctx_cnt_dec):
\* a thread that hands a hold back always finds its project in ctx_map, so
\* the reset, which would wipe the holds of others, is never reached.
CountersNeverReset ==
    \A t \in Threads : MustHandBack(t) => req[t].project \in DOMAIN ctx_map

\* Only the thread that took a hold hands it back, and only once: a step that
\* lowers a counter of p takes one holder of p out.
OneReleasePerHold ==
    [][\A p \in Projects :
          CountedHolds(p)' < CountedHolds(p) =>
            /\ CountedHolds(p)' = CountedHolds(p) - 1
            /\ \E t \in Threads : flags[t] /\ ~flags'[t] /\ req[t].project = p]_vars

\* The counters implement readers and writers on a project's vThunder.
RW == INSTANCE ReadersWriters WITH
        shared <- [p \in Projects |-> SharedHolders(p)],
        exclusive <- [p \in Projects |-> ExclusiveHolders(p)]
ImplementsReadersWriters == RW!RWSpec

\* Every request of a living process ends, whatever other processes are killed
\* (outside the critical section): it gets the vThunder or its flow fails with "vThunder
\* instance is busy now, try again later".
EveryRequestReturns ==
    \A t \in Threads : pc[t] = "wait" ~> pc[t] \in {"idle", "dead"}

\* A vThunder held for a request that may reload it becomes available again,
\* unless the holder's process is killed: requests that wait for it do not wait
\* in vain.
ReloadHoldEnds ==
    \A p \in Projects :
        CtxGet(p).reload > 0 ~>
            \/ CtxGet(p).reload = 0
            \/ \E t \in ExclusiveHolders(p) : pc[t] = "dead"
=============================================================================

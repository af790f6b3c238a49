--------------------------- MODULE BusyLockProofs ---------------------------
(***************************************************************************)
(* Proofs about BusyLock for any finite set of threads, any projects, any  *)
(* timeout and any crashes, also of a process that holds ctx_lock.         *)
(***************************************************************************)
EXTENDS BusyLock, FiniteSetTheorems, TLAPS

\* A thread inside its handler has a request; the check loop is entered only
\* by requests that need the lock.
RequestKnown ==
    \A t \in Threads :
        /\ pc[t] \notin {"idle", "dead"} => req[t] \in Requests
        /\ pc[t] \in {"wait", "try"} => ~req[t].rack /\ ~flags[t]
        /\ pc[t] = "idle" => ~flags[t] /\ ~busy[t]

\* What a raised flag means.
FlagMeansHold ==
    \A t \in Threads : flags[t] =>
        /\ req[t] \in Requests
        /\ ~req[t].rack
        /\ req[t].project \in DOMAIN ctx_map

\* A flow that is built or runs holds its project, is a rack flow or is busy.
FlowHolds ==
    \A t \in Threads :
        pc[t] \in {"load", "flow", "device"} => flags[t] \/ req[t].rack \/ busy[t]

\* The wait loop is left without a hold only after a refusal.
LoopCounts ==
    \A t \in Threads :
        /\ pc[t] = "idle" => timeout[t] = AmpBusyWaitSec
        /\ pc[t] = "wait" => timeout[t] >= 0 \/ busy[t]

\* Who may be inside a critical section of ctx_lock.
LockHolder ==
    \A t \in Threads : ctx_lock = t =>
        /\ pc[t] \in {"try", "notify", "finally", "dead"}
        /\ pc[t] \in {"notify", "finally"} => flags[t]

\* The two counters of a project exclude each other.
CountersExclude ==
    \A p \in Projects :
        CtxGet(p).reload > 0 => CtxGet(p).reload = 1 /\ CtxGet(p).normal = 0

IInv ==
    /\ TypeOK
    /\ RequestKnown
    /\ FlagMeansHold
    /\ FlowHolds
    /\ LoopCounts
    /\ BusyRequestStandsDown
    /\ LockHolder
    /\ CountersExclude
    /\ CountersMatchHolds

-----------------------------------------------------------------------------

\* The sets of holders are finite, so their counts are numbers.
LEMMA HoldersFinite ==
    ASSUME NEW p
    PROVE  /\ IsFiniteSet(SharedHolders(p))
           /\ IsFiniteSet(ExclusiveHolders(p))
<1>1. SharedHolders(p) \in SUBSET Threads /\ ExclusiveHolders(p) \in SUBSET Threads
    BY DEF SharedHolders, ExclusiveHolders
<1> QED  BY <1>1, FS_Subset, BusyLockAssumption

\* Reading the dict after one key was written.
LEMMA CtxSetGet ==
    ASSUME TypeOK, NEW p \in Projects, NEW c \in Counters, CtxSet(p, c)
    PROVE  /\ DOMAIN ctx_map' = DOMAIN ctx_map \cup {p}
           /\ DOMAIN ctx_map' \subseteq Projects
           /\ \A q \in DOMAIN ctx_map' : ctx_map'[q] \in Counters
           /\ \A q : CtxGet(q)' = IF q = p THEN c ELSE CtxGet(q)
<1>1. ctx_map' = [q \in DOMAIN ctx_map \cup {p} |-> IF q = p THEN c ELSE ctx_map[q]]
    BY DEF CtxSet
<1>2. DOMAIN ctx_map' = DOMAIN ctx_map \cup {p}
    BY <1>1
<1>3. \A q \in DOMAIN ctx_map' : ctx_map'[q] = IF q = p THEN c ELSE ctx_map[q]
    BY <1>1
<1> QED  BY <1>2, <1>3 DEF TypeOK, CtxGet

LEMMA CtxGetType ==
    ASSUME TypeOK, NEW p
    PROVE  CtxGet(p) \in Counters
BY DEF TypeOK, CtxGet, Counters, Zero

\* A step that touches neither the dict nor the request of a holder keeps
\* the counters in step with the holders.
LEMMA SameHolders ==
    ASSUME CountersMatchHolds, CountersExclude, UNCHANGED ctx_map,
           \A t \in Threads : /\ flags'[t] = flags[t]
                              /\ flags[t] => req'[t] = req[t]
    PROVE  CountersMatchHolds' /\ CountersExclude'
<1>1. \A p : SharedHolders(p)' = SharedHolders(p) /\ ExclusiveHolders(p)' = ExclusiveHolders(p)
    BY DEF SharedHolders, ExclusiveHolders
<1>2. \A p : CtxGet(p)' = CtxGet(p)
    BY DEF CtxGet
<1> QED  BY <1>1, <1>2 DEF CountersMatchHolds, CountersExclude

LEMMA InitInv == Init => IInv
<1> SUFFICES ASSUME Init PROVE IInv
    OBVIOUS
<1> USE BusyLockAssumption DEF Init
<1>1. TypeOK
    BY DEF TypeOK, Locations, WaitStep, Counters
<1>2. RequestKnown /\ FlagMeansHold /\ FlowHolds /\ LoopCounts /\ BusyRequestStandsDown /\ LockHolder
    BY DEF RequestKnown, FlagMeansHold, FlowHolds, LoopCounts, BusyRequestStandsDown, LockHolder
<1>3. \A p : CtxGet(p) = Zero /\ SharedHolders(p) = {} /\ ExclusiveHolders(p) = {}
    BY DEF CtxGet, SharedHolders, ExclusiveHolders
<1>4. CountersExclude
    BY <1>3 DEF CountersExclude, Zero
<1>5. CountersMatchHolds
    <2>1. Zero.normal = 0 /\ Zero.reload = 0
        BY DEF Zero
    <2> QED  BY <2>1, <1>3, FS_EmptySet DEF CountersMatchHolds
<1> QED  BY <1>1, <1>2, <1>4, <1>5 DEF IInv

\* The actions that leave the counters and the holds alone.
LEMMA QuietSteps ==
    ASSUME IInv,
           \/ \E t \in Threads, r \in Requests : Receive(t, r)
           \/ \E t \in Threads : \/ NextTry(t) \/ GiveUp(t) \/ AcquireCtxLock(t)
                                \/ LoadFlow(t) \/ StartFlow(t) \/ EndFlow(t)
           \/ \E w \in Workers : Crash(w)
           \/ UNCHANGED vars
    PROVE  IInv'
<1> USE BusyLockAssumption, NoRequestAssumption
<1> USE DEF IInv, TypeOK, RequestKnown, FlagMeansHold, FlowHolds, LoopCounts,
            BusyRequestStandsDown, LockHolder, Locations, locals, Go
<1>1. ASSUME NEW t \in Threads, NEW r \in Requests, Receive(t, r)
      PROVE  IInv'
    <2>1. CountersMatchHolds' /\ CountersExclude'
        BY <1>1, SameHolders DEF Receive
    <2>2. r.rack \in BOOLEAN
        BY DEF Requests
    <2> QED  BY <1>1, <2>1, <2>2 DEF Receive
<1>2. ASSUME NEW t \in Threads, NextTry(t)
      PROVE  IInv'
    <2>1. CountersMatchHolds' /\ CountersExclude'
        BY <1>2, SameHolders DEF NextTry
    <2>2. TimeoutAfterTry(timeout[t]) \in (-WaitStep)..AmpBusyWaitSec
        BY <1>2 DEF NextTry, MayTry, TimeoutAfterTry, WaitStep
    <2>3. TypeOK'
        BY <1>2, <2>2 DEF NextTry
    <2>4. (RequestKnown /\ FlagMeansHold /\ FlowHolds /\ LoopCounts /\ BusyRequestStandsDown /\ LockHolder)'
        BY <1>2 DEF NextTry
    <2> QED  BY <2>1, <2>3, <2>4
<1>3. ASSUME NEW t \in Threads, GiveUp(t)
      PROVE  IInv'
    <2>1. CountersMatchHolds' /\ CountersExclude'
        BY <1>3, SameHolders DEF GiveUp
    <2> QED  BY <1>3, <2>1 DEF GiveUp, MayTry
<1>4. ASSUME NEW t \in Threads, AcquireCtxLock(t)
      PROVE  IInv'
    <2>1. CountersMatchHolds' /\ CountersExclude'
        BY <1>4, SameHolders DEF AcquireCtxLock
    <2> QED  BY <1>4, <2>1 DEF AcquireCtxLock, MustHandBack
<1>5. ASSUME NEW t \in Threads, LoadFlow(t)
      PROVE  IInv'
    <2>1. CountersMatchHolds' /\ CountersExclude'
        BY <1>5, SameHolders DEF LoadFlow
    <2> QED  BY <1>5, <2>1 DEF LoadFlow
<1>6. ASSUME NEW t \in Threads, StartFlow(t)
      PROVE  IInv'
    <2>1. CountersMatchHolds' /\ CountersExclude'
        BY <1>6, SameHolders DEF StartFlow
    <2> QED  BY <1>6, <2>1 DEF StartFlow, AfterFirstTask, AfterFlow, HandlerRegistered
<1>7. ASSUME NEW t \in Threads, EndFlow(t)
      PROVE  IInv'
    <2>1. CountersMatchHolds' /\ CountersExclude'
        BY <1>7, SameHolders DEF EndFlow
    <2> QED  BY <1>7, <2>1 DEF EndFlow, AfterFlow, HandlerRegistered
<1>8. ASSUME NEW w \in Workers, Crash(w)
      PROVE  IInv'
    <2>1. CountersMatchHolds' /\ CountersExclude'
        BY <1>8, SameHolders DEF Crash, ContextSurvives
    <2> QED  BY <1>8, <2>1 DEF Crash, ContextSurvives
<1>9. CASE UNCHANGED vars
    <2>1. CountersMatchHolds' /\ CountersExclude'
        BY <1>9, SameHolders DEF vars
    <2> QED  BY <1>9, <2>1 DEF vars
<1> QED  BY <1>1, <1>2, <1>3, <1>4, <1>5, <1>6, <1>7, <1>8, <1>9

\* One more configuring request, or one more that may reload.
LEMMA Grant ==
    ASSUME IInv, NEW t \in Threads, BusyCheck(t), req[t] \in Requests, ~flags[t],
           ~Refuses(CtxGet(req[t].project), req[t].reload)
    PROVE  CountersMatchHolds' /\ CountersExclude'
<1> PICK p \in Projects : p = req[t].project
    BY DEF Requests
<1> PICK c \in Counters : c = CtxGet(p)
    BY CtxGetType DEF IInv
<1> PICK g : g = Granted(c, req[t].reload)
    OBVIOUS
<1>1. req[t].reload \in BOOLEAN /\ TypeOK
    BY DEF Requests, IInv
<1>2. g \in Counters
    BY <1>1 DEF Granted, Counters
<1>3. CtxSet(p, g) /\ flags' = [flags EXCEPT ![t] = TRUE] /\ req' = req
    BY DEF BusyCheck
<1>4. \A q : CtxGet(q)' = IF q = p THEN g ELSE CtxGet(q)
    BY <1>1, <1>2, <1>3, CtxSetGet
<1>5. flags'[t] /\ \A u \in Threads : u # t => flags'[u] = flags[u]
    BY <1>1, <1>3 DEF TypeOK
<1>6. ASSUME NEW q, q # p \/ req[t].reload
      PROVE  SharedHolders(q)' = SharedHolders(q)
    BY <1>3, <1>5, <1>6 DEF SharedHolders
<1>7. ASSUME NEW q, q # p \/ ~req[t].reload
      PROVE  ExclusiveHolders(q)' = ExclusiveHolders(q)
    BY <1>3, <1>5, <1>7 DEF ExclusiveHolders
<1>8. ASSUME NEW q \in Projects, q # p
      PROVE  /\ CtxGet(q)'.normal = Cardinality(SharedHolders(q)')
             /\ CtxGet(q)'.reload = Cardinality(ExclusiveHolders(q)')
             /\ CtxGet(q)'.reload > 0 => CtxGet(q)'.reload = 1 /\ CtxGet(q)'.normal = 0
    <2>1. CtxGet(q)' = CtxGet(q)
        BY <1>4, <1>8
    <2> QED  BY <1>6, <1>7, <1>8, <2>1 DEF IInv, CountersMatchHolds, CountersExclude
<1>9. /\ g.normal = Cardinality(SharedHolders(p)')
      /\ g.reload = Cardinality(ExclusiveHolders(p)')
      /\ g.reload > 0 => g.reload = 1 /\ g.normal = 0
    <2>0. c.normal = Cardinality(SharedHolders(p)) /\ c.reload = Cardinality(ExclusiveHolders(p))
        BY DEF IInv, CountersMatchHolds
    <2>1. CASE req[t].reload
        <3>1. c.reload = 0 /\ c.normal = 0 /\ g.reload = 1 /\ g.normal = 0
            BY <1>1, <2>1 DEF Refuses, Granted, Counters
        <3>2. ExclusiveHolders(p)' = ExclusiveHolders(p) \cup {t} /\ t \notin ExclusiveHolders(p)
            BY <1>3, <1>5, <2>1 DEF ExclusiveHolders
        <3>3. Cardinality(ExclusiveHolders(p)') = 1
            <4>1. ExclusiveHolders(p) = {}
                BY <2>0, <3>1, HoldersFinite, FS_EmptySet
            <4> QED  BY <3>2, <4>1, FS_Singleton
        <3>4. SharedHolders(p)' = SharedHolders(p)
            BY <1>6, <2>1
        <3>5. g.normal = Cardinality(SharedHolders(p)')
            BY <2>0, <3>1, <3>3, <3>4
        <3>6. g.reload = Cardinality(ExclusiveHolders(p)')
            BY <2>0, <3>1, <3>3, <3>4
        <3> QED  BY <3>1, <3>5, <3>6
    <2>2. CASE ~req[t].reload
        <3>1. c.reload = 0 /\ g.reload = 0 /\ g.normal = c.normal + 1
            BY <1>1, <2>2 DEF Refuses, Granted, Counters
        <3>2. SharedHolders(p)' = SharedHolders(p) \cup {t} /\ t \notin SharedHolders(p)
            BY <1>3, <1>5, <2>2 DEF SharedHolders
        <3>3. Cardinality(SharedHolders(p)') = Cardinality(SharedHolders(p)) + 1
            BY <3>2, HoldersFinite, FS_AddElement
        <3>4. ExclusiveHolders(p)' = ExclusiveHolders(p)
            BY <1>7, <2>2
        <3>5. g.normal = Cardinality(SharedHolders(p)')
            BY <2>0, <3>1, <3>3, <3>4
        <3>6. g.reload = Cardinality(ExclusiveHolders(p)')
            BY <2>0, <3>1, <3>3, <3>4
        <3> QED  BY <3>1, <3>5, <3>6
    <2> QED  BY <2>1, <2>2
<1> QED  BY <1>4, <1>8, <1>9 DEF CountersMatchHolds, CountersExclude

\* A hold is handed back: the counter goes down with its holder.
LEMMA HandBack ==
    ASSUME IInv, NEW t \in Threads, CtxCntDec(t)
    PROVE  /\ CountersMatchHolds' /\ CountersExclude'
           /\ flags[t] /\ flags' = [flags EXCEPT ![t] = FALSE]
           /\ DOMAIN ctx_map' = DOMAIN ctx_map
           /\ \A q \in DOMAIN ctx_map' : ctx_map'[q] \in Counters
<1>1. /\ flags[t] /\ req[t] \in Requests /\ req[t].project \in DOMAIN ctx_map
      /\ TypeOK /\ req[t].reload \in BOOLEAN
    BY DEF CtxCntDec, IInv, LockHolder, FlagMeansHold, Requests
<1> PICK p \in Projects : p = req[t].project
    BY <1>1 DEF Requests
<1> PICK c \in Counters : c = CtxGet(p) /\ c = ctx_map[p]
    BY <1>1, CtxGetType DEF CtxGet
<1> PICK h : h = HandedBack(c, req[t].reload)
    OBVIOUS
<1>2. h \in Counters
    BY <1>1 DEF HandedBack, Dec, Counters
<1>3. CtxSet(p, h) /\ flags' = [flags EXCEPT ![t] = FALSE]
    BY <1>1 DEF CtxCntDec, Return, FlagAfterDec
<1>4. /\ DOMAIN ctx_map' = DOMAIN ctx_map
      /\ \A q \in DOMAIN ctx_map' : ctx_map'[q] \in Counters
      /\ \A q : CtxGet(q)' = IF q = p THEN h ELSE CtxGet(q)
    BY <1>1, <1>2, <1>3, CtxSetGet
<1>5. ~flags'[t] /\ \A u \in Threads : u # t => flags'[u] = flags[u] /\ req'[u] = req[u]
    BY <1>1, <1>3 DEF TypeOK, CtxCntDec, Return
<1>6. ASSUME NEW q, q # p \/ req[t].reload
      PROVE  SharedHolders(q)' = SharedHolders(q)
    BY <1>5, <1>6 DEF SharedHolders
<1>7. ASSUME NEW q, q # p \/ ~req[t].reload
      PROVE  ExclusiveHolders(q)' = ExclusiveHolders(q)
    BY <1>5, <1>7 DEF ExclusiveHolders
<1>8. ASSUME NEW q \in Projects, q # p
      PROVE  /\ CtxGet(q)'.normal = Cardinality(SharedHolders(q)')
             /\ CtxGet(q)'.reload = Cardinality(ExclusiveHolders(q)')
             /\ CtxGet(q)'.reload > 0 => CtxGet(q)'.reload = 1 /\ CtxGet(q)'.normal = 0
    <2>1. CtxGet(q)' = CtxGet(q)
        BY <1>4, <1>8
    <2> QED  BY <1>6, <1>7, <1>8, <2>1 DEF IInv, CountersMatchHolds, CountersExclude
<1>9. /\ h.normal = Cardinality(SharedHolders(p)')
      /\ h.reload = Cardinality(ExclusiveHolders(p)')
      /\ h.reload > 0 => h.reload = 1 /\ h.normal = 0
    <2>1. c.normal = Cardinality(SharedHolders(p)) /\ c.reload = Cardinality(ExclusiveHolders(p))
        BY DEF IInv, CountersMatchHolds
    <2>2. c.reload > 0 => c.reload = 1 /\ c.normal = 0
        BY DEF IInv, CountersExclude
    <2>3. CASE req[t].reload
        <3>1. ExclusiveHolders(p)' = ExclusiveHolders(p) \ {t} /\ t \in ExclusiveHolders(p)
            BY <1>1, <1>5, <2>3 DEF ExclusiveHolders
        <3>2. c.reload # 0
            BY <2>1, <3>1, HoldersFinite, FS_EmptySet
        <3>3. c.reload = 1 /\ c.normal = 0 /\ h.reload = 0 /\ h.normal = 0
            BY <2>2, <2>3, <3>2 DEF HandedBack, Dec, Counters
        <3>4. ExclusiveHolders(p)' = {}
            <4>1. Cardinality(ExclusiveHolders(p)) = 1
                BY <2>1, <3>3
            <4>2. \E x : ExclusiveHolders(p) = {x}
                BY <4>1, HoldersFinite, FS_Singleton
            <4> QED  BY <3>1, <4>2
        <3>5. SharedHolders(p)' = SharedHolders(p)
            BY <1>6, <2>3
        <3>6. h.reload = Cardinality(ExclusiveHolders(p)')
            BY <3>3, <3>4, FS_EmptySet
        <3>7. h.normal = Cardinality(SharedHolders(p)')
            BY <2>1, <3>3, <3>5
        <3> QED  BY <3>3, <3>6, <3>7
    <2>4. CASE ~req[t].reload
        <3>1. SharedHolders(p)' = SharedHolders(p) \ {t} /\ t \in SharedHolders(p)
            BY <1>1, <1>5, <2>4 DEF SharedHolders
        <3>2. c.normal # 0
            BY <2>1, <3>1, HoldersFinite, FS_EmptySet
        <3>3. c.reload = 0 /\ h.reload = 0 /\ h.normal = c.normal - 1
            BY <2>2, <2>4, <3>2 DEF HandedBack, Dec, Counters
        <3>4. Cardinality(SharedHolders(p)') = Cardinality(SharedHolders(p)) - 1
            BY <3>1, HoldersFinite, FS_RemoveElement
        <3>5. ExclusiveHolders(p)' = ExclusiveHolders(p)
            BY <1>7, <2>4
        <3>6. h.normal = Cardinality(SharedHolders(p)')
            BY <2>1, <3>3, <3>4
        <3>7. h.reload = Cardinality(ExclusiveHolders(p)')
            BY <2>1, <3>3, <3>5
        <3> QED  BY <3>3, <3>6, <3>7
    <2> QED  BY <2>3, <2>4
<1> QED  BY <1>1, <1>3, <1>4, <1>8, <1>9 DEF CountersMatchHolds, CountersExclude

\* The invariant is inductive.
LEMMA NextInv == IInv /\ [Next]_vars => IInv'
<1> SUFFICES ASSUME IInv, [Next]_vars
             PROVE  IInv'
    OBVIOUS
<1> USE BusyLockAssumption, NoRequestAssumption
<1>1. ASSUME NEW t \in Threads, BusyCheck(t)
      PROVE  IInv'
    <2> USE <1>1 DEF IInv, TypeOK, RequestKnown, FlagMeansHold, FlowHolds, LoopCounts,
                     BusyRequestStandsDown, LockHolder, Locations, Go
    <2>1. req[t] \in Requests /\ ~req[t].rack /\ ~flags[t] /\ req[t].project \in Projects
        BY DEF BusyCheck, Requests
    <2>2. CASE Refuses(CtxGet(req[t].project), req[t].reload)
        <3>1. CountersMatchHolds' /\ CountersExclude'
            BY <2>1, <2>2, SameHolders DEF BusyCheck
        <3> QED  BY <2>1, <2>2, <3>1 DEF BusyCheck, ReleaseCtxLock
    <2>3. CASE ~Refuses(CtxGet(req[t].project), req[t].reload)
        <3>1. CountersMatchHolds' /\ CountersExclude'
            BY <2>1, <2>3, Grant
        <3>2. Granted(CtxGet(req[t].project), req[t].reload) \in Counters
            BY <2>1, CtxGetType DEF Granted, Counters, Requests
        <3>3. CtxSet(req[t].project, Granted(CtxGet(req[t].project), req[t].reload))
            BY <2>3 DEF BusyCheck
        <3>4. /\ DOMAIN ctx_map' = DOMAIN ctx_map \cup {req[t].project}
              /\ DOMAIN ctx_map' \subseteq Projects
              /\ \A q \in DOMAIN ctx_map' : ctx_map'[q] \in Counters
            BY <2>1, <3>2, <3>3, CtxSetGet
        <3>5. Refuses(CtxGet(req[t].project), req[t].reload) = FALSE
            BY <2>3 DEF Refuses
        <3>6. busy' = [busy EXCEPT ![t] = FALSE] /\ flags' = [flags EXCEPT ![t] = TRUE]
            BY <3>5 DEF BusyCheck
        <3>7. TypeOK'
            BY <2>1, <2>3, <3>4, <3>6 DEF BusyCheck, ReleaseCtxLock
        <3>8. (RequestKnown /\ FlowHolds /\ LoopCounts /\ BusyRequestStandsDown)'
            BY <2>1, <2>3 DEF BusyCheck
        <3>9. FlagMeansHold'
            BY <2>1, <2>3, <3>4 DEF BusyCheck
        <3>10. LockHolder'
            BY <2>1, <2>3 DEF BusyCheck, ReleaseCtxLock
        <3> QED  BY <3>1, <3>7, <3>8, <3>9, <3>10
    <2> QED  BY <2>2, <2>3
<1>2. ASSUME NEW t \in Threads, CtxCntDec(t)
      PROVE  IInv'
    <2>1. /\ CountersMatchHolds' /\ CountersExclude'
          /\ flags[t] /\ flags' = [flags EXCEPT ![t] = FALSE]
          /\ DOMAIN ctx_map' = DOMAIN ctx_map
          /\ \A q \in DOMAIN ctx_map' : ctx_map'[q] \in Counters
        BY <1>2, HandBack
    <2>2. CASE pc[t] = "notify"
        BY <1>2, <2>1, <2>2
        DEF IInv, TypeOK, RequestKnown, FlagMeansHold, FlowHolds, LoopCounts,
            BusyRequestStandsDown, LockHolder, Locations, Go, CtxCntDec, ReleaseCtxLock
    <2>3. CASE pc[t] = "finally"
        <3> USE <1>2, <2>1, <2>3
            DEF IInv, TypeOK, Locations, Go, CtxCntDec, ReleaseCtxLock, Return
        <3>0. AmpBusyWaitSec \in (-WaitStep)..AmpBusyWaitSec
            BY DEF WaitStep
        <3>1. TypeOK'
            <4>1. pc' \in [Threads -> Locations] /\ ctx_lock' \in Threads \cup {Free}
                OBVIOUS
            <4>2. req' \in [Threads -> Requests \cup {NoRequest}]
                OBVIOUS
            <4>3. timeout' \in [Threads -> (-WaitStep)..AmpBusyWaitSec]
                BY <3>0
            <4>4. busy' \in [Threads -> BOOLEAN] /\ flags' \in [Threads -> BOOLEAN]
                OBVIOUS
            <4> QED  BY <4>1, <4>2, <4>3, <4>4
        <3>2. RequestKnown' /\ FlowHolds' /\ LoopCounts' /\ BusyRequestStandsDown'
            BY DEF RequestKnown, FlowHolds, LoopCounts, BusyRequestStandsDown
        <3>3. FlagMeansHold'
            BY DEF FlagMeansHold
        <3>4. LockHolder'
            BY DEF LockHolder
        <3> QED  BY <3>1, <3>2, <3>3, <3>4
    <2> QED  BY <1>2, <2>2, <2>3 DEF CtxCntDec
<1>3. ASSUME NEW t \in Threads, FinallySkips(t)
      PROVE  IInv'
    <2>1. ~flags[t]
        BY <1>3 DEF FinallySkips, MustHandBack, IInv, FlagMeansHold
    <2>2. CountersMatchHolds' /\ CountersExclude'
        BY <1>3, <2>1, SameHolders DEF FinallySkips, Return, IInv, TypeOK
    <2> QED
        BY <1>3, <2>1, <2>2
        DEF IInv, TypeOK, RequestKnown, FlagMeansHold, FlowHolds, LoopCounts, WaitStep,
            BusyRequestStandsDown, LockHolder, Locations, Go, FinallySkips, Return
<1> QED  BY <1>1, <1>2, <1>3, QuietSteps DEF Next, Step

-----------------------------------------------------------------------------

\* The strengthened invariant holds in every state of every behaviour.
THEOREM Invariance == Spec => []IInv
BY InitInv, NextInv, PTL DEF Spec

\* Every reachable state is well typed.
THEOREM TypeCorrect == Spec => []TypeOK
<1>1. IInv => TypeOK
    BY DEF IInv
<1> QED  BY <1>1, Invariance, PTL

\* The counters of ctx_map are exactly the holds that are not handed back,
\* whatever is killed, refused, reverted or released twice.
THEOREM CountersExact == Spec => []CountersMatchHolds
<1>1. IInv => CountersMatchHolds
    BY DEF IInv
<1> QED  BY <1>1, Invariance, PTL

\* A request that timed out has nothing to hand back and stays off the device.
THEOREM BusyStandsDown == Spec => []BusyRequestStandsDown
<1>1. IInv => BusyRequestStandsDown
    BY DEF IInv
<1> QED  BY <1>1, Invariance, PTL

\* ctx_cnt_dec never takes its error branch.
THEOREM NeverReset == Spec => []CountersNeverReset
<1>1. IInv => CountersNeverReset
    BY DEF IInv, FlagMeansHold, CountersNeverReset, MustHandBack
<1> QED  BY <1>1, Invariance, PTL

\* Two holders of one project cannot include one that may reload.
LEMMA HoldersExclude ==
    ASSUME IInv, NEW p \in Projects, NEW t \in ExclusiveHolders(p)
    PROVE  ExclusiveHolders(p) = {t} /\ SharedHolders(p) = {}
<1>1. CtxGet(p).reload \in Nat /\ CtxGet(p).reload = Cardinality(ExclusiveHolders(p))
    BY CtxGetType DEF IInv, CountersMatchHolds, Counters
<1>2. CtxGet(p).reload # 0
    BY <1>1, HoldersFinite, FS_EmptySet
<1>3. CtxGet(p).reload = 1 /\ CtxGet(p).normal = 0
    BY <1>1, <1>2 DEF IInv, CountersExclude
<1>4. \E x : ExclusiveHolders(p) = {x}
    BY <1>1, <1>3, HoldersFinite, FS_Singleton
<1>5. SharedHolders(p) = {}
    BY <1>3, HoldersFinite, FS_EmptySet DEF IInv, CountersMatchHolds
<1> QED  BY <1>4, <1>5

\* A request that may reload a vThunder is the only one that drives it.
THEOREM ReloadAlone == Spec => []ReloadRunsAlone
<1>1. IInv => ReloadRunsAlone
    <2> SUFFICES ASSUME IInv, NEW p \in Projects, NEW t \in Threads, NEW u \in Threads,
                        t # u, Drives(t, p), Drives(u, p), req[t].reload
                 PROVE  FALSE
        BY DEF ReloadRunsAlone
    <2>1. flags[t] /\ flags[u] /\ req[t].project = p /\ req[u].project = p
        BY DEF Drives, IInv, FlowHolds, BusyRequestStandsDown
    <2>2. t \in ExclusiveHolders(p)
        BY <2>1 DEF ExclusiveHolders
    <2>3. u \in SharedHolders(p) \/ u \in ExclusiveHolders(p)
        BY <2>1 DEF ExclusiveHolders, SharedHolders
    <2> QED  BY <2>2, <2>3, HoldersExclude
<1> QED  BY <1>1, Invariance, PTL

\* A counter goes down by one, and only in a step in which the thread that
\* took the hold lowers its flag: notification and finally do not both release.
THEOREM ReleasedOnce == Spec => OneReleasePerHold
<1>1. ASSUME IInv, [Next]_vars, NEW p \in Projects, CountedHolds(p)' < CountedHolds(p)
      PROVE  /\ CountedHolds(p)' = CountedHolds(p) - 1
             /\ \E t \in Threads : flags[t] /\ ~flags'[t] /\ req[t].project = p
    <2>0. CtxGet(p) \in Counters /\ CtxGet(p)' \in Counters
        <3>1. TypeOK /\ TypeOK'
            BY <1>1, NextInv DEF IInv
        <3> QED  BY <3>1 DEF TypeOK, CtxGet, Counters, Zero
    <2> PICK c \in Counters : c = CtxGet(p)
        BY <2>0
    <2> PICK d \in Counters : d = CtxGet(p)'
        BY <2>0
    <2>9. CountedHolds(p) = c.normal + c.reload /\ CountedHolds(p)' = d.normal + d.reload
        BY DEF CountedHolds
    <2>00. d.normal + d.reload < c.normal + c.reload
        BY <1>1, <2>9
    <2>1. CtxGet(p)' # CtxGet(p)
        <3> SUFFICES ASSUME c = d PROVE FALSE
            OBVIOUS
        <3> QED  BY <2>00 DEF Counters
    <2>10. ~UNCHANGED ctx_map
        BY <2>1 DEF CtxGet
    <2>2. ASSUME NEW t \in Threads, BusyCheck(t)
          PROVE  FALSE
        <3>1. req[t] \in Requests /\ req[t].project \in Projects /\ req[t].reload \in BOOLEAN
            BY <1>1, <2>2 DEF BusyCheck, IInv, RequestKnown, Requests
        <3> PICK g : g = Granted(CtxGet(req[t].project), req[t].reload)
            OBVIOUS
        <3>2. TypeOK
            BY <1>1 DEF IInv
        <3>3. g \in Counters
            <4>1. CtxGet(req[t].project) \in Counters
                BY <3>2, CtxGetType
            <4> QED  BY <3>1, <4>1 DEF Granted, Counters
        <3>5. CtxSet(req[t].project, g)
            BY <2>2, <2>10 DEF BusyCheck
        <3> PICK r \in Projects : r = req[t].project
            BY <3>1
        <3>4. \A q : CtxGet(q)' = IF q = r THEN g ELSE CtxGet(q)
            BY <3>2, <3>3, <3>5, CtxSetGet
        <3>6. d = IF p = r THEN g ELSE c
            BY <3>4
        <3> QED  BY <2>00, <3>1, <3>6 DEF Granted, Counters
    <2>3. ASSUME NEW t \in Threads, CtxCntDec(t)
          PROVE  /\ d.normal + d.reload = c.normal + c.reload - 1
                 /\ flags[t] /\ ~flags'[t] /\ req[t].project = p
        <3>1. flags[t] /\ flags' = [flags EXCEPT ![t] = FALSE] /\ TypeOK
            BY <1>1, <2>3, HandBack DEF IInv
        <3>2. /\ req[t].project \in Projects /\ req[t].project \in DOMAIN ctx_map
              /\ req[t].reload \in BOOLEAN /\ ~flags'[t]
            BY <1>1, <3>1 DEF IInv, FlagMeansHold, Requests, TypeOK
        <3> PICK h : h = HandedBack(CtxGet(req[t].project), req[t].reload)
            OBVIOUS
        <3>3. h \in Counters
            <4>1. CtxGet(req[t].project) \in Counters
                BY <3>1, CtxGetType
            <4> QED  BY <3>2, <4>1 DEF HandedBack, Dec, Counters
        <3>4. CtxSet(req[t].project, h)
            BY <2>3, <3>2 DEF CtxCntDec, CtxGet
        <3>5. d = IF p = req[t].project THEN h ELSE c
            BY <3>1, <3>2, <3>3, <3>4, CtxSetGet
        <3>6. p = req[t].project /\ d = h
            BY <2>1, <3>5
        <3>7. d.normal + d.reload = c.normal + c.reload - 1
            BY <2>00, <3>2, <3>6 DEF HandedBack, Dec, Counters
        <3> QED  BY <3>1, <3>2, <3>6, <3>7
    <2>4. \E t \in Threads : CtxCntDec(t)
        BY <1>1, <2>10, <2>2
        DEF Next, Step, vars, Receive, NextTry, GiveUp, AcquireCtxLock, LoadFlow, StartFlow, EndFlow,
            FinallySkips, Crash, ContextSurvives
    <2> PICK t \in Threads : CtxCntDec(t)
        BY <2>4
    <2>5. d.normal + d.reload = c.normal + c.reload - 1
        BY <2>3
    <2>6. flags[t] /\ ~flags'[t] /\ req[t].project = p
        BY <2>3
    <2>7. CountedHolds(p)' = CountedHolds(p) - 1
        <3> PICK x \in Nat : x = CountedHolds(p)
            BY <2>9 DEF Counters
        <3> PICK y \in Nat : y = CountedHolds(p)'
            BY <2>9 DEF Counters
        <3>1. x = c.normal + c.reload
            BY <2>9
        <3>2. y = d.normal + d.reload
            BY <2>9
        <3>3. y = x - 1
            BY <2>5, <3>1, <3>2 DEF Counters
        <3> QED  BY <3>3
    <2> QED  BY <2>6, <2>7, Zenon
<1> DEFINE Once == \A p \in Projects :
                      CountedHolds(p)' < CountedHolds(p) =>
                        /\ CountedHolds(p)' = CountedHolds(p) - 1
                        /\ \E t \in Threads : flags[t] /\ ~flags'[t] /\ req[t].project = p
<1>2. IInv /\ [Next]_vars => [Once]_vars
    BY <1>1
<1> HIDE DEF Once
<1>3. Spec => [][Once]_vars
    BY <1>2, InitInv, NextInv, PTL DEF Spec
<1> QED  BY <1>3 DEF Once, OneReleasePerHold

\* The counters, the flags and the two releases implement readers and writers
\* on each project: every step of the lock is a step of the abstract one.
THEOREM Refinement == Spec => ImplementsReadersWriters
<1> DEFINE S == [p \in Projects |-> SharedHolders(p)]
           X == [p \in Projects |-> ExclusiveHolders(p)]
<1>1. Init => RW!RWInit
    BY DEF Init, RW!RWInit, SharedHolders, ExclusiveHolders
<1>2. IInv /\ [Next]_vars => [RW!RWNext]_(RW!rwVars)
    <2> SUFFICES ASSUME IInv, [Next]_vars
                 PROVE  [RW!RWNext]_(RW!rwVars)
        OBVIOUS
    <2>1. ASSUME \A t \in Threads : /\ flags'[t] = flags[t]
                                    /\ flags[t] => req'[t] = req[t]
          PROVE  UNCHANGED RW!rwVars
        <3>1. \A p : /\ SharedHolders(p)' = SharedHolders(p)
                     /\ ExclusiveHolders(p)' = ExclusiveHolders(p)
            BY <2>1 DEF SharedHolders, ExclusiveHolders
        <3> QED  BY <3>1 DEF RW!rwVars
    <2>2. ASSUME NEW t \in Threads, BusyCheck(t)
          PROVE  [RW!RWNext]_(RW!rwVars)
        <3>1. req[t] \in Requests /\ req[t].project \in Projects /\ ~flags[t]
            BY <2>2 DEF BusyCheck, IInv, RequestKnown, Requests
        <3> PICK p \in Projects : p = req[t].project
            BY <3>1
        <3>2. CASE Refuses(CtxGet(p), req[t].reload)
            BY <2>1, <2>2, <3>1, <3>2 DEF BusyCheck, IInv, TypeOK
        <3>3. CASE ~Refuses(CtxGet(p), req[t].reload)
            <4>1. req' = req /\ flags' = [flags EXCEPT ![t] = TRUE]
                BY <2>2, <3>3 DEF BusyCheck
            <4>2. flags'[t] /\ \A u \in Threads : u # t => flags'[u] = flags[u]
                BY <4>1 DEF IInv, TypeOK
            <4>3. CtxGet(p) \in Counters
                BY CtxGetType DEF IInv
            <4>4. CtxGet(p).reload = 0 /\ (req[t].reload => CtxGet(p).normal = 0)
                BY <3>3, <4>3 DEF Refuses, Counters
            <4>5. ExclusiveHolders(p) = {} /\ (req[t].reload => SharedHolders(p) = {})
                BY <4>4, HoldersFinite, FS_EmptySet DEF IInv, CountersMatchHolds
            <4>6. CASE req[t].reload
                <5>1. \A q : SharedHolders(q)' = SharedHolders(q)
                    BY <4>1, <4>2, <4>6 DEF SharedHolders
                <5>2. \A q : q # p => ExclusiveHolders(q)' = ExclusiveHolders(q)
                    BY <4>1, <4>2 DEF ExclusiveHolders
                <5>3. ExclusiveHolders(p)' = {t}
                    BY <4>1, <4>2, <4>5, <4>6 DEF ExclusiveHolders
                <5>4. RW!EnterExclusive(t, p)
                    BY <4>5, <4>6, <5>1, <5>2, <5>3 DEF RW!EnterExclusive
                <5> QED  BY <5>4 DEF RW!RWNext
            <4>7. CASE ~req[t].reload
                <5>1. \A q : ExclusiveHolders(q)' = ExclusiveHolders(q)
                    BY <4>1, <4>2, <4>7 DEF ExclusiveHolders
                <5>2. \A q : q # p => SharedHolders(q)' = SharedHolders(q)
                    BY <4>1, <4>2 DEF SharedHolders
                <5>3. SharedHolders(p)' = SharedHolders(p) \cup {t} /\ t \notin SharedHolders(p)
                    BY <3>1, <4>1, <4>2, <4>7 DEF SharedHolders
                <5>4. RW!EnterShared(t, p)
                    BY <4>5, <5>1, <5>2, <5>3 DEF RW!EnterShared
                <5> QED  BY <5>4 DEF RW!RWNext
            <4> QED  BY <4>6, <4>7
        <3> QED  BY <3>2, <3>3
    <2>3. ASSUME NEW t \in Threads, CtxCntDec(t)
          PROVE  [RW!RWNext]_(RW!rwVars)
        <3>1. flags[t] /\ flags' = [flags EXCEPT ![t] = FALSE]
            BY <2>3, HandBack
        <3>2. req[t].project \in Projects /\ req[t].reload \in BOOLEAN
            BY <3>1 DEF IInv, FlagMeansHold, Requests
        <3> PICK p \in Projects : p = req[t].project
            BY <3>2
        <3>3. ~flags'[t] /\ \A u \in Threads : u # t => flags'[u] = flags[u] /\ req'[u] = req[u]
            BY <2>3, <3>1 DEF CtxCntDec, Return, IInv, TypeOK
        <3>4. \A q : SharedHolders(q)' = SharedHolders(q) \ {t}
            BY <3>3 DEF SharedHolders
        <3>5. \A q : ExclusiveHolders(q)' = ExclusiveHolders(q) \ {t}
            BY <3>3 DEF ExclusiveHolders
        <3>6. \A q : q # p => t \notin SharedHolders(q) /\ t \notin ExclusiveHolders(q)
            BY DEF SharedHolders, ExclusiveHolders
        <3>7. t \in SharedHolders(p) \cup ExclusiveHolders(p)
            BY <3>1 DEF SharedHolders, ExclusiveHolders
        <3>8. \A q : q # p => /\ SharedHolders(q)' = SharedHolders(q)
                              /\ ExclusiveHolders(q)' = ExclusiveHolders(q)
            BY <3>4, <3>5, <3>6
        <3>9. RW!Leave(t, p)
            BY <3>4, <3>5, <3>7, <3>8 DEF RW!Leave
        <3> QED  BY <3>9 DEF RW!RWNext
    <2>4. ASSUME NEW t \in Threads, FinallySkips(t)
          PROVE  UNCHANGED RW!rwVars
        <3>1. ~flags[t]
            BY <2>4 DEF FinallySkips, MustHandBack, IInv, FlagMeansHold
        <3> QED  BY <2>1, <2>4, <3>1 DEF FinallySkips, Return, IInv, TypeOK
    <2>5. ASSUME NEW t \in Threads, NEW r \in Requests, Receive(t, r)
          PROVE  UNCHANGED RW!rwVars
        BY <2>1, <2>5 DEF Receive, IInv, TypeOK, RequestKnown
    <2>6. ASSUME \/ \E t \in Threads : \/ NextTry(t) \/ GiveUp(t) \/ AcquireCtxLock(t)
                                       \/ LoadFlow(t) \/ StartFlow(t) \/ EndFlow(t)
                 \/ \E w \in Workers : Crash(w)
                 \/ UNCHANGED vars
          PROVE  UNCHANGED RW!rwVars
        <3>1. flags' = flags /\ req' = req
            BY <2>6 DEF NextTry, GiveUp, AcquireCtxLock, LoadFlow, StartFlow, EndFlow, Crash,
                        locals, vars
        <3> QED  BY <2>1, <3>1
    <2> QED  BY <2>2, <2>3, <2>4, <2>5, <2>6 DEF Next, Step
<1> QED  BY <1>1, <1>2, Invariance, PTL DEF Spec, ImplementsReadersWriters, RW!RWSpec
=============================================================================

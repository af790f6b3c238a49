----------------------------- MODULE PoolObjects -----------------------------
(***************************************************************************)
(* Pools with their session persistence, their PROXY protocol template and *)
(* their health monitor, and the load balancers created or deleted with    *)
(* them.                                                                   *)
(*                                                                         *)
(* On the device a pool is a service group; its persistence is a template  *)
(* with the pool's name; the PROXY protocol is one tcp-proxy template that *)
(* all such pools of the partition share.  The listener that has the pool  *)
(* as its default binds the three in its virtual port.  A health monitor   *)
(* is an object of its own, set on the servers of the pool's members,      *)
(* which pools share when they have members of one address.                *)
(*                                                                         *)
(* Requests and flows are those of ListenerObjects: a sequence of tasks,   *)
(* the reverts of those executed when one raises, ACTIVE before the end.   *)
(***************************************************************************)
EXTENDS Naturals, Sequences

CONSTANTS
    LBs, Pools, Servers,
    LbOf,        \* the load balancer of a pool
    ProjectOf,   \* the project of a load balancer
    Default,     \* the pools that are the default pool of a listener
    Proxied,     \* the pools with the PROXY protocol
    ServersOf,   \* the servers of the members of a pool
    Slots,       \* bound: the flows under way at a time
    Scenes,      \* bound: the requests that are made, the objects that exist
                 \* from the start, and the kinds of Thunder
    None

ASSUME ShapeAssumption ==
    /\ LbOf \in [Pools -> LBs] /\ DOMAIN ProjectOf = LBs
    /\ Default \subseteq Pools /\ Proxied \subseteq Pools
    /\ \A p, q \in Default : LbOf[p] = LbOf[q] => p = q
    /\ ServersOf \in [Pools -> SUBSET Servers]
    /\ LBs \cap Pools = {} /\ None \notin LBs \cup Pools
    /\ \A sc \in Scenes :
         /\ sc.exist \subseteq LBs \cup Pools /\ sc.rack \in BOOLEAN
         /\ \A p \in sc.exist \cap Pools : LbOf[p] \in sc.exist

VARIABLES
    scene,      \* the requests made in this behaviour
    lb,         \* provisioning_status of the load balancers
    pool,       \* of the pools
    hm,         \* of their health monitors
    sp,         \* the pools whose row has a session_persistence
    vports,     \* device: the load balancers whose listener has its port
    groups,     \* device: service groups
    pers,       \* device: persistence templates
    proxy,      \* device: the tcp-proxy template
    front,      \* device: what the port of a default pool is bound to
    monitors,   \* device: health monitors
    check,      \* device: the monitor of each server
    flow,       \* the flow in each slot
    overlapped, \* history: load balancers with two flows where one failed,
                \* or where one was the creation of the load balancer
    raced,      \* history: pools whose tcp-proxy template was deleted though
                \* they were not in the count, of another project, or back
                \* from a deletion that failed
    overset,    \* history: pools with a server whose monitor another pool set
    revived,    \* history: pools, and monitors, in ERROR when the monitor was
                \* changed
    halfway,    \* history: pools whose deletion failed
    left        \* history: objects on the device whose clean-up failed

device == <<vports, groups, pers, proxy, front, monitors, check>>
rows == <<lb, pool, hm, sp>>
hist == <<overlapped, raced, overset, revived, halfway, left>>
vars == <<scene, rows, device, flow, hist>>

Statuses == {"NEW", "PENDING", "DELETING", "ACTIVE", "ERROR", "GONE"}
HasRow(st) == st \notin {"NEW", "GONE"}
PoolsOf(l) == {p \in Pools : LbOf[p] = l /\ HasRow(pool[p])}

Task(do, on) == [do |-> do, on |-> on]
(* The flow is at task number pc of those of cur: one pool, or, with the   *)
(* last ones, the object of the request.  The pools in rest come between.  *)
Idle == [op |-> "none", on |-> None, sp |-> FALSE, monitored |-> {}, last |-> FALSE, seen |-> {},
         rest |-> {}, cur |-> None, pc |-> 1, done |-> {}, step |-> "idle"]
LbAt(s) == IF flow[s].on \in LBs THEN flow[s].on ELSE LbOf[flow[s].on]
On(l) == {s \in Slots : flow[s].step # "idle" /\ LbAt(s) = l}

Unbound == [group |-> FALSE, pers |-> FALSE, proxy |-> FALSE]

Init ==
    /\ scene \in Scenes
    /\ lb = [l \in LBs |-> IF l \in scene.exist THEN "ACTIVE" ELSE "NEW"]
    /\ pool = [p \in Pools |-> IF p \in scene.exist THEN "ACTIVE" ELSE "NEW"]
    /\ hm = [p \in Pools |-> "NEW"]
    /\ sp = {}
    /\ vports = scene.exist \cap LBs
    /\ groups = scene.exist \cap Pools
    /\ pers = {}
    /\ proxy = (scene.exist \cap Proxied # {})
    /\ front = [p \in Default |->
                  IF p \in scene.exist THEN [Unbound EXCEPT !.group = TRUE, !.proxy = p \in Proxied]
                  ELSE Unbound]
    /\ monitors = {}
    /\ check = [v \in Servers |-> None]
    /\ flow = [s \in Slots |-> Idle]
    /\ overlapped = {} /\ raced = {} /\ overset = {} /\ revived = {} /\ halfway = {} /\ left = {}

-----------------------------------------------------------------------------
(* The flows.  Members are in MemberServers.                               *)
PoolCreateFlow == <<"proxy", "group", "persist", "front", "pool_active", "active">>
PoolUpdateFlow == <<"replace_group", "persist", "front", "pool_row", "pool_active", "active">>
(* Mutant: the persistence template is forgotten.                          *)
PoolDeleteFlowKeepsTemplate ==
    <<"front", "count", "no_monitor", "no_proxy", "no_group", "no_row", "active">>
PoolDeleteFlow ==
    <<"front", "no_persist", "count", "no_monitor", "no_proxy", "no_group", "no_row", "active">>

(* Mutant: ACTIVE before the servers have the monitor.                     *)
HmCreateFlowMarksFirst == <<"monitor", "hm_active", "associate", "pool_active", "active">>
HmCreateFlow == <<"monitor", "associate", "hm_active", "pool_active", "active">>
HmUpdateFlow == <<"change_monitor", "hm_active", "pool_active", "active">>
HmDeleteFlow == <<"no_monitor", "no_hm_row", "pool_active", "active">>

(* The fully populated creation: the pools, each after its monitor, if it  *)
(* has one, then the listeners.                                            *)
PoolSubflow ==
    <<"monitor", "associate", "hm_active", "proxy", "group", "persist", "pool_active">>
LbCreateFlow == <<"listener", "active", "active">>
FirstTask(f, p) == IF f.op = "create_lb" /\ p \notin f.monitored THEN 4 ELSE 1

(* The cascading deletion, after the policies and before the listeners.    *)
PoolCascade ==
    <<"deleting", "clear_front", "no_persist", "count", "no_monitor", "no_proxy", "no_group", "no_row">>
LbDeleteFlow == <<"no_lb">>

Tasks(f) ==
    CASE f.op = "create_pool" -> PoolCreateFlow
      [] f.op = "update_pool" -> PoolUpdateFlow
      [] f.op = "delete_pool" -> PoolDeleteFlow
      [] f.op = "create_hm" -> HmCreateFlow
      [] f.op = "update_hm" -> HmUpdateFlow
      [] f.op = "delete_hm" -> HmDeleteFlow
      [] f.op = "create_lb" /\ f.cur # f.on -> PoolSubflow
      [] f.op = "create_lb" /\ f.cur = f.on -> LbCreateFlow
      [] f.op = "delete_lb" /\ f.cur # f.on -> PoolCascade
      [] f.op = "delete_lb" /\ f.cur = f.on -> LbDeleteFlow
Ended(f) == f.pc > Len(Tasks(f))
Doing(f, do) == ~Ended(f) /\ Tasks(f)[f.pc] = do

(* A flow at its next pool, and, when the one it had is done, there.       *)
NextPart(f) ==
    IF f.rest = {} THEN {[f EXCEPT !.cur = f.on, !.pc = 1]}
    ELSE {[f EXCEPT !.cur = p, !.rest = @ \ {p}, !.pc = FirstTask(f, p)] : p \in f.rest}
Refilled(f) == IF Ended(f) /\ f.cur # f.on THEN NextPart(f) ELSE {f}

-----------------------------------------------------------------------------
(* The Octavia API admits a request when the load balancer is ACTIVE (to   *)
(* delete it, in ERROR too).                                               *)
Admit(s, f) ==
    LET l == IF f.on \in LBs THEN f.on ELSE LbOf[f.on]
    IN  /\ flow[s] = Idle
        /\ <<f.op, f.on>> \in scene.requests
        /\ lb' = [lb EXCEPT ![l] = "PENDING"]
        /\ flow' = [flow EXCEPT ![s] = f]
        /\ overlapped' = IF \E t \in On(l) : flow[t].on = l \/ flow[t].step = "revert"
                         THEN overlapped \cup {l} ELSE overlapped
        /\ UNCHANGED <<scene, device, raced, overset, halfway, left>>

PoolFlow(op, p, persistent, monitored) ==
    [Idle EXCEPT !.op = op, !.on = p, !.cur = p, !.sp = persistent, !.monitored = monitored,
                 !.step = "queued"]
LbFlow(op, l, pools, monitored) ==
    [Idle EXCEPT !.op = op, !.on = l, !.rest = pools, !.monitored = monitored, !.step = "queued"]

CreatePool(s, p) ==
    /\ pool[p] = "NEW" /\ lb[LbOf[p]] = "ACTIVE"
    /\ \E persistent \in BOOLEAN :
         /\ sp' = IF persistent THEN sp \cup {p} ELSE sp
         /\ Admit(s, PoolFlow("create_pool", p, persistent, {}))
    /\ pool' = [pool EXCEPT ![p] = "PENDING"]
    /\ UNCHANGED <<hm, revived>>

UpdatePool(s, p) ==
    /\ HasRow(pool[p]) /\ lb[LbOf[p]] = "ACTIVE"
    /\ \E persistent \in BOOLEAN :
         Admit(s, PoolFlow("update_pool", p, persistent, {}))
    /\ pool' = [pool EXCEPT ![p] = "PENDING"]
    /\ UNCHANGED <<hm, sp, revived>>

Monitored(S) == {p \in S : HasRow(hm[p])}

DeletePool(s, p) ==
    /\ HasRow(pool[p]) /\ lb[LbOf[p]] = "ACTIVE"
    /\ Admit(s, PoolFlow("delete_pool", p, p \in sp, Monitored({p})))
    /\ pool' = [pool EXCEPT ![p] = "DELETING"]
    /\ UNCHANGED <<hm, sp, revived>>

(* A monitor's request makes its pool PENDING too.                         *)
ChangeMonitor(s, op, p, status) ==
    /\ HasRow(pool[p]) /\ lb[LbOf[p]] = "ACTIVE"
    /\ Admit(s, PoolFlow(op, p, FALSE, {p}))
    /\ hm' = [hm EXCEPT ![p] = status]
    /\ pool' = [pool EXCEPT ![p] = "PENDING"]
    /\ revived' = revived \cup {<<"pool", q>> : q \in {x \in {p} : pool[x] = "ERROR"}}
                           \cup {<<"hm", q>> : q \in {x \in {p} : hm[x] = "ERROR"}}
    /\ UNCHANGED sp

CreateMonitor(s, p) ==
    hm[p] = "NEW" /\ ChangeMonitor(s, "create_hm", p, "PENDING")
UpdateMonitor(s, p) ==
    HasRow(hm[p]) /\ ChangeMonitor(s, "update_hm", p, "PENDING")
DeleteMonitor(s, p) ==
    HasRow(hm[p]) /\ ChangeMonitor(s, "delete_hm", p, "DELETING")

CreateLb(s, l) ==
    LET new == {p \in Pools : LbOf[p] = l}
    IN  /\ lb[l] = "NEW"
        /\ \E monitored \in SUBSET new, persistent \in SUBSET new :
             /\ hm' = [p \in Pools |-> IF p \in monitored THEN "PENDING" ELSE hm[p]]
             /\ sp' = sp \cup persistent
             /\ \E f \in NextPart(LbFlow("create_lb", l, new, monitored)) : Admit(s, f)
        /\ pool' = [p \in Pools |-> IF p \in new THEN "PENDING" ELSE pool[p]]
        /\ UNCHANGED revived

DeleteLb(s, l) ==
    /\ lb[l] \in {"ACTIVE", "ERROR"}
    /\ \E f \in NextPart(LbFlow("delete_lb", l, PoolsOf(l), Monitored(PoolsOf(l)))) : Admit(s, f)
    /\ UNCHANGED <<pool, hm, sp, revived>>

-----------------------------------------------------------------------------
(* On a vThunder a flow that creates or deletes a load balancer runs alone *)
(* in its project (BusyLock).                                              *)
Alone(s, t) ==
    /\ {flow[s].on, flow[t].on} \cap LBs # {}
    /\ ProjectOf[LbAt(s)] = ProjectOf[LbAt(t)]
Begin(s) ==
    /\ flow[s].step = "queued"
    /\ ~scene.rack => \A t \in Slots \ {s} : flow[t].step \in {"run", "revert"} => ~Alone(s, t)
    /\ flow' = [flow EXCEPT ![s].step = "run"]
    /\ UNCHANGED <<scene, rows, device, hist>>

At(s, do) == flow[s].step = "run" /\ Doing(flow[s], do)
Target(s) == flow[s].cur
(* Kept in done are the tasks with a revert, and the pools reached.        *)
Kept == {"proxy", "group", "persist", "monitor", "active", "pool_active", "hm_active", "deleting"}
Done(f) == f.done \cup {Task(do, f.cur) : do \in {k \in Kept : Doing(f, k)}}
Proceed(s, f) == \E g \in Refilled([f EXCEPT !.pc = @ + 1, !.done = Done(f)]) :
                    flow' = [flow EXCEPT ![s] = g]
Advance(s) == Proceed(s, flow[s])

-----------------------------------------------------------------------------
(* Of a pool's flow: the persistence of the update, and of the others.     *)
WantsPers(s, p) == IF flow[s].on = p THEN flow[s].sp ELSE p \in sp

(* set_proxy, for a pool with the PROXY protocol: a template that is there *)
(* is used.                                                                *)
PutProxy(s) ==
    /\ At(s, "proxy")
    /\ proxy' = (proxy \/ Target(s) \in Proxied)
    /\ Advance(s)
    /\ UNCHANGED <<scene, rows, vports, groups, pers, front, monitors, check, hist>>

CreateGroup(s) ==
    /\ At(s, "group")
    /\ Target(s) \notin groups
    /\ groups' = groups \cup {Target(s)}
    /\ Advance(s)
    /\ UNCHANGED <<scene, rows, vports, pers, proxy, front, monitors, check, hist>>

ReplaceGroup(s) ==
    /\ At(s, "replace_group")
    /\ Target(s) \in groups
    /\ Advance(s)
    /\ UNCHANGED <<scene, rows, device, hist>>

Bound(p, part, value) ==
    IF p \in Default THEN [front EXCEPT ![p][part] = value] ELSE front

(* HandleSessionPersistenceDelta: the template is deleted, and made anew   *)
(* when the pool has one; the port is bound to it again by the next task.  *)
PutPersistence(s) ==
    LET p == Target(s)
    IN  /\ At(s, "persist")
        /\ pers' = IF WantsPers(s, p) THEN pers \cup {p} ELSE pers \ {p}
        /\ front' = Bound(p, "pers", FALSE)
        /\ Advance(s)
        /\ UNCHANGED <<scene, rows, vports, groups, proxy, monitors, check, hist>>

DeletePersistence(s) ==
    LET p == Target(s)
    IN  /\ At(s, "no_persist")
        /\ IF p \in sp THEN pers' = pers \ {p} /\ front' = Bound(p, "pers", FALSE)
           ELSE UNCHANGED <<pers, front>>
        /\ Advance(s)
        /\ UNCHANGED <<scene, rows, vports, groups, proxy, monitors, check, hist>>

(* Mutant: the template is named whether or not it is there.               *)
UpdateFrontBlindly(s) ==
    LET p == Target(s)
        usesProxy == p \in Proxied /\ pool[p] # "DELETING"
    IN  /\ At(s, "front")
        /\ IF p \notin Default THEN UNCHANGED front
           ELSE /\ LbOf[p] \in vports /\ p \in groups
                /\ WantsPers(s, p) => p \in pers
                /\ front' = [front EXCEPT ![p] = [group |-> TRUE, pers |-> WantsPers(s, p),
                                                  proxy |-> usesProxy]]
        /\ Advance(s)
        /\ UNCHANGED <<scene, rows, vports, groups, pers, proxy, monitors, check, hist>>

(* ListenerUpdateForPool; what it names must exist.                        *)
UpdateFront(s) ==
    LET p == Target(s)
        usesProxy == p \in Proxied /\ pool[p] # "DELETING"
    IN  /\ At(s, "front")
        /\ IF p \notin Default THEN UNCHANGED front
           ELSE /\ LbOf[p] \in vports /\ p \in groups
                /\ WantsPers(s, p) => p \in pers
                /\ usesProxy => proxy
                /\ front' = [front EXCEPT ![p] = [group |-> TRUE, pers |-> WantsPers(s, p),
                                                  proxy |-> usesProxy]]
        /\ Advance(s)
        /\ UNCHANGED <<scene, rows, vports, groups, pers, proxy, monitors, check, hist>>

ClearFront(s) ==
    LET p == Target(s)
    IN  /\ At(s, "clear_front")
        /\ p \in Default => LbOf[p] \in vports
        /\ front' = IF p \in Default THEN [front EXCEPT ![p] = Unbound] ELSE front
        /\ Advance(s)
        /\ UNCHANGED <<scene, rows, vports, groups, pers, proxy, monitors, check, hist>>

(* Mutant: only ACTIVE pools count.                                        *)
CountActivePools(s) ==
    LET ofProject == {q \in Proxied : /\ HasRow(pool[q])
                                      /\ ProjectOf[LbOf[q]] = ProjectOf[LbAt(s)]}
    IN  /\ At(s, "count")
        /\ Proceed(s, [flow[s] EXCEPT !.last = \A q \in ofProject : pool[q] # "ACTIVE",
                                     !.seen = ofProject])
        /\ UNCHANGED <<scene, rows, device, hist>>

(* GetProxyProtocolPoolCount.                                              *)
CountProxyPools(s) ==
    LET ofProject == {q \in Proxied : /\ HasRow(pool[q])
                                      /\ ProjectOf[LbOf[q]] = ProjectOf[LbAt(s)]}
    IN  /\ At(s, "count")
        /\ Proceed(s, [flow[s] EXCEPT !.last = \A q \in ofProject : pool[q] = "DELETING",
                                     !.seen = ofProject])
        /\ UNCHANGED <<scene, rows, device, hist>>

(* delete_proxy: its errors are swallowed.                                 *)
DeleteProxy(s) ==
    LET p == Target(s)
    IN  /\ At(s, "no_proxy")
        /\ IF p \in Proxied /\ flow[s].last
           THEN \/ /\ proxy' = FALSE
                   /\ front' = [q \in Default |-> [front[q] EXCEPT !.proxy = FALSE]]
                   /\ raced' = raced \cup {q \in Proxied : HasRow(pool[q]) /\ q \notin flow[s].seen \ halfway}
                   /\ UNCHANGED left
                \/ left' = left \cup Proxied /\ UNCHANGED <<proxy, front, raced>>
           ELSE UNCHANGED <<proxy, front, raced, left>>
        /\ Advance(s)
        /\ UNCHANGED <<scene, rows, vports, groups, pers, monitors, check,
                       overlapped, overset, revived, halfway>>

DeleteGroup(s) ==
    /\ At(s, "no_group")
    /\ Target(s) \in groups
    /\ groups' = groups \ {Target(s)}
    /\ front' = Bound(Target(s), "group", FALSE)
    /\ Advance(s)
    /\ UNCHANGED <<scene, rows, vports, pers, proxy, monitors, check, hist>>

(* The virtual port of the listener is created with its default pool.      *)
CreateListener(s) ==
    LET mine == {p \in Default : LbOf[p] = Target(s) /\ HasRow(pool[p])}
    IN  /\ At(s, "listener")
        /\ \A p \in mine : p \in groups /\ (p \in sp => p \in pers) /\ (p \in Proxied => proxy)
        /\ vports' = vports \cup {Target(s)}
        /\ front' = [p \in Default |->
                       IF p \in mine THEN [group |-> TRUE, pers |-> p \in sp, proxy |-> p \in Proxied]
                       ELSE front[p]]
        /\ Advance(s)
        /\ UNCHANGED <<scene, rows, groups, pers, proxy, monitors, check, hist>>

-----------------------------------------------------------------------------
PutMonitor(s) ==
    /\ At(s, "monitor")
    /\ Target(s) \notin monitors
    /\ monitors' = monitors \cup {Target(s)}
    /\ Advance(s)
    /\ UNCHANGED <<scene, rows, vports, groups, pers, proxy, front, check, hist>>

(* The servers of the members get this monitor, which must exist, whatever *)
(* they had.                                                               *)
Associate(s) ==
    LET p == Target(s)
        taken == {q \in Pools \ {p} : ServersOf[q] \cap ServersOf[p] # {}}
    IN  /\ At(s, "associate")
        /\ p \in monitors
        /\ check' = [v \in Servers |-> IF v \in ServersOf[p] THEN p ELSE check[v]]
        /\ overset' = (overset \cup taken) \ {p}
        /\ Advance(s)
        /\ UNCHANGED <<scene, rows, vports, groups, pers, proxy, front, monitors,
                       overlapped, raced, revived, halfway, left>>

UpdateMonitorTask(s) ==
    /\ At(s, "change_monitor")
    /\ Target(s) \in monitors
    /\ Advance(s)
    /\ UNCHANGED <<scene, rows, device, hist>>

Unchecked(S) == [v \in Servers |-> IF check[v] \in S THEN None ELSE check[v]]

(* DeleteHealthMonitor: one that is missing is skipped.  In the deletion   *)
(* of a pool this part is empty when the pool had none.                    *)
DeleteMonitorTask(s) ==
    /\ At(s, "no_monitor")
    /\ IF Target(s) \in flow[s].monitored
       THEN monitors' = monitors \ {Target(s)} /\ check' = Unchecked({Target(s)})
       ELSE UNCHANGED <<monitors, check>>
    /\ Advance(s)
    /\ UNCHANGED <<scene, rows, vports, groups, pers, proxy, front, hist>>

-----------------------------------------------------------------------------
Set(st, S, to) == [x \in DOMAIN st |-> IF x \in S /\ HasRow(st[x]) THEN to ELSE st[x]]

UpdatePoolRow(s) ==
    LET p == Target(s)
    IN  /\ At(s, "pool_row")
        /\ sp' = IF flow[s].sp THEN sp \cup {p} ELSE sp \ {p}
        /\ Advance(s)
        /\ UNCHANGED <<scene, lb, pool, hm, device, hist>>

MarkPoolActive(s) ==
    /\ At(s, "pool_active")
    /\ pool' = Set(pool, {Target(s)}, "ACTIVE")
    /\ Advance(s)
    /\ UNCHANGED <<scene, lb, hm, sp, device, hist>>

MarkMonitorActive(s) ==
    /\ At(s, "hm_active")
    /\ hm' = Set(hm, {Target(s)}, "ACTIVE")
    /\ Advance(s)
    /\ UNCHANGED <<scene, lb, pool, sp, device, hist>>

MarkActive(s) ==
    /\ At(s, "active")
    /\ lb' = Set(lb, {LbAt(s)}, "ACTIVE")
    /\ Advance(s)
    /\ UNCHANGED <<scene, pool, hm, sp, device, hist>>

MarkPoolPendingDelete(s) ==
    /\ At(s, "deleting")
    /\ pool' = Set(pool, {Target(s)}, "DELETING")
    /\ Advance(s)
    /\ UNCHANGED <<scene, lb, hm, sp, device, hist>>

(* The monitor's row goes with that of its pool.                           *)
DeletePoolRow(s) ==
    /\ At(s, "no_row")
    /\ pool' = Set(pool, {Target(s)}, "GONE")
    /\ hm' = Set(hm, {Target(s)}, "GONE")
    /\ Advance(s)
    /\ UNCHANGED <<scene, lb, sp, device, hist>>

DeleteMonitorRow(s) ==
    /\ At(s, "no_hm_row")
    /\ hm' = Set(hm, {Target(s)}, "GONE")
    /\ Advance(s)
    /\ UNCHANGED <<scene, lb, pool, sp, device, hist>>

(* The virtual server goes with its ports, then the row.                   *)
DropPorts(l) ==
    /\ vports' = vports \ {l}
    /\ front' = [p \in Default |-> IF LbOf[p] = l THEN Unbound ELSE front[p]]
DeleteLbTask(s) ==
    /\ At(s, "no_lb")
    /\ DropPorts(Target(s))
    /\ lb' = Set(lb, {Target(s)}, "GONE")
    /\ Advance(s)
    /\ UNCHANGED <<scene, pool, hm, sp, groups, pers, proxy, monitors, check, hist>>

(* WriteMemory and SetThunderUpdatedAt end the flow.                       *)
Finish(s) ==
    /\ flow[s].step = "run" /\ Ended(flow[s])
    /\ flow' = [flow EXCEPT ![s] = Idle]
    /\ UNCHANGED <<scene, rows, device, hist>>

-----------------------------------------------------------------------------
Overlap(s) ==
    overlapped' = IF On(LbAt(s)) # {s} THEN overlapped \cup {LbAt(s)} ELSE overlapped
Did(f, do) == {t.on : t \in {d \in f.done : d.do = do}}

(* A task raises: the reverts of the tasks that mark a row write ERROR.    *)
Fail(s) ==
    LET f == [flow[s] EXCEPT !.done = IF flow[s].step = "run" THEN Done(flow[s]) ELSE @]
        reached == {t.on : t \in f.done} \cap Pools
    IN  /\ f.step \in {"queued", "run"}
        /\ flow' = [flow EXCEPT ![s] = [f EXCEPT !.step = "revert"]]
        /\ lb' = IF Did(f, "active") # {} THEN Set(lb, {LbAt(s)}, "ERROR") ELSE lb
        /\ pool' = Set(pool, Did(f, "pool_active") \cup Did(f, "deleting"), "ERROR")
        /\ hm' = Set(hm, Did(f, "hm_active"), "ERROR")
        /\ halfway' = halfway \cup
                        (CASE f.op = "delete_pool" -> {f.on} [] f.op = "delete_lb" -> reached
                           [] OTHER -> {})
        /\ left' = IF f.op = "update_pool" THEN left \cup {f.on} ELSE left
        /\ Overlap(s)
        /\ UNCHANGED <<scene, sp, device, raced, overset, revived>>

(* The ...ToErrorOnRevert tasks: the object of the request goes to ERROR   *)
(* and what is above it to ACTIVE; in a fully populated creation, also the *)
(* pools that were reached.                                                *)
EndInError(f, l) ==
    LET reached == {t.on : t \in f.done} \cap Pools
        ofPool == f.op \in {"create_pool", "update_pool", "delete_pool"}
    IN  /\ lb' = Set(lb, {l}, IF f.on \in LBs THEN "ERROR" ELSE "ACTIVE")
        /\ pool' = CASE f.op = "create_lb" -> Set(pool, reached, "ERROR")
                     [] f.op = "delete_lb" -> pool
                     [] ofPool -> Set(pool, {f.on}, "ERROR")
                     [] OTHER -> Set(pool, {f.on}, "ACTIVE")
        /\ hm' = IF f.on \in LBs \/ ofPool THEN hm ELSE Set(hm, {f.on}, "ERROR")

(* PoolCreate, HandleSessionPersistenceDelta, CreateAndAssociateHealth-    *)
(* Monitor and CreateVirtualServerTask delete what they made, and only log *)
(* an error; the tcp-proxy template stays.                                 *)
Revert(s) ==
    LET f == flow[s]
        noGroups == IF f.op \in {"create_pool", "create_lb"} THEN Did(f, "group") ELSE {}
        noPers == {p \in Did(f, "persist") : WantsPers(s, p)}
        noMonitors == IF f.op \in {"create_hm", "create_lb"} THEN Did(f, "monitor") ELSE {}
    IN  /\ f.step = "revert"
        /\ \E kept \in SUBSET (noGroups \cup noPers \cup noMonitors) :
             /\ groups' = groups \ (noGroups \ kept)
             /\ pers' = pers \ (noPers \ kept)
             /\ monitors' = monitors \ (noMonitors \ kept)
             /\ check' = Unchecked(noMonitors \ kept)
             /\ left' = left \cup kept
        /\ vports' \in {vports} \cup (IF f.op = "create_lb" THEN {vports \ {f.on}} ELSE {})
        /\ front' = [p \in Default |->
                       IF f.op = "create_lb" /\ LbOf[p] = f.on /\ f.on \notin vports' THEN Unbound
                       ELSE [front[p] EXCEPT !.group = @ /\ p \in groups',
                                             !.pers = @ /\ p \in pers']]
        /\ EndInError(f, LbAt(s))
        /\ Overlap(s)
        /\ flow' = [flow EXCEPT ![s] = Idle]
        /\ UNCHANGED <<scene, sp, proxy, raced, overset, revived, halfway>>

-----------------------------------------------------------------------------
Run(s) ==
    \/ PutProxy(s) \/ CreateGroup(s) \/ ReplaceGroup(s) \/ PutPersistence(s)
    \/ DeletePersistence(s) \/ UpdateFront(s) \/ ClearFront(s) \/ CountProxyPools(s)
    \/ DeleteProxy(s) \/ DeleteGroup(s) \/ CreateListener(s)
    \/ PutMonitor(s) \/ Associate(s) \/ UpdateMonitorTask(s) \/ DeleteMonitorTask(s)
    \/ UpdatePoolRow(s) \/ MarkPoolActive(s) \/ MarkMonitorActive(s) \/ MarkActive(s)
    \/ MarkPoolPendingDelete(s) \/ DeletePoolRow(s) \/ DeleteMonitorRow(s) \/ DeleteLbTask(s)

Next == \E s \in Slots :
    \/ \E p \in Pools :
         \/ CreatePool(s, p) \/ UpdatePool(s, p) \/ DeletePool(s, p)
         \/ CreateMonitor(s, p) \/ UpdateMonitor(s, p) \/ DeleteMonitor(s, p)
    \/ \E l \in LBs : CreateLb(s, l) \/ DeleteLb(s, l)
    \/ Begin(s) \/ Run(s) \/ Finish(s) \/ Fail(s) \/ Revert(s)

Spec == Init /\ [][Next]_vars

-----------------------------------------------------------------------------
(* Every variable has its type, and a port names only what exists.         *)
TypeOK ==
    /\ lb \in [LBs -> Statuses] /\ pool \in [Pools -> Statuses] /\ hm \in [Pools -> Statuses]
    /\ sp \subseteq Pools /\ vports \subseteq LBs
    /\ groups \subseteq Pools /\ pers \subseteq Pools /\ monitors \subseteq Pools
    /\ check \in [Servers -> monitors \cup {None}]
    /\ \A p \in Default :
         /\ front[p].group => p \in groups /\ LbOf[p] \in vports
         /\ front[p].pers => p \in pers
         /\ front[p].proxy => proxy

(* No two flows of the load balancer overlapped where one of them failed.  *)
Settled(l) == l \notin overlapped

(* A pool that is ACTIVE in an ACTIVE load balancer has its service group, *)
(* and its listener sends to it, with its persistence and the PROXY        *)
(* protocol; lost is the latter only to a deletion in another project, or  *)
(* whose count of such pools was taken before this pool's creation, or     *)
(* while it was being deleted itself.                                      *)
ActivePoolServed ==
    \A p \in Pools :
        pool[p] = "ACTIVE" /\ lb[LbOf[p]] = "ACTIVE" /\ Settled(LbOf[p]) /\ <<"pool", p>> \notin revived =>
            /\ p \in groups
            /\ p \in Default =>
                 /\ front[p].group
                 /\ front[p].pers = (p \in sp)
                 /\ p \in Proxied /\ p \notin raced => front[p].proxy

(* The servers of a pool whose health monitor is ACTIVE are checked by it, *)
(* unless another pool's monitor was set on them, the pool's deletion      *)
(* failed, or the monitor came out of ERROR by an update.                  *)
ActiveMonitorChecks ==
    \A p \in Pools :
        /\ hm[p] = "ACTIVE" /\ pool[p] # "DELETING" /\ Settled(LbOf[p])
        /\ p \notin halfway /\ <<"hm", p>> \notin revived
        =>
            /\ p \in monitors
            /\ p \notin overset => \A v \in ServersOf[p] : check[v] = p

(* A pool without a row has nothing on the device, and the tcp-proxy       *)
(* template goes with the last pool that uses it, unless a clean-up or an  *)
(* update failed.                                                          *)
NoOrphanPool ==
    /\ \A p \in Pools : pool[p] = "GONE" /\ Settled(LbOf[p]) /\ p \notin left =>
         p \notin groups \cup pers \cup monitors
    /\ proxy /\ (\A l \in LBs : Settled(l)) =>
         \E p \in Proxied : HasRow(pool[p]) \/ (pool[p] = "GONE" /\ p \in left)
=============================================================================

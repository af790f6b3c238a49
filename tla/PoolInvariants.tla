--------------------------- MODULE PoolInvariants ---------------------------
(***************************************************************************)
(* The inductive invariants of PoolObjects, which PoolObjectsProofs proves:*)
(* Inv for the types, ServedInv for what serves the pools by the progress  *)
(* of the flow at work on each, MonitorInv for their health monitors, and  *)
(* OrphanInv for what is gone from the device.  At the end, what a task    *)
(* does, as the proofs use it.                                             *)
(***************************************************************************)
EXTENDS PoolObjects

PoolOps == {"create_pool", "update_pool", "delete_pool"}
HmOps == {"create_hm", "update_hm", "delete_hm"}
LbOps == {"create_lb", "delete_lb"}
Ops == PoolOps \cup HmOps \cup LbOps

Objects == LBs \cup Pools
Flows == [op : Ops \cup {"none"}, on : Objects \cup {None}, sp : BOOLEAN,
          monitored : SUBSET Pools, last : BOOLEAN, seen : SUBSET Proxied,
          rest : SUBSET Pools, cur : Objects \cup {None}, pc : Nat,
          done : SUBSET [do : Kept, on : Objects], step : {"idle", "queued", "run", "revert"}]
Fronts == [group : BOOLEAN, pers : BOOLEAN, proxy : BOOLEAN]

(* The task that a flow does next, by its number.                           *)
Place(op, last, d, n) ==
    /\ op = "create_pool" =>
         <<d, n>> \in {<<"proxy", 1>>, <<"group", 2>>, <<"persist", 3>>, <<"front", 4>>,
                       <<"pool_active", 5>>, <<"active", 6>>}
    /\ op = "update_pool" =>
         <<d, n>> \in {<<"replace_group", 1>>, <<"persist", 2>>, <<"front", 3>>,
                       <<"pool_row", 4>>, <<"pool_active", 5>>, <<"active", 6>>}
    /\ op = "delete_pool" =>
         <<d, n>> \in {<<"front", 1>>, <<"no_persist", 2>>, <<"count", 3>>,
                       <<"no_monitor", 4>>, <<"no_proxy", 5>>, <<"no_group", 6>>,
                       <<"no_row", 7>>, <<"active", 8>>}
    /\ op = "create_hm" =>
         <<d, n>> \in {<<"monitor", 1>>, <<"associate", 2>>, <<"hm_active", 3>>,
                       <<"pool_active", 4>>, <<"active", 5>>}
    /\ op = "update_hm" =>
         <<d, n>> \in {<<"change_monitor", 1>>, <<"hm_active", 2>>, <<"pool_active", 3>>,
                       <<"active", 4>>}
    /\ op = "delete_hm" =>
         <<d, n>> \in {<<"no_monitor", 1>>, <<"no_hm_row", 2>>, <<"pool_active", 3>>,
                       <<"active", 4>>}
    /\ op = "create_lb" /\ ~last =>
         <<d, n>> \in {<<"monitor", 1>>, <<"associate", 2>>, <<"hm_active", 3>>,
                       <<"proxy", 4>>, <<"group", 5>>, <<"persist", 6>>, <<"pool_active", 7>>}
    /\ op = "create_lb" /\ last =>
         <<d, n>> \in {<<"listener", 1>>, <<"active", 2>>, <<"active", 3>>}
    /\ op = "delete_lb" /\ ~last =>
         <<d, n>> \in {<<"deleting", 1>>, <<"clear_front", 2>>, <<"no_persist", 3>>,
                       <<"count", 4>>, <<"no_monitor", 5>>, <<"no_proxy", 6>>,
                       <<"no_group", 7>>, <<"no_row", 8>>}
    /\ op = "delete_lb" /\ last =>
         <<d, n>> \in {<<"no_lb", 1>>}

Under(l) == {p \in Pools : LbOf[p] = l}

(* Where a flow can be: that of a pool has one part; that of a load        *)
(* balancer is at a pool that is not to come, or at the last part.         *)
PoolShape(f) ==
    /\ f.op \in PoolOps \cup HmOps /\ f.on \in Pools /\ f.cur = f.on /\ f.rest = {}
    /\ f.monitored \subseteq {f.on} /\ (f.op \in HmOps => f.on \in f.monitored)
    /\ \A t \in f.done : t.on = f.on
LbShape(f) ==
    /\ f.op \in LbOps /\ f.on \in LBs /\ f.rest \subseteq Under(f.on)
    /\ \/ f.cur = f.on /\ f.rest = {}
       \/ f.cur \in Under(f.on) \ f.rest /\ ~Ended(f)
    /\ \A t \in f.done : t.on = f.on \/ t.on \in Under(f.on) \ f.rest
Shape(f) ==
    /\ f.step # "idle" /\ f.pc >= 1
    /\ PoolShape(f) \/ LbShape(f)
FlowInv ==
    /\ flow \in [Slots -> Flows]
    /\ \A s \in Slots : flow[s] = Idle \/ Shape(flow[s])

(* The type invariant with the flows, and what the ports have.             *)
Inv ==
    /\ TypeOK /\ FlowInv
    /\ scene \in Scenes /\ proxy \in BOOLEAN /\ front \in [Default -> Fronts]

-----------------------------------------------------------------------------
(* What serves a pool: its service group, what its port is bound to, its   *)
(* persistence.  The binding to the tcp-proxy template can go by a         *)
(* deletion elsewhere, which raced then tells, or the pool is on its way.  *)
Lives(st) == st \notin {"NEW", "DELETING", "GONE"}
Bind(p, persistent) ==
    p \in Default => /\ front[p].group /\ front[p].pers = persistent
                     /\ p \in Proxied \ raced => front[p].proxy
Good(p) == p \in groups /\ Bind(p, p \in sp)

(* A flow whose count said that it deletes the last pool with the PROXY    *)
(* protocol still has those pools before it on their way, or back.         *)
Seen(s) ==
    flow[s].last => \A q \in flow[s].seen : Settled(LbOf[q]) =>
                       pool[q] \in {"DELETING", "GONE"} \/ q \in halfway

-----------------------------------------------------------------------------
(* Which flows can change the objects of a load balancer whose flows did   *)
(* not overlap where one failed.  A flow on a pool trails when it only has *)
(* to end; of the others there is one at a time.                           *)
Trails(f) == f.step = "run" /\ f.on \in Pools /\ Ended(f)
Works(f) == f.step # "idle" /\ ~Trails(f)
Closing(f) == f.step = "run" /\ f.op = "create_lb" /\ f.cur = f.on /\ f.pc >= 3
Exclusive(l) ==
    /\ \A s, t \in On(l) : s # t =>
         /\ Trails(flow[s]) \/ Trails(flow[t])
         /\ flow[s].step # "revert" /\ flow[s].op # "create_lb"
    /\ lb[l] = "ACTIVE" => \A s \in On(l) : Trails(flow[s]) \/ Closing(flow[s])
    /\ lb[l] = "ERROR" => \A s \in On(l) : flow[s].step = "revert"
    /\ lb[l] = "NEW" => On(l) = {}
AtEnd(f) ==
    \/ f.on \in Pools /\ Ended(f)
    \/ f.op = "create_lb" /\ f.cur = f.on /\ f.pc >= 3
Recorded(f) ==
    /\ f.step = "queued" => f.done = {}
    /\ f.step \in {"queued", "run"} /\ AtEnd(f) => \E t \in f.done : t.do = "active"
    /\ f.op \in HmOps \cup {"delete_lb"} => \A t \in f.done : t.do # "persist"

(* A pool that no flow works on is at rest, or in the remains of a         *)
(* creation that failed.                                                   *)
Free(p) == \A s \in Slots : Works(flow[s]) => flow[s].on \notin {p, LbOf[p]}
Calm(p) ==
    Free(p) =>
      /\ \/ pool[p] \in {"NEW", "ACTIVE", "ERROR", "GONE"}
         \/ lb[LbOf[p]] = "ERROR" /\ On(LbOf[p]) = {}
      /\ (\E s \in Slots : Trails(flow[s]) /\ flow[s].on = p) => pool[p] # "ERROR"

(* A load balancer without a row has no pool with one.                     *)
Buried(p) == lb[LbOf[p]] = "GONE" => ~HasRow(pool[p])

(* The status of a pool by where the flow that works on it is.             *)
StatusAt(f) ==
    IF f.pc < Len(Tasks(f)) THEN IF f.op = "delete_pool" THEN "DELETING" ELSE "PENDING"
    ELSE IF f.op = "delete_pool" THEN "GONE" ELSE "ACTIVE"
PoolStatus(f) ==
    IF f.step = "revert" THEN f.op = "delete_pool" \/ pool[f.on] # "DELETING"
    ELSE pool[f.on] = StatusAt(f)
LbStatus(f, p) ==
    /\ f.op = "create_lb" =>
         IF f.step = "revert" THEN pool[p] \in {"PENDING", "ERROR"}
         ELSE IF p \in f.rest \cup {f.cur} THEN pool[p] = "PENDING"
         ELSE pool[p] = "ACTIVE" /\ Task("pool_active", p) \in f.done
    /\ f.op = "delete_lb" /\ f.step # "revert" =>
         /\ p \notin f.rest \cup {f.cur} => ~HasRow(pool[p])
         /\ p = f.cur /\ f.pc >= 2 => pool[p] # "ACTIVE"

(* What serves a pool that is ACTIVE, or that a monitor's flow will make   *)
(* ACTIVE again, and how far the flow that sets it up is.                  *)
Unserved(f, p) == f.op = "create_lb" /\ f.on = LbOf[p] /\ (f.cur # f.on \/ f.pc < 2)
GoodPool(p) ==
    <<"pool", p>> \notin revived =>
      /\ pool[p] = "ACTIVE" /\ (\A s \in Slots : ~Unserved(flow[s], p)) => Good(p)
      /\ Lives(pool[p]) /\ (\E s \in Slots : Works(flow[s]) /\ flow[s].on = p /\ flow[s].op \in HmOps)
           => Good(p)
PoolGood(f) ==
    /\ f.op = "create_pool" /\ f.step # "revert" =>
         /\ f.pc >= 3 => f.on \in groups
         /\ f.pc >= 5 => Bind(f.on, f.sp)
         /\ f.sp <=> f.on \in sp
    /\ f.op = "update_pool" /\ f.step # "revert" =>
         /\ f.pc >= 2 => f.on \in groups
         /\ f.pc >= 4 => Bind(f.on, f.sp)
         /\ f.pc >= 5 => (f.sp <=> f.on \in sp)
LbGood(f, p) ==
    f.op = "create_lb" /\ f.step # "revert" /\ p \notin f.rest /\ (p = f.cur => f.pc >= 6) => p \in groups

FlowOK(f) ==
    Works(f) =>
      /\ f.on \in Pools => PoolStatus(f) /\ PoolGood(f)
      /\ f.on \in LBs => \A p \in Under(f.on) : LbStatus(f, p) /\ LbGood(f, p)
LbOK(l) ==
    Settled(l) =>
      /\ Exclusive(l)
      /\ \A p \in Under(l) : Calm(p) /\ GoodPool(p) /\ Buried(p)
      /\ \A s \in On(l), f \in Flows : f = flow[s] => FlowOK(f)

-----------------------------------------------------------------------------
(* Pools that are new, what the flows have recorded, and the invariant.    *)
Fresh(p) ==
    /\ pool[p] = "NEW" => p \notin sp
    /\ lb[LbOf[p]] = "NEW" => pool[p] = "NEW"
    /\ \A s \in Slots : flow[s].on = p => pool[p] # "NEW"
Half(f) == f.step = "revert" /\ f.op = "delete_pool" => f.on \in halfway
ServedInv ==
    /\ Inv /\ \A p \in Pools : Fresh(p)
    /\ \A s \in Slots : Recorded(flow[s]) /\ Seen(s)
    /\ \A s \in Slots, f \in Flows : f = flow[s] => Half(f)
    /\ \A l \in LBs : LbOK(l)

-----------------------------------------------------------------------------
(* The health monitors.  A pool's monitor checks its servers; it does not  *)
(* when the pool's deletion failed, or when it came back from ERROR.       *)
Checks(p) == p \in monitors /\ (p \notin overset => \A v \in ServersOf[p] : check[v] = p)
Spared(p) == p \notin halfway /\ <<"hm", p>> \notin revived
Checked(p) == hm[p] = "ACTIVE" /\ pool[p] # "DELETING" /\ Spared(p) => Checks(p)

AtRest == {"NEW", "ACTIVE", "ERROR", "GONE"}
Busy(f, p) == f.on = LbOf[p] \/ (f.on = p /\ f.op \notin PoolOps)
HmFree(p) == \A s \in Slots : Works(flow[s]) => ~Busy(flow[s], p)
HmCalm(p) == HmFree(p) => hm[p] \in AtRest \/ (lb[LbOf[p]] = "ERROR" /\ On(LbOf[p]) = {})

(* A monitor goes with its pool.                                           *)
HmRow(p) ==
    /\ pool[p] = "NEW" => hm[p] = "NEW"
    /\ ~HasRow(pool[p]) => ~HasRow(hm[p])

(* The status of a monitor by where the flow that works on it is, and what *)
(* that flow relies on.                                                    *)
HmOfPool(f, p) ==
    f.on = p /\ f.step # "revert" =>
      /\ f.op = "create_hm" => /\ hm[p] = IF f.pc <= 3 THEN "PENDING" ELSE "ACTIVE"
                               /\ f.pc = 3 => Checks(p)
      /\ f.op = "update_hm" => /\ hm[p] = IF f.pc <= 2 THEN "PENDING" ELSE "ACTIVE"
                               /\ f.pc <= 2 /\ Spared(p) => Checks(p)
      /\ f.op = "delete_hm" => hm[p] = IF f.pc <= 2 THEN "DELETING" ELSE "GONE"
HmBuilt(f, p) ==
    \/ hm[p] = "NEW" /\ p \notin f.monitored
    \/ /\ hm[p] = "PENDING" /\ p \in f.monitored
       /\ p \in f.rest \/ (p = f.cur /\ f.pc <= 3)
       /\ p = f.cur /\ f.pc = 3 => Checks(p)
    \/ /\ hm[p] = "ACTIVE" /\ Task("hm_active", p) \in f.done
       /\ p \notin f.rest \cup {f.cur} \/ (p = f.cur /\ f.pc >= 4)
HmOfLb(f, p) ==
    f.on = LbOf[p] =>
      /\ f.op = "create_lb" => IF f.step = "revert" THEN hm[p] # "ACTIVE" ELSE HmBuilt(f, p)
      /\ f.op = "delete_lb" /\ f.step # "revert" /\ p = f.cur /\ f.pc >= 2 =>
           pool[p] \in {"NEW", "DELETING", "GONE"}
HmFlow(f, p) == HmOfPool(f, p) /\ HmOfLb(f, p)
HmOK(p) ==
    Settled(LbOf[p]) =>
      /\ HmCalm(p) /\ Checked(p)
      /\ \A s \in Slots, f \in Flows : f = flow[s] /\ Works(f) => HmFlow(f, p)

MonitorInv == ServedInv /\ \A p \in Pools : HmRow(p) /\ HmOK(p)

-----------------------------------------------------------------------------
(* What outlives the pools.  A persistence template belongs to the row of  *)
(* its pool, or to an update that is about to write it there; a monitor to *)
(* its row; and a flow that deletes a pool has removed what its tasks so   *)
(* far remove.                                                             *)
Updating(f, p) == f.op = "update_pool" /\ f.on = p /\ f.step = "run" /\ f.pc \in {3, 4}
Past(f, inPool, inLb) ==
    \/ f.op = "delete_pool" /\ f.pc > inPool
    \/ f.op = "delete_lb" /\ f.pc > inLb
Cleared(f, p) ==
    f.on \in {p, LbOf[p]} /\ f.step # "revert" =>
      /\ f.op \in {"delete_pool", "delete_lb"} /\ p \in f.rest \cup {f.cur} /\ p \notin f.monitored =>
           ~HasRow(hm[p])
      /\ f.cur = p =>
           /\ Past(f, 2, 3) => p \notin pers
           /\ Past(f, 4, 5) => p \notin monitors
           /\ Past(f, 6, 7) => p \notin groups
           /\ f.op = "delete_hm" /\ f.pc >= 2 => p \notin monitors
           /\ f.op = "update_pool" /\ f.pc \in {3, 4} /\ p \in pers => f.sp
           /\ f.op = "create_lb" /\ p \notin f.monitored => f.pc >= 4
Owned(p) ==
    /\ p \in monitors => HasRow(hm[p])
    /\ pool[p] = "GONE" => p \notin groups /\ p \notin pers /\ p \notin monitors
OrphanOK(p) ==
    Settled(LbOf[p]) /\ p \notin left =>
      /\ p \in pers => p \in sp \/ \E s \in Slots : Updating(flow[s], p)
      /\ Owned(p)
      /\ \A s \in Slots, f \in Flows : f = flow[s] /\ Works(f) => Cleared(f, p)

(* The tcp-proxy template goes with the last pool that uses it: a pool     *)
(* with the PROXY protocol has a row that no deletion has passed, one that *)
(* counted others by its count, the last one by the template's deletion;   *)
(* unless that left the template behind.                                   *)
Parting(f, p) ==
    /\ Works(f) /\ f.step # "revert" /\ f.cur = p
    /\ IF f.last THEN Past(f, 5, 6) ELSE Past(f, 3, 4)
Used(p) == HasRow(pool[p]) /\ \A s \in Slots : ~Parting(flow[s], p)
ProxyOK ==
    proxy /\ (\A l \in LBs : Settled(l)) =>
      \E p \in Proxied : Used(p) \/ (Proxied \subseteq left /\ pool[p] # "NEW")

OrphanInv == MonitorInv /\ (\A p \in Pools : OrphanOK(p)) /\ ProxyOK

-----------------------------------------------------------------------------
Only(s) == \A t \in Slots \ {s} : flow'[t] = flow[t]
OfProject(l) == {q \in Proxied : HasRow(pool[q]) /\ ProjectOf[LbOf[q]] = ProjectOf[l]}

(* What a step leaves alone of what serves a pool, and what a task does,   *)
(* step by step of the flow: to the flow, to the rows, to what serves the  *)
(* pools, to the monitors.                                                 *)
SameService(p) ==
    /\ p \in groups' <=> p \in groups
    /\ p \in sp' <=> p \in sp
    /\ p \in Default => /\ front'[p].group = front[p].group
                        /\ front'[p].pers = front[p].pers
                        /\ \/ front'[p].proxy = front[p].proxy
                           \/ p \notin Proxied \ raced' \/ ~Lives(pool[p])
    /\ p \in raced => p \in raced'
Untouched(p) == SameService(p) /\ pool'[p] = pool[p]

(* What a task does.                                                       *)
Walks(f, g) ==
    /\ g \in Flows /\ Shape(g)
    /\ g.op = f.op /\ g.on = f.on /\ g.sp = f.sp /\ g.monitored = f.monitored /\ g.step = f.step
    /\ g.done = Done(f)
    /\ \/ g.cur = f.cur /\ g.rest = f.rest /\ g.pc = f.pc + 1
       \/ /\ f.cur # f.on /\ f.pc = Len(Tasks(f)) /\ f.rest = {}
          /\ g.rest = {} /\ g.cur = f.on /\ g.pc = 1
       \/ /\ f.cur # f.on /\ f.pc = Len(Tasks(f)) /\ g.cur \in f.rest
          /\ g.rest = f.rest \ {g.cur} /\ g.pc = FirstTask(f, g.cur)
FlowEffect(u, do) ==
    /\ At(u, do) /\ Inv' /\ Only(u) /\ Walks(flow[u], flow'[u])
    /\ IF do = "count"
       THEN /\ flow'[u].seen = OfProject(LbAt(u))
            /\ flow'[u].last = (\A q \in OfProject(LbAt(u)) : pool[q] = "DELETING")
       ELSE flow'[u].seen = flow[u].seen /\ flow'[u].last = flow[u].last
    /\ UNCHANGED <<overlapped, revived, halfway>>
RowEffect(u, do) ==
    /\ do \notin {"pool_active", "deleting", "no_row"} => pool' = pool
    /\ do = "pool_active" => pool' = Set(pool, {Target(u)}, "ACTIVE")
    /\ do = "deleting" => pool' = Set(pool, {Target(u)}, "DELETING")
    /\ do = "no_row" => pool' = Set(pool, {Target(u)}, "GONE")
    /\ do \notin {"active", "no_lb"} => lb' = lb
    /\ do = "active" => lb' = Set(lb, {LbAt(u)}, "ACTIVE")
    /\ do = "no_lb" => lb' = Set(lb, {Target(u)}, "GONE")
Elsewhere(u, do) ==
    \A p \in Pools :
        /\ p # Target(u) /\ Settled(LbOf[p])
        /\ do \in {"listener", "no_lb"} => LbOf[p] # Target(u)
        => SameService(p)
ServiceEffect(u, do) ==
    /\ Elsewhere(u, do)
    /\ /\ do \notin {"group", "persist", "no_persist", "front", "clear_front", "no_group", "pool_row",
                     "listener", "no_lb"}
       /\ Target(u) \in Pools /\ Settled(LbOf[Target(u)])
       => SameService(Target(u))
    /\ do \notin {"group", "no_group"} => groups' = groups
    /\ do = "group" => groups' = groups \cup {Target(u)}
    /\ do = "replace_group" => Target(u) \in groups
    /\ do # "pool_row" => sp' = sp
    /\ do = "pool_row" => /\ UNCHANGED <<groups, front, raced>> /\ sp' \subseteq sp \cup {Target(u)}
                          /\ Target(u) \in sp' <=> flow[u].sp
    /\ do = "front" /\ Target(u) \in Default =>
         /\ front'[Target(u)].group /\ front'[Target(u)].pers = WantsPers(u, Target(u))
         /\ front'[Target(u)].proxy = (Target(u) \in Proxied /\ pool[Target(u)] # "DELETING")
    /\ do = "listener" =>
         \A p \in Default : LbOf[p] = Target(u) /\ HasRow(pool[p]) =>
            front'[p].group /\ front'[p].pers = (p \in sp) /\ front'[p].proxy = (p \in Proxied)
Serves(u, do) == RowEffect(u, do) /\ ServiceEffect(u, do)

(* What a task does to the monitors.                                       *)
Watches(u, do) ==
    /\ do \notin {"hm_active", "no_hm_row", "no_row"} => hm' = hm
    /\ do = "hm_active" => hm' = Set(hm, {Target(u)}, "ACTIVE")
    /\ do \in {"no_hm_row", "no_row"} => hm' = Set(hm, {Target(u)}, "GONE")
    /\ \A p \in Pools : Checks(p) /\ (do = "no_monitor" => p # Target(u)) => Checks(p)'
    /\ \A p \in Pools : do = "associate" /\ p = Target(u) => Checks(p)'

(* What a task does to the persistence templates, the monitors, the        *)
(* tcp-proxy template, and what it leaves behind.                          *)
Stores(u, do) ==
    /\ do \notin {"persist", "no_persist"} => pers' = pers
    /\ do = "persist" =>
         pers' = IF WantsPers(u, Target(u)) THEN pers \cup {Target(u)} ELSE pers \ {Target(u)}
    /\ do = "no_persist" => pers' = IF Target(u) \in sp THEN pers \ {Target(u)} ELSE pers
    /\ do \notin {"monitor", "no_monitor"} => monitors' = monitors
    /\ do = "monitor" => monitors' = monitors \cup {Target(u)}
    /\ do = "no_monitor" =>
         monitors' = IF Target(u) \in flow[u].monitored THEN monitors \ {Target(u)} ELSE monitors
    /\ do = "no_group" => groups' = groups \ {Target(u)}
    /\ do = "pool_row" => sp' = IF flow[u].sp THEN sp \cup {Target(u)} ELSE sp \ {Target(u)}
    /\ do \notin {"proxy", "no_proxy"} => proxy' = proxy
    /\ do = "proxy" => proxy' = (proxy \/ Target(u) \in Proxied)
    /\ do = "no_proxy" =>
         IF Target(u) \in Proxied /\ flow[u].last THEN proxy' = FALSE \/ Proxied \subseteq left'
         ELSE proxy' = proxy
    /\ proxy' => proxy \/ do = "proxy"
    /\ left \subseteq left'
=============================================================================

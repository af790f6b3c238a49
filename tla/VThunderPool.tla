---------------------------- MODULE VThunderPool ----------------------------
(***************************************************************************)
(* Which vThunder serves which load balancer, SINGLE topology.  The load   *)
(* balancers of a project share one vThunder, a Nova compute: creating the *)
(* first one boots it or takes a spare, deleting the last one deletes it.  *)
(* The table vthunders keeps a row per load balancer and one per spare.    *)
(*                                                                         *)
(* Actors: the Octavia API, which makes a load balancer PENDING and sends  *)
(* the request; the worker's flows, one at a time in a project (module     *)
(* BusyLock; update flows, which share the lock, touch only their own row, *)
(* so running them one by one loses nothing); the housekeeper, which fills *)
(* the pool of spares; the health manager, which removes stale spares.  A  *)
(* flow is a sequence of tasks: a task may fail, and the ones before it    *)
(* are reverted.  Tasks that only work on the device are left out.         *)
(***************************************************************************)
EXTENDS Integers, FiniteSets

CONSTANTS
    Projects,
    LBs,              \* load balancer ids
    ProjectOf,        \* ProjectOf[l]: the project of l
    Ops,              \* requests the users make: CREATE, UPDATE, DELETE
    Computes,         \* Nova instances that may ever be booted: a bound
    PoolSize,         \* option spare_amphora_pool_size
    MayBeStale,       \* the spares whose heartbeats may stop: a bound
    MayRemain,        \* the computes Nova may refuse to delete: a bound
    None              \* no compute, no flow, no request

ASSUME VThunderPoolAssumption ==
    /\ ProjectOf \in [LBs -> Projects]
    /\ Ops \subseteq {"CREATE", "UPDATE", "DELETE"}
    /\ PoolSize \in Nat
    /\ MayBeStale \subseteq Computes
    /\ MayRemain \subseteq Computes
    /\ None \notin Computes
    /\ IsFiniteSet(Computes)
    /\ IsFiniteSet(LBs)

VARIABLES
    lb,        \* provisioning_status of the load balancers
    request,   \* the RPC that waits for the busy check, or None
    vth,       \* the row of the load balancer in vthunders
    vs,        \* the load balancers with a virtual server on their device
    spare,     \* status of the spare rows (loadbalancer_id is NULL)
    alive,     \* the computes Nova runs
    used,      \* the computes booted so far
    flow,      \* the flow that has the project's vThunder, or None
    hk,        \* the housekeeper's spare check
    stale,     \* spares the health manager has picked for a failover
    hist       \* history, see BeginFlow, TakeSpare, FailFlow and BootSpare

vars == <<lb, request, vth, vs, spare, alive, used, flow, hk, stale, hist>>

Pending == {"PENDING_CREATE", "PENDING_UPDATE", "PENDING_DELETE"}
LbStatuses == {"NONE", "ACTIVE", "ERROR", "DELETED"} \cup Pending
RowStatuses == {"NONE", "ACTIVE", "DELETED"} \cup Pending
SpareStatuses == {"NONE", "BOOTING", "READY", "BUSY"}
Requests == [op : Ops, read : BOOLEAN, compute : Computes \cup {None}]
Tasks == {"map", "validate", "claim", "take", "attach", "unspare", "boot", "activate",
          "configure", "mark", "apply", "tear", "erase", "markLb", "end"}

Flows == [op : Ops, lb : LBs, at : Tasks,
          compute : Computes \cup {None},   \* COMPUTE_ID
          spare : Computes \cup {None},     \* SPARE_VTHUNDER
          booted : BOOLEAN,                 \* ComputeCreate ran
          drop : BOOLEAN]                   \* deleteCompute

ASSUME NoneAssumption == None \notin Flows \cup Requests

NoRow == [status |-> "NONE", compute |-> None]

\* Every variable keeps to its type.
TypeOK ==
    /\ lb \in [LBs -> LbStatuses]
    /\ request \in [LBs -> Requests \cup {None}]
    /\ vth \in [LBs -> [status : RowStatuses, compute : Computes \cup {None}]]
    /\ vs \subseteq LBs
    /\ spare \in [Computes -> SpareStatuses]
    /\ alive \subseteq used
    /\ used \subseteq Computes
    /\ flow \in [Projects -> Flows \cup {None}]
    /\ hk \in [at : {"idle", "counting", "booting"}, todo : 0..PoolSize,
               ready : 0..Cardinality(Computes), making : SUBSET Computes]
    /\ stale \subseteq Computes
    /\ hist \in [late : SUBSET LBs, missed : SUBSET Computes, raced : SUBSET Computes,
                left : SUBSET Computes]

IdleHk == [at |-> "idle", todo |-> 0, ready |-> 0, making |-> {}]

Init ==
    /\ lb = [l \in LBs |-> "NONE"]
    /\ request = [l \in LBs |-> None]
    /\ vth = [l \in LBs |-> NoRow]
    /\ vs = {}
    /\ spare = [c \in Computes |-> "NONE"]
    /\ alive = {} /\ used = {}
    /\ flow = [p \in Projects |-> None]
    /\ hk = IdleHk
    /\ stale = {}
    /\ hist = [late |-> {}, missed |-> {}, raced |-> {}, left |-> {}]

-----------------------------------------------------------------------------
(* Queries on vthunders.                                                   *)

\* Slip: the project is not compared.
AnyProjectComputes(p) ==
    {vth[l].compute : l \in {m \in LBs : vth[m].status = "ACTIVE"}}

\* get_vthunder_by_project_id, get_vthunders_by_project_id_and_role
ProjectComputes(p) ==
    {vth[l].compute : l \in {m \in LBs : ProjectOf[m] = p /\ vth[m].status = "ACTIVE"}}

ReadySpares == {c \in Computes : spare[c] = "READY"}

\* Slip: off by one.
DeleteComputeEarly(c) ==
    /\ c # None
    /\ Cardinality({m \in LBs : vth[m].compute = c /\ vth[m].status # "DELETED"}) < 3

\* get_delete_compute_flag: fewer than two rows of the compute not DELETED.
DeleteComputeFlag(c) ==
    /\ c # None
    /\ Cardinality({m \in LBs : vth[m].compute = c /\ vth[m].status # "DELETED"})
         + (IF spare[c] # "NONE" THEN 1 ELSE 0) < 2

-----------------------------------------------------------------------------
(* Requests.                                                               *)

Accepts(l, op) ==
    CASE op = "CREATE" -> lb[l] = "NONE"
      [] op = "UPDATE" -> lb[l] = "ACTIVE"
      [] op = "DELETE" -> lb[l] \in {"ACTIVE", "ERROR"}

\* Slip: a status the tables do not know.
PlainPending(op) == "PENDING"

PendingOf(op) ==
    CASE op = "CREATE" -> "PENDING_CREATE"
      [] op = "UPDATE" -> "PENDING_UPDATE"
      [] op = "DELETE" -> "PENDING_DELETE"

\* The Octavia API takes a request for a load balancer in a stable state (one
\* unanswered RPC per load balancer: a bound).
ApiRequest(l, op) ==
    /\ request[l] = None
    /\ Accepts(l, op)
    /\ lb' = [lb EXCEPT ![l] = PendingOf(op)]
    /\ request' = [request EXCEPT ![l] =
                      [op |-> op, read |-> op # "DELETE", compute |-> None]]
    /\ UNCHANGED <<vth, vs, spare, alive, used, flow, hk, stale, hist>>

\* delete_load_balancer reads the row before it waits in the busy check.
ReadRow(l) ==
    /\ request[l] # None
    /\ ~request[l].read
    /\ request' = [request EXCEPT ![l].read = TRUE, ![l].compute = vth[l].compute]
    /\ UNCHANGED <<lb, vth, vs, spare, alive, used, flow, hk, stale, hist>>

\* The load balancer has a row that is not DELETED.
HasRow(l) == vth[l].status \notin {"NONE", "DELETED"}

\* The busy check grants the project; for a deletion get_delete_compute_flag
\* then counts the rows of the compute that was read before.  late: the row
\* read is DELETED (the deletion is tried again) or was reverted meanwhile, so
\* it is not among those counted.
BeginFlow(l) ==
    LET p == ProjectOf[l]
        rq == request[l]
    IN  /\ rq # None
        /\ rq.read
        /\ flow[p] = None
        /\ flow' = [flow EXCEPT ![p] =
               [op |-> rq.op, lb |-> l, at |-> IF rq.op = "CREATE" THEN "map" ELSE "mark",
                compute |-> rq.compute, spare |-> None, booted |-> FALSE,
                drop |-> DeleteComputeFlag(rq.compute)]]
        /\ request' = [request EXCEPT ![l] = None]
        /\ hist' = IF rq.compute # None /\ ~HasRow(l)
                   THEN [hist EXCEPT !.late = @ \cup {l}] ELSE hist
        /\ UNCHANGED <<lb, vth, vs, spare, alive, used, hk, stale>>

\* Slip: nobody answers the request.
TimeoutLeavesPending(l) ==
    /\ request[l] # None
    /\ request[l].read
    /\ flow[ProjectOf[l]] # None
    /\ request' = [request EXCEPT ![l] = None]
    /\ UNCHANGED <<lb, vth, vs, spare, alive, used, flow, hk, stale, hist>>

\* The busy check times out: VthunderInstanceBusy fails, the load balancer is
\* marked ERROR by the revert of the task before it.
BusyTimeout(l) ==
    /\ request[l] # None
    /\ request[l].read
    /\ flow[ProjectOf[l]] # None
    /\ request' = [request EXCEPT ![l] = None]
    /\ lb' = [lb EXCEPT ![l] = "ERROR"]
    /\ UNCHANGED <<vth, vs, spare, alive, used, flow, hk, stale, hist>>

-----------------------------------------------------------------------------
(* Tasks.  At(p, op, t): the flow of p is about to run task t.             *)

At(p, op, t) == flow[p] # None /\ flow[p].op = op /\ flow[p].at = t
Goto(p, t) == flow' = [flow EXCEPT ![p].at = t]
SetRow(l, s) == vth' = [vth EXCEPT ![l].status = s]
MarkRow(l, s) == IF vth[l] = NoRow THEN UNCHANGED vth ELSE SetRow(l, s)
SetLb(l, s) == lb' = [lb EXCEPT ![l] = s]

\* MapLoadbalancerToAmphora: the project's vThunder or a spare, else boot one.
MapLoadbalancerToAmphora(p) ==
    /\ At(p, "CREATE", "map")
    /\ Goto(p, IF ProjectComputes(p) = {} /\ ReadySpares = {} THEN "boot" ELSE "validate")
    /\ UNCHANGED <<lb, request, vth, vs, spare, alive, used, hk, stale, hist>>

ValidateComputeForProject(p) ==
    /\ At(p, "CREATE", "validate")
    /\ \/ \E c \in ProjectComputes(p) :
             flow' = [flow EXCEPT ![p].compute = c, ![p].at = "attach"]
       \/ ProjectComputes(p) = {} /\ Goto(p, "claim")
    /\ UNCHANGED <<lb, request, vth, vs, spare, alive, used, hk, stale, hist>>

\* GetSpareComputeForProject reads a READY spare; without one the task fails.
ReadSpare(p) ==
    /\ At(p, "CREATE", "claim")
    /\ \E c \in ReadySpares :
          flow' = [flow EXCEPT ![p].compute = c, ![p].spare = c, ![p].at = "take"]
    /\ UNCHANGED <<lb, request, vth, vs, spare, alive, used, hk, stale, hist>>

\* An update of a row that is not there any more changes nothing.
SetSpare(c, s) == spare' = [spare EXCEPT ![c] = IF @ = "NONE" THEN @ ELSE s]

\* Its second transaction makes the spare BUSY, whatever it has become.  raced:
\* it was not READY any more.
TakeSpare(p) ==
    /\ At(p, "CREATE", "take")
    /\ SetSpare(flow[p].spare, "BUSY")
    /\ hist' = IF spare[flow[p].spare] # "READY"
               THEN [hist EXCEPT !.raced = @ \cup {flow[p].spare}] ELSE hist
    /\ Goto(p, "attach")
    /\ UNCHANGED <<lb, request, vth, vs, alive, used, hk, stale>>

\* ComputeActiveWait finds the compute in Nova; CreateVThunderEntry.
AttachCompute(p) ==
    /\ At(p, "CREATE", "attach")
    /\ flow[p].compute \in alive
    /\ vth' = [vth EXCEPT ![flow[p].lb] =
                  [status |-> "PENDING_CREATE", compute |-> flow[p].compute]]
    /\ Goto(p, "unspare")
    /\ UNCHANGED <<lb, request, vs, spare, alive, used, hk, stale, hist>>

DeleteStaleSpareVThunder(p) ==
    /\ At(p, "CREATE", "unspare")
    /\ spare' = [c \in Computes |-> IF c = flow[p].spare THEN "NONE" ELSE spare[c]]
    /\ Goto(p, "activate")
    /\ UNCHANGED <<lb, request, vth, vs, alive, used, hk, stale, hist>>

\* ComputeCreate and CreateVThunderEntry for a vThunder of its own.
BootCompute(p) ==
    /\ At(p, "CREATE", "boot")
    /\ \E c \in Computes \ used :
          /\ alive' = alive \cup {c}
          /\ used' = used \cup {c}
          /\ vth' = [vth EXCEPT ![flow[p].lb] = [status |-> "PENDING_CREATE", compute |-> c]]
          /\ flow' = [flow EXCEPT ![p].compute = c, ![p].booted = TRUE, ![p].at = "activate"]
    /\ UNCHANGED <<lb, request, vs, spare, hk, stale, hist>>

\* MarkVThunderStatusInDB
ActivateRow(p) ==
    /\ At(p, "CREATE", "activate")
    /\ SetRow(flow[p].lb, "ACTIVE")
    /\ Goto(p, "markLb")
    /\ UNCHANGED <<lb, request, vs, spare, alive, used, hk, stale, hist>>

\* MarkLBActiveInDB, with most of the configuration still to come
MarkLBActive(p) ==
    /\ At(p, "CREATE", "markLb")
    /\ SetLb(flow[p].lb, "ACTIVE")
    /\ Goto(p, "configure")
    /\ UNCHANGED <<request, vth, vs, spare, alive, used, hk, stale, hist>>

CreateVirtualServer(p) ==
    /\ At(p, "CREATE", "configure")
    /\ flow[p].compute \in alive
    /\ vs' = vs \cup {flow[p].lb}
    /\ Goto(p, "end")
    /\ UNCHANGED <<lb, request, vth, spare, alive, used, hk, stale, hist>>

\* Update and delete flows mark the row before they work on the device.
MarkRowPending(p) ==
    \E op \in {"UPDATE", "DELETE"} :
        /\ At(p, op, "mark")
        /\ MarkRow(flow[p].lb, PendingOf(op))
        /\ Goto(p, IF op = "UPDATE" THEN "apply" ELSE "tear")
        /\ UNCHANGED <<lb, request, vs, spare, alive, used, hk, stale, hist>>

\* UpdateVirtualServerTask reads the virtual server from the device.
\* MarkLBActiveInDB: the load balancer is ACTIVE again before its row is.
ApplyUpdate(p) ==
    /\ At(p, "UPDATE", "apply")
    /\ vth[flow[p].lb].compute \in alive
    /\ flow[p].lb \in vs
    /\ SetLb(flow[p].lb, "ACTIVE")
    /\ Goto(p, "activate")
    /\ UNCHANGED <<request, vth, vs, spare, alive, used, hk, stale, hist>>

\* Slip: the row stays PENDING_UPDATE.
ForgetUpdatedRow(p) ==
    /\ At(p, "UPDATE", "activate")
    /\ Goto(p, "end")
    /\ UNCHANGED <<lb, request, vth, vs, spare, alive, used, hk, stale, hist>>

ActivateUpdatedRow(p) ==
    /\ At(p, "UPDATE", "activate")
    /\ SetRow(flow[p].lb, "ACTIVE")
    /\ Goto(p, "end")
    /\ UNCHANGED <<lb, request, vs, spare, alive, used, hk, stale, hist>>

\* DeleteVirtualServerTask needs the device, and does nothing without a row;
\* DeleteAmphoraeOnLoadBalancer, only with deleteCompute.
DeleteAmphorae(p) ==
    /\ At(p, "DELETE", "tear")
    /\ vth[flow[p].lb].compute \in alive \cup {None}
    /\ vs' = IF vth[flow[p].lb] = NoRow THEN vs ELSE vs \ {flow[p].lb}
    /\ alive' = IF flow[p].drop THEN alive \ {flow[p].compute} ELSE alive
    /\ Goto(p, "erase")
    /\ UNCHANGED <<lb, request, vth, spare, used, hk, stale, hist>>

MarkRowDeleted(p) ==
    /\ At(p, "DELETE", "erase")
    /\ MarkRow(flow[p].lb, "DELETED")
    /\ Goto(p, "markLb")
    /\ UNCHANGED <<lb, request, vs, spare, alive, used, hk, stale, hist>>

MarkLBDeleted(p) ==
    /\ At(p, "DELETE", "markLb")
    /\ SetLb(flow[p].lb, "DELETED")
    /\ Goto(p, "end")
    /\ UNCHANGED <<request, vth, vs, spare, alive, used, hk, stale, hist>>

EndFlow(p) ==
    /\ flow[p] # None
    /\ flow[p].at = "end"
    /\ flow' = [flow EXCEPT ![p] = None]
    /\ UNCHANGED <<lb, request, vth, vs, spare, alive, used, hk, stale, hist>>

\* Slip: ComputeCreate without a revert.
KeepComputes(p, left) == alive

\* ComputeCreate.revert deletes the compute; an error is logged and swallowed,
\* so that it may be left.
Booted(p) == IF flow[p].booted THEN {flow[p].compute} ELSE {}
MayBeLeft(booted) == SUBSET (booted \cap MayRemain)
ComputesAfterRevert(p, left) == alive \ (Booted(p) \ left)

\* A task fails.  Only the create flow's tasks have reverts that undo their
\* work: the row is deleted, the spare READY again, the booted compute and the
\* virtual server deleted; the last two only log an error of their deletion.
\* missed: the spare is READY again between the two counts of spare_check;
\* raced: it is READY again although another flow took it; left: the compute
\* could not be deleted (a flow that boots one claims no spare).
FailFlow(p) ==
    /\ flow[p] # None
    /\ LET f == flow[p]
           create == f.op = "CREATE"
       IN  /\ SetLb(f.lb, "ERROR")
           /\ vth' = IF create /\ f.at \notin {"map", "validate", "claim", "take"}
                     THEN [vth EXCEPT ![f.lb] = NoRow] ELSE vth
           /\ IF create /\ f.spare # None
              THEN /\ SetSpare(f.spare, "READY")
                   /\ UNCHANGED alive
                   /\ hist' = [hist EXCEPT
                          !.missed = @ \cup {c \in {f.spare} : hk.at = "counting" /\ spare[c] = "BUSY"},
                          !.raced = @ \cup {c \in {f.spare} : f.at = "take" /\ spare[c] = "BUSY"}]
              ELSE \E left \in MayBeLeft(Booted(p)) :
                   /\ alive' = ComputesAfterRevert(p, left)
                   /\ hist' = [hist EXCEPT !.left = @ \cup left]
                   /\ UNCHANGED spare
           /\ \/ vs' = IF create THEN vs \ {f.lb} ELSE vs
              \/ create /\ f.compute \in alive' /\ UNCHANGED vs
           /\ flow' = [flow EXCEPT ![p] = None]
    /\ UNCHANGED <<request, used, hk, stale>>

FlowStep(p) ==
    \/ MapLoadbalancerToAmphora(p) \/ ValidateComputeForProject(p) \/ ReadSpare(p)
    \/ TakeSpare(p) \/ AttachCompute(p) \/ DeleteStaleSpareVThunder(p) \/ BootCompute(p)
    \/ ActivateRow(p) \/ MarkLBActive(p)
    \/ CreateVirtualServer(p) \/ MarkRowPending(p) \/ ApplyUpdate(p)
    \/ ActivateUpdatedRow(p) \/ DeleteAmphorae(p) \/ MarkRowDeleted(p) \/ MarkLBDeleted(p)
    \/ EndFlow(p) \/ FailFlow(p)

-----------------------------------------------------------------------------
(* Housekeeper: SpareAmphora.spare_check.                                  *)

\* Slip: spares that are being claimed are not counted.
CountReadyOnly == 0

CountBusy == Cardinality({c \in Computes : spare[c] = "BUSY"})

CountReadySpares ==
    /\ hk.at = "idle"
    /\ PoolSize > 0
    /\ hk' = [hk EXCEPT !.at = "counting", !.ready = Cardinality(ReadySpares)]
    /\ UNCHANGED <<lb, request, vth, vs, spare, alive, used, flow, stale, hist>>

\* The second count; the missing spares are created in parallel threads.
CountBusySpares ==
    /\ hk.at = "counting"
    /\ LET n == hk.ready + CountBusy
       IN  hk' = IF n < PoolSize
                 THEN [hk EXCEPT !.at = "booting", !.todo = PoolSize - n]
                 ELSE IdleHk
    /\ UNCHANGED <<lb, request, vth, vs, spare, alive, used, flow, stale, hist>>

\* get_create_vthunder_flow, up to CreateSpareVThunderEntry; or it fails before
\* that, and left: the compute could not be deleted.
BootSpare ==
    /\ hk.at = "booting"
    /\ hk.todo > 0
    /\ \E c \in Computes \ used :
          /\ used' = used \cup {c}
          /\ \/ /\ alive' = alive \cup {c}
                /\ spare' = [spare EXCEPT ![c] = "BOOTING"]
                /\ hk' = [hk EXCEPT !.todo = @ - 1, !.making = @ \cup {c}]
                /\ UNCHANGED hist
             \/ /\ \E left \in MayBeLeft({c}) :
                      /\ alive' = alive \cup left
                      /\ hist' = [hist EXCEPT !.left = @ \cup left]
                /\ hk' = [hk EXCEPT !.todo = @ - 1]
                /\ UNCHANGED spare
    /\ UNCHANGED <<lb, request, vth, vs, flow, stale>>

\* The flow ends with the spare READY; or it fails and the revert of
\* ComputeCreate deletes the compute, if it can, while the row stays BOOTING.
EndSpareFlow(c) ==
    /\ c \in hk.making
    /\ \/ spare' = [spare EXCEPT ![c] = "READY"] /\ UNCHANGED alive
       \/ \E left \in MayBeLeft({c}) : alive' = alive \ ({c} \ left) /\ UNCHANGED spare
    /\ hk' = [hk EXCEPT !.making = @ \ {c}]
    /\ UNCHANGED <<lb, request, vth, vs, used, flow, stale, hist>>

\* The check returns when all its threads are done; Nova may refuse to boot.
EndSpareCheck ==
    /\ hk.at = "booting"
    /\ hk.making = {}
    /\ hk.todo = 0 \/ Computes \ used = {}
    /\ hk' = IdleHk
    /\ UNCHANGED <<lb, request, vth, vs, spare, alive, used, flow, stale, hist>>

-----------------------------------------------------------------------------
(* Health manager: health_check and get_failover_spare_vthunder_flow.      *)

\* _is_vthunder_busy: a load balancer with a row of this compute is PENDING.
IsVThunderBusy(c) == \E l \in LBs : vth[l].compute = c /\ vth[l] # NoRow /\ lb[l] \in Pending

\* A READY spare whose heartbeats stopped is handed to a failover thread.
HealthCheck(c) ==
    /\ c \in MayBeStale \ stale
    /\ spare[c] = "READY"
    /\ ~IsVThunderBusy(c)
    /\ stale' = stale \cup {c}
    /\ UNCHANGED <<lb, request, vth, vs, spare, alive, used, flow, hk, hist>>

\* ComputeDelete, the failure of which ends the flow
DeleteStaleSpare(c) ==
    /\ c \in stale \cap alive
    /\ \/ alive' = alive \ {c} /\ UNCHANGED stale
       \/ stale' = stale \ {c} /\ UNCHANGED alive
    /\ UNCHANGED <<lb, request, vth, vs, spare, used, flow, hk, hist>>

\* DeleteStaleSpareVThunder
DropStaleSpareRow(c) ==
    /\ c \in stale \ alive
    /\ stale' = stale \ {c}
    /\ spare' = [spare EXCEPT ![c] = "NONE"]
    /\ UNCHANGED <<lb, request, vth, vs, alive, used, flow, hk, hist>>

Next ==
    \/ \E l \in LBs, op \in Ops : ApiRequest(l, op)
    \/ \E l \in LBs : ReadRow(l) \/ BeginFlow(l) \/ BusyTimeout(l)
    \/ \E p \in Projects : FlowStep(p)
    \/ CountReadySpares \/ CountBusySpares \/ BootSpare \/ EndSpareCheck
    \/ \E c \in Computes : EndSpareFlow(c) \/ HealthCheck(c)
                           \/ DeleteStaleSpare(c) \/ DropStaleSpareRow(c)

Spec == Init /\ [][Next]_vars

\* A flow runs on (its polling loops are bounded), and a request that waits
\* is granted the project or times out.
Fairness ==
    /\ \A p \in Projects : WF_vars(FlowStep(p))
    /\ \A l \in LBs : WF_vars(ReadRow(l) \/ BeginFlow(l) \/ BusyTimeout(l))

FairSpec == Spec /\ Fairness

-----------------------------------------------------------------------------
(* Properties.                                                             *)

\* "vThunder-Amphora per Tenant" (README.md): no device has load balancers of
\* two projects.
TenantsShareNoDevice ==
    \A l, m \in LBs :
        HasRow(l) /\ HasRow(m) /\ vth[l].compute = vth[m].compute =>
            ProjectOf[l] = ProjectOf[m]

\* Two projects get the same device only as the same spare, claimed by one
\* after it had been claimed by another flow, or READY again because a flow
\* that was too late gave it back.
SharedSparesWereRaced ==
    \A l, m \in LBs :
        HasRow(l) /\ HasRow(m) /\ vth[l].compute = vth[m].compute =>
            ProjectOf[l] = ProjectOf[m] \/ vth[l].compute \in hist.raced

\* A tenant is serviced by one device: a flow boots one only for a project
\* none of whose load balancers is ACTIVE.
BootsOnlyWithoutActiveLb ==
    [][\A p \in Projects : BootCompute(p) =>
          \A l \in LBs : ProjectOf[l] = p => lb[l] # "ACTIVE"]_vars

\* An ACTIVE load balancer has a device: deleting others, in any order and
\* with failures, never takes it away (deleteCompute), unless a deletion began
\* whose own row was DELETED or reverted: then one row of another load balancer
\* is "fewer than two".
BeingDeleted(l) ==
    \E p \in Projects : flow[p] # None /\ flow[p].op = "DELETE" /\ flow[p].lb = l
ActiveLbHasDevice ==
    hist.late = {} =>
        \A l \in LBs : lb[l] = "ACTIVE" /\ ~BeingDeleted(l) => vth[l].compute \in alive

\* No compute is left behind: a running one is in the vthunders row of a load
\* balancer that is not deleted, or a spare, unless Nova did not delete it for
\* the revert of the flow that booted it.
NoOrphanDevice ==
    \A c \in alive \ hist.left :
        (\E l \in LBs : HasRow(l) /\ vth[l].compute = c) \/ spare[c] # "NONE"

\* The pool exceeds its configured size only by spares whose claim was
\* reverted between the two counts of spare_check.
PoolNotOverfilled ==
    Cardinality({c \in Computes : spare[c] \in {"READY", "BUSY"}})
        <= PoolSize + Cardinality(hist.missed)

\* Every request is answered: no load balancer stays PENDING for ever.
PendingEnds == \A l \in LBs : lb[l] \in Pending ~> lb[l] \notin Pending
=============================================================================

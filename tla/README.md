# A TLA+ verification project for a10-octavia

a10-octavia is an OpenStack Octavia provider: Octavia's API hands load balancers, listeners,
pools, members, health monitors and L7 objects to it, and it configures A10 Thunder devices:
vThunder instances that it boots itself, or hardware Thunders. These modules model
the parts of its controller that keep state across requests, processes and failures, check them
with TLC, and prove what matters most with TLAPS. All paths below are under `src/a10_octavia/`.

## 1. The system

### Processes

| Process | What runs in it | Concurrency |
|---|---|---|
| `a10-octavia-worker` | RPC handlers of `controller_worker.py`, one taskflow per request | several worker processes (cotyledon), RPC threads in each, started by `cmd/a10_octavia_worker.py` |
| `a10-house-keeper` | spare pool, expired rows, write memory, pending clean-up, statistics | five threads, `cmd/a10_house_keeper.py` |
| `a10-health-manager` | heartbeat receiver and `health_check`, a thread pool of failovers | `cmd/a10_health_manager.py` |
| Octavia API with `api/drivers/driver.py` | writes PENDING statuses, casts the RPC | outside, modelled from what the driver receives |
| Nova, Neutron, the devices (aXAPI) | called by the tasks | outside, every call may fail |

A request is a *taskflow*: a linear list of tasks, each with `execute` and perhaps `revert`; when a
task raises, the tasks executed so far are reverted in reverse order. State that outlives a flow
is in the database (Octavia's tables and `vthunders`, `vrid`, `nat_pool`, `vrrp_set`), on
the devices, and in `ctx_map`, a dictionary of a `multiprocessing` manager.

### Components

| Component | State | Operations | Hard because | What makes it correct |
|---|---|---|---|---|
| Busy lock (`controller_worker.py`) | `ctx_map`: project -> (shared, exclusive) holds; `ctx_lock`; per request `flags`, `busy` | busy check with timeout, release by flow notification, release by `finally` | threads of several processes, two releases per request, timeouts, killed processes | exclusive requests run alone, counters are exactly the holds, nobody waits for ever |
| VRRP-A set ids (`a10_database_tasks.py`) | `vrrp_set` rows, set id of each device | look up, choose, store, configure, fail over, delete | read and store are two transactions, errors are swallowed, the management subnet may be reconfigured | one id per project, both devices of a pair share it, projects of one subnet differ |
| vThunder life cycle (`a10_load_balancer_flows.py`) | `vthunders` rows, computes, load balancer status, virtual servers | create, update, delete of load balancers; `get_delete_compute_flag` | any task fails, rows read before a wait, order of status updates | an ACTIVE load balancer has a running device, no device without owner, no lasting PENDING |
| Spare pool (`house_keeping.py`, `GetSpareComputeForProject`) | spare rows READY, BUSY, BOOTING | fill, claim, revert, replace | claims and counts race, per-project lock does not cover a shared pool | a spare goes to one project, the pool is not overfilled |
| Health manager (`a10_health_manager.py`) | heartbeat times, health lock | pick a stale vThunder, fail over | check and act are apart, peers change roles | no failover under a pending load balancer, a pair keeps its set id |
| Members (`a10_member_flows.py`, `server_tasks.py`) | member rows; `slb server`, ports and bindings on the device | create, delete, update, batch, deletion of a pool | servers are shared by address and counted in the database; retries, reverts, stale counts | an ACTIVE member is bound, no server or binding outlives its members |
| NAT pools (`a10_network_tasks.py`, `a10_database_tasks.py`) | `nat_pool` row with `member_ref_count`, reserved neutron port | take and give back a reference | read-modify-write in two tasks, no revert, whether a member uses the pool is asked twice | the count is the number of users, the port lives as long as one |
| Persistence (`vthunder_flows.py`, `house_keeping.py`) | `updated_at`, `last_write_mem`; running and saved configuration | write memory, reload check | change between save and time stamp, load balancers set PENDING by a daemon | every change is saved or found unsaved, what was lost is found, requests are left alone |
| VRID floating IPs | `vrid` rows, neutron ports, floating IPs of the device | allocate, replace, delete with the last user | three stores changed one after the other, stale counts | row, port and device agree |
| Listeners, policies, rules | a row each; virtual server and ports, aFleX scripts, client-ssl templates, certificate files | create, update, delete; load balancers created and deleted with their listeners | ACTIVE before the end of the flow, objects replaced as a whole, shared files | an ACTIVE object is served and enforced, nothing outlives its row |
| Pools, health monitors | a row each; service groups, persistence and tcp-proxy templates, monitors set on shared servers | create, update, delete; load balancers with their pools | templates and servers are shared, counts are taken before their use | an ACTIVE pool is served and checked, nothing outlives its row |
| Device connection | none | bounded polling loops | counters at their limits, swallowed time-outs | loops end, success is not taken for failure |
| Driver, driver agent, GLM, neutron driver, utilities | none across requests | conversion and calls | - | - |

Interactions: the driver casts requests to the workers; the workers' flows of one project exclude
or share each other through the busy lock; housekeeper and health manager run flows of the same
kind but have no `ctx_map`, so they take no busy lock (`_is_rack_flow` is true for them), and
neither do the flows of a hardware Thunder; everything meets in the database tables, read and
written in separate transactions. `PROJECT.json` lists the hazards that follow from this, each at
its line, with the properties that cover it or the reason why none does.

## 2. The modules

| Module | Models | Uses |
|---|---|---|
| `ReadersWriters` | abstract specification of the busy lock: per project, shared holders or one exclusive holder | - |
| `BusyLock` | `_vthunder_busy_check`, `ctx_cnt_dec`, notification and `finally`, killed processes | refines `ReadersWriters` |
| `VrrpSet` | `AddProjectSetIdDB`, `GetProjectVRRPSetId`, `DeleteProjectSetIdDB` and the flows around them | one flow per project, as `BusyLock` shows |
| `VThunderPool` | load balancer flows, rows and computes, spares, health check | one flow per project, as `BusyLock` shows |
| `MemberServers` | member and pool flows and the shared servers of the device | the busy check as a condition on running flows |
| `ListenerObjects` | listener, L7 policy and rule flows, TLS certificates, load balancer creation and deletion with listeners | the busy check as a condition on running flows |
| `PoolObjects` | pool and health monitor flows, persistence and PROXY protocol templates | as `ListenerObjects` |
| `NatPool` | the NAT pool tasks of the member and pool flows | the busy check as a condition on running flows |
| `WriteMemory` | time stamps of the flows, saving and reload check of the housekeeper, restarts of the device | the busy check as a condition on running flows |
| `ListenerInvariants` | the inductive invariants of `ListenerObjects`, stated apart from their proofs | `ListenerObjects` |
| `PoolInvariants` | the inductive invariants of `PoolObjects`, and what a task does, stated apart from the proofs | `PoolObjects` |
| `MC...` | the instance TLC checks: values of the constants, symmetry | the module they are named after |
| `BusyLockProofs`, `VrrpSetProofs`, `VThunderPoolProofs`, `MemberServersProofs`, `NatPoolProofs`, `WriteMemoryProofs`, `ListenerObjectsProofs`, `PoolObjectsProofs` | theorems | the module they are named after, TLAPS |

### BusyLock

A thread of a worker process is in one handler at a time. Its `pc` follows the handler: `Receive`
(the RPC arrives), `NextTry`/`AcquireCtxLock`/`BusyCheck` (one round of the loop, with the critical
section in one step while `ctx_lock` is held), `GiveUp` (the timeout), `LoadFlow`, `StartFlow` (the
first task, `VthunderInstanceBusy`, raises for a busy request), `EndFlow`, then twice the release:
`CtxCntDec` from the notification and from `finally`, `FinallySkips` when the flag is down or the
flow is a hardware one. `Crash(w)` kills a worker process: its threads stop, the manager process
keeps `ctx_map` and `ctx_lock`. `is_reload_thread` is a field of the request (creating and deleting
load balancers and members, and batch updates, are exclusive).

### VrrpSet

A project is one process. `LookupSetId`, `ReadSubnetSetIds` and `InsertSetId` are
the transactions of `AddProjectSetIdDB`, with `ReadFails` and a failing insert (both swallowed);
`ConfigurePair` writes the id to both devices; `Failover` configures one with the stored id;
`UnsetSetId`, `RemovePair` delete row and devices, which fails between the two or leaves the row
when `handle_vrid` is off. `Reconfigure` restarts the workers with another `amp_boot_network_list`.

### VThunderPool

Per load balancer: its status, its waiting request, its `vthunders` row; per project: the running
flow, at one of its tasks. Every task may fail: `FailFlow` does what the reverts of the tasks
before it do. The revert of the boot may be refused by Nova, which it logs only, while the row goes
all the same: the compute stays (`MayBeLeft`), and the history `hist.left` has it. `ReadRow` is the read that `delete_load_balancer` makes before it waits; `BeginFlow`
is the end of the wait, with the delete flag; `BusyTimeout` the refusal. The housekeeper's check
is four actions (count READY, count BUSY, boot, end), the health manager's pick and the flow it
starts are separate actions.

### MemberServers

Per load balancer one request, since the API keeps it in PENDING_UPDATE (that the driver or the
API might break this is not modelled). `flow` holds the members to delete, create and update, the
one in work and what its counts found; `made` remembers the executions of `MemberCreate` for the
reverts. The device is three sets: servers (by address), service groups (by pool), bindings (by
member). The counts are taken in one step and used in a later one, and look at the statuses that
the repository methods look at. A batch runs the deletions, then the creations, then the updates;
the order within a group is any order. `Fail` may strike before any task; `RevertCreate` and
`EndInError` are the reverts. `rack` says whether the project has a hardware Thunder: the same
steps without the busy check. Two history variables name the ways in which the code is known to
lose or leave something, so that the properties say that there are no others: `lost` (members
whose server went with a flow that did not count them, or whose own creation or deletion failed)
and `leaked` (addresses whose server stays because a call failed, was skipped, or because two
deletions counted each other).

### ListenerObjects and PoolObjects

A request becomes the sequence of tasks that its flow factory builds (`RuleCreateFlow`,
`PoolDeleteFlow`, ...). In `ListenerObjects` these are tables that name the task after each task, and the
flow carries the object it works on (`cur`), the task it is at (`at`) and the objects that are to
come (`rest`): a fully populated creation goes from the load balancer down through its listeners, their
policies and rules (`Descend`), a cascading deletion through the policies, then the listeners. In
`PoolObjects` the flow carries the number of the next task (`pc`); the creation and the deletion of a load
balancer go through their pools one part at a time (`cur`, with `rest` to come) and end with a part for
the load balancer itself. Each task is an action; a failure runs the reverts of those executed. A task changes the device as its aXAPI calls do, the parts that a later call would
have changed included when an earlier one raises; a deletion on the device that a revert makes, of a
virtual server too, may fail and is only logged. A `replace` of a virtual port drops what the
request does not name, a template cannot go while it is bound. The API admits a request when the
load balancer is ACTIVE, and the flows write that before their last tasks, so two flows of one load
balancer may overlap, on a vThunder where both are shared requests, on a hardware Thunder always.
What the flow found in the database when it began is kept in the flow.

The first module has the virtual server, ports, client-ssl templates, certificate files, scripts and
their rules; the second service groups, persistence templates, the tcp-proxy template of a
partition, monitors, and which monitor each server has. Their history variables name what the code
is known to leave wrong: `overlapped` (two flows of one load balancer, of which one failed),
`revived` (an object in ERROR that a request for an object below it set ACTIVE),
`unbound` and `bare` (an update, or a policy deletion, that replaced a port without its
scripts, or its TLS), `raced` (a tcp-proxy template deleted by a count that did not see the pool, or saw it in a deletion that failed later),
`overset` (a server whose monitor another pool set), `halfway` and `left` (deletions and
clean-ups that failed).

### NatPool

The tasks around the row are actions: `GetNatPoolEntry` (with the look-up of the virtual port, which
says whether the member uses the pool), `ReserveSubnetAddress` and `UpdateNatPoolDB` for a creation,
`ReleaseSubnetAddress` and `DeleteNatPoolEntry` for a deletion. `Work` is the rest of the member's
tasks, up to its row, `Finish` the end of the flow. `NatTurn` and `Late` give the order: a batch on a
vThunder takes the references of new members after all of them are ACTIVE, every other flow before
it looks at the server. `busy` says whether the flows exclude each other by the busy lock (one
project on a vThunder) or not. The history variable `users` is the set of members that have taken
and not given back; `blame` collects what may make the count wrong: `overlap` (two flows between
read and write at once), `unpaired` (a member gave back what it had not taken, or lost its row with
its reference), `port` (a call failed between the port and the row).

### WriteMemory

The load balancers of one device and partition. A flow of the worker is a thread: it writes its
row, changes the device, sets its status and stores the time (`SetThunderUpdatedAt`), in the order of
its operation; creations and deletions may save and restart the device (`PostNetworkPlug`,
`ReloadReboot`). A flow that fails leaves its load balancer in ERROR, but an update one below a load
balancer makes it ACTIVE again (`RevertedStatus`, as `ListenerToErrorOnRevertTask` does). The housekeeper's pass selects rows (`Recent`), checks each load
balancer against the uptime of the device (`CheckActive`, `StatusCheck`), then runs the
write-memory flow task by task. `Restart` is the device, at any time: what is not saved is gone.
Times are values of a clock that several steps may share, as the columns have seconds. History
variables: `due` (changes whose flow stored its time), `slipped` (changes passed over by a time of
saving: made between the save and its time, or stamped without a save), `crossed` (load balancers
asked for, or failed, between a read of the housekeeper and its write, and those that a failed update
made ACTIVE although a deletion had gone by), `masked` (losses that the
check cannot see: a later time stamp, a save, a device that did not answer, a load balancer that is
PENDING_UPDATE when it is its turn, or one that the check put in ERROR and a failed update in ACTIVE).

## 3. What is checked

Each run has bounds just large enough for the interleavings it is about; TLC explores all states.

| Run | Instance | Shows |
|---|---|---|
| `busy_lock` | 3 threads in 2 processes, 2 projects, one wait round, one process may be killed anywhere, symmetric | `ReloadRunsAlone`, `CountersMatchHolds`, `BusyRequestStandsDown`, `CountersNeverReset`, `OneReleasePerHold`, refinement of `ReadersWriters`. Three threads are enough for a holder, a waiter and a killed one; a second project shows that keys do not mix |
| `busy_lock_live` | 3 threads, 1 project, kills outside the critical section | `EveryRequestReturns`, `ReloadHoldEnds` |
| `vrrp_set` | 3 projects, 2 subnets, 2 set ids | one id too few, so that exhaustion happens; `OneSetIdPerProject`, `PairSharesOneSet`, `SharedSetIdsWereRaced` |
| `vthunder_pool` | 2 load balancers of a project, 2 computes, each of which Nova may refuse to delete, no spares | `ActiveLbHasDevice`, `NoOrphanDevice`, `BootsOnlyWithoutActiveLb`, `PendingEnds`; two load balancers make the first, the second and the last of a project, the second compute is the one that should not be booted |
| `vthunder_pool_spares` | 2 projects, one with two load balancers and one with one, 3 computes, pool of 1; two claims of a spare race while a third follows | `PoolNotOverfilled`, `SharedSparesWereRaced` |
| `vthunder_pool_shared` | 2 projects, a spare | violation: two tenants on one device |
| `member_servers` | 2 load balancers with a pool each, 3 members with one address, 2 ports; on a vThunder and on a hardware Thunder | `ActiveMemberServed`, `NoOrphanServer`, `DeletedMemberLeavesDevice`; with three members on one server a flow sees none, one or two others, in its pool or in another, on its port or not |
| `member_servers_revert` | the same, creations only | violation: a failed creation deletes the server under a counted member |
| `listener_objects` | five scenes: a listener with its certificate and policy from nothing; a policy and its rule beside updates of the listener; two load balancers whose listeners share a certificate; a load balancer created with its listeners; one deleted with them; two flows at a time | `ActiveListenerServed`, `ActivePolicyEnforced`, `NoOrphanConfig`, `NoOrphanCert` |
| `pool_objects` | seven scenes: a pool through its life with its monitor; pools of two load balancers that share a template, and a server; pools of two projects; load balancers with their pools, created and deleted on a vThunder, created, and deleted, on a hardware Thunder; two flows at a time | `ActivePoolServed`, `ActiveMonitorChecks`, `NoOrphanPool` |
| `nat_pool` | 3 members of 2 load balancers, 2 ports, with and without the busy lock | `UsersKeepPool`, `NoPortLeft`; two members of one load balancer make a batch and a pool deletion with several references, the third comes from another flow; the second port is reserved after the first was released |
| `write_memory` | 2 load balancers, 2 threads, 3 requests, a clock of 2; a hardware Thunder in a partition and a vThunder in the shared one | `ChangeFound`, `LossFound`, `HousekeeperSparesRequests`; two load balancers make one through which the device is saved and one that is only stamped |

Every property of a passing run has a mutant in `PROJECT.json`: a plausible slip in a definition
that stands for code, with which TLC finds the property violated. Those operators precede the
definition they would replace and are marked "Mutant" or "Slip"; the specifications do not use
them.

Bounds in the models: `MayCrash` (processes that may be killed), `Computes` (instances ever
booted), `MayRemain` (computes Nova may refuse to delete, none in the runs with a pool, whose properties
do not depend on it), `MayBeStale` (spares whose heartbeats stop), `Ops` (requests that the users make), one
outstanding request per load balancer, `Slots` and `Scenes` (flows at a time, requests and objects
of `ListenerObjects` and `PoolObjects`), `MaxPorts` (ports ever reserved), `MaxClock` and `MaxChanges`.
State constraints cut behaviours where nothing more is claimed: `NoneOverlapped` and `Bounds` of
`MCWriteMemory` stop after a history variable has named a cause that the properties except, `Bounds` of
`MCNatPool` after a call that failed half-way, after a second cause, or at four references (at two,
once there is a cause). The
first state with the cause is still checked; the theorems hold without any of these. Deadlock checking is off where the system really stops:
a process killed with `ctx_lock` blocks everyone, all load balancers or pools may be deleted,
a batch may leave its load balancer immutable, and the requests of a scene or the clock come to an end.

Fairness: `BusyLock` assumes that a thread goes on with its handler (weak), and that a thread that
waits for `ctx_lock` gets it if it is released again and again (strong; the manager's lock serves
its waiters). `VThunderPool` assumes that a flow goes on, because each of its polling loops has a
bounded number of tries, and that a waiting request is either served or refused, because
`amp_busy_wait_sec` is finite by default. Requests, kills, failures, the
housekeeper and the health manager are never assumed to happen. The other
modules have safety properties only and no fairness.

## 4. What is proved

The proofs hold for every value of the constants that meets the named assumptions of the module
(finite `Threads`, a natural timeout, a positive number of set ids, finitely many load balancers and
computes, typed maps from members to pools, addresses and ports, finitely many members); the runs evaluate those assumptions.

**BusyLock.** `TypeCorrect`, `ReloadAlone`, `CountersExact`, `BusyStandsDown`,
`NeverReset`, `ReleasedOnce` and `Refinement` (the lock implements `ReadersWriters`), for any number of threads, processes and
projects, any timeout and any kills. None is inductive alone. The inductive invariant adds:
`RequestKnown` (a thread in its handler has a request, and one that waits has no hold yet and is not
of a hardware Thunder), `FlagMeansHold` (a raised flag belongs to a request whose key is in
`ctx_map`), `FlowHolds` (a flow that is built or runs holds its project, or is busy or a hardware
one), `LoopCounts` (the wait loop is left without a hold only after a refusal), `LockHolder` (where
the owner of `ctx_lock` is), `CountersExclude` (at most one exclusive hold, and none shared beside
it) and `CountersMatchHolds` itself, on which the exclusion rests: the counters decide, and they are right
only because each hold is handed back once. The refinement follows from the invariant: granting
and releasing map to steps of readers and writers, everything else to a stutter.

**VrrpSet.** `TypeCorrect`, `OneSetId`, `PairAgrees`, `SharingIsRaced`. The inductive invariant
adds that a flow that chooses an id has no row yet (`NoRowYet`), that it configures the stored id
if there is one (`ConfiguresStoredId`), that the devices of a pair match the row (`DevicesMatchRow`), and that an
id chosen but not yet stored is legal and free but for projects that raced (`ChosenIdIsLegal`,
`ChosenIdIsFree`).

**VThunderPool.** `TypeCorrect`, `PoolKept` (`PoolNotOverfilled`), `SharingWasRaced`
(`SharedSparesWereRaced`) and `BootsOnly` (`BootsOnlyWithoutActiveLb`), for any number of projects,
load balancers and computes and any size of the pool; `DevicesKept` (`ActiveLbHasDevice`) and
`NoDeviceLeft` (`NoOrphanDevice`: no device is left but the computes that Nova refused to delete for a
revert) without a pool. `ShapeInv` says what a flow has at each of its
tasks. For the pool, what the housekeeper is making is still BOOTING and nobody else has it
(`SpareInv`), so READY and BUSY spares, those being made and those still to make stay within the
size, but for the missed ones (`PoolInv`). `LbInv` ties a load balancer, its row, its request and
its flow together: it is created once, it is ACTIVE only with an ACTIVE row or in the middle of a
flow, a deletion that waits has read its row. With `BootInv`, which carries what the map task has found
to the boot, this gives `BootsOnly`. `ShareInv` says that a compute that was not raced for is held by
one project at most, and by none while it is a free spare. The two theorems about devices have to
know what a flow knows of its device over all its tasks (`DevFlow`): the one it joined is kept by an
ACTIVE row, the one it booted has no other row, and what `get_delete_compute_flag` counted when
the deletion began still holds when the device goes. The last needs `ShareInv`: other projects have no
rows of this compute, and in the project one flow runs at a time.

**MemberServers.** `TypeCorrect` and `RowsAndBindings`: in no execution, on either kind of device
and with no busy lock at all, is a member without a row bound on the device. The invariant
needs that a flow handles members of its own load balancer only (`FlowOwn`), so that flows cannot
disturb what others rely on; that a member on its way through `MemberCreate` has its row
(`CreatingHasRow`); and that a deletion has unbound its member, or removed the service group,
before it reaches the row (`RowsGoLast`). One lemma shows that a flow's step keeps what the others
rely on; each action then has a lemma of its own.
`ActiveMembersServed` (`ActiveMemberServed`) adds what a flow works on at each of its steps (`TaskOf`, `RowsOf`),
and that a flow that creates or deletes on a vThunder runs alone (`RunsAlone`, the busy check). Then
what a count has seen is still so when it is used (`CountSound`): every ACTIVE member of the address is
in it. `RemoveServerDrops` turns the number that the code compares into the statement that nobody but
the deleted member was counted (a set of one element), so that whoever loses its server is in `lost`;
`Served` says that every member with a row is bound, excused by `lost`, or in the work of its own
flow. `NoServerOrphaned` (`NoOrphanServer`) counts in the other direction: as long as a server is there and not
`leaked`, some member with a row keeps it (`ServersKept`), one that the deletion of its pool has not
yet passed; before a flow deletes a row, its count has left either no server or another keeper
(`RowReady`).

**NatPool.** `TypeCorrect`, `UsersCounted` (`UsersKeepPool`) and `PortsNamed` (`NoPortLeft`), for
any number of members, load balancers and ports. `FlowOk` says that a flow handles members of its
own load balancer, that those to create and to delete are apart, and that it has a port of its own
only between reserving it and writing the row. For the ports: no port has a number that is not yet
made (`MadeInv`), and a flow that is about to delete the row has its port gone, or a call failed
(`ReleasedInv`). For the count, as long as `blame` is empty: a member without a row, or still to be
created, holds no reference (`HolderInv`); one flow at a time is between reading and
writing the row, so what it read is still so, and the member it gives back for holds one
(`AloneInv`); from this the arithmetic of `RowCounts` follows, which is the property.

**WriteMemory.** `TypeCorrect`, `ChangesAreFound` (`ChangeFound`), `LossesAreFound` (`LossFound`) and
`RequestsAreSpared` (`HousekeeperSparesRequests`), for any number of load balancers, threads and requests.
`NumbersInv` says that the requests of a load balancer are numbered in turn, each flow has one of its
own, and a creation is the first and works alone; `RowInv` that a load balancer that is worked
on, ACTIVE or held by the housekeeper has its row, saved at a time that has been; `SavedInv` that,
between a save and its time, what runs is saved or has slipped. `ChangesAreFound` needs these
three. `OwnInv` says that the status of a load balancer belongs to one flow, or to the pass of
the housekeeper that holds it, so that what the pass has read is stale only after a request or a
failure in between, which `crossed` records: `RequestsAreSpared`. `LossesAreFound` rests on all of them: a row
is ACTIVE when its load balancer is ACTIVE, held, or on its way there (`ServingInv`); a restart between
passes loses only changes that `ChangeFound` has in a recent row; no row is ACTIVE once a deletion has passed it, nor before its load balancer is made
(`GoneInv`). `LossInv` is about a load balancer that is, or may without more ado become, ACTIVE: it is ACTIVE
now, or PENDING with only updates under way, one of which may fail. While it has lost changes, its row is
recent, the device started after the row's time, and the pass under way, if it has already selected the
rows, has still to check it. Without the second kind the invariant would miss the load balancer that is
PENDING when it is checked and ACTIVE when its update fails.

**ListenerObjects.** `TypeCorrect` (`TypeOK`), `ActiveListenersServed` (`ActiveListenerServed`),
`ActivePoliciesEnforced` (`ActivePolicyEnforced`), `NoOrphanConfiguration` (`NoOrphanConfig`) and
`NoOrphanCertificate` (`NoOrphanCert`): all the properties its run checks, for any number of load balancers,
listeners, policies, rules, certificates and flows under way, with any failures. For `TypeOK`, `Shape`
says which task of which object a flow of each request can be at and which objects are still to come, and
`TlsInv` that a listener without a certificate gets none from a flow, its row or a template. The other properties are not inductive, for
the reasons they are not in `PoolObjects`; `ObjectInv` adds, for every load balancer whose flows did not
overlap where one failed (`LbOK`), that at most one of its flows has more to do than to save (`AtWork`), and
what the progress of that flow says of the rows and the device (`LbGood`): the statuses of the objects above and
below it (`LbStatus`, `Calm`); that an ACTIVE listener is served and an ACTIVE policy listed, and
that they stay so while the flow works below them (`ListenerOK`, `PolicyOK`); what has no row has nothing
on the device (`CleanListener`, `CleanPolicy`); and of the flow itself (`FlowOK`), which of its objects it has
passed and what it has made or removed of each, down to each listener and policy of a fully populated
creation (`CreateGood`), or which ports an update of the load balancer has read (`UpdateGood`). `Rowed` says
that nothing below a deleted object has a row, nor below one that is not yet made. The proof has a lemma
for what each kind of task leaves of each listener and policy, one for a step of a flow within its load
balancer, and one that the other load balancers stay as they are. For the certificates the load balancers
cannot be taken one by one, since listeners of several share a file: `CertInv` says that a file is kept (`Kept`) by a
listener whose template names it, or whose row does while it has no template and its own deletion has not
passed the task that deletes the file, or by an update that brings it; and that a template with another
certificate than its row is that of an update on its way, or is in `left` (`Odd`).

**PoolObjects.** `TypeCorrect` (`TypeOK`: the types, and that the port of a listener names only what
exists), `ActivePoolsServed` (`ActivePoolServed`), `ActiveMonitorsChecked` (`ActiveMonitorChecks`) and
`OrphansGone` (`NoOrphanPool`): all the properties its run checks, for any number of load balancers, pools,
servers and flows under way, on either kind of device. For the types, `Shape` says at which part and which task
a flow can be, and `Place` names the task by its number. `ActivePoolServed` is not inductive: a
pool is ACTIVE because the flow that set it up has done certain tasks, and stays served because the
other flows of the load balancer do not touch it. `ServedInv` says, of every load balancer whose flows
did not overlap where one failed (`LbOK`): of its flows one at a time works, and none does while it
is ACTIVE, but for flows that have only to end and the last task of its creation (`Exclusive`); a pool that
no flow works on is at rest (`Calm`), one whose load balancer is gone is gone (`Buried`), and one that is ACTIVE, or
whose monitor alone is being changed, has its service group and its binding (`GoodPool`); a flow that
works has given its pool the status of its place in the sequence, and what serves it up to there
(`PoolStatus`, `PoolGood`; for a load balancer `LbStatus`, `LbGood`). Of every flow: what it has done
covers the task that admits other requests (`Recorded`), a count that found the last pool with the PROXY
protocol still has all those pools on their way out or back from a failure (`Seen`), and a deletion that is
being reverted is in `halfway` (`Half`). The proof has a lemma for what each task does to the service of
each pool, one for a step of a flow in its load balancer, and one that the other load balancers
stay as they are (`LbFrame`). `ActiveMonitorsChecked` (`ActiveMonitorChecks`) rests on `ServedInv` and adds,
of each monitor (`MonitorInv`): it has a row only with its pool (`HmRow`); when no flow works on it, it is at rest
or in the remains of a creation that failed (`HmCalm`); when it is ACTIVE it is on the device and set on the
servers (`Checked`); and a flow that works on it has given it the status of its place, with the device
ready before ACTIVE (`HmOfPool`; for a load balancer `HmOfLb`, where the monitors still to make are PENDING
and those made are in `done`, for the reverts). A step either leaves a monitor alone (`SameMonitor`) or is
of the only flow that works on it (`OthersOff`), which `HmStep` turns into the invariant.
`OrphansGone` (`NoOrphanPool`) rests on `MonitorInv`. That a pool is GONE says nothing of the device by
itself: what the deletion removes depends on what the request found (`monitored`, the pool's
persistence in `sp`) and on the tasks before the row's. `OrphanOK` says, of each pool with nothing in `left`:
a persistence template has the pool's row to name it, or an update about to write that (`Updating`);
a monitor on the device has a row (`Owned`); and a flow that deletes has removed what its tasks so far
remove, and found every monitor there is (`Cleared`). The tcp-proxy template is one for all pools, so
`ProxyOK` is about all load balancers at once: while it is there, some pool with the PROXY protocol
has a row that no deletion has passed (`Used`), where a deletion that counted other users passes
with its count and the last one only when it has deleted the template (`Parting`), or the deletion
left the template behind. A count that finds another user leaves one in use, since a pool that is
on its way out has a status that the count tells from it (`PartingStatus`).

Only model-checked: the liveness properties (`EveryRequestReturns`, `ReloadHoldEnds`,
`PendingEnds`); fairness and ENABLED are beyond the prover.

## 5. Where the code departs from what it says

Two runs show a disagreement between the code and a line of the repository, and are findings of
`PROJECT.json`: `vthunder_pool_shared` (a spare is read in one transaction and marked in the next, so
that two tenants get one device) and `member_servers_revert` (the count that `MemberCreate.revert`
compares with the wrong bound).

Behaviour that no statement of the repository excludes, and that the models show; where a passing
property would be violated by it, the property names it as an exception:

- Worker: a killed process leaves its project busy until the service restarts; a process killed
  inside the critical section stops all requests.
- Load balancers: the revert of a boot logs a failing deletion of the compute and the next one deletes
  the row, so that the compute runs in no row; a swallowed `NoFreeSetId` lets the flow configure an id in use; an update that
  fails late leaves the row PENDING_UPDATE, where the next creation does not find it and boots a
  second device; a stale spare is failed over although it was claimed meanwhile; a creation that
  fails after it removed its spare's row leaves the device running in no row, since the revert sets
  READY on a row that is gone (`NoOrphanDevice` is about deployments without a pool); the revert
  of a late claim makes a spare READY that another flow has taken; a deletion that
  fails after its compute (or a pool deletion after its service group) is gone cannot succeed when
  repeated.
- Members: a batch that fails before its groups leaves everything PENDING; an update makes a
  member ACTIVE that was never bound; members in ERROR or PENDING_UPDATE are not counted and lose
  the server they share.
- Listeners and pools: a fully populated creation admits requests after its first listener; an
  update of a listener drops its scripts from the port, a policy deletion its TLS, until the next
  request; a cascading deletion forgets the scripts of all listeners but the last; the tcp-proxy
  template goes by a count of one project although projects share it; pools with a server in common
  overwrite each other's monitor, and deleting the last one set leaves the server unchecked.
- NAT pools: a deletion that is repeated gives its reference back twice; an error of `delete_port`
  is swallowed, and the port blocks every later reservation of the addresses; a member created
  while its pool had no listener gives back what it did not take.
- Persistence: a change between saving and storing the time counts as saved; with fewer than two
  rows that are not DELETED no save is made, and the time is stored in the live one all the same; a
  write that fails to enter the partition leaves its load balancers PENDING_UPDATE; a load balancer deleted, or
  failed, during a pass may be set ACTIVE by it; a row PENDING_DELETE after a failed deletion is not
  looked at; marking a row stores a time that hides an earlier loss; a load balancer that is
  PENDING_UPDATE when it is checked is passed over, its row stamped all the same, and when that
  update fails it is ACTIVE, without what was lost; a failed update makes ACTIVE also what the check put in
  ERROR for its losses, or what a deletion has meanwhile marked.

## 6. What could follow

1. VRID floating IPs: rows, neutron ports and the list of the device, with counts taken before use.
2. ACTIVE_STANDBY in `VThunderPool`: the failover flow and the roles of a pair, and the housekeeper's
   clean-up of pending deletions.
3. The bounded polling loops as recursive functions, against what they should return.

## 7. Not modelled

VRID floating IPs, the ACTIVE_STANDBY tasks on pairs of devices, the polling loops and the
housekeeper's clean-up of rows are left out as the components of `PROJECT.json` say. Within the modules
that exist: failures of the database itself in `WriteMemory`, a restart of the housekeeper, the
deletion of the last load balancer there, and requests on a load balancer that its own creation has
made ACTIVE (they are in `ListenerObjects`); in `NatPool`, addresses outside the members' subnet
(no row is kept for them), several pool names (their rows are independent), allowed-address pairs, and
a load balancer created with its members.

The content of configuration objects (templates, flavors, certificates, licences), conversion of
addresses and names, and calls to Neutron for interfaces and VLANs: they keep no state across
requests in this code, and their failures are failures of steps in the models. The collision of
server names (`get_member_server_name` uses the first characters of the project id) needs the
string itself. RPC delivery belongs to the message bus: a cast is delivered to one worker or lost
with it. The driver agent starts processes of the Octavia library. The installer and the
migrations run by hand.

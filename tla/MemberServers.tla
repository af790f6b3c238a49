---------------------------- MODULE MemberServers ----------------------------
(***************************************************************************)
(* The servers that pool members share on a Thunder device.                *)
(*                                                                         *)
(* Members of one project with one address use one `slb server` object,    *)
(* named after the project and the address, whatever pool they belong to.  *)
(* The database does not record who uses it: a flow counts the members or  *)
(* pools with that address, and deletes the server when it finds no other. *)
(* The module follows the member flows (create, delete, update, batch) and *)
(* the pool deletion through their database and device steps, their        *)
(* failures and their reverts.                                             *)
(*                                                                         *)
(* A flow belongs to the load balancer it works for: the Octavia API keeps *)
(* the load balancer in PENDING_UPDATE, so that one load balancer has one  *)
(* request at a time, and those of other load balancers run beside it.  On *)
(* a vThunder the busy check separates them further; on a hardware Thunder *)
(* nothing does.  NAT pools, VRIDs and interfaces are not in this module.  *)
(***************************************************************************)
EXTENDS Naturals, FiniteSets

CONSTANTS
    LBs, Pools, Members, Addrs, Ports,
    LbOf,               \* the load balancer of a pool
    PoolOf,             \* the pool of a member
    AddrOf,             \* the IP address of a member: it names the server
    PortOf,             \* its protocol port and protocol
    NlbaasMemberNames,  \* CONF.a10_global.nlbaas_member_names
    Ops,                \* bound: the requests made for each load balancer,
                        \* with a hardware Thunder (TRUE) or a vThunder
    None

ASSUME ShapeAssumption ==
    /\ LbOf \in [Pools -> LBs]
    /\ PoolOf \in [Members -> Pools]
    /\ AddrOf \in [Members -> Addrs]
    /\ PortOf \in [Members -> Ports]
    /\ NlbaasMemberNames \in BOOLEAN
    /\ IsFiniteSet(Members)
    /\ None \notin Members \cup Pools

VARIABLES
    rack,     \* the project has a hardware Thunder: no flow takes the busy lock
    status,   \* provisioning_status of each member, "NONE" without a row
    pool,     \* provisioning_status of each pool
    servers,  \* on the device: the addresses that have a server
    groups,   \* on the device: the pools that have a service group
    sg,       \* on the device: the members bound into their service group
    flow,     \* the request of each load balancer
    lost,     \* history: members dropped or never bound for a known reason
    leaked    \* history: addresses whose server a flow left behind

vars == <<rack, status, pool, servers, groups, sg, flow, lost, leaked>>
device == <<servers, groups, sg>>
db == <<status, pool>>
hist == <<lost, leaked>>

MemberStatus == {"NONE", "PENDING_CREATE", "PENDING_UPDATE", "PENDING_DELETE",
                 "ACTIVE", "ERROR"}
Steps == {"idle", "queued", "abandoned", "next", "dissociate", "remove", "row",
          "server", "associate", "activate", "poolremove", "rows", "revert"}

(* old, new, upd: the members to delete, create and update (a pool         *)
(* deletion has those of the pool in old); left: those not finished; cur:  *)
(* the one in work; seen: the members its count found; made: the members   *)
(* that entered MemberCreate, with what their counts found.                *)
Flow == [op : {"none", "create", "delete", "update", "batch", "pool"},
         pool : Pools \cup {None},
         old : SUBSET Members, new : SUBSET Members, upd : SUBSET Members,
         left : SUBSET Members, cur : Members \cup {None},
         seen : SUBSET Members, made : SUBSET [m : Members, seen : SUBSET Members],
         step : Steps]

Request(op, p, old, new, upd) ==
    [op |-> op, pool |-> p, old |-> old, new |-> new, upd |-> upd,
     left |-> old \cup new \cup upd, cur |-> None, seen |-> {}, made |-> {},
     step |-> "queued"]

Idle == [Request("none", None, {}, {}, {}) EXCEPT !.step = "idle"]

MembersOf(p) == {m \in Members : PoolOf[m] = p}
LbOfMember(m) == LbOf[PoolOf[m]]
WithAddr(a) == {m \in Members : AddrOf[m] = a}
SamePort(m) == {n \in WithAddr(AddrOf[m]) : PortOf[n] = PortOf[m]}
PoolsOf(S) == {PoolOf[m] : m \in S}

(* What the member counts of the repository look at.                       *)
CountedStatus == {"PENDING_DELETE", "ACTIVE"}
CountedWithAddr(a) == {m \in WithAddr(a) : status[m] \in CountedStatus}

Running(l) == flow[l].step \notin {"idle", "queued", "abandoned"}
Exclusive == {"create", "delete", "batch"}

(* Mutant: the project is taken for one with a hardware Thunder.           *)
ConflictsNone(l) == {}

(* The busy check of the project: a create, delete or batch flow of a      *)
(* member runs alone, updates and pool deletions run beside each other.    *)
Conflicts(l) ==
    {k \in LBs \ {l} : /\ ~rack
                       /\ Running(k)
                       /\ flow[l].op \in Exclusive \/ flow[k].op \in Exclusive}

Init ==
    /\ rack \in BOOLEAN
    /\ status = [m \in Members |-> "NONE"]
    /\ pool = [p \in Pools |-> "ACTIVE"]
    /\ servers = {}
    /\ groups = Pools
    /\ sg = {}
    /\ flow = [l \in LBs |-> Idle]
    /\ lost = {}
    /\ leaked = {}

-----------------------------------------------------------------------------
(* The Octavia API admits a request when the load balancer is mutable, and *)
(* writes the pending status of the members before the driver casts it.    *)
Admit(request, pending) ==
    LET l == LbOf[request.pool]
    IN  /\ flow[l].step = "idle"
        /\ request.op \in Ops[rack][l]
        /\ pool[request.pool] # "DELETED"
        /\ flow' = [flow EXCEPT ![l] = request]
        /\ status' = [m \in Members |-> IF m \in DOMAIN pending THEN pending[m] ELSE status[m]]
        /\ UNCHANGED <<rack, pool, device, hist>>

CreateMember(m) ==
    /\ status[m] = "NONE"
    /\ Admit(Request("create", PoolOf[m], {}, {m}, {}), [n \in {m} |-> "PENDING_CREATE"])

DeleteMember(m) ==
    /\ status[m] # "NONE"
    /\ Admit(Request("delete", PoolOf[m], {m}, {}, {}), [n \in {m} |-> "PENDING_DELETE"])

UpdateMember(m) ==
    /\ status[m] # "NONE"
    /\ Admit(Request("update", PoolOf[m], {}, {}, {m}), [n \in {m} |-> "PENDING_UPDATE"])

Present(p) == {m \in MembersOf(p) : status[m] # "NONE"}

(* The driver's member_batch_update: every present member of the pool that *)
(* the request does not name is deleted and every one it names is updated. *)
BatchUpdate(p, old, new) ==
    LET upd == Present(p) \ old
    IN  /\ old \subseteq Present(p)
        /\ new \subseteq MembersOf(p) \ Present(p)
        /\ old \cup new \cup upd # {}
        /\ Admit(Request("batch", p, old, new, upd),
                 [m \in old \cup new \cup upd |->
                    IF m \in old THEN "PENDING_DELETE"
                    ELSE IF m \in new THEN "PENDING_CREATE" ELSE "PENDING_UPDATE"])

(* The deletion of a pool leaves the status of its members alone.          *)
DeletePool(p) == Admit(Request("pool", p, Present(p), {}, {}), <<>>)

-----------------------------------------------------------------------------
(* The worker gets the busy lock.                                          *)
Begin(l) ==
    /\ flow[l].step = "queued"
    /\ Conflicts(l) = {}
    /\ flow' = [flow EXCEPT ![l].step = "next"]
    /\ UNCHANGED <<rack, db, device, hist>>

(* The members that an executed ...ToErrorOnRevert task of the flow holds: *)
(* the batch flow adds the task of a group when it reaches the group.      *)
Guarded(f) ==
    f.old \cup (IF f.left \cap f.old = {} THEN f.new ELSE {})
          \cup (IF f.left \cap (f.old \cup f.new) = {} THEN f.upd ELSE {})

(* The ...ToErrorOnRevert tasks: the members (or the pool) go to ERROR,    *)
(* the load balancer to ACTIVE.                                            *)
EndInError(l) ==
    /\ IF flow[l].op = "pool"
         THEN pool' = [pool EXCEPT ![flow[l].pool] = "ERROR"] /\ UNCHANGED status
         ELSE /\ status' = [m \in Members |->
                     IF m \in Guarded(flow[l]) /\ status[m] # "NONE"
                       THEN "ERROR" ELSE status[m]]
              /\ UNCHANGED pool
    /\ flow' = [flow EXCEPT ![l] = Idle]
    /\ lost' = lost \cup {m \in (flow[l].old \cup flow[l].new) \ sg : status[m] # "NONE"}
    /\ UNCHANGED <<rack, device, leaked>>

(* The wait for the lock ends after amp_busy_wait_sec: VthunderInstanceBusy *)
(* raises behind the task that sets the member to ERROR.                   *)
BusyTimeout(l) ==
    /\ flow[l].step = "queued"
    /\ flow[l].op # "batch"
    /\ Conflicts(l) # {}
    /\ EndInError(l)

(* A batch flow has no such task before those of its groups: when the busy *)
(* check or a task before them fails, nothing is set back.                 *)
AbandonBatch(l) ==
    /\ flow[l].step = "queued"
    /\ flow[l].op = "batch"
    /\ flow' = [flow EXCEPT ![l].step = "abandoned"]
    /\ UNCHANGED <<rack, db, device, hist>>

-----------------------------------------------------------------------------
(* Deleting a server unbinds every member that uses it, deleting its port  *)
(* every member that uses the port.                                        *)
DropServer(a) ==
    /\ servers' = servers \ {a}
    /\ sg' = sg \ WithAddr(a)
    /\ leaked' = leaked \ {a}
    /\ UNCHANGED groups

DropPort(m) == sg' = sg \ SamePort(m) /\ UNCHANGED <<servers, groups>>

(* The server of an address stays on the device although nobody is to use  *)
(* it: a call failed or was left out, or two deletions saw each other.     *)
Leak(a, unused) == leaked' = leaked \cup (IF unused THEN {a} \cap servers ELSE {})

(* MarkMemberPendingDeleteInDB, CountMembersWithIP and                     *)
(* CountMembersWithIPPortProtocol.                                         *)
CountForDelete(l, m) ==
    LET marked == [status EXCEPT ![m] = "PENDING_DELETE"]
    IN  /\ flow[l].step = "next" /\ flow[l].op \in {"delete", "batch"}
        /\ m \in flow[l].left \cap flow[l].old
        /\ status' = marked
        /\ flow' = [flow EXCEPT ![l].step = "dissociate", ![l].cur = m,
                      ![l].seen = {n \in WithAddr(AddrOf[m]) : marked[n] \in CountedStatus}]
        /\ UNCHANGED <<rack, pool, device, hist>>

(* Mutant: any error of the first call is taken for NotFound.              *)
DissociateSwallows(l) ==
    /\ flow[l].step = "dissociate"
    /\ sg' \in {sg, sg \ {flow[l].cur}}
    /\ flow' = [flow EXCEPT ![l].step = IF sg' = sg THEN "row" ELSE "remove"]
    /\ UNCHANGED <<rack, db, servers, groups, hist>>

(* MemberDelete, first call: without the server or the binding it returns  *)
(* there, and a server that is left stays.                                 *)
Dissociate(l) ==
    LET m == flow[l].cur
    IN  /\ flow[l].step = "dissociate"
        /\ IF m \in sg
             THEN flow' = [flow EXCEPT ![l].step = "remove"]
             ELSE flow' = [flow EXCEPT ![l].step = "row", ![l].seen = {}]
        /\ Leak(AddrOf[m], m \notin sg /\ Cardinality(flow[l].seen) <= 1)
        /\ sg' = sg \ {m}
        /\ UNCHANGED <<rack, db, servers, groups, lost>>

(* Mutant: the member itself is not reckoned with.                         *)
RemoveServerOffByOne(l) ==
    LET m == flow[l].cur
    IN  /\ flow[l].step = "remove"
        /\ AddrOf[m] \in servers
        /\ IF flow[l].seen = {} THEN DropServer(AddrOf[m]) ELSE UNCHANGED <<device, leaked>>
        /\ flow' = [flow EXCEPT ![l].step = "row", ![l].seen = {}]
        /\ UNCHANGED <<rack, db, lost>>

(* MemberDelete, second call: the server, or the port, when the counts saw *)
(* no other member.                                                        *)
RemoveServer(l) ==
    LET m == flow[l].cur
        seen == flow[l].seen
        alone == Cardinality(seen) <= 1
        portAlone == Cardinality(seen \cap SamePort(m)) <= 1
    IN  /\ flow[l].step = "remove"
        /\ AddrOf[m] \in servers
        /\ \/ alone /\ DropServer(AddrOf[m])
           \/ ~alone /\ portAlone /\ DropPort(m) /\ UNCHANGED leaked
           \/ ~alone /\ ~portAlone /\ UNCHANGED <<device, leaked>>
        /\ lost' = lost \cup {n \in sg \ sg' : IF rack THEN n \notin seen
                                               ELSE status[n] # "ACTIVE"}
        /\ flow' = [flow EXCEPT ![l].step = "row", ![l].seen = {}]
        /\ UNCHANGED <<rack, db>>

(* DeleteMemberInDB.                                                       *)
DeleteRow(l) ==
    LET m == flow[l].cur
    IN  /\ flow[l].step = "row"
        /\ status' = [status EXCEPT ![m] = "NONE"]
        /\ flow' = [flow EXCEPT ![l].step = "next", ![l].left = @ \ {m}, ![l].cur = None]
        /\ lost' = lost \ {m}
        /\ UNCHANGED <<rack, pool, device, leaked>>

-----------------------------------------------------------------------------
(* MarkMemberPendingCreateInDB and CountMembersWithIP: the new member is   *)
(* itself not counted.                                                     *)
CountForCreate(l, m) ==
    /\ flow[l].step = "next"
    /\ flow[l].left \cap flow[l].old = {}
    /\ m \in flow[l].left \cap flow[l].new
    /\ status' = [status EXCEPT ![m] = "PENDING_CREATE"]
    /\ flow' = [flow EXCEPT ![l].step = "server", ![l].cur = m,
                            ![l].seen = CountedWithAddr(AddrOf[m]) \ {m}]
    /\ UNCHANGED <<rack, pool, device, hist>>

(* MemberCreate, first call: the server is updated, or created.            *)
PutServer(l) ==
    LET m == flow[l].cur
    IN  /\ flow[l].step = "server"
        /\ servers' = servers \cup {AddrOf[m]}
        /\ flow' = [flow EXCEPT ![l].step = "associate", ![l].seen = {},
                                ![l].made = @ \cup {[m |-> m, seen |-> flow[l].seen]}]
        /\ UNCHANGED <<rack, db, groups, sg, hist>>

(* MemberCreate, second call: the member is bound into the service group.  *)
Associate(l) ==
    LET m == flow[l].cur
    IN  /\ flow[l].step = "associate"
        /\ AddrOf[m] \in servers
        /\ PoolOf[m] \in groups
        /\ sg' = sg \cup {m}
        /\ lost' = lost \ {m}
        /\ flow' = [flow EXCEPT ![l].step = "activate"]
        /\ UNCHANGED <<rack, db, servers, groups, leaked>>

(* Mutant: the operating status is written instead.                        *)
ActivateOnline(l) ==
    /\ flow[l].step = "activate"
    /\ status' = [status EXCEPT ![flow[l].cur] = "ONLINE"]
    /\ flow' = [flow EXCEPT ![l].step = "next", ![l].left = @ \ {flow[l].cur}, ![l].cur = None]
    /\ UNCHANGED <<rack, pool, device, hist>>

(* MarkMemberActiveInDB.                                                   *)
Activate(l) ==
    LET m == flow[l].cur
    IN  /\ flow[l].step = "activate"
        /\ status' = [status EXCEPT ![m] = "ACTIVE"]
        /\ flow' = [flow EXCEPT ![l].step = "next", ![l].left = @ \ {m}, ![l].cur = None]
        /\ UNCHANGED <<rack, pool, device, hist>>

(* MarkMemberPendingUpdateInDB, MemberUpdate and MarkMemberActiveInDB: a   *)
(* server that is not found is no error, and no binding is looked at.      *)
UpdateServer(l, m) ==
    /\ flow[l].step = "next"
    /\ flow[l].left \cap (flow[l].old \cup flow[l].new) = {}
    /\ m \in flow[l].left
    /\ status' = [status EXCEPT ![m] = "ACTIVE"]
    /\ flow' = [flow EXCEPT ![l].left = @ \ {m}]
    /\ UNCHANGED <<rack, pool, device, hist>>

(* MarkPoolActiveInDB and MarkLBAndListenersActiveInDB.                    *)
Finish(l) ==
    /\ flow[l].step = "next"
    /\ flow[l].op # "pool"
    /\ flow[l].left = {}
    /\ flow' = [flow EXCEPT ![l] = Idle]
    /\ pool' = [pool EXCEPT ![flow[l].pool] = "ACTIVE"]
    /\ UNCHANGED <<rack, status, device, hist>>

-----------------------------------------------------------------------------
(* PoolCountforIP and CountMembersWithIPPortProtocol.                      *)
CountForPool(l, m) ==
    /\ flow[l].step = "next"
    /\ flow[l].op = "pool"
    /\ m \in flow[l].left
    /\ flow' = [flow EXCEPT ![l].step = "poolremove", ![l].cur = m,
                            ![l].seen = CountedWithAddr(AddrOf[m])]
    /\ UNCHANGED <<rack, db, device, hist>>

(* MemberDeletePool: an ACOS error is swallowed.                           *)
RemovePoolServer(l) ==
    LET m == flow[l].cur
        seen == flow[l].seen
        alone == Cardinality(PoolsOf(seen)) <= 1
        portAlone == Cardinality(seen \cap SamePort(m)) <= 1
        gone == {n \in seen \ MembersOf(flow[l].pool) : \/ status[n] = "NONE"
                                                      \/ flow[LbOfMember(n)].op = "pool"}
    IN  /\ flow[l].step = "poolremove"
        /\ \/ alone /\ DropServer(AddrOf[m])
           \/ ~alone /\ portAlone /\ DropPort(m) /\ Leak(AddrOf[m], gone # {})
           \/ Leak(AddrOf[m], alone \/ gone # {}) /\ UNCHANGED device
        /\ lost' = lost \cup {n \in sg \ sg' : \/ n \notin seen
                                               \/ m \notin seen
                                               \/ PoolOf[n] = PoolOf[m]}
        /\ flow' = [flow EXCEPT ![l].step = "next", ![l].left = @ \ {m},
                                ![l].cur = None, ![l].seen = {}]
        /\ UNCHANGED <<rack, db>>

(* PoolDelete: the service group goes with its bindings.                   *)
DeleteGroup(l) ==
    LET p == flow[l].pool
    IN  /\ flow[l].step = "next"
        /\ flow[l].op = "pool"
        /\ flow[l].left = {}
        /\ p \in groups
        /\ groups' = groups \ {p}
        /\ sg' = sg \ MembersOf(p)
        /\ lost' = lost \cup Present(p)
        /\ flow' = [flow EXCEPT ![l].step = "rows"]
        /\ UNCHANGED <<rack, db, servers, leaked>>

(* DeletePoolInDB: the members' rows go with the row of the pool.          *)
DeletePoolRows(l) ==
    LET p == flow[l].pool
    IN  /\ flow[l].step = "rows"
        /\ pool' = [pool EXCEPT ![p] = "DELETED"]
        /\ status' = [m \in Members |-> IF PoolOf[m] = p THEN "NONE" ELSE status[m]]
        /\ flow' = [flow EXCEPT ![l] = Idle]
        /\ lost' = lost \ MembersOf(p)
        /\ UNCHANGED <<rack, device, leaked>>

-----------------------------------------------------------------------------
(* A task of the flow raises: a device call or a database call fails.      *)
(* MemberCreate is reverted also when it is the task that failed; the      *)
(* tasks between the count and MemberCreate leave nothing to revert.       *)
Fail(l) ==
    /\ Running(l)
    /\ flow[l].step # "revert"
    /\ \E made \in {flow[l].made} \cup
                   IF flow[l].step = "server"
                     THEN {flow[l].made \cup {[m |-> flow[l].cur, seen |-> flow[l].seen]}}
                     ELSE {} :
         flow' = [flow EXCEPT ![l].step = "revert", ![l].made = made,
                              ![l].cur = None, ![l].seen = {}]
    /\ IF flow[l].step = "remove"
         THEN Leak(AddrOf[flow[l].cur], Cardinality(flow[l].seen) <= 1)
         ELSE UNCHANGED leaked
    /\ UNCHANGED <<rack, db, device, lost>>

(* MemberCreate.revert: the server is deleted under its default name when  *)
(* the count was at most one; an error is logged.                          *)
RevertCreate(l) ==
    /\ flow[l].step = "revert"
    /\ \E e \in flow[l].made :
         /\ flow' = [flow EXCEPT ![l].made = @ \ {e}]
         /\ \/ Cardinality(e.seen) <= 1 /\ ~NlbaasMemberNames /\ DropServer(AddrOf[e.m])
            \/ Leak(AddrOf[e.m], Cardinality(e.seen) <= 1) /\ UNCHANGED device
    /\ lost' = lost \cup (sg \ sg')
    /\ UNCHANGED <<rack, db>>

(* The reverts end with the tasks that were executed first.                *)
Reverted(l) ==
    /\ flow[l].step = "revert"
    /\ flow[l].made = {}
    /\ EndInError(l)

-----------------------------------------------------------------------------
Api ==
    \/ \E m \in Members : CreateMember(m) \/ DeleteMember(m) \/ UpdateMember(m)
    \/ \E p \in Pools : \/ DeletePool(p)
                        \/ \E old, new \in SUBSET MembersOf(p) : BatchUpdate(p, old, new)

DeleteStep(l) ==
    \/ \E m \in Members : CountForDelete(l, m)
    \/ Dissociate(l) \/ RemoveServer(l) \/ DeleteRow(l)

CreateStep(l) ==
    \/ \E m \in Members : CountForCreate(l, m)
    \/ PutServer(l) \/ Associate(l) \/ Activate(l)

UpdateStep(l) == \E m \in Members : UpdateServer(l, m)

PoolMemberStep(l) == RemovePoolServer(l) \/ \E m \in Members : CountForPool(l, m)

PoolStep(l) == PoolMemberStep(l) \/ DeleteGroup(l) \/ DeletePoolRows(l)

(* The flows of a vThunder.                                                *)
VThunderFlow(l) == ~rack /\ (DeleteStep(l) \/ CreateStep(l) \/ PoolStep(l))

(* Those of a hardware Thunder do the same to servers and members.         *)
RackDeleteFlow(l) == rack /\ DeleteStep(l)
RackCreateFlow(l) == rack /\ CreateStep(l)
RackPoolFlow(l) == rack /\ PoolStep(l)

Next ==
    \/ Api
    \/ \E l \in LBs :
         \/ Begin(l) \/ BusyTimeout(l) \/ AbandonBatch(l)
         \/ VThunderFlow(l)
         \/ RackDeleteFlow(l) \/ RackCreateFlow(l) \/ RackPoolFlow(l)
         \/ UpdateStep(l)
         \/ Finish(l) \/ Fail(l) \/ RevertCreate(l) \/ Reverted(l)

Spec == Init /\ [][Next]_vars

-----------------------------------------------------------------------------
(* Every variable keeps to its type.                                       *)
TypeOK ==
    /\ rack \in BOOLEAN
    /\ status \in [Members -> MemberStatus]
    /\ pool \in [Pools -> {"ACTIVE", "ERROR", "DELETED"}]
    /\ servers \subseteq Addrs
    /\ groups \subseteq Pools
    /\ sg \subseteq Members
    /\ flow \in [LBs -> Flow]
    /\ lost \subseteq Members
    /\ leaked \subseteq Addrs

(* A member that is ACTIVE, with no request on its load balancer, is bound *)
(* on the device, unless a flow that did not count it took its server, its *)
(* creation or deletion failed before, or a failed creation took it: on a  *)
(* vThunder the deletion of a member never takes it from an ACTIVE one.    *)
ActiveMemberServed ==
    \A m \in Members :
        status[m] = "ACTIVE" /\ flow[LbOfMember(m)].step = "idle" => m \in sg \cup lost

(* On a vThunder, a server whose last member is gone is gone, but for the  *)
(* ways in which a flow leaves one behind (Leak): also while flows run, no *)
(* flow takes the last row of an address before the server.                *)
NoOrphanServer ==
    ~rack =>
        \A a \in servers : a \in leaked \/ \E m \in WithAddr(a) : status[m] # "NONE"

(* A member without a row gets no traffic: no failure, race or batch       *)
(* deletes the row and leaves the binding.                                 *)
DeletedMemberLeavesDevice == \A m \in Members : status[m] = "NONE" => m \notin sg

(* A creation that is reverted, and whose count saw another member with    *)
(* the address, unbinds nobody else.                                       *)
FailedCreateSparesOthers ==
    [][\A l \in LBs : RevertCreate(l) =>
         \E e \in flow[l].made : e.seen # {} => sg \ sg' \subseteq {e.m}]_vars

=============================================================================

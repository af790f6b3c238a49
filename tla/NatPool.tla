------------------------------- MODULE NatPool -------------------------------
(***************************************************************************)
(* The NAT pool of a flavor, shared by the members of a subnet.            *)
(*                                                                         *)
(* The addresses of a NAT pool are reserved by one neutron port for each   *)
(* subnet with members.  The nat_pool row of the pool and the subnet names *)
(* the port and counts the members that use it.  A creation reads the row, *)
(* then reserves the port if there was none, then writes the row; a        *)
(* deletion reads the row, then releases the port if the count was one,    *)
(* then writes or deletes the row.  No revert takes any of it back, and    *)
(* whether a member uses the pool is asked of its listener's virtual port, *)
(* at its creation and again at its deletion.                              *)
(*                                                                         *)
(* The module has one pool name and one subnet (rows of others have        *)
(* nothing to do with each other), with addresses of the subnet, and load  *)
(* balancers with one pool of members each.  Member updates do not touch   *)
(* the row.  What the flows do to servers is in MemberServers.             *)
(***************************************************************************)
EXTENDS Naturals, FiniteSets

CONSTANTS
    LBs, Members,
    LbOf,       \* the load balancer of a member
    MaxPorts,   \* bound: the ports ever reserved
    None

ASSUME ShapeAssumption ==
    /\ LbOf \in [Members -> LBs]
    /\ IsFiniteSet(Members)
    /\ MaxPorts \in Nat
    /\ None \notin Members

VARIABLES
    busy,     \* the flows take one busy lock: one project, with a vThunder
    natted,   \* on the device: the load balancers whose virtual port has the pool
    status,   \* of each member: its row is missing, ACTIVE or something else
    row,      \* the nat_pool row
    ports,    \* in neutron: the ports that reserve the addresses
    made,     \* the number of ports reserved so far
    flow,     \* the request of each load balancer
    users,    \* history: the members with a reference
    blame     \* history: what may have made the count wrong

vars == <<busy, natted, status, row, ports, made, flow, users, blame>>

NoRow == [port |-> 0, count |-> 0]

(* drop, add: the members to delete and to create; nat, work: those whose  *)
(* reference, and those whose server is still to be handled; cur: the      *)
(* member in work; read: the row it read; port: the port it reserved.      *)
Request(op, drop, add) ==
    [op |-> op, drop |-> drop, add |-> add, nat |-> drop \cup add, work |-> drop \cup add,
     cur |-> None, read |-> NoRow, port |-> 0, step |-> "queued"]
Idle == [Request("none", {}, {}) EXCEPT !.step = "idle"]

MembersOf(l) == {m \in Members : LbOf[m] = l}
Present(l) == {m \in MembersOf(l) : status[m] # "NONE"}
Inside(l) == flow[l].step \in {"release", "entry", "reserve", "update"}

Init ==
    /\ busy \in BOOLEAN
    /\ natted = LBs
    /\ status = [m \in Members |-> "NONE"]
    /\ row = NoRow
    /\ ports = {} /\ made = 0
    /\ flow = [l \in LBs |-> Idle]
    /\ users = {} /\ blame = {}

-----------------------------------------------------------------------------
(* The Octavia API: one request for a load balancer at a time; members are *)
(* pending, those of a pool to delete are left as they are.                *)
Admit(l, request) ==
    /\ flow[l] = Idle
    /\ flow' = [flow EXCEPT ![l] = request]
    /\ status' = [m \in Members |->
                     IF request.op # "pool" /\ m \in request.nat THEN "OTHER" ELSE status[m]]
    /\ UNCHANGED <<busy, natted, row, ports, made, users, blame>>

CreateMember(m) == status[m] = "NONE" /\ Admit(LbOf[m], Request("create", {}, {m}))
DeleteMember(m) == status[m] # "NONE" /\ Admit(LbOf[m], Request("delete", {m}, {}))
BatchUpdate(l, drop, add) ==
    /\ drop \subseteq Present(l) /\ add \subseteq MembersOf(l) \ Present(l)
    /\ drop \cup add # {}
    /\ Admit(l, Request("batch", drop, add))
DeletePool(l) == Admit(l, Request("pool", Present(l), {}))

(* A listener is attached to the pool, or deleted.                         *)
ChangeListener(l) ==
    /\ flow[l] = Idle
    /\ natted' = IF l \in natted THEN natted \ {l} ELSE natted \cup {l}
    /\ UNCHANGED <<busy, status, row, ports, made, flow, users, blame>>

(* Creations, deletions and batches run alone, pool deletions together; no *)
(* lock is taken for a hardware Thunder, none is common to two projects.   *)
Begin(l) ==
    /\ flow[l].step = "queued"
    /\ \A k \in LBs \ {l} :
          busy => \/ flow[k].step \in {"idle", "queued"}
                  \/ flow[k].op = "pool" /\ flow[l].op = "pool"
    /\ flow' = [flow EXCEPT ![l].step = "next"]
    /\ UNCHANGED <<busy, natted, status, row, ports, made, users, blame>>

-----------------------------------------------------------------------------
(* A batch on a vThunder takes the references of its new members after all *)
(* of them are ACTIVE; every other flow before it looks at the server.     *)
Late(l, m) == busy /\ flow[l].op = "batch" /\ m \in flow[l].add
NatTurn(l, m) ==
    /\ flow[l].step = "next" /\ m \in flow[l].nat
    /\ IF Late(l, m) THEN flow[l].work = {} ELSE flow[l].work \subseteq flow[l].nat
    /\ m \in flow[l].add => flow[l].work \cap flow[l].drop = {}

NatDone(l) ==
    flow' = [flow EXCEPT ![l].step = "next", ![l].nat = @ \ {flow[l].cur}, ![l].cur = None,
                         ![l].read = NoRow, ![l].port = 0]

(* MemberFindNatPool and GetNatPoolEntry.  Where the virtual port has no   *)
(* NAT pool, the tasks that follow do nothing.                             *)
GetNatPoolEntry(l, m) ==
    /\ NatTurn(l, m)
    /\ IF l \in natted
         THEN /\ flow' = [flow EXCEPT ![l].cur = m, ![l].read = row,
                              ![l].step = IF m \in flow[l].drop THEN "release" ELSE "reserve"]
              /\ blame' = blame \cup
                    (IF \E k \in LBs \ {l} : Inside(k) THEN {"overlap"} ELSE {}) \cup
                    (IF m \in flow[l].drop \ users /\ row # NoRow THEN {"unpaired"} ELSE {})
         ELSE flow' = [flow EXCEPT ![l].nat = @ \ {m}] /\ UNCHANGED blame
    /\ UNCHANGED <<busy, natted, status, row, ports, made, users>>

(* Mutants: the count is not looked at; the test is off by one.            *)
ReleaseAlways(l) ==
    /\ flow[l].step = "release"
    /\ flow' = [flow EXCEPT ![l].step = "entry"]
    /\ ports' = ports \ {flow[l].read.port}
    /\ UNCHANGED <<busy, natted, status, row, made, users, blame>>
ReleaseAtZero(l) ==
    /\ flow[l].step = "release"
    /\ flow' = [flow EXCEPT ![l].step = "entry"]
    /\ UNCHANGED <<busy, natted, status, row, ports, made, users, blame>>

(* ReleaseSubnetAddressForMember: an error of delete_port is logged, and   *)
(* the port stays.                                                         *)
ReleaseSubnetAddress(l) ==
    /\ flow[l].step = "release"
    /\ flow' = [flow EXCEPT ![l].step = "entry"]
    /\ \/ flow[l].read.count = 1 /\ ports' = ports \ {flow[l].read.port} /\ UNCHANGED blame
       \/ flow[l].read.count = 1 /\ UNCHANGED ports /\ blame' = blame \cup {"port"}
       \/ flow[l].read.count # 1 /\ UNCHANGED <<ports, blame>>
    /\ UNCHANGED <<busy, natted, status, row, made, users>>

(* Mutant: the row is kept until its count is zero.                        *)
DeleteEntryAtZero(l) ==
    LET read == flow[l].read
    IN  /\ flow[l].step = "entry"
        /\ row' = IF read # NoRow /\ row.port = read.port
                    THEN [row EXCEPT !.count = read.count - 1] ELSE row
        /\ users' = users \ {flow[l].cur}
        /\ NatDone(l)
        /\ UNCHANGED <<busy, natted, status, ports, made, blame>>

(* DeleteNatPoolEntry: the count is written from what was read; a row that *)
(* is gone is no error.                                                    *)
DeleteNatPoolEntry(l) ==
    LET read == flow[l].read
    IN  /\ flow[l].step = "entry"
        /\ row' = IF read = NoRow \/ row.port # read.port THEN row
                  ELSE IF read.count > 1 THEN [row EXCEPT !.count = read.count - 1] ELSE NoRow
        /\ users' = users \ {flow[l].cur}
        /\ NatDone(l)
        /\ UNCHANGED <<busy, natted, status, ports, made, blame>>

(* ReserveSubnetAddressForMember: neutron refuses a second port with the   *)
(* addresses, and the task raises.                                         *)
ReserveSubnetAddress(l) ==
    /\ flow[l].step = "reserve"
    /\ \/ /\ flow[l].read # NoRow
          /\ flow' = [flow EXCEPT ![l].step = "update"]
          /\ UNCHANGED <<ports, made>>
       \/ /\ flow[l].read = NoRow /\ ports = {} /\ made < MaxPorts
          /\ made' = made + 1 /\ ports' = {made + 1}
          /\ flow' = [flow EXCEPT ![l].step = "update", ![l].port = made + 1]
    /\ UNCHANGED <<busy, natted, status, row, users, blame>>

(* UpdateNatPoolDB: a second row of the pool and the subnet is refused.    *)
UpdateNatPoolDB(l) ==
    LET read == flow[l].read
    IN  /\ flow[l].step = "update"
        /\ \/ read = NoRow /\ row = NoRow /\ row' = [port |-> flow[l].port, count |-> 1]
           \/ read # NoRow /\ row' = IF row.port = read.port
                                       THEN [row EXCEPT !.count = read.count + 1] ELSE row
        /\ users' = users \cup {flow[l].cur}
        /\ NatDone(l)
        /\ UNCHANGED <<busy, natted, status, ports, made, blame>>

-----------------------------------------------------------------------------
(* The rows of members go; one that kept its reference never gives it back.*)
DeleteRows(gone) ==
    /\ status' = [m \in Members |-> IF m \in gone THEN "NONE" ELSE status[m]]
    /\ blame' = IF gone \cap users # {} THEN blame \cup {"unpaired"} ELSE blame

(* MemberDelete and DeleteMemberInDB, MemberCreate and MarkMemberActiveInDB, *)
(* or MemberDeletePool.                                                    *)
Work(l, m) ==
    /\ flow[l].step = "next" /\ m \in flow[l].work
    /\ IF Late(l, m) THEN flow[l].work \cap flow[l].drop = {} ELSE m \notin flow[l].nat
    /\ flow' = [flow EXCEPT ![l].work = @ \ {m}]
    /\ \/ flow[l].op = "pool" /\ UNCHANGED <<status, blame>>
       \/ flow[l].op # "pool" /\ m \in flow[l].drop /\ DeleteRows({m})
       \/ m \in flow[l].add /\ status' = [status EXCEPT ![m] = "ACTIVE"] /\ UNCHANGED blame
    /\ UNCHANGED <<busy, natted, row, ports, made, users>>

(* The end of the flow; DeletePoolInDB takes the rows of the members along.*)
Finish(l) ==
    /\ flow[l].step = "next" /\ flow[l].nat = {} /\ flow[l].work = {}
    /\ DeleteRows(IF flow[l].op = "pool" THEN flow[l].drop ELSE {})
    /\ flow' = [flow EXCEPT ![l] = Idle]
    /\ UNCHANGED <<busy, natted, row, ports, made, users>>

(* A task raises, or the request was refused as busy: its members go to    *)
(* ERROR.  A batch that fails before its first group stays pending.        *)
Fail(l) ==
    /\ flow[l].step # "idle" /\ <<flow[l].op, flow[l].step>> # <<"batch", "queued">>
    /\ status' = [m \in Members |->
                     IF /\ flow[l].op # "pool" /\ m \in flow[l].drop \cup flow[l].add
                        /\ status[m] # "NONE"
                       THEN "OTHER" ELSE status[m]]
    /\ blame' = IF \/ flow[l].step = "update" /\ flow[l].port # 0
                   \/ flow[l].step = "entry" /\ flow[l].read.count = 1
                  THEN blame \cup {"port"} ELSE blame
    /\ flow' = [flow EXCEPT ![l] = Idle]
    /\ UNCHANGED <<busy, natted, row, ports, made, users>>

-----------------------------------------------------------------------------
(* The subflow of a creation, and the tasks of a deletion.                 *)
Take(l) ==
    \/ \E m \in flow[l].add : GetNatPoolEntry(l, m)
    \/ ReserveSubnetAddress(l) \/ UpdateNatPoolDB(l)
GiveBack(l) ==
    \/ \E m \in flow[l].drop : GetNatPoolEntry(l, m)
    \/ ReleaseSubnetAddress(l) \/ DeleteNatPoolEntry(l)

Api ==
    \/ \E m \in Members : CreateMember(m) \/ DeleteMember(m)
    \/ \E l \in LBs : \/ DeletePool(l) \/ ChangeListener(l)
                      \/ \E drop, add \in SUBSET MembersOf(l) : BatchUpdate(l, drop, add)

Worker(l) ==
    \/ Begin(l) \/ Take(l) \/ GiveBack(l) \/ Finish(l) \/ Fail(l)
    \/ \E m \in Members : Work(l, m)

Next == Api \/ \E l \in LBs : Worker(l)

Spec == Init /\ [][Next]_vars

-----------------------------------------------------------------------------
Rows == [port : 1..MaxPorts, count : Nat \ {0}]
Flows ==
    [op : {"none", "create", "delete", "batch", "pool"},
     drop : SUBSET Members, add : SUBSET Members,
     nat : SUBSET Members, work : SUBSET Members,
     cur : Members \cup {None}, read : Rows \cup {NoRow}, port : 0..MaxPorts,
     step : {"idle", "queued", "next", "release", "entry", "reserve", "update"}]

(* Every variable keeps to its type; a row is there only with a count.     *)
TypeOK ==
    /\ busy \in BOOLEAN
    /\ natted \subseteq LBs
    /\ status \in [Members -> {"NONE", "ACTIVE", "OTHER"}]
    /\ row \in Rows \cup {NoRow}
    /\ ports \subseteq 1..MaxPorts
    /\ made \in 0..MaxPorts
    /\ flow \in [LBs -> Flows]
    /\ users \subseteq Members
    /\ blame \subseteq {"overlap", "unpaired", "port"}

(* The row counts the members that use the pool, and while there are any   *)
(* the port reserves its addresses: only the deletion of the last of them  *)
(* releases it.  Excepted is what follows after two flows were between     *)
(* reading and writing the row at once, after a member gave back what it   *)
(* had not taken or never gave it back, or a call failed half-way.         *)
UsersKeepPool ==
    blame = {} =>
        /\ row = NoRow <=> users = {}
        /\ row.count = Cardinality(users)
        /\ users # {} => \/ row.port \in ports
                         \/ \E l \in LBs : flow[l].step = "entry" /\ users = {flow[l].cur}

(* A port that no row names, and that blocks every later reservation, is   *)
(* about to be named, or a call failed between the port and the row.       *)
NoPortLeft ==
    "port" \notin blame =>
        \A p \in ports : row.port = p \/ \E l \in LBs : flow[l].port = p

=============================================================================

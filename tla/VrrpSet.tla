------------------------------ MODULE VrrpSet ------------------------------
(***************************************************************************)
(* VRRP-A set ids of the vThunder pairs (ACTIVE_STANDBY topology).  Pairs  *)
(* on the same management subnet must run under different set ids; the     *)
(* table vrrp_set keeps the one of each project.  A flow that creates the  *)
(* first load balancer of a project looks its set id up or chooses one     *)
(* (AddProjectSetIdDB) and configures both devices with it; a failover     *)
(* configures the device that replaces one of them with the stored id      *)
(* (GetProjectVRRPSetId); deleting the last load balancer drops the row    *)
(* (DeleteProjectSetIdDB).                                                 *)
(*                                                                         *)
(* The flows of one project exclude each other (module BusyLock): a        *)
(* project is one process here.  The flows of different projects do not,   *)
(* and the choice of an id reads and writes the table in two transactions. *)
(***************************************************************************)
EXTENDS Integers, FiniteSets

CONSTANTS
    Projects,    \* projects that use vThunder pairs
    Subnets,     \* management subnets amp_boot_network_list may start with
    MaxSetId,    \* set ids are 1 .. MaxSetId; 15 in the code
    HandleVrid   \* option handle_vrid: only then the row is deleted

ASSUME VrrpSetAssumption ==
    /\ MaxSetId \in Nat \ {0}
    /\ HandleVrid \in BOOLEAN

VARIABLES
    subnet,   \* amp_boot_network_list[0] of the running workers
    rows,     \* the table vrrp_set
    pc,       \* where the project's flow is; "none": no pair, "up": a pair runs
    set_id,   \* the flow's SET_ID; 0 before it is chosen
    device,   \* the set ids the two devices are configured with; 0: no device
    raced     \* history: {p, q} if q stored an id between the read and the
              \* store of p

vars == <<subnet, rows, pc, set_id, device, raced>>

Locations == {"none", "lookup", "read", "insert", "configure", "up",
              "unset", "remove", "error"}
Roles == {"MASTER", "BACKUP"}
AtRest == {"none", "up", "error"}

\* Every variable keeps to its type.
TypeOK ==
    /\ subnet \in Subnets
    /\ rows \subseteq [subnet : Subnets, project : Projects, id : 1..MaxSetId]
    /\ pc \in [Projects -> Locations]
    /\ set_id \in [Projects -> 0..MaxSetId]
    /\ device \in [Projects -> [Roles -> 0..MaxSetId]]
    /\ raced \subseteq SUBSET Projects

NoPair == [r \in Roles |-> 0]

Init ==
    /\ subnet \in Subnets
    /\ rows = {}
    /\ pc = [p \in Projects |-> "none"]
    /\ set_id = [p \in Projects |-> 0]
    /\ device = [p \in Projects |-> NoPair]
    /\ raced = {}

-----------------------------------------------------------------------------
(* The table.                                                              *)

RowsOf(p) == {r \in rows : r.project = p}

\* Slip: no fallback to a row of another subnet.
EntriesOnSubnet(p) == {r \in RowsOf(p) : r.subnet = subnet}

\* The rows the lookup of p's set id may return: that of the configured
\* subnet if there is one ("amp_boot_network_list may changed but thunder
\* already created with old subnet").
Entries(p) ==
    LET here == {r \in RowsOf(p) : r.subnet = subnet}
    IN  IF here # {} THEN here ELSE RowsOf(p)

\* Slips: one id too many; the number of rows in place of the ids they hold.
FreeIdsAndOne == (1..(MaxSetId + 1)) \ {r.id : r \in {s \in rows : s.subnet = subnet}}
FreeIdsByCount == (1..MaxSetId) \ (1..Cardinality({s \in rows : s.subnet = subnet}))

\* The ids no project of the subnet has: get_subnet_set_ids.
FreeIds == (1..MaxSetId) \ {r.id : r \in {s \in rows : s.subnet = subnet}}

Go(p, l) == pc' = [pc EXCEPT ![p] = l]
Choose(p, n) == set_id' = [set_id EXCEPT ![p] = n]

-----------------------------------------------------------------------------
(* Creating a pair.                                                        *)

\* A load balancer is created in a project that has no vThunder.
CreatePair(p) ==
    /\ pc[p] = "none"
    /\ Go(p, "lookup")
    /\ UNCHANGED <<subnet, rows, set_id, device, raced>>

\* AddProjectSetIdDB finds a row of the project, or has to choose an id.
LookupSetId(p) ==
    /\ pc[p] = "lookup"
    /\ \/ \E r \in Entries(p) : Choose(p, r.id) /\ Go(p, "configure")
       \/ Entries(p) = {} /\ Go(p, "read") /\ UNCHANGED set_id
    /\ UNCHANGED <<subnet, rows, device, raced>>

\* The smallest free id.  With none left NoFreeSetId is raised inside the try
\* block that logs and swallows it: the loop's last id is returned, unstored.
ReadSubnetSetIds(p) ==
    /\ pc[p] = "read"
    /\ \/ \E n \in FreeIds : /\ \A m \in FreeIds : n <= m
                            /\ Choose(p, n) /\ Go(p, "insert")
       \/ FreeIds = {} /\ Choose(p, MaxSetId) /\ Go(p, "configure")
    /\ UNCHANGED <<subnet, rows, device, raced>>

\* A database error in a read is swallowed too: set id 0 is returned.
ReadFails(p) ==
    /\ pc[p] \in {"lookup", "read"}
    /\ Choose(p, 0)
    /\ Go(p, "configure")
    /\ UNCHANGED <<subnet, rows, device, raced>>

\* Slip: the row is created with the default of the column.
DefaultId(p) == 0

StoredId(p) == set_id[p]

\* The row is created, or the error is swallowed and the id returned unstored.
InsertSetId(p) ==
    /\ pc[p] = "insert"
    /\ Go(p, "configure")
    /\ \/ /\ rows' = rows \cup {[subnet |-> subnet, project |-> p, id |-> StoredId(p)]}
          /\ raced' = raced \cup {{p, q} : q \in {x \in Projects \ {p} : pc[x] = "insert"}}
       \/ UNCHANGED <<rows, raced>>
    /\ UNCHANGED <<subnet, set_id, device>>

\* ConfigureVRRPMaster and ConfigureVRRPBackup; ACOS takes ids from 1 on.
ConfigurePair(p) ==
    /\ pc[p] = "configure"
    /\ set_id[p] > 0
    /\ device' = [device EXCEPT ![p] = [r \in Roles |-> set_id[p]]]
    /\ Choose(p, 0)
    /\ Go(p, "up")
    /\ UNCHANGED <<subnet, rows, raced>>

\* The flow fails and is reverted: the devices go, a stored row stays.
CreateFails(p) ==
    /\ pc[p] \in {"lookup", "configure"}
    /\ Choose(p, 0)
    /\ Go(p, "none")
    /\ UNCHANGED <<subnet, rows, device, raced>>

-----------------------------------------------------------------------------
(* A running pair.                                                         *)

\* Slip: the failover looks for the set id on the configured subnet only and
\* falls back to the default of ConfigureVRRPMaster.
DefaultFailoverId(p) ==
    IF EntriesOnSubnet(p) = {} THEN {1} ELSE {r.id : r \in EntriesOnSubnet(p)}

\* GetProjectVRRPSetId; without a row it raises and the failover is reverted.
FailoverIds(p) == {r.id : r \in Entries(p)}

\* Failover of one device: its replacement gets the stored id.  The load
\* balancers are PENDING_UPDATE meanwhile, so no other flow of p runs.
Failover(p, role) ==
    /\ pc[p] = "up"
    /\ \E n \in FailoverIds(p) : device' = [device EXCEPT ![p][role] = n]
    /\ UNCHANGED <<subnet, rows, pc, set_id, raced>>

\* Deleting the last load balancer, or trying again after a failed deletion.
DeletePair(p) ==
    /\ pc[p] \in {"up", "error"}
    /\ Go(p, "unset")
    /\ UNCHANGED <<subnet, rows, set_id, device, raced>>

\* DeleteProjectSetIdDB; a database error is swallowed.
UnsetSetId(p) ==
    /\ pc[p] = "unset"
    /\ Go(p, "remove")
    /\ \/ HandleVrid /\ rows' = rows \ RowsOf(p)
       \/ UNCHANGED rows
    /\ UNCHANGED <<subnet, set_id, device, raced>>

\* DeleteAmphoraeOnLoadBalancer deletes both devices; or a task on the way
\* fails: the devices run on with an id whose row may be gone.
RemovePair(p) ==
    /\ pc[p] = "remove"
    /\ \/ Go(p, "none") /\ device' = [device EXCEPT ![p] = NoPair]
       \/ Go(p, "error") /\ UNCHANGED device
    /\ UNCHANGED <<subnet, rows, set_id, raced>>

\* The workers are restarted with another amp_boot_network_list.
Reconfigure ==
    /\ \A p \in Projects : pc[p] \in AtRest
    /\ subnet' \in Subnets \ {subnet}
    /\ UNCHANGED <<rows, pc, set_id, device, raced>>

Next ==
    \/ \E p \in Projects :
          \/ CreatePair(p) \/ LookupSetId(p) \/ ReadSubnetSetIds(p) \/ ReadFails(p)
          \/ InsertSetId(p) \/ ConfigurePair(p) \/ CreateFails(p)
          \/ DeletePair(p) \/ UnsetSetId(p) \/ RemovePair(p)
    \/ \E p \in Projects, role \in Roles : Failover(p, role)
    \/ Reconfigure

Spec == Init /\ [][Next]_vars

-----------------------------------------------------------------------------
(* Properties.                                                             *)

\* A project has one set id, whatever management subnet the workers were
\* configured with when its pairs were created (AddProjectSetIdDB): were
\* there two, which one a failover finds would depend on the configuration.
OneSetIdPerProject ==
    \A r, s \in rows : r.project = s.project => r = s

\* Both devices of a running pair are in the same set, also after failovers,
\* restarts with another subnet, and pairs deleted and created again.
PairSharesOneSet ==
    \A p \in Projects : pc[p] = "up" => device[p]["MASTER"] = device[p]["BACKUP"]

\* Two projects hold the same id on a subnet only if their flows chose at the
\* same time: the read of the taken ids and the store are two transactions,
\* and the table has no constraint on (mgmt_subnet, set_id).
SharedSetIdsWereRaced ==
    \A r, s \in rows :
        r # s /\ r.subnet = s.subnet /\ r.id = s.id => {r.project, s.project} \in raced

=============================================================================

--------------------------- MODULE VrrpSetProofs ---------------------------
(***************************************************************************)
(* Theorems about VrrpSet, for every set of projects and subnets and every *)
(* number of set ids.  The inductive invariant ties the flows' locals to   *)
(* the table: a flow that chooses an id has no row yet (NoRowYet), a flow  *)
(* that configures devices does it with the stored id if there is one      *)
(* (ConfiguresStoredId), the devices of a running pair have the stored id  *)
(* (DevicesMatchRow), and an id about to be stored is taken only if it was *)
(* taken after the flow's read (ChosenIdIsFree).                           *)
(***************************************************************************)
EXTENDS VrrpSet, TLAPS

NoRowYet ==
    \A p \in Projects, r \in rows : pc[p] \in {"read", "insert"} => r.project # p

ConfiguresStoredId ==
    \A p \in Projects, r \in rows :
        pc[p] = "configure" /\ r.project = p => set_id[p] = 0 \/ set_id[p] = r.id

DevicesMatchRow ==
    \A p \in Projects, r \in rows :
        pc[p] = "up" /\ r.project = p => \A role \in Roles : device[p][role] = r.id

ChosenIdIsFree ==
    \A p \in Projects, r \in rows :
        pc[p] = "insert" /\ r.subnet = subnet /\ r.id = set_id[p] => {p, r.project} \in raced

ChosenIdIsLegal == \A p \in Projects : pc[p] = "insert" => set_id[p] \in 1..MaxSetId

IInv ==
    /\ TypeOK
    /\ NoRowYet
    /\ ConfiguresStoredId
    /\ DevicesMatchRow
    /\ ChosenIdIsFree
    /\ ChosenIdIsLegal
    /\ OneSetIdPerProject
    /\ PairSharesOneSet
    /\ SharedSetIdsWereRaced

\* The lookup of a set id returns a row of the project.
LEMMA EntriesAreOwnRows ==
    ASSUME NEW p \in Projects, NEW r \in Entries(p)
    PROVE  r \in rows /\ r.project = p
BY DEF Entries, RowsOf

LEMMA InitIInv == Init => IInv
<1> SUFFICES ASSUME Init PROVE IInv
    OBVIOUS
<1> USE DEF Init
<1>1. TypeOK
    BY VrrpSetAssumption DEF TypeOK, Locations, Roles, NoPair
<1>2. NoRowYet /\ ConfiguresStoredId /\ DevicesMatchRow /\ ChosenIdIsFree
    BY DEF NoRowYet, ConfiguresStoredId, DevicesMatchRow, ChosenIdIsFree
<1>3. ChosenIdIsLegal
    BY DEF ChosenIdIsLegal
<1>4. OneSetIdPerProject /\ PairSharesOneSet /\ SharedSetIdsWereRaced
    BY DEF OneSetIdPerProject, PairSharesOneSet, SharedSetIdsWereRaced
<1> QED
    BY <1>1, <1>2, <1>3, <1>4 DEF IInv

\* Storing the chosen id.
LEMMA InsertKeepsIInv ==
    ASSUME IInv, NEW p \in Projects, InsertSetId(p)
    PROVE  IInv'
<1> USE DEF IInv, InsertSetId, Go, StoredId
<1> DEFINE new == [subnet |-> subnet, project |-> p, id |-> set_id[p]]
<1>1. pc' = [pc EXCEPT ![p] = "configure"] /\ pc[p] = "insert" /\ pc \in [Projects -> Locations]
    BY DEF TypeOK
<1>2. UNCHANGED <<subnet, set_id, device>>
    OBVIOUS
<1>3. \/ UNCHANGED <<rows, raced>>
      \/ /\ rows' = rows \cup {new}
         /\ raced' = raced \cup {{p, q} : q \in {x \in Projects \ {p} : pc[x] = "insert"}}
    OBVIOUS
<1>4. new \in [subnet : Subnets, project : Projects, id : 1..MaxSetId]
    BY <1>1 DEF TypeOK, ChosenIdIsLegal
<1>5. raced \subseteq raced'
    BY <1>3
<1>6. rows \subseteq rows' /\ \A r \in rows' : r \in rows \/ r = new
    BY <1>3
<1>7. TypeOK'
  <2>0. \A q \in Projects : {p, q} \in SUBSET Projects
      OBVIOUS
  <2>1. raced' \subseteq SUBSET Projects
    <3>1. CASE UNCHANGED raced
        BY <3>1 DEF TypeOK
    <3>2. CASE raced' = raced \cup {{p, q} : q \in {x \in Projects \ {p} : pc[x] = "insert"}}
      <4>1. SUFFICES ASSUME NEW e \in raced' PROVE e \in SUBSET Projects
          OBVIOUS
      <4>2. CASE e \in raced
          BY <4>2 DEF TypeOK
      <4>3. CASE e \notin raced
        <5>1. PICK q \in {x \in Projects \ {p} : pc[x] = "insert"} : e = {p, q}
            BY <3>2, <4>1, <4>3
        <5> QED
            BY <5>1, <2>0
      <4> QED
          BY <4>2, <4>3
    <3> QED
        BY <3>1, <3>2, <1>3
  <2>2. rows' \subseteq [subnet : Subnets, project : Projects, id : 1..MaxSetId]
      BY <1>4, <1>6 DEF TypeOK
  <2> QED
      BY <1>1, <1>2, <2>1, <2>2 DEF TypeOK, Locations
<1>8. NoRowYet'
    BY <1>1, <1>6 DEF NoRowYet
<1>9. ConfiguresStoredId'
    BY <1>1, <1>2, <1>6 DEF ConfiguresStoredId, NoRowYet
<1>10. DevicesMatchRow'
    BY <1>1, <1>2, <1>6 DEF DevicesMatchRow
<1>11. ChosenIdIsFree'
  <2> SUFFICES ASSUME NEW q \in Projects, NEW r \in rows',
                      pc'[q] = "insert", r.subnet = subnet, r.id = set_id[q]
               PROVE  {q, r.project} \in raced'
      BY <1>2 DEF ChosenIdIsFree
  <2>1. q # p /\ pc[q] = "insert"
      BY <1>1
  <2>2. CASE r \in rows
      BY <2>1, <2>2, <1>5 DEF ChosenIdIsFree
  <2>3. CASE r = new /\ r \notin rows
    <3>1. raced' = raced \cup {{p, x} : x \in {x \in Projects \ {p} : pc[x] = "insert"}}
        BY <1>3, <2>3
    <3>2. {p, q} \in raced'
        BY <3>1, <2>1
    <3>3. r.project = p /\ {q, p} = {p, q}
        BY <2>3
    <3> QED
        BY <3>2, <3>3
  <2> QED
      BY <2>2, <2>3, <1>6
<1>12. ChosenIdIsLegal'
    BY <1>1, <1>2 DEF ChosenIdIsLegal
<1>13. OneSetIdPerProject'
    BY <1>1, <1>6 DEF OneSetIdPerProject, NoRowYet
<1>14. PairSharesOneSet'
    BY <1>1, <1>2 DEF PairSharesOneSet
<1>15. SharedSetIdsWereRaced'
  <2> SUFFICES ASSUME NEW r \in rows', NEW s \in rows',
                      r # s, r.subnet = s.subnet, r.id = s.id
               PROVE  {r.project, s.project} \in raced'
      BY DEF SharedSetIdsWereRaced
  <2>1. CASE r \in rows /\ s \in rows
      BY <2>1, <1>5 DEF SharedSetIdsWereRaced
  <2>2. CASE r = new /\ s \in rows
      BY <2>2, <1>1, <1>5 DEF ChosenIdIsFree
  <2>3. CASE s = new /\ r \in rows
    <3>1. {p, r.project} \in raced'
        BY <2>3, <1>1, <1>5 DEF ChosenIdIsFree
    <3>2. s.project = p /\ {r.project, p} = {p, r.project}
        BY <2>3
    <3> QED
        BY <3>1, <3>2
  <2> QED
      BY <2>1, <2>2, <2>3, <1>6
<1> QED
    BY <1>7, <1>8, <1>9, <1>10, <1>11, <1>12, <1>13, <1>14, <1>15

\* Every other step stores no row.
LEMMA StepKeepsIInv ==
    ASSUME IInv, NEW p \in Projects,
           \/ CreatePair(p) \/ LookupSetId(p) \/ ReadSubnetSetIds(p) \/ ReadFails(p)
           \/ ConfigurePair(p) \/ CreateFails(p)
           \/ DeletePair(p) \/ UnsetSetId(p) \/ RemovePair(p)
    PROVE  IInv'
<1> USE DEF Go, Choose
<1>t. TypeOK /\ pc \in [Projects -> Locations] /\ set_id \in [Projects -> 0..MaxSetId]
    BY DEF IInv, TypeOK
<1>1. CASE CreatePair(p)
    BY <1>1, <1>t DEF CreatePair, IInv, TypeOK, Locations, NoRowYet, ConfiguresStoredId,
       DevicesMatchRow, ChosenIdIsFree, ChosenIdIsLegal, OneSetIdPerProject,
       PairSharesOneSet, SharedSetIdsWereRaced
<1>2. CASE LookupSetId(p)
  <2>1. CASE \E r \in Entries(p) : Choose(p, r.id) /\ Go(p, "configure")
    <3>1. PICK r \in Entries(p) : Choose(p, r.id) /\ Go(p, "configure")
        BY <2>1
    <3>2. r \in rows /\ r.project = p
        BY <3>1, EntriesAreOwnRows
    <3>3. set_id' = [set_id EXCEPT ![p] = r.id] /\ pc' = [pc EXCEPT ![p] = "configure"]
          /\ UNCHANGED <<subnet, rows, device, raced>>
        BY <3>1, <1>2 DEF LookupSetId
    <3>4. r.id \in 1..MaxSetId
        BY <3>2, <1>t DEF TypeOK
    <3>5. TypeOK'
        BY <3>3, <3>4, <1>t DEF TypeOK, Locations
    <3>6. ConfiguresStoredId'
        BY <3>2, <3>3, <1>t DEF IInv, ConfiguresStoredId, OneSetIdPerProject
    <3> QED
        BY <3>3, <3>5, <3>6, <1>t DEF IInv, NoRowYet,
           DevicesMatchRow, ChosenIdIsFree, ChosenIdIsLegal, OneSetIdPerProject,
           PairSharesOneSet, SharedSetIdsWereRaced
  <2>2. CASE Entries(p) = {} /\ Go(p, "read") /\ UNCHANGED set_id
    <3>1. RowsOf(p) = {}
        BY <2>2 DEF Entries
    <3>2. pc' = [pc EXCEPT ![p] = "read"] /\ UNCHANGED <<subnet, rows, set_id, device, raced>>
        BY <2>2, <1>2 DEF LookupSetId
    <3>3. NoRowYet'
        BY <3>1, <3>2, <1>t DEF IInv, NoRowYet, RowsOf
    <3> QED
        BY <3>2, <3>3, <1>t DEF IInv, TypeOK, Locations, ConfiguresStoredId,
           DevicesMatchRow, ChosenIdIsFree, ChosenIdIsLegal, OneSetIdPerProject,
           PairSharesOneSet, SharedSetIdsWereRaced
  <2> QED
      BY <2>1, <2>2, <1>2 DEF LookupSetId
<1>3. CASE ReadSubnetSetIds(p)
  <2>1. CASE \E n \in FreeIds : /\ \A m \in FreeIds : n <= m
                                /\ Choose(p, n) /\ Go(p, "insert")
    <3>1. PICK n \in FreeIds : Choose(p, n) /\ Go(p, "insert")
        BY <2>1
    <3>2. n \in 1..MaxSetId /\ \A r \in rows : r.subnet = subnet => r.id # n
        BY <3>1 DEF FreeIds
    <3>3. set_id' = [set_id EXCEPT ![p] = n] /\ pc' = [pc EXCEPT ![p] = "insert"]
          /\ pc[p] = "read" /\ UNCHANGED <<subnet, rows, device, raced>>
        BY <3>1, <1>3 DEF ReadSubnetSetIds
    <3>4. TypeOK'
        BY <3>2, <3>3, <1>t DEF TypeOK, Locations
    <3>5. ChosenIdIsFree' /\ ChosenIdIsLegal'
        BY <3>2, <3>3, <1>t DEF IInv, ChosenIdIsFree, ChosenIdIsLegal
    <3> QED
        BY <3>3, <3>4, <3>5, <1>t DEF IInv, NoRowYet, ConfiguresStoredId,
           DevicesMatchRow, OneSetIdPerProject, PairSharesOneSet, SharedSetIdsWereRaced
  <2>2. CASE FreeIds = {} /\ Choose(p, MaxSetId) /\ Go(p, "configure")
    <3>1. set_id' = [set_id EXCEPT ![p] = MaxSetId] /\ pc' = [pc EXCEPT ![p] = "configure"]
          /\ pc[p] = "read" /\ UNCHANGED <<subnet, rows, device, raced>>
        BY <2>2, <1>3 DEF ReadSubnetSetIds
    <3>2. TypeOK'
        BY <3>1, <1>t, VrrpSetAssumption DEF TypeOK, Locations
    <3>3. ConfiguresStoredId'
        BY <3>1, <1>t DEF IInv, ConfiguresStoredId, NoRowYet
    <3> QED
        BY <3>1, <3>2, <3>3, <1>t DEF IInv, NoRowYet, DevicesMatchRow, ChosenIdIsFree,
           ChosenIdIsLegal, OneSetIdPerProject, PairSharesOneSet, SharedSetIdsWereRaced
  <2> QED
      BY <2>1, <2>2, <1>3 DEF ReadSubnetSetIds
<1>4. CASE ReadFails(p)
    BY <1>4, <1>t, VrrpSetAssumption DEF ReadFails, IInv, TypeOK, Locations, NoRowYet,
       ConfiguresStoredId, DevicesMatchRow, ChosenIdIsFree, ChosenIdIsLegal,
       OneSetIdPerProject, PairSharesOneSet, SharedSetIdsWereRaced
<1>5. CASE ConfigurePair(p)
  <2>1. pc[p] = "configure" /\ pc' = [pc EXCEPT ![p] = "up"] /\ set_id' = [set_id EXCEPT ![p] = 0]
        /\ device' = [device EXCEPT ![p] = [r \in Roles |-> set_id[p]]] /\ set_id[p] # 0
        /\ UNCHANGED <<subnet, rows, raced>>
      BY <1>5, <1>t DEF ConfigurePair
  <2>2. TypeOK'
      BY <2>1, <1>t, VrrpSetAssumption DEF TypeOK, Locations
  <2>3. DevicesMatchRow'
      BY <2>1, <1>t DEF IInv, TypeOK, DevicesMatchRow, ConfiguresStoredId
  <2>4. PairSharesOneSet'
      BY <2>1, <1>t DEF IInv, TypeOK, PairSharesOneSet, Roles
  <2> QED
      BY <2>1, <2>2, <2>3, <2>4, <1>t DEF IInv, NoRowYet, ConfiguresStoredId, ChosenIdIsFree,
         ChosenIdIsLegal, OneSetIdPerProject, SharedSetIdsWereRaced
<1>6. CASE CreateFails(p)
    BY <1>6, <1>t, VrrpSetAssumption DEF CreateFails, IInv, TypeOK, Locations, NoRowYet,
       ConfiguresStoredId, DevicesMatchRow, ChosenIdIsFree, ChosenIdIsLegal,
       OneSetIdPerProject, PairSharesOneSet, SharedSetIdsWereRaced
<1>7. CASE DeletePair(p)
    BY <1>7, <1>t DEF DeletePair, IInv, TypeOK, Locations, NoRowYet, ConfiguresStoredId,
       DevicesMatchRow, ChosenIdIsFree, ChosenIdIsLegal, OneSetIdPerProject,
       PairSharesOneSet, SharedSetIdsWereRaced
<1>8. CASE UnsetSetId(p)
  <2>1. rows' \subseteq rows /\ pc' = [pc EXCEPT ![p] = "remove"]
        /\ UNCHANGED <<subnet, set_id, device, raced>>
      BY <1>8 DEF UnsetSetId
  <2> QED
      BY <2>1, <1>t DEF IInv, TypeOK, Locations, NoRowYet, ConfiguresStoredId,
         DevicesMatchRow, ChosenIdIsFree, ChosenIdIsLegal, OneSetIdPerProject,
         PairSharesOneSet, SharedSetIdsWereRaced
<1>9. CASE RemovePair(p)
  <2>1. /\ pc' = [pc EXCEPT ![p] = "none"] \/ pc' = [pc EXCEPT ![p] = "error"]
        /\ device' = [device EXCEPT ![p] = NoPair] \/ device' = device
        /\ UNCHANGED <<subnet, rows, set_id, raced>>
      BY <1>9 DEF RemovePair
  <2>2. NoPair \in [Roles -> 0..MaxSetId]
      BY VrrpSetAssumption DEF NoPair
  <2>3. TypeOK'
      BY <2>1, <2>2, <1>t DEF TypeOK, Locations
  <2>4. \A q \in Projects : q # p => device'[q] = device[q] /\ pc'[q] = pc[q]
      BY <2>1, <1>t DEF TypeOK
  <2>5. pc'[p] \in {"none", "error"}
      BY <2>1, <1>t
  <2> QED
      BY <2>1, <2>3, <2>4, <2>5 DEF IInv, NoRowYet, ConfiguresStoredId,
         DevicesMatchRow, ChosenIdIsFree, ChosenIdIsLegal, OneSetIdPerProject,
         PairSharesOneSet, SharedSetIdsWereRaced
<1> QED
    BY <1>1, <1>2, <1>3, <1>4, <1>5, <1>6, <1>7, <1>8, <1>9

\* A failover finds the id the surviving device has.
LEMMA FailoverKeepsIInv ==
    ASSUME IInv, NEW p \in Projects, NEW role \in Roles, Failover(p, role)
    PROVE  IInv'
<1>1. PICK r \in Entries(p) : device' = [device EXCEPT ![p][role] = r.id]
    BY DEF Failover, FailoverIds
<1>2. r \in rows /\ r.project = p
    BY EntriesAreOwnRows
<1>3. \A o \in Roles : device[p][o] = r.id
    BY <1>2 DEF Failover, IInv, DevicesMatchRow
<1>4. device' = device
    BY <1>1, <1>3 DEF IInv, TypeOK
<1> QED
    BY <1>4 DEF Failover, IInv, TypeOK, NoRowYet, ConfiguresStoredId, DevicesMatchRow,
       ChosenIdIsFree, ChosenIdIsLegal, OneSetIdPerProject, PairSharesOneSet,
       SharedSetIdsWereRaced

\* No flow is between a read and a store when the subnet changes.
LEMMA ReconfigureKeepsIInv == IInv /\ Reconfigure => IInv'
BY DEF Reconfigure, AtRest, IInv, TypeOK, NoRowYet, ConfiguresStoredId, DevicesMatchRow,
   ChosenIdIsFree, ChosenIdIsLegal, OneSetIdPerProject, PairSharesOneSet,
   SharedSetIdsWereRaced

LEMMA StutterKeepsIInv == IInv /\ UNCHANGED vars => IInv'
BY DEF vars, IInv, TypeOK, NoRowYet, ConfiguresStoredId, DevicesMatchRow,
   ChosenIdIsFree, ChosenIdIsLegal, OneSetIdPerProject, PairSharesOneSet,
   SharedSetIdsWereRaced

\* The strengthened invariant holds in every state of every behaviour.
THEOREM Invariance == Spec => []IInv
<1>1. IInv /\ [Next]_vars => IInv'
    BY InsertKeepsIInv, StepKeepsIInv, FailoverKeepsIInv, ReconfigureKeepsIInv,
       StutterKeepsIInv DEF Next
<1> QED
    BY InitIInv, <1>1, PTL DEF Spec

\* Type correctness.
THEOREM TypeCorrect == Spec => []TypeOK
<1>1. IInv => TypeOK
    BY DEF IInv
<1> QED
    BY Invariance, <1>1, PTL

\* A project never has two rows, whichever subnets the workers were given.
THEOREM OneSetId == Spec => []OneSetIdPerProject
<1>1. IInv => OneSetIdPerProject
    BY DEF IInv
<1> QED
    BY Invariance, <1>1, PTL

\* The devices of a running pair agree on their set, failovers included.
THEOREM PairAgrees == Spec => []PairSharesOneSet
<1>1. IInv => PairSharesOneSet
    BY DEF IInv
<1> QED
    BY Invariance, <1>1, PTL

\* Two projects share an id of a subnet only after a race of their flows.
THEOREM SharingIsRaced == Spec => []SharedSetIdsWereRaced
<1>1. IInv => SharedSetIdsWereRaced
    BY DEF IInv
<1> QED
    BY Invariance, <1>1, PTL
=============================================================================

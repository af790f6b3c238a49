------------------------ MODULE MemberServersProofs ------------------------
(***************************************************************************)
(* Proofs about MemberServers, for any load balancers, pools and members,  *)
(* on a vThunder and on a hardware Thunder: the types of the state; that   *)
(* no row of a member is deleted while the device still has it bound; that *)
(* an ACTIVE member is bound, but for the ways the history names; and that *)
(* on a vThunder the last member of an address takes its server along.     *)
(***************************************************************************)
EXTENDS MemberServers, FiniteSetTheorems, TLAPS

OwnMembers(l) == {m \in Members : LbOfMember(m) = l}

WorkSteps == {"dissociate", "remove", "row", "server", "associate", "activate", "poolremove"}

(* A flow handles members and a pool of its own load balancer.             *)
FlowOwn(l) ==
    /\ flow[l].left \subseteq OwnMembers(l)
    /\ flow[l].step # "idle" => flow[l].pool \in Pools /\ LbOf[flow[l].pool] = l
    /\ flow[l].step \in WorkSteps => flow[l].cur \in OwnMembers(l)

(* A member on its way through MemberCreate has its row.                   *)
CreatingHasRow(l) ==
    flow[l].step \in {"server", "associate", "activate"} => status[flow[l].cur] # "NONE"

(* The rows go after the bindings.                                         *)
RowsGoLast(l) ==
    /\ flow[l].step \in {"remove", "row"} => flow[l].cur \notin sg
    /\ flow[l].step = "rows" => MembersOf(flow[l].pool) \cap sg = {}

FlowInv(l) == FlowOwn(l) /\ CreatingHasRow(l) /\ RowsGoLast(l)

IInv == TypeOK /\ (\A l \in LBs : FlowInv(l)) /\ DeletedMemberLeavesDevice

(* A step of one flow leaves the others alone: it binds members of its own *)
(* load balancer only and deletes no other rows.                           *)
StepOf(l) ==
    /\ \A k \in LBs \ {l} : flow'[k] = flow[k]
    /\ sg' \subseteq sg \cup OwnMembers(l)
    /\ \A m \in Members : status'[m] = "NONE" => status[m] = "NONE" \/ m \in OwnMembers(l)

-----------------------------------------------------------------------------
LEMMA IdleType == Idle \in Flow /\ Idle.step = "idle" /\ Idle.left = {}
BY ShapeAssumption DEF Idle, Request, Flow, Steps

LEMMA Helpers ==
    /\ \A p \in Pools : /\ LbOf[p] \in LBs
                        /\ MembersOf(p) \subseteq Members
                        /\ MembersOf(p) \subseteq OwnMembers(LbOf[p])
    /\ \A m \in Members : /\ PoolOf[m] \in Pools
                          /\ LbOfMember(m) \in LBs
                          /\ AddrOf[m] \in Addrs
    /\ \A l \in LBs : /\ OwnMembers(l) \subseteq Members
                      /\ \A k \in LBs : k # l => OwnMembers(l) \cap OwnMembers(k) = {}
BY ShapeAssumption DEF MembersOf, LbOfMember, OwnMembers

LEMMA InitInv == Init => IInv
<1> SUFFICES ASSUME Init PROVE IInv
  OBVIOUS
<1> USE DEF Init
<1>1. TypeOK
  BY IdleType DEF TypeOK, MemberStatus
<1>2. \A l \in LBs : flow[l].step = "idle" /\ flow[l].left = {}
  BY IdleType
<1>3. \A l \in LBs : FlowInv(l)
  BY <1>2 DEF FlowInv, FlowOwn, CreatingHasRow, RowsGoLast, WorkSteps
<1>4. DeletedMemberLeavesDevice
  BY DEF DeletedMemberLeavesDevice
<1> QED
  BY <1>1, <1>3, <1>4 DEF IInv

(* What the flows of the other load balancers know stays true.             *)
LEMMA OthersKeep ==
    ASSUME IInv, NEW l \in LBs, StepOf(l), NEW k \in LBs \ {l}
    PROVE  FlowInv(k)'
<1>1. FlowInv(k) /\ flow[k] \in Flow
  BY DEF IInv, TypeOK
<1>2. flow'[k] = flow[k]
  BY DEF StepOf
<1>3. OwnMembers(k) \subseteq Members /\ OwnMembers(l) \cap OwnMembers(k) = {}
  BY Helpers
<1>4. FlowOwn(k)'
  BY <1>1, <1>2 DEF FlowInv, FlowOwn
<1>5. CreatingHasRow(k)'
  <2> SUFFICES ASSUME flow[k].step \in {"server", "associate", "activate"}
               PROVE  status'[flow[k].cur] # "NONE"
    BY <1>2 DEF CreatingHasRow
  <2>1. flow[k].cur \in OwnMembers(k) /\ status[flow[k].cur] # "NONE"
    BY <1>1 DEF FlowInv, FlowOwn, CreatingHasRow, WorkSteps
  <2> QED
    BY <2>1, <1>3 DEF StepOf
<1>6. (flow[k].step \in {"remove", "row"} => flow[k].cur \notin sg)'
  <2> SUFFICES ASSUME flow[k].step \in {"remove", "row"} PROVE flow[k].cur \notin sg'
    BY <1>2
  <2>1. flow[k].cur \in OwnMembers(k) /\ flow[k].cur \notin sg
    BY <1>1 DEF FlowInv, FlowOwn, RowsGoLast, WorkSteps
  <2> QED
    BY <2>1, <1>3 DEF StepOf
<1>7. (flow[k].step = "rows" => MembersOf(flow[k].pool) \cap sg = {})'
  <2> SUFFICES ASSUME flow[k].step = "rows" PROVE MembersOf(flow[k].pool) \cap sg' = {}
    BY <1>2
  <2>1. flow[k].pool \in Pools /\ LbOf[flow[k].pool] = k
    BY <1>1 DEF FlowInv, FlowOwn
  <2>2. MembersOf(flow[k].pool) \subseteq OwnMembers(k)
    BY <2>1, Helpers
  <2>3. MembersOf(flow[k].pool) \cap sg = {}
    BY <1>1 DEF FlowInv, RowsGoLast
  <2> QED
    BY <2>2, <2>3, <1>3 DEF StepOf
<1> QED
  BY <1>4, <1>5, <1>6, <1>7 DEF FlowInv, RowsGoLast

LEMMA StepKeeps ==
    ASSUME IInv, NEW l \in LBs, StepOf(l), TypeOK', FlowInv(l)', DeletedMemberLeavesDevice'
    PROVE  IInv'
<1>1. \A k \in LBs \ {l} : FlowInv(k)'
  BY OthersKeep
<1> QED
  BY <1>1 DEF IInv

-----------------------------------------------------------------------------
(* The API.                                                                *)
LEMMA AdmitInv ==
    ASSUME IInv, NEW r \in Flow, NEW pending,
           r.pool \in Pools, r.step = "queued", r.left \subseteq MembersOf(r.pool),
           \A m \in DOMAIN pending : pending[m] \in MemberStatus \ {"NONE"},
           Admit(r, pending)
    PROVE  IInv'
<1> DEFINE l == LbOf[r.pool]
<1>1. l \in LBs /\ MembersOf(r.pool) \subseteq OwnMembers(l)
  BY Helpers
<1> HIDE DEF l
<1>2. /\ flow' = [flow EXCEPT ![l] = r]
      /\ status' = [m \in Members |-> IF m \in DOMAIN pending THEN pending[m] ELSE status[m]]
      /\ UNCHANGED <<rack, pool, device, hist>>
  BY DEF Admit, l
<1>3. flow' \in [LBs -> Flow] /\ flow'[l] = r /\ \A k \in LBs \ {l} : flow'[k] = flow[k]
  BY <1>1, <1>2 DEF IInv, TypeOK
<1>4. status' \in [Members -> MemberStatus]
      /\ \A m \in Members : status'[m] = "NONE" => status[m] = "NONE"
  BY <1>2 DEF IInv, TypeOK
<1>5. TypeOK'
  BY <1>2, <1>3, <1>4 DEF IInv, TypeOK, device, hist
<1>6. StepOf(l)
  BY <1>2, <1>3, <1>4 DEF StepOf, device
<1>7. FlowInv(l)'
  BY <1>1, <1>3, r.step \notin WorkSteps, LbOf[r.pool] = l
     DEF FlowInv, FlowOwn, CreatingHasRow, RowsGoLast, WorkSteps, l
<1>8. DeletedMemberLeavesDevice'
  BY <1>2, <1>4 DEF IInv, DeletedMemberLeavesDevice, device
<1> QED
  BY <1>1, <1>5, <1>6, <1>7, <1>8, StepKeeps

LEMMA ApiInv ==
    ASSUME IInv, Api PROVE IInv'
<1>1. ASSUME NEW m \in Members, CreateMember(m) PROVE IInv'
  <2> DEFINE r == Request("create", PoolOf[m], {}, {m}, {})
  <2>1. PoolOf[m] \in Pools /\ m \in MembersOf(PoolOf[m])
    BY Helpers DEF MembersOf
  <2>2. r \in Flow /\ r.step = "queued" /\ r.pool = PoolOf[m] /\ r.left = {m}
    BY <2>1 DEF Request, Flow, Steps
  <2>3. Admit(r, [n \in {m} |-> "PENDING_CREATE"])
    BY <1>1 DEF CreateMember
  <2> QED
    BY <2>1, <2>2, <2>3, AdmitInv DEF MemberStatus
<1>2. ASSUME NEW m \in Members, DeleteMember(m) PROVE IInv'
  <2> DEFINE r == Request("delete", PoolOf[m], {m}, {}, {})
  <2>1. PoolOf[m] \in Pools /\ m \in MembersOf(PoolOf[m])
    BY Helpers DEF MembersOf
  <2>2. r \in Flow /\ r.step = "queued" /\ r.pool = PoolOf[m] /\ r.left = {m}
    BY <2>1 DEF Request, Flow, Steps
  <2>3. Admit(r, [n \in {m} |-> "PENDING_DELETE"])
    BY <1>2 DEF DeleteMember
  <2> QED
    BY <2>1, <2>2, <2>3, AdmitInv DEF MemberStatus
<1>3. ASSUME NEW m \in Members, UpdateMember(m) PROVE IInv'
  <2> DEFINE r == Request("update", PoolOf[m], {}, {}, {m})
  <2>1. PoolOf[m] \in Pools /\ m \in MembersOf(PoolOf[m])
    BY Helpers DEF MembersOf
  <2>2. r \in Flow /\ r.step = "queued" /\ r.pool = PoolOf[m] /\ r.left = {m}
    BY <2>1 DEF Request, Flow, Steps
  <2>3. Admit(r, [n \in {m} |-> "PENDING_UPDATE"])
    BY <1>3 DEF UpdateMember
  <2> QED
    BY <2>1, <2>2, <2>3, AdmitInv DEF MemberStatus
<1>4. ASSUME NEW p \in Pools, DeletePool(p) PROVE IInv'
  <2> DEFINE r == Request("pool", p, Present(p), {}, {})
  <2>1. Present(p) \subseteq MembersOf(p) /\ Present(p) \in SUBSET Members
    BY Helpers DEF Present
  <2>2. r \in Flow /\ r.step = "queued" /\ r.pool = p /\ r.left \subseteq MembersOf(p)
    BY <2>1 DEF Request, Flow, Steps
  <2>3. Admit(r, <<>>)
    BY <1>4 DEF DeletePool
  <2>4. DOMAIN <<>> = {}
    OBVIOUS
  <2> HIDE DEF r
  <2> QED
    BY <2>2, <2>3, <2>4, AdmitInv
<1>5. ASSUME NEW p \in Pools, NEW old \in SUBSET MembersOf(p), NEW new \in SUBSET MembersOf(p),
             BatchUpdate(p, old, new)
      PROVE  IInv'
  <2> DEFINE upd == Present(p) \ old
             r == Request("batch", p, old, new, upd)
             pending == [m \in old \cup new \cup upd |->
                           IF m \in old THEN "PENDING_DELETE"
                           ELSE IF m \in new THEN "PENDING_CREATE" ELSE "PENDING_UPDATE"]
  <2>1. /\ upd \subseteq MembersOf(p) /\ upd \in SUBSET Members
        /\ old \in SUBSET Members /\ new \in SUBSET Members
    BY Helpers DEF Present
  <2>2. r \in Flow /\ r.step = "queued" /\ r.pool = p /\ r.left \subseteq MembersOf(p)
    BY <2>1 DEF Request, Flow, Steps
  <2>3. Admit(r, pending)
    BY <1>5 DEF BatchUpdate
  <2>4. \A m \in DOMAIN pending : pending[m] \in MemberStatus \ {"NONE"}
    BY DEF MemberStatus
  <2> HIDE DEF r, pending
  <2> QED
    BY <2>2, <2>3, <2>4, AdmitInv
<1> QED
  BY <1>1, <1>2, <1>3, <1>4, <1>5 DEF Api

-----------------------------------------------------------------------------
(* A flow that only takes another record: nothing else changes but sg,     *)
(* which shrinks, and what the flow knows of its members stays true.       *)
LEMMA FlowMoves ==
    ASSUME IInv, NEW l \in LBs, NEW r \in Flow,
           flow' = [flow EXCEPT ![l] = r],
           r.left \subseteq flow[l].left,
           r.step # "idle" => r.pool = flow[l].pool /\ flow[l].step # "idle",
           r.step \in WorkSteps => r.cur \in OwnMembers(l),
           r.step \in {"server", "associate", "activate"} => status'[r.cur] # "NONE",
           r.step \in {"remove", "row"} => r.cur \notin sg',
           r.step = "rows" => MembersOf(r.pool) \cap sg' = {},
           sg' \subseteq sg,
           status' \in [Members -> MemberStatus],
           \A m \in Members : status'[m] = "NONE" => m \notin sg'
                                 /\ (status[m] = "NONE" \/ m \in OwnMembers(l)),
           rack' = rack, pool' \in [Pools -> {"ACTIVE", "ERROR", "DELETED"}],
           servers' \subseteq Addrs, groups' \subseteq Pools,
           lost' \subseteq Members, leaked' \subseteq Addrs
    PROVE  IInv'
<1>1. flow' \in [LBs -> Flow] /\ flow'[l] = r /\ \A k \in LBs \ {l} : flow'[k] = flow[k]
  BY DEF IInv, TypeOK
<1>2. TypeOK'
  BY <1>1 DEF IInv, TypeOK
<1>3. StepOf(l)
  BY <1>1 DEF StepOf
<1>4. FlowOwn(l)'
  BY <1>1 DEF IInv, FlowInv, FlowOwn
<1>5. CreatingHasRow(l)' /\ RowsGoLast(l)'
  BY <1>1 DEF CreatingHasRow, RowsGoLast
<1>6. DeletedMemberLeavesDevice'
  BY DEF DeletedMemberLeavesDevice
<1> QED
  BY <1>2, <1>3, <1>4, <1>5, <1>6, StepKeeps DEF FlowInv

(* The same, when the database and the device stay as they are.            *)
LEMMA FlowWaits ==
    ASSUME IInv, NEW l \in LBs, NEW r \in Flow,
           flow' = [flow EXCEPT ![l] = r],
           r.left \subseteq flow[l].left,
           r.step # "idle" => r.pool = flow[l].pool /\ flow[l].step # "idle",
           r.step \notin WorkSteps \cup {"rows"},
           UNCHANGED <<rack, db, device, lost>>, leaked' \subseteq Addrs
    PROVE  IInv'
<1>1. \A m \in Members : status[m] = "NONE" => m \notin sg
  BY DEF IInv, DeletedMemberLeavesDevice
<1>2. TypeOK
  BY DEF IInv
<1> QED
  BY <1>1, <1>2, FlowMoves DEF TypeOK, WorkSteps, db, device

LEMMA EndInErrorInv ==
    ASSUME IInv, NEW l \in LBs, EndInError(l) PROVE IInv'
<1>1. Idle \in Flow /\ Idle.step = "idle" /\ Idle.left = {}
  BY IdleType
<1>2. flow' = [flow EXCEPT ![l] = Idle] /\ UNCHANGED <<rack, servers, groups, sg, leaked>>
  BY DEF EndInError, device
<1>3. \A m \in Members : status[m] = "NONE" => m \notin sg
  BY DEF IInv, DeletedMemberLeavesDevice
<1>4. TypeOK
  BY DEF IInv
<1>5. pool' \in [Pools -> {"ACTIVE", "ERROR", "DELETED"}]
  BY <1>4 DEF EndInError, TypeOK
<1>6. status' \in [Members -> MemberStatus]
      /\ \A m \in Members : status'[m] = "NONE" => status[m] = "NONE"
  BY <1>4 DEF EndInError, TypeOK, MemberStatus
<1>7. lost' \subseteq Members
  BY <1>4 DEF EndInError, TypeOK, Flow
<1> HIDE DEF Idle
<1> QED
  BY <1>1, <1>2, <1>3, <1>4, <1>5, <1>6, <1>7, FlowMoves DEF TypeOK, WorkSteps

LEMMA BeginInv == ASSUME IInv, NEW l \in LBs, Begin(l) PROVE IInv'
<1> DEFINE r == [flow[l] EXCEPT !.step = "next"]
<1>1. TypeOK
  BY DEF IInv
<1>2. /\ r \in Flow /\ r.left = flow[l].left /\ r.pool = flow[l].pool /\ r.step = "next"
      /\ flow[l].step # "idle"
  BY <1>1 DEF Begin, TypeOK, Flow, Steps
<1>3. flow' = [flow EXCEPT ![l] = r] /\ UNCHANGED <<rack, db, device, lost>> /\ leaked' \subseteq Addrs
  BY <1>1 DEF Begin, hist, TypeOK
<1> HIDE DEF r
<1> QED
  BY <1>2, <1>3, FlowWaits DEF WorkSteps

LEMMA AbandonBatchInv == ASSUME IInv, NEW l \in LBs, AbandonBatch(l) PROVE IInv'
<1> DEFINE r == [flow[l] EXCEPT !.step = "abandoned"]
<1>1. TypeOK
  BY DEF IInv
<1>2. /\ r \in Flow /\ r.left = flow[l].left /\ r.pool = flow[l].pool /\ r.step = "abandoned"
      /\ flow[l].step # "idle"
  BY <1>1 DEF AbandonBatch, TypeOK, Flow, Steps
<1>3. flow' = [flow EXCEPT ![l] = r] /\ UNCHANGED <<rack, db, device, lost>> /\ leaked' \subseteq Addrs
  BY <1>1 DEF AbandonBatch, hist, TypeOK
<1> HIDE DEF r
<1> QED
  BY <1>2, <1>3, FlowWaits DEF WorkSteps

-----------------------------------------------------------------------------
(* The deletion of a member.                                               *)
LEMMA CountForDeleteInv ==
    ASSUME IInv, NEW l \in LBs, NEW m \in Members, CountForDelete(l, m) PROVE IInv'
<1> DEFINE marked == [status EXCEPT ![m] = "PENDING_DELETE"]
           r == [flow[l] EXCEPT !.step = "dissociate", !.cur = m,
                      !.seen = {n \in WithAddr(AddrOf[m]) : marked[n] \in CountedStatus}]
<1>1. TypeOK /\ FlowOwn(l) /\ DeletedMemberLeavesDevice
  BY DEF IInv, FlowInv
<1>2. /\ r \in Flow /\ r.left = flow[l].left /\ r.pool = flow[l].pool
      /\ r.step = "dissociate" /\ r.cur = m /\ flow[l].step # "idle"
  <2>1. flow[l] \in Flow /\ flow[l].step # "idle"
    BY <1>1 DEF CountForDelete, TypeOK
  <2>2. {n \in WithAddr(AddrOf[m]) : marked[n] \in CountedStatus} \in SUBSET Members
    BY DEF WithAddr
  <2> HIDE DEF marked
  <2> QED
    BY <2>1, <2>2 DEF Flow, Steps
<1>3. m \in OwnMembers(l)
  BY <1>1 DEF CountForDelete, FlowOwn
<1>4. status' = marked /\ flow' = [flow EXCEPT ![l] = r] /\ UNCHANGED <<rack, pool, device, hist>>
  BY DEF CountForDelete
<1>5. status' \in [Members -> MemberStatus]
      /\ \A n \in Members : status'[n] = "NONE" => status[n] = "NONE" /\ n \notin sg
  BY <1>1, <1>4 DEF TypeOK, MemberStatus, DeletedMemberLeavesDevice
<1> HIDE DEF r, marked
<1> QED
  BY <1>1, <1>2, <1>3, <1>4, <1>5, FlowMoves DEF TypeOK, device, hist

LEMMA DissociateInv == ASSUME IInv, NEW l \in LBs, Dissociate(l) PROVE IInv'
<1> DEFINE m == flow[l].cur
           r == IF m \in sg THEN [flow[l] EXCEPT !.step = "remove"]
                            ELSE [flow[l] EXCEPT !.step = "row", !.seen = {}]
<1>1. TypeOK /\ FlowOwn(l) /\ DeletedMemberLeavesDevice
  BY DEF IInv, FlowInv
<1>2. /\ r \in Flow /\ r.left = flow[l].left /\ r.pool = flow[l].pool
      /\ r.step \in {"remove", "row"} /\ r.cur = m /\ flow[l].step = "dissociate"
  <2>1. flow[l] \in Flow /\ flow[l].step = "dissociate"
    BY <1>1 DEF Dissociate, TypeOK
  <2>2. CASE m \in sg
    BY <2>1, <2>2 DEF Flow, Steps
  <2>3. CASE m \notin sg
    BY <2>1, <2>3 DEF Flow, Steps
  <2> QED
    BY <2>2, <2>3
<1>3. m \in OwnMembers(l)
  BY <1>1, <1>2 DEF FlowOwn, WorkSteps
<1>4. /\ flow' = [flow EXCEPT ![l] = r] /\ sg' = sg \ {m}
      /\ UNCHANGED <<rack, db, servers, groups, lost>>
  BY DEF Dissociate
<1>5. leaked' \subseteq Addrs
  BY <1>1 DEF Dissociate, Leak, TypeOK
<1>6. \A n \in Members : status'[n] = "NONE" => status[n] = "NONE" /\ n \notin sg'
  BY <1>1, <1>4 DEF DeletedMemberLeavesDevice, db
<1> HIDE DEF r, m
<1> QED
  BY <1>1, <1>2, <1>3, <1>4, <1>5, <1>6, FlowMoves DEF TypeOK, db, WorkSteps

(* What the calls that delete a server or a port, and Leak, may do.        *)
LEMMA DropsShrink ==
    ASSUME TypeOK, NEW a \in Addrs, NEW m \in Members
    PROVE  /\ DropServer(a) => /\ sg' \subseteq sg /\ servers' \subseteq Addrs
                               /\ groups' \subseteq Pools /\ leaked' \subseteq Addrs
           /\ DropPort(m) => /\ sg' \subseteq sg /\ servers' \subseteq Addrs
                             /\ groups' \subseteq Pools
           /\ UNCHANGED device => /\ sg' \subseteq sg /\ servers' \subseteq Addrs
                                  /\ groups' \subseteq Pools
           /\ \A u \in BOOLEAN : Leak(a, u) => leaked' \subseteq Addrs
           /\ UNCHANGED leaked => leaked' \subseteq Addrs
BY DEF TypeOK, DropServer, DropPort, Leak, device

LEMMA RemoveServerInv == ASSUME IInv, NEW l \in LBs, RemoveServer(l) PROVE IInv'
<1> DEFINE m == flow[l].cur
           r == [flow[l] EXCEPT !.step = "row", !.seen = {}]
<1>1. TypeOK /\ FlowOwn(l) /\ DeletedMemberLeavesDevice
  BY DEF IInv, FlowInv
<1>2. /\ r \in Flow /\ r.left = flow[l].left /\ r.pool = flow[l].pool
      /\ r.step = "row" /\ r.cur = m /\ flow[l].step = "remove"
  <2>1. flow[l] \in Flow /\ flow[l].step = "remove"
    BY <1>1 DEF RemoveServer, TypeOK
  <2> QED
    BY <2>1 DEF Flow, Steps
<1>3. m \in OwnMembers(l) /\ m \in Members /\ AddrOf[m] \in Addrs
  BY <1>1, <1>2, Helpers DEF FlowOwn, WorkSteps
<1>4. flow' = [flow EXCEPT ![l] = r] /\ UNCHANGED <<rack, db>>
  BY DEF RemoveServer
<1>5. /\ sg' \subseteq sg /\ servers' \subseteq Addrs
      /\ groups' \subseteq Pools /\ leaked' \subseteq Addrs
  BY <1>1, <1>3, DropsShrink DEF RemoveServer
<1>6. lost' \subseteq Members
  BY <1>1 DEF RemoveServer, TypeOK
<1>7. m \notin sg'
  BY <1>2, <1>5 DEF IInv, FlowInv, RowsGoLast
<1> HIDE DEF r, m
<1> QED
  BY <1>1, <1>2, <1>3, <1>4, <1>5, <1>6, <1>7, FlowMoves
     DEF TypeOK, db, WorkSteps, DeletedMemberLeavesDevice

LEMMA DeleteRowInv == ASSUME IInv, NEW l \in LBs, DeleteRow(l) PROVE IInv'
<1> DEFINE m == flow[l].cur
           r == [flow[l] EXCEPT !.step = "next", !.left = @ \ {m}, !.cur = None]
<1>1. TypeOK /\ FlowInv(l) /\ DeletedMemberLeavesDevice
  BY DEF IInv
<1>2. /\ r \in Flow /\ r.left \subseteq flow[l].left /\ r.pool = flow[l].pool
      /\ r.step = "next" /\ flow[l].step = "row"
  <2>1. flow[l] \in Flow /\ flow[l].step = "row"
    BY <1>1 DEF DeleteRow, TypeOK
  <2> QED
    BY <2>1 DEF Flow, Steps
<1>3. m \in OwnMembers(l) /\ m \notin sg
  BY <1>1, <1>2 DEF FlowInv, FlowOwn, RowsGoLast, WorkSteps
<1>4. /\ status' = [status EXCEPT ![m] = "NONE"] /\ flow' = [flow EXCEPT ![l] = r]
      /\ lost' = lost \ {m} /\ UNCHANGED <<rack, pool, device, leaked>>
  BY DEF DeleteRow
<1>5. /\ status' \in [Members -> MemberStatus]
      /\ \A n \in Members : status'[n] = "NONE" => n = m \/ (status[n] = "NONE" /\ n \notin sg)
  BY <1>1, <1>4 DEF TypeOK, MemberStatus, DeletedMemberLeavesDevice
<1> HIDE DEF r, m
<1> QED
  BY <1>1, <1>2, <1>3, <1>4, <1>5, FlowMoves DEF TypeOK, device, WorkSteps

-----------------------------------------------------------------------------
(* The creation and the update of a member.                                *)
LEMMA CountForCreateInv ==
    ASSUME IInv, NEW l \in LBs, NEW m \in Members, CountForCreate(l, m) PROVE IInv'
<1> DEFINE r == [flow[l] EXCEPT !.step = "server", !.cur = m,
                                !.seen = CountedWithAddr(AddrOf[m]) \ {m}]
<1>1. TypeOK /\ FlowOwn(l) /\ DeletedMemberLeavesDevice
  BY DEF IInv, FlowInv
<1>2. /\ r \in Flow /\ r.left = flow[l].left /\ r.pool = flow[l].pool
      /\ r.step = "server" /\ r.cur = m /\ flow[l].step # "idle"
  <2>1. flow[l] \in Flow /\ flow[l].step # "idle"
    BY <1>1 DEF CountForCreate, TypeOK
  <2>2. CountedWithAddr(AddrOf[m]) \ {m} \in SUBSET Members
    BY DEF CountedWithAddr, WithAddr
  <2> QED
    BY <2>1, <2>2 DEF Flow, Steps
<1>3. m \in OwnMembers(l)
  BY <1>1 DEF CountForCreate, FlowOwn
<1>4. /\ status' = [status EXCEPT ![m] = "PENDING_CREATE"] /\ flow' = [flow EXCEPT ![l] = r]
      /\ UNCHANGED <<rack, pool, device, hist>>
  BY DEF CountForCreate
<1>5. /\ status' \in [Members -> MemberStatus] /\ status'[m] # "NONE"
      /\ \A n \in Members : status'[n] = "NONE" => status[n] = "NONE" /\ n \notin sg
  BY <1>1, <1>4 DEF TypeOK, MemberStatus, DeletedMemberLeavesDevice
<1> HIDE DEF r
<1> QED
  BY <1>1, <1>2, <1>3, <1>4, <1>5, FlowMoves DEF TypeOK, device, hist

LEMMA PutServerInv == ASSUME IInv, NEW l \in LBs, PutServer(l) PROVE IInv'
<1> DEFINE m == flow[l].cur
           r == [flow[l] EXCEPT !.step = "associate", !.seen = {},
                                !.made = @ \cup {[m |-> m, seen |-> flow[l].seen]}]
<1>1. TypeOK /\ FlowInv(l) /\ DeletedMemberLeavesDevice
  BY DEF IInv
<1>2. flow[l] \in Flow /\ flow[l].step = "server"
  BY <1>1 DEF PutServer, TypeOK
<1>3. m \in OwnMembers(l) /\ m \in Members /\ status[m] # "NONE" /\ AddrOf[m] \in Addrs
  BY <1>1, <1>2, Helpers DEF FlowInv, FlowOwn, CreatingHasRow, WorkSteps
<1>4. /\ r \in Flow /\ r.left = flow[l].left /\ r.pool = flow[l].pool
      /\ r.step = "associate" /\ r.cur = m
  <2> DEFINE e == [m |-> m, seen |-> flow[l].seen]
  <2>1. e \in [m : Members, seen : SUBSET Members]
    BY <1>2, <1>3 DEF Flow
  <2>2. flow[l].made \cup {e} \in SUBSET [m : Members, seen : SUBSET Members]
    BY <2>1, <1>2 DEF Flow
  <2> HIDE DEF e
  <2>3. [flow[l] EXCEPT !.step = "associate", !.seen = {}, !.made = @ \cup {e}] = r
    BY DEF e
  <2> QED
    BY <2>2, <2>3, <1>2, <1>3 DEF Flow, Steps
<1>5. /\ servers' = servers \cup {AddrOf[m]} /\ flow' = [flow EXCEPT ![l] = r]
      /\ UNCHANGED <<rack, db, groups, sg, hist>>
  BY DEF PutServer
<1>6. servers' \subseteq Addrs
  BY <1>1, <1>3, <1>5 DEF TypeOK
<1> HIDE DEF r, m
<1> QED
  BY <1>1, <1>2, <1>3, <1>4, <1>5, <1>6, FlowMoves
     DEF TypeOK, db, hist, DeletedMemberLeavesDevice

(* The one step that binds a member: it is of the flow's load balancer and *)
(* has its row.                                                            *)
LEMMA AssociateInv == ASSUME IInv, NEW l \in LBs, Associate(l) PROVE IInv'
<1> DEFINE m == flow[l].cur
           r == [flow[l] EXCEPT !.step = "activate"]
<1>1. TypeOK /\ FlowInv(l) /\ DeletedMemberLeavesDevice
  BY DEF IInv
<1>2. flow[l] \in Flow /\ flow[l].step = "associate"
  BY <1>1 DEF Associate, TypeOK
<1>3. m \in OwnMembers(l) /\ m \in Members /\ status[m] # "NONE"
  BY <1>1, <1>2, Helpers DEF FlowInv, FlowOwn, CreatingHasRow, WorkSteps
<1>4. /\ r \in Flow /\ r.left = flow[l].left /\ r.pool = flow[l].pool
      /\ r.step = "activate" /\ r.cur = m
  BY <1>2 DEF Flow, Steps
<1>5. /\ flow' = [flow EXCEPT ![l] = r] /\ sg' = sg \cup {m} /\ lost' = lost \ {m}
      /\ UNCHANGED <<rack, db, servers, groups, leaked>>
  BY DEF Associate
<1>6. flow' \in [LBs -> Flow] /\ flow'[l] = r /\ \A k \in LBs \ {l} : flow'[k] = flow[k]
  BY <1>1, <1>4, <1>5 DEF TypeOK
<1>7. TypeOK'
  BY <1>1, <1>3, <1>5, <1>6 DEF TypeOK, db
<1>8. StepOf(l)
  BY <1>3, <1>5, <1>6 DEF StepOf, db
<1>9. FlowOwn(l)'
  BY <1>1, <1>2, <1>3, <1>4, <1>6 DEF FlowInv, FlowOwn
<1>10. CreatingHasRow(l)' /\ RowsGoLast(l)'
  BY <1>3, <1>4, <1>5, <1>6 DEF CreatingHasRow, RowsGoLast, db
<1>11. DeletedMemberLeavesDevice'
  BY <1>1, <1>3, <1>5 DEF DeletedMemberLeavesDevice, db
<1> QED
  BY <1>7, <1>8, <1>9, <1>10, <1>11, StepKeeps DEF FlowInv

LEMMA ActivateInv == ASSUME IInv, NEW l \in LBs, Activate(l) PROVE IInv'
<1> DEFINE m == flow[l].cur
           r == [flow[l] EXCEPT !.step = "next", !.left = @ \ {m}, !.cur = None]
<1>1. TypeOK /\ FlowInv(l) /\ DeletedMemberLeavesDevice
  BY DEF IInv
<1>2. flow[l] \in Flow /\ flow[l].step = "activate"
  BY <1>1 DEF Activate, TypeOK
<1>3. /\ r \in Flow /\ r.left \subseteq flow[l].left /\ r.pool = flow[l].pool
      /\ r.step = "next"
  BY <1>2 DEF Flow, Steps
<1>4. /\ status' = [status EXCEPT ![m] = "ACTIVE"] /\ flow' = [flow EXCEPT ![l] = r]
      /\ UNCHANGED <<rack, pool, device, hist>>
  BY DEF Activate
<1>5. /\ status' \in [Members -> MemberStatus]
      /\ \A n \in Members : status'[n] = "NONE" => status[n] = "NONE" /\ n \notin sg
  BY <1>1, <1>4 DEF TypeOK, MemberStatus, DeletedMemberLeavesDevice
<1> HIDE DEF r, m
<1> QED
  BY <1>1, <1>2, <1>3, <1>4, <1>5, FlowMoves DEF TypeOK, device, hist, WorkSteps

LEMMA UpdateServerInv ==
    ASSUME IInv, NEW l \in LBs, NEW m \in Members, UpdateServer(l, m) PROVE IInv'
<1> DEFINE r == [flow[l] EXCEPT !.left = @ \ {m}]
<1>1. TypeOK /\ DeletedMemberLeavesDevice
  BY DEF IInv
<1>2. flow[l] \in Flow /\ flow[l].step = "next"
  BY <1>1 DEF UpdateServer, TypeOK
<1>3. /\ r \in Flow /\ r.left \subseteq flow[l].left /\ r.pool = flow[l].pool
      /\ r.step = "next"
  BY <1>2 DEF Flow, Steps
<1>4. /\ status' = [status EXCEPT ![m] = "ACTIVE"] /\ flow' = [flow EXCEPT ![l] = r]
      /\ UNCHANGED <<rack, pool, device, hist>>
  BY DEF UpdateServer
<1>5. /\ status' \in [Members -> MemberStatus]
      /\ \A n \in Members : status'[n] = "NONE" => status[n] = "NONE" /\ n \notin sg
  BY <1>1, <1>4 DEF TypeOK, MemberStatus, DeletedMemberLeavesDevice
<1> HIDE DEF r
<1> QED
  BY <1>1, <1>2, <1>3, <1>4, <1>5, FlowMoves DEF TypeOK, device, hist, WorkSteps

LEMMA FinishInv == ASSUME IInv, NEW l \in LBs, Finish(l) PROVE IInv'
<1>1. TypeOK /\ DeletedMemberLeavesDevice
  BY DEF IInv
<1>2. /\ flow' = [flow EXCEPT ![l] = Idle] /\ pool' = [pool EXCEPT ![flow[l].pool] = "ACTIVE"]
      /\ UNCHANGED <<rack, status, device, hist>>
  BY DEF Finish
<1>3. pool' \in [Pools -> {"ACTIVE", "ERROR", "DELETED"}]
  BY <1>1, <1>2 DEF TypeOK
<1> HIDE DEF Idle
<1> QED
  BY <1>1, <1>2, <1>3, IdleType, FlowMoves
     DEF TypeOK, device, hist, WorkSteps, DeletedMemberLeavesDevice

-----------------------------------------------------------------------------
(* The deletion of a pool.                                                 *)
LEMMA CountForPoolInv ==
    ASSUME IInv, NEW l \in LBs, NEW m \in Members, CountForPool(l, m) PROVE IInv'
<1> DEFINE r == [flow[l] EXCEPT !.step = "poolremove", !.cur = m,
                                !.seen = CountedWithAddr(AddrOf[m])]
<1>1. TypeOK /\ FlowOwn(l) /\ DeletedMemberLeavesDevice
  BY DEF IInv, FlowInv
<1>2. /\ r \in Flow /\ r.left = flow[l].left /\ r.pool = flow[l].pool
      /\ r.step = "poolremove" /\ r.cur = m /\ flow[l].step # "idle"
  <2>1. flow[l] \in Flow /\ flow[l].step # "idle"
    BY <1>1 DEF CountForPool, TypeOK
  <2>2. CountedWithAddr(AddrOf[m]) \in SUBSET Members
    BY DEF CountedWithAddr, WithAddr
  <2> QED
    BY <2>1, <2>2 DEF Flow, Steps
<1>3. m \in OwnMembers(l)
  BY <1>1 DEF CountForPool, FlowOwn
<1>4. flow' = [flow EXCEPT ![l] = r] /\ UNCHANGED <<rack, db, device, hist>>
  BY DEF CountForPool
<1> HIDE DEF r
<1> QED
  BY <1>1, <1>2, <1>3, <1>4, FlowMoves
     DEF TypeOK, db, device, hist, DeletedMemberLeavesDevice

LEMMA RemovePoolServerInv == ASSUME IInv, NEW l \in LBs, RemovePoolServer(l) PROVE IInv'
<1> DEFINE m == flow[l].cur
           r == [flow[l] EXCEPT !.step = "next", !.left = @ \ {m}, !.cur = None, !.seen = {}]
<1>1. TypeOK /\ FlowOwn(l) /\ DeletedMemberLeavesDevice
  BY DEF IInv, FlowInv
<1>2. flow[l] \in Flow /\ flow[l].step = "poolremove"
  BY <1>1 DEF RemovePoolServer, TypeOK
<1>3. m \in Members /\ AddrOf[m] \in Addrs
  BY <1>1, <1>2, Helpers DEF FlowOwn, WorkSteps
<1>4. /\ r \in Flow /\ r.left \subseteq flow[l].left /\ r.pool = flow[l].pool
      /\ r.step = "next"
  BY <1>2 DEF Flow, Steps
<1>5. flow' = [flow EXCEPT ![l] = r] /\ UNCHANGED <<rack, db>>
  BY DEF RemovePoolServer
<1>6. /\ sg' \subseteq sg /\ servers' \subseteq Addrs
      /\ groups' \subseteq Pools /\ leaked' \subseteq Addrs
  BY <1>1, <1>3, DropsShrink DEF RemovePoolServer
<1>7. lost' \subseteq Members
  BY <1>1 DEF RemovePoolServer, TypeOK
<1> HIDE DEF r, m
<1> QED
  BY <1>1, <1>2, <1>4, <1>5, <1>6, <1>7, FlowMoves
     DEF TypeOK, db, WorkSteps, DeletedMemberLeavesDevice

LEMMA DeleteGroupInv == ASSUME IInv, NEW l \in LBs, DeleteGroup(l) PROVE IInv'
<1> DEFINE p == flow[l].pool
           r == [flow[l] EXCEPT !.step = "rows"]
<1>1. TypeOK /\ DeletedMemberLeavesDevice
  BY DEF IInv
<1>2. flow[l] \in Flow /\ flow[l].step = "next"
  BY <1>1 DEF DeleteGroup, TypeOK
<1>3. /\ r \in Flow /\ r.left = flow[l].left /\ r.pool = p /\ r.step = "rows"
  BY <1>2 DEF Flow, Steps
<1>4. /\ groups' = groups \ {p} /\ sg' = sg \ MembersOf(p) /\ lost' = lost \cup Present(p)
      /\ flow' = [flow EXCEPT ![l] = r] /\ UNCHANGED <<rack, db, servers, leaked>>
  BY DEF DeleteGroup
<1>5. lost' \subseteq Members
  BY <1>1, <1>4 DEF TypeOK, Present, MembersOf
<1> HIDE DEF r
<1> QED
  BY <1>1, <1>2, <1>3, <1>4, <1>5, FlowMoves
     DEF TypeOK, db, WorkSteps, DeletedMemberLeavesDevice

LEMMA DeletePoolRowsInv == ASSUME IInv, NEW l \in LBs, DeletePoolRows(l) PROVE IInv'
<1> DEFINE p == flow[l].pool
<1>1. TypeOK /\ FlowInv(l) /\ DeletedMemberLeavesDevice
  BY DEF IInv
<1>2. p \in Pools /\ LbOf[p] = l /\ MembersOf(p) \cap sg = {}
  BY <1>1 DEF DeletePoolRows, FlowInv, FlowOwn, RowsGoLast
<1>3. MembersOf(p) \subseteq OwnMembers(l)
  BY <1>2, Helpers
<1>4. /\ pool' = [pool EXCEPT ![p] = "DELETED"]
      /\ status' = [m \in Members |-> IF PoolOf[m] = p THEN "NONE" ELSE status[m]]
      /\ flow' = [flow EXCEPT ![l] = Idle] /\ lost' = lost \ MembersOf(p)
      /\ UNCHANGED <<rack, device, leaked>>
  BY DEF DeletePoolRows
<1>5. pool' \in [Pools -> {"ACTIVE", "ERROR", "DELETED"}]
  BY <1>1, <1>4 DEF TypeOK
<1>6. status' \in [Members -> MemberStatus]
  BY <1>1, <1>4 DEF TypeOK, MemberStatus
<1>7. ASSUME NEW n \in Members, status'[n] = "NONE"
      PROVE  n \notin sg /\ (status[n] = "NONE" \/ n \in OwnMembers(l))
  <2>1. n \in MembersOf(p) \/ status[n] = "NONE"
    BY <1>4, <1>7 DEF MembersOf
  <2> QED
    BY <2>1, <1>1, <1>2, <1>3 DEF DeletedMemberLeavesDevice
<1> HIDE DEF Idle, p
<1> QED
  BY <1>1, <1>4, <1>5, <1>6, <1>7, IdleType, FlowMoves DEF TypeOK, device, WorkSteps

-----------------------------------------------------------------------------
(* Failures and reverts.                                                   *)
LEMMA FailInv == ASSUME IInv, NEW l \in LBs, Fail(l) PROVE IInv'
<1>1. TypeOK /\ FlowOwn(l)
  BY DEF IInv, FlowInv
<1>2. flow[l] \in Flow /\ flow[l].step # "idle"
  BY <1>1 DEF Fail, Running, TypeOK
<1>3. PICK made \in {flow[l].made} \cup
                   (IF flow[l].step = "server"
                     THEN {flow[l].made \cup {[m |-> flow[l].cur, seen |-> flow[l].seen]}}
                     ELSE {}) :
         flow' = [flow EXCEPT ![l].step = "revert", ![l].made = made,
                              ![l].cur = None, ![l].seen = {}]
  BY DEF Fail
<1>4. made \in SUBSET [m : Members, seen : SUBSET Members]
  <2>1. flow[l].step = "server" => flow[l].cur \in Members
    BY <1>1, Helpers DEF FlowOwn, WorkSteps
  <2> QED
    BY <2>1, <1>2, <1>3 DEF Flow
<1> DEFINE r == [flow[l] EXCEPT !.step = "revert", !.made = made, !.cur = None, !.seen = {}]
<1>5. r \in Flow /\ r.left = flow[l].left /\ r.pool = flow[l].pool /\ r.step = "revert"
  BY <1>2, <1>4 DEF Flow, Steps
<1>6. flow' = [flow EXCEPT ![l] = r] /\ UNCHANGED <<rack, db, device, lost>>
  BY <1>3 DEF Fail
<1>7. leaked' \subseteq Addrs
  BY <1>1 DEF Fail, Leak, TypeOK
<1> HIDE DEF r
<1> QED
  BY <1>2, <1>5, <1>6, <1>7, FlowWaits DEF WorkSteps

LEMMA RevertCreateInv == ASSUME IInv, NEW l \in LBs, RevertCreate(l) PROVE IInv'
<1>1. TypeOK /\ DeletedMemberLeavesDevice
  BY DEF IInv
<1>2. flow[l] \in Flow /\ flow[l].step = "revert"
  BY <1>1 DEF RevertCreate, TypeOK
<1>3. PICK e \in flow[l].made :
         /\ flow' = [flow EXCEPT ![l].made = @ \ {e}]
         /\ \/ Cardinality(e.seen) <= 1 /\ ~NlbaasMemberNames /\ DropServer(AddrOf[e.m])
            \/ Leak(AddrOf[e.m], Cardinality(e.seen) <= 1) /\ UNCHANGED device
  BY DEF RevertCreate
<1> DEFINE r == [flow[l] EXCEPT !.made = @ \ {e}]
<1>4. r \in Flow /\ r.left = flow[l].left /\ r.pool = flow[l].pool /\ r.step = "revert"
  BY <1>2 DEF Flow, Steps
<1>5. flow' = [flow EXCEPT ![l] = r] /\ UNCHANGED <<rack, db>>
  BY <1>3 DEF RevertCreate
<1>6. e.m \in Members /\ AddrOf[e.m] \in Addrs
  BY <1>2, <1>3, Helpers DEF Flow
<1>7. /\ sg' \subseteq sg /\ servers' \subseteq Addrs
      /\ groups' \subseteq Pools /\ leaked' \subseteq Addrs
  <2>1. CASE DropServer(AddrOf[e.m])
    BY <2>1, <1>1, <1>6, DropsShrink
  <2>2. CASE Leak(AddrOf[e.m], Cardinality(e.seen) <= 1) /\ UNCHANGED device
    BY <2>2, <1>1 DEF Leak, device, TypeOK
  <2> QED
    BY <2>1, <2>2, <1>3
<1>8. lost' \subseteq Members
  BY <1>1 DEF RevertCreate, TypeOK
<1> HIDE DEF r
<1> QED
  BY <1>1, <1>2, <1>4, <1>5, <1>7, <1>8, FlowMoves
     DEF TypeOK, db, WorkSteps, DeletedMemberLeavesDevice

-----------------------------------------------------------------------------
LEMMA NextInv == IInv /\ [Next]_vars => IInv'
<1> SUFFICES ASSUME IInv, [Next]_vars PROVE IInv'
  OBVIOUS
<1>1. CASE UNCHANGED vars
  BY <1>1 DEF vars, device, db, hist, IInv, TypeOK, FlowInv, FlowOwn, CreatingHasRow,
              RowsGoLast, DeletedMemberLeavesDevice
<1>2. CASE Api
  BY <1>2, ApiInv
<1>3. ASSUME NEW l \in LBs, DeleteStep(l) PROVE IInv'
  BY <1>3, CountForDeleteInv, DissociateInv, RemoveServerInv, DeleteRowInv DEF DeleteStep
<1>4. ASSUME NEW l \in LBs, CreateStep(l) PROVE IInv'
  BY <1>4, CountForCreateInv, PutServerInv, AssociateInv, ActivateInv DEF CreateStep
<1>5. ASSUME NEW l \in LBs, PoolStep(l) PROVE IInv'
  BY <1>5, CountForPoolInv, RemovePoolServerInv, DeleteGroupInv, DeletePoolRowsInv
     DEF PoolStep, PoolMemberStep
<1>6. ASSUME NEW l \in LBs, Begin(l) \/ BusyTimeout(l) \/ AbandonBatch(l) PROVE IInv'
  BY <1>6, BeginInv, EndInErrorInv, AbandonBatchInv DEF BusyTimeout
<1>7. ASSUME NEW l \in LBs, UpdateStep(l) \/ Finish(l) PROVE IInv'
  BY <1>7, UpdateServerInv, FinishInv DEF UpdateStep
<1>8. ASSUME NEW l \in LBs, Fail(l) \/ RevertCreate(l) \/ Reverted(l) PROVE IInv'
  BY <1>8, FailInv, RevertCreateInv, EndInErrorInv DEF Reverted
<1> QED
  BY <1>1, <1>2, <1>3, <1>4, <1>5, <1>6, <1>7, <1>8
     DEF Next, VThunderFlow, RackDeleteFlow, RackCreateFlow, RackPoolFlow

(* The strengthened invariant holds in every state of every behaviour.     *)
THEOREM Invariance == Spec => []IInv
BY InitInv, NextInv, PTL DEF Spec

(* Every reachable state is well typed, whatever the flows and the         *)
(* failures do.                                                            *)
THEOREM TypeCorrect == Spec => []TypeOK
<1>1. IInv => TypeOK
  BY DEF IInv
<1> QED
  BY <1>1, Invariance, PTL

(* No flow deletes the row of a member that is bound on the device, and    *)
(* none binds a member whose row is gone: for any number of load balancers *)
(* and members, whatever fails, and with no busy lock at all.              *)
THEOREM RowsAndBindings == Spec => []DeletedMemberLeavesDevice
<1>1. IInv => DeletedMemberLeavesDevice
  BY DEF IInv
<1> QED
  BY <1>1, Invariance, PTL

-----------------------------------------------------------------------------
(* What the flows work on, and the busy lock.                              *)
DeletingSteps == {"dissociate", "remove", "row"}
CreatingSteps == {"server", "associate", "activate"}

(* What a flow works on: the members of its request, all of its pool; the  *)
(* one in work is of the group that its step belongs to.                   *)
TaskOf(f) ==
    /\ f.step = "idle" <=> f.op = "none"
    /\ f.op = "none" => f.left = {}
    /\ f.op # "none" => f.old \cup f.new \cup f.upd \subseteq MembersOf(f.pool)
    /\ f.left \subseteq f.old \cup f.new \cup f.upd
    /\ f.old # {} => f.op \in {"delete", "batch", "pool"}
    /\ f.new # {} => f.op \in {"create", "batch"}
    /\ f.upd # {} => f.op \in {"update", "batch"}
    /\ f.step \in DeletingSteps => f.op \in {"delete", "batch"} /\ f.cur \in f.left \cap f.old
    /\ f.step \in CreatingSteps => f.cur \in f.left \cap f.new
    /\ f.step = "poolremove" => f.op = "pool" /\ f.cur \in f.left
    /\ f.step = "rows" => f.op = "pool" /\ f.left = {}
    /\ f.step = "queued" /\ f.op = "pool" => f.left = f.old
    /\ f.step = "abandoned" => f.op = "batch"

(* The members a flow has not finished have their rows; those of the pool  *)
(* that is deleted are all known to its flow.                              *)
RowsOf(l) ==
    /\ \A m \in flow[l].left : status[m] # "NONE"
    /\ flow[l].op = "pool" => Present(flow[l].pool) \subseteq flow[l].old

(* The busy lock: on a vThunder a create, delete or batch flow runs alone. *)
RunsAlone ==
    ~rack => \A k \in LBs : \A l \in LBs \ {k} :
                 Running(k) /\ Running(l) => flow[k].op \notin Exclusive

TaskInv == IInv /\ (\A l \in LBs : TaskOf(flow[l]) /\ RowsOf(l)) /\ RunsAlone

(* A step of one flow: it writes the rows of its own load balancer only.   *)
LocalStep(l) ==
    /\ \A k \in LBs \ {l} : flow'[k] = flow[k]
    /\ \A m \in Members \ OwnMembers(l) : status'[m] = status[m]
    /\ rack' = rack

LEMMA InitTask == Init => TaskInv
<1> SUFFICES ASSUME Init PROVE TaskInv
  OBVIOUS
<1>1. IInv
  BY InitInv
<1>2. ASSUME NEW l \in LBs PROVE flow[l] = Idle
  BY DEF Init
<1>3. TaskOf(Idle)
  BY DEF TaskOf, Idle, Request, DeletingSteps, CreatingSteps
<1>4. Idle.step = "idle" /\ Idle.left = {} /\ Idle.op = "none"
  BY DEF Idle, Request
<1>5. \A l \in LBs : TaskOf(flow[l]) /\ RowsOf(l) /\ ~Running(l)
  BY <1>2, <1>3, <1>4 DEF RowsOf, Running
<1>6. RunsAlone
  BY <1>5 DEF RunsAlone
<1> QED
  BY <1>1, <1>5, <1>6 DEF TaskInv

LEMMA TaskOthers ==
    ASSUME TaskInv, NEW l \in LBs, LocalStep(l), NEW k \in LBs \ {l}
    PROVE  TaskOf(flow'[k]) /\ RowsOf(k)'
<1>1. IInv /\ TaskOf(flow[k]) /\ RowsOf(k) /\ flow'[k] = flow[k]
  BY DEF TaskInv, LocalStep
<1>2. \A m \in OwnMembers(k) : m \in Members \ OwnMembers(l)
  BY Helpers
<1>3. \A m \in OwnMembers(k) : status'[m] = status[m]
  BY <1>2 DEF LocalStep
<1>4. flow[k].left \subseteq OwnMembers(k)
  BY <1>1 DEF IInv, FlowInv, FlowOwn
<1>5. \A m \in flow'[k].left : status'[m] # "NONE"
  BY <1>1, <1>3, <1>4 DEF RowsOf
<1>6. ASSUME flow[k].op = "pool" PROVE Present(flow[k].pool)' \subseteq flow[k].old
  <2>1. flow[k].step # "idle"
    BY <1>1, <1>6 DEF TaskOf
  <2>2. MembersOf(flow[k].pool) \subseteq OwnMembers(k)
    BY <1>1, <2>1, Helpers DEF IInv, FlowInv, FlowOwn
  <2>3. Present(flow[k].pool)' \subseteq Present(flow[k].pool)
    BY <1>1, <1>3, <2>2 DEF Present
  <2> QED
    BY <1>1, <1>6, <2>3 DEF RowsOf
<1> QED
  BY <1>1, <1>5, <1>6 DEF RowsOf

(* A flow takes another record: what it may do to its task.                *)
LEMMA TaskMoves ==
    ASSUME TaskInv, IInv', NEW l \in LBs, NEW r \in Flow,
           flow' = [flow EXCEPT ![l] = r],
           TaskOf(r),
           r.op # "none" => r.op = flow[l].op /\ r.pool = flow[l].pool /\ r.old = flow[l].old,
           r.step \notin {"idle", "queued", "abandoned"} => Running(l) \/ Conflicts(l) = {},
           \A m \in Members \ OwnMembers(l) : status'[m] = status[m],
           \A m \in r.left : status'[m] # "NONE",
           r.op = "pool" => \A m \in Members : status'[m] # "NONE" => status[m] # "NONE",
           rack' = rack
    PROVE  TaskInv' /\ LocalStep(l)
<1>1. IInv /\ RunsAlone /\ TaskOf(flow[l]) /\ RowsOf(l)
  BY DEF TaskInv
<1>2. flow'[l] = r /\ \A k \in LBs \ {l} : flow'[k] = flow[k]
  BY <1>1 DEF IInv, TypeOK
<1>3. LocalStep(l)
  BY <1>2 DEF LocalStep
<1>4. \A k \in LBs \ {l} : TaskOf(flow'[k]) /\ RowsOf(k)'
  BY <1>3, TaskOthers
<1>5. RowsOf(l)'
  <2>1. ASSUME r.op = "pool" PROVE Present(r.pool)' \subseteq r.old
    <3>1. Present(r.pool)' \subseteq Present(r.pool)
      BY <2>1 DEF Present, MembersOf
    <3> QED
      BY <3>1, <2>1, <1>1 DEF RowsOf
  <2> QED
    BY <1>2, <2>1 DEF RowsOf
<1>6. RunsAlone'
  <2>1. ASSUME ~rack, NEW k \in LBs \ {l}, Running(k), Running(l)'
        PROVE  flow[k].op \notin Exclusive /\ r.op \notin Exclusive
    <3>1. r.step \notin {"idle", "queued", "abandoned"}
      BY <2>1, <1>2 DEF Running
    <3>2. r.op = flow[l].op
      BY <3>1 DEF TaskOf
    <3>3. CASE Running(l)
      BY <1>1, <2>1, <3>2, <3>3 DEF RunsAlone
    <3>4. CASE Conflicts(l) = {}
      BY <2>1, <3>2, <3>4 DEF Conflicts
    <3> QED
      BY <3>1, <3>3, <3>4
  <2>2. \A k \in LBs \ {l} : Running(k)' <=> Running(k)
    BY <1>2 DEF Running
  <2>3. ASSUME ~rack, NEW k \in LBs, NEW j \in LBs \ {k}, Running(k)', Running(j)'
        PROVE  flow'[k].op \notin Exclusive
    <3>1. CASE k = l
      BY <3>1, <2>1, <2>2, <2>3, <1>2
    <3>2. CASE k # l /\ j = l
      BY <3>2, <2>1, <2>2, <2>3, <1>2
    <3>3. CASE k # l /\ j # l
      BY <3>3, <2>2, <2>3, <1>1, <1>2 DEF RunsAlone
    <3> QED
      BY <3>1, <3>2, <3>3
  <2> QED
    BY <2>3 DEF RunsAlone
<1>7. TaskOf(flow'[l])
  BY <1>2
<1> QED
  BY <1>3, <1>4, <1>5, <1>6, <1>7 DEF TaskInv

(* The same, when no row is written.                                       *)
LEMMA TaskWaits ==
    ASSUME TaskInv, IInv', NEW l \in LBs, NEW r \in Flow,
           flow' = [flow EXCEPT ![l] = r],
           TaskOf(r),
           r.op = flow[l].op, r.pool = flow[l].pool, r.old = flow[l].old,
           r.left \subseteq flow[l].left,
           r.step \notin {"idle", "queued", "abandoned"} => Running(l) \/ Conflicts(l) = {},
           UNCHANGED <<rack, status>>
    PROVE  TaskInv' /\ LocalStep(l)
<1>1. \A m \in r.left : status'[m] # "NONE"
  BY DEF TaskInv, RowsOf
<1> QED
  BY <1>1, TaskMoves

(* A request is admitted.                                                  *)
LEMMA AdmitTask ==
    ASSUME TaskInv, IInv', NEW r \in Flow, NEW pending,
           TaskOf(r), r.pool \in Pools, r.step = "queued",
           DOMAIN pending \subseteq MembersOf(r.pool),
           \A m \in DOMAIN pending : pending[m] # "NONE",
           \A m \in r.left : m \in DOMAIN pending \/ status[m] # "NONE",
           r.op = "pool" => r.old = Present(r.pool) /\ DOMAIN pending = {},
           Admit(r, pending)
    PROVE  TaskInv' /\ LocalStep(LbOf[r.pool]) 
<1> DEFINE l == LbOf[r.pool]
<1>1. l \in LBs /\ MembersOf(r.pool) \subseteq OwnMembers(l) /\ MembersOf(r.pool) \subseteq Members
  BY Helpers
<1>2. /\ flow' = [flow EXCEPT ![l] = r]
      /\ status' = [m \in Members |-> IF m \in DOMAIN pending THEN pending[m] ELSE status[m]]
      /\ rack' = rack
  BY DEF Admit
<1> HIDE DEF l
<1>3. IInv /\ RunsAlone
  BY DEF TaskInv
<1>4. flow'[l] = r /\ \A k \in LBs \ {l} : flow'[k] = flow[k]
  BY <1>1, <1>2, <1>3 DEF IInv, TypeOK
<1>5. LocalStep(l)
  BY <1>1, <1>2, <1>4 DEF LocalStep
<1>6. \A k \in LBs \ {l} : TaskOf(flow'[k]) /\ RowsOf(k)'
  BY <1>1, <1>5, TaskOthers
<1>7. TaskOf(flow'[l])
  BY <1>4
<1>8. RowsOf(l)'
  <2>1. \A m \in r.left : status'[m] # "NONE"
    <3>1. r.left \subseteq Members
      BY DEF Flow
    <3> QED
      BY <3>1, <1>2
  <2>2. ASSUME r.op = "pool" PROVE Present(r.pool)' \subseteq r.old
    BY <2>2, <1>2 DEF Present, MembersOf
  <2> QED
    BY <2>1, <2>2, <1>4 DEF RowsOf
<1>9. RunsAlone'
  <2>1. ~Running(l)'
    BY <1>4 DEF Running
  <2>2. \A k \in LBs \ {l} : Running(k)' <=> Running(k)
    BY <1>4 DEF Running
  <2> QED
    BY <1>2, <1>3, <1>4, <2>1, <2>2 DEF RunsAlone
<1> QED
  BY <1>3, <1>5, <1>6, <1>7, <1>8, <1>9 DEF TaskInv, l

(* The end of a flow in error.                                             *)
LEMMA IdleTask ==
    /\ TaskOf(Idle) /\ Idle \in Flow
    /\ Idle.step = "idle" /\ Idle.op = "none" /\ Idle.left = {}
BY IdleType DEF TaskOf, Idle, Request, DeletingSteps, CreatingSteps

LEMMA EndInErrorTask ==
    ASSUME TaskInv, NEW l \in LBs, flow[l].step # "idle", EndInError(l)
    PROVE  TaskInv' /\ LocalStep(l)
<1>1. IInv /\ TaskOf(flow[l]) /\ IInv' /\ FlowOwn(l)
  BY EndInErrorInv DEF TaskInv, IInv, FlowInv
<1>2. MembersOf(flow[l].pool) \subseteq OwnMembers(l)
  BY <1>1, Helpers DEF FlowOwn
<1>3. Guarded(flow[l]) \subseteq OwnMembers(l)
  BY <1>1, <1>2 DEF Guarded, TaskOf
<1>4. \A m \in Members \ OwnMembers(l) : status'[m] = status[m]
  BY <1>3 DEF EndInError
<1>5. flow' = [flow EXCEPT ![l] = Idle] /\ rack' = rack
  BY DEF EndInError
<1> HIDE DEF Idle
<1> QED
  BY <1>1, <1>4, <1>5, IdleTask, TaskMoves

LEMMA BeginTask == ASSUME TaskInv, NEW l \in LBs, Begin(l) PROVE TaskInv' /\ LocalStep(l)
<1> DEFINE r == [flow[l] EXCEPT !.step = "next"]
<1>1. IInv /\ TaskOf(flow[l]) /\ IInv' /\ flow[l] \in Flow
  BY BeginInv DEF TaskInv, IInv, TypeOK
<1>2. /\ r \in Flow /\ TaskOf(r)
      /\ r.op = flow[l].op /\ r.pool = flow[l].pool /\ r.old = flow[l].old /\ r.left = flow[l].left
  BY <1>1 DEF Begin, Flow, Steps, TaskOf, DeletingSteps, CreatingSteps
<1>3. flow' = [flow EXCEPT ![l] = r] /\ UNCHANGED <<rack, status>> /\ Conflicts(l) = {}
  BY DEF Begin, db
<1> HIDE DEF r
<1> QED
  BY <1>1, <1>2, <1>3, TaskWaits

LEMMA AbandonBatchTask ==
    ASSUME TaskInv, NEW l \in LBs, AbandonBatch(l) PROVE TaskInv' /\ LocalStep(l)
<1> DEFINE r == [flow[l] EXCEPT !.step = "abandoned"]
<1>1. IInv /\ TaskOf(flow[l]) /\ IInv' /\ flow[l] \in Flow
  BY AbandonBatchInv DEF TaskInv, IInv, TypeOK
<1>2. /\ r \in Flow /\ TaskOf(r) /\ r.step = "abandoned"
      /\ r.op = flow[l].op /\ r.pool = flow[l].pool /\ r.old = flow[l].old /\ r.left = flow[l].left
  BY <1>1 DEF AbandonBatch, Flow, Steps, TaskOf, DeletingSteps, CreatingSteps
<1>3. flow' = [flow EXCEPT ![l] = r] /\ UNCHANGED <<rack, status>>
  BY DEF AbandonBatch, db
<1> HIDE DEF r
<1> QED
  BY <1>1, <1>2, <1>3, TaskWaits

LEMMA CountForDeleteTask ==
    ASSUME TaskInv, NEW l \in LBs, NEW m \in Members, CountForDelete(l, m)
    PROVE  TaskInv' /\ LocalStep(l)
<1> DEFINE marked == [status EXCEPT ![m] = "PENDING_DELETE"]
           r == [flow[l] EXCEPT !.step = "dissociate", !.cur = m,
                      !.seen = {n \in WithAddr(AddrOf[m]) : marked[n] \in CountedStatus}]
<1>1. IInv /\ TaskOf(flow[l]) /\ RowsOf(l) /\ IInv' /\ flow[l] \in Flow /\ FlowOwn(l) /\ TypeOK
  BY CountForDeleteInv DEF TaskInv, IInv, TypeOK, FlowInv
<1>2. /\ flow[l].step = "next" /\ flow[l].op \in {"delete", "batch"}
      /\ m \in flow[l].left \cap flow[l].old
      /\ status' = marked /\ flow' = [flow EXCEPT ![l] = r] /\ rack' = rack
  BY DEF CountForDelete
<1>3. {n \in WithAddr(AddrOf[m]) : marked[n] \in CountedStatus} \in SUBSET Members
  BY DEF WithAddr
<1>4. /\ r \in Flow /\ TaskOf(r) /\ r.step = "dissociate"
      /\ r.op = flow[l].op /\ r.pool = flow[l].pool /\ r.old = flow[l].old /\ r.left = flow[l].left
  <2> HIDE DEF marked
  <2> QED
    BY <1>1, <1>2, <1>3 DEF Flow, Steps, TaskOf, DeletingSteps, CreatingSteps
<1>5. m \in OwnMembers(l)
  BY <1>1, <1>2 DEF FlowOwn
<1>6. \A n \in Members \ OwnMembers(l) : status'[n] = status[n]
  BY <1>1, <1>2, <1>5 DEF TypeOK
<1>7. \A n \in r.left : status'[n] # "NONE"
  <2>1. r.left \subseteq Members
    BY <1>1, <1>4 DEF Flow
  <2> HIDE DEF r
  <2> QED
    BY <2>1, <1>1, <1>2, <1>4 DEF RowsOf, TypeOK
<1>8. Running(l) /\ r.op # "pool"
  BY <1>2, <1>4 DEF Running
<1> HIDE DEF r, marked
<1> QED
  BY <1>1, <1>2, <1>4, <1>6, <1>7, <1>8, TaskMoves

LEMMA DissociateTask ==
    ASSUME TaskInv, NEW l \in LBs, Dissociate(l) PROVE TaskInv' /\ LocalStep(l)
<1> DEFINE m == flow[l].cur
           r == IF m \in sg THEN [flow[l] EXCEPT !.step = "remove"]
                            ELSE [flow[l] EXCEPT !.step = "row", !.seen = {}]
<1>1. IInv /\ TaskOf(flow[l]) /\ IInv' /\ flow[l] \in Flow
  BY DissociateInv DEF TaskInv, IInv, TypeOK
<1>2. flow[l].step = "dissociate" /\ flow' = [flow EXCEPT ![l] = r] /\ UNCHANGED <<rack, status>>
  BY DEF Dissociate, db
<1>3. /\ r \in Flow /\ TaskOf(r)
      /\ r.op = flow[l].op /\ r.pool = flow[l].pool /\ r.old = flow[l].old /\ r.left = flow[l].left
  <2>1. CASE m \in sg
    BY <2>1, <1>1, <1>2 DEF Flow, Steps, TaskOf, DeletingSteps, CreatingSteps
  <2>2. CASE m \notin sg
    BY <2>2, <1>1, <1>2 DEF Flow, Steps, TaskOf, DeletingSteps, CreatingSteps
  <2> QED
    BY <2>1, <2>2
<1>4. Running(l)
  BY <1>2 DEF Running
<1> HIDE DEF r
<1> QED
  BY <1>1, <1>2, <1>3, <1>4, TaskWaits

LEMMA RemoveServerTask ==
    ASSUME TaskInv, NEW l \in LBs, RemoveServer(l) PROVE TaskInv' /\ LocalStep(l)
<1> DEFINE r == [flow[l] EXCEPT !.step = "row", !.seen = {}]
<1>1. IInv /\ TaskOf(flow[l]) /\ IInv' /\ flow[l] \in Flow
  BY RemoveServerInv DEF TaskInv, IInv, TypeOK
<1>2. flow[l].step = "remove" /\ flow' = [flow EXCEPT ![l] = r] /\ UNCHANGED <<rack, status>>
  BY DEF RemoveServer, db
<1>3. /\ r \in Flow /\ TaskOf(r)
      /\ r.op = flow[l].op /\ r.pool = flow[l].pool /\ r.old = flow[l].old /\ r.left = flow[l].left
  BY <1>1, <1>2 DEF Flow, Steps, TaskOf, DeletingSteps, CreatingSteps
<1>4. Running(l)
  BY <1>2 DEF Running
<1> HIDE DEF r
<1> QED
  BY <1>1, <1>2, <1>3, <1>4, TaskWaits

LEMMA DeleteRowTask ==
    ASSUME TaskInv, NEW l \in LBs, DeleteRow(l) PROVE TaskInv' /\ LocalStep(l)
<1> DEFINE m == flow[l].cur
           r == [flow[l] EXCEPT !.step = "next", !.left = @ \ {m}, !.cur = None]
<1>1. /\ IInv /\ TaskOf(flow[l]) /\ RowsOf(l) /\ IInv' /\ flow[l] \in Flow /\ TypeOK
      /\ FlowOwn(l)
  BY DeleteRowInv DEF TaskInv, IInv, TypeOK, FlowInv
<1>2. /\ flow[l].step = "row" /\ status' = [status EXCEPT ![m] = "NONE"]
      /\ flow' = [flow EXCEPT ![l] = r] /\ rack' = rack
  BY DEF DeleteRow
<1>3. m \in OwnMembers(l) /\ flow[l].op \in {"delete", "batch"}
  BY <1>1, <1>2 DEF FlowOwn, WorkSteps, TaskOf, DeletingSteps
<1>4. /\ r \in Flow /\ TaskOf(r)
      /\ r.op = flow[l].op /\ r.pool = flow[l].pool /\ r.old = flow[l].old
      /\ r.left = flow[l].left \ {m}
  BY <1>1, <1>2 DEF Flow, Steps, TaskOf, DeletingSteps, CreatingSteps
<1>5. Running(l)
  BY <1>2 DEF Running
<1>6. \A n \in Members : n # m => status'[n] = status[n]
  BY <1>1, <1>2 DEF TypeOK
<1>7. \A n \in Members \ OwnMembers(l) : status'[n] = status[n]
  BY <1>3, <1>6
<1>8. \A n \in r.left : status'[n] # "NONE"
  <2>1. flow[l].left \subseteq Members
    BY <1>1 DEF Flow
  <2> HIDE DEF r, m
  <2> QED
    BY <2>1, <1>1, <1>4, <1>6 DEF RowsOf
<1> HIDE DEF r
<1> QED
  BY <1>1, <1>2, <1>3, <1>4, <1>5, <1>7, <1>8, TaskMoves

LEMMA CountForCreateTask ==
    ASSUME TaskInv, NEW l \in LBs, NEW m \in Members, CountForCreate(l, m)
    PROVE  TaskInv' /\ LocalStep(l)
<1> DEFINE r == [flow[l] EXCEPT !.step = "server", !.cur = m,
                                !.seen = CountedWithAddr(AddrOf[m]) \ {m}]
<1>1. IInv /\ TaskOf(flow[l]) /\ RowsOf(l) /\ IInv' /\ flow[l] \in Flow /\ FlowOwn(l) /\ TypeOK
  BY CountForCreateInv DEF TaskInv, IInv, TypeOK, FlowInv
<1>2. /\ flow[l].step = "next" /\ m \in flow[l].left \cap flow[l].new
      /\ status' = [status EXCEPT ![m] = "PENDING_CREATE"]
      /\ flow' = [flow EXCEPT ![l] = r] /\ rack' = rack
  BY DEF CountForCreate
<1>3. CountedWithAddr(AddrOf[m]) \ {m} \in SUBSET Members
  BY DEF WithAddr, CountedWithAddr
<1>4. /\ r \in Flow /\ TaskOf(r) /\ r.step = "server"
      /\ r.op = flow[l].op /\ r.pool = flow[l].pool /\ r.old = flow[l].old /\ r.left = flow[l].left
  BY <1>1, <1>2, <1>3 DEF Flow, Steps, TaskOf, DeletingSteps, CreatingSteps
<1>5. m \in OwnMembers(l) /\ r.op # "pool"
  BY <1>1, <1>2, <1>4 DEF FlowOwn, TaskOf
<1>6. \A n \in Members \ OwnMembers(l) : status'[n] = status[n]
  BY <1>1, <1>2, <1>5 DEF TypeOK
<1>7. \A n \in r.left : status'[n] # "NONE"
  <2>1. r.left \subseteq Members
    BY <1>1, <1>4 DEF Flow
  <2> HIDE DEF r
  <2> QED
    BY <2>1, <1>1, <1>2, <1>4 DEF RowsOf, TypeOK
<1>8. Running(l)
  BY <1>2 DEF Running
<1> HIDE DEF r
<1> QED
  BY <1>1, <1>2, <1>4, <1>5, <1>6, <1>7, <1>8, TaskMoves

LEMMA PutServerTask ==
    ASSUME TaskInv, NEW l \in LBs, PutServer(l) PROVE TaskInv' /\ LocalStep(l)
<1>1. IInv /\ TaskOf(flow[l]) /\ IInv' /\ flow[l] \in Flow /\ TypeOK /\ TypeOK'
  BY PutServerInv DEF TaskInv, IInv, TypeOK
<1> DEFINE r == [flow[l] EXCEPT !.step = "associate", !.seen = {},
                                !.made = @ \cup {[m |-> flow[l].cur, seen |-> flow[l].seen]}]
<1>2. flow[l].step = "server" /\ flow' = [flow EXCEPT ![l] = r] /\ UNCHANGED <<rack, status>>
  BY DEF PutServer, db
<1>3. /\ TaskOf(r) /\ r.op = flow[l].op /\ r.pool = flow[l].pool /\ r.old = flow[l].old
      /\ r.left = flow[l].left
  BY <1>1, <1>2 DEF Flow, Steps, TaskOf, DeletingSteps, CreatingSteps
<1>4. Running(l)
  BY <1>2 DEF Running
<1> HIDE DEF r
<1>5. r \in Flow
  BY <1>1, <1>2 DEF TypeOK
<1> QED
  BY <1>1, <1>2, <1>3, <1>4, <1>5, TaskWaits

LEMMA AssociateTask ==
    ASSUME TaskInv, NEW l \in LBs, Associate(l) PROVE TaskInv' /\ LocalStep(l)
<1> DEFINE r == [flow[l] EXCEPT !.step = "activate"]
<1>1. IInv /\ TaskOf(flow[l]) /\ IInv' /\ flow[l] \in Flow
  BY AssociateInv DEF TaskInv, IInv, TypeOK
<1>2. flow[l].step = "associate" /\ flow' = [flow EXCEPT ![l] = r] /\ UNCHANGED <<rack, status>>
  BY DEF Associate, db
<1>3. /\ r \in Flow /\ TaskOf(r)
      /\ r.op = flow[l].op /\ r.pool = flow[l].pool /\ r.old = flow[l].old /\ r.left = flow[l].left
  BY <1>1, <1>2 DEF Flow, Steps, TaskOf, DeletingSteps, CreatingSteps
<1>4. Running(l)
  BY <1>2 DEF Running
<1> HIDE DEF r
<1> QED
  BY <1>1, <1>2, <1>3, <1>4, TaskWaits

LEMMA ActivateTask ==
    ASSUME TaskInv, NEW l \in LBs, Activate(l) PROVE TaskInv' /\ LocalStep(l)
<1> DEFINE m == flow[l].cur
           r == [flow[l] EXCEPT !.step = "next", !.left = @ \ {m}, !.cur = None]
<1>1. /\ IInv /\ TaskOf(flow[l]) /\ RowsOf(l) /\ IInv' /\ flow[l] \in Flow /\ TypeOK
      /\ FlowOwn(l)
  BY ActivateInv DEF TaskInv, IInv, TypeOK, FlowInv
<1>2. /\ flow[l].step = "activate" /\ status' = [status EXCEPT ![m] = "ACTIVE"]
      /\ flow' = [flow EXCEPT ![l] = r] /\ rack' = rack
  BY DEF Activate
<1>3. m \in OwnMembers(l)
  BY <1>1, <1>2 DEF FlowOwn, WorkSteps
<1>4. /\ r \in Flow /\ TaskOf(r) /\ r.op # "pool"
      /\ r.op = flow[l].op /\ r.pool = flow[l].pool /\ r.old = flow[l].old
      /\ r.left = flow[l].left \ {m}
  BY <1>1, <1>2 DEF Flow, Steps, TaskOf, DeletingSteps, CreatingSteps
<1>5. Running(l)
  BY <1>2 DEF Running
<1>6. \A n \in Members : n # m => status'[n] = status[n]
  BY <1>1, <1>2 DEF TypeOK
<1>7. \A n \in Members \ OwnMembers(l) : status'[n] = status[n]
  BY <1>3, <1>6
<1>8. \A n \in r.left : status'[n] # "NONE"
  <2>1. flow[l].left \subseteq Members
    BY <1>1 DEF Flow
  <2> HIDE DEF r, m
  <2> QED
    BY <2>1, <1>1, <1>4, <1>6 DEF RowsOf
<1> HIDE DEF r
<1> QED
  BY <1>1, <1>2, <1>4, <1>5, <1>7, <1>8, TaskMoves

LEMMA UpdateServerTask ==
    ASSUME TaskInv, NEW l \in LBs, NEW m \in Members, UpdateServer(l, m)
    PROVE  TaskInv' /\ LocalStep(l)
<1> DEFINE r == [flow[l] EXCEPT !.left = @ \ {m}]
<1>1. /\ IInv /\ TaskOf(flow[l]) /\ RowsOf(l) /\ IInv' /\ flow[l] \in Flow /\ TypeOK
      /\ FlowOwn(l)
  BY UpdateServerInv DEF TaskInv, IInv, TypeOK, FlowInv
<1>2. /\ flow[l].step = "next" /\ status' = [status EXCEPT ![m] = "ACTIVE"]
      /\ m \in flow[l].left /\ flow[l].left \cap (flow[l].old \cup flow[l].new) = {}
      /\ flow' = [flow EXCEPT ![l] = r] /\ rack' = rack
  BY DEF UpdateServer
<1>3. m \in OwnMembers(l)
  BY <1>1, <1>2 DEF FlowOwn
<1>4. /\ r \in Flow /\ TaskOf(r) /\ r.op # "pool"
      /\ r.op = flow[l].op /\ r.pool = flow[l].pool /\ r.old = flow[l].old
      /\ r.left = flow[l].left \ {m}
  BY <1>1, <1>2 DEF Flow, Steps, TaskOf, DeletingSteps, CreatingSteps
<1>5. Running(l)
  BY <1>2 DEF Running
<1>6. \A n \in Members : n # m => status'[n] = status[n]
  BY <1>1, <1>2 DEF TypeOK
<1>7. \A n \in Members \ OwnMembers(l) : status'[n] = status[n]
  BY <1>3, <1>6
<1>8. \A n \in r.left : status'[n] # "NONE"
  <2>1. flow[l].left \subseteq Members
    BY <1>1 DEF Flow
  <2> HIDE DEF r
  <2> QED
    BY <2>1, <1>1, <1>4, <1>6 DEF RowsOf
<1> HIDE DEF r
<1> QED
  BY <1>1, <1>2, <1>4, <1>5, <1>7, <1>8, TaskMoves

LEMMA FinishTask ==
    ASSUME TaskInv, NEW l \in LBs, Finish(l) PROVE TaskInv' /\ LocalStep(l)
<1>1. IInv'
  BY FinishInv DEF TaskInv
<1>2. flow' = [flow EXCEPT ![l] = Idle] /\ rack' = rack /\ status' = status
  BY DEF Finish
<1> HIDE DEF Idle
<1> QED
  BY <1>1, <1>2, IdleTask, TaskMoves

LEMMA CountForPoolTask ==
    ASSUME TaskInv, NEW l \in LBs, NEW m \in Members, CountForPool(l, m)
    PROVE  TaskInv' /\ LocalStep(l)
<1> DEFINE r == [flow[l] EXCEPT !.step = "poolremove", !.cur = m,
                                !.seen = CountedWithAddr(AddrOf[m])]
<1>1. IInv /\ TaskOf(flow[l]) /\ IInv' /\ flow[l] \in Flow
  BY CountForPoolInv DEF TaskInv, IInv, TypeOK
<1>2. /\ flow[l].step = "next" /\ flow[l].op = "pool" /\ m \in flow[l].left
      /\ flow' = [flow EXCEPT ![l] = r] /\ UNCHANGED <<rack, status>>
  BY DEF CountForPool, db
<1>3. CountedWithAddr(AddrOf[m]) \in SUBSET Members
  BY DEF CountedWithAddr, WithAddr
<1>4. /\ r \in Flow /\ TaskOf(r)
      /\ r.op = flow[l].op /\ r.pool = flow[l].pool /\ r.old = flow[l].old /\ r.left = flow[l].left
  BY <1>1, <1>2, <1>3 DEF Flow, Steps, TaskOf, DeletingSteps, CreatingSteps
<1>5. Running(l)
  BY <1>2 DEF Running
<1> HIDE DEF r
<1> QED
  BY <1>1, <1>2, <1>4, <1>5, TaskWaits

LEMMA RemovePoolServerTask ==
    ASSUME TaskInv, NEW l \in LBs, RemovePoolServer(l) PROVE TaskInv' /\ LocalStep(l)
<1> DEFINE m == flow[l].cur
           r == [flow[l] EXCEPT !.step = "next", !.left = @ \ {m}, !.cur = None, !.seen = {}]
<1>1. IInv /\ TaskOf(flow[l]) /\ IInv' /\ flow[l] \in Flow
  BY RemovePoolServerInv DEF TaskInv, IInv, TypeOK
<1>2. flow[l].step = "poolremove" /\ flow' = [flow EXCEPT ![l] = r] /\ UNCHANGED <<rack, status>>
  BY DEF RemovePoolServer, db
<1>3. /\ r \in Flow /\ TaskOf(r) /\ r.left \subseteq flow[l].left
      /\ r.op = flow[l].op /\ r.pool = flow[l].pool /\ r.old = flow[l].old
  BY <1>1, <1>2 DEF Flow, Steps, TaskOf, DeletingSteps, CreatingSteps
<1>4. Running(l)
  BY <1>2 DEF Running
<1> HIDE DEF r
<1> QED
  BY <1>1, <1>2, <1>3, <1>4, TaskWaits

LEMMA DeleteGroupTask ==
    ASSUME TaskInv, NEW l \in LBs, DeleteGroup(l) PROVE TaskInv' /\ LocalStep(l)
<1> DEFINE r == [flow[l] EXCEPT !.step = "rows"]
<1>1. IInv /\ TaskOf(flow[l]) /\ IInv' /\ flow[l] \in Flow
  BY DeleteGroupInv DEF TaskInv, IInv, TypeOK
<1>2. /\ flow[l].step = "next" /\ flow[l].op = "pool" /\ flow[l].left = {}
      /\ flow' = [flow EXCEPT ![l] = r] /\ UNCHANGED <<rack, status>>
  BY DEF DeleteGroup, db
<1>3. /\ r \in Flow /\ TaskOf(r)
      /\ r.op = flow[l].op /\ r.pool = flow[l].pool /\ r.old = flow[l].old /\ r.left = flow[l].left
  BY <1>1, <1>2 DEF Flow, Steps, TaskOf, DeletingSteps, CreatingSteps
<1>4. Running(l)
  BY <1>2 DEF Running
<1> HIDE DEF r
<1> QED
  BY <1>1, <1>2, <1>3, <1>4, TaskWaits

LEMMA DeletePoolRowsTask ==
    ASSUME TaskInv, NEW l \in LBs, DeletePoolRows(l) PROVE TaskInv' /\ LocalStep(l)
<1>1. IInv /\ IInv' /\ FlowOwn(l) /\ flow[l].step = "rows" /\ TypeOK
  BY DeletePoolRowsInv DEF TaskInv, IInv, FlowInv, DeletePoolRows
<1>2. /\ flow' = [flow EXCEPT ![l] = Idle] /\ rack' = rack
      /\ status' = [m \in Members |-> IF PoolOf[m] = flow[l].pool THEN "NONE" ELSE status[m]]
  BY DEF DeletePoolRows
<1>3. MembersOf(flow[l].pool) \subseteq OwnMembers(l)
  BY <1>1, Helpers DEF FlowOwn
<1>4. \A m \in Members \ OwnMembers(l) : status'[m] = status[m]
  BY <1>2, <1>3 DEF MembersOf
<1> HIDE DEF Idle
<1> QED
  BY <1>1, <1>2, <1>4, IdleTask, TaskMoves

LEMMA FailTask ==
    ASSUME TaskInv, NEW l \in LBs, Fail(l) PROVE TaskInv' /\ LocalStep(l)
<1>1. IInv /\ TaskOf(flow[l]) /\ IInv' /\ flow[l] \in Flow /\ TypeOK /\ TypeOK'
  BY FailInv DEF TaskInv, IInv, TypeOK
<1>2. PICK made : flow' = [flow EXCEPT ![l].step = "revert", ![l].made = made,
                                       ![l].cur = None, ![l].seen = {}]
  BY DEF Fail
<1> DEFINE r == [flow[l] EXCEPT !.step = "revert", !.made = made, !.cur = None, !.seen = {}]
<1>3. Running(l) /\ flow' = [flow EXCEPT ![l] = r] /\ UNCHANGED <<rack, status>>
  BY <1>2 DEF Fail, db
<1>4. /\ TaskOf(r) /\ r.op = flow[l].op /\ r.pool = flow[l].pool /\ r.old = flow[l].old
      /\ r.left = flow[l].left
  BY <1>1, <1>3 DEF Flow, Steps, TaskOf, DeletingSteps, CreatingSteps, Running
<1> HIDE DEF r
<1>5. r \in Flow
  BY <1>1, <1>3 DEF TypeOK
<1> QED
  BY <1>1, <1>3, <1>4, <1>5, TaskWaits

LEMMA RevertCreateTask ==
    ASSUME TaskInv, NEW l \in LBs, RevertCreate(l) PROVE TaskInv' /\ LocalStep(l)
<1>1. IInv /\ TaskOf(flow[l]) /\ IInv' /\ flow[l] \in Flow
  BY RevertCreateInv DEF TaskInv, IInv, TypeOK
<1>2. PICK e \in flow[l].made : flow' = [flow EXCEPT ![l].made = @ \ {e}]
  BY DEF RevertCreate
<1> DEFINE r == [flow[l] EXCEPT !.made = @ \ {e}]
<1>3. flow[l].step = "revert" /\ flow' = [flow EXCEPT ![l] = r] /\ UNCHANGED <<rack, status>>
  BY <1>2 DEF RevertCreate, db
<1>4. /\ r \in Flow /\ TaskOf(r)
      /\ r.op = flow[l].op /\ r.pool = flow[l].pool /\ r.old = flow[l].old /\ r.left = flow[l].left
  BY <1>1, <1>3 DEF Flow, Steps, TaskOf, DeletingSteps, CreatingSteps
<1>5. Running(l)
  BY <1>3 DEF Running
<1> HIDE DEF r
<1> QED
  BY <1>1, <1>3, <1>4, <1>5, TaskWaits

-----------------------------------------------------------------------------
(* Every request of the API is admitted with a task of its own.            *)
Admission(r, pending) ==
    /\ Admit(r, pending)
    /\ TaskOf(r) /\ r.pool \in Pools /\ r.step = "queued"
    /\ DOMAIN pending \subseteq MembersOf(r.pool)
    /\ \A m \in DOMAIN pending :
         /\ pending[m] \in {"PENDING_CREATE", "PENDING_UPDATE", "PENDING_DELETE"}
         /\ status[m] # "NONE" \/ m \in r.left \cap r.new
    /\ \A m \in r.left : m \in DOMAIN pending \/ status[m] # "NONE"
    /\ r.op = "pool" => r.left = Present(r.pool) /\ r.old = r.left /\ DOMAIN pending = {}

LEMMA ApiAdmits ==
    ASSUME IInv, Api PROVE \E r \in Flow : \E pending : Admission(r, pending)
<1>1. ASSUME NEW m \in Members, CreateMember(m)
      PROVE  \E r \in Flow : \E pending : Admission(r, pending)
  <2> DEFINE r == Request("create", PoolOf[m], {}, {m}, {})
             pending == [n \in {m} |-> "PENDING_CREATE"]
  <2>1. PoolOf[m] \in Pools /\ m \in MembersOf(PoolOf[m])
    BY Helpers DEF MembersOf
  <2>2. r \in Flow /\ TaskOf(r)
    BY <2>1 DEF Request, Flow, Steps, TaskOf, DeletingSteps, CreatingSteps
  <2>3. Admission(r, pending)
    BY <1>1, <2>1, <2>2 DEF CreateMember, Admission, Request
  <2> QED
    BY <2>2, <2>3
<1>2. ASSUME NEW m \in Members, DeleteMember(m)
      PROVE  \E r \in Flow : \E pending : Admission(r, pending)
  <2> DEFINE r == Request("delete", PoolOf[m], {m}, {}, {})
             pending == [n \in {m} |-> "PENDING_DELETE"]
  <2>1. PoolOf[m] \in Pools /\ m \in MembersOf(PoolOf[m])
    BY Helpers DEF MembersOf
  <2>2. r \in Flow /\ TaskOf(r)
    BY <2>1 DEF Request, Flow, Steps, TaskOf, DeletingSteps, CreatingSteps
  <2>3. Admission(r, pending)
    BY <1>2, <2>1, <2>2 DEF DeleteMember, Admission, Request
  <2> QED
    BY <2>2, <2>3
<1>3. ASSUME NEW m \in Members, UpdateMember(m)
      PROVE  \E r \in Flow : \E pending : Admission(r, pending)
  <2> DEFINE r == Request("update", PoolOf[m], {}, {}, {m})
             pending == [n \in {m} |-> "PENDING_UPDATE"]
  <2>1. PoolOf[m] \in Pools /\ m \in MembersOf(PoolOf[m])
    BY Helpers DEF MembersOf
  <2>2. r \in Flow /\ TaskOf(r)
    BY <2>1 DEF Request, Flow, Steps, TaskOf, DeletingSteps, CreatingSteps
  <2>3. Admission(r, pending)
    BY <1>3, <2>1, <2>2 DEF UpdateMember, Admission, Request
  <2> QED
    BY <2>2, <2>3
<1>4. ASSUME NEW p \in Pools, DeletePool(p)
      PROVE  \E r \in Flow : \E pending : Admission(r, pending)
  <2> DEFINE r == Request("pool", p, Present(p), {}, {})
  <2>1. Present(p) \subseteq MembersOf(p) /\ Present(p) \in SUBSET Members
    BY Helpers DEF Present
  <2>2. r \in Flow /\ TaskOf(r)
    BY <2>1 DEF Request, Flow, Steps, TaskOf, DeletingSteps, CreatingSteps
  <2>3. r.step = "queued" /\ r.pool = p /\ r.left = Present(p) /\ r.old = Present(p)
    BY DEF Request
  <2>4. Admit(r, <<>>) /\ DOMAIN <<>> = {}
    BY <1>4 DEF DeletePool
  <2> HIDE DEF r
  <2>5. Admission(r, <<>>)
    BY <2>2, <2>3, <2>4 DEF Admission, Present
  <2> QED
    BY <2>2, <2>5
<1>5. ASSUME NEW p \in Pools, NEW old \in SUBSET MembersOf(p), NEW new \in SUBSET MembersOf(p),
             BatchUpdate(p, old, new)
      PROVE  \E r \in Flow : \E pending : Admission(r, pending)
  <2> DEFINE upd == Present(p) \ old
             r == Request("batch", p, old, new, upd)
             pending == [m \in old \cup new \cup upd |->
                           IF m \in old THEN "PENDING_DELETE"
                           ELSE IF m \in new THEN "PENDING_CREATE" ELSE "PENDING_UPDATE"]
  <2>1. /\ upd \subseteq MembersOf(p) /\ upd \in SUBSET Members
        /\ old \in SUBSET Members /\ new \in SUBSET Members
    BY Helpers DEF Present
  <2>2. r \in Flow /\ TaskOf(r)
    BY <2>1 DEF Request, Flow, Steps, TaskOf, DeletingSteps, CreatingSteps
  <2>3. /\ r.step = "queued" /\ r.pool = p /\ r.left = old \cup new \cup upd
        /\ r.new = new /\ r.op = "batch"
    BY DEF Request
  <2>4. Admit(r, pending) /\ old \subseteq Present(p)
    BY <1>5 DEF BatchUpdate
  <2>5. /\ DOMAIN pending = old \cup new \cup upd
        /\ \A m \in DOMAIN pending :
             pending[m] \in {"PENDING_CREATE", "PENDING_UPDATE", "PENDING_DELETE"}
    OBVIOUS
  <2>6. \A m \in old \cup upd : status[m] # "NONE"
    BY <2>4 DEF Present
  <2> HIDE DEF r, pending
  <2>7. Admission(r, pending)
    BY <2>1, <2>2, <2>3, <2>4, <2>5, <2>6 DEF Admission
  <2> QED
    BY <2>2, <2>7
<1> QED
  BY <1>1, <1>2, <1>3, <1>4, <1>5 DEF Api

LEMMA ApiTask ==
    ASSUME TaskInv, IInv', NEW r \in Flow, NEW pending, Admission(r, pending)
    PROVE  TaskInv' /\ LocalStep(LbOf[r.pool])
BY AdmitTask DEF Admission

-----------------------------------------------------------------------------
(* ACTIVE members are served.                                              *)
LEMMA AtMostOne ==
    ASSUME NEW S, IsFiniteSet(S), Cardinality(S) <= 1, NEW x \in S, NEW y \in S
    PROVE  x = y
<1>1. IsFiniteSet(S \ {x}) /\ Cardinality(S \ {x}) = Cardinality(S) - 1
  BY FS_RemoveElement
<1>2. Cardinality(S \ {x}) \in Nat /\ Cardinality(S) \in Nat
  BY <1>1, FS_CardinalityType
<1>3. Cardinality(S \ {x}) = 0
  BY <1>1, <1>2
<1>4. S \ {x} = {}
  BY <1>1, <1>3, FS_EmptySet
<1> QED
  BY <1>4

LEMMA SetsFinite ==
    ASSUME NEW S \in SUBSET Members
    PROVE  /\ IsFiniteSet(S)
           /\ \A T : IsFiniteSet(S \cap T)
           /\ IsFiniteSet(PoolsOf(S))
<1>1. \A T : IsFiniteSet(S \cap T)
  BY ShapeAssumption, FS_Subset
<1>2. IsFiniteSet(S)
  BY ShapeAssumption, FS_Subset
<1>3. IsFiniteSet(PoolsOf(S))
  <2> DEFINE f == [n \in S |-> PoolOf[n]]
  <2>1. f \in Surjection(S, PoolsOf(S))
    BY DEF PoolsOf, Surjection
  <2> QED
    BY <1>2, <2>1, FS_Surjection
<1> QED
  BY <1>1, <1>2, <1>3

(* What the counts before a device call found.                             *)
CountSound(l) ==
    LET f == flow[l] 
    IN  /\ f.step \in {"dissociate", "remove", "poolremove"} => f.seen \subseteq WithAddr(AddrOf[f.cur])
        /\ f.step \in {"dissociate", "remove"} =>
             /\ f.cur \in f.seen
             /\ ~rack => \A n \in WithAddr(AddrOf[f.cur]) :
                             /\ n \in f.seen => status[n] # "NONE"
                             /\ status[n] = "ACTIVE" => n \in f.seen

Bound(m) == m \in sg \cup lost

(* A member that is not bound is one its flow has yet to delete or create. *)
Excused(m) ==
    LET f == flow[LbOfMember(m)] IN f.op # "pool" /\ m \in f.left \cap (f.old \cup f.new)

Served == \A m \in Members : status[m] # "NONE" => Bound(m) \/ Excused(m)

ActivatesBound(l) == flow[l].step = "activate" => Bound(flow[l].cur)

ServedInv == TaskInv /\ Served /\ \A l \in LBs : CountSound(l) /\ ActivatesBound(l)

(* The steps of a flow that does not run: no member becomes ACTIVE, no row *)
(* goes.                                                                   *)
QuietRows ==
    \A n \in Members : /\ status'[n] = "ACTIVE" => status[n] = "ACTIVE"
                       /\ status'[n] = "NONE" => status[n] = "NONE"

LEMMA InitServed == Init => ServedInv
<1> SUFFICES ASSUME Init PROVE ServedInv
  OBVIOUS
<1>1. TaskInv
  BY InitTask
<1>2. ASSUME NEW l \in LBs PROVE flow[l].step = "idle"
  BY IdleTask DEF Init
<1>3. \A l \in LBs : CountSound(l) /\ ActivatesBound(l)
  BY <1>2 DEF CountSound, ActivatesBound
<1>4. Served
  BY DEF Init, Served
<1> QED
  BY <1>1, <1>3, <1>4 DEF ServedInv

LEMMA CountOthers ==
    ASSUME ServedInv, NEW l \in LBs, LocalStep(l), Running(l) \/ QuietRows, NEW k \in LBs \ {l}
    PROVE  CountSound(k)'
<1>1. CountSound(k) /\ TaskOf(flow[k]) /\ flow'[k] = flow[k] /\ RunsAlone /\ rack' = rack
  BY DEF ServedInv, TaskInv, LocalStep
<1>2. ASSUME ~rack, flow[k].step \in {"dissociate", "remove"} PROVE QuietRows
  <2>1. Running(k) /\ flow[k].op \in Exclusive
    BY <1>1, <1>2 DEF Running, TaskOf, DeletingSteps, Exclusive
  <2> QED
    BY <1>1, <1>2, <2>1 DEF RunsAlone
<1>3. \A n \in WithAddr(AddrOf[flow[k].cur]) : n \in Members
  BY DEF WithAddr
<1> QED
  BY <1>1, <1>2, <1>3 DEF CountSound, QuietRows

(* A step of one flow: what is asked of it for its own members, and of     *)
(* those of the others.                                                    *)
LEMMA ServedStep ==
    ASSUME ServedInv, TaskInv', NEW l \in LBs, LocalStep(l), Running(l) \/ QuietRows,
           CountSound(l)', ActivatesBound(l)',
           \A m \in Members \ OwnMembers(l) : status[m] # "NONE" /\ Bound(m) => Bound(m)',
           \A m \in OwnMembers(l) :
               status'[m] # "NONE" => \/ Bound(m)'
                                      \/ /\ flow'[l].op # "pool"
                                         /\ m \in flow'[l].left \cap (flow'[l].old \cup flow'[l].new)
    PROVE  ServedInv'
<1>1. \A k \in LBs \ {l} : CountSound(k)'
  BY CountOthers
<1>2. ASSUME NEW k \in LBs \ {l} PROVE ActivatesBound(k)'
  <2> SUFFICES ASSUME flow[k].step = "activate" PROVE Bound(flow[k].cur)'
    BY DEF ActivatesBound, LocalStep
  <2>1. flow[k].cur \in OwnMembers(k) /\ status[flow[k].cur] # "NONE" /\ Bound(flow[k].cur)
    BY DEF ServedInv, TaskInv, IInv, FlowInv, FlowOwn, CreatingHasRow, WorkSteps, ActivatesBound
  <2>2. flow[k].cur \in Members \ OwnMembers(l)
    BY <2>1, Helpers
  <2>3. Bound(flow[k].cur) => \E m \in Members \ OwnMembers(l) : m = flow[k].cur /\ Bound(m)'
    BY <2>1, <2>2
  <2> QED
    BY <2>1, <2>3, flow'[k].cur = flow[k].cur DEF Bound, LocalStep
<1>3. ASSUME NEW m \in Members, status'[m] # "NONE" PROVE Bound(m)' \/ Excused(m)'
  <2>1. CASE m \in OwnMembers(l)
    <3>1. LbOfMember(m) = l
      BY <2>1 DEF OwnMembers
    <3> QED
      BY <1>3, <2>1, <3>1 DEF Excused
  <2>2. CASE m \notin OwnMembers(l)
    <3>1. status'[m] = status[m] /\ LbOfMember(m) \in LBs \ {l}
      BY <2>2, Helpers DEF LocalStep, OwnMembers
    <3>2. flow'[LbOfMember(m)] = flow[LbOfMember(m)]
      BY <3>1 DEF LocalStep
    <3>3. Bound(m) \/ Excused(m)
      BY <1>3, <3>1 DEF ServedInv, Served
    <3>4. CASE Bound(m)
      BY <1>3, <2>2, <3>1, <3>4
    <3>5. CASE Excused(m)
      BY <3>2, <3>5 DEF Excused
    <3> QED
      BY <3>3, <3>4, <3>5
  <2> QED
    BY <2>1, <2>2
<1> QED
  BY <1>1, <1>2, <1>3 DEF ServedInv, Served

LEMMA OwnServed ==
    ASSUME ServedInv, NEW l \in LBs, NEW m \in OwnMembers(l), status[m] # "NONE"
    PROVE  Bound(m) \/ (flow[l].op # "pool" /\ m \in flow[l].left \cap (flow[l].old \cup flow[l].new))
BY DEF ServedInv, Served, Excused, OwnMembers

-----------------------------------------------------------------------------
LEMMA ApiServed ==
    ASSUME ServedInv, Api PROVE ServedInv'
<1>1. IInv /\ IInv' /\ TaskInv
  BY ApiInv DEF ServedInv, TaskInv
<1>2. PICK r \in Flow : \E pending : Admission(r, pending)
  BY <1>1, ApiAdmits
<1>3. PICK pending : Admission(r, pending)
  BY <1>2
<1> DEFINE l == LbOf[r.pool]
<1>4. TaskInv' /\ LocalStep(l) /\ l \in LBs
  BY <1>1, <1>3, ApiTask, Helpers DEF Admission
<1>5. /\ flow[l].step = "idle" /\ flow' = [flow EXCEPT ![l] = r]
      /\ status' = [m \in Members |-> IF m \in DOMAIN pending THEN pending[m] ELSE status[m]]
      /\ UNCHANGED <<device, hist>>
  BY <1>3 DEF Admission, Admit
<1> HIDE DEF l
<1>6. flow'[l] = r /\ r.step = "queued" /\ TaskOf(r) /\ TaskOf(flow[l])
  BY <1>1, <1>3, <1>4, <1>5 DEF Admission, TaskInv, IInv, TypeOK
<1>7. QuietRows
  BY <1>3, <1>5 DEF QuietRows, Admission
<1>8. CountSound(l)' /\ ActivatesBound(l)'
  BY <1>6 DEF CountSound, ActivatesBound
<1>9. \A m \in Members : Bound(m) => Bound(m)'
  BY <1>5 DEF Bound, device, hist
<1>10. ASSUME NEW m \in OwnMembers(l), status'[m] # "NONE"
       PROVE  Bound(m)' \/ (r.op # "pool" /\ m \in r.left \cap (r.old \cup r.new))
  <2>1. m \in Members
    BY DEF OwnMembers
  <2>2. CASE status[m] # "NONE"
    BY <2>1, <2>2, <1>4, <1>5, <1>6, <1>9, OwnServed DEF TaskOf
  <2>3. CASE status[m] = "NONE"
    <3>1. m \in r.left \cap r.new
      BY <2>1, <2>3, <1>3, <1>5, <1>10 DEF Admission
    <3> QED
      BY <3>1, <1>6 DEF TaskOf
  <2> QED
    BY <2>2, <2>3
<1> QED
  BY <1>4, <1>6, <1>7, <1>8, <1>9, <1>10, ServedStep DEF ServedInv

(* A flow ends in error: what it leaves unbound is recorded.               *)
LEMMA EndInErrorServed ==
    ASSUME ServedInv, NEW l \in LBs, flow[l].step # "idle", EndInError(l) PROVE ServedInv'
<1>1. TaskInv /\ TaskInv' /\ LocalStep(l) /\ TypeOK
  BY EndInErrorTask DEF ServedInv, TaskInv, IInv
<1>2. /\ flow' = [flow EXCEPT ![l] = Idle] /\ sg' = sg
      /\ lost' = lost \cup {m \in (flow[l].old \cup flow[l].new) \ sg : status[m] # "NONE"}
  BY DEF EndInError, device
<1>3. flow'[l].step = "idle"
  BY <1>1, <1>2, IdleTask DEF TypeOK
<1>4. QuietRows
  BY <1>1 DEF QuietRows, EndInError, TypeOK
<1>5. CountSound(l)' /\ ActivatesBound(l)'
  BY <1>3 DEF CountSound, ActivatesBound
<1>6. \A m \in Members : Bound(m) => Bound(m)'
  BY <1>2 DEF Bound
<1>7. ASSUME NEW m \in OwnMembers(l), status'[m] # "NONE" PROVE Bound(m)'
  <2>1. m \in Members
    BY DEF OwnMembers
  <2>2. status[m] # "NONE"
    BY <1>1, <1>7, <2>1 DEF EndInError
  <2> QED
    BY <1>2, <2>2, OwnServed DEF Bound
<1> QED
  BY <1>1, <1>4, <1>5, <1>6, <1>7, ServedStep

(* The steps of a flow that keep every row, every binding and its task.    *)
LEMMA ServedWaits ==
    ASSUME ServedInv, TaskInv', NEW l \in LBs, LocalStep(l), NEW r \in Flow,
           flow' = [flow EXCEPT ![l] = r],
           r.op = flow[l].op, r.old = flow[l].old, r.new = flow[l].new, r.left = flow[l].left,
           \A n \in Members : status'[n] # "NONE" => status[n] # "NONE",
           Running(l) \/ QuietRows,
           \A m \in Members : Bound(m) => Bound(m)',
           CountSound(l)', ActivatesBound(l)'
    PROVE  ServedInv'
<1>1. flow'[l] = r
  BY DEF ServedInv, TaskInv, IInv, TypeOK
<1>2. OwnMembers(l) \subseteq Members
  BY Helpers
<1> QED
  BY <1>1, <1>2, OwnServed, ServedStep

LEMMA BeginServed == ASSUME ServedInv, NEW l \in LBs, Begin(l) PROVE ServedInv'
<1> DEFINE r == [flow[l] EXCEPT !.step = "next"]
<1>1. TaskInv' /\ LocalStep(l) /\ flow \in [LBs -> Flow]
  BY BeginTask DEF ServedInv, TaskInv, IInv, TypeOK
<1>2. flow' = [flow EXCEPT ![l] = r] /\ UNCHANGED <<status, sg, lost>>
  BY DEF Begin, db, device, hist
<1>3. /\ r \in Flow /\ r.step = "next" /\ r.op = flow[l].op /\ r.old = flow[l].old
      /\ r.new = flow[l].new /\ r.left = flow[l].left
  BY <1>1 DEF Flow, Steps
<1>4. CountSound(l)' /\ ActivatesBound(l)'
  BY <1>1, <1>2, <1>3 DEF CountSound, ActivatesBound
<1>5. QuietRows /\ \A m \in Members : Bound(m) => Bound(m)'
  BY <1>2 DEF QuietRows, Bound
<1> HIDE DEF r
<1> QED
  BY <1>1, <1>2, <1>3, <1>4, <1>5, ServedWaits

LEMMA AbandonBatchServed == ASSUME ServedInv, NEW l \in LBs, AbandonBatch(l) PROVE ServedInv'
<1> DEFINE r == [flow[l] EXCEPT !.step = "abandoned"]
<1>1. TaskInv' /\ LocalStep(l) /\ flow \in [LBs -> Flow]
  BY AbandonBatchTask DEF ServedInv, TaskInv, IInv, TypeOK
<1>2. flow' = [flow EXCEPT ![l] = r] /\ UNCHANGED <<status, sg, lost>>
  BY DEF AbandonBatch, db, device, hist
<1>3. /\ r \in Flow /\ r.step = "abandoned" /\ r.op = flow[l].op /\ r.old = flow[l].old
      /\ r.new = flow[l].new /\ r.left = flow[l].left
  BY <1>1 DEF Flow, Steps
<1>4. CountSound(l)' /\ ActivatesBound(l)'
  BY <1>1, <1>2, <1>3 DEF CountSound, ActivatesBound
<1>5. QuietRows /\ \A m \in Members : Bound(m) => Bound(m)'
  BY <1>2 DEF QuietRows, Bound
<1> HIDE DEF r
<1> QED
  BY <1>1, <1>2, <1>3, <1>4, <1>5, ServedWaits

(* The count of a deletion finds the member itself and every ACTIVE one.   *)
LEMMA CountForDeleteServed ==
    ASSUME ServedInv, NEW l \in LBs, NEW m \in Members, CountForDelete(l, m) PROVE ServedInv'
<1> DEFINE marked == [status EXCEPT ![m] = "PENDING_DELETE"]
           seen == {n \in WithAddr(AddrOf[m]) : marked[n] \in CountedStatus}
           r == [flow[l] EXCEPT !.step = "dissociate", !.cur = m, !.seen = seen]
<1>1. TaskInv' /\ LocalStep(l) /\ TypeOK /\ RowsOf(l) /\ FlowOwn(l)
  BY CountForDeleteTask DEF ServedInv, TaskInv, IInv, FlowInv
<1>2. /\ flow[l].step = "next" /\ m \in flow[l].left
      /\ flow' = [flow EXCEPT ![l] = r] /\ status' = marked /\ UNCHANGED <<sg, lost>>
  BY DEF CountForDelete, device, hist
<1>3. seen \in SUBSET Members /\ m \in seen /\ seen \subseteq WithAddr(AddrOf[m])
  BY <1>1 DEF WithAddr, CountedStatus, TypeOK
<1>4. \A n \in WithAddr(AddrOf[m]) : /\ n \in seen => status'[n] # "NONE"
                                     /\ status'[n] = "ACTIVE" => n \in seen
  BY <1>2 DEF CountedStatus
<1>5. Running(l) /\ status[m] # "NONE"
  BY <1>1, <1>2 DEF Running, RowsOf
<1>6. \A n \in Members : status'[n] # "NONE" => status[n] # "NONE"
  BY <1>1, <1>2, <1>5 DEF TypeOK
<1> HIDE DEF marked, seen
<1>7. /\ r \in Flow /\ r.step = "dissociate" /\ r.op = flow[l].op /\ r.old = flow[l].old
      /\ r.new = flow[l].new /\ r.left = flow[l].left /\ r.cur = m /\ r.seen = seen
  BY <1>1, <1>3 DEF Flow, Steps, TypeOK
<1> HIDE DEF r
<1>8. flow'[l] = r
  BY <1>1, <1>2 DEF TypeOK
<1>9. CountSound(l)' /\ ActivatesBound(l)'
  <2>1. ActivatesBound(l)'
    BY <1>7, <1>8 DEF ActivatesBound
  <2>2. CountSound(l)'
    BY <1>3, <1>4, <1>7, <1>8 DEF CountSound
  <2> QED
    BY <2>1, <2>2
<1>10. \A n \in Members : Bound(n) => Bound(n)'
  BY <1>2 DEF Bound
<1> QED
  BY <1>1, <1>2, <1>5, <1>6, <1>7, <1>9, <1>10, ServedWaits

LEMMA DissociateServed == ASSUME ServedInv, NEW l \in LBs, Dissociate(l) PROVE ServedInv'
<1> DEFINE m == flow[l].cur
           r == IF m \in sg THEN [flow[l] EXCEPT !.step = "remove"]
                            ELSE [flow[l] EXCEPT !.step = "row", !.seen = {}]
<1>1. /\ TaskInv' /\ LocalStep(l) /\ flow \in [LBs -> Flow] /\ TaskOf(flow[l]) /\ FlowOwn(l)
      /\ CountSound(l)
  BY DissociateTask DEF ServedInv, TaskInv, IInv, TypeOK, FlowInv
<1>2. /\ flow[l].step = "dissociate" /\ flow' = [flow EXCEPT ![l] = r] /\ sg' = sg \ {m}
      /\ UNCHANGED <<status, lost, rack>>
  BY DEF Dissociate, db
<1>3. Running(l) /\ m \in flow[l].left \cap flow[l].old /\ flow[l].op # "pool" /\ m \in OwnMembers(l)
  BY <1>1, <1>2 DEF Running, TaskOf, DeletingSteps, FlowOwn
<1>4. /\ r.op = flow[l].op /\ r.old = flow[l].old /\ r.new = flow[l].new /\ r.left = flow[l].left
      /\ \/ r.step = "remove" /\ r.cur = m /\ r.seen = flow[l].seen
         \/ r.step = "row"
  <2>1. flow[l] \in Flow
    BY <1>1
  <2>2. CASE m \in sg
    BY <2>1, <2>2 DEF Flow
  <2>3. CASE m \notin sg
    BY <2>1, <2>3 DEF Flow
  <2> QED
    BY <2>2, <2>3
<1> HIDE DEF r
<1>5. flow'[l] = r
  BY <1>1, <1>2
<1>6. CountSound(l)' /\ ActivatesBound(l)'
  <2>1. CASE r.step = "remove" /\ r.cur = m /\ r.seen = flow[l].seen
    <3> HIDE DEF m
    <3>1. ActivatesBound(l)'
      BY <2>1, <1>5 DEF ActivatesBound
    <3>2. /\ flow[l].seen \subseteq WithAddr(AddrOf[m]) /\ m \in flow[l].seen
          /\ ~rack => \A n \in WithAddr(AddrOf[m]) :
                          /\ n \in flow[l].seen => status[n] # "NONE"
                          /\ status[n] = "ACTIVE" => n \in flow[l].seen
      BY <1>1, <1>2 DEF CountSound, m
    <3>3. CountSound(l)'
      BY <2>1, <3>2, <1>2, <1>5 DEF CountSound
    <3> QED
      BY <3>1, <3>3
  <2>2. CASE r.step = "row"
    BY <2>2, <1>5 DEF CountSound, ActivatesBound
  <2> QED
    BY <2>1, <2>2, <1>4
<1>7. \A n \in Members : n # m => (Bound(n) => Bound(n)')
  BY <1>2 DEF Bound
<1>8. ASSUME NEW n \in OwnMembers(l), status'[n] # "NONE"
      PROVE  Bound(n)' \/ (r.op # "pool" /\ n \in r.left \cap (r.old \cup r.new))
  <2>1. CASE n = m
    BY <2>1, <1>3, <1>4
  <2>2. CASE n # m
    BY <2>2, <1>2, <1>4, <1>7, <1>8, OwnServed, Helpers
  <2> QED
    BY <2>1, <2>2
<1> HIDE DEF m
<1> QED
  BY <1>1, <1>3, <1>5, <1>6, <1>7, <1>8, ServedStep

(* The second call takes from another member only what its count did not   *)
(* find: that is recorded, and on a vThunder it is not ACTIVE.             *)
LEMMA RemoveServerDrops ==
    ASSUME ServedInv, NEW l \in LBs, RemoveServer(l), NEW n \in sg, n \notin sg'
    PROVE  n \in lost'
<1> DEFINE m == flow[l].cur
           seen == flow[l].seen
<1>1. /\ flow[l].step = "remove" /\ CountSound(l) /\ FlowInv(l) /\ flow[l] \in Flow /\ sg \subseteq Members
      /\ TypeOK
  BY DEF RemoveServer, ServedInv, TaskInv, IInv, TypeOK
<1>2. seen \in SUBSET Members /\ m \in seen /\ m \notin sg /\ m \in Members
  BY <1>1, Helpers DEF CountSound, FlowInv, RowsGoLast, FlowOwn, WorkSteps, Flow
<1>3. n \in WithAddr(AddrOf[m])
  BY <1>1 DEF RemoveServer, DropServer, DropPort, SamePort, device, WithAddr, TypeOK
<1>4. n \notin seen
  <2> SUFFICES ASSUME n \in seen PROVE FALSE
    OBVIOUS
  <2>1. n # m
    BY <1>2
  <2>2. CASE Cardinality(seen) <= 1
    BY <1>2, <2>1, <2>2, AtMostOne, SetsFinite
  <2>3. CASE Cardinality(seen \cap SamePort(m)) <= 1 /\ DropPort(m)
    <3>1. n \in seen \cap SamePort(m) /\ m \in seen \cap SamePort(m)
      BY <1>2, <2>3 DEF DropPort, SamePort, WithAddr
    <3> QED
      BY <1>2, <2>1, <2>3, <3>1, AtMostOne, SetsFinite
  <2>4. CASE UNCHANGED device
    BY <2>4 DEF device
  <2> QED
    BY <2>2, <2>3, <2>4 DEF RemoveServer
<1>5. ~rack => status[n] # "ACTIVE"
  BY <1>1, <1>3, <1>4 DEF CountSound
<1>6. lost' = lost \cup {k \in sg \ sg' : IF rack THEN k \notin seen ELSE status[k] # "ACTIVE"}
  BY DEF RemoveServer
<1> QED
  BY <1>4, <1>5, <1>6

LEMMA RemoveServerServed == ASSUME ServedInv, NEW l \in LBs, RemoveServer(l) PROVE ServedInv'
<1> DEFINE r == [flow[l] EXCEPT !.step = "row", !.seen = {}]
<1>1. TaskInv' /\ LocalStep(l) /\ flow \in [LBs -> Flow]
  BY RemoveServerTask DEF ServedInv, TaskInv, IInv, TypeOK
<1>2. flow[l].step = "remove" /\ flow' = [flow EXCEPT ![l] = r] /\ status' = status /\ lost \subseteq lost'
  BY DEF RemoveServer, db
<1>3. /\ r \in Flow /\ r.step = "row" /\ r.op = flow[l].op /\ r.old = flow[l].old
      /\ r.new = flow[l].new /\ r.left = flow[l].left
  BY <1>1 DEF Flow, Steps
<1>4. CountSound(l)' /\ ActivatesBound(l)' /\ Running(l)
  BY <1>1, <1>2, <1>3 DEF CountSound, ActivatesBound, Running
<1>5. \A m \in Members : Bound(m) => Bound(m)'
  BY <1>2, RemoveServerDrops DEF Bound
<1> HIDE DEF r
<1> QED
  BY <1>1, <1>2, <1>3, <1>4, <1>5, ServedWaits

LEMMA DeleteRowServed == ASSUME ServedInv, NEW l \in LBs, DeleteRow(l) PROVE ServedInv'
<1> DEFINE m == flow[l].cur
           r == [flow[l] EXCEPT !.step = "next", !.left = @ \ {m}, !.cur = None]
<1>1. TaskInv' /\ LocalStep(l) /\ TypeOK /\ FlowOwn(l)
  BY DeleteRowTask DEF ServedInv, TaskInv, IInv, FlowInv
<1>2. /\ flow[l].step = "row" /\ flow' = [flow EXCEPT ![l] = r] /\ sg' = sg /\ lost' = lost \ {m}
      /\ status' = [status EXCEPT ![m] = "NONE"]
  BY DEF DeleteRow, device
<1>3. /\ r.step = "next" /\ r.op = flow[l].op /\ r.old = flow[l].old /\ r.new = flow[l].new
      /\ r.left = flow[l].left \ {m}
  BY <1>1 DEF TypeOK, Flow
<1>4. Running(l) /\ m \in OwnMembers(l)
  BY <1>1, <1>2 DEF Running, FlowOwn, WorkSteps
<1> HIDE DEF r
<1>5. flow'[l] = r
  BY <1>1, <1>2 DEF TypeOK
<1>6. CountSound(l)' /\ ActivatesBound(l)'
  BY <1>3, <1>5 DEF CountSound, ActivatesBound
<1>7. \A n \in Members : n # m => (Bound(n) => Bound(n)') /\ status'[n] = status[n]
  BY <1>1, <1>2 DEF Bound, TypeOK
<1>8. ASSUME NEW n \in OwnMembers(l), status'[n] # "NONE"
      PROVE  Bound(n)' \/ (r.op # "pool" /\ n \in r.left \cap (r.old \cup r.new))
  <2>1. n \in Members /\ n # m
    BY <1>1, <1>2, <1>4, <1>8, Helpers DEF TypeOK
  <2>2. status[n] # "NONE"
    BY <2>1, <1>7, <1>8
  <2> QED
    BY <2>1, <2>2, <1>3, <1>7, OwnServed
<1> HIDE DEF m
<1> QED
  BY <1>1, <1>4, <1>5, <1>6, <1>7, <1>8, ServedStep

LEMMA CountForCreateServed ==
    ASSUME ServedInv, NEW l \in LBs, NEW m \in Members, CountForCreate(l, m) PROVE ServedInv'
<1> DEFINE r == [flow[l] EXCEPT !.step = "server", !.cur = m,
                                !.seen = CountedWithAddr(AddrOf[m]) \ {m}]
<1>1. TaskInv' /\ LocalStep(l) /\ TypeOK /\ RowsOf(l)
  BY CountForCreateTask DEF ServedInv, TaskInv, IInv
<1>2. /\ flow[l].step = "next" /\ m \in flow[l].left
      /\ status' = [status EXCEPT ![m] = "PENDING_CREATE"]
      /\ flow' = [flow EXCEPT ![l] = r] /\ UNCHANGED <<sg, lost>>
  BY DEF CountForCreate, device, hist
<1>3. CountedWithAddr(AddrOf[m]) \ {m} \in SUBSET Members
  BY DEF CountedWithAddr, WithAddr
<1>4. /\ r \in Flow /\ r.step = "server" /\ r.op = flow[l].op /\ r.old = flow[l].old
      /\ r.new = flow[l].new /\ r.left = flow[l].left
  BY <1>1, <1>3 DEF Flow, Steps, TypeOK
<1>5. Running(l) /\ status[m] # "NONE"
  BY <1>1, <1>2 DEF Running, RowsOf
<1> HIDE DEF r
<1>6. flow'[l] = r
  BY <1>1, <1>2 DEF TypeOK
<1>7. CountSound(l)' /\ ActivatesBound(l)'
  BY <1>4, <1>6 DEF CountSound, ActivatesBound
<1>8. \A n \in Members : status'[n] # "NONE" => status[n] # "NONE"
  BY <1>1, <1>2, <1>5 DEF TypeOK
<1>9. \A n \in Members : Bound(n) => Bound(n)'
  BY <1>2 DEF Bound
<1> QED
  BY <1>1, <1>2, <1>4, <1>5, <1>7, <1>8, <1>9, ServedWaits

LEMMA PutServerServed == ASSUME ServedInv, NEW l \in LBs, PutServer(l) PROVE ServedInv'
<1> DEFINE r == [flow[l] EXCEPT !.step = "associate", !.seen = {},
                                !.made = @ \cup {[m |-> flow[l].cur, seen |-> flow[l].seen]}]
<1>1. TaskInv' /\ LocalStep(l) /\ flow \in [LBs -> Flow] /\ flow' \in [LBs -> Flow]
  BY PutServerTask DEF ServedInv, TaskInv, IInv, TypeOK
<1>2. flow[l].step = "server" /\ flow' = [flow EXCEPT ![l] = r] /\ UNCHANGED <<status, sg, lost>>
  BY DEF PutServer, db, hist
<1>3. /\ r.step = "associate" /\ r.op = flow[l].op /\ r.old = flow[l].old
      /\ r.new = flow[l].new /\ r.left = flow[l].left
  BY <1>1 DEF Flow
<1> HIDE DEF r
<1>4. flow'[l] = r /\ r \in Flow
  BY <1>1, <1>2
<1>5. CountSound(l)' /\ ActivatesBound(l)' /\ Running(l)
  BY <1>2, <1>3, <1>4 DEF CountSound, ActivatesBound, Running
<1>6. \A n \in Members : Bound(n) => Bound(n)'
  BY <1>2 DEF Bound
<1> QED
  BY <1>1, <1>2, <1>3, <1>4, <1>5, <1>6, ServedWaits

LEMMA AssociateServed == ASSUME ServedInv, NEW l \in LBs, Associate(l) PROVE ServedInv'
<1> DEFINE r == [flow[l] EXCEPT !.step = "activate"]
<1>1. TaskInv' /\ LocalStep(l) /\ flow \in [LBs -> Flow]
  BY AssociateTask DEF ServedInv, TaskInv, IInv, TypeOK
<1>2. /\ flow[l].step = "associate" /\ flow' = [flow EXCEPT ![l] = r] /\ status' = status
      /\ sg' = sg \cup {flow[l].cur} /\ lost' = lost \ {flow[l].cur}
  BY DEF Associate, db
<1>3. /\ r \in Flow /\ r.step = "activate" /\ r.op = flow[l].op /\ r.old = flow[l].old
      /\ r.new = flow[l].new /\ r.left = flow[l].left /\ r.cur = flow[l].cur
  BY <1>1 DEF Flow, Steps
<1> HIDE DEF r
<1>4. flow'[l] = r
  BY <1>1, <1>2
<1>5. CountSound(l)' /\ ActivatesBound(l)' /\ Running(l)
  BY <1>2, <1>3, <1>4 DEF CountSound, ActivatesBound, Running, Bound
<1>6. \A n \in Members : Bound(n) => Bound(n)'
  BY <1>2 DEF Bound
<1> QED
  BY <1>1, <1>2, <1>3, <1>5, <1>6, ServedWaits

LEMMA ActivateServed == ASSUME ServedInv, NEW l \in LBs, Activate(l) PROVE ServedInv'
<1> DEFINE m == flow[l].cur
           r == [flow[l] EXCEPT !.step = "next", !.left = @ \ {m}, !.cur = None]
<1>1. TaskInv' /\ LocalStep(l) /\ TypeOK /\ ActivatesBound(l) /\ CreatingHasRow(l)
  BY ActivateTask DEF ServedInv, TaskInv, IInv, FlowInv
<1>2. /\ flow[l].step = "activate" /\ flow' = [flow EXCEPT ![l] = r] /\ UNCHANGED <<sg, lost>>
      /\ status' = [status EXCEPT ![m] = "ACTIVE"]
  BY DEF Activate, device, hist
<1>3. /\ r.step = "next" /\ r.op = flow[l].op /\ r.old = flow[l].old /\ r.new = flow[l].new
      /\ r.left = flow[l].left \ {m}
  BY <1>1 DEF TypeOK, Flow
<1> HIDE DEF r
<1>4. flow'[l] = r
  BY <1>1, <1>2 DEF TypeOK
<1>5. CountSound(l)' /\ ActivatesBound(l)' /\ Running(l)
  BY <1>2, <1>3, <1>4 DEF CountSound, ActivatesBound, Running
<1>6. \A n \in Members : (Bound(n) => Bound(n)') /\ (status'[n] # "NONE" => status[n] # "NONE")
  BY <1>1, <1>2 DEF Bound, TypeOK, CreatingHasRow
<1>7. ASSUME NEW n \in OwnMembers(l), status'[n] # "NONE"
      PROVE  Bound(n)' \/ (r.op # "pool" /\ n \in r.left \cap (r.old \cup r.new))
  <2>1. n \in Members
    BY DEF OwnMembers
  <2>2. CASE n = m
    BY <2>1, <2>2, <1>1, <1>2, <1>6 DEF ActivatesBound
  <2>3. CASE n # m
    BY <2>1, <2>3, <1>3, <1>6, <1>7, OwnServed
  <2> QED
    BY <2>2, <2>3
<1> HIDE DEF m
<1> QED
  BY <1>1, <1>4, <1>5, <1>6, <1>7, ServedStep

(* A member that is updated is neither deleted nor created by its flow.    *)
LEMMA UpdateServerServed ==
    ASSUME ServedInv, NEW l \in LBs, NEW m \in Members, UpdateServer(l, m) PROVE ServedInv'
<1> DEFINE r == [flow[l] EXCEPT !.left = @ \ {m}]
<1>1. TaskInv' /\ LocalStep(l) /\ TypeOK /\ RowsOf(l)
  BY UpdateServerTask DEF ServedInv, TaskInv, IInv
<1>2. /\ flow[l].step = "next" /\ flow' = [flow EXCEPT ![l] = r] /\ UNCHANGED <<sg, lost>>
      /\ status' = [status EXCEPT ![m] = "ACTIVE"]
      /\ flow[l].left \cap (flow[l].old \cup flow[l].new) = {} /\ m \in flow[l].left
  BY DEF UpdateServer, device, hist
<1>3. /\ r.step = "next" /\ r.op = flow[l].op /\ r.old = flow[l].old /\ r.new = flow[l].new
      /\ r.left = flow[l].left \ {m}
  BY <1>1, <1>2 DEF TypeOK, Flow
<1> HIDE DEF r
<1>4. flow'[l] = r
  BY <1>1, <1>2 DEF TypeOK
<1>5. CountSound(l)' /\ ActivatesBound(l)' /\ Running(l)
  BY <1>2, <1>3, <1>4 DEF CountSound, ActivatesBound, Running
<1>6. \A n \in Members : (Bound(n) => Bound(n)') /\ (status'[n] # "NONE" => status[n] # "NONE")
  BY <1>1, <1>2 DEF Bound, TypeOK, RowsOf
<1>7. ASSUME NEW n \in OwnMembers(l), status'[n] # "NONE" PROVE Bound(n)'
  <2>1. n \in Members /\ status[n] # "NONE"
    BY <1>6, <1>7 DEF OwnMembers
  <2> QED
    BY <2>1, <1>2, <1>6, OwnServed
<1> QED
  BY <1>1, <1>4, <1>5, <1>6, <1>7, ServedStep

LEMMA FinishServed == ASSUME ServedInv, NEW l \in LBs, Finish(l) PROVE ServedInv'
<1>1. TaskInv' /\ LocalStep(l) /\ TypeOK
  BY FinishTask DEF ServedInv, TaskInv, IInv
<1>2. /\ flow[l].step = "next" /\ flow[l].left = {} /\ flow' = [flow EXCEPT ![l] = Idle]
      /\ UNCHANGED <<status, sg, lost>>
  BY DEF Finish, device, hist
<1> HIDE DEF Idle
<1>3. flow'[l].step = "idle"
  BY <1>1, <1>2, IdleTask DEF TypeOK
<1>4. CountSound(l)' /\ ActivatesBound(l)' /\ Running(l)
  BY <1>2, <1>3 DEF CountSound, ActivatesBound, Running
<1>5. \A n \in Members : Bound(n) => Bound(n)'
  BY <1>2 DEF Bound
<1>6. \A n \in OwnMembers(l) : n \in Members /\ (status'[n] # "NONE" => Bound(n)')
  BY <1>2, <1>5, OwnServed DEF OwnMembers
<1> QED
  BY <1>1, <1>4, <1>5, <1>6, ServedStep

LEMMA CountForPoolServed ==
    ASSUME ServedInv, NEW l \in LBs, NEW m \in Members, CountForPool(l, m) PROVE ServedInv'
<1> DEFINE r == [flow[l] EXCEPT !.step = "poolremove", !.cur = m,
                                !.seen = CountedWithAddr(AddrOf[m])]
<1>1. TaskInv' /\ LocalStep(l) /\ TypeOK
  BY CountForPoolTask DEF ServedInv, TaskInv, IInv
<1>2. /\ flow[l].step = "next" /\ flow' = [flow EXCEPT ![l] = r] /\ UNCHANGED <<status, sg, lost>>
  BY DEF CountForPool, db, device, hist
<1>3. CountedWithAddr(AddrOf[m]) \in SUBSET Members
      /\ CountedWithAddr(AddrOf[m]) \subseteq WithAddr(AddrOf[m])
  BY DEF CountedWithAddr, WithAddr
<1>4. /\ r \in Flow /\ r.step = "poolremove" /\ r.op = flow[l].op /\ r.old = flow[l].old
      /\ r.new = flow[l].new /\ r.left = flow[l].left
      /\ r.cur = m /\ r.seen = CountedWithAddr(AddrOf[m])
  BY <1>1, <1>3 DEF Flow, Steps, TypeOK
<1> HIDE DEF r
<1>5. flow'[l] = r
  BY <1>1, <1>2 DEF TypeOK
<1>6. CountSound(l)' /\ ActivatesBound(l)' /\ Running(l)
  BY <1>2, <1>3, <1>4, <1>5 DEF CountSound, ActivatesBound, Running
<1>7. \A n \in Members : Bound(n) => Bound(n)'
  BY <1>2 DEF Bound
<1> QED
  BY <1>1, <1>2, <1>4, <1>6, <1>7, ServedWaits

(* What a pool deletion takes from a member of another pool is recorded:   *)
(* had its count found both, it would have found two.                      *)
LEMMA RemovePoolServerDrops ==
    ASSUME ServedInv, NEW l \in LBs, RemovePoolServer(l), NEW n \in sg, n \notin sg'
    PROVE  n \in lost'
<1> DEFINE m == flow[l].cur
           seen == flow[l].seen
<1>1. /\ flow[l].step = "poolremove" /\ TypeOK /\ flow[l] \in Flow /\ sg \subseteq Members
  BY DEF RemovePoolServer, ServedInv, TaskInv, IInv, TypeOK
<1>2. seen \in SUBSET Members
  BY <1>1 DEF Flow
<1>3. lost' = lost \cup {k \in sg \ sg' : \/ k \notin seen
                                          \/ m \notin seen
                                          \/ PoolOf[k] = PoolOf[m]}
  BY DEF RemovePoolServer
<1>4. ASSUME n \in seen, m \in seen, PoolOf[n] # PoolOf[m] PROVE FALSE
  <2>1. CASE Cardinality(PoolsOf(seen)) <= 1
    <3>1. PoolOf[n] \in PoolsOf(seen) /\ PoolOf[m] \in PoolsOf(seen)
      BY <1>4 DEF PoolsOf
    <3> QED
      BY <1>2, <1>4, <2>1, <3>1, AtMostOne, SetsFinite
  <2>2. CASE Cardinality(seen \cap SamePort(m)) <= 1 /\ DropPort(m)
    <3>1. n \in seen \cap SamePort(m) /\ m \in seen \cap SamePort(m)
      BY <1>2, <1>4, <2>2 DEF DropPort, SamePort, WithAddr
    <3> QED
      BY <1>2, <1>4, <2>2, <3>1, AtMostOne, SetsFinite
  <2>3. CASE UNCHANGED device
    BY <2>3 DEF device
  <2> QED
    BY <2>1, <2>2, <2>3 DEF RemovePoolServer
<1> QED
  BY <1>3, <1>4

LEMMA RemovePoolServerServed == ASSUME ServedInv, NEW l \in LBs, RemovePoolServer(l) PROVE ServedInv'
<1> DEFINE m == flow[l].cur
           r == [flow[l] EXCEPT !.step = "next", !.left = @ \ {m}, !.cur = None, !.seen = {}]
<1>1. TaskInv' /\ LocalStep(l) /\ TypeOK /\ TaskOf(flow[l])
  BY RemovePoolServerTask DEF ServedInv, TaskInv, IInv
<1>2. /\ flow[l].step = "poolremove" /\ flow' = [flow EXCEPT ![l] = r] /\ status' = status
      /\ lost \subseteq lost'
  BY DEF RemovePoolServer, db
<1>3. r.step = "next" /\ flow[l].op = "pool"
  BY <1>1, <1>2 DEF TypeOK, Flow, TaskOf
<1> HIDE DEF r
<1>4. flow'[l] = r
  BY <1>1, <1>2 DEF TypeOK
<1>5. CountSound(l)' /\ ActivatesBound(l)' /\ Running(l)
  BY <1>2, <1>3, <1>4 DEF CountSound, ActivatesBound, Running
<1>6. \A n \in Members : Bound(n) => Bound(n)'
  BY <1>2, RemovePoolServerDrops DEF Bound
<1>7. \A n \in OwnMembers(l) : n \in Members /\ (status'[n] # "NONE" => Bound(n)')
  BY <1>2, <1>3, <1>6, OwnServed DEF OwnMembers
<1> QED
  BY <1>1, <1>5, <1>6, <1>7, ServedStep

LEMMA DeleteGroupServed == ASSUME ServedInv, NEW l \in LBs, DeleteGroup(l) PROVE ServedInv'
<1> DEFINE p == flow[l].pool
           r == [flow[l] EXCEPT !.step = "rows"]
<1>1. TaskInv' /\ LocalStep(l) /\ TypeOK /\ FlowOwn(l)
  BY DeleteGroupTask DEF ServedInv, TaskInv, IInv, FlowInv
<1>2. /\ flow[l].step = "next" /\ flow[l].op = "pool" /\ flow' = [flow EXCEPT ![l] = r]
      /\ status' = status /\ sg' = sg \ MembersOf(p) /\ lost' = lost \cup Present(p)
  BY DEF DeleteGroup, db
<1>3. r.step = "rows"
  BY <1>1 DEF TypeOK, Flow
<1> HIDE DEF r
<1>4. flow'[l] = r
  BY <1>1, <1>2 DEF TypeOK
<1>5. CountSound(l)' /\ ActivatesBound(l)' /\ Running(l)
  BY <1>2, <1>3, <1>4 DEF CountSound, ActivatesBound, Running
<1>6. \A n \in Members : status[n] # "NONE" /\ Bound(n) => Bound(n)'
  BY <1>2 DEF Bound, Present
<1>7. \A n \in OwnMembers(l) : n \in Members /\ (status'[n] # "NONE" => Bound(n)')
  BY <1>2, <1>6, OwnServed DEF OwnMembers
<1> QED
  BY <1>1, <1>5, <1>6, <1>7, ServedStep

LEMMA DeletePoolRowsServed == ASSUME ServedInv, NEW l \in LBs, DeletePoolRows(l) PROVE ServedInv'
<1> DEFINE p == flow[l].pool
<1>1. TaskInv' /\ LocalStep(l) /\ TypeOK /\ FlowOwn(l) /\ TaskOf(flow[l])
  BY DeletePoolRowsTask DEF ServedInv, TaskInv, IInv, FlowInv
<1>2. /\ flow[l].step = "rows" /\ flow' = [flow EXCEPT ![l] = Idle] /\ sg' = sg
      /\ status' = [m \in Members |-> IF PoolOf[m] = p THEN "NONE" ELSE status[m]]
      /\ lost' = lost \ MembersOf(p)
  BY DEF DeletePoolRows, device
<1> HIDE DEF Idle
<1>3. flow'[l].step = "idle" /\ flow[l].op = "pool"
  BY <1>1, <1>2, IdleTask DEF TypeOK, TaskOf
<1>4. CountSound(l)' /\ ActivatesBound(l)' /\ Running(l)
  BY <1>2, <1>3 DEF CountSound, ActivatesBound, Running
<1>5. MembersOf(p) \subseteq OwnMembers(l)
  BY <1>1, <1>2, Helpers DEF FlowOwn
<1>6. \A n \in Members : PoolOf[n] # p => (Bound(n) => Bound(n)') /\ status'[n] = status[n]
  BY <1>2 DEF Bound, MembersOf
<1>7. \A n \in Members : n \notin OwnMembers(l) => PoolOf[n] # p
  BY <1>5 DEF MembersOf
<1>8. ASSUME NEW n \in OwnMembers(l), status'[n] # "NONE" PROVE n \in Members /\ Bound(n)'
  <2>1. n \in Members /\ PoolOf[n] # p
    BY <1>2, <1>8 DEF OwnMembers
  <2> QED
    BY <2>1, <1>3, <1>6, <1>8, OwnServed
<1> HIDE DEF p
<1> QED
  BY <1>1, <1>4, <1>6, <1>7, <1>8, ServedStep

LEMMA FailServed == ASSUME ServedInv, NEW l \in LBs, Fail(l) PROVE ServedInv'
<1>1. TaskInv' /\ LocalStep(l) /\ flow \in [LBs -> Flow] /\ flow' \in [LBs -> Flow]
  BY FailTask DEF ServedInv, TaskInv, IInv, TypeOK
<1>2. PICK made : flow' = [flow EXCEPT ![l].step = "revert", ![l].made = made,
                                       ![l].cur = None, ![l].seen = {}]
  BY DEF Fail
<1> DEFINE r == [flow[l] EXCEPT !.step = "revert", !.made = made, !.cur = None, !.seen = {}]
<1>3. Running(l) /\ flow' = [flow EXCEPT ![l] = r] /\ UNCHANGED <<status, sg, lost>>
  BY <1>2 DEF Fail, db, device
<1>4. /\ r.step = "revert" /\ r.op = flow[l].op /\ r.old = flow[l].old
      /\ r.new = flow[l].new /\ r.left = flow[l].left
  BY <1>1 DEF Flow
<1> HIDE DEF r
<1>5. flow'[l] = r /\ r \in Flow
  BY <1>1, <1>3
<1>6. CountSound(l)' /\ ActivatesBound(l)'
  BY <1>4, <1>5 DEF CountSound, ActivatesBound
<1>7. \A n \in Members : Bound(n) => Bound(n)'
  BY <1>3 DEF Bound
<1> QED
  BY <1>1, <1>3, <1>4, <1>5, <1>6, <1>7, ServedWaits

LEMMA RevertCreateServed == ASSUME ServedInv, NEW l \in LBs, RevertCreate(l) PROVE ServedInv'
<1>1. TaskInv' /\ LocalStep(l) /\ flow \in [LBs -> Flow] /\ flow' \in [LBs -> Flow]
  BY RevertCreateTask DEF ServedInv, TaskInv, IInv, TypeOK
<1>2. PICK e \in flow[l].made : flow' = [flow EXCEPT ![l].made = @ \ {e}]
  BY DEF RevertCreate
<1> DEFINE r == [flow[l] EXCEPT !.made = @ \ {e}]
<1>3. /\ flow[l].step = "revert" /\ flow' = [flow EXCEPT ![l] = r] /\ status' = status
      /\ lost' = lost \cup (sg \ sg')
  BY <1>2 DEF RevertCreate, db
<1>4. /\ r.step = "revert" /\ r.op = flow[l].op /\ r.old = flow[l].old
      /\ r.new = flow[l].new /\ r.left = flow[l].left
  BY <1>1, <1>3 DEF Flow
<1> HIDE DEF r
<1>5. flow'[l] = r /\ r \in Flow
  BY <1>1, <1>3
<1>6. CountSound(l)' /\ ActivatesBound(l)' /\ Running(l)
  BY <1>3, <1>4, <1>5 DEF CountSound, ActivatesBound, Running
<1>7. \A n \in Members : Bound(n) => Bound(n)'
  BY <1>3 DEF Bound
<1> QED
  BY <1>1, <1>3, <1>4, <1>5, <1>6, <1>7, ServedWaits

LEMMA NextServed == ServedInv /\ [Next]_vars => ServedInv'
<1> SUFFICES ASSUME ServedInv, [Next]_vars PROVE ServedInv'
  OBVIOUS
<1>1. CASE UNCHANGED vars
  <2>1. IInv'
    BY <1>1, NextInv DEF ServedInv, TaskInv
  <2>2. TaskInv'
    BY <1>1, <2>1 DEF ServedInv, TaskInv, vars, db, RowsOf, Present, RunsAlone, Running
  <2> QED
    BY <1>1, <2>2 DEF ServedInv, vars, db, device, hist, Served, CountSound, ActivatesBound,
                      Bound, Excused
<1>2. CASE Api
  BY <1>2, ApiServed
<1>3. ASSUME NEW l \in LBs, DeleteStep(l) PROVE ServedInv'
  BY <1>3, CountForDeleteServed, DissociateServed, RemoveServerServed, DeleteRowServed
     DEF DeleteStep
<1>4. ASSUME NEW l \in LBs, CreateStep(l) PROVE ServedInv'
  BY <1>4, CountForCreateServed, PutServerServed, AssociateServed, ActivateServed DEF CreateStep
<1>5. ASSUME NEW l \in LBs, PoolStep(l) PROVE ServedInv'
  BY <1>5, CountForPoolServed, RemovePoolServerServed, DeleteGroupServed, DeletePoolRowsServed
     DEF PoolStep, PoolMemberStep
<1>6. ASSUME NEW l \in LBs, Begin(l) \/ BusyTimeout(l) \/ AbandonBatch(l) PROVE ServedInv'
  BY <1>6, BeginServed, EndInErrorServed, AbandonBatchServed DEF BusyTimeout
<1>7. ASSUME NEW l \in LBs, UpdateStep(l) \/ Finish(l) PROVE ServedInv'
  BY <1>7, UpdateServerServed, FinishServed DEF UpdateStep
<1>8. ASSUME NEW l \in LBs, Fail(l) \/ RevertCreate(l) \/ Reverted(l) PROVE ServedInv'
  BY <1>8, FailServed, RevertCreateServed, EndInErrorServed DEF Reverted
<1> QED
  BY <1>1, <1>2, <1>3, <1>4, <1>5, <1>6, <1>7, <1>8
     DEF Next, VThunderFlow, RackDeleteFlow, RackCreateFlow, RackPoolFlow

(* What is served, and why it is sound to count, hold in every state.      *)
THEOREM ServedInvariance == Spec => []ServedInv
BY InitServed, NextServed, PTL DEF Spec

(* An ACTIVE member whose load balancer has no request is bound on the     *)
(* device, unless the history says which flow took or never made the       *)
(* binding: for any number of flows, counts and failures.                  *)
THEOREM ActiveMembersServed == Spec => []ActiveMemberServed
<1>1. ASSUME ServedInv PROVE ActiveMemberServed
  <2> SUFFICES ASSUME NEW m \in Members, status[m] = "ACTIVE", flow[LbOfMember(m)].step = "idle"
               PROVE  m \in sg \cup lost
    BY DEF ActiveMemberServed
  <2>1. flow[LbOfMember(m)].left = {}
    BY <1>1, Helpers DEF ServedInv, TaskInv, TaskOf
  <2> QED
    BY <1>1, <2>1 DEF ServedInv, Served, Bound, Excused
<1> QED
  BY <1>1, ServedInvariance, PTL

-----------------------------------------------------------------------------
(* No server is orphaned.                                                  *)
(* A member whose row keeps the server: the deletion of its pool has not   *)
(* dealt with it yet.                                                      *)
Processed(m) ==
    LET f == flow[LbOfMember(m)] IN f.op = "pool" /\ f.pool = PoolOf[m] /\ m \notin f.left
Keeper(m) == status[m] # "NONE" /\ ~Processed(m)

ServersKept == ~rack => \A a \in servers \ leaked : \E n \in WithAddr(a) : Keeper(n)

(* Before a row goes, another one keeps the server that is left.           *)
RowReady(l) ==
    ~rack /\ flow[l].step = "row" /\ AddrOf[flow[l].cur] \in servers \ leaked =>
        \E n \in WithAddr(AddrOf[flow[l].cur]) : n # flow[l].cur /\ Keeper(n)

OrphanInv == ServedInv /\ ServersKept /\ \A l \in LBs : RowReady(l)

LEMMA InitOrphan == Init => OrphanInv
<1> SUFFICES ASSUME Init PROVE OrphanInv
  OBVIOUS
<1>1. ServedInv
  BY InitServed
<1>2. ServersKept
  BY DEF Init, ServersKept
<1>3. \A l \in LBs : RowReady(l)
  BY DEF Init, RowReady
<1> QED
  BY <1>1, <1>2, <1>3 DEF OrphanInv

LEMMA KeeperOthers ==
    ASSUME NEW l \in LBs, LocalStep(l), NEW n \in Members, n \notin OwnMembers(l)
    PROVE  Keeper(n)' <=> Keeper(n)
<1>1. LbOfMember(n) \in LBs \ {l}
  BY Helpers DEF OwnMembers
<1> QED
  BY <1>1 DEF LocalStep, Keeper, Processed

LEMMA RowReadyOthers ==
    ASSUME OrphanInv, NEW l \in LBs, LocalStep(l),
           Running(l) \/ (UNCHANGED <<servers, leaked>> /\ \A n \in Members : Keeper(n) => Keeper(n)'),
           NEW k \in LBs \ {l}
    PROVE  RowReady(k)'
<1>1. /\ RowReady(k) /\ TaskOf(flow[k]) /\ flow'[k] = flow[k] /\ RunsAlone /\ rack' = rack
  BY DEF OrphanInv, ServedInv, TaskInv, LocalStep
<1> SUFFICES ASSUME ~rack, flow[k].step = "row", AddrOf[flow[k].cur] \in servers' \ leaked'
             PROVE  \E n \in WithAddr(AddrOf[flow[k].cur]) : n # flow[k].cur /\ Keeper(n)'
  BY <1>1 DEF RowReady
<1>2. ~Running(l)
  <2>1. Running(k) /\ flow[k].op \in Exclusive
    BY <1>1 DEF Running, TaskOf, DeletingSteps, Exclusive
  <2> QED
    BY <1>1, <2>1 DEF RunsAlone
<1>3. PICK n \in WithAddr(AddrOf[flow[k].cur]) : n # flow[k].cur /\ Keeper(n)
  BY <1>1, <1>2 DEF RowReady
<1>4. Keeper(n)'
  BY <1>2, <1>3 DEF WithAddr
<1> QED
  BY <1>3, <1>4

(* A step after which every keeper is still one.                           *)
LEMMA KeepersStay ==
    ASSUME OrphanInv, ServedInv', NEW l \in LBs, LocalStep(l),
           Running(l) \/ UNCHANGED <<servers, leaked>>,
           servers' \ leaked' \subseteq servers \ leaked,
           \A n \in OwnMembers(l) : Keeper(n) => Keeper(n)',
           RowReady(l)'
    PROVE  OrphanInv'
<1>1. ASSUME NEW n \in Members, Keeper(n) PROVE Keeper(n)'
  BY <1>1, KeeperOthers
<1>2. ASSUME NEW k \in LBs PROVE RowReady(k)'
  BY <1>1, RowReadyOthers
<1>3. ServersKept'
  <2> SUFFICES ASSUME ~rack, NEW a \in servers' \ leaked'
               PROVE  \E n \in WithAddr(a) : Keeper(n)'
    BY DEF ServersKept, LocalStep
  <2>1. PICK n \in WithAddr(a) : Keeper(n)
    BY DEF OrphanInv, ServersKept
  <2>2. Keeper(n)'
    BY <1>1, <2>1 DEF WithAddr
  <2> QED
    BY <2>1, <2>2
<1> QED
  BY <1>2, <1>3 DEF OrphanInv

(* A flow takes another record, its rows stay, and what is left of a pool  *)
(* deletion stays.                                                         *)
LEMMA OrphanWaits ==
    ASSUME OrphanInv, ServedInv', NEW l \in LBs, LocalStep(l), NEW r,
           flow' = [flow EXCEPT ![l] = r],
           r.op = "pool" => flow[l].op = "pool" /\ r.pool = flow[l].pool /\ r.left = flow[l].left,
           \A n \in Members : status'[n] = "NONE" => status[n] = "NONE",
           Running(l) \/ UNCHANGED <<servers, leaked>>,
           servers' \ leaked' \subseteq servers \ leaked,
           r.step = "row" => RowReady(l)'
    PROVE  OrphanInv'
<1>1. flow'[l] = r
  BY DEF OrphanInv, ServedInv, TaskInv, IInv, TypeOK
<1>2. ASSUME NEW n \in OwnMembers(l), Keeper(n) PROVE Keeper(n)'
  <2>1. n \in Members /\ LbOfMember(n) = l
    BY DEF OwnMembers
  <2> QED
    BY <1>1, <1>2, <2>1 DEF Keeper, Processed
<1>3. RowReady(l)'
  BY <1>1 DEF RowReady
<1> QED
  BY <1>2, <1>3, KeepersStay

LEMMA ApiOrphan == ASSUME OrphanInv, Api PROVE OrphanInv'
<1>1. IInv /\ IInv' /\ TaskInv /\ ServedInv'
  BY ApiInv, ApiServed DEF OrphanInv, ServedInv, TaskInv
<1>2. PICK r \in Flow : \E pending : Admission(r, pending)
  BY <1>1, ApiAdmits
<1>3. PICK pending : Admission(r, pending)
  BY <1>2
<1> DEFINE l == LbOf[r.pool]
<1>4. LocalStep(l) /\ l \in LBs
  BY <1>1, <1>3, ApiTask, Helpers DEF Admission
<1>5. /\ flow' = [flow EXCEPT ![l] = r]
      /\ status' = [m \in Members |-> IF m \in DOMAIN pending THEN pending[m] ELSE status[m]]
      /\ UNCHANGED <<servers, leaked>>
  BY <1>3 DEF Admission, Admit, device, hist
<1> HIDE DEF l
<1>6. flow'[l] = r /\ r.step = "queued"
  BY <1>1, <1>3, <1>4, <1>5 DEF Admission, IInv, TypeOK
<1>7. ASSUME NEW n \in OwnMembers(l), Keeper(n) PROVE Keeper(n)'
  <2>1. n \in Members /\ LbOfMember(n) = l
    BY DEF OwnMembers
  <2>2. status[n] # "NONE" /\ status'[n] # "NONE"
    BY <2>1, <1>3, <1>5, <1>7 DEF Admission, Keeper
  <2>3. r.op = "pool" /\ r.pool = PoolOf[n] => n \in r.left
    BY <2>1, <2>2, <1>3 DEF Admission, Present, MembersOf
  <2> QED
    BY <2>1, <2>2, <2>3, <1>6 DEF Keeper, Processed
<1>8. RowReady(l)'
  BY <1>6 DEF RowReady
<1> QED
  BY <1>1, <1>4, <1>5, <1>7, <1>8, KeepersStay

LEMMA EndInErrorOrphan ==
    ASSUME OrphanInv, NEW l \in LBs, flow[l].step # "idle", EndInError(l) PROVE OrphanInv'
<1>1. ServedInv' /\ LocalStep(l) /\ TypeOK
  BY EndInErrorServed, EndInErrorTask DEF OrphanInv, ServedInv, TaskInv, IInv
<1>2. flow' = [flow EXCEPT ![l] = Idle] /\ UNCHANGED <<servers, leaked>>
  BY DEF EndInError, device
<1>3. \A n \in Members : status'[n] = "NONE" => status[n] = "NONE"
  BY <1>1 DEF EndInError, TypeOK
<1> HIDE DEF Idle
<1> QED
  BY <1>1, <1>2, <1>3, IdleTask, OrphanWaits

LEMMA BeginOrphan ==
    ASSUME OrphanInv, NEW l \in LBs, Begin(l) \/ AbandonBatch(l) PROVE OrphanInv'
<1>1. ServedInv' /\ LocalStep(l) /\ flow[l] \in Flow
  BY BeginServed, BeginTask, AbandonBatchServed, AbandonBatchTask
     DEF OrphanInv, ServedInv, TaskInv, IInv, TypeOK
<1>2. PICK s \in {"next", "abandoned"} : flow' = [flow EXCEPT ![l].step = s]
  BY DEF Begin, AbandonBatch
<1> DEFINE r == [flow[l] EXCEPT !.step = s]
<1>3. flow' = [flow EXCEPT ![l] = r] /\ UNCHANGED <<status, servers, leaked>>
  BY <1>2 DEF Begin, AbandonBatch, db, device, hist
<1>4. r.op = flow[l].op /\ r.pool = flow[l].pool /\ r.left = flow[l].left /\ r.step # "row"
  BY <1>1, <1>2 DEF Flow
<1> HIDE DEF r
<1> QED
  BY <1>1, <1>3, <1>4, OrphanWaits

LEMMA CountForDeleteOrphan ==
    ASSUME OrphanInv, NEW l \in LBs, NEW m \in Members, CountForDelete(l, m) PROVE OrphanInv'
<1>1. ServedInv' /\ LocalStep(l) /\ TypeOK
  BY CountForDeleteServed, CountForDeleteTask DEF OrphanInv, ServedInv, TaskInv, IInv
<1>2. PICK seen : flow' = [flow EXCEPT ![l].step = "dissociate", ![l].cur = m, ![l].seen = seen]
  BY DEF CountForDelete
<1> DEFINE r == [flow[l] EXCEPT !.step = "dissociate", !.cur = m, !.seen = seen]
<1>3. /\ flow' = [flow EXCEPT ![l] = r] /\ UNCHANGED <<servers, leaked>>
      /\ status' = [status EXCEPT ![m] = "PENDING_DELETE"]
  BY <1>2 DEF CountForDelete, device, hist
<1>4. r.op = flow[l].op /\ r.pool = flow[l].pool /\ r.left = flow[l].left /\ r.step # "row"
  BY <1>1 DEF Flow, TypeOK
<1>5. \A n \in Members : status'[n] = "NONE" => status[n] = "NONE"
  BY <1>1, <1>3 DEF TypeOK
<1> HIDE DEF r
<1> QED
  BY <1>1, <1>3, <1>4, <1>5, OrphanWaits

(* A member that the count of a deletion found besides the one in work     *)
(* keeps the server: no pool deletion runs beside it.                      *)
LEMMA SeenKeeps ==
    ASSUME OrphanInv, NEW l \in LBs, ~rack, flow[l].step \in {"dissociate", "remove"},
           NEW n \in flow[l].seen
    PROVE  Keeper(n)
<1>1. /\ CountSound(l) /\ TaskOf(flow[l]) /\ RunsAlone
      /\ flow[l].op \in Exclusive /\ flow[l].op # "pool" /\ Running(l)
  BY DEF OrphanInv, ServedInv, TaskInv, TaskOf, DeletingSteps, Exclusive, Running
<1>2. n \in Members /\ status[n] # "NONE"
  BY <1>1 DEF CountSound, WithAddr
<1>3. ~Processed(n)
  <2> SUFFICES ASSUME Processed(n) PROVE FALSE
    OBVIOUS
  <2> DEFINE k == LbOfMember(n)
  <2>1. k \in LBs \ {l} /\ flow[k].op = "pool" /\ flow[k].pool = PoolOf[n] /\ n \notin flow[k].left
    BY <1>1, <1>2, Helpers DEF Processed
  <2>2. ~Running(k)
    BY <1>1, <2>1 DEF RunsAlone
  <2>3. TaskOf(flow[k]) /\ RowsOf(k)
    BY <2>1 DEF OrphanInv, ServedInv, TaskInv
  <2>4. flow[k].left = flow[k].old
    BY <2>1, <2>2, <2>3 DEF TaskOf, Running
  <2>5. n \in Present(flow[k].pool)
    BY <1>2, <2>1 DEF Present, MembersOf
  <2> QED
    BY <2>1, <2>3, <2>4, <2>5 DEF RowsOf
<1> QED
  BY <1>2, <1>3 DEF Keeper

(* Of a count above one, a keeper besides the member itself.               *)
LEMMA AnotherKeeps ==
    ASSUME OrphanInv, NEW l \in LBs, ~rack, flow[l].step \in {"dissociate", "remove"},
           ~(Cardinality(flow[l].seen) <= 1)
    PROVE  \E n \in WithAddr(AddrOf[flow[l].cur]) : n # flow[l].cur /\ Keeper(n)
<1>1. CountSound(l)
  BY DEF OrphanInv, ServedInv
<1>2. \E n \in flow[l].seen : n # flow[l].cur
  <2> SUFFICES ASSUME \A n \in flow[l].seen : n = flow[l].cur PROVE FALSE
    OBVIOUS
  <2>1. flow[l].seen = {flow[l].cur}
    BY <1>1 DEF CountSound
  <2>2. \A x : Cardinality({x}) = 1
    BY FS_Singleton
  <2>3. Cardinality(flow[l].seen) = 1
    BY <2>1, <2>2
  <2> QED
    BY <2>3
<1> QED
  BY <1>1, <1>2, SeenKeeps DEF CountSound

LEMMA DissociateOrphan == ASSUME OrphanInv, NEW l \in LBs, Dissociate(l) PROVE OrphanInv'
<1> DEFINE m == flow[l].cur
           r == IF m \in sg THEN [flow[l] EXCEPT !.step = "remove"]
                            ELSE [flow[l] EXCEPT !.step = "row", !.seen = {}]
<1>1. ServedInv' /\ LocalStep(l) /\ TypeOK /\ TaskOf(flow[l]) /\ AddrOf[m] \in Addrs
  <2>1. FlowOwn(l) /\ flow[l].step = "dissociate"
    BY DEF Dissociate, OrphanInv, ServedInv, TaskInv, IInv, FlowInv
  <2> QED
    BY <2>1, DissociateServed, DissociateTask, Helpers
       DEF OrphanInv, ServedInv, TaskInv, IInv, FlowOwn, WorkSteps
<1>2. /\ flow[l].step = "dissociate" /\ flow' = [flow EXCEPT ![l] = r]
      /\ UNCHANGED <<status, rack, servers>>
      /\ Leak(AddrOf[m], m \notin sg /\ Cardinality(flow[l].seen) <= 1)
  BY DEF Dissociate, db
<1>3. flow[l].op # "pool" /\ Running(l)
  BY <1>1, <1>2 DEF TaskOf, DeletingSteps, Running
<1>4. r.op = flow[l].op /\ r.cur = m
  <2>1. CASE m \in sg
    BY <2>1, <1>1 DEF Flow, TypeOK
  <2>2. CASE m \notin sg
    BY <2>2, <1>1 DEF Flow, TypeOK
  <2> QED
    BY <2>1, <2>2
<1>5. servers' \ leaked' \subseteq servers \ leaked
  BY <1>2 DEF Leak
<1>6. r.step = "row" => m \notin sg
  BY <1>1 DEF Flow, TypeOK
<1> HIDE DEF r
<1>7. flow'[l] = r
  BY <1>1, <1>2 DEF TypeOK
<1>8. ASSUME r.step = "row" PROVE RowReady(l)'
  <2> SUFFICES ASSUME ~rack, AddrOf[m] \in servers' \ leaked'
               PROVE  \E n \in WithAddr(AddrOf[m]) : n # m /\ Keeper(n)'
    BY <1>2, <1>4, <1>7 DEF RowReady
  <2>1. ~(Cardinality(flow[l].seen) <= 1)
    BY <1>2, <1>6, <1>8 DEF Leak
  <2>2. PICK n \in WithAddr(AddrOf[m]) : n # m /\ Keeper(n)
    BY <1>2, <2>1, AnotherKeeps
  <2>3. n \in Members
    BY DEF WithAddr
  <2>4. Keeper(n)'
    <3>1. CASE n \in OwnMembers(l)
      BY <2>2, <2>3, <3>1, <1>2, <1>3, <1>4, <1>7 DEF Keeper, Processed, OwnMembers
    <3>2. CASE n \notin OwnMembers(l)
      BY <2>2, <2>3, <3>2, <1>1, KeeperOthers
    <3> QED
      BY <3>1, <3>2
  <2> QED
    BY <2>2, <2>4
<1> HIDE DEF m
<1> QED
  BY <1>1, <1>2, <1>3, <1>4, <1>5, <1>8, OrphanWaits

LEMMA RemoveServerOrphan == ASSUME OrphanInv, NEW l \in LBs, RemoveServer(l) PROVE OrphanInv'
<1> DEFINE m == flow[l].cur
           r == [flow[l] EXCEPT !.step = "row", !.seen = {}]
<1>1. ServedInv' /\ LocalStep(l) /\ TypeOK /\ TaskOf(flow[l])
  BY RemoveServerServed, RemoveServerTask DEF OrphanInv, ServedInv, TaskInv, IInv
<1>2. /\ flow[l].step = "remove" /\ flow' = [flow EXCEPT ![l] = r] /\ UNCHANGED <<status, rack>>
      /\ \/ Cardinality(flow[l].seen) <= 1 /\ DropServer(AddrOf[m])
         \/ ~(Cardinality(flow[l].seen) <= 1) /\ UNCHANGED <<servers, leaked>>
  BY DEF RemoveServer, db, device, DropPort
<1>3. flow[l].op # "pool" /\ Running(l)
  BY <1>1, <1>2 DEF TaskOf, DeletingSteps, Running
<1>4. r.op = flow[l].op /\ r.cur = m
  BY <1>1 DEF Flow, TypeOK
<1>5. servers' \ leaked' \subseteq servers \ leaked
  BY <1>2 DEF DropServer
<1> HIDE DEF r
<1>6. flow'[l] = r
  BY <1>1, <1>2 DEF TypeOK
<1>7. RowReady(l)'
  <2> SUFFICES ASSUME ~rack, AddrOf[m] \in servers' \ leaked'
               PROVE  \E n \in WithAddr(AddrOf[m]) : n # m /\ Keeper(n)'
    BY <1>2, <1>4, <1>6 DEF RowReady
  <2>1. ~(Cardinality(flow[l].seen) <= 1)
    BY <1>2 DEF DropServer
  <2>2. PICK n \in WithAddr(AddrOf[m]) : n # m /\ Keeper(n)
    BY <1>2, <2>1, AnotherKeeps
  <2>3. n \in Members
    BY DEF WithAddr
  <2>4. Keeper(n)'
    <3>1. CASE n \in OwnMembers(l)
      BY <2>2, <2>3, <3>1, <1>2, <1>3, <1>4, <1>6 DEF Keeper, Processed, OwnMembers
    <3>2. CASE n \notin OwnMembers(l)
      BY <2>2, <2>3, <3>2, <1>1, KeeperOthers
    <3> QED
      BY <3>1, <3>2
  <2> QED
    BY <2>2, <2>4
<1> HIDE DEF m
<1> QED
  BY <1>1, <1>2, <1>3, <1>4, <1>5, <1>7, OrphanWaits

(* A row is deleted: another one keeps the server of its address.          *)
LEMMA DeleteRowOrphan == ASSUME OrphanInv, NEW l \in LBs, DeleteRow(l) PROVE OrphanInv'
<1> DEFINE m == flow[l].cur
           r == [flow[l] EXCEPT !.step = "next", !.left = @ \ {m}, !.cur = None]
<1>1. ServedInv' /\ LocalStep(l) /\ TypeOK /\ TaskOf(flow[l]) /\ FlowOwn(l)
  BY DeleteRowServed, DeleteRowTask DEF OrphanInv, ServedInv, TaskInv, IInv, FlowInv
<1>2. /\ flow[l].step = "row" /\ flow' = [flow EXCEPT ![l] = r] /\ UNCHANGED <<rack, servers, leaked>>
      /\ status' = [status EXCEPT ![m] = "NONE"]
  BY DEF DeleteRow, device
<1>3. flow[l].op # "pool" /\ Running(l) /\ m \in OwnMembers(l)
  BY <1>1, <1>2 DEF TaskOf, DeletingSteps, Running, FlowOwn, WorkSteps
<1>4. r.op = flow[l].op /\ r.step = "next"
  BY <1>1 DEF Flow, TypeOK
<1> HIDE DEF r
<1>5. flow'[l] = r
  BY <1>1, <1>2 DEF TypeOK
<1>6. ASSUME NEW n \in Members, n # m, Keeper(n) PROVE Keeper(n)'
  <2>1. status'[n] = status[n]
    BY <1>1, <1>2, <1>6 DEF TypeOK
  <2>2. CASE n \in OwnMembers(l)
    BY <2>1, <2>2, <1>3, <1>4, <1>5, <1>6 DEF Keeper, Processed, OwnMembers
  <2>3. CASE n \notin OwnMembers(l)
    BY <2>3, <1>1, <1>6, KeeperOthers
  <2> QED
    BY <2>2, <2>3
<1>7. ServersKept'
  <2> SUFFICES ASSUME ~rack, NEW a \in servers \ leaked PROVE \E n \in WithAddr(a) : Keeper(n)'
    BY <1>2 DEF ServersKept
  <2>1. \E n \in WithAddr(a) : n # m /\ Keeper(n)
    <3>1. PICK n \in WithAddr(a) : Keeper(n)
      BY DEF OrphanInv, ServersKept
    <3>2. CASE n # m
      BY <3>1, <3>2
    <3>3. CASE n = m
      <4>1. a = AddrOf[m] /\ RowReady(l)
        BY <3>1, <3>3 DEF WithAddr, OrphanInv
      <4> QED
        BY <4>1, <1>2 DEF RowReady
    <3> QED
      BY <3>2, <3>3
  <2> QED
    BY <2>1, <1>6 DEF WithAddr
<1>8. RowReady(l)'
  BY <1>4, <1>5 DEF RowReady
<1>9. \A k \in LBs \ {l} : RowReady(k)'
  BY <1>1, <1>3, RowReadyOthers
<1> QED
  BY <1>1, <1>7, <1>8, <1>9 DEF OrphanInv

LEMMA CountForCreateOrphan ==
    ASSUME OrphanInv, NEW l \in LBs, NEW m \in Members, CountForCreate(l, m) PROVE OrphanInv'
<1>1. ServedInv' /\ LocalStep(l) /\ TypeOK
  BY CountForCreateServed, CountForCreateTask DEF OrphanInv, ServedInv, TaskInv, IInv
<1>2. PICK seen : flow' = [flow EXCEPT ![l].step = "server", ![l].cur = m, ![l].seen = seen]
  BY DEF CountForCreate
<1> DEFINE r == [flow[l] EXCEPT !.step = "server", !.cur = m, !.seen = seen]
<1>3. /\ flow' = [flow EXCEPT ![l] = r] /\ UNCHANGED <<servers, leaked>>
      /\ status' = [status EXCEPT ![m] = "PENDING_CREATE"]
  BY <1>2 DEF CountForCreate, device, hist
<1>4. r.op = flow[l].op /\ r.pool = flow[l].pool /\ r.left = flow[l].left /\ r.step # "row"
  BY <1>1 DEF Flow, TypeOK
<1>5. \A n \in Members : status'[n] = "NONE" => status[n] = "NONE"
  BY <1>1, <1>3 DEF TypeOK
<1> HIDE DEF r
<1> QED
  BY <1>1, <1>3, <1>4, <1>5, OrphanWaits

(* The member for which a server is put keeps it.                          *)
LEMMA PutServerOrphan == ASSUME OrphanInv, NEW l \in LBs, PutServer(l) PROVE OrphanInv'
<1> DEFINE m == flow[l].cur
           r == [flow[l] EXCEPT !.step = "associate", !.seen = {},
                                !.made = @ \cup {[m |-> m, seen |-> flow[l].seen]}]
<1>1. /\ ServedInv' /\ LocalStep(l) /\ TypeOK /\ TaskOf(flow[l]) /\ FlowOwn(l)
      /\ CreatingHasRow(l)
  BY PutServerServed, PutServerTask DEF OrphanInv, ServedInv, TaskInv, IInv, FlowInv
<1>2. /\ flow[l].step = "server" /\ flow' = [flow EXCEPT ![l] = r]
      /\ UNCHANGED <<rack, status, leaked>> /\ servers' = servers \cup {AddrOf[m]}
  BY DEF PutServer, db, hist
<1>3. flow[l].op # "pool" /\ Running(l) /\ m \in OwnMembers(l) /\ status[m] # "NONE"
  BY <1>1, <1>2 DEF TaskOf, CreatingSteps, Running, FlowOwn, WorkSteps, CreatingHasRow
<1>4. r.op = flow[l].op /\ r.step = "associate"
  BY <1>1 DEF Flow, TypeOK
<1> HIDE DEF r
<1>5. flow'[l] = r
  BY <1>1, <1>2 DEF TypeOK
<1>6. ASSUME NEW n \in Members, Keeper(n) PROVE Keeper(n)'
  <2>1. CASE n \in OwnMembers(l)
    BY <2>1, <1>2, <1>3, <1>4, <1>5, <1>6 DEF Keeper, Processed, OwnMembers
  <2>2. CASE n \notin OwnMembers(l)
    BY <2>2, <1>1, <1>6, KeeperOthers
  <2> QED
    BY <2>1, <2>2
<1>7. Keeper(m) /\ m \in WithAddr(AddrOf[m])
  BY <1>3 DEF Keeper, Processed, OwnMembers, WithAddr
<1>8. ServersKept'
  <2> SUFFICES ASSUME ~rack, NEW a \in servers' \ leaked PROVE \E n \in WithAddr(a) : Keeper(n)'
    BY <1>2 DEF ServersKept
  <2>1. PICK n \in WithAddr(a) : Keeper(n)
    BY <1>2, <1>7 DEF OrphanInv, ServersKept
  <2> QED
    BY <2>1, <1>6 DEF WithAddr
<1>9. RowReady(l)'
  BY <1>4, <1>5 DEF RowReady
<1>10. \A k \in LBs \ {l} : RowReady(k)'
  BY <1>1, <1>3, RowReadyOthers
<1> QED
  BY <1>1, <1>8, <1>9, <1>10 DEF OrphanInv

LEMMA AssociateOrphan == ASSUME OrphanInv, NEW l \in LBs, Associate(l) PROVE OrphanInv'
<1> DEFINE r == [flow[l] EXCEPT !.step = "activate"]
<1>1. ServedInv' /\ LocalStep(l) /\ TypeOK
  BY AssociateServed, AssociateTask DEF OrphanInv, ServedInv, TaskInv, IInv
<1>2. flow' = [flow EXCEPT ![l] = r] /\ UNCHANGED <<status, servers, leaked>>
  BY DEF Associate, db
<1>3. r.op = flow[l].op /\ r.pool = flow[l].pool /\ r.left = flow[l].left /\ r.step # "row"
  BY <1>1 DEF Flow, TypeOK
<1> HIDE DEF r
<1> QED
  BY <1>1, <1>2, <1>3, OrphanWaits

LEMMA ActivateOrphan == ASSUME OrphanInv, NEW l \in LBs, Activate(l) PROVE OrphanInv'
<1> DEFINE m == flow[l].cur
           r == [flow[l] EXCEPT !.step = "next", !.left = @ \ {m}, !.cur = None]
<1>1. ServedInv' /\ LocalStep(l) /\ TypeOK /\ TaskOf(flow[l])
  BY ActivateServed, ActivateTask DEF OrphanInv, ServedInv, TaskInv, IInv
<1>2. /\ flow[l].step = "activate" /\ flow' = [flow EXCEPT ![l] = r] /\ UNCHANGED <<servers, leaked>>
      /\ status' = [status EXCEPT ![m] = "ACTIVE"]
  BY DEF Activate, device, hist
<1>3. r.op # "pool" /\ r.step # "row"
  BY <1>1, <1>2 DEF Flow, TypeOK, TaskOf, CreatingSteps
<1>4. \A n \in Members : status'[n] = "NONE" => status[n] = "NONE"
  BY <1>1, <1>2 DEF TypeOK
<1> HIDE DEF r
<1> QED
  BY <1>1, <1>2, <1>3, <1>4, OrphanWaits

LEMMA UpdateServerOrphan ==
    ASSUME OrphanInv, NEW l \in LBs, NEW m \in Members, UpdateServer(l, m) PROVE OrphanInv'
<1> DEFINE r == [flow[l] EXCEPT !.left = @ \ {m}]
<1>1. ServedInv' /\ LocalStep(l) /\ TypeOK /\ TaskOf(flow[l])
  BY UpdateServerServed, UpdateServerTask DEF OrphanInv, ServedInv, TaskInv, IInv
<1>2. /\ flow[l].step = "next" /\ flow' = [flow EXCEPT ![l] = r] /\ UNCHANGED <<servers, leaked>>
      /\ status' = [status EXCEPT ![m] = "ACTIVE"]
      /\ flow[l].left \cap (flow[l].old \cup flow[l].new) = {} /\ m \in flow[l].left
  BY DEF UpdateServer, device, hist
<1>3. r.op # "pool" /\ r.step # "row"
  BY <1>1, <1>2 DEF Flow, TypeOK, TaskOf
<1>4. \A n \in Members : status'[n] = "NONE" => status[n] = "NONE"
  BY <1>1, <1>2 DEF TypeOK
<1> HIDE DEF r
<1> QED
  BY <1>1, <1>2, <1>3, <1>4, OrphanWaits

LEMMA FinishOrphan == ASSUME OrphanInv, NEW l \in LBs, Finish(l) PROVE OrphanInv'
<1>1. ServedInv' /\ LocalStep(l)
  BY FinishServed, FinishTask DEF OrphanInv, ServedInv
<1>2. flow' = [flow EXCEPT ![l] = Idle] /\ UNCHANGED <<status, servers, leaked>>
  BY DEF Finish, device, hist
<1> HIDE DEF Idle
<1> QED
  BY <1>1, <1>2, IdleTask, OrphanWaits

LEMMA CountForPoolOrphan ==
    ASSUME OrphanInv, NEW l \in LBs, NEW m \in Members, CountForPool(l, m) PROVE OrphanInv'
<1>1. ServedInv' /\ LocalStep(l) /\ TypeOK
  BY CountForPoolServed, CountForPoolTask DEF OrphanInv, ServedInv, TaskInv, IInv
<1>2. PICK seen : flow' = [flow EXCEPT ![l].step = "poolremove", ![l].cur = m, ![l].seen = seen]
  BY DEF CountForPool
<1> DEFINE r == [flow[l] EXCEPT !.step = "poolremove", !.cur = m, !.seen = seen]
<1>3. flow' = [flow EXCEPT ![l] = r] /\ UNCHANGED <<status, servers, leaked>>
  BY <1>2 DEF CountForPool, db, device, hist
<1>4. r.op = flow[l].op /\ r.pool = flow[l].pool /\ r.left = flow[l].left /\ r.step # "row"
  BY <1>1 DEF Flow, TypeOK
<1> HIDE DEF r
<1> QED
  BY <1>1, <1>3, <1>4, OrphanWaits

(* The server of a member of a deleted pool: it goes, or a member of       *)
(* another pool was counted and keeps it, or it is leaked.                 *)
LEMMA RemovePoolServerOrphan == ASSUME OrphanInv, NEW l \in LBs, RemovePoolServer(l) PROVE OrphanInv'
<1> DEFINE m == flow[l].cur
           p == flow[l].pool
           seen == flow[l].seen
           gone == {n \in seen \ MembersOf(p) : \/ status[n] = "NONE"
                                                \/ flow[LbOfMember(n)].op = "pool"}
           r == [flow[l] EXCEPT !.step = "next", !.left = @ \ {m}, !.cur = None, !.seen = {}]
<1>1. /\ ServedInv' /\ LocalStep(l) /\ TypeOK /\ TaskOf(flow[l]) /\ CountSound(l) /\ RowsOf(l)
      /\ FlowOwn(l)
  BY RemovePoolServerServed, RemovePoolServerTask
     DEF OrphanInv, ServedInv, TaskInv, IInv, FlowInv
<1>2. /\ flow[l].step = "poolremove" /\ flow' = [flow EXCEPT ![l] = r] /\ UNCHANGED <<rack, status>>
      /\ \/ DropServer(AddrOf[m])
         \/ /\ ~(Cardinality(PoolsOf(seen)) <= 1) /\ servers' = servers
            /\ Leak(AddrOf[m], gone # {})
         \/ /\ Leak(AddrOf[m], Cardinality(PoolsOf(seen)) <= 1 \/ gone # {})
            /\ servers' = servers
  BY DEF RemovePoolServer, db, device, DropPort
<1>3. /\ Running(l) /\ m \in Members /\ seen \subseteq WithAddr(AddrOf[m])
      /\ p \in Pools /\ AddrOf[m] \in Addrs
  BY <1>1, <1>2, Helpers DEF Running, FlowOwn, WorkSteps, CountSound
<1>4. r.op = flow[l].op /\ r.pool = p /\ r.left = flow[l].left \ {m} /\ r.step = "next"
  BY <1>1 DEF Flow, TypeOK
<1> HIDE DEF r
<1>5. flow'[l] = r
  BY <1>1, <1>2 DEF TypeOK
<1>6. servers' \ leaked' \subseteq servers \ leaked
  BY <1>2 DEF DropServer, Leak
<1>7. ASSUME NEW n \in Members, n # m, Keeper(n) PROVE Keeper(n)'
  <2>1. CASE n \in OwnMembers(l)
    BY <2>1, <1>2, <1>4, <1>5, <1>7 DEF Keeper, Processed, OwnMembers
  <2>2. CASE n \notin OwnMembers(l)
    BY <2>2, <1>1, <1>7, KeeperOthers
  <2> QED
    BY <2>1, <2>2
<1>8. ASSUME AddrOf[m] \in servers' \ leaked'
      PROVE  \E n \in WithAddr(AddrOf[m]) : n # m /\ Keeper(n)
  <2>1. ~(Cardinality(PoolsOf(seen)) <= 1) /\ gone = {}
    BY <1>2, <1>8 DEF DropServer, Leak
  <2>2. PICK n \in seen : n \notin MembersOf(p)
    <3> SUFFICES ASSUME seen \subseteq MembersOf(p) PROVE FALSE
      OBVIOUS
    <3>1. PoolsOf(seen) \in SUBSET {p}
      BY DEF PoolsOf, MembersOf
    <3>2. \A x : IsFiniteSet({x}) /\ Cardinality({x}) = 1
      BY FS_Singleton
    <3>3. PICK c \in Nat : c = Cardinality(PoolsOf(seen))
      BY <3>1, <3>2, FS_Subset, FS_CardinalityType
    <3>4. c <= 1
      <4>1. Cardinality(PoolsOf(seen)) <= Cardinality({p})
        BY <3>1, <3>2, FS_Subset
      <4> QED
        BY <3>2, <3>3, <4>1
    <3> QED
      BY <2>1, <3>3, <3>4
  <2>3. n \in WithAddr(AddrOf[m]) /\ n \in Members
    BY <1>3 DEF WithAddr
  <2>4. status[n] # "NONE" /\ flow[LbOfMember(n)].op # "pool"
    BY <2>1, <2>2
  <2>5. Keeper(n)
    BY <2>4 DEF Keeper, Processed
  <2>6. n # m
    <3>1. flow[l].op = "pool" /\ LbOfMember(m) = l
      BY <1>1, <1>2 DEF TaskOf, FlowOwn, WorkSteps, OwnMembers
    <3> QED
      BY <2>4, <3>1
  <2> QED
    BY <2>3, <2>5, <2>6
<1>9. ServersKept'
  <2> SUFFICES ASSUME ~rack, NEW a \in servers' \ leaked' PROVE \E n \in WithAddr(a) : Keeper(n)'
    BY <1>2 DEF ServersKept
  <2>1. PICK n \in WithAddr(a) : n # m /\ Keeper(n)
    <3>1. CASE a = AddrOf[m]
      BY <3>1, <1>8
    <3>2. CASE a # AddrOf[m]
      <4>1. \A n \in WithAddr(a) : n # m
        BY <3>2 DEF WithAddr
      <4>2. a \in servers \ leaked
        BY <1>6
      <4> QED
        BY <4>1, <4>2 DEF OrphanInv, ServersKept
    <3> QED
      BY <3>1, <3>2
  <2> QED
    BY <2>1, <1>7 DEF WithAddr
<1>10. RowReady(l)'
  BY <1>4, <1>5 DEF RowReady
<1>11. \A k \in LBs \ {l} : RowReady(k)'
  BY <1>1, <1>3, RowReadyOthers
<1> QED
  BY <1>1, <1>9, <1>10, <1>11 DEF OrphanInv

LEMMA DeleteGroupOrphan == ASSUME OrphanInv, NEW l \in LBs, DeleteGroup(l) PROVE OrphanInv'
<1> DEFINE r == [flow[l] EXCEPT !.step = "rows"]
<1>1. ServedInv' /\ LocalStep(l) /\ TypeOK
  BY DeleteGroupServed, DeleteGroupTask DEF OrphanInv, ServedInv, TaskInv, IInv
<1>2. flow' = [flow EXCEPT ![l] = r] /\ UNCHANGED <<status, servers, leaked>>
  BY DEF DeleteGroup, db
<1>3. r.op = flow[l].op /\ r.pool = flow[l].pool /\ r.left = flow[l].left /\ r.step # "row"
  BY <1>1 DEF Flow, TypeOK
<1> HIDE DEF r
<1> QED
  BY <1>1, <1>2, <1>3, OrphanWaits

(* The rows of a pool go after all its members are dealt with: none of     *)
(* them keeps a server.                                                    *)
LEMMA DeletePoolRowsOrphan == ASSUME OrphanInv, NEW l \in LBs, DeletePoolRows(l) PROVE OrphanInv'
<1>1. ServedInv' /\ LocalStep(l) /\ TypeOK /\ TaskOf(flow[l]) /\ RowReady(l)
  BY DeletePoolRowsServed, DeletePoolRowsTask DEF OrphanInv, ServedInv, TaskInv, IInv
<1>2. /\ flow[l].step = "rows" /\ flow' = [flow EXCEPT ![l] = Idle] /\ UNCHANGED <<servers, leaked>>
      /\ status' = [m \in Members |-> IF PoolOf[m] = flow[l].pool THEN "NONE" ELSE status[m]]
  BY DEF DeletePoolRows, device
<1> HIDE DEF Idle
<1>3. flow'[l] = Idle
  BY <1>1, <1>2 DEF TypeOK
<1>4. flow[l].op = "pool" /\ flow[l].left = {}
  BY <1>1, <1>2 DEF TaskOf
<1>5. ASSUME NEW n \in OwnMembers(l), Keeper(n) PROVE Keeper(n)'
  <2>1. n \in Members /\ LbOfMember(n) = l
    BY DEF OwnMembers
  <2>2. PoolOf[n] # flow[l].pool
    BY <2>1, <1>4, <1>5 DEF Keeper, Processed
  <2> QED
    BY <2>1, <2>2, <1>2, <1>3, <1>5, IdleTask DEF Keeper, Processed
<1>6. RowReady(l)'
  BY <1>3, IdleTask DEF RowReady
<1> QED
  BY <1>1, <1>2, <1>5, <1>6, KeepersStay DEF Running

LEMMA FailOrphan == ASSUME OrphanInv, NEW l \in LBs, Fail(l) PROVE OrphanInv'
<1>1. ServedInv' /\ LocalStep(l) /\ flow \in [LBs -> Flow]
  BY FailServed, FailTask DEF OrphanInv, ServedInv, TaskInv, IInv, TypeOK
<1>2. PICK made : flow' = [flow EXCEPT ![l].step = "revert", ![l].made = made,
                                       ![l].cur = None, ![l].seen = {}]
  BY DEF Fail
<1> DEFINE r == [flow[l] EXCEPT !.step = "revert", !.made = made, !.cur = None, !.seen = {}]
<1>3. Running(l) /\ flow' = [flow EXCEPT ![l] = r] /\ UNCHANGED <<status, servers>>
  BY <1>2 DEF Fail, db, device
<1>4. /\ r.step # "row" /\ r.op = flow[l].op /\ r.pool = flow[l].pool /\ r.left = flow[l].left
  BY <1>1 DEF Flow
<1>5. servers' \ leaked' \subseteq servers \ leaked
  BY <1>3 DEF Fail, Leak
<1> HIDE DEF r
<1> QED
  BY <1>1, <1>3, <1>4, <1>5, OrphanWaits

LEMMA RevertCreateOrphan == ASSUME OrphanInv, NEW l \in LBs, RevertCreate(l) PROVE OrphanInv'
<1>1. ServedInv' /\ LocalStep(l) /\ flow \in [LBs -> Flow]
  BY RevertCreateServed, RevertCreateTask DEF OrphanInv, ServedInv, TaskInv, IInv, TypeOK
<1>2. PICK e \in flow[l].made :
         /\ flow' = [flow EXCEPT ![l].made = @ \ {e}]
         /\ \/ DropServer(AddrOf[e.m])
            \/ Leak(AddrOf[e.m], Cardinality(e.seen) <= 1) /\ UNCHANGED device
  BY DEF RevertCreate
<1> DEFINE r == [flow[l] EXCEPT !.made = @ \ {e}]
<1>3. flow[l].step = "revert" /\ flow' = [flow EXCEPT ![l] = r] /\ status' = status
  BY <1>2 DEF RevertCreate, db
<1>4. r.step = "revert" /\ r.op = flow[l].op /\ r.pool = flow[l].pool /\ r.left = flow[l].left
  BY <1>1, <1>3 DEF Flow
<1>5. servers' \ leaked' \subseteq servers \ leaked
  BY <1>2 DEF DropServer, Leak, device
<1> HIDE DEF r
<1> QED
  BY <1>1, <1>3, <1>4, <1>5, OrphanWaits DEF Running

LEMMA NextOrphan == OrphanInv /\ [Next]_vars => OrphanInv'
<1> SUFFICES ASSUME OrphanInv, [Next]_vars PROVE OrphanInv'
  OBVIOUS
<1>1. CASE UNCHANGED vars
  <2>1. ServedInv'
    BY <1>1, NextServed DEF OrphanInv
  <2> QED
    BY <1>1, <2>1 DEF OrphanInv, vars, db, device, hist, ServersKept, RowReady, Keeper, Processed
<1>2. CASE Api
  BY <1>2, ApiOrphan
<1>3. ASSUME NEW l \in LBs, DeleteStep(l) PROVE OrphanInv'
  BY <1>3, CountForDeleteOrphan, DissociateOrphan, RemoveServerOrphan, DeleteRowOrphan
     DEF DeleteStep
<1>4. ASSUME NEW l \in LBs, CreateStep(l) PROVE OrphanInv'
  BY <1>4, CountForCreateOrphan, PutServerOrphan, AssociateOrphan, ActivateOrphan DEF CreateStep
<1>5. ASSUME NEW l \in LBs, PoolStep(l) PROVE OrphanInv'
  BY <1>5, CountForPoolOrphan, RemovePoolServerOrphan, DeleteGroupOrphan, DeletePoolRowsOrphan
     DEF PoolStep, PoolMemberStep
<1>6. ASSUME NEW l \in LBs, Begin(l) \/ BusyTimeout(l) \/ AbandonBatch(l) PROVE OrphanInv'
  BY <1>6, BeginOrphan, EndInErrorOrphan DEF BusyTimeout
<1>7. ASSUME NEW l \in LBs, UpdateStep(l) \/ Finish(l) PROVE OrphanInv'
  BY <1>7, UpdateServerOrphan, FinishOrphan DEF UpdateStep
<1>8. ASSUME NEW l \in LBs, Fail(l) \/ RevertCreate(l) \/ Reverted(l) PROVE OrphanInv'
  BY <1>8, FailOrphan, RevertCreateOrphan, EndInErrorOrphan DEF Reverted
<1> QED
  BY <1>1, <1>2, <1>3, <1>4, <1>5, <1>6, <1>7, <1>8
     DEF Next, VThunderFlow, RackDeleteFlow, RackCreateFlow, RackPoolFlow

(* Every server of a vThunder that is not leaked has its keeper.           *)
THEOREM OrphanInvariance == Spec => []OrphanInv
BY InitOrphan, NextOrphan, PTL DEF Spec

(* On a vThunder no flow, and no failure, takes the last row of an address *)
(* and leaves its server, but for the ways Leak names.                     *)
THEOREM NoServerOrphaned == Spec => []NoOrphanServer
<1>1. OrphanInv => NoOrphanServer
  BY DEF OrphanInv, ServersKept, Keeper, NoOrphanServer
<1> QED
  BY <1>1, OrphanInvariance, PTL
=============================================================================

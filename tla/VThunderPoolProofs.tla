------------------------- MODULE VThunderPoolProofs -------------------------
(***************************************************************************)
(* Proofs about VThunderPool for any finite sets of load balancers and     *)
(* computes, any projects and any size of the pool of spares.              *)
(***************************************************************************)
EXTENDS VThunderPool, FiniteSetTheorems, TLAPS

HkTypes == [at : {"idle", "counting", "booting"}, todo : 0..PoolSize,
            ready : 0..Cardinality(Computes), making : SUBSET Computes]
HistTypes == [late : SUBSET LBs, missed : SUBSET Computes, raced : SUBSET Computes,
              left : SUBSET Computes]

\* The tasks of a creation before and after the row is written.
Early == {"map", "validate", "claim", "boot"}
Unwritten == Early \cup {"take", "attach"}
Written == {"unspare", "activate", "markLb", "configure", "end"}

\* What the tasks provide: the compute is chosen after the early ones, a spare
\* and a compute of its own exclude each other.
FlowShape(f) ==
    /\ f.op = "CREATE" => f.at \in Unwritten \cup Written
    /\ f.op = "UPDATE" => f.at \in {"mark", "apply", "activate", "end"}
    /\ f.op = "DELETE" => f.at \in {"mark", "tear", "erase", "markLb", "end"}
    /\ f.op = "CREATE" => (f.compute = None <=> f.at \in Early)
    /\ f.spare # None => f.op = "CREATE" /\ f.compute = f.spare /\ ~f.booted
    /\ f.at = "take" => f.spare # None
    /\ f.booted => f.op = "CREATE" /\ f.at \in {"activate", "markLb", "configure", "end"}

\* A flow is of its project; only deletions read the row before they wait.
ShapeInv ==
    /\ \A p \in Projects : flow[p] # None => FlowShape(flow[p]) /\ ProjectOf[flow[p].lb] = p
    /\ \A l \in LBs : request[l] # None /\ request[l].op # "DELETE" =>
          request[l].read /\ request[l].compute = None

-----------------------------------------------------------------------------
\* Types and shapes.

USE DEF HkTypes, HistTypes

LEMMA InitShape == Init => TypeOK /\ ShapeInv
<1> SUFFICES ASSUME Init PROVE TypeOK /\ ShapeInv
  OBVIOUS
<1>1. IdleHk \in HkTypes
  BY VThunderPoolAssumption, FS_CardinalityType DEF IdleHk
<1> QED
  BY <1>1, VThunderPoolAssumption
  DEF Init, TypeOK, ShapeInv, NoRow, LbStatuses, RowStatuses, SpareStatuses

\* A step of a flow: it goes on as g.
LEMMA MoveShape ==
    ASSUME TypeOK, ShapeInv, NEW p \in Projects, NEW g \in Flows, FlowShape(g), ProjectOf[g.lb] = p,
           flow' = [flow EXCEPT ![p] = g], request' = request
    PROVE  ShapeInv' /\ flow' \in [Projects -> Flows \cup {None}]
BY DEF TypeOK, ShapeInv

LEMMA GotoShape ==
    ASSUME TypeOK, ShapeInv, NEW p \in Projects, flow[p] # None, NEW t \in Tasks,
           FlowShape([flow[p] EXCEPT !.at = t]), Goto(p, t), request' = request
    PROVE  ShapeInv' /\ flow' \in [Projects -> Flows \cup {None}]
<1> DEFINE g == [flow[p] EXCEPT !.at = t]
<1>1. g \in Flows /\ g.lb = flow[p].lb
  BY DEF TypeOK, Flows
<1>2. flow' = [flow EXCEPT ![p] = g]
  BY DEF Goto
<1> QED
  BY <1>1, <1>2, MoveShape DEF ShapeInv

LEMMA RequestTypes ==
    ASSUME TypeOK, ShapeInv, NEW l \in LBs,
           \/ \E op \in Ops : ApiRequest(l, op)
           \/ ReadRow(l)
           \/ BeginFlow(l)
           \/ BusyTimeout(l)
    PROVE  TypeOK' /\ ShapeInv'
<1>1. ASSUME NEW op \in Ops, ApiRequest(l, op)
      PROVE  TypeOK' /\ ShapeInv'
  <2> DEFINE r == [op |-> op, read |-> op # "DELETE", compute |-> None]
  <2>1. PendingOf(op) \in LbStatuses
    BY VThunderPoolAssumption DEF PendingOf, LbStatuses, Pending
  <2>2. r \in Requests /\ (r.op # "DELETE" => r.read /\ r.compute = None)
    BY DEF Requests
  <2>3. request' = [request EXCEPT ![l] = r]
    BY <1>1 DEF ApiRequest
  <2> HIDE DEF r
  <2> QED
    BY <1>1, <2>1, <2>2, <2>3 DEF ApiRequest, TypeOK, ShapeInv
<1>2. CASE ReadRow(l)
  <2> DEFINE r == [request[l] EXCEPT !.read = TRUE, !.compute = vth[l].compute]
  <2>1. request[l] \in Requests /\ request[l].op = "DELETE"
    BY <1>2 DEF ReadRow, TypeOK, ShapeInv
  <2>2. r \in Requests /\ r.op = "DELETE"
    BY <2>1 DEF TypeOK, Requests
  <2>3. request' = [request EXCEPT ![l] = r]
    BY <1>2 DEF ReadRow
  <2> HIDE DEF r
  <2>4. ShapeInv'
    BY <1>2, <2>2, <2>3 DEF ReadRow, TypeOK, ShapeInv
  <2> QED
    BY <1>2, <2>2, <2>3, <2>4 DEF ReadRow, TypeOK
<1>3. CASE BeginFlow(l)
  <2> DEFINE p == ProjectOf[l]
             rq == request[l]
             g == [op |-> rq.op, lb |-> l, at |-> IF rq.op = "CREATE" THEN "map" ELSE "mark",
                   compute |-> rq.compute, spare |-> None, booted |-> FALSE,
                   drop |-> DeleteComputeFlag(rq.compute)]
  <2>1. rq \in Requests /\ p \in Projects
    BY <1>3, VThunderPoolAssumption DEF BeginFlow, TypeOK
  <2>2. DeleteComputeFlag(rq.compute) \in BOOLEAN
    BY DEF DeleteComputeFlag
  <2>3. rq.op \in {"CREATE", "UPDATE", "DELETE"} /\ (rq.op = "CREATE" => rq.compute = None)
    BY <1>3, <2>1, VThunderPoolAssumption DEF BeginFlow, ShapeInv, Requests
  <2>4. g \in Flows
    BY <2>1, <2>2 DEF Flows, Requests, Tasks
  <2>5. FlowShape(g) /\ ProjectOf[g.lb] = p
    BY <2>3 DEF FlowShape, Early, Unwritten, Written
  <2>6. /\ flow' = [flow EXCEPT ![p] = g]
        /\ request' = [request EXCEPT ![l] = None]
    BY <1>3 DEF BeginFlow
  <2> HIDE DEF g, p
  <2>7. ShapeInv'
    BY <2>1, <2>5, <2>6 DEF TypeOK, ShapeInv
  <2>8. flow' \in [Projects -> Flows \cup {None}] /\ request' \in [LBs -> Requests \cup {None}]
    BY <2>1, <2>4, <2>6 DEF TypeOK
  <2>9. hist' \in HistTypes
    BY <1>3 DEF BeginFlow, TypeOK
  <2> QED
    BY <1>3, <2>7, <2>8, <2>9 DEF BeginFlow, TypeOK
<1>4. CASE BusyTimeout(l)
  BY <1>4 DEF BusyTimeout, TypeOK, ShapeInv, LbStatuses
<1> QED
  BY <1>1, <1>2, <1>3, <1>4

\* An ACTIVE row names its compute, so a creation that joins it gets one.
RowsOk == \A l \in LBs : vth[l].status = "ACTIVE" => vth[l].compute \in Computes

LEMMA FlowTypes ==
    ASSUME TypeOK, ShapeInv, RowsOk, NEW p \in Projects, FlowStep(p)
    PROVE  TypeOK' /\ ShapeInv'
<1> DEFINE f == flow[p]
<1>0. f # None => f \in Flows /\ f.lb \in LBs /\ FlowShape(f) /\ ProjectOf[f.lb] = p
  BY DEF TypeOK, ShapeInv, Flows
<1>1. CASE MapLoadbalancerToAmphora(p)
  <2>1. f # None /\ request' = request
    BY <1>1 DEF MapLoadbalancerToAmphora, At
  <2>2. \E t \in {"boot", "validate"} : Goto(p, t) /\ FlowShape([f EXCEPT !.at = t])
    BY <1>0, <1>1, <2>1 DEF MapLoadbalancerToAmphora, At, FlowShape, Flows, Early, Unwritten, Written
  <2>3. ShapeInv' /\ flow' \in [Projects -> Flows \cup {None}]
    BY <2>1, <2>2, GotoShape DEF Tasks
  <2> QED
    BY <1>0, <1>1, <2>1, <2>3 DEF MapLoadbalancerToAmphora, TypeOK
<1>2. CASE TakeSpare(p)
  <2>1. f # None /\ request' = request
    BY <1>2 DEF TakeSpare, At
  <2>2. \E t \in {"attach"} : Goto(p, t) /\ FlowShape([f EXCEPT !.at = t])
    BY <1>0, <1>2, <2>1 DEF TakeSpare, At, FlowShape, Flows, Early, Unwritten, Written
  <2>3. ShapeInv' /\ flow' \in [Projects -> Flows \cup {None}]
    BY <2>1, <2>2, GotoShape DEF Tasks
  <2> QED
    <3>1. f.spare \in Computes
      BY <1>0, <1>2, <2>1 DEF TakeSpare, At, FlowShape, Flows
    <3>2. spare' \in [Computes -> SpareStatuses]
      BY <1>2, <3>1 DEF TakeSpare, SetSpare, TypeOK, SpareStatuses
    <3>3. hist' \in HistTypes
      BY <1>2, <3>1 DEF TakeSpare, TypeOK
    <3> QED
      BY <1>2, <2>3, <3>2, <3>3 DEF TakeSpare, TypeOK
<1>3. CASE AttachCompute(p)
  <2>1. f # None /\ request' = request
    BY <1>3 DEF AttachCompute, At
  <2>2. \E t \in {"unspare"} : Goto(p, t) /\ FlowShape([f EXCEPT !.at = t])
    BY <1>0, <1>3, <2>1 DEF AttachCompute, At, FlowShape, Flows, Early, Unwritten, Written
  <2>3. ShapeInv' /\ flow' \in [Projects -> Flows \cup {None}]
    BY <2>1, <2>2, GotoShape DEF Tasks
  <2> QED
    BY <1>0, <1>3, <2>1, <2>3 DEF AttachCompute, TypeOK, RowStatuses, Pending, Flows
<1>4. CASE DeleteStaleSpareVThunder(p)
  <2>1. f # None /\ request' = request
    BY <1>4 DEF DeleteStaleSpareVThunder, At
  <2>2. \E t \in {"activate"} : Goto(p, t) /\ FlowShape([f EXCEPT !.at = t])
    BY <1>0, <1>4, <2>1 DEF DeleteStaleSpareVThunder, At, FlowShape, Flows, Early, Unwritten, Written
  <2>3. ShapeInv' /\ flow' \in [Projects -> Flows \cup {None}]
    BY <2>1, <2>2, GotoShape DEF Tasks
  <2> QED
    BY <1>0, <1>4, <2>1, <2>3 DEF DeleteStaleSpareVThunder, TypeOK, SpareStatuses
<1>5. CASE ActivateRow(p)
  <2>1. f # None /\ request' = request
    BY <1>5 DEF ActivateRow, At
  <2>2. \E t \in {"markLb"} : Goto(p, t) /\ FlowShape([f EXCEPT !.at = t])
    BY <1>0, <1>5, <2>1 DEF ActivateRow, At, FlowShape, Flows, Early, Unwritten, Written
  <2>3. ShapeInv' /\ flow' \in [Projects -> Flows \cup {None}]
    BY <2>1, <2>2, GotoShape DEF Tasks
  <2> QED
    BY <1>0, <1>5, <2>1, <2>3 DEF ActivateRow, TypeOK, SetRow, RowStatuses
<1>6. CASE MarkLBActive(p)
  <2>1. f # None /\ request' = request
    BY <1>6 DEF MarkLBActive, At
  <2>2. \E t \in {"configure"} : Goto(p, t) /\ FlowShape([f EXCEPT !.at = t])
    BY <1>0, <1>6, <2>1 DEF MarkLBActive, At, FlowShape, Flows, Early, Unwritten, Written
  <2>3. ShapeInv' /\ flow' \in [Projects -> Flows \cup {None}]
    BY <2>1, <2>2, GotoShape DEF Tasks
  <2> QED
    BY <1>0, <1>6, <2>1, <2>3 DEF MarkLBActive, TypeOK, SetLb, LbStatuses
<1>7. CASE CreateVirtualServer(p)
  <2>1. f # None /\ request' = request
    BY <1>7 DEF CreateVirtualServer, At
  <2>2. \E t \in {"end"} : Goto(p, t) /\ FlowShape([f EXCEPT !.at = t])
    BY <1>0, <1>7, <2>1 DEF CreateVirtualServer, At, FlowShape, Flows, Early, Unwritten, Written
  <2>3. ShapeInv' /\ flow' \in [Projects -> Flows \cup {None}]
    BY <2>1, <2>2, GotoShape DEF Tasks
  <2> QED
    BY <1>0, <1>7, <2>1, <2>3 DEF CreateVirtualServer, TypeOK
<1>8. CASE MarkRowPending(p)
  <2>1. f # None /\ request' = request
    BY <1>8 DEF MarkRowPending, At
  <2>2. \E t \in {"apply", "tear"} : Goto(p, t) /\ FlowShape([f EXCEPT !.at = t])
    BY <1>0, <1>8, <2>1 DEF MarkRowPending, At, FlowShape, Flows, Early, Unwritten, Written
  <2>3. ShapeInv' /\ flow' \in [Projects -> Flows \cup {None}]
    BY <2>1, <2>2, GotoShape DEF Tasks
  <2> QED
    BY <1>0, <1>8, <2>1, <2>3 DEF MarkRowPending, TypeOK, MarkRow, SetRow, PendingOf, RowStatuses, Pending
<1>9. CASE ApplyUpdate(p)
  <2>1. f # None /\ request' = request
    BY <1>9 DEF ApplyUpdate, At
  <2>2. \E t \in {"activate"} : Goto(p, t) /\ FlowShape([f EXCEPT !.at = t])
    BY <1>0, <1>9, <2>1 DEF ApplyUpdate, At, FlowShape, Flows, Early, Unwritten, Written
  <2>3. ShapeInv' /\ flow' \in [Projects -> Flows \cup {None}]
    BY <2>1, <2>2, GotoShape DEF Tasks
  <2> QED
    BY <1>0, <1>9, <2>1, <2>3 DEF ApplyUpdate, TypeOK, SetLb, LbStatuses
<1>10. CASE ActivateUpdatedRow(p)
  <2>1. f # None /\ request' = request
    BY <1>10 DEF ActivateUpdatedRow, At
  <2>2. \E t \in {"end"} : Goto(p, t) /\ FlowShape([f EXCEPT !.at = t])
    BY <1>0, <1>10, <2>1 DEF ActivateUpdatedRow, At, FlowShape, Flows, Early, Unwritten, Written
  <2>3. ShapeInv' /\ flow' \in [Projects -> Flows \cup {None}]
    BY <2>1, <2>2, GotoShape DEF Tasks
  <2> QED
    BY <1>0, <1>10, <2>1, <2>3 DEF ActivateUpdatedRow, TypeOK, SetRow, RowStatuses
<1>11. CASE DeleteAmphorae(p)
  <2>1. f # None /\ request' = request
    BY <1>11 DEF DeleteAmphorae, At
  <2>2. \E t \in {"erase"} : Goto(p, t) /\ FlowShape([f EXCEPT !.at = t])
    BY <1>0, <1>11, <2>1 DEF DeleteAmphorae, At, FlowShape, Flows, Early, Unwritten, Written
  <2>3. ShapeInv' /\ flow' \in [Projects -> Flows \cup {None}]
    BY <2>1, <2>2, GotoShape DEF Tasks
  <2> QED
    BY <1>0, <1>11, <2>1, <2>3 DEF DeleteAmphorae, TypeOK
<1>12. CASE MarkRowDeleted(p)
  <2>1. f # None /\ request' = request
    BY <1>12 DEF MarkRowDeleted, At
  <2>2. \E t \in {"markLb"} : Goto(p, t) /\ FlowShape([f EXCEPT !.at = t])
    BY <1>0, <1>12, <2>1 DEF MarkRowDeleted, At, FlowShape, Flows, Early, Unwritten, Written
  <2>3. ShapeInv' /\ flow' \in [Projects -> Flows \cup {None}]
    BY <2>1, <2>2, GotoShape DEF Tasks
  <2> QED
    BY <1>0, <1>12, <2>1, <2>3 DEF MarkRowDeleted, TypeOK, MarkRow, SetRow, RowStatuses
<1>13. CASE MarkLBDeleted(p)
  <2>1. f # None /\ request' = request
    BY <1>13 DEF MarkLBDeleted, At
  <2>2. \E t \in {"end"} : Goto(p, t) /\ FlowShape([f EXCEPT !.at = t])
    BY <1>0, <1>13, <2>1 DEF MarkLBDeleted, At, FlowShape, Flows, Early, Unwritten, Written
  <2>3. ShapeInv' /\ flow' \in [Projects -> Flows \cup {None}]
    BY <2>1, <2>2, GotoShape DEF Tasks
  <2> QED
    BY <1>0, <1>13, <2>1, <2>3 DEF MarkLBDeleted, TypeOK, SetLb, LbStatuses
<1>14. CASE ValidateComputeForProject(p)
  <2>1. f # None /\ request' = request
    BY <1>14 DEF ValidateComputeForProject, At
  <2>2. ASSUME NEW c \in ProjectComputes(p), flow' = [flow EXCEPT ![p].compute = c, ![p].at = "attach"]
        PROVE  ShapeInv' /\ flow' \in [Projects -> Flows \cup {None}]
    <3> DEFINE g == [f EXCEPT !.compute = c, !.at = "attach"]
    <3>1. c \in Computes /\ c # None
      BY VThunderPoolAssumption DEF ProjectComputes, RowsOk
    <3>2. f.op = "CREATE" /\ f.at = "validate"
      BY <1>14 DEF ValidateComputeForProject, At
    <3>3. g \in Flows /\ FlowShape(g) /\ g.lb = f.lb
      BY <1>0, <2>1, <3>1, <3>2 DEF Flows, Tasks, FlowShape, Early, Unwritten, Written
    <3>4. flow' = [flow EXCEPT ![p] = g]
      BY <2>2
    <3> HIDE DEF g
    <3> QED
      BY <1>0, <2>1, <3>3, <3>4, MoveShape
  <2>3. ASSUME Goto(p, "claim")
        PROVE  ShapeInv' /\ flow' \in [Projects -> Flows \cup {None}]
    <3>1. FlowShape([f EXCEPT !.at = "claim"])
      BY <1>0, <1>14, <2>1 DEF ValidateComputeForProject, At, FlowShape, Flows, Early, Unwritten, Written
    <3> QED
      BY <2>1, <2>3, <3>1, GotoShape DEF Tasks
  <2>4. ShapeInv' /\ flow' \in [Projects -> Flows \cup {None}]
    BY <1>14, <2>2, <2>3 DEF ValidateComputeForProject
  <2> QED
    BY <1>14, <2>4 DEF ValidateComputeForProject, TypeOK
<1>15. CASE ReadSpare(p)
  <2>1. PICK c \in ReadySpares : flow' = [flow EXCEPT ![p].compute = c, ![p].spare = c, ![p].at = "take"]
    BY <1>15 DEF ReadSpare
  <2> DEFINE g == [f EXCEPT !.compute = c, !.spare = c, !.at = "take"]
  <2>2. f # None /\ f.op = "CREATE" /\ f.at = "claim" /\ c \in Computes /\ c # None
    BY <1>15, VThunderPoolAssumption DEF ReadSpare, At, ReadySpares
  <2>3. g \in Flows /\ FlowShape(g) /\ g.lb = f.lb
    BY <1>0, <2>2 DEF Flows, Tasks, FlowShape, Early, Unwritten, Written
  <2>4. flow' = [flow EXCEPT ![p] = g]
    BY <2>1
  <2> HIDE DEF g
  <2>5. ShapeInv' /\ flow' \in [Projects -> Flows \cup {None}]
    BY <1>0, <1>15, <2>2, <2>3, <2>4, MoveShape DEF ReadSpare
  <2> QED
    BY <1>15, <2>5 DEF ReadSpare, TypeOK
<1>16. CASE BootCompute(p)
  <2>1. PICK c \in Computes \ used :
          /\ alive' = alive \cup {c}
          /\ used' = used \cup {c}
          /\ vth' = [vth EXCEPT ![f.lb] = [status |-> "PENDING_CREATE", compute |-> c]]
          /\ flow' = [flow EXCEPT ![p].compute = c, ![p].booted = TRUE, ![p].at = "activate"]
    BY <1>16 DEF BootCompute
  <2> DEFINE g == [f EXCEPT !.compute = c, !.booted = TRUE, !.at = "activate"]
  <2>2. f # None /\ f.op = "CREATE" /\ f.at = "boot" /\ c # None
    BY <1>16, VThunderPoolAssumption DEF BootCompute, At
  <2>3. g \in Flows /\ FlowShape(g) /\ g.lb = f.lb
    BY <1>0, <2>2 DEF Flows, Tasks, FlowShape, Early, Unwritten, Written
  <2>4. flow' = [flow EXCEPT ![p] = g]
    BY <2>1
  <2> HIDE DEF g
  <2>5. ShapeInv' /\ flow' \in [Projects -> Flows \cup {None}]
    BY <1>0, <1>16, <2>2, <2>3, <2>4, MoveShape DEF BootCompute
  <2> QED
    BY <1>0, <1>16, <2>1, <2>2, <2>5 DEF BootCompute, TypeOK, RowStatuses, Pending
<1>17. CASE EndFlow(p)
  BY <1>17 DEF EndFlow, TypeOK, ShapeInv
<1>18. CASE FailFlow(p)
  <2>1. f # None /\ flow' = [flow EXCEPT ![p] = None] /\ request' = request
    BY <1>18 DEF FailFlow
  <2>2. ShapeInv' /\ flow' \in [Projects -> Flows \cup {None}]
    BY <2>1 DEF TypeOK, ShapeInv
  <2>3. alive' \subseteq alive /\ vs' \subseteq vs
    BY <1>18 DEF FailFlow, ComputesAfterRevert
  <2>4. vth' \in [LBs -> [status : RowStatuses, compute : Computes \cup {None}]]
    BY <1>18 DEF FailFlow, TypeOK, NoRow, RowStatuses
  <2>5. spare' \in [Computes -> SpareStatuses]
        /\ hist' \in HistTypes
    <3>1. f.spare \in Computes \cup {None} /\ (f.op = "CREATE" /\ f.spare # None => f.spare \in Computes)
      BY <1>0, <2>1 DEF Flows
    <3>2. f.op = "CREATE" /\ f.spare # None => SetSpare(f.spare, "READY")
      BY <1>18 DEF FailFlow
    <3>3. ~(f.op = "CREATE" /\ f.spare # None) =>
              /\ spare' = spare
              /\ \E left \in SUBSET MayRemain : hist' = [hist EXCEPT !.left = @ \cup left]
      BY <1>18 DEF FailFlow, MayBeLeft
    <3>4. spare' \in [Computes -> SpareStatuses]
      BY <3>1, <3>2, <3>3 DEF SetSpare, TypeOK, SpareStatuses
    <3>5. f.op = "CREATE" /\ f.spare # None => hist' = [hist EXCEPT
                          !.missed = @ \cup {c \in {f.spare} : hk.at = "counting" /\ spare[c] = "BUSY"},
                          !.raced = @ \cup {c \in {f.spare} : f.at = "take" /\ spare[c] = "BUSY"}]
      BY <1>18 DEF FailFlow
    <3>6. hist \in HistTypes
      BY DEF TypeOK
    <3>7. CASE f.op = "CREATE" /\ f.spare # None
      <4>1. {c \in {f.spare} : hk.at = "counting" /\ spare[c] = "BUSY"} \in SUBSET Computes
        BY <3>1, <3>7
      <4>2. {c \in {f.spare} : f.at = "take" /\ spare[c] = "BUSY"} \in SUBSET Computes
        BY <3>1, <3>7
      <4> QED
        BY <3>4, <3>5, <3>6, <3>7, <4>1, <4>2
    <3>8. CASE ~(f.op = "CREATE" /\ f.spare # None)
      BY <3>3, <3>4, <3>6, <3>8, VThunderPoolAssumption
    <3> QED
      BY <3>7, <3>8
  <2> QED
    BY <1>0, <1>18, <2>1, <2>2, <2>3, <2>4, <2>5 DEF FailFlow, SetLb, TypeOK, LbStatuses
<1> QED
  BY <1>1, <1>2, <1>3, <1>4, <1>5, <1>6, <1>7, <1>8, <1>9, <1>10, <1>11, <1>12, <1>13, <1>14,
     <1>15, <1>16, <1>17, <1>18 DEF FlowStep

LEMMA HousekeeperTypes ==
    ASSUME TypeOK, ShapeInv,
           \/ CountReadySpares \/ CountBusySpares \/ BootSpare \/ EndSpareCheck
           \/ \E c \in Computes : EndSpareFlow(c) \/ HealthCheck(c)
                                  \/ DeleteStaleSpare(c) \/ DropStaleSpareRow(c)
    PROVE  TypeOK' /\ ShapeInv'
<1>0. ShapeInv'
  BY DEF ShapeInv, CountReadySpares, CountBusySpares, BootSpare, EndSpareCheck, EndSpareFlow,
         HealthCheck, DeleteStaleSpare, DropStaleSpareRow
<1>1. CASE CountReadySpares
  <2>1. Cardinality(ReadySpares) \in 0..Cardinality(Computes)
    BY VThunderPoolAssumption, FS_Subset, FS_CardinalityType DEF ReadySpares
  <2> QED
    BY <1>0, <1>1, <2>1 DEF CountReadySpares, TypeOK
<1>2. CASE CountBusySpares
  <2>1. hk.ready + CountBusy \in Nat
    BY VThunderPoolAssumption, FS_Subset, FS_CardinalityType DEF CountBusy, TypeOK
  <2> QED
    <3>1. PoolSize \in Nat /\ Cardinality(Computes) \in Nat
      BY VThunderPoolAssumption, FS_CardinalityType
    <3>2. IdleHk \in HkTypes
      BY <3>1 DEF IdleHk
    <3>3. CASE hk.ready + CountBusy < PoolSize
      <4>1. PoolSize - (hk.ready + CountBusy) \in 0..PoolSize
        BY <2>1, <3>1, <3>3
      <4> QED
        BY <1>0, <1>2, <3>3, <4>1 DEF CountBusySpares, TypeOK
    <3>4. CASE ~(hk.ready + CountBusy < PoolSize)
      BY <1>0, <1>2, <3>2, <3>4 DEF CountBusySpares, TypeOK
    <3> QED
      BY <3>3, <3>4
<1>3. CASE BootSpare
  <2>1. PICK c \in Computes \ used :
          /\ used' = used \cup {c}
          /\ \/ /\ alive' = alive \cup {c} /\ hist' = hist
                /\ spare' = [spare EXCEPT ![c] = "BOOTING"]
                /\ hk' = [hk EXCEPT !.todo = @ - 1, !.making = @ \cup {c}]
             \/ /\ \E left \in SUBSET {c} : /\ alive' = alive \cup left
                                            /\ hist' = [hist EXCEPT !.left = @ \cup left]
                /\ hk' = [hk EXCEPT !.todo = @ - 1]
                /\ spare' = spare
    BY <1>3 DEF BootSpare, MayBeLeft
  <2>2. hk \in HkTypes /\ hk.todo > 0 /\ PoolSize \in Nat
    BY <1>3, VThunderPoolAssumption DEF BootSpare, TypeOK
  <2>3. hk.todo - 1 \in 0..PoolSize /\ hk.making \cup {c} \in SUBSET Computes
    BY <2>2
  <2>4. hk' \in HkTypes
    BY <2>1, <2>2, <2>3
  <2>5. hist' \in HistTypes
    <3>1. hist \in HistTypes
      BY DEF TypeOK
    <3> QED
      BY <2>1, <3>1
  <2>6. alive' \subseteq used' /\ used' \subseteq Computes
        /\ spare' \in [Computes -> SpareStatuses]
    BY <2>1 DEF TypeOK, SpareStatuses
  <2> QED
    BY <1>0, <1>3, <2>4, <2>5, <2>6 DEF BootSpare, TypeOK
<1>4. CASE EndSpareCheck
  BY <1>0, <1>4, VThunderPoolAssumption, FS_CardinalityType DEF EndSpareCheck, TypeOK, IdleHk
<1>5. ASSUME NEW c \in Computes,
             EndSpareFlow(c) \/ HealthCheck(c) \/ DeleteStaleSpare(c) \/ DropStaleSpareRow(c)
      PROVE  TypeOK'
  BY <1>5 DEF EndSpareFlow, HealthCheck, DeleteStaleSpare, DropStaleSpareRow, TypeOK, SpareStatuses
<1> QED
  BY <1>0, <1>1, <1>2, <1>3, <1>4, <1>5

LEMMA NextTypes == TypeOK /\ ShapeInv /\ RowsOk /\ [Next]_vars => TypeOK' /\ ShapeInv'
<1> SUFFICES ASSUME TypeOK, ShapeInv, RowsOk, [Next]_vars
             PROVE  TypeOK' /\ ShapeInv'
  OBVIOUS
<1>1. CASE UNCHANGED vars
  BY <1>1 DEF vars, TypeOK, ShapeInv
<1> QED
  BY <1>1, RequestTypes, FlowTypes, HousekeeperTypes DEF Next

-----------------------------------------------------------------------------
\* The pool of spares.

\* A spare that a flow or a failover has read was READY once, so it never boots
\* again; only what the housekeeper is making is still to come.
SpareInv ==
    /\ \A c \in Computes : spare[c] # "NONE" => c \in used
    /\ \A p \in Projects : flow[p] # None /\ flow[p].spare # None =>
          flow[p].spare \in used /\ spare[flow[p].spare] # "BOOTING"
    /\ \A c \in stale : c \in used /\ spare[c] # "BOOTING"
    /\ \A c \in hk.making : spare[c] = "BOOTING"
    /\ hk.at # "booting" => hk.making = {} /\ hk.todo = 0

InPool == {c \in Computes : spare[c] \in {"READY", "BUSY"}}

\* What spare_check has counted, and what it will still create, never exceeds
\* the size together with the spares it may not have missed.
PoolInv ==
    /\ hk.at = "counting" => Cardinality(ReadySpares \ hist.missed) <= hk.ready
    /\ Cardinality(InPool \ hist.missed) + Cardinality(hk.making) + hk.todo <= PoolSize

LEMMA InitSpares == Init => SpareInv /\ PoolInv
<1> SUFFICES ASSUME Init PROVE SpareInv /\ PoolInv
  OBVIOUS
<1>1. SpareInv
  BY DEF Init, SpareInv, IdleHk
<1>2. InPool = {} /\ hk.making = {} /\ hk.todo = 0 /\ hk.at = "idle"
  BY DEF Init, InPool, IdleHk
<1>3. InPool \ hist.missed = {} /\ Cardinality({}) = 0
  BY <1>2, FS_EmptySet
<1> QED
  BY <1>1, <1>2, <1>3, VThunderPoolAssumption DEF PoolInv

LEMMA Counts == \A S \in SUBSET Computes : IsFiniteSet(S) /\ Cardinality(S) \in Nat
BY VThunderPoolAssumption, FS_Subset, FS_CardinalityType

\* Steps that leave the spares alone, and those in which no flow gets one.
LEMMA SparesKept ==
    ASSUME TypeOK, SpareInv, PoolInv,
           spare' = spare, hk' = hk, stale' = stale, hist'.missed = hist.missed,
           used \subseteq used',
           \A q \in Projects : flow'[q] # None => flow'[q].spare = None
                                   \/ (flow[q] # None /\ flow'[q].spare = flow[q].spare)
    PROVE  SpareInv' /\ PoolInv'
<1>1. SpareInv'
  BY DEF SpareInv
<1>2. PoolInv'
  BY DEF PoolInv, ReadySpares, InPool
<1> QED
  BY <1>1, <1>2

\* What a failing task reverts.
LEMMA FailFacts ==
    ASSUME TypeOK, ShapeInv, NEW p \in Projects, FailFlow(p)
    PROVE  LET f == flow[p] IN
           /\ f # None /\ f \in Flows /\ FlowShape(f) /\ f.lb \in LBs /\ ProjectOf[f.lb] = p
           /\ flow' = [flow EXCEPT ![p] = None]
           /\ lb' = [lb EXCEPT ![f.lb] = "ERROR"]
           /\ vth' = IF f.op = "CREATE" /\ f.at \notin {"map", "validate", "claim", "take"}
                     THEN [vth EXCEPT ![f.lb] = NoRow] ELSE vth
           /\ alive' \subseteq alive
           /\ \A c \in alive \ alive' : f.booted /\ c = f.compute
           /\ f.booted /\ f.compute \in alive' => f.compute \in hist'.left
           /\ hist'.late = hist.late /\ hist.left \subseteq hist'.left
           /\ f.spare = None => spare' = spare /\ hist'.missed = hist.missed /\ hist'.raced = hist.raced
           /\ f.spare # None =>
                /\ f.spare \in Computes
                /\ spare' = [spare EXCEPT ![f.spare] = IF @ = "NONE" THEN @ ELSE "READY"]
                /\ hist'.missed = IF hk.at = "counting" /\ spare[f.spare] = "BUSY"
                                  THEN hist.missed \cup {f.spare} ELSE hist.missed
                /\ hist'.raced = IF f.at = "take" /\ spare[f.spare] = "BUSY"
                                 THEN hist.raced \cup {f.spare} ELSE hist.raced
           /\ UNCHANGED <<request, used, hk, stale>>
<1> DEFINE f == flow[p]
<1>1. f # None /\ flow' = [flow EXCEPT ![p] = None] /\ UNCHANGED <<request, used, hk, stale>>
  BY DEF FailFlow
<1>2. f \in Flows /\ FlowShape(f) /\ f.lb \in LBs /\ ProjectOf[f.lb] = p
  BY <1>1 DEF TypeOK, ShapeInv, Flows
<1>3. /\ f.spare \in Computes \cup {None} /\ (f.spare # None => f.op = "CREATE" /\ ~f.booted)
      /\ hist \in HistTypes
  BY <1>2 DEF Flows, FlowShape, TypeOK
<1>4. lb' = [lb EXCEPT ![f.lb] = "ERROR"]
  BY DEF FailFlow, SetLb
<1>5. vth' = IF f.op = "CREATE" /\ f.at \notin {"map", "validate", "claim", "take"}
                     THEN [vth EXCEPT ![f.lb] = NoRow] ELSE vth
  BY DEF FailFlow
<1>6. ASSUME f.spare = None
      PROVE  \E left \in SUBSET Booted(p) :
                /\ alive' = alive \ (Booted(p) \ left)
                /\ hist' = [hist EXCEPT !.left = @ \cup left]
                /\ spare' = spare
  BY <1>6 DEF FailFlow, MayBeLeft, ComputesAfterRevert
<1>7. ASSUME f.spare = None
      PROVE  /\ alive' \subseteq alive
             /\ \A c \in alive \ alive' : f.booted /\ c = f.compute
             /\ f.booted /\ f.compute \in alive' => f.compute \in hist'.left
             /\ hist'.late = hist.late /\ hist.left \subseteq hist'.left
             /\ spare' = spare /\ hist'.missed = hist.missed /\ hist'.raced = hist.raced
  <2>1. PICK left \in SUBSET Booted(p) : /\ alive' = alive \ (Booted(p) \ left)
                                         /\ hist' = [hist EXCEPT !.left = @ \cup left]
                                         /\ spare' = spare
    BY <1>6, <1>7
  <2>2. /\ hist'.late = hist.late /\ hist'.missed = hist.missed /\ hist'.raced = hist.raced
        /\ hist'.left = hist.left \cup left
    BY <1>3, <2>1
  <2> QED
    BY <2>1, <2>2 DEF Booted
<1>8. ASSUME f.spare # None
      PROVE  /\ spare' = [spare EXCEPT ![f.spare] = IF @ = "NONE" THEN @ ELSE "READY"]
             /\ hist'.missed = IF hk.at = "counting" /\ spare[f.spare] = "BUSY"
                                  THEN hist.missed \cup {f.spare} ELSE hist.missed
             /\ hist'.raced = IF f.at = "take" /\ spare[f.spare] = "BUSY"
                                 THEN hist.raced \cup {f.spare} ELSE hist.raced
             /\ hist'.late = hist.late /\ hist'.left = hist.left /\ alive' = alive
  <2> DEFINE m == {c \in {f.spare} : hk.at = "counting" /\ spare[c] = "BUSY"}
             r == {c \in {f.spare} : f.at = "take" /\ spare[c] = "BUSY"}
  <2>1. /\ SetSpare(f.spare, "READY") /\ alive' = alive
        /\ hist' = [hist EXCEPT !.missed = @ \cup m, !.raced = @ \cup r]
    BY <1>3, <1>8 DEF FailFlow
  <2>2. m = (IF hk.at = "counting" /\ spare[f.spare] = "BUSY" THEN {f.spare} ELSE {})
    OBVIOUS
  <2>3. r = (IF f.at = "take" /\ spare[f.spare] = "BUSY" THEN {f.spare} ELSE {})
    OBVIOUS
  <2> HIDE DEF m, r
  <2>4. /\ hist'.missed = hist.missed \cup m /\ hist'.raced = hist.raced \cup r
        /\ hist'.late = hist.late /\ hist'.left = hist.left
    BY <1>3, <2>1
  <2> QED
    BY <2>1, <2>2, <2>3, <2>4 DEF SetSpare
<1> QED
  BY <1>1, <1>2, <1>3, <1>4, <1>5, <1>7, <1>8

LEMMA FailSpares ==
    ASSUME TypeOK, ShapeInv, SpareInv, PoolInv, NEW p \in Projects, FailFlow(p)
    PROVE  SpareInv' /\ PoolInv'
<1> DEFINE f == flow[p]
<1>0. /\ f # None /\ f \in Flows
      /\ flow' = [flow EXCEPT ![p] = None]
      /\ f.spare = None => spare' = spare /\ hist'.missed = hist.missed
      /\ UNCHANGED <<used, hk, stale>>
  BY FailFacts
<1>1. CASE f.spare = None
  <2>1. \A q \in Projects : flow'[q] # None => flow[q] # None /\ flow'[q].spare = flow[q].spare
    BY <1>0 DEF TypeOK
  <2> QED
    BY <1>0, <1>1, <2>1, SparesKept
<1>2. CASE f.spare # None
  <2>1. /\ f.spare \in Computes
        /\ spare' = [spare EXCEPT ![f.spare] = IF @ = "NONE" THEN @ ELSE "READY"]
        /\ hist'.missed = IF hk.at = "counting" /\ spare[f.spare] = "BUSY"
                                  THEN hist.missed \cup {f.spare} ELSE hist.missed
    BY <1>2, FailFacts
  <2>2. spare[f.spare] # "BOOTING" /\ f.spare \in used
    BY <1>0, <1>2 DEF SpareInv
  <2>4. SpareInv'
    BY <1>0, <2>1, <2>2 DEF SpareInv, TypeOK
  <2>5. InPool' = InPool
    BY <2>1, <2>2 DEF InPool, TypeOK, SpareStatuses
  <2>6. InPool' \ hist'.missed \subseteq InPool \ hist.missed
    BY <2>1, <2>5
  <2>7. Cardinality(InPool' \ hist'.missed) <= Cardinality(InPool \ hist.missed)
    BY <2>6, Counts, FS_Subset DEF InPool
  <2>8. hk.at = "counting" => ReadySpares' \ hist'.missed \subseteq ReadySpares \ hist.missed
    BY <2>1, <2>2 DEF ReadySpares, TypeOK, SpareStatuses
  <2>9. hk.at = "counting" =>
           Cardinality(ReadySpares' \ hist'.missed) <= Cardinality(ReadySpares \ hist.missed)
    BY <2>8, Counts, FS_Subset DEF ReadySpares
  <2>10. /\ Cardinality(InPool \ hist.missed) \in Nat /\ Cardinality(InPool' \ hist'.missed) \in Nat
         /\ Cardinality(ReadySpares \ hist.missed) \in Nat /\ Cardinality(ReadySpares' \ hist'.missed) \in Nat
         /\ Cardinality(hk.making) \in Nat /\ hk.todo \in Nat /\ hk.ready \in Nat
    BY Counts, FS_CardinalityType, VThunderPoolAssumption DEF InPool, ReadySpares, TypeOK
  <2>11. PoolInv'
    BY <1>0, <2>7, <2>9, <2>10, VThunderPoolAssumption DEF PoolInv
  <2> QED
    BY <2>4, <2>11
<1> QED
  BY <1>1, <1>2

\* A spare that is claimed, or whose row is removed, adds nothing.
LEMMA SpareLeaves ==
    ASSUME TypeOK, SpareInv, PoolInv, NEW c \in Computes, NEW s \in {"NONE", "BUSY"},
           spare' = [spare EXCEPT ![c] = IF @ = "NONE" THEN @ ELSE s],
           spare[c] # "BOOTING",
           hk' = hk, stale' \subseteq stale, hist'.missed = hist.missed, used' = used,
           \A q \in Projects : flow'[q] # None => flow'[q].spare = None
                                   \/ (flow[q] # None /\ flow'[q].spare = flow[q].spare)
    PROVE  SpareInv' /\ PoolInv'
<1>1. SpareInv'
  BY DEF SpareInv, TypeOK
<1>2. InPool' \subseteq InPool /\ ReadySpares' \subseteq ReadySpares
  BY DEF InPool, ReadySpares, TypeOK, SpareStatuses
<1>3. /\ Cardinality(InPool' \ hist.missed) <= Cardinality(InPool \ hist.missed)
      /\ Cardinality(ReadySpares' \ hist.missed) <= Cardinality(ReadySpares \ hist.missed)
  BY <1>2, Counts, FS_Subset DEF InPool, ReadySpares
<1>4. /\ Cardinality(InPool \ hist.missed) \in Nat /\ Cardinality(InPool' \ hist.missed) \in Nat
      /\ Cardinality(ReadySpares \ hist.missed) \in Nat /\ Cardinality(ReadySpares' \ hist.missed) \in Nat
      /\ Cardinality(hk.making) \in Nat /\ hk.todo \in Nat /\ hk.ready \in Nat
  BY Counts, FS_CardinalityType, VThunderPoolAssumption DEF InPool, ReadySpares, TypeOK
<1>5. PoolInv'
  BY <1>3, <1>4, VThunderPoolAssumption DEF PoolInv
<1> QED
  BY <1>1, <1>5

LEMMA FlowSpares ==
    ASSUME TypeOK, ShapeInv, SpareInv, PoolInv, NEW p \in Projects, FlowStep(p)
    PROVE  SpareInv' /\ PoolInv'
<1> DEFINE f == flow[p]
<1>0. f # None => f \in Flows /\ FlowShape(f)
  BY DEF TypeOK, ShapeInv
<1>1. ASSUME NEW t \in Tasks, f # None, Goto(p, t)
      PROVE  \A q \in Projects : flow'[q] # None =>
                 flow'[q].spare = None \/ (flow[q] # None /\ flow'[q].spare = flow[q].spare)
  BY <1>1 DEF Goto, TypeOK, Flows
<1>2. CASE MapLoadbalancerToAmphora(p) \/ AttachCompute(p) \/ ActivateRow(p) \/ MarkLBActive(p)
           \/ CreateVirtualServer(p)
  <2>1. \E t \in Tasks : f # None /\ Goto(p, t)
    BY <1>2 DEF MapLoadbalancerToAmphora, AttachCompute, ActivateRow, MarkLBActive, CreateVirtualServer,
                At, Tasks
  <2> QED
    BY <1>1, <1>2, <2>1, SparesKept
    DEF MapLoadbalancerToAmphora, AttachCompute, ActivateRow, MarkLBActive, CreateVirtualServer
<1>3. CASE MarkRowPending(p) \/ ApplyUpdate(p) \/ ActivateUpdatedRow(p) \/ DeleteAmphorae(p)
           \/ MarkRowDeleted(p) \/ MarkLBDeleted(p)
  <2>1. \E t \in Tasks : f # None /\ Goto(p, t)
    BY <1>3 DEF MarkRowPending, ApplyUpdate, ActivateUpdatedRow, DeleteAmphorae, MarkRowDeleted,
                MarkLBDeleted, At, Tasks
  <2> QED
    BY <1>1, <1>3, <2>1, SparesKept
    DEF MarkRowPending, ApplyUpdate, ActivateUpdatedRow, DeleteAmphorae, MarkRowDeleted, MarkLBDeleted
<1>4. CASE ValidateComputeForProject(p)
  <2>1. \A q \in Projects : flow'[q] # None =>
                 flow'[q].spare = None \/ (flow[q] # None /\ flow'[q].spare = flow[q].spare)
    <3>1. CASE Goto(p, "claim")
      BY <1>1, <1>4, <3>1 DEF ValidateComputeForProject, At, Tasks
    <3>2. CASE \E c \in ProjectComputes(p) : flow' = [flow EXCEPT ![p].compute = c, ![p].at = "attach"]
      <4>1. PICK c \in ProjectComputes(p) : flow' = [flow EXCEPT ![p].compute = c, ![p].at = "attach"]
        BY <3>2
      <4>2. flow[p] # None /\ flow[p] \in Flows
        BY <1>0, <1>4 DEF ValidateComputeForProject, At
      <4>3. flow'[p].spare = flow[p].spare
        BY <4>1, <4>2 DEF Flows, TypeOK
      <4>4. \A q \in Projects \ {p} : flow'[q] = flow[q]
        BY <4>1 DEF TypeOK
      <4> QED
        BY <4>2, <4>3, <4>4
    <3> QED
      BY <1>4, <3>1, <3>2 DEF ValidateComputeForProject
  <2> QED
    BY <1>4, <2>1, SparesKept DEF ValidateComputeForProject
<1>5. CASE BootCompute(p)
  <2>1. \A q \in Projects : flow'[q] # None =>
                 flow'[q].spare = None \/ (flow[q] # None /\ flow'[q].spare = flow[q].spare)
    BY <1>0, <1>5 DEF BootCompute, At, TypeOK, Flows
  <2>2. used \subseteq used' /\ spare' = spare /\ hk' = hk /\ stale' = stale /\ hist' = hist
    BY <1>5 DEF BootCompute
  <2> QED
    BY <2>1, <2>2, SparesKept
<1>6. CASE EndFlow(p)
  BY <1>6, SparesKept DEF EndFlow, TypeOK
<1>7. CASE FailFlow(p)
  BY <1>7, FailSpares
<1>8. CASE ReadSpare(p)
  <2>1. PICK c \in ReadySpares : flow' = [flow EXCEPT ![p].compute = c, ![p].spare = c, ![p].at = "take"]
    BY <1>8 DEF ReadSpare
  <2>2. c \in Computes /\ spare[c] = "READY"
    BY DEF ReadySpares
  <2>3. f # None /\ f \in Flows
    BY <1>0, <1>8 DEF ReadSpare, At
  <2>4. flow'[p].spare = c /\ \A q \in Projects \ {p} : flow'[q] = flow[q]
    BY <2>1, <2>3 DEF TypeOK, Flows
  <2>5. SpareInv'
    BY <1>8, <2>2, <2>4 DEF ReadSpare, SpareInv
  <2>6. PoolInv'
    BY <1>8 DEF ReadSpare, PoolInv, ReadySpares, InPool
  <2> QED
    BY <2>5, <2>6
<1>9. CASE TakeSpare(p)
  <2>1. f # None /\ f.spare # None /\ f.spare \in Computes /\ spare[f.spare] # "BOOTING"
    BY <1>0, <1>9 DEF TakeSpare, At, FlowShape, Flows, SpareInv
  <2>2. spare' = [spare EXCEPT ![f.spare] = IF @ = "NONE" THEN @ ELSE "BUSY"]
    BY <1>9 DEF TakeSpare, SetSpare
  <2>3. hist'.missed = hist.missed
    BY <1>9 DEF TakeSpare, TypeOK
  <2>4. \A q \in Projects : flow'[q] # None =>
                 flow'[q].spare = None \/ (flow[q] # None /\ flow'[q].spare = flow[q].spare)
    BY <1>1, <1>9, <2>1 DEF TakeSpare, Tasks
  <2> QED
    BY <1>9, <2>1, <2>2, <2>3, <2>4, SpareLeaves DEF TakeSpare
<1>10. CASE DeleteStaleSpareVThunder(p)
  <2>1. f # None /\ f.spare \in Computes \cup {None} /\ hk' = hk /\ stale' = stale /\ hist' = hist /\ used' = used
        /\ (f.spare # None => f.spare \in Computes /\ spare[f.spare] # "BOOTING")
    BY <1>0, <1>10 DEF DeleteStaleSpareVThunder, At, Flows, SpareInv
  <2>2. \A q \in Projects : flow'[q] # None =>
                 flow'[q].spare = None \/ (flow[q] # None /\ flow'[q].spare = flow[q].spare)
    BY <1>1, <1>10, <2>1 DEF DeleteStaleSpareVThunder, Tasks
  <2>3. CASE f.spare = None
    <3>1. spare' = spare
      BY <1>10, <2>3, VThunderPoolAssumption DEF DeleteStaleSpareVThunder, TypeOK
    <3> QED
      BY <2>1, <2>2, <3>1, SparesKept
  <2>4. CASE f.spare # None
    <3>1. spare' = [spare EXCEPT ![f.spare] = IF @ = "NONE" THEN @ ELSE "NONE"]
      BY <1>10, <2>1, <2>4 DEF DeleteStaleSpareVThunder, TypeOK
    <3> QED
      BY <2>1, <2>2, <2>4, <3>1, SpareLeaves
  <2> QED
    BY <2>3, <2>4
<1> QED
  BY <1>2, <1>3, <1>4, <1>5, <1>6, <1>7, <1>8, <1>9, <1>10 DEF FlowStep

LEMMA HousekeeperSpares ==
    ASSUME TypeOK, ShapeInv, SpareInv, PoolInv,
           CountReadySpares \/ CountBusySpares \/ BootSpare \/ EndSpareCheck
           \/ \E c \in Computes : EndSpareFlow(c)
    PROVE  SpareInv' /\ PoolInv'
<1>0. /\ Cardinality(InPool \ hist.missed) \in Nat
      /\ Cardinality(ReadySpares \ hist.missed) \in Nat /\ Cardinality(ReadySpares) \in Nat
      /\ Cardinality(hk.making) \in Nat /\ hk.todo \in Nat /\ hk.ready \in Nat /\ PoolSize \in Nat
      /\ IsFiniteSet(hk.making)
  BY Counts, FS_CardinalityType, VThunderPoolAssumption DEF InPool, ReadySpares, TypeOK
<1>1. CASE CountReadySpares
  <2>1. Cardinality(ReadySpares \ hist.missed) <= Cardinality(ReadySpares)
    BY Counts, FS_Subset DEF ReadySpares
  <2>2. hk'.at = "counting" /\ hk'.ready = Cardinality(ReadySpares) /\ hk'.making = hk.making /\ hk'.todo = hk.todo
    BY <1>1 DEF CountReadySpares, TypeOK
  <2>3. SpareInv'
    BY <1>1, <2>2 DEF CountReadySpares, SpareInv
  <2>4. PoolInv'
    BY <1>1, <2>1, <2>2 DEF CountReadySpares, PoolInv, InPool, ReadySpares
  <2> QED
    BY <2>3, <2>4
<1>2. CASE CountBusySpares
  <2> DEFINE n == hk.ready + CountBusy
             B == {c \in Computes : spare[c] = "BUSY"}
  <2>1. IsFiniteSet(B) /\ Cardinality(B) \in Nat /\ CountBusy = Cardinality(B)
    BY Counts DEF CountBusy
  <2>2. InPool \ hist.missed \subseteq (ReadySpares \ hist.missed) \cup B
    BY DEF InPool, ReadySpares
  <2>3. Cardinality(InPool \ hist.missed) <= Cardinality(ReadySpares \ hist.missed) + Cardinality(B)
    <3>1. IsFiniteSet(ReadySpares \ hist.missed)
      BY Counts DEF ReadySpares
    <3>2. /\ IsFiniteSet((ReadySpares \ hist.missed) \cup B)
          /\ Cardinality((ReadySpares \ hist.missed) \cup B) =
               Cardinality(ReadySpares \ hist.missed) + Cardinality(B) - Cardinality((ReadySpares \ hist.missed) \cap B)
      BY <2>1, <3>1, FS_Union
    <3>3. Cardinality((ReadySpares \ hist.missed) \cap B) \in Nat
      BY Counts DEF ReadySpares
    <3>4. Cardinality(InPool \ hist.missed) <= Cardinality((ReadySpares \ hist.missed) \cup B)
      BY <2>2, <3>2, FS_Subset
    <3> QED
      BY <1>0, <2>1, <3>2, <3>3, <3>4
  <2>4. Cardinality(InPool \ hist.missed) <= n /\ n \in Nat
    BY <1>0, <1>2, <2>1, <2>3 DEF CountBusySpares, PoolInv
  <2>5. hk.making = {} /\ hk.todo = 0
    BY <1>2 DEF CountBusySpares, SpareInv
  <2> HIDE DEF n
  <2>6. CASE n < PoolSize
    <3>1. hk'.at = "booting" /\ hk'.making = hk.making /\ hk'.todo = PoolSize - n
      BY <1>2, <2>6 DEF CountBusySpares, TypeOK, n
    <3>2. SpareInv'
      BY <1>2, <3>1 DEF CountBusySpares, SpareInv
    <3>3. PoolInv'
      <4>1. InPool' = InPool /\ hist' = hist
        BY <1>2 DEF CountBusySpares, InPool
      <4>2. Cardinality(hk'.making) = 0
        BY <2>5, <3>1, FS_EmptySet
      <4>3. Cardinality(InPool' \ hist'.missed) + Cardinality(hk'.making) + hk'.todo <= PoolSize
        BY <1>0, <2>4, <2>6, <3>1, <4>1, <4>2
      <4> QED
        BY <3>1, <4>3 DEF PoolInv
    <3> QED
      BY <3>2, <3>3
  <2>7. CASE ~(n < PoolSize)
    <3>1. hk'.at = "idle" /\ hk'.making = {} /\ hk'.todo = 0
      BY <1>2, <2>7 DEF CountBusySpares, IdleHk, n
    <3>2. SpareInv'
      BY <1>2, <3>1 DEF CountBusySpares, SpareInv
    <3>3. PoolInv'
      BY <1>0, <1>2, <2>5, <3>1 DEF CountBusySpares, PoolInv, InPool
    <3> QED
      BY <3>2, <3>3
  <2> QED
    BY <2>6, <2>7
<1>3. ASSUME BootSpare, NEW c \in Computes \ used, used' = used \cup {c}, hist' = hist,
             spare' = [spare EXCEPT ![c] = "BOOTING"],
             hk' = [hk EXCEPT !.todo = @ - 1, !.making = @ \cup {c}]
      PROVE  SpareInv' /\ PoolInv'
  <2>1. /\ used' = used \cup {c} /\ spare' = [spare EXCEPT ![c] = "BOOTING"]
        /\ hk' = [hk EXCEPT !.todo = @ - 1, !.making = @ \cup {c}]
    BY <1>3
  <2>2. spare[c] = "NONE" /\ c \notin hk.making
    BY <2>1 DEF SpareInv, TypeOK
  <2>3. hk'.at = hk.at /\ hk.at = "booting" /\ hk'.todo = hk.todo - 1 /\ hk'.making = hk.making \cup {c}
    BY <1>3, <2>1 DEF BootSpare, TypeOK
  <2>4. Cardinality(hk'.making) = Cardinality(hk.making) + 1
    BY <1>0, <2>2, <2>3, FS_AddElement
  <2>5. SpareInv'
    <3>1. UNCHANGED <<flow, stale>> /\ spare'[c] = "BOOTING" /\ c \notin used
          /\ \A d \in Computes : d # c => spare'[d] = spare[d]
      BY <1>3, <2>1 DEF BootSpare, TypeOK
    <3>2. hk'.making \subseteq Computes /\ stale \subseteq Computes
      BY <2>1, <2>3 DEF TypeOK
    <3>3. \A q \in Projects : flow[q] # None /\ flow[q].spare # None => flow[q].spare \in Computes
      BY DEF TypeOK, Flows
    <3> QED
      BY <2>1, <2>3, <3>1, <3>2, <3>3 DEF SpareInv
  <2>6. InPool' = InPool
    BY <2>1, <2>2 DEF InPool, TypeOK
  <2>7. PoolInv'
    <3>1. hist' = hist /\ Cardinality(InPool' \ hist'.missed) = Cardinality(InPool \ hist.missed)
      BY <1>3, <2>6
    <3> QED
      BY <1>0, <2>3, <2>4, <3>1 DEF PoolInv
  <2> QED
    BY <2>5, <2>7
\* The flow of a spare that fails before its row is written.
<1>30. ASSUME BootSpare, used \subseteq used', spare' = spare, hist'.missed = hist.missed,
              hk' = [hk EXCEPT !.todo = @ - 1]
       PROVE  SpareInv' /\ PoolInv'
  <2>1. hk'.at = hk.at /\ hk.at = "booting" /\ hk'.todo = hk.todo - 1 /\ hk'.making = hk.making
    BY <1>30 DEF BootSpare, TypeOK
  <2>2. SpareInv'
    BY <1>30, <2>1 DEF BootSpare, SpareInv
  <2>3. PoolInv'
    BY <1>0, <1>30, <2>1 DEF PoolInv, InPool
  <2> QED
    BY <2>2, <2>3
<1>31. CASE BootSpare
  <2>1. PICK c \in Computes \ used :
          /\ used' = used \cup {c}
          /\ \/ /\ hist' = hist
                /\ spare' = [spare EXCEPT ![c] = "BOOTING"]
                /\ hk' = [hk EXCEPT !.todo = @ - 1, !.making = @ \cup {c}]
             \/ /\ \E left \in SUBSET {c} : hist' = [hist EXCEPT !.left = @ \cup left]
                /\ hk' = [hk EXCEPT !.todo = @ - 1]
                /\ spare' = spare
    BY <1>31 DEF BootSpare, MayBeLeft
  <2>2. (\E left \in SUBSET {c} : hist' = [hist EXCEPT !.left = @ \cup left]) => hist'.missed = hist.missed
    BY DEF TypeOK
  <2> QED
    BY <1>3, <1>30, <1>31, <2>1, <2>2
<1>4. CASE EndSpareCheck
  <2>1. hk'.at = "idle" /\ hk'.making = {} /\ hk'.todo = 0 /\ hk.making = {}
    BY <1>4 DEF EndSpareCheck, IdleHk
  <2>2. SpareInv'
    BY <1>4, <2>1 DEF EndSpareCheck, SpareInv
  <2>3. PoolInv'
    BY <1>0, <1>4, <2>1 DEF EndSpareCheck, PoolInv, InPool
  <2> QED
    BY <2>2, <2>3
<1>5. ASSUME NEW c \in Computes, EndSpareFlow(c)
      PROVE  SpareInv' /\ PoolInv'
  <2>1. /\ c \in hk.making /\ hk'.at = hk.at /\ hk'.todo = hk.todo /\ hk'.making = hk.making \ {c}
        /\ UNCHANGED <<used, flow, stale, hist>>
    BY <1>5 DEF EndSpareFlow, TypeOK
  <2>2. spare[c] = "BOOTING" /\ hk.at = "booting" /\ c \notin stale /\ c \in used
        /\ \A p \in Projects : flow[p] # None => flow[p].spare # c
    BY <2>1, VThunderPoolAssumption DEF SpareInv
  <2>3. spare' = [spare EXCEPT ![c] = "READY"] \/ spare' = spare
    BY <1>5 DEF EndSpareFlow
  <2>4. SpareInv'
    BY <2>1, <2>2, <2>3 DEF SpareInv, TypeOK
  <2>5. Cardinality(hk'.making) = Cardinality(hk.making) - 1
    BY <1>0, <2>1, FS_RemoveElement
  <2>6. InPool' \ hist'.missed \subseteq (InPool \ hist.missed) \cup {c}
    BY <2>1, <2>2, <2>3 DEF InPool, TypeOK
  <2>7. /\ IsFiniteSet((InPool \ hist.missed) \cup {c})
        /\ Cardinality((InPool \ hist.missed) \cup {c}) <= Cardinality(InPool \ hist.missed) + 1
    <3>1. IsFiniteSet(InPool \ hist.missed)
      BY Counts DEF InPool
    <3> DEFINE S == InPool \ hist.missed
    <3>2. IsFiniteSet(S) /\ Cardinality(S) \in Nat
      BY <1>0, <3>1
    <3> HIDE DEF S
    <3>3. /\ IsFiniteSet(S \cup {c})
          /\ Cardinality(S \cup {c}) = IF c \in S THEN Cardinality(S) ELSE Cardinality(S) + 1
      BY <3>2, FS_AddElement
    <3>4. IsFiniteSet(S \cup {c}) /\ Cardinality(S \cup {c}) <= Cardinality(S) + 1
      BY <3>2, <3>3
    <3> QED
      BY <3>4 DEF S
  <2>8. Cardinality(InPool' \ hist'.missed) <= Cardinality((InPool \ hist.missed) \cup {c})
    BY <2>6, <2>7, FS_Subset
  <2>9. Cardinality(InPool' \ hist'.missed) \in Nat /\ Cardinality((InPool \ hist.missed) \cup {c}) \in Nat
    BY <2>7, Counts, FS_CardinalityType DEF InPool
  <2>10. PoolInv'
    BY <1>0, <2>1, <2>2, <2>5, <2>7, <2>8, <2>9 DEF PoolInv
  <2> QED
    BY <2>4, <2>10
<1> QED
  BY <1>1, <1>2, <1>31, <1>4, <1>5

LEMMA HealthSpares ==
    ASSUME TypeOK, ShapeInv, SpareInv, PoolInv, NEW c \in Computes,
           HealthCheck(c) \/ DeleteStaleSpare(c) \/ DropStaleSpareRow(c)
    PROVE  SpareInv' /\ PoolInv'
<1>1. CASE HealthCheck(c)
  <2>1. SpareInv'
    BY <1>1 DEF HealthCheck, SpareInv
  <2> QED
    BY <1>1, <2>1 DEF HealthCheck, PoolInv, InPool, ReadySpares
<1>2. CASE DeleteStaleSpare(c)
  <2>1. SpareInv'
    BY <1>2 DEF DeleteStaleSpare, SpareInv
  <2> QED
    BY <1>2, <2>1 DEF DeleteStaleSpare, PoolInv, InPool, ReadySpares
<1>3. CASE DropStaleSpareRow(c)
  <2>1. spare' = [spare EXCEPT ![c] = IF @ = "NONE" THEN @ ELSE "NONE"] /\ spare[c] # "BOOTING"
    BY <1>3 DEF DropStaleSpareRow, SpareInv, TypeOK
  <2>2. hk' = hk /\ stale' \subseteq stale /\ hist' = hist /\ used' = used /\ flow' = flow
    BY <1>3 DEF DropStaleSpareRow
  <2> QED
    BY <2>1, <2>2, SpareLeaves
<1> QED
  BY <1>1, <1>2, <1>3

LEMMA RequestSpares ==
    ASSUME TypeOK, ShapeInv, SpareInv, PoolInv, NEW l \in LBs,
           \/ \E op \in Ops : ApiRequest(l, op)
           \/ ReadRow(l)
           \/ BeginFlow(l)
           \/ BusyTimeout(l)
    PROVE  SpareInv' /\ PoolInv'
<1>1. CASE BeginFlow(l)
  <2>1. \A q \in Projects : flow'[q] # None => flow'[q].spare = None
                                   \/ (flow[q] # None /\ flow'[q].spare = flow[q].spare)
    <3> DEFINE g == [op |-> request[l].op, lb |-> l,
                     at |-> IF request[l].op = "CREATE" THEN "map" ELSE "mark",
                     compute |-> request[l].compute, spare |-> None, booted |-> FALSE,
                     drop |-> DeleteComputeFlag(request[l].compute)]
    <3>1. flow' = [flow EXCEPT ![ProjectOf[l]] = g]
      BY <1>1 DEF BeginFlow
    <3>2. g.spare = None
      OBVIOUS
    <3> HIDE DEF g
    <3>3. \A q \in Projects : flow'[q] = IF q = ProjectOf[l] THEN g ELSE flow[q]
      BY <3>1 DEF TypeOK
    <3> QED
      BY <3>2, <3>3
  <2>2. hist'.missed = hist.missed
    BY <1>1 DEF BeginFlow, TypeOK
  <2> QED
    BY <1>1, <2>1, <2>2, SparesKept DEF BeginFlow
<1>2. CASE ~BeginFlow(l)
  <2>1. UNCHANGED <<spare, hk, stale, hist, used, flow>>
    BY <1>2 DEF ApiRequest, ReadRow, BusyTimeout
  <2> QED
    BY <2>1, SparesKept
<1> QED
  BY <1>1, <1>2

LEMMA NextSpares == TypeOK /\ ShapeInv /\ SpareInv /\ PoolInv /\ [Next]_vars => SpareInv' /\ PoolInv'
<1> SUFFICES ASSUME TypeOK, ShapeInv, SpareInv, PoolInv, [Next]_vars
             PROVE  SpareInv' /\ PoolInv'
  OBVIOUS
<1>1. CASE UNCHANGED vars
  BY <1>1, SparesKept DEF vars
<1> QED
  BY <1>1, RequestSpares, FlowSpares, HousekeeperSpares, HealthSpares DEF Next

-----------------------------------------------------------------------------
\* Load balancers, their rows and the flows that work on them.

\* The flow f works on a load balancer in status s with request r and row v.
WorkOk(f, s, r, v) ==
    /\ f.op = "CREATE" /\ f.at \in Unwritten \cup {"unspare", "activate", "markLb"} =>
          s = "PENDING_CREATE" /\ r = None
    /\ f.op = "CREATE" /\ f.at \in Unwritten => v = NoRow
    /\ f.op = "CREATE" /\ f.at \in Written => v.compute = f.compute
    /\ f.op = "CREATE" /\ f.at \in {"markLb", "configure", "end"} => v.status = "ACTIVE"
    /\ f.op = "UPDATE" /\ f.at = "activate" => v.compute # None
    /\ f.op = "DELETE" => v.compute \in {f.compute, None}

\* Load balancer l has status s, request r and row v, its project the flow f:
\* it is created once, a deletion that waits has read its row, and it is ACTIVE
\* only with an ACTIVE row or in the middle of an update or a deletion.
LbOk(l, s, r, v, f) ==
    /\ v.compute = None \/ v.status = "NONE" => v = NoRow
    /\ s = "NONE" => r = None /\ v = NoRow /\ ~(f # None /\ f.lb = l)
    /\ r # None /\ r.op = "CREATE" =>
          s = "PENDING_CREATE" /\ v = NoRow /\ ~(f # None /\ f.lb = l)
    /\ r # None /\ r.op = "DELETE" /\ r.read => v.compute \in {r.compute, None}
    /\ s = "ACTIVE" => \/ v.status = "ACTIVE"
                       \/ f # None /\ f.lb = l /\ f.op \in {"UPDATE", "DELETE"} /\ f.at # "end"
    /\ f # None /\ f.lb = l => WorkOk(f, s, r, v)

LbInv == \A l \in LBs : LbOk(l, lb[l], request[l], vth[l], flow[ProjectOf[l]])

LEMMA LbRows == TypeOK /\ LbInv => RowsOk
BY DEF TypeOK, LbInv, LbOk, RowsOk, NoRow

LEMMA InitLbs == Init => LbInv
BY VThunderPoolAssumption DEF Init, LbInv, LbOk, WorkOk, NoRow

\* One load balancer changes, and the flow of its project, which works on it.
LEMMA LbStep ==
    ASSUME TypeOK, ShapeInv, LbInv, NEW x \in LBs,
           \A l \in LBs \ {x} : lb'[l] = lb[l] /\ request'[l] = request[l] /\ vth'[l] = vth[l],
           \A q \in Projects \ {ProjectOf[x]} : flow'[q] = flow[q],
           flow[ProjectOf[x]] = None \/ flow[ProjectOf[x]].lb = x \/ flow' = flow,
           flow'[ProjectOf[x]] = None \/ flow'[ProjectOf[x]].lb = x \/ flow' = flow,
           LbOk(x, lb'[x], request'[x], vth'[x], flow'[ProjectOf[x]])
    PROVE  LbInv'
<1> SUFFICES ASSUME NEW l \in LBs, l # x
             PROVE  LbOk(l, lb'[l], request'[l], vth'[l], flow'[ProjectOf[l]])
  BY DEF LbInv
<1>1. LbOk(l, lb[l], request[l], vth[l], flow[ProjectOf[l]]) /\ ProjectOf[l] \in Projects
  BY VThunderPoolAssumption DEF LbInv
<1>2. lb'[l] = lb[l] /\ request'[l] = request[l] /\ vth'[l] = vth[l]
  OBVIOUS
<1>3. CASE flow'[ProjectOf[l]] = flow[ProjectOf[l]]
  BY <1>1, <1>2, <1>3
<1>4. CASE flow'[ProjectOf[l]] # flow[ProjectOf[l]]
  <2>1. ProjectOf[l] = ProjectOf[x] /\ flow' # flow
    BY <1>1, <1>4
  <2>2. /\ flow[ProjectOf[l]] = None \/ flow[ProjectOf[l]].lb = x
        /\ flow'[ProjectOf[l]] = None \/ flow'[ProjectOf[l]].lb = x
    BY <2>1
  <2> QED
    BY <1>1, <1>2, <2>2 DEF LbOk
<1> QED
  BY <1>3, <1>4

LEMMA RequestLbs ==
    ASSUME TypeOK, ShapeInv, LbInv, NEW l \in LBs,
           \/ \E op \in Ops : ApiRequest(l, op)
           \/ ReadRow(l)
           \/ BeginFlow(l)
           \/ BusyTimeout(l)
    PROVE  LbInv'
<1> DEFINE p == ProjectOf[l]
<1>0. LbOk(l, lb[l], request[l], vth[l], flow[p]) /\ p \in Projects
  BY VThunderPoolAssumption DEF LbInv
<1>1. ASSUME NEW op \in Ops, ApiRequest(l, op)
      PROVE  LbInv'
  <2> DEFINE r == [op |-> op, read |-> op # "DELETE", compute |-> None]
  <2>1. /\ lb' = [lb EXCEPT ![l] = PendingOf(op)] /\ request' = [request EXCEPT ![l] = r]
        /\ UNCHANGED <<vth, flow>> /\ Accepts(l, op) /\ op \in {"CREATE", "UPDATE", "DELETE"}
    BY <1>1, VThunderPoolAssumption DEF ApiRequest
  <2>2. LbOk(l, PendingOf(op), r, vth[l], flow[p])
    BY <1>0, <2>1 DEF LbOk, WorkOk, Accepts, PendingOf
  <2>3. lb'[l] = PendingOf(op) /\ request'[l] = r
    BY <2>1 DEF TypeOK
  <2> HIDE DEF r
  <2>4. \A m \in LBs \ {l} : lb'[m] = lb[m] /\ request'[m] = request[m] /\ vth'[m] = vth[m]
    BY <2>1 DEF TypeOK
  <2> QED
    BY <2>1, <2>2, <2>3, <2>4, LbStep
<1>2. CASE ReadRow(l)
  <2> DEFINE r == [request[l] EXCEPT !.read = TRUE, !.compute = vth[l].compute]
  <2>1. /\ request[l] # None /\ request[l] \in Requests /\ request[l].op = "DELETE"
        /\ request' = [request EXCEPT ![l] = r] /\ UNCHANGED <<lb, vth, flow>>
    BY <1>2 DEF ReadRow, TypeOK, ShapeInv
  <2>2. LbOk(l, lb[l], r, vth[l], flow[p])
    BY <1>0, <2>1 DEF LbOk, WorkOk, Requests
  <2>3. request'[l] = r /\ \A m \in LBs \ {l} : request'[m] = request[m]
    BY <2>1 DEF TypeOK
  <2> HIDE DEF r
  <2> QED
    BY <2>1, <2>2, <2>3, LbStep
<1>3. CASE BeginFlow(l)
  <2> DEFINE rq == request[l]
             g == [op |-> rq.op, lb |-> l, at |-> IF rq.op = "CREATE" THEN "map" ELSE "mark",
                   compute |-> rq.compute, spare |-> None, booted |-> FALSE,
                   drop |-> DeleteComputeFlag(rq.compute)]
  <2>1. /\ rq # None /\ rq \in Requests /\ rq.op \in {"CREATE", "UPDATE", "DELETE"} /\ rq.read
        /\ flow[p] = None
        /\ request' = [request EXCEPT ![l] = None]
        /\ flow' = [flow EXCEPT ![p] = g] /\ UNCHANGED <<lb, vth>>
    BY <1>3, VThunderPoolAssumption DEF BeginFlow, TypeOK, Requests
  <2>2. WorkOk(g, lb[l], None, vth[l])
    BY <1>0, <2>1 DEF LbOk, WorkOk, Written, Unwritten, Early
  <2>3. LbOk(l, lb[l], None, vth[l], g)
    BY <1>0, <2>1, <2>2 DEF LbOk, WorkOk, Written, Unwritten, Early
  <2>4. flow'[p] = g /\ g.lb = l /\ request'[l] = None
    BY <1>0, <2>1 DEF TypeOK
  <2> HIDE DEF g
  <2>5. \A m \in LBs \ {l} : request'[m] = request[m]
    BY <2>1 DEF TypeOK
  <2>6. \A q \in Projects \ {p} : flow'[q] = flow[q]
    BY <2>1 DEF TypeOK
  <2> QED
    BY <2>1, <2>3, <2>4, <2>5, <2>6, LbStep
<1>4. CASE BusyTimeout(l)
  <2>1. /\ request[l] # None
        /\ lb' = [lb EXCEPT ![l] = "ERROR"] /\ request' = [request EXCEPT ![l] = None]
        /\ UNCHANGED <<vth, flow>>
    BY <1>4 DEF BusyTimeout
  <2>2. LbOk(l, "ERROR", None, vth[l], flow[p])
    BY <1>0, <2>1 DEF LbOk, WorkOk
  <2>3. /\ lb'[l] = "ERROR" /\ request'[l] = None
        /\ \A m \in LBs \ {l} : lb'[m] = lb[m] /\ request'[m] = request[m]
    BY <2>1 DEF TypeOK
  <2> QED
    BY <2>1, <2>2, <2>3, LbStep
<1> QED
  BY <1>1, <1>2, <1>3, <1>4

\* A step of a flow on load balancer x: its status, its row and the flow change.
LEMMA WorkStep ==
    ASSUME TypeOK, ShapeInv, LbInv, NEW p \in Projects, flow[p] # None,
           NEW s \in LbStatuses, NEW v \in [status : RowStatuses, compute : Computes \cup {None}],
           NEW g,
           lb' = [lb EXCEPT ![flow[p].lb] = s], vth' = [vth EXCEPT ![flow[p].lb] = v],
           flow' = [flow EXCEPT ![p] = g], request' = request,
           g = None \/ g.lb = flow[p].lb,
           LbOk(flow[p].lb, s, request[flow[p].lb], v, g)
    PROVE  LbInv'
<1> DEFINE x == flow[p].lb
<1>1. x \in LBs /\ ProjectOf[x] = p
  BY DEF TypeOK, ShapeInv, Flows
<1>2. lb'[x] = s /\ vth'[x] = v /\ flow'[p] = g
  BY <1>1 DEF TypeOK
<1>3. \A l \in LBs \ {x} : lb'[l] = lb[l] /\ vth'[l] = vth[l]
  BY DEF TypeOK
<1>4. \A q \in Projects \ {p} : flow'[q] = flow[q]
  BY DEF TypeOK
<1> QED
  BY <1>1, <1>2, <1>3, <1>4, LbStep

LEMMA FlowLbs ==
    ASSUME TypeOK, ShapeInv, LbInv, NEW p \in Projects, FlowStep(p)
    PROVE  LbInv'
<1> DEFINE f == flow[p]
           x == f.lb
           at(t) == [f EXCEPT !.at = t]
<1>0. f # None => /\ f \in Flows /\ FlowShape(f) /\ x \in LBs /\ ProjectOf[x] = p
                  /\ lb[x] \in LbStatuses /\ vth[x] \in [status : RowStatuses, compute : Computes \cup {None}]
                  /\ LbOk(x, lb[x], request[x], vth[x], f)
                  /\ lb = [lb EXCEPT ![x] = lb[x]] /\ vth = [vth EXCEPT ![x] = vth[x]]
  BY DEF TypeOK, ShapeInv, LbInv, Flows
<1>00. f # None => \A t \in Tasks : at(t) \in Flows /\ at(t) # None /\ at(t).lb = x
  BY <1>0, NoneAssumption DEF Flows
<1>1. CASE MapLoadbalancerToAmphora(p)
  <2> DEFINE v == vth[x]
  <2>1. PICK t \in {"validate", "boot"} : f # None /\ flow' = [flow EXCEPT ![p] = at(t)]
    BY <1>1 DEF MapLoadbalancerToAmphora, At, Goto
  <2>2. /\ lb' = [lb EXCEPT ![x] = lb[x]] /\ vth' = [vth EXCEPT ![x] = v] /\ request' = request
    BY <1>0, <1>1, <2>1 DEF MapLoadbalancerToAmphora
  <2>3. lb[x] \in LbStatuses /\ v \in [status : RowStatuses, compute : Computes \cup {None}]
    BY <1>0, <2>1 DEF LbStatuses, RowStatuses, Flows
  <2>4. LbOk(x, lb[x], request[x], v, at(t))
    BY <1>0, <1>00, <1>1, <2>1 DEF MapLoadbalancerToAmphora, At, FlowShape, LbOk, WorkOk, NoRow, Flows, Written, Unwritten, Early, Tasks
  <2> QED
    BY <1>0, <1>00, <2>1, <2>2, <2>3, <2>4, WorkStep DEF Tasks
<1>2. CASE TakeSpare(p)
  <2> DEFINE v == vth[x]
  <2>1. f # None /\ flow' = [flow EXCEPT ![p] = at("attach")]
    BY <1>2 DEF TakeSpare, At, Goto
  <2>2. /\ lb' = [lb EXCEPT ![x] = lb[x]] /\ vth' = [vth EXCEPT ![x] = v] /\ request' = request
    BY <1>0, <1>2, <2>1 DEF TakeSpare
  <2>3. lb[x] \in LbStatuses /\ v \in [status : RowStatuses, compute : Computes \cup {None}]
    BY <1>0, <2>1 DEF LbStatuses, RowStatuses, Flows
  <2>4. LbOk(x, lb[x], request[x], v, at("attach"))
    BY <1>0, <1>00, <1>2, <2>1 DEF TakeSpare, At, FlowShape, LbOk, WorkOk, NoRow, Flows, Written, Unwritten, Early, Tasks
  <2> QED
    BY <1>0, <1>00, <2>1, <2>2, <2>3, <2>4, WorkStep DEF Tasks
<1>3. CASE AttachCompute(p)
  <2> DEFINE v == [status |-> "PENDING_CREATE", compute |-> f.compute]
  <2>1. f # None /\ flow' = [flow EXCEPT ![p] = at("unspare")]
    BY <1>3 DEF AttachCompute, At, Goto
  <2>2. /\ lb' = [lb EXCEPT ![x] = lb[x]] /\ vth' = [vth EXCEPT ![x] = v] /\ request' = request
    BY <1>0, <1>3, <2>1 DEF AttachCompute
  <2>3. lb[x] \in LbStatuses /\ v \in [status : RowStatuses, compute : Computes \cup {None}]
    BY <1>0, <2>1 DEF LbStatuses, RowStatuses, Flows, Pending
  <2>4. LbOk(x, lb[x], request[x], v, at("unspare"))
    BY <1>0, <1>00, <1>3, <2>1 DEF AttachCompute, At, FlowShape, LbOk, WorkOk, NoRow, Flows, Written, Unwritten, Early, Tasks
  <2> QED
    BY <1>0, <1>00, <2>1, <2>2, <2>3, <2>4, WorkStep DEF Tasks
<1>4. CASE DeleteStaleSpareVThunder(p)
  <2> DEFINE v == vth[x]
  <2>1. f # None /\ flow' = [flow EXCEPT ![p] = at("activate")]
    BY <1>4 DEF DeleteStaleSpareVThunder, At, Goto
  <2>2. /\ lb' = [lb EXCEPT ![x] = lb[x]] /\ vth' = [vth EXCEPT ![x] = v] /\ request' = request
    BY <1>0, <1>4, <2>1 DEF DeleteStaleSpareVThunder
  <2>3. lb[x] \in LbStatuses /\ v \in [status : RowStatuses, compute : Computes \cup {None}]
    BY <1>0, <2>1 DEF LbStatuses, RowStatuses, Flows
  <2>4. LbOk(x, lb[x], request[x], v, at("activate"))
    BY <1>0, <1>00, <1>4, <2>1 DEF DeleteStaleSpareVThunder, At, FlowShape, LbOk, WorkOk, NoRow, Flows, Written, Unwritten, Early, Tasks
  <2> QED
    BY <1>0, <1>00, <2>1, <2>2, <2>3, <2>4, WorkStep DEF Tasks
<1>5. CASE ActivateRow(p)
  <2> DEFINE v == [vth[x] EXCEPT !.status = "ACTIVE"]
  <2>1. f # None /\ flow' = [flow EXCEPT ![p] = at("markLb")]
    BY <1>5 DEF ActivateRow, At, Goto
  <2>2. /\ lb' = [lb EXCEPT ![x] = lb[x]] /\ vth' = [vth EXCEPT ![x] = v] /\ request' = request
    BY <1>0, <1>5, <2>1 DEF ActivateRow, SetRow
  <2>3. lb[x] \in LbStatuses /\ v \in [status : RowStatuses, compute : Computes \cup {None}]
    BY <1>0, <2>1 DEF LbStatuses, RowStatuses, Flows
  <2>4. LbOk(x, lb[x], request[x], v, at("markLb"))
    BY <1>0, <1>00, <1>5, <2>1 DEF ActivateRow, At, FlowShape, LbOk, WorkOk, NoRow, Flows, Written, Unwritten, Early, Tasks
  <2> QED
    BY <1>0, <1>00, <2>1, <2>2, <2>3, <2>4, WorkStep DEF Tasks
<1>6. CASE MarkLBActive(p)
  <2> DEFINE v == vth[x]
  <2>1. f # None /\ flow' = [flow EXCEPT ![p] = at("configure")]
    BY <1>6 DEF MarkLBActive, At, Goto
  <2>2. /\ lb' = [lb EXCEPT ![x] = "ACTIVE"] /\ vth' = [vth EXCEPT ![x] = v] /\ request' = request
    BY <1>0, <1>6, <2>1 DEF MarkLBActive, SetLb
  <2>3. "ACTIVE" \in LbStatuses /\ v \in [status : RowStatuses, compute : Computes \cup {None}]
    BY <1>0, <2>1 DEF LbStatuses, RowStatuses, Flows
  <2>4. LbOk(x, "ACTIVE", request[x], v, at("configure"))
    BY <1>0, <1>00, <1>6, <2>1 DEF MarkLBActive, At, FlowShape, LbOk, WorkOk, NoRow, Flows, Written, Unwritten, Early, Tasks
  <2> QED
    BY <1>0, <1>00, <2>1, <2>2, <2>3, <2>4, WorkStep DEF Tasks
<1>7. CASE CreateVirtualServer(p)
  <2> DEFINE v == vth[x]
  <2>1. f # None /\ flow' = [flow EXCEPT ![p] = at("end")]
    BY <1>7 DEF CreateVirtualServer, At, Goto
  <2>2. /\ lb' = [lb EXCEPT ![x] = lb[x]] /\ vth' = [vth EXCEPT ![x] = v] /\ request' = request
    BY <1>0, <1>7, <2>1 DEF CreateVirtualServer
  <2>3. lb[x] \in LbStatuses /\ v \in [status : RowStatuses, compute : Computes \cup {None}]
    BY <1>0, <2>1 DEF LbStatuses, RowStatuses, Flows
  <2>4. LbOk(x, lb[x], request[x], v, at("end"))
    BY <1>0, <1>00, <1>7, <2>1 DEF CreateVirtualServer, At, FlowShape, LbOk, WorkOk, NoRow, Flows, Written, Unwritten, Early, Tasks
  <2> QED
    BY <1>0, <1>00, <2>1, <2>2, <2>3, <2>4, WorkStep DEF Tasks
<1>8. CASE MarkRowPending(p)
  <2>1. PICK op \in {"UPDATE", "DELETE"} : At(p, op, "mark") /\ MarkRow(x, PendingOf(op))
                                     /\ Goto(p, IF op = "UPDATE" THEN "apply" ELSE "tear")
                                     /\ UNCHANGED <<lb, request>>
    BY <1>8 DEF MarkRowPending
  <2> DEFINE t == IF op = "UPDATE" THEN "apply" ELSE "tear"
             v == IF vth[x] = NoRow THEN vth[x] ELSE [vth[x] EXCEPT !.status = PendingOf(op)]
  <2>2. /\ f # None /\ f.op = op /\ f.at = "mark" /\ t \in {"apply", "tear"}
        /\ flow' = [flow EXCEPT ![p] = at(t)] /\ vth' = [vth EXCEPT ![x] = v]
    BY <1>0, <2>1 DEF At, Goto, MarkRow, SetRow, TypeOK
  <2>3. v \in [status : RowStatuses, compute : Computes \cup {None}] /\ v.compute = vth[x].compute
        /\ (vth[x] = NoRow => v = NoRow) /\ (v.status = "NONE" => v = NoRow)
    BY <1>0, <2>2 DEF PendingOf, RowStatuses, Pending, LbOk
  <2> HIDE DEF v, t
  <2>4. LbOk(x, lb[x], request[x], v, at(t))
    BY <1>0, <1>00, <2>2, <2>3 DEF LbOk, WorkOk, Flows, Written, Unwritten, Early, Tasks
  <2>5. lb' = [lb EXCEPT ![x] = lb[x]] /\ request' = request /\ at(t).lb = x
    BY <1>0, <1>00, <2>1, <2>2 DEF Tasks
  <2> QED
    BY <1>0, <2>2, <2>3, <2>4, <2>5, WorkStep
<1>9. CASE ApplyUpdate(p)
  <2> DEFINE v == vth[x]
  <2>1. f # None /\ flow' = [flow EXCEPT ![p] = at("activate")]
    BY <1>9 DEF ApplyUpdate, At, Goto
  <2>2. /\ lb' = [lb EXCEPT ![x] = "ACTIVE"] /\ vth' = [vth EXCEPT ![x] = v] /\ request' = request
    BY <1>0, <1>9, <2>1 DEF ApplyUpdate, SetLb
  <2>3. "ACTIVE" \in LbStatuses /\ v \in [status : RowStatuses, compute : Computes \cup {None}]
    BY <1>0, <2>1 DEF LbStatuses, RowStatuses, Flows
  <2>4. LbOk(x, "ACTIVE", request[x], v, at("activate"))
    <3>1. vth[x].compute # None
      BY <1>9, VThunderPoolAssumption DEF ApplyUpdate, TypeOK
    <3> QED
      BY <1>0, <1>00, <2>1, <1>9, <3>1 DEF ApplyUpdate, At, FlowShape, LbOk, WorkOk, NoRow, Flows, Written, Unwritten, Early, Tasks
  <2> QED
    BY <1>0, <1>00, <2>1, <2>2, <2>3, <2>4, WorkStep DEF Tasks
<1>10. CASE ActivateUpdatedRow(p)
  <2> DEFINE v == [vth[x] EXCEPT !.status = "ACTIVE"]
  <2>1. f # None /\ flow' = [flow EXCEPT ![p] = at("end")]
    BY <1>10 DEF ActivateUpdatedRow, At, Goto
  <2>2. /\ lb' = [lb EXCEPT ![x] = lb[x]] /\ vth' = [vth EXCEPT ![x] = v] /\ request' = request
    BY <1>0, <1>10, <2>1 DEF ActivateUpdatedRow, SetRow
  <2>3. lb[x] \in LbStatuses /\ v \in [status : RowStatuses, compute : Computes \cup {None}]
    BY <1>0, <2>1 DEF LbStatuses, RowStatuses, Flows
  <2>4. LbOk(x, lb[x], request[x], v, at("end"))
    BY <1>0, <1>00, <1>10, <2>1 DEF ActivateUpdatedRow, At, FlowShape, LbOk, WorkOk, NoRow, Flows, Written, Unwritten, Early, Tasks
  <2> QED
    BY <1>0, <1>00, <2>1, <2>2, <2>3, <2>4, WorkStep DEF Tasks
<1>11. CASE DeleteAmphorae(p)
  <2> DEFINE v == vth[x]
  <2>1. f # None /\ flow' = [flow EXCEPT ![p] = at("erase")]
    BY <1>11 DEF DeleteAmphorae, At, Goto
  <2>2. /\ lb' = [lb EXCEPT ![x] = lb[x]] /\ vth' = [vth EXCEPT ![x] = v] /\ request' = request
    BY <1>0, <1>11, <2>1 DEF DeleteAmphorae
  <2>3. lb[x] \in LbStatuses /\ v \in [status : RowStatuses, compute : Computes \cup {None}]
    BY <1>0, <2>1 DEF LbStatuses, RowStatuses, Flows
  <2>4. LbOk(x, lb[x], request[x], v, at("erase"))
    BY <1>0, <1>00, <1>11, <2>1 DEF DeleteAmphorae, At, FlowShape, LbOk, WorkOk, NoRow, Flows, Written, Unwritten, Early, Tasks
  <2> QED
    BY <1>0, <1>00, <2>1, <2>2, <2>3, <2>4, WorkStep DEF Tasks
<1>12. CASE MarkRowDeleted(p)
  <2> DEFINE v == IF vth[x] = NoRow THEN vth[x] ELSE [vth[x] EXCEPT !.status = "DELETED"]
  <2>1. f # None /\ flow' = [flow EXCEPT ![p] = at("markLb")]
    BY <1>12 DEF MarkRowDeleted, At, Goto
  <2>2. /\ lb' = [lb EXCEPT ![x] = lb[x]] /\ vth' = [vth EXCEPT ![x] = v] /\ request' = request
    BY <1>0, <1>12, <2>1 DEF MarkRowDeleted, SetRow, MarkRow
  <2>3. lb[x] \in LbStatuses /\ v \in [status : RowStatuses, compute : Computes \cup {None}]
    BY <1>0, <2>1 DEF LbStatuses, RowStatuses, Flows
  <2>4. LbOk(x, lb[x], request[x], v, at("markLb"))
    BY <1>0, <1>00, <1>12, <2>1 DEF MarkRowDeleted, At, FlowShape, LbOk, WorkOk, NoRow, Flows, Written, Unwritten, Early, Tasks
  <2> QED
    BY <1>0, <1>00, <2>1, <2>2, <2>3, <2>4, WorkStep DEF Tasks
<1>13. CASE MarkLBDeleted(p)
  <2> DEFINE v == vth[x]
  <2>1. f # None /\ flow' = [flow EXCEPT ![p] = at("end")]
    BY <1>13 DEF MarkLBDeleted, At, Goto
  <2>2. /\ lb' = [lb EXCEPT ![x] = "DELETED"] /\ vth' = [vth EXCEPT ![x] = v] /\ request' = request
    BY <1>0, <1>13, <2>1 DEF MarkLBDeleted, SetLb
  <2>3. "DELETED" \in LbStatuses /\ v \in [status : RowStatuses, compute : Computes \cup {None}]
    BY <1>0, <2>1 DEF LbStatuses, RowStatuses, Flows
  <2>4. LbOk(x, "DELETED", request[x], v, at("end"))
    BY <1>0, <1>00, <1>13, <2>1 DEF MarkLBDeleted, At, FlowShape, LbOk, WorkOk, NoRow, Flows, Written, Unwritten, Early, Tasks
  <2> QED
    BY <1>0, <1>00, <2>1, <2>2, <2>3, <2>4, WorkStep DEF Tasks
<1>14. CASE ValidateComputeForProject(p)
  <2>1. PICK c : flow' = [flow EXCEPT ![p] = [f EXCEPT !.compute = c, !.at = "attach"]] \/ Goto(p, "claim")
    BY <1>14 DEF ValidateComputeForProject
  <2>2. /\ f # None /\ f.op = "CREATE" /\ f.at = "validate"
        /\ lb' = lb /\ vth' = vth /\ request' = request
    BY <1>14 DEF ValidateComputeForProject, At
  <2>3. ASSUME NEW g, g.lb = x, g.op = "CREATE", g.at \in {"attach", "claim"}, flow' = [flow EXCEPT ![p] = g]
        PROVE  LbInv'
    <3>1. LbOk(x, lb[x], request[x], vth[x], g)
      BY <1>0, <2>2, <2>3 DEF LbOk, WorkOk, Written, Unwritten, Early
    <3> QED
      BY <1>0, <2>2, <2>3, <3>1, WorkStep
  <2>4. CASE flow' = [flow EXCEPT ![p] = [f EXCEPT !.compute = c, !.at = "attach"]]
    BY <1>0, <2>2, <2>3, <2>4 DEF Flows
  <2>5. CASE Goto(p, "claim")
    BY <1>0, <2>2, <2>3, <2>5 DEF Flows, Goto
  <2> QED
    BY <2>1, <2>4, <2>5
<1>15. CASE ReadSpare(p)
  <2>1. PICK c \in ReadySpares : flow' = [flow EXCEPT ![p] = [f EXCEPT !.compute = c, !.spare = c, !.at = "take"]]
    BY <1>15 DEF ReadSpare
  <2> DEFINE g == [f EXCEPT !.compute = c, !.spare = c, !.at = "take"]
  <2>2. /\ f # None /\ f.op = "CREATE" /\ f.at = "claim"
        /\ lb' = lb /\ vth' = vth /\ request' = request
    BY <1>15 DEF ReadSpare, At
  <2>3. g.op = "CREATE" /\ g.at = "take" /\ g.lb = x
    BY <1>0, <2>2 DEF Flows
  <2> HIDE DEF g
  <2>4. LbOk(x, lb[x], request[x], vth[x], g)
    BY <1>0, <2>2, <2>3 DEF LbOk, WorkOk, Written, Unwritten, Early
  <2> QED
    BY <1>0, <2>1, <2>2, <2>3, <2>4, WorkStep DEF g
<1>16. CASE BootCompute(p)
  <2>1. PICK c \in Computes \ used :
          /\ vth' = [vth EXCEPT ![x] = [status |-> "PENDING_CREATE", compute |-> c]]
          /\ flow' = [flow EXCEPT ![p].compute = c, ![p].booted = TRUE, ![p].at = "activate"]
    BY <1>16 DEF BootCompute
  <2> DEFINE g == [f EXCEPT !.compute = c, !.booted = TRUE, !.at = "activate"]
             v == [status |-> "PENDING_CREATE", compute |-> c]
  <2>2. /\ f # None /\ f.op = "CREATE" /\ f.at = "boot"
        /\ lb' = lb /\ request' = request /\ c # None
    BY <1>16, VThunderPoolAssumption DEF BootCompute, At
  <2>3. g.op = "CREATE" /\ g.at = "activate" /\ g.lb = x /\ g.compute = c
    BY <1>0, <2>2 DEF Flows
  <2>4. v \in [status : RowStatuses, compute : Computes \cup {None}]
    BY DEF RowStatuses, Pending
  <2> HIDE DEF g
  <2>5. LbOk(x, lb[x], request[x], v, g)
    BY <1>0, <2>2, <2>3 DEF LbOk, WorkOk, Written, Unwritten, Early
  <2> QED
    <3>1. flow' = [flow EXCEPT ![p] = g]
      BY <2>1 DEF g
    <3>2. vth' = [vth EXCEPT ![x] = v] /\ lb' = [lb EXCEPT ![x] = lb[x]] /\ lb[x] \in LbStatuses
      BY <1>0, <2>1, <2>2
    <3> HIDE DEF v
    <3> QED
      BY <2>2, <2>3, <2>4, <2>5, <3>1, <3>2, WorkStep
<1>17. CASE EndFlow(p)
  <2>1. /\ f # None /\ f.at = "end" /\ flow' = [flow EXCEPT ![p] = None]
        /\ lb' = lb /\ vth' = vth /\ request' = request
    BY <1>17 DEF EndFlow
  <2>2. LbOk(x, lb[x], request[x], vth[x], None)
    BY <1>0, <2>1 DEF LbOk
  <2> QED
    BY <1>0, <2>1, <2>2, WorkStep
<1>18. CASE FailFlow(p)
  <2>1. /\ f # None /\ flow' = [flow EXCEPT ![p] = None] /\ lb' = [lb EXCEPT ![x] = "ERROR"]
        /\ vth' = IF f.op = "CREATE" /\ f.at \notin {"map", "validate", "claim", "take"}
                     THEN [vth EXCEPT ![x] = NoRow] ELSE vth
        /\ request' = request
    BY <1>18, FailFacts
  <2> DEFINE v == IF f.op = "CREATE" /\ f.at \notin {"map", "validate", "claim", "take"}
                     THEN NoRow ELSE vth[x]
  <2>2. vth' = [vth EXCEPT ![x] = v]
    BY <1>0, <2>1
  <2>3. v \in [status : RowStatuses, compute : Computes \cup {None}] /\ "ERROR" \in LbStatuses
    BY <1>0, <2>1 DEF NoRow, RowStatuses, LbStatuses
  <2>4. LbOk(x, "ERROR", request[x], v, None)
    BY <1>0, <2>1 DEF LbOk, NoRow
  <2> HIDE DEF v
  <2> QED
    BY <2>1, <2>2, <2>3, <2>4, WorkStep
<1> QED
  BY <1>1, <1>2, <1>3, <1>4, <1>5, <1>6, <1>7, <1>8, <1>9, <1>10, <1>11, <1>12, <1>13, <1>14,
     <1>15, <1>16, <1>17, <1>18 DEF FlowStep

LEMMA NextLbs == TypeOK /\ ShapeInv /\ LbInv /\ [Next]_vars => LbInv'
<1> SUFFICES ASSUME TypeOK, ShapeInv, LbInv, [Next]_vars
             PROVE  LbInv'
  OBVIOUS
<1>1. CASE UNCHANGED <<lb, request, vth, flow>>
  BY <1>1 DEF LbInv
<1>2. UNCHANGED vars => UNCHANGED <<lb, request, vth, flow>>
  BY DEF vars
<1>3. CountReadySpares \/ CountBusySpares \/ BootSpare \/ EndSpareCheck => UNCHANGED <<lb, request, vth, flow>>
  BY DEF CountReadySpares, CountBusySpares, BootSpare, EndSpareCheck
<1>4. (\E c \in Computes : EndSpareFlow(c) \/ HealthCheck(c) \/ DeleteStaleSpare(c) \/ DropStaleSpareRow(c))
         => UNCHANGED <<lb, request, vth, flow>>
  BY DEF EndSpareFlow, HealthCheck, DeleteStaleSpare, DropStaleSpareRow
<1> QED
  BY <1>1, <1>2, <1>3, <1>4, RequestLbs, FlowLbs DEF Next

-----------------------------------------------------------------------------
\* A flow changes nothing of other flows and other load balancers.

\* The tasks that keep the computes of the rows and of the flow.
Plain(p) ==
    \/ MapLoadbalancerToAmphora(p) \/ DeleteStaleSpareVThunder(p) \/ ActivateRow(p)
    \/ MarkLBActive(p) \/ CreateVirtualServer(p) \/ MarkRowPending(p) \/ ApplyUpdate(p)
    \/ ActivateUpdatedRow(p) \/ DeleteAmphorae(p) \/ MarkRowDeleted(p) \/ MarkLBDeleted(p)

LEMMA PlainFacts ==
    ASSUME TypeOK, ShapeInv, NEW p \in Projects, Plain(p)
    PROVE  /\ flow[p] # None /\ flow[p].at # "take"
           /\ \E t \in Tasks \ {"take"} :
                 /\ flow' = [flow EXCEPT ![p] = [flow[p] EXCEPT !.at = t]]
                 /\ t = "boot" => MapLoadbalancerToAmphora(p)
           /\ \A l \in LBs : vth'[l].compute = vth[l].compute
           /\ \A l \in LBs : l # flow[p].lb => vth'[l] = vth[l] /\ lb'[l] = lb[l]
           /\ \A c \in Computes : spare'[c] \in {spare[c], "NONE"}
           /\ UNCHANGED <<request, used, hk, stale, hist>>
<1>0. flow[p] # None => flow[p] \in Flows /\ flow[p].lb \in LBs
  BY DEF TypeOK, Flows
<1> DEFINE at(t) == [flow[p] EXCEPT !.at = t]
           Rest == /\ \A l \in LBs : vth'[l].compute = vth[l].compute
                   /\ \A l \in LBs : l # flow[p].lb => vth'[l] = vth[l] /\ lb'[l] = lb[l]
                   /\ \A c \in Computes : spare'[c] \in {spare[c], "NONE"}
                   /\ UNCHANGED <<request, used, hk, stale, hist>>
<1>1. CASE MapLoadbalancerToAmphora(p)
  <2>1. flow[p] # None /\ flow[p].at # "take" /\ \E t \in {"validate", "boot"} : flow' = [flow EXCEPT ![p] = at(t)]
    BY <1>1 DEF MapLoadbalancerToAmphora, At, Goto
  <2>2. Rest
    BY <1>0, <1>1, <2>1 DEF MapLoadbalancerToAmphora, TypeOK
  <2> QED
    BY <1>1, <2>1, <2>2 DEF Tasks
<1>2. CASE DeleteStaleSpareVThunder(p)
  <2>1. flow[p] # None /\ flow[p].at # "take" /\ \E t \in {"activate"} : flow' = [flow EXCEPT ![p] = at(t)]
    BY <1>2 DEF DeleteStaleSpareVThunder, At, Goto
  <2>2. Rest
    BY <1>0, <1>2, <2>1 DEF DeleteStaleSpareVThunder, TypeOK
  <2> QED
    BY <1>2, <2>1, <2>2 DEF Tasks
<1>3. CASE ActivateRow(p)
  <2>1. flow[p] # None /\ flow[p].at # "take" /\ \E t \in {"markLb"} : flow' = [flow EXCEPT ![p] = at(t)]
    BY <1>3 DEF ActivateRow, At, Goto
  <2>2. Rest
    BY <1>0, <1>3, <2>1 DEF ActivateRow, TypeOK, SetRow
  <2> QED
    BY <1>3, <2>1, <2>2 DEF Tasks
<1>4. CASE MarkLBActive(p)
  <2>1. flow[p] # None /\ flow[p].at # "take" /\ \E t \in {"configure"} : flow' = [flow EXCEPT ![p] = at(t)]
    BY <1>4 DEF MarkLBActive, At, Goto
  <2>2. Rest
    BY <1>0, <1>4, <2>1 DEF MarkLBActive, TypeOK, SetLb
  <2> QED
    BY <1>4, <2>1, <2>2 DEF Tasks
<1>5. CASE CreateVirtualServer(p)
  <2>1. flow[p] # None /\ flow[p].at # "take" /\ \E t \in {"end"} : flow' = [flow EXCEPT ![p] = at(t)]
    BY <1>5 DEF CreateVirtualServer, At, Goto
  <2>2. Rest
    BY <1>0, <1>5, <2>1 DEF CreateVirtualServer, TypeOK
  <2> QED
    BY <1>5, <2>1, <2>2 DEF Tasks
<1>6. CASE MarkRowPending(p)
  <2>1. flow[p] # None /\ flow[p].at # "take" /\ \E t \in {"apply", "tear"} : flow' = [flow EXCEPT ![p] = at(t)]
    BY <1>6 DEF MarkRowPending, At, Goto
  <2>2. Rest
    BY <1>0, <1>6, <2>1 DEF MarkRowPending, TypeOK, SetRow, MarkRow
  <2> QED
    BY <1>6, <2>1, <2>2 DEF Tasks
<1>7. CASE ApplyUpdate(p)
  <2>1. flow[p] # None /\ flow[p].at # "take" /\ \E t \in {"activate"} : flow' = [flow EXCEPT ![p] = at(t)]
    BY <1>7 DEF ApplyUpdate, At, Goto
  <2>2. Rest
    BY <1>0, <1>7, <2>1 DEF ApplyUpdate, TypeOK, SetLb
  <2> QED
    BY <1>7, <2>1, <2>2 DEF Tasks
<1>8. CASE ActivateUpdatedRow(p)
  <2>1. flow[p] # None /\ flow[p].at # "take" /\ \E t \in {"end"} : flow' = [flow EXCEPT ![p] = at(t)]
    BY <1>8 DEF ActivateUpdatedRow, At, Goto
  <2>2. Rest
    BY <1>0, <1>8, <2>1 DEF ActivateUpdatedRow, TypeOK, SetRow
  <2> QED
    BY <1>8, <2>1, <2>2 DEF Tasks
<1>9. CASE DeleteAmphorae(p)
  <2>1. flow[p] # None /\ flow[p].at # "take" /\ \E t \in {"erase"} : flow' = [flow EXCEPT ![p] = at(t)]
    BY <1>9 DEF DeleteAmphorae, At, Goto
  <2>2. Rest
    BY <1>0, <1>9, <2>1 DEF DeleteAmphorae, TypeOK
  <2> QED
    BY <1>9, <2>1, <2>2 DEF Tasks
<1>10. CASE MarkRowDeleted(p)
  <2>1. flow[p] # None /\ flow[p].at # "take" /\ \E t \in {"markLb"} : flow' = [flow EXCEPT ![p] = at(t)]
    BY <1>10 DEF MarkRowDeleted, At, Goto
  <2>2. Rest
    <3>1. vth' = vth \/ vth' = [vth EXCEPT ![flow[p].lb].status = "DELETED"]
      BY <1>10 DEF MarkRowDeleted, MarkRow, SetRow
    <3>2. /\ \A l \in LBs : vth'[l].compute = vth[l].compute
          /\ \A l \in LBs : l # flow[p].lb => vth'[l] = vth[l]
      BY <3>1 DEF TypeOK
    <3> QED
      BY <1>10, <3>2 DEF MarkRowDeleted
  <2> QED
    BY <1>10, <2>1, <2>2 DEF Tasks
<1>11. CASE MarkLBDeleted(p)
  <2>1. flow[p] # None /\ flow[p].at # "take" /\ \E t \in {"end"} : flow' = [flow EXCEPT ![p] = at(t)]
    BY <1>11 DEF MarkLBDeleted, At, Goto
  <2>2. Rest
    BY <1>0, <1>11, <2>1 DEF MarkLBDeleted, TypeOK, SetLb
  <2> QED
    BY <1>11, <2>1, <2>2 DEF Tasks
<1> QED
  BY <1>1, <1>2, <1>3, <1>4, <1>5, <1>6, <1>7, <1>8, <1>9, <1>10, <1>11 DEF Plain

LEMMA FlowKinds ==
    \A p \in Projects :
        FlowStep(p) <=> \/ Plain(p) \/ ValidateComputeForProject(p) \/ ReadSpare(p) \/ TakeSpare(p)
                        \/ AttachCompute(p) \/ BootCompute(p) \/ EndFlow(p) \/ FailFlow(p)
BY DEF FlowStep, Plain

LEMMA FlowFrame ==
    ASSUME TypeOK, ShapeInv, NEW p \in Projects, FlowStep(p)
    PROVE  /\ flow[p] # None
           /\ \A q \in Projects \ {p} : flow'[q] = flow[q]
           /\ \A l \in LBs : l # flow[p].lb => vth'[l] = vth[l] /\ lb'[l] = lb[l]
           /\ UNCHANGED <<request, hk, stale>>
<1> DEFINE Frame == /\ flow[p] # None
                    /\ \A q \in Projects \ {p} : flow'[q] = flow[q]
                    /\ \A l \in LBs : l # flow[p].lb => vth'[l] = vth[l] /\ lb'[l] = lb[l]
                    /\ UNCHANGED <<request, hk, stale>>
<1>1. CASE Plain(p)
  BY <1>1, PlainFacts DEF TypeOK
<1>2. CASE ValidateComputeForProject(p) \/ ReadSpare(p) \/ TakeSpare(p)
  BY <1>2 DEF ValidateComputeForProject, ReadSpare, TakeSpare, At, Goto, TypeOK
<1>3. CASE AttachCompute(p) \/ BootCompute(p)
  BY <1>3 DEF AttachCompute, BootCompute, At, Goto, TypeOK
<1>4. CASE EndFlow(p)
  BY <1>4 DEF EndFlow, TypeOK
<1>5. CASE FailFlow(p)
  <2> DEFINE f == flow[p]
  <2>1. /\ f # None /\ UNCHANGED <<request, hk, stale>>
        /\ flow' = [flow EXCEPT ![p] = None] /\ lb' = [lb EXCEPT ![f.lb] = "ERROR"]
        /\ vth' = [vth EXCEPT ![f.lb] = NoRow] \/ vth' = vth
    BY <1>5, FailFacts
  <2> QED
    BY <2>1 DEF TypeOK
<1> QED
  BY <1>1, <1>2, <1>3, <1>4, <1>5, FlowKinds

LEMMA OtherSteps ==
    ASSUME TypeOK,
           \/ CountReadySpares \/ CountBusySpares \/ BootSpare \/ EndSpareCheck
           \/ \E c \in Computes : EndSpareFlow(c) \/ HealthCheck(c)
                                  \/ DeleteStaleSpare(c) \/ DropStaleSpareRow(c)
    PROVE  UNCHANGED <<lb, request, vth, flow>> /\ hist'.raced = hist.raced
<1>1. CASE BootSpare
  BY <1>1 DEF BootSpare, TypeOK
<1>2. CASE ~BootSpare
  BY <1>2 DEF CountReadySpares, CountBusySpares, EndSpareCheck, EndSpareFlow, HealthCheck,
              DeleteStaleSpare, DropStaleSpareRow
<1> QED
  BY <1>1, <1>2

-----------------------------------------------------------------------------
\* A flow boots a compute only for a project without ACTIVE rows.

BootInv ==
    \A p \in Projects : At(p, "CREATE", "boot") =>
        \A l \in LBs : ProjectOf[l] = p => vth[l].status # "ACTIVE"

LEMMA NextBoots ==
    TypeOK /\ ShapeInv /\ BootInv /\ [Next]_vars => BootInv'
<1> SUFFICES ASSUME TypeOK, ShapeInv, BootInv, [Next]_vars
             PROVE  BootInv'
  OBVIOUS
<1>1. CASE UNCHANGED <<vth, flow>>
  BY <1>1 DEF BootInv, At
<1>2. ASSUME NEW l \in LBs, BeginFlow(l)
      PROVE  BootInv'
  <2> DEFINE g == [op |-> request[l].op, lb |-> l,
                   at |-> IF request[l].op = "CREATE" THEN "map" ELSE "mark",
                   compute |-> request[l].compute, spare |-> None, booted |-> FALSE,
                   drop |-> DeleteComputeFlag(request[l].compute)]
  <2>1. flow' = [flow EXCEPT ![ProjectOf[l]] = g] /\ vth' = vth /\ g.at # "boot"
    BY <1>2 DEF BeginFlow
  <2> HIDE DEF g
  <2>2. \A p \in Projects : flow'[p] = IF p = ProjectOf[l] THEN g ELSE flow[p]
    BY <2>1 DEF TypeOK
  <2> QED
    BY <2>1, <2>2 DEF BootInv, At
<1>3. ASSUME NEW p \in Projects, FlowStep(p)
      PROVE  BootInv'
  <2>1. flow[p] # None /\ flow[p] \in Flows /\ ProjectOf[flow[p].lb] = p
    BY <1>3, FlowFrame DEF TypeOK, ShapeInv
  <2>2. \A q \in Projects \ {p} : flow'[q] = flow[q]
        /\ \A l \in LBs : ProjectOf[l] = q => vth'[l] = vth[l]
    BY <1>3, <2>1, FlowFrame
  <2>3. ASSUME flow'[p] # None, flow'[p].at = "boot"
        PROVE  MapLoadbalancerToAmphora(p)
    <3>1. CASE Plain(p)
      BY <2>1, <2>3, <3>1, PlainFacts DEF TypeOK, Flows
    <3>2. CASE ValidateComputeForProject(p)
      <4>1. CASE Goto(p, "claim")
        BY <2>1, <2>3, <4>1 DEF Goto, TypeOK, Flows
      <4>2. ASSUME NEW c, flow' = [flow EXCEPT ![p].compute = c, ![p].at = "attach"]
            PROVE  FALSE
        BY <2>1, <2>3, <4>2 DEF TypeOK, Flows
      <4> QED
        BY <3>2, <2>1, <2>3, <4>1, <4>2 DEF ValidateComputeForProject, Goto, TypeOK, Flows
    <3>3. CASE ReadSpare(p)
      BY <2>1, <2>3, <3>3 DEF ReadSpare, TypeOK, Flows
    <3>4. CASE TakeSpare(p) \/ AttachCompute(p)
      BY <2>1, <2>3, <3>4 DEF TakeSpare, AttachCompute, Goto, TypeOK, Flows
    <3>5. CASE BootCompute(p)
      BY <2>1, <2>3, <3>5 DEF BootCompute, TypeOK, Flows
    <3>6. CASE EndFlow(p)
      BY <2>3, <3>6 DEF EndFlow, TypeOK
    <3>7. CASE FailFlow(p)
      <4>1. flow' = [flow EXCEPT ![p] = None]
        BY <3>7, FailFacts
      <4> QED
        BY <2>3, <4>1 DEF TypeOK
    <3> QED
      BY <1>3, <3>1, <3>2, <3>3, <3>4, <3>5, <3>6, <3>7, FlowKinds
  <2>4. ASSUME MapLoadbalancerToAmphora(p), flow'[p].at = "boot"
        PROVE  \A l \in LBs : ProjectOf[l] = p => vth'[l].status # "ACTIVE"
    <3>1. ProjectComputes(p) # {} => flow'[p].at = "validate" /\ vth' = vth
      BY <2>1, <2>4 DEF MapLoadbalancerToAmphora, Goto, TypeOK, Flows
    <3>2. ProjectComputes(p) = {} /\ vth' = vth
      BY <2>4, <3>1 DEF MapLoadbalancerToAmphora
    <3> QED
      BY <3>2 DEF ProjectComputes
  <2> QED
    BY <2>2, <2>3, <2>4 DEF BootInv, At
<1>4. ASSUME NEW l \in LBs, (\E op \in Ops : ApiRequest(l, op)) \/ ReadRow(l) \/ BusyTimeout(l)
      PROVE  BootInv'
  BY <1>1, <1>4 DEF ApiRequest, ReadRow, BusyTimeout
<1>5. UNCHANGED vars => UNCHANGED <<vth, flow>>
  BY DEF vars
<1> QED
  BY <1>1, <1>2, <1>3, <1>4, <1>5, OtherSteps DEF Next

LEMMA BootsAlone ==
    ASSUME TypeOK, ShapeInv, LbInv, BootInv, NEW p \in Projects, BootCompute(p),
           NEW l \in LBs, ProjectOf[l] = p
    PROVE  lb[l] # "ACTIVE"
<1>1. vth[l].status # "ACTIVE" /\ flow[p].op = "CREATE"
  BY DEF BootCompute, BootInv, At
<1> QED
  BY <1>1 DEF LbInv, LbOk

-----------------------------------------------------------------------------
\* Who has a compute: the projects with a row of it, and with a creation that
\* will write one.

Holds(p, c) ==
    \/ \E l \in LBs : ProjectOf[l] = p /\ vth[l].compute = c
    \/ flow[p] # None /\ flow[p].op = "CREATE" /\ flow[p].compute = c /\ flow[p].at # "take"

Claimed(p, c) == flow[p] # None /\ flow[p].spare = c /\ flow[p].at # "take"

\* A compute that was not raced for has one project at most, none while it is
\* a free spare, and no row but that of the flow which has claimed it.
Owned(c) ==
    /\ \A p, q \in Projects : Holds(p, c) /\ Holds(q, c) => p = q
    /\ spare[c] \in {"READY", "BOOTING"} => \A p \in Projects : ~Holds(p, c)
    /\ \A p \in Projects, l \in LBs : Claimed(p, c) /\ vth[l].compute = c => l = flow[p].lb

ShareOk(c) ==
    /\ \A p \in Projects : Holds(p, c) => c \in used
    /\ c \notin hist.raced => Owned(c)

ShareInv == \A c \in Computes : ShareOk(c)

LEMMA InitShares == Init => ShareInv
BY VThunderPoolAssumption DEF Init, ShareInv, ShareOk, Owned, Holds, Claimed, NoRow

\* Nobody new has c.
LEMMA ShareKept ==
    ASSUME TypeOK, NEW c \in Computes, ShareOk(c),
           used \subseteq used', c \in hist.raced => c \in hist'.raced,
           \A p \in Projects : Holds(p, c)' => Holds(p, c),
           spare'[c] \in {"READY", "BOOTING"} => spare[c] \in {"READY", "BOOTING"},
           \A p \in Projects : Claimed(p, c)' => Claimed(p, c) /\ flow'[p].lb = flow[p].lb,
           \A l \in LBs : vth'[l].compute = c => vth[l].compute = c
    PROVE  ShareOk(c)'
BY DEF ShareOk, Owned

LEMMA RequestShares ==
    ASSUME TypeOK, ShapeInv, LbInv, ShareInv, NEW l \in LBs,
           \/ \E op \in Ops : ApiRequest(l, op)
           \/ ReadRow(l)
           \/ BeginFlow(l)
           \/ BusyTimeout(l)
    PROVE  ShareInv'
<1> SUFFICES ASSUME NEW c \in Computes PROVE ShareOk(c)'
  BY DEF ShareInv
<1>0. ShareOk(c) /\ c # None
  BY VThunderPoolAssumption DEF ShareInv
<1>1. CASE BeginFlow(l)
  <2> DEFINE rq == request[l]
             g == [op |-> rq.op, lb |-> l, at |-> IF rq.op = "CREATE" THEN "map" ELSE "mark",
                   compute |-> rq.compute, spare |-> None, booted |-> FALSE,
                   drop |-> DeleteComputeFlag(rq.compute)]
  <2>1. /\ rq # None /\ (rq.op = "CREATE" => rq.compute = None)
        /\ flow' = [flow EXCEPT ![ProjectOf[l]] = g]
        /\ UNCHANGED <<vth, spare, used>> /\ hist'.raced = hist.raced
    BY <1>1 DEF BeginFlow, ShapeInv, TypeOK
  <2>2. g.spare = None /\ (g.op = "CREATE" => g.compute = None)
    BY <2>1
  <2> HIDE DEF g
  <2>3. \A q \in Projects : flow'[q] = IF q = ProjectOf[l] THEN g ELSE flow[q]
    BY <2>1 DEF TypeOK
  <2>4. \A q \in Projects : Holds(q, c)' => Holds(q, c)
    BY <1>0, <2>1, <2>2, <2>3 DEF Holds
  <2>5. \A q \in Projects : Claimed(q, c)' => Claimed(q, c) /\ flow'[q].lb = flow[q].lb
    BY <1>0, <2>2, <2>3 DEF Claimed
  <2> QED
    BY <1>0, <2>1, <2>4, <2>5, ShareKept
<1>2. CASE ~BeginFlow(l)
  <2>1. UNCHANGED <<vth, spare, used, hist, flow>>
    BY <1>2 DEF ApiRequest, ReadRow, BusyTimeout
  <2> QED
    BY <1>0, <2>1 DEF ShareOk, Owned, Holds, Claimed
<1> QED
  BY <1>1, <1>2

LEMMA OtherShares ==
    ASSUME TypeOK, ShapeInv, SpareInv, ShareInv,
           \/ CountReadySpares \/ CountBusySpares \/ BootSpare \/ EndSpareCheck
           \/ \E c \in Computes : EndSpareFlow(c) \/ HealthCheck(c)
                                  \/ DeleteStaleSpare(c) \/ DropStaleSpareRow(c)
    PROVE  ShareInv'
<1> SUFFICES ASSUME NEW c \in Computes PROVE ShareOk(c)'
  BY DEF ShareInv
<1>0. ShareOk(c) /\ UNCHANGED <<lb, request, vth, flow>> /\ hist'.raced = hist.raced
  BY OtherSteps DEF ShareInv
<1>1. /\ \A p \in Projects : Holds(p, c)' <=> Holds(p, c)
      /\ \A p \in Projects : Claimed(p, c)' <=> Claimed(p, c)
  BY <1>0 DEF Holds, Claimed
<1>2. CASE BootSpare
  <2>1. PICK d \in Computes \ used :
            used' = used \cup {d} /\ (spare' = [spare EXCEPT ![d] = "BOOTING"] \/ spare' = spare)
    BY <1>2 DEF BootSpare
  <2>2. CASE c = d
    <3>1. \A p \in Projects : ~Holds(p, c)
      BY <1>0, <2>1, <2>2 DEF ShareOk
    <3> QED
      BY <1>0, <1>1, <3>1 DEF ShareOk, Owned, Holds, Claimed
  <2>3. CASE c # d
    <3>1. spare'[c] = spare[c] /\ used \subseteq used'
      BY <2>1, <2>3 DEF TypeOK
    <3> QED
      BY <1>0, <1>1, <3>1, ShareKept
  <2> QED
    BY <2>2, <2>3
<1>3. CASE ~BootSpare
  <2>1. used' = used /\ (spare'[c] \in {"READY", "BOOTING"} => spare[c] \in {"READY", "BOOTING"})
    <3>1. CASE CountReadySpares \/ CountBusySpares \/ EndSpareCheck
      BY <3>1 DEF CountReadySpares, CountBusySpares, EndSpareCheck
    <3>2. ASSUME NEW d \in Computes, EndSpareFlow(d)
          PROVE  used' = used /\ (spare'[c] \in {"READY", "BOOTING"} => spare[c] \in {"READY", "BOOTING"})
      BY <3>2 DEF EndSpareFlow, SpareInv, TypeOK
    <3>3. ASSUME NEW d \in Computes, HealthCheck(d) \/ DeleteStaleSpare(d) \/ DropStaleSpareRow(d)
          PROVE  used' = used /\ (spare'[c] \in {"READY", "BOOTING"} => spare[c] \in {"READY", "BOOTING"})
      BY <3>3 DEF HealthCheck, DeleteStaleSpare, DropStaleSpareRow, TypeOK
    <3> QED
      BY <1>3, <3>1, <3>2, <3>3
  <2> QED
    BY <1>0, <1>1, <2>1, ShareKept
<1> QED
  BY <1>2, <1>3

LEMMA FlowShares ==
    ASSUME TypeOK, ShapeInv, SpareInv, LbInv, ShareInv, NEW p \in Projects, FlowStep(p)
    PROVE  ShareInv'
<1> SUFFICES ASSUME NEW c \in Computes PROVE ShareOk(c)'
  BY DEF ShareInv
<1> DEFINE f == flow[p]
           x == f.lb
<1>0. /\ f # None /\ f \in Flows /\ FlowShape(f) /\ x \in LBs /\ ProjectOf[x] = p
      /\ LbOk(x, lb[x], request[x], vth[x], f)
  BY FlowFrame DEF TypeOK, ShapeInv, LbInv, Flows
<1>00. /\ ShareOk(c) /\ c # None
       /\ \A q \in Projects \ {p} : flow'[q] = flow[q]
       /\ \A l \in LBs \ {x} : vth'[l] = vth[l]
  BY FlowFrame, VThunderPoolAssumption DEF ShareInv
\* Other projects hold what they held.
<1>000. \A q \in Projects \ {p} : /\ Holds(q, c)' <=> Holds(q, c)
                                  /\ Claimed(q, c)' <=> Claimed(q, c)
  BY <1>0, <1>00 DEF Holds, Claimed
<1>1. CASE Plain(p)
  <2>1. PICK t \in Tasks \ {"take"} : flow' = [flow EXCEPT ![p] = [f EXCEPT !.at = t]]
    BY <1>1, PlainFacts
  <2>2. /\ f.at # "take" /\ UNCHANGED <<used, hist>>
        /\ \A l \in LBs : vth'[l].compute = vth[l].compute
        /\ spare'[c] \in {spare[c], "NONE"}
    BY <1>1, PlainFacts
  <2>3. flow'[p] = [f EXCEPT !.at = t]
    BY <2>1 DEF TypeOK
  <2>4. flow'[p].op = f.op /\ flow'[p].compute = f.compute /\ flow'[p].spare = f.spare /\ flow'[p].lb = f.lb
    BY <1>0, <2>3 DEF Flows
  <2>5. (Holds(p, c)' => Holds(p, c)) /\ (Claimed(p, c)' => Claimed(p, c))
    BY <1>0, <2>2, <2>4 DEF Holds, Claimed
  <2> QED
    BY <1>0, <1>00, <1>000, <2>2, <2>4, <2>5, ShareKept
<1>2. CASE ValidateComputeForProject(p)
  <2>1. /\ f.op = "CREATE" /\ f.spare = None /\ UNCHANGED <<vth, spare, used, hist>>
    BY <1>0, <1>2 DEF ValidateComputeForProject, At, FlowShape, Early
  <2>2. CASE Goto(p, "claim")
    <3>1. flow'[p].op = f.op /\ flow'[p].compute = None /\ flow'[p].spare = None
      BY <1>0, <1>2, <2>2 DEF ValidateComputeForProject, At, Goto, TypeOK, Flows, FlowShape, Early
    <3>2. (Holds(p, c)' => Holds(p, c)) /\ ~Claimed(p, c)'
      BY <1>00, <2>1, <3>1 DEF Holds, Claimed
    <3> QED
      BY <1>00, <1>000, <2>1, <3>2, ShareKept
  <2>3. ASSUME NEW d \in ProjectComputes(p), flow' = [flow EXCEPT ![p].compute = d, ![p].at = "attach"]
        PROVE  ShareOk(c)'
    <3>1. flow'[p].compute = d /\ flow'[p].spare = None
      BY <1>0, <2>1, <2>3 DEF TypeOK, Flows
    <3>2. Holds(p, d)
      BY DEF ProjectComputes, Holds
    <3>3. (Holds(p, c)' => Holds(p, c)) /\ ~Claimed(p, c)'
      BY <1>00, <2>1, <3>1, <3>2 DEF Holds, Claimed
    <3> QED
      BY <1>00, <1>000, <2>1, <3>3, ShareKept
  <2> QED
    BY <1>2, <2>2, <2>3 DEF ValidateComputeForProject
<1>3. CASE ReadSpare(p)
  <2>1. PICK d \in ReadySpares : flow' = [flow EXCEPT ![p].compute = d, ![p].spare = d, ![p].at = "take"]
    BY <1>3 DEF ReadSpare
  <2>2. flow'[p].at = "take" /\ UNCHANGED <<vth, spare, used, hist>>
    BY <1>0, <1>3, <2>1 DEF ReadSpare, TypeOK, Flows
  <2>3. (Holds(p, c)' => Holds(p, c)) /\ ~Claimed(p, c)'
    BY <2>2 DEF Holds, Claimed
  <2> QED
    BY <1>00, <1>000, <2>2, <2>3, ShareKept
<1>4. CASE TakeSpare(p)
  <2>1. /\ f.op = "CREATE" /\ f.at = "take" /\ f.spare # None /\ f.compute = f.spare
        /\ f.spare \in Computes /\ f.spare \in used /\ UNCHANGED <<vth, used>>
        /\ vth[x].compute = None
    BY <1>0, <1>4 DEF TakeSpare, At, FlowShape, Flows, SpareInv, LbOk, WorkOk, Unwritten, NoRow
  <2>2. /\ spare' = [spare EXCEPT ![f.spare] = IF @ = "NONE" THEN @ ELSE "BUSY"]
        /\ flow' = [flow EXCEPT ![p] = [f EXCEPT !.at = "attach"]]
    BY <1>4 DEF TakeSpare, SetSpare, Goto
  <2>3. hist'.raced = IF spare[f.spare] # "READY" THEN hist.raced \cup {f.spare} ELSE hist.raced
    BY <1>4 DEF TakeSpare, TypeOK
  <2>4. /\ flow'[p].op = "CREATE" /\ flow'[p].compute = f.spare /\ flow'[p].spare = f.spare
        /\ flow'[p].lb = x /\ flow'[p].at = "attach"
    BY <1>0, <2>1, <2>2 DEF Flows, TypeOK
  <2>5. CASE c = f.spare
    <3>1. \A q \in Projects : Holds(q, c)' => c \in used'
      BY <2>1, <2>5
    <3>2. ASSUME c \notin hist'.raced PROVE Owned(c)'
      <4>1. spare[c] = "READY" /\ c \notin hist.raced
        BY <2>3, <2>5, <3>2
      <4>2. \A q \in Projects : ~Holds(q, c)
        BY <1>00, <4>1 DEF ShareOk, Owned
      <4>3. \A q \in Projects : Holds(q, c)' => q = p
        BY <1>000, <4>2
      <4>4. spare'[c] = "BUSY"
        BY <2>2, <2>5, <4>1 DEF TypeOK
      <4>5. \A l \in LBs : vth'[l].compute # c
        BY <2>1, <4>2, VThunderPoolAssumption DEF Holds
      <4> QED
        BY <4>3, <4>4, <4>5 DEF Owned
    <3> QED
      BY <3>1, <3>2 DEF ShareOk
  <2>6. CASE c # f.spare
    <3>1. spare'[c] = spare[c] /\ (c \in hist.raced <=> c \in hist'.raced)
      BY <2>1, <2>2, <2>3, <2>6 DEF TypeOK
    <3>2. (Holds(p, c)' => Holds(p, c)) /\ ~Claimed(p, c)'
      BY <2>1, <2>4, <2>6 DEF Holds, Claimed
    <3> QED
      BY <1>00, <1>000, <2>1, <3>1, <3>2, ShareKept
  <2> QED
    BY <2>5, <2>6
<1>5. CASE AttachCompute(p)
  <2>1. /\ f.op = "CREATE" /\ f.at = "attach" /\ UNCHANGED <<spare, used, hist>>
        /\ vth'[x].compute = f.compute /\ vth[x].compute = None
        /\ flow' = [flow EXCEPT ![p] = [f EXCEPT !.at = "unspare"]]
    BY <1>0, <1>5 DEF AttachCompute, At, Goto, LbOk, WorkOk, Unwritten, NoRow, TypeOK
  <2>2. /\ flow'[p].op = "CREATE" /\ flow'[p].compute = f.compute /\ flow'[p].spare = f.spare
        /\ flow'[p].lb = x /\ flow'[p].at = "unspare"
    BY <1>0, <2>1 DEF Flows, TypeOK
  <2>3. (Holds(p, c)' => Holds(p, c)) /\ (Claimed(p, c)' => Claimed(p, c))
    BY <1>0, <1>00, <2>1, <2>2 DEF Holds, Claimed
  <2>4. CASE c # f.compute
    <3>1. \A l \in LBs : vth'[l].compute = c => vth[l].compute = c
      BY <1>00, <2>1, <2>4
    <3> QED
      BY <1>00, <1>000, <2>1, <2>2, <2>3, <3>1, ShareKept
  <2>5. CASE c = f.compute
    <3>1. Holds(p, c)
      BY <1>0, <2>1, <2>5 DEF Holds
    <3>2. \A q \in Projects : Holds(q, c)' => Holds(q, c)
      BY <1>000, <2>3
    <3>3. \A q \in Projects : Claimed(q, c)' => Claimed(q, c) /\ flow'[q].lb = flow[q].lb
      BY <1>00, <1>000, <2>2, <2>3
    <3>4. ASSUME c \notin hist.raced, NEW q \in Projects, NEW l \in LBs, Claimed(q, c)', vth'[l].compute = c
          PROVE  l = flow'[q].lb
      <4>1. CASE l = x
        <5>1. CASE q = p
          BY <2>2, <4>1, <5>1
        <5>2. CASE q # p
          <6>1. Claimed(q, c) /\ flow[q] \in Flows /\ FlowShape(flow[q])
            BY <1>000, <3>4, <5>2 DEF Claimed, TypeOK, ShapeInv
          <6>2. Holds(q, c)
            BY <1>00, <6>1 DEF Claimed, Holds, FlowShape
          <6> QED
            BY <1>00, <3>1, <3>4, <5>2, <6>2 DEF ShareOk, Owned
        <5> QED
          BY <5>1, <5>2
      <4>2. CASE l # x
        BY <1>00, <3>3, <3>4, <4>2 DEF ShareOk, Owned
      <4> QED
        BY <4>1, <4>2
    <3> QED
      BY <1>00, <2>1, <3>2, <3>4 DEF ShareOk, Owned
  <2> QED
    BY <2>4, <2>5
<1>6. CASE BootCompute(p)
  <2>1. PICK d \in Computes \ used :
          /\ used' = used \cup {d}
          /\ vth' = [vth EXCEPT ![x] = [status |-> "PENDING_CREATE", compute |-> d]]
          /\ flow' = [flow EXCEPT ![p].compute = d, ![p].booted = TRUE, ![p].at = "activate"]
    BY <1>6 DEF BootCompute
  <2>2. /\ f.op = "CREATE" /\ f.at = "boot" /\ f.spare = None /\ UNCHANGED <<spare, hist>>
        /\ vth[x].compute = None
    BY <1>0, <1>6 DEF BootCompute, At, FlowShape, Early, LbOk, WorkOk, Unwritten, NoRow
  <2>3. flow'[p].compute = d /\ flow'[p].spare = None /\ vth'[x].compute = d
    BY <1>0, <2>1, <2>2 DEF TypeOK, Flows
  <2>4. ~Claimed(p, c)'
    BY <1>00, <2>3 DEF Claimed
  <2>5. CASE c = d
    <3>1. \A q \in Projects : ~Holds(q, c)
      BY <1>00, <2>1, <2>5 DEF ShareOk
    <3>2. \A q \in Projects : Holds(q, c)' => q = p
      BY <1>000, <3>1
    <3>3. spare'[c] = "NONE" /\ c \in used'
      BY <2>1, <2>2, <2>5 DEF SpareInv
    <3>4. \A q \in Projects : ~Claimed(q, c)'
      <4>1. ASSUME NEW q \in Projects, q # p, Claimed(q, c)
            PROVE  FALSE
        <5>1. flow[q].spare \in used
          BY <1>00, <4>1 DEF SpareInv, Claimed
        <5> QED
          BY <2>1, <2>5, <4>1, <5>1 DEF Claimed
      <4> QED
        BY <1>000, <2>4, <4>1
    <3> QED
      BY <3>2, <3>3, <3>4 DEF ShareOk, Owned
  <2>6. CASE c # d
    <3>1. Holds(p, c)' => Holds(p, c)
      BY <1>00, <2>3, <2>6 DEF Holds
    <3>2. \A l \in LBs : vth'[l].compute = c => vth[l].compute = c
      BY <1>00, <2>3, <2>6
    <3> QED
      BY <1>00, <1>000, <2>1, <2>2, <2>4, <3>1, <3>2, ShareKept
  <2> QED
    BY <2>5, <2>6
<1>7. CASE EndFlow(p)
  <2>1. flow'[p] = None /\ UNCHANGED <<vth, spare, used, hist>>
    BY <1>7 DEF EndFlow, TypeOK
  <2>2. (Holds(p, c)' => Holds(p, c)) /\ ~Claimed(p, c)'
    BY <2>1 DEF Holds, Claimed
  <2> QED
    BY <1>00, <1>000, <2>1, <2>2, ShareKept
<1>8. CASE FailFlow(p)
  <2>0. /\ flow' = [flow EXCEPT ![p] = None] /\ used' = used
        /\ vth' = IF f.op = "CREATE" /\ f.at \notin {"map", "validate", "claim", "take"}
                     THEN [vth EXCEPT ![f.lb] = NoRow] ELSE vth
        /\ f.spare = None => spare' = spare /\ hist'.raced = hist.raced
        /\ f.spare # None =>
                /\ f.spare \in Computes
                /\ spare' = [spare EXCEPT ![f.spare] = IF @ = "NONE" THEN @ ELSE "READY"]
                /\ hist'.raced = IF f.at = "take" /\ spare[f.spare] = "BUSY"
                                 THEN hist.raced \cup {f.spare} ELSE hist.raced
    BY <1>8, FailFacts
  <2>1. /\ flow'[p] = None /\ used' = used
        /\ vth'[x] = IF f.op = "CREATE" /\ f.at \notin {"map", "validate", "claim", "take"}
                     THEN NoRow ELSE vth[x]
        /\ f.spare = None => spare' = spare /\ hist'.raced = hist.raced
        /\ f.spare # None =>
                /\ f.spare \in Computes
                /\ spare' = [spare EXCEPT ![f.spare] = IF @ = "NONE" THEN @ ELSE "READY"]
                /\ hist'.raced = IF f.at = "take" /\ spare[f.spare] = "BUSY"
                                 THEN hist.raced \cup {f.spare} ELSE hist.raced
    BY <1>0, <2>0 DEF TypeOK
  <2>2. (Holds(p, c)' => Holds(p, c)) /\ ~Claimed(p, c)'
    BY <1>00, <2>1 DEF Holds, Claimed, NoRow
  <2>3. \A l \in LBs : vth'[l].compute = c => vth[l].compute = c
    BY <1>00, <2>1 DEF NoRow
  <2>4. c \in hist.raced => c \in hist'.raced
    BY <2>1
  <2>5. CASE c # f.spare \/ f.spare = None
    <3>1. spare'[c] = spare[c]
      BY <1>00, <2>1, <2>5 DEF TypeOK
    <3> QED
      BY <1>00, <1>000, <2>1, <2>2, <2>3, <2>4, <3>1, ShareKept
  <2>6. CASE c = f.spare /\ f.spare # None
    <3>1. CASE spare[c] # "BUSY"
      <4>1. spare'[c] = spare[c] \/ spare[c] \in {"READY", "BOOTING"}
        BY <2>1, <2>6, <3>1 DEF TypeOK, SpareStatuses
      <4> QED
        BY <1>00, <1>000, <2>1, <2>2, <2>3, <2>4, <4>1, ShareKept
    <3>2. CASE spare[c] = "BUSY" /\ f.at = "take"
      <4>1. c \in hist'.raced
        BY <2>1, <2>6, <3>2
      <4>2. \A q \in Projects : Holds(q, c)' => c \in used'
        BY <1>00, <1>000, <2>1, <2>2 DEF ShareOk
      <4> QED
        BY <4>1, <4>2 DEF ShareOk
    <3>3. CASE spare[c] = "BUSY" /\ f.at # "take"
      <4>1. /\ Claimed(p, c) /\ Holds(p, c) /\ f.op = "CREATE" /\ f.at \notin Early
        BY <1>0, <1>00, <2>6, <3>3 DEF Claimed, Holds, FlowShape
      <4>2. \A q \in Projects : Holds(q, c)' => c \in used'
        BY <1>00, <1>000, <2>1, <2>2 DEF ShareOk
      <4>3. ASSUME c \notin hist'.raced PROVE Owned(c)'
        <5>1. Owned(c)
          BY <1>00, <2>4, <4>3 DEF ShareOk
        <5>2. vth'[x].compute = None
          BY <2>1, <3>3, <4>1 DEF NoRow, Early
        <5>3. \A l \in LBs : vth'[l].compute # c
          BY <1>00, <2>3, <4>1, <5>1, <5>2 DEF Owned
        <5>4. ~Holds(p, c)'
          BY <2>1, <5>3 DEF Holds
        <5>5. \A q \in Projects : ~Holds(q, c)'
          BY <1>000, <4>1, <5>1, <5>4 DEF Owned
        <5> QED
          BY <5>3, <5>5 DEF Owned
      <4> QED
        BY <4>2, <4>3 DEF ShareOk
    <3> QED
      BY <3>1, <3>2, <3>3
  <2> QED
    BY <2>5, <2>6
<1> QED
  BY <1>1, <1>2, <1>3, <1>4, <1>5, <1>6, <1>7, <1>8, FlowKinds

LEMMA NextShares ==
    TypeOK /\ ShapeInv /\ SpareInv /\ LbInv /\ ShareInv /\ [Next]_vars => ShareInv'
<1> SUFFICES ASSUME TypeOK, ShapeInv, SpareInv, LbInv, ShareInv, [Next]_vars
             PROVE  ShareInv'
  OBVIOUS
<1>1. CASE UNCHANGED vars
  BY <1>1 DEF vars, ShareInv, ShareOk, Owned, Holds, Claimed
<1> QED
  BY <1>1, RequestShares, FlowShares, OtherShares DEF Next

-----------------------------------------------------------------------------
\* Without a pool there are no spares.

NoSpares ==
    /\ hk.at = "idle" /\ hk.making = {} /\ stale = {} /\ hist.raced = {}
    /\ \A c \in Computes : spare[c] = "NONE"
    /\ \A p \in Projects : flow[p] # None => flow[p].spare = None

LEMMA NextNoSpares ==
    ASSUME PoolSize = 0, TypeOK, ShapeInv, NoSpares, [Next]_vars
    PROVE  /\ NoSpares'
           /\ \/ UNCHANGED vars
              \/ \E l \in LBs : (\E op \in Ops : ApiRequest(l, op)) \/ ReadRow(l) \/ BeginFlow(l) \/ BusyTimeout(l)
              \/ \E p \in Projects : FlowStep(p) /\ ~ReadSpare(p) /\ ~TakeSpare(p)
<1>1. CASE UNCHANGED vars
  BY <1>1 DEF vars, NoSpares
<1>2. ASSUME NEW l \in LBs, BeginFlow(l)
      PROVE  NoSpares'
  <2> DEFINE g == [op |-> request[l].op, lb |-> l,
                   at |-> IF request[l].op = "CREATE" THEN "map" ELSE "mark",
                   compute |-> request[l].compute, spare |-> None, booted |-> FALSE,
                   drop |-> DeleteComputeFlag(request[l].compute)]
  <2>1. /\ flow' = [flow EXCEPT ![ProjectOf[l]] = g] /\ g.spare = None
        /\ hist'.raced = hist.raced /\ UNCHANGED <<hk, stale, spare>>
    BY <1>2 DEF BeginFlow, TypeOK
  <2> HIDE DEF g
  <2>2. \A q \in Projects : flow'[q] = IF q = ProjectOf[l] THEN g ELSE flow[q]
    BY <2>1 DEF TypeOK
  <2> QED
    BY <2>1, <2>2 DEF NoSpares
<1>3. ASSUME NEW l \in LBs, (\E op \in Ops : ApiRequest(l, op)) \/ ReadRow(l) \/ BusyTimeout(l)
      PROVE  NoSpares'
  BY <1>3 DEF ApiRequest, ReadRow, BusyTimeout, NoSpares
<1>4. ASSUME NEW p \in Projects, FlowStep(p)
      PROVE  NoSpares' /\ ~ReadSpare(p) /\ ~TakeSpare(p)
  <2> DEFINE f == flow[p]
  <2>0. /\ f # None /\ f \in Flows /\ FlowShape(f) /\ f.spare = None
        /\ \A q \in Projects \ {p} : flow'[q] = flow[q]
        /\ UNCHANGED <<hk, stale>>
    BY <1>4, FlowFrame DEF TypeOK, ShapeInv, NoSpares
  <2>1. ~ReadSpare(p)
    BY DEF ReadSpare, ReadySpares, NoSpares
  <2>2. ~TakeSpare(p)
    BY <2>0 DEF TakeSpare, At, FlowShape
  <2>3. ASSUME UNCHANGED <<spare, hist>>, flow'[p] = None \/ flow'[p].spare = None
        PROVE  NoSpares'
    BY <2>0, <2>3 DEF NoSpares
  <2>4. CASE Plain(p)
    <3>1. /\ hist' = hist /\ \A c \in Computes : spare'[c] = "NONE"
      BY <2>4, PlainFacts DEF NoSpares
    <3>2. PICK t \in Tasks : flow' = [flow EXCEPT ![p] = [f EXCEPT !.at = t]]
      BY <2>4, PlainFacts
    <3>3. flow'[p].spare = None
      BY <2>0, <3>2 DEF TypeOK, Flows
    <3> QED
      BY <2>0, <2>1, <2>2, <3>1, <3>3 DEF NoSpares
  <2>5. CASE ValidateComputeForProject(p)
    <3>1. CASE Goto(p, "claim")
      BY <2>0, <2>1, <2>2, <2>3, <2>5, <3>1 DEF ValidateComputeForProject, Goto, TypeOK, Flows
    <3>2. ASSUME NEW c, flow' = [flow EXCEPT ![p].compute = c, ![p].at = "attach"]
          PROVE  flow'[p].spare = None
      BY <2>0, <3>2 DEF TypeOK, Flows
    <3> QED
      BY <2>1, <2>2, <2>3, <2>5, <3>1, <3>2 DEF ValidateComputeForProject
  <2>6. CASE AttachCompute(p)
    BY <2>0, <2>1, <2>2, <2>3, <2>6 DEF AttachCompute, Goto, TypeOK, Flows
  <2>7. CASE BootCompute(p)
    <3>1. flow'[p].spare = None
      BY <2>0, <2>7 DEF BootCompute, TypeOK, Flows
    <3> QED
      BY <2>1, <2>2, <2>3, <2>7, <3>1 DEF BootCompute
  <2>8. CASE EndFlow(p)
    BY <2>1, <2>2, <2>3, <2>8 DEF EndFlow, TypeOK
  <2>9. CASE FailFlow(p)
    <3>1. spare' = spare /\ hist'.raced = hist.raced /\ flow' = [flow EXCEPT ![p] = None]
      BY <2>0, <2>9, FailFacts
    <3>2. flow'[p] = None
      BY <3>1 DEF TypeOK
    <3> QED
      BY <2>0, <2>1, <2>2, <3>1, <3>2 DEF NoSpares
  <2> QED
    BY <1>4, <2>1, <2>2, <2>4, <2>5, <2>6, <2>7, <2>8, <2>9, FlowKinds
<1>5. ~(CountReadySpares \/ CountBusySpares \/ BootSpare \/ EndSpareCheck)
  BY DEF CountReadySpares, CountBusySpares, BootSpare, EndSpareCheck, NoSpares
<1>6. ~(\E c \in Computes : EndSpareFlow(c) \/ HealthCheck(c) \/ DeleteStaleSpare(c) \/ DropStaleSpareRow(c))
  BY DEF EndSpareFlow, HealthCheck, DeleteStaleSpare, DropStaleSpareRow, NoSpares
<1> QED
  BY <1>1, <1>2, <1>3, <1>4, <1>5, <1>6 DEF Next

-----------------------------------------------------------------------------
\* Devices, without a pool.

\* What the flow f knows of its device: the one it joined is kept by an ACTIVE
\* row, the one it booted has no other row, and the count of a deletion holds
\* until it ends.
DevFlow(f) ==
    /\ f.compute \in used \cup {None}
    /\ f.op = "CREATE" /\ f.at \in Written /\ hist.late = {} => f.compute \in alive
    /\ f.op = "CREATE" /\ f.at \in Written \cup {"attach"} /\ ~f.booted =>
          \E m \in LBs : m # f.lb /\ vth[m].status = "ACTIVE" /\ vth[m].compute = f.compute
    /\ f.booted => \A m \in LBs : vth[m].compute = f.compute => m = f.lb
    /\ f.op = "DELETE" /\ f.drop => f.compute # None
    /\ f.op = "DELETE" /\ f.drop /\ f.at \in {"erase", "markLb", "end"} => f.compute \notin alive
    /\ f.op = "DELETE" /\ ~f.drop /\ vth[f.lb].compute # None =>
          \E m \in LBs : m # f.lb /\ HasRow(m) /\ vth[m].compute = f.compute
    /\ f.op = "DELETE" /\ hist.late = {} /\ f.compute # None => vth[f.lb].compute = f.compute
    /\ f.op = "DELETE" /\ hist.late = {} /\ f.drop =>
          \A m \in LBs : m # f.lb /\ vth[m].compute = f.compute => vth[m].status = "DELETED"
    /\ f.op = "DELETE" /\ f.at = "end" => lb[f.lb] # "ACTIVE"

DeviceInv ==
    /\ \A p \in Projects : flow[p] # None => DevFlow(flow[p])
    /\ \A l \in LBs : request[l] # None => request[l].compute \in used \cup {None}
    /\ ActiveLbHasDevice
    /\ NoOrphanDevice

LEMMA InitDevices == Init => NoSpares /\ DeviceInv
BY DEF Init, NoSpares, DeviceInv, IdleHk, ActiveLbHasDevice, NoOrphanDevice

\* Without spares a compute has one project.
LEMMA OneOwner ==
    ASSUME NoSpares, ShareInv, NEW c \in Computes, NEW p \in Projects, NEW q \in Projects,
           Holds(p, c), Holds(q, c)
    PROVE  p = q
BY DEF NoSpares, ShareInv, ShareOk, Owned

LEMMA RequestDevices ==
    ASSUME TypeOK, ShapeInv, LbInv, ShareInv, NoSpares, DeviceInv, NEW l \in LBs,
           \/ \E op \in Ops : ApiRequest(l, op)
           \/ ReadRow(l)
           \/ BeginFlow(l)
           \/ BusyTimeout(l)
    PROVE  DeviceInv'
<1>1. ASSUME NEW s, s # "ACTIVE", lb' = [lb EXCEPT ![l] = s], UNCHANGED <<vth, spare, alive, used, flow, hist>>
      PROVE  /\ \A p \in Projects : flow'[p] # None => DevFlow(flow[p])'
             /\ ActiveLbHasDevice' /\ NoOrphanDevice'
  <2>1. \A m \in LBs : lb'[m] = "ACTIVE" => lb[m] = "ACTIVE"
    BY <1>1 DEF TypeOK
  <2>2. \A p \in Projects : flow[p] # None => flow[p].lb \in LBs
    BY DEF TypeOK, Flows
  <2>3. \A p \in Projects : flow'[p] # None => DevFlow(flow[p])'
    BY <1>1, <2>1, <2>2 DEF DeviceInv, DevFlow, HasRow
  <2>4. ActiveLbHasDevice'
    BY <1>1, <2>1 DEF DeviceInv, ActiveLbHasDevice, BeingDeleted
  <2>5. NoOrphanDevice'
    BY <1>1 DEF DeviceInv, NoOrphanDevice, HasRow
  <2> QED
    BY <2>3, <2>4, <2>5
<1>2. ASSUME NEW op \in Ops, ApiRequest(l, op)
      PROVE  DeviceInv'
  <2>1. lb' = [lb EXCEPT ![l] = PendingOf(op)] /\ PendingOf(op) # "ACTIVE"
    BY <1>2, VThunderPoolAssumption DEF ApiRequest, PendingOf
  <2>2. /\ request' = [request EXCEPT ![l] = [op |-> op, read |-> op # "DELETE", compute |-> None]]
        /\ UNCHANGED <<vth, spare, alive, used, flow, hist>>
    BY <1>2 DEF ApiRequest
  <2>3. \A m \in LBs : request'[m] # None => request'[m].compute \in used' \cup {None}
    BY <2>2 DEF DeviceInv, TypeOK
  <2> QED
    BY <1>1, <2>1, <2>2, <2>3 DEF DeviceInv
<1>3. CASE BusyTimeout(l)
  <2>1. \A m \in LBs : request'[m] # None => request'[m].compute \in used' \cup {None}
    BY <1>3 DEF BusyTimeout, DeviceInv, TypeOK
  <2> QED
    BY <1>1, <1>3, <2>1 DEF DeviceInv, BusyTimeout
<1>4. CASE ReadRow(l)
  <2>1. /\ request' = [request EXCEPT ![l].read = TRUE, ![l].compute = vth[l].compute]
        /\ request[l] # None /\ request[l] \in Requests
        /\ UNCHANGED <<lb, vth, spare, alive, used, flow, hist>>
    BY <1>4 DEF ReadRow, TypeOK
  <2>2. vth[l].compute \in used \cup {None}
    BY VThunderPoolAssumption DEF ShareInv, ShareOk, Holds, TypeOK
  <2>3. request'[l].compute = vth[l].compute /\ \A m \in LBs \ {l} : request'[m] = request[m]
    BY <2>1 DEF TypeOK, Requests
  <2>4. \A m \in LBs : request'[m] # None => request'[m].compute \in used' \cup {None}
    BY <2>1, <2>2, <2>3 DEF DeviceInv
  <2>5. \A q \in Projects : flow'[q] # None => DevFlow(flow[q])'
    BY <2>1 DEF DeviceInv, DevFlow, HasRow
  <2>6. ActiveLbHasDevice' /\ NoOrphanDevice'
    BY <2>1 DEF DeviceInv, HasRow, ActiveLbHasDevice, BeingDeleted, NoOrphanDevice
  <2> QED
    BY <2>4, <2>5, <2>6 DEF DeviceInv
<1>5. CASE BeginFlow(l)
  <2> DEFINE p == ProjectOf[l]
             rq == request[l]
             c == rq.compute
             g == [op |-> rq.op, lb |-> l, at |-> IF rq.op = "CREATE" THEN "map" ELSE "mark",
                   compute |-> c, spare |-> None, booted |-> FALSE, drop |-> DeleteComputeFlag(c)]
             R == {m \in LBs : vth[m].compute = c /\ vth[m].status # "DELETED"}
  <2>1. /\ rq # None /\ rq \in Requests /\ rq.op \in {"CREATE", "UPDATE", "DELETE"} /\ rq.read
        /\ flow[p] = None /\ p \in Projects
        /\ request' = [request EXCEPT ![l] = None]
        /\ flow' = [flow EXCEPT ![p] = g]
        /\ UNCHANGED <<lb, vth, spare, alive, used>>
    BY <1>5, VThunderPoolAssumption DEF BeginFlow, TypeOK, Requests
  <2>2. /\ c \in used \cup {None} /\ (rq.op = "DELETE" => vth[l].compute \in {c, None})
        /\ \A m \in LBs : vth[m].compute = None \/ vth[m].status = "NONE" => vth[m] = NoRow
    BY <2>1 DEF DeviceInv, LbInv, LbOk
  <2>3. (hist'.late = {} => hist.late = {}) /\ (hist'.late = {} /\ c # None => HasRow(l))
    BY <1>5 DEF BeginFlow, TypeOK
  <2>4. IsFiniteSet(R) /\ Cardinality(R) \in Nat
    BY VThunderPoolAssumption, FS_Subset, FS_CardinalityType
  <2>5. g.drop <=> c # None /\ Cardinality(R) < 2
    <3>1. c # None => c \in Computes /\ spare[c] = "NONE"
      BY <2>1 DEF NoSpares, Requests
    <3> QED
      BY <2>4, <3>1 DEF DeleteComputeFlag
  <2>6. ASSUME ~g.drop, rq.op = "DELETE", vth[l].compute # None
        PROVE  \E m \in LBs : m # l /\ HasRow(m) /\ vth[m].compute = c
    <3>1. c # None /\ ~(Cardinality(R) < 2)
      BY <2>2, <2>5, <2>6
    <3>2. PICK m \in R : m # l
      <4>0. IsFiniteSet({l}) /\ Cardinality({l}) = 1
        BY FS_Singleton
      <4>1. Cardinality(R \cap {l}) \in Nat /\ Cardinality(R \cap {l}) <= 1
        <5>1. R \cap {l} \in SUBSET {l}
          OBVIOUS
        <5>2. IsFiniteSet(R \cap {l}) /\ Cardinality(R \cap {l}) <= Cardinality({l})
          BY <4>0, <5>1, FS_Subset
        <5> QED
          BY <4>0, <5>2, FS_CardinalityType
      <4>2. R # R \cap {l}
        <5> HIDE DEF R
        <5> QED
          BY <2>4, <3>1, <4>1
      <4> QED
        BY <4>2
    <3>3. HasRow(m)
      BY <2>2, <3>1, <3>2 DEF HasRow, NoRow
    <3> QED
      BY <3>2, <3>3
  <2>7. ASSUME rq.op = "DELETE", hist'.late = {}, c # None
        PROVE  vth[l].compute = c /\ l \in R
    BY <2>2, <2>3, <2>7 DEF HasRow, NoRow
  <2>8. ASSUME rq.op = "DELETE", hist'.late = {}, g.drop, NEW m \in LBs, m # l, vth[m].compute = c
        PROVE  vth[m].status = "DELETED"
    <3>1. l \in R /\ Cardinality(R) < 2 /\ c # None
      BY <2>5, <2>7, <2>8
    <3>2. m \notin R
      <4>1. SUFFICES ASSUME m \in R PROVE FALSE
        OBVIOUS
      <4>0. IsFiniteSet({l}) /\ Cardinality({l}) = 1
        BY FS_Singleton
      <4>2. Cardinality({l} \cup {m}) = 2
        <5>1. m \notin {l}
          BY <2>8
        <5> QED
          BY <4>0, <5>1, FS_AddElement
      <4>3. {l} \cup {m} \in SUBSET R
        BY <3>1, <4>1
      <4> QED
        <5>1. Cardinality({l} \cup {m}) <= Cardinality(R)
          BY <2>4, <4>3, FS_Subset
        <5> HIDE DEF R
        <5> QED
          BY <2>4, <3>1, <4>2, <5>1
    <3> QED
      BY <2>8, <3>2
  <2> HIDE DEF R
  <2>0. PICK h : h = g
    OBVIOUS
  <2>9. DevFlow(h)'
    <3>1. /\ h.op = rq.op /\ h.lb = l /\ h.compute = c /\ ~h.booted /\ h.drop = g.drop
          /\ h.at \in {"map", "mark"} /\ UNCHANGED <<lb, vth, spare, alive, used>>
      BY <2>0, <2>1
    <3>2. g.drop => c # None
      BY <2>5
    <3> HIDE DEF g, c, rq
    <3> QED
      BY <2>2, <2>6, <2>7, <2>8, <3>1, <3>2 DEF DevFlow, HasRow, Written
  <2> HIDE DEF g
  <2>10. \A q \in Projects : flow'[q] = IF q = p THEN g ELSE flow[q]
    BY <2>1 DEF TypeOK
  <2>11. ASSUME NEW q \in Projects, flow'[q] # None
         PROVE  DevFlow(flow[q])'
    <3>1. CASE q = p
      <4>1. flow'[q] = h
        BY <2>0, <2>10, <3>1
      <4> QED
        BY <2>9, <4>1 DEF DevFlow
    <3>2. CASE q # p
      <4>1. flow'[q] = flow[q] /\ DevFlow(flow[q])
        BY <2>10, <2>11, <3>2 DEF DeviceInv
      <4> QED
        BY <2>1, <2>3, <4>1 DEF DevFlow, HasRow
    <3> QED
      BY <3>1, <3>2
  <2>12. \A m \in LBs : request'[m] # None => request'[m].compute \in used' \cup {None}
    BY <2>1 DEF DeviceInv, TypeOK
  <2>13. ActiveLbHasDevice'
    <3>1. \A m \in LBs : BeingDeleted(m) => BeingDeleted(m)'
      BY <2>1, <2>10 DEF BeingDeleted
    <3> QED
      BY <2>1, <2>3, <3>1 DEF DeviceInv, ActiveLbHasDevice
  <2>14. NoOrphanDevice'
    <3>1. hist'.left = hist.left
      <4>1. hist' = hist \/ hist' = [hist EXCEPT !.late = @ \cup {l}]
        BY <1>5 DEF BeginFlow
      <4> QED
        BY <4>1 DEF TypeOK
    <3> QED
      BY <2>1, <3>1 DEF DeviceInv, NoOrphanDevice, HasRow
  <2> QED
    BY <2>11, <2>12, <2>13, <2>14 DEF DeviceInv
<1> QED
  BY <1>2, <1>3, <1>4, <1>5

\* What p does to its devices leaves the flows of other projects alone.
LEMMA OthersDevices ==
    ASSUME TypeOK, ShapeInv, LbInv, ShareInv, ShareInv', NoSpares, NoSpares', DeviceInv,
           NEW p \in Projects, flow[p] # None,
           NEW q \in Projects, q # p, flow[q] # None, flow'[q] = flow[q],
           \A l \in LBs : l # flow[p].lb => vth'[l] = vth[l] /\ lb'[l] = lb[l],
           hist'.late = hist.late, used \subseteq used', alive' \subseteq Computes,
           hist.late = {} => \A c \in alive \ alive' : Holds(p, c),
           \A c \in alive' \ alive : c \notin used
    PROVE  DevFlow(flow[q])'
<1> DEFINE f == flow[q]
           x == flow[p].lb
<1>0. PICK c : c = f.compute
  OBVIOUS
<1>1. /\ f \in Flows /\ FlowShape(f) /\ f.lb \in LBs /\ ProjectOf[f.lb] = q
      /\ x \in LBs /\ ProjectOf[x] = p /\ f.lb # x /\ DevFlow(f)
      /\ c \in Computes \cup {None}
  BY <1>0 DEF TypeOK, ShapeInv, Flows, DeviceInv
<1>2. /\ vth'[f.lb] = vth[f.lb] /\ lb'[f.lb] = lb[f.lb]
      /\ f.op = "DELETE" => vth[f.lb].compute \in {c, None}
  BY <1>0, <1>1 DEF LbInv, LbOk, WorkOk
<1>3. ASSUME c # None, Holds(q, c)
      PROVE  ~Holds(p, c) /\ vth[x].compute # c
  BY <1>1, <1>3, OneOwner DEF Holds
<1>4. ASSUME c # None, Holds(q, c)'
      PROVE  vth'[x].compute # c
  BY <1>1, <1>4 DEF NoSpares, ShareInv, ShareOk, Owned, Holds
<1>5. ASSUME f.op = "CREATE", f.at \in Written \cup {"attach"}
      PROVE  c # None /\ Holds(q, c)
  BY <1>0, <1>1, <1>5 DEF Holds, FlowShape, Written, Early
<1> HIDE DEF x
<1>6. c \in used' \cup {None}
  BY <1>0, <1>1 DEF DevFlow
<1>7. f.op = "CREATE" /\ f.at \in Written /\ hist.late = {} => c \in alive'
  BY <1>0, <1>1, <1>3, <1>5 DEF DevFlow
<1>8. ASSUME f.op = "CREATE", f.at \in Written \cup {"attach"}, ~f.booted
      PROVE  \E m \in LBs : m # f.lb /\ vth'[m].status = "ACTIVE" /\ vth'[m].compute = c
  <2>1. PICK m \in LBs : m # f.lb /\ vth[m].status = "ACTIVE" /\ vth[m].compute = c
    BY <1>0, <1>1, <1>8 DEF DevFlow
  <2>2. m # x
    BY <1>3, <1>5, <1>8, <2>1
  <2> QED
    BY <2>1, <2>2 DEF x
<1>9. ASSUME f.booted, NEW m \in LBs, vth'[m].compute = c
      PROVE  m = f.lb
  <2>1. c # None /\ Holds(q, c)'
    BY <1>0, <1>1, <1>9 DEF Holds, FlowShape, Early
  <2>2. m # x
    BY <1>4, <1>9, <2>1
  <2> QED
    BY <1>0, <1>1, <1>9, <2>2 DEF DevFlow, x
<1>10. f.op = "DELETE" /\ f.drop => c # None
  BY <1>0, <1>1 DEF DevFlow
<1>11. f.op = "DELETE" /\ f.drop /\ f.at \in {"erase", "markLb", "end"} => c \notin alive'
  BY <1>0, <1>1, VThunderPoolAssumption DEF DevFlow
<1>12. ASSUME f.op = "DELETE", ~f.drop, vth'[f.lb].compute # None
       PROVE  \E m \in LBs : m # f.lb /\ vth'[m].status \notin {"NONE", "DELETED"} /\ vth'[m].compute = c
  <2>1. vth[f.lb].compute = c /\ c # None /\ Holds(q, c)
    BY <1>0, <1>1, <1>2, <1>12 DEF Holds
  <2>2. PICK m \in LBs : m # f.lb /\ HasRow(m) /\ vth[m].compute = c
    BY <1>0, <1>1, <1>2, <1>12 DEF DevFlow
  <2>3. m # x
    BY <1>3, <2>1, <2>2
  <2> QED
    BY <2>2, <2>3 DEF x, HasRow
<1>13. f.op = "DELETE" /\ hist.late = {} /\ c # None => vth'[f.lb].compute = c
  BY <1>0, <1>1, <1>2 DEF DevFlow
<1>14. ASSUME f.op = "DELETE", hist.late = {}, f.drop, NEW m \in LBs, m # f.lb, vth'[m].compute = c
       PROVE  vth'[m].status = "DELETED"
  <2>1. c # None /\ Holds(q, c)'
    BY <1>0, <1>1, <1>10, <1>13, <1>14 DEF Holds
  <2>2. m # x
    BY <1>4, <1>14, <2>1
  <2> QED
    BY <1>0, <1>1, <1>14, <2>2 DEF DevFlow, x
<1>15. f.op = "DELETE" /\ f.at = "end" => lb'[f.lb] # "ACTIVE"
  BY <1>1, <1>2 DEF DevFlow
<1>16. PICK h : h = f /\ flow'[q] = h
  OBVIOUS
<1>17. DevFlow(h)'
  <2> HIDE DEF f
  <2> QED
    BY <1>0, <1>6, <1>7, <1>8, <1>9, <1>10, <1>11, <1>12, <1>13, <1>14, <1>15, <1>16 DEF DevFlow, HasRow
<1> QED
  BY <1>16, <1>17 DEF DevFlow

\* A task that works on the device and the row of its own flow keeps what the
\* flow knows.
LEMMA OwnDevices ==
    ASSUME TypeOK, ShapeInv, DeviceInv, NEW p \in Projects, Plain(p)
    PROVE  DevFlow(flow[p])'
<1>1. PICK f : f = flow[p]
  OBVIOUS
<1>2. /\ f \in Flows /\ FlowShape(f) /\ DevFlow(f) /\ flow[p] # None /\ f.lb \in LBs
      /\ \A l \in LBs : vth'[l].compute = vth[l].compute
      /\ \A l \in LBs : l # f.lb => vth'[l] = vth[l]
      /\ used' = used /\ hist' = hist
  BY <1>1, PlainFacts DEF TypeOK, ShapeInv, DeviceInv, Flows
<1>3. ASSUME NEW t \in Tasks, flow' = [flow EXCEPT ![p].at = t],
             f.op = "CREATE" => alive \subseteq alive',
             f.op = "CREATE" /\ t \in Written => f.at \in Written,
             f.op = "CREATE" /\ t = "attach" => f.at = "attach",
             f.op = "DELETE" /\ f.drop /\ t \in {"erase", "markLb", "end"} => f.compute \notin alive',
             f.op = "DELETE" /\ t = "end" => lb'[f.lb] # "ACTIVE"
      PROVE  DevFlow(flow[p])'
  <2>1. PICK h : h = [f EXCEPT !.at = t]
    OBVIOUS
  <2>2. /\ h.op = f.op /\ h.lb = f.lb /\ h.compute = f.compute /\ h.booted = f.booted
        /\ h.drop = f.drop /\ h.at = t /\ flow'[p] = h
    BY <1>1, <1>2, <1>3, <2>1 DEF TypeOK, Flows
  <2>3. DevFlow(h)'
    BY <1>2, <1>3, <2>2 DEF DevFlow, HasRow
  <2> QED
    BY <2>2, <2>3 DEF DevFlow
<1>4. CASE MapLoadbalancerToAmphora(p)
  <2>1. PICK t \in {"validate", "boot"} : flow' = [flow EXCEPT ![p].at = t]
    BY <1>4 DEF MapLoadbalancerToAmphora, Goto
  <2> QED
    BY <1>1, <1>3, <1>4, <2>1 DEF MapLoadbalancerToAmphora, At, Written, Tasks
<1>5. CASE DeleteStaleSpareVThunder(p)
  BY <1>1, <1>3, <1>5 DEF DeleteStaleSpareVThunder, At, Goto, Written, Tasks
<1>6. CASE ActivateRow(p)
  BY <1>1, <1>3, <1>6 DEF ActivateRow, At, Goto, Written, Tasks
<1>7. CASE MarkLBActive(p)
  BY <1>1, <1>3, <1>7 DEF MarkLBActive, At, Goto, Written, Tasks
<1>8. CASE CreateVirtualServer(p)
  BY <1>1, <1>3, <1>8 DEF CreateVirtualServer, At, Goto, Written, Tasks
<1>9. CASE MarkRowPending(p)
  <2>1. PICK t \in {"apply", "tear"} : flow' = [flow EXCEPT ![p].at = t]
    BY <1>9 DEF MarkRowPending, Goto
  <2> QED
    BY <1>1, <1>3, <1>9, <2>1 DEF MarkRowPending, At, Tasks
<1>10. CASE ApplyUpdate(p)
  BY <1>1, <1>3, <1>10 DEF ApplyUpdate, At, Goto, Tasks
<1>11. CASE ActivateUpdatedRow(p)
  BY <1>1, <1>3, <1>11 DEF ActivateUpdatedRow, At, Goto, Tasks
<1>12. CASE DeleteAmphorae(p)
  BY <1>1, <1>3, <1>12 DEF DeleteAmphorae, At, Goto, Tasks
<1>13. CASE MarkRowDeleted(p)
  BY <1>1, <1>2, <1>3, <1>13 DEF MarkRowDeleted, At, Goto, Tasks, DevFlow
<1>14. CASE MarkLBDeleted(p)
  <2>1. lb'[f.lb] = "DELETED"
    BY <1>1, <1>2, <1>14 DEF MarkLBDeleted, SetLb, TypeOK
  <2> QED
    BY <1>1, <1>2, <1>3, <1>14, <2>1 DEF MarkLBDeleted, At, Goto, Tasks, DevFlow
<1> QED
  BY <1>4, <1>5, <1>6, <1>7, <1>8, <1>9, <1>10, <1>11, <1>12, <1>13, <1>14 DEF Plain

\* The load balancers p does not work on keep their device if it is not removed.
LEMMA ActiveKept ==
    ASSUME TypeOK, ShapeInv, ActiveLbHasDevice, NEW p \in Projects, FlowStep(p), hist'.late = hist.late,
           NEW x \in LBs, x = flow[p].lb, flow'[p] = None \/ flow'[p].lb = x,
           \A l \in LBs : /\ hist.late = {} /\ l # x /\ lb[l] = "ACTIVE" /\ ~BeingDeleted(l)
                          /\ vth[l].compute \in alive
                          => vth[l].compute \in alive',
           hist.late = {} /\ lb'[x] = "ACTIVE" /\ ~BeingDeleted(x)' => vth'[x].compute \in alive'
    PROVE  ActiveLbHasDevice'
<1>1. /\ flow[p] # None /\ \A q \in Projects \ {p} : flow'[q] = flow[q]
      /\ \A l \in LBs : l # x => vth'[l] = vth[l] /\ lb'[l] = lb[l]
  BY FlowFrame
<1> SUFFICES ASSUME hist.late = {}, NEW l \in LBs, l # x, lb'[l] = "ACTIVE", ~BeingDeleted(l)'
             PROVE  vth'[l].compute \in alive'
  BY DEF ActiveLbHasDevice
<1>2. ~BeingDeleted(l)
  BY <1>1 DEF BeingDeleted
<1> QED
  BY <1>1, <1>2 DEF ActiveLbHasDevice

\* A running device keeps its row, unless p works on the only one.
LEMMA OrphansKept ==
    ASSUME TypeOK, ShapeInv, NoSpares, NoOrphanDevice, NEW p \in Projects, FlowStep(p),
           NEW x \in LBs, x = flow[p].lb, alive \subseteq Computes, hist.left \subseteq hist'.left,
           \A c \in alive' \ alive : HasRow(x)' /\ vth'[x].compute = c,
           HasRow(x) /\ vth[x].compute \in alive' \ hist'.left =>
               \/ HasRow(x)' /\ vth'[x].compute = vth[x].compute
               \/ \E m \in LBs : m # x /\ HasRow(m) /\ vth[m].compute = vth[x].compute
    PROVE  NoOrphanDevice'
<1>1. \A l \in LBs : l # x => vth'[l] = vth[l]
  BY FlowFrame
<1> SUFFICES ASSUME NEW c \in alive' \ hist'.left, c \in alive
             PROVE  \E l \in LBs : HasRow(l)' /\ vth'[l].compute = c
  BY DEF NoOrphanDevice
<1>2. PICK l \in LBs : HasRow(l) /\ vth[l].compute = c
  BY DEF NoOrphanDevice, NoSpares
<1>3. CASE l = x
  BY <1>1, <1>2, <1>3 DEF HasRow
<1>4. CASE l # x
  BY <1>1, <1>2, <1>4 DEF HasRow
<1> QED
  BY <1>3, <1>4

\* A step of a flow, without a pool.
LEMMA FlowDevices ==
    ASSUME TypeOK, TypeOK', ShapeInv, LbInv, ShareInv, ShareInv', NoSpares, NoSpares', DeviceInv,
           NEW p \in Projects, FlowStep(p), ~ReadSpare(p), ~TakeSpare(p)
    PROVE  DeviceInv'
<1>1. PICK f : f = flow[p]
  OBVIOUS
<1>2. PICK x : x = f.lb
  OBVIOUS
<1>3. /\ flow[p] # None /\ \A q \in Projects \ {p} : flow'[q] = flow[q]
      /\ \A l \in LBs : l # x => vth'[l] = vth[l] /\ lb'[l] = lb[l]
      /\ UNCHANGED <<request, hk, stale>>
  BY <1>1, <1>2, FlowFrame
<1>4. /\ f \in Flows /\ FlowShape(f) /\ DevFlow(f) /\ f # None
      /\ x \in LBs /\ ProjectOf[x] = p
      /\ LbOk(x, lb[x], request[x], vth[x], f) /\ WorkOk(f, lb[x], request[x], vth[x])
      /\ f.op \in {"CREATE", "UPDATE", "DELETE"}
      /\ vth[x].compute \in Computes \cup {None} /\ f.compute \in Computes \cup {None}
  <2>1. f # None /\ f \in Flows /\ FlowShape(f) /\ DevFlow(f) /\ x \in LBs /\ ProjectOf[x] = p
    BY <1>1, <1>2, <1>3 DEF TypeOK, ShapeInv, DeviceInv, Flows
  <2>2. LbOk(x, lb[x], request[x], vth[x], f)
    BY <1>1, <2>1 DEF LbInv
  <2>3. WorkOk(f, lb[x], request[x], vth[x])
    BY <1>2, <2>1, <2>2 DEF LbOk
  <2>4. vth[x].compute \in Computes \cup {None}
    BY <2>1 DEF TypeOK
  <2> QED
    BY <2>1, <2>2, <2>3, <2>4, VThunderPoolAssumption DEF Flows
<1>5. f.op # "DELETE" => ~BeingDeleted(x)
  BY <1>1, <1>4 DEF BeingDeleted, ShapeInv
<1>6. /\ \A q \in Projects : flow[q] # None => DevFlow(flow[q])
      /\ \A l \in LBs : request[l] # None => request[l].compute \in used \cup {None}
      /\ ActiveLbHasDevice /\ NoOrphanDevice
      /\ alive \subseteq used /\ used \subseteq Computes /\ alive' \subseteq Computes
  BY DEF DeviceInv, TypeOK
\* What is left to show of a step of p.
<1>7. ASSUME hist'.late = hist.late, hist.left \subseteq hist'.left, used \subseteq used',
             hist.late = {} => \A c \in alive \ alive' : Holds(p, c),
             \A c \in alive' \ alive : c \notin used /\ HasRow(x)' /\ vth'[x].compute = c,
             flow'[p] = None \/ (flow'[p].lb = x /\ DevFlow(flow[p])'),
             \A l \in LBs : /\ hist.late = {} /\ l # x /\ lb[l] = "ACTIVE" /\ ~BeingDeleted(l)
                            /\ vth[l].compute \in alive
                            => vth[l].compute \in alive',
             hist.late = {} /\ lb'[x] = "ACTIVE" /\ ~BeingDeleted(x)' => vth'[x].compute \in alive',
             HasRow(x) /\ vth[x].compute \in alive' \ hist'.left =>
                 \/ HasRow(x)' /\ vth'[x].compute = vth[x].compute
                 \/ \E m \in LBs : m # x /\ HasRow(m) /\ vth[m].compute = vth[x].compute
      PROVE  DeviceInv'
  <2>1. ActiveLbHasDevice'
    BY <1>1, <1>2, <1>4, <1>6, <1>7, ActiveKept
  <2>2. NoOrphanDevice'
    BY <1>1, <1>2, <1>4, <1>6, <1>7, OrphansKept
  <2>3. ASSUME NEW q \in Projects, flow'[q] # None
        PROVE  DevFlow(flow[q])'
    <3>1. CASE q = p
      BY <1>7, <2>3, <3>1
    <3>2. CASE q # p
      BY <1>1, <1>2, <1>3, <1>6, <1>7, <2>3, <3>2, OthersDevices
    <3> QED
      BY <3>1, <3>2
  <2>4. \A l \in LBs : request'[l] # None => request'[l].compute \in used' \cup {None}
    BY <1>3, <1>6, <1>7
  <2> QED
    BY <2>1, <2>2, <2>3, <2>4 DEF DeviceInv
<1>8. CASE Plain(p)
  <2>1. /\ \A l \in LBs : vth'[l].compute = vth[l].compute
        /\ hist' = hist /\ used' = used /\ DevFlow(flow[p])'
    BY <1>8, PlainFacts, OwnDevices
  <2>2. PICK t \in Tasks : flow' = [flow EXCEPT ![p] = [flow[p] EXCEPT !.at = t]]
    BY <1>8, PlainFacts
  <2>3. PICK g : g = [f EXCEPT !.at = t]
    OBVIOUS
  <2>4. g \in Flows /\ g # None /\ g.lb = x /\ g.op = f.op /\ flow'[p] = g
    BY <1>1, <1>2, <1>4, <2>2, <2>3, NoneAssumption DEF TypeOK, Flows
  <2>5. f.op = "DELETE" => BeingDeleted(x)'
    BY <2>4 DEF BeingDeleted
  <2>6. f.op # "DELETE" /\ hist.late = {} /\ lb[x] = "ACTIVE" => vth[x].compute \in alive
    BY <1>4, <1>5, <1>6 DEF ActiveLbHasDevice
  <2>7. ASSUME alive' = alive, HasRow(x) => HasRow(x)',
               hist.late = {} /\ lb'[x] = "ACTIVE" /\ ~BeingDeleted(x)' => vth[x].compute \in alive
        PROVE  DeviceInv'
    BY <1>4, <1>7, <2>1, <2>4, <2>7
  <2>8. CASE MapLoadbalancerToAmphora(p) \/ DeleteStaleSpareVThunder(p)
    <3>1. lb[x] = "PENDING_CREATE" /\ lb' = lb /\ vth' = vth /\ alive' = alive
      BY <1>1, <1>4, <2>8 DEF MapLoadbalancerToAmphora, DeleteStaleSpareVThunder, At, WorkOk, Unwritten, Early
    <3> QED
      BY <2>7, <3>1 DEF HasRow
  <2>9. CASE ActivateRow(p)
    <3>1. lb[x] = "PENDING_CREATE" /\ lb' = lb /\ vth'[x].status = "ACTIVE" /\ alive' = alive
      BY <1>1, <1>2, <1>4, <2>9 DEF ActivateRow, SetRow, At, WorkOk, TypeOK
    <3> QED
      BY <2>7, <3>1 DEF HasRow
  <2>10. CASE MarkLBActive(p)
    <3>1. /\ f.op = "CREATE" /\ f.at = "markLb" /\ vth' = vth /\ alive' = alive
      BY <1>1, <2>10 DEF MarkLBActive, At
    <3>2. vth[x].compute = f.compute /\ (hist.late = {} => f.compute \in alive)
      BY <1>4, <3>1 DEF WorkOk, DevFlow, Written
    <3> QED
      BY <2>7, <3>1, <3>2 DEF HasRow
  <2>11. CASE CreateVirtualServer(p)
    <3>1. f.op = "CREATE" /\ lb' = lb /\ vth' = vth /\ alive' = alive
      BY <1>1, <2>11 DEF CreateVirtualServer, At
    <3> QED
      BY <2>6, <2>7, <3>1 DEF HasRow
  <2>12. CASE MarkRowPending(p)
    <3>1. PICK op \in {"UPDATE", "DELETE"} : MarkRow(flow[p].lb, PendingOf(op)) /\ UNCHANGED <<lb, alive>>
      BY <2>12 DEF MarkRowPending
    <3>2. HasRow(x) => HasRow(x)'
      <4>1. PendingOf(op) \notin {"NONE", "DELETED"}
        BY DEF PendingOf
      <4>2. vth[x] = NoRow => ~HasRow(x)
        BY DEF HasRow, NoRow
      <4>3. vth[x] # NoRow => vth'[x].status = PendingOf(op)
        BY <1>1, <1>2, <1>4, <3>1 DEF MarkRow, SetRow, TypeOK
      <4> QED
        BY <4>1, <4>2, <4>3 DEF HasRow
    <3> QED
      BY <2>5, <2>6, <2>7, <3>1, <3>2
  <2>13. CASE ApplyUpdate(p)
    <3>1. vth' = vth /\ alive' = alive /\ vth[x].compute \in alive
      BY <1>1, <1>2, <2>13 DEF ApplyUpdate
    <3> QED
      BY <2>7, <3>1 DEF HasRow
  <2>14. CASE ActivateUpdatedRow(p)
    <3>1. f.op = "UPDATE" /\ lb' = lb /\ alive' = alive /\ vth'[x].status = "ACTIVE"
      BY <1>1, <1>2, <1>4, <2>14 DEF ActivateUpdatedRow, SetRow, At, TypeOK
    <3> QED
      BY <2>6, <2>7, <3>1 DEF HasRow
  <2>15. CASE DeleteAmphorae(p)
    <3>1. /\ f.op = "DELETE" /\ lb' = lb /\ vth' = vth
          /\ alive' = IF f.drop THEN alive \ {f.compute} ELSE alive
      BY <1>1, <2>15 DEF DeleteAmphorae, At
    <3>2. HasRow(x) => HasRow(x)'
      BY <3>1 DEF HasRow
    <3>3. ASSUME f.drop, hist.late = {}
          PROVE  f.compute \in Computes /\ vth[x].compute = f.compute /\ Holds(p, f.compute)
      BY <1>2, <1>4, <3>1, <3>3 DEF DevFlow, Holds
    <3>4. ASSUME f.drop, hist.late = {}, NEW l \in LBs, l # x, lb[l] = "ACTIVE", ~BeingDeleted(l),
                 vth[l].compute = f.compute
          PROVE  FALSE
      <4> DEFINE q == ProjectOf[l]
      <4>1. vth[l].status = "DELETED" /\ q \in Projects
        BY <1>2, <1>4, <3>1, <3>4, VThunderPoolAssumption DEF DevFlow
      <4>2. q = p
        BY <3>3, <3>4, <4>1, OneOwner DEF Holds
      <4>3. LbOk(l, lb[l], request[l], vth[l], flow[q])
        BY DEF LbInv
      <4> QED
        BY <1>1, <1>2, <3>4, <4>1, <4>2, <4>3 DEF LbOk
    <3>5. hist.late = {} => \A c \in alive \ alive' : Holds(p, c)
      BY <3>1, <3>3
    <3>6. \A l \in LBs : /\ hist.late = {} /\ l # x /\ lb[l] = "ACTIVE" /\ ~BeingDeleted(l)
                         /\ vth[l].compute \in alive
                         => vth[l].compute \in alive'
      BY <3>1, <3>4
    <3>7. alive' \subseteq alive
      BY <3>1
    <3> QED
      BY <1>7, <2>1, <2>4, <2>5, <3>1, <3>2, <3>5, <3>6, <3>7
  <2>16. CASE MarkRowDeleted(p)
    <3>1. f.op = "DELETE" /\ f.at = "erase" /\ lb' = lb /\ alive' = alive
      BY <1>1, <2>16 DEF MarkRowDeleted, At
    <3>2. ASSUME HasRow(x), vth[x].compute \in alive
          PROVE  \E m \in LBs : m # x /\ HasRow(m) /\ vth[m].compute = vth[x].compute
      <4>1. vth[x].compute = f.compute /\ f.compute # None
        BY <1>4, <1>6, <3>1, <3>2, VThunderPoolAssumption DEF WorkOk
      <4> QED
        BY <1>2, <1>4, <3>1, <3>2, <4>1 DEF DevFlow
    <3> QED
      BY <1>7, <2>1, <2>4, <2>5, <3>1, <3>2
  <2>17. CASE MarkLBDeleted(p)
    <3>1. f.op = "DELETE" /\ vth' = vth /\ alive' = alive
      BY <1>1, <2>17 DEF MarkLBDeleted, At
    <3> QED
      BY <2>5, <2>7, <3>1 DEF HasRow
  <2> QED
    BY <1>8, <2>8, <2>9, <2>10, <2>11, <2>12, <2>13, <2>14, <2>15, <2>16, <2>17 DEF Plain
<1>9. CASE ValidateComputeForProject(p)
  <2>1. /\ f.op = "CREATE" /\ f.at = "validate" /\ f.compute = None /\ ~f.booted
        /\ vth[x] = NoRow /\ UNCHANGED <<lb, vth, alive, used, hist>>
    BY <1>1, <1>4, <1>9 DEF ValidateComputeForProject, At, FlowShape, WorkOk, Early, Unwritten
  <2>2. ASSUME NEW g \in Flows, flow'[p] = g, g.lb = x, DevFlow(g)'
        PROVE  DeviceInv'
    <3>1. DevFlow(flow[p])'
      BY <2>2 DEF DevFlow
    <3>2. HasRow(x) => HasRow(x)'
      BY <2>1 DEF HasRow
    <3>3. hist.late = {} /\ lb'[x] = "ACTIVE" => vth'[x].compute \in alive'
      BY <1>4, <1>5, <1>6, <2>1 DEF ActiveLbHasDevice
    <3> QED
      BY <1>7, <2>1, <2>2, <3>1, <3>2, <3>3
  <2>3. CASE flow' = [flow EXCEPT ![p].at = "claim"]
    <3>1. PICK g : g = [f EXCEPT !.at = "claim"]
      OBVIOUS
    <3>2. /\ g \in Flows /\ flow'[p] = g /\ g.lb = x /\ g.op = "CREATE" /\ g.at = "claim"
          /\ g.compute = None /\ ~g.booted
      BY <1>1, <1>2, <1>4, <2>1, <2>3, <3>1 DEF TypeOK, Flows, Tasks
    <3>3. DevFlow(g)'
      BY <2>1, <3>2 DEF DevFlow, Written
    <3> QED
      BY <2>2, <3>2, <3>3
  <2>4. ASSUME NEW c \in ProjectComputes(p), flow' = [flow EXCEPT ![p].compute = c, ![p].at = "attach"]
        PROVE  DeviceInv'
    <3>1. PICK m \in LBs : ProjectOf[m] = p /\ vth[m].status = "ACTIVE" /\ vth[m].compute = c
      BY DEF ProjectComputes
    <3>2. LbOk(m, lb[m], request[m], vth[m], flow[ProjectOf[m]]) /\ c \in Computes \cup {None}
      BY <3>1 DEF LbInv, TypeOK
    <3>3. c \in Computes
      BY <3>1, <3>2 DEF LbOk, NoRow
    <3>4. c \in used /\ m # x
      BY <2>1, <3>1, <3>3 DEF ShareInv, ShareOk, Holds, NoRow
    <3>5. PICK g : g = [f EXCEPT !.compute = c, !.at = "attach"]
      OBVIOUS
    <3>6. /\ g \in Flows /\ flow'[p] = g /\ g.lb = x /\ g.op = "CREATE" /\ g.at = "attach"
          /\ g.compute = c /\ ~g.booted
      BY <1>1, <1>2, <1>4, <2>1, <2>4, <3>3, <3>5 DEF TypeOK, Flows, Tasks
    <3>7. DevFlow(g)'
      BY <2>1, <3>1, <3>4, <3>6 DEF DevFlow, Written
    <3> QED
      BY <2>2, <3>6, <3>7
  <2> QED
    BY <1>9, <2>3, <2>4 DEF ValidateComputeForProject, Goto
<1>10. CASE AttachCompute(p)
  <2>1. /\ f.op = "CREATE" /\ f.at = "attach" /\ f.compute \in alive /\ ~f.booted
        /\ lb[x] = "PENDING_CREATE" /\ vth[x] = NoRow /\ UNCHANGED <<lb, alive, used, hist>>
    BY <1>1, <1>4, <1>10 DEF AttachCompute, At, FlowShape, WorkOk, Unwritten
  <2>2. PICK g : g = [f EXCEPT !.at = "unspare"]
    OBVIOUS
  <2>3. /\ g \in Flows /\ flow'[p] = g /\ g.lb = x /\ g.op = "CREATE" /\ g.at = "unspare"
        /\ g.compute = f.compute /\ ~g.booted
    BY <1>1, <1>2, <1>4, <1>10, <2>1, <2>2 DEF AttachCompute, Goto, TypeOK, Flows, Tasks
  <2>4. DevFlow(g)'
    BY <1>2, <1>3, <1>4, <2>1, <2>3 DEF DevFlow, Written
  <2>5. DevFlow(flow[p])'
    BY <2>3, <2>4 DEF DevFlow
  <2>6. ~HasRow(x)
    BY <2>1 DEF HasRow, NoRow
  <2> QED
    BY <1>7, <2>1, <2>3, <2>5, <2>6
<1>11. CASE BootCompute(p)
  <2>1. PICK c \in Computes \ used :
            /\ alive' = alive \cup {c} /\ used' = used \cup {c}
            /\ vth' = [vth EXCEPT ![flow[p].lb] = [status |-> "PENDING_CREATE", compute |-> c]]
            /\ flow' = [flow EXCEPT ![p].compute = c, ![p].booted = TRUE, ![p].at = "activate"]
    BY <1>11 DEF BootCompute
  <2>2. /\ f.op = "CREATE" /\ lb[x] = "PENDING_CREATE" /\ vth[x] = NoRow /\ UNCHANGED <<lb, hist>>
    BY <1>1, <1>4, <1>11 DEF BootCompute, At, WorkOk, Unwritten, Early
  <2>3. PICK g : g = [f EXCEPT !.compute = c, !.booted = TRUE, !.at = "activate"]
    OBVIOUS
  <2>4. /\ g \in Flows /\ flow'[p] = g /\ g.lb = x /\ g.op = "CREATE" /\ g.at = "activate"
        /\ g.compute = c /\ g.booted
    BY <1>1, <1>2, <1>4, <2>1, <2>2, <2>3 DEF TypeOK, Flows, Tasks
  <2>5. vth'[x] = [status |-> "PENDING_CREATE", compute |-> c]
    BY <1>1, <1>2, <1>4, <2>1 DEF TypeOK
  <2>6. \A m \in LBs : vth[m].compute # c
    BY VThunderPoolAssumption DEF ShareInv, ShareOk, Holds
  <2>7. DevFlow(g)'
    BY <1>3, <2>1, <2>4, <2>6 DEF DevFlow
  <2>8. DevFlow(flow[p])'
    BY <2>4, <2>7 DEF DevFlow
  <2>9. ~HasRow(x) /\ HasRow(x)' /\ vth'[x].compute = c
    BY <2>2, <2>5 DEF HasRow, NoRow
  <2> QED
    BY <1>7, <2>1, <2>2, <2>4, <2>8, <2>9
<1>12. CASE EndFlow(p)
  <2>1. /\ f.at = "end" /\ flow'[p] = None /\ UNCHANGED <<lb, vth, alive, used, hist>>
    BY <1>1, <1>12 DEF EndFlow, TypeOK
  <2>2. HasRow(x) => HasRow(x)'
    BY <2>1 DEF HasRow
  <2>3. f.op = "DELETE" => lb[x] # "ACTIVE"
    BY <1>2, <1>4, <2>1 DEF DevFlow
  <2>4. hist.late = {} /\ lb[x] = "ACTIVE" => vth[x].compute \in alive
    BY <1>4, <1>5, <1>6, <2>3 DEF ActiveLbHasDevice
  <2> QED
    BY <1>7, <2>1, <2>2, <2>4
<1>13. CASE FailFlow(p)
  <2>1. /\ flow' = [flow EXCEPT ![p] = None] /\ lb' = [lb EXCEPT ![x] = "ERROR"]
        /\ vth' = IF f.op = "CREATE" /\ f.at \notin {"map", "validate", "claim", "take"}
                  THEN [vth EXCEPT ![x] = NoRow] ELSE vth
        /\ \A c \in alive \ alive' : f.booted /\ c = f.compute
        /\ alive' \subseteq alive
        /\ f.booted /\ f.compute \in alive' => f.compute \in hist'.left
        /\ used' = used /\ hist'.late = hist.late /\ hist.left \subseteq hist'.left
    BY <1>1, <1>2, <1>13, FailFacts
  <2>2. flow'[p] = None /\ lb'[x] = "ERROR"
    BY <1>1, <1>3, <1>4, <2>1 DEF NoSpares, TypeOK
  <2>3. ASSUME f.booted
        PROVE  /\ f.op = "CREATE" /\ f.compute # None /\ Holds(p, f.compute)
               /\ \A m \in LBs : vth[m].compute = f.compute => m = x
    BY <1>1, <1>2, <1>3, <1>4, <2>3 DEF DevFlow, Holds, FlowShape, Early
  <2>4. ASSUME HasRow(x), vth[x].compute \in alive' \ hist'.left, f.op = "CREATE",
               f.at \notin {"map", "validate", "claim", "take"}
        PROVE  \E m \in LBs : m # x /\ HasRow(m) /\ vth[m].compute = vth[x].compute
    <3>1. f.at \in Written
      BY <1>4, <2>4 DEF FlowShape, WorkOk, HasRow, NoRow
    <3>2. vth[x].compute = f.compute /\ ~f.booted
      BY <1>4, <2>1, <2>4, <3>1 DEF WorkOk
    <3> QED
      BY <1>2, <1>4, <2>4, <3>1, <3>2 DEF DevFlow, HasRow
  <2>5. vth' = vth => (HasRow(x) => HasRow(x)')
    BY DEF HasRow
  <2> QED
    BY <1>4, <1>7, <2>1, <2>2, <2>3, <2>4, <2>5
<1> QED
  BY <1>8, <1>9, <1>10, <1>11, <1>12, <1>13, FlowKinds

LEMMA NextDevices ==
    ASSUME PoolSize = 0, TypeOK, TypeOK', ShapeInv, LbInv, ShareInv, ShareInv', NoSpares, DeviceInv,
           [Next]_vars
    PROVE  NoSpares' /\ DeviceInv'
<1>1. NoSpares'
  BY NextNoSpares
<1>2. CASE UNCHANGED vars
  <2>1. UNCHANGED <<lb, request, vth, spare, alive, used, flow, hist>>
    BY <1>2 DEF vars
  <2>2. ASSUME NEW p \in Projects, flow'[p] # None
        PROVE  DevFlow(flow[p])'
    BY <2>1, <2>2 DEF DeviceInv, DevFlow, HasRow
  <2>3. ActiveLbHasDevice' /\ NoOrphanDevice'
    BY <2>1 DEF DeviceInv, ActiveLbHasDevice, NoOrphanDevice, BeingDeleted, HasRow
  <2> QED
    BY <1>1, <2>1, <2>2, <2>3 DEF DeviceInv
<1>3. ASSUME NEW l \in LBs,
             (\E op \in Ops : ApiRequest(l, op)) \/ ReadRow(l) \/ BeginFlow(l) \/ BusyTimeout(l)
      PROVE  DeviceInv'
  BY <1>3, RequestDevices
<1>4. ASSUME NEW p \in Projects, FlowStep(p), ~ReadSpare(p), ~TakeSpare(p)
      PROVE  DeviceInv'
  BY <1>1, <1>4, FlowDevices
<1>5. \/ UNCHANGED vars
      \/ \E l \in LBs : (\E op \in Ops : ApiRequest(l, op)) \/ ReadRow(l) \/ BeginFlow(l) \/ BusyTimeout(l)
      \/ \E p \in Projects : FlowStep(p) /\ ~ReadSpare(p) /\ ~TakeSpare(p)
  BY NextNoSpares
<1> QED
  BY <1>1, <1>2, <1>3, <1>4, <1>5

-----------------------------------------------------------------------------
(* What holds of every behaviour.                                          *)

\* The invariant of any pool, and of none.
PoolIInv == TypeOK /\ ShapeInv /\ SpareInv /\ PoolInv /\ LbInv /\ BootInv /\ ShareInv
DeviceIInv == TypeOK /\ ShapeInv /\ SpareInv /\ PoolInv /\ LbInv /\ ShareInv /\ NoSpares /\ DeviceInv

LEMMA InitAll == Init => PoolIInv /\ DeviceIInv
<1> SUFFICES ASSUME Init PROVE PoolIInv /\ DeviceIInv
  OBVIOUS
<1>1. BootInv
  BY DEF Init, BootInv, At
<1> QED
  BY <1>1, InitShape, InitSpares, InitLbs, InitShares, InitDevices DEF PoolIInv, DeviceIInv

LEMMA NextAll == PoolIInv /\ [Next]_vars => PoolIInv'
BY NextTypes, NextSpares, NextLbs, NextBoots, NextShares, LbRows DEF PoolIInv

LEMMA NextAllDevices == PoolSize = 0 /\ DeviceIInv /\ [Next]_vars => DeviceIInv'
BY NextTypes, NextSpares, NextLbs, NextShares, NextDevices, LbRows DEF DeviceIInv

\* Every variable keeps to its type: the tasks of the flows, the counts of the
\* housekeeper and the rows of vthunders.
THEOREM TypeCorrect == Spec => []TypeOK
<1>1. PoolIInv => TypeOK
  BY DEF PoolIInv
<1> QED
  BY <1>1, InitAll, NextAll, PTL DEF Spec

\* spare_check creates no spare too many, whatever size the pool has, however
\* many flows claim spares and fail and the health manager removes: the pool
\* exceeds its size at most by the claims reverted between the two counts.
THEOREM PoolKept == Spec => []PoolNotOverfilled
<1>1. ASSUME PoolIInv PROVE PoolNotOverfilled
  <2>1. TypeOK /\ PoolInv
    BY <1>1 DEF PoolIInv
  <2>2. hist.missed \in SUBSET Computes /\ hk.making \in SUBSET Computes /\ hk.todo \in Nat /\ PoolSize \in Nat
    BY <2>1, VThunderPoolAssumption DEF TypeOK
  <2>3. InPool \in SUBSET Computes
    BY DEF InPool
  <2> DEFINE a == Cardinality(InPool \ hist.missed)
             b == Cardinality(hist.missed)
  <2>4. a \in Nat /\ b \in Nat /\ Cardinality(hk.making) \in Nat /\ Cardinality(InPool) \in Nat
    BY <2>2, <2>3, Counts
  <2>5. Cardinality(InPool) <= a + b
    <3> DEFINE u == (InPool \ hist.missed) \cup hist.missed
    <3>1. u \in SUBSET Computes /\ InPool \in SUBSET u
      BY <2>2, <2>3
    <3>2. IsFiniteSet(u) /\ Cardinality(u) \in Nat
      BY <3>1, Counts
    <3>3. Cardinality(InPool) <= Cardinality(u)
      BY <3>1, <3>2, FS_Subset
    <3>4. Cardinality(u) = a + b - Cardinality((InPool \ hist.missed) \cap hist.missed)
      <4>1. IsFiniteSet(InPool \ hist.missed) /\ IsFiniteSet(hist.missed)
        BY <2>2, <2>3, Counts
      <4> QED
        BY <4>1, FS_Union
    <3>5. (InPool \ hist.missed) \cap hist.missed = {}
      OBVIOUS
    <3>6. Cardinality((InPool \ hist.missed) \cap hist.missed) = 0
      BY <3>5, FS_EmptySet
    <3> HIDE DEF u
    <3> QED
      BY <2>4, <3>2, <3>3, <3>4, <3>6
  <2>6. a + Cardinality(hk.making) + hk.todo <= PoolSize
    BY <2>1 DEF PoolInv
  <2>7. Cardinality(InPool) <= PoolSize + b
    <3> HIDE DEF a, b
    <3> QED
      BY <2>2, <2>4, <2>5, <2>6
  <2> QED
    BY <2>7 DEF PoolNotOverfilled, InPool
<1> QED
  BY <1>1, InitAll, NextAll, PTL DEF Spec

\* Two projects never share a device but a spare that was raced for: claimed
\* by one flow after another had, or given back by a flow that was too late.
THEOREM SharingWasRaced == Spec => []SharedSparesWereRaced
<1>1. ASSUME PoolIInv PROVE SharedSparesWereRaced
  <2> SUFFICES ASSUME NEW l \in LBs, NEW m \in LBs, HasRow(l), HasRow(m),
                      vth[l].compute = vth[m].compute, vth[l].compute \notin hist.raced
               PROVE  ProjectOf[l] = ProjectOf[m]
    BY DEF SharedSparesWereRaced
  <2>1. ProjectOf[l] \in Projects /\ ProjectOf[m] \in Projects
    BY VThunderPoolAssumption
  <2>2. vth[l].compute \in Computes \cup {None} /\ LbOk(l, lb[l], request[l], vth[l], flow[ProjectOf[l]])
    BY <1>1 DEF PoolIInv, TypeOK, LbInv
  <2>3. vth[l].compute \in Computes
    BY <2>2 DEF LbOk, HasRow, NoRow
  <2>4. Owned(vth[l].compute)
    BY <1>1, <2>3 DEF PoolIInv, ShareInv, ShareOk
  <2> QED
    BY <2>1, <2>4 DEF Owned, Holds
<1> QED
  BY <1>1, InitAll, NextAll, PTL DEF Spec

\* A create flow boots a compute only for a project without an ACTIVE load
\* balancer, as MapLoadbalancerToAmphora has found: a tenant that is served
\* gets no second vThunder.
THEOREM BootsOnly == Spec => BootsOnlyWithoutActiveLb
<1> DEFINE Boots == \A p \in Projects : BootCompute(p) =>
                        \A l \in LBs : ProjectOf[l] = p => lb[l] # "ACTIVE"
<1>1. PoolIInv => Boots
  BY BootsAlone DEF PoolIInv
<1>2. PoolIInv /\ [Next]_vars => [Boots]_vars
  BY <1>1
<1> HIDE DEF Boots
<1>3. Spec => [][Boots]_vars
  BY <1>2, InitAll, NextAll, PTL DEF Spec
<1> QED
  BY <1>3 DEF Boots, BootsOnlyWithoutActiveLb

\* Without a pool of spares, no deletion, in any order and with any failures,
\* takes the device of an ACTIVE load balancer away, unless one began whose
\* own row was gone (get_delete_compute_flag).
THEOREM DevicesKept == ASSUME PoolSize = 0 PROVE Spec => []ActiveLbHasDevice
<1>1. DeviceIInv => ActiveLbHasDevice
  BY DEF DeviceIInv, DeviceInv
<1>2. DeviceIInv /\ [Next]_vars => DeviceIInv'
  BY NextAllDevices
<1> QED
  BY <1>1, <1>2, InitAll, PTL DEF Spec

\* Without a pool of spares, no flow leaves a running compute without a row:
\* ComputeCreate is reverted and the last load balancer deletes its device; but
\* for a compute that Nova did not delete for the revert.
THEOREM NoDeviceLeft == ASSUME PoolSize = 0 PROVE Spec => []NoOrphanDevice
<1>1. DeviceIInv => NoOrphanDevice
  BY DEF DeviceIInv, DeviceInv
<1>2. DeviceIInv /\ [Next]_vars => DeviceIInv'
  BY NextAllDevices
<1> QED
  BY <1>1, <1>2, InitAll, PTL DEF Spec
=============================================================================

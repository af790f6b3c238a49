-------------------------- MODULE WriteMemoryProofs --------------------------
(***************************************************************************)
(* Proofs about WriteMemory, for any load balancers and threads: the types *)
(* of the state, that every change that is not saved, and every loss that  *)
(* the check can see, is found by a later pass of the housekeeper, and     *)
(* that a pass leaves alone what a request is at work on, apart from the   *)
(* races the history variables name.                                       *)
(***************************************************************************)
EXTENDS WriteMemory, TLAPS

(* A flow works on one load balancer, with the number of its request.      *)
FlowInv ==
    \A t \in Threads :
        \/ flow[t] = Idle
        \/ /\ flow[t].op \in Ops /\ flow[t].lb \in LBs /\ flow[t].step # "idle"
           /\ flow[t].nr \in 1..asked[flow[t].lb]

(* A pass saves through one load balancer; it holds what it read ACTIVE.   *)
PassInv ==
    /\ hk.step # "idle" => hk.rep \in LBs
    /\ hk.step \in {"idle", "check", "read"} => hk.held = {}

-----------------------------------------------------------------------------
LEMMA RestingType == Resting \in Passes /\ NoRow \in Rows /\ Idle \in Flows
<1>1. [l \in LBs |-> 0] \in [LBs -> Times]
  BY BoundAssumption DEF Times
<1> QED
  BY <1>1, BoundAssumption DEF Resting, Passes, NoRow, Rows, Idle, Flows, Times

LEMMA InitTypeOK == Init => TypeOK
BY RestingType, BoundAssumption DEF Init, TypeOK, Times

(* Where a flow goes next.                                                 *)
LEMMA AfterType ==
    ASSUME NEW f \in Flows
    PROVE  /\ [f EXCEPT !.step = After(f.op, f.step)] \in Flows
           /\ [f EXCEPT !.step = "reload"] \in Flows
           /\ [f EXCEPT !.step = IF f.op = "create" THEN "active" ELSE "change"] \in Flows
BY DEF Flows, After

LEMMA GoType ==
    ASSUME TypeOK, NEW t \in Threads, Go(t)
    PROVE  flow' \in [Threads -> Flows]
BY AfterType DEF TypeOK, Go

LEMMA StampedType ==
    ASSUME TypeOK
    PROVE  Stamped(clock) \in [LBs -> Rows]
BY DEF TypeOK, Stamped, Rows

LEMMA ChangeType ==
    ASSUME TypeOK, FlowInv, NEW t \in Threads, flow[t].step # "idle"
    PROVE  Change(t) \in Changes /\ flow[t].lb \in LBs /\ flow[t].nr \in 1..asked[flow[t].lb]
<1>1. /\ flow[t].lb \in LBs /\ flow[t].nr \in 1..asked[flow[t].lb]
  BY DEF FlowInv, Idle
<1>2. asked[flow[t].lb] \in 0..MaxChanges
  BY <1>1 DEF TypeOK
<1> QED
  BY <1>1, <1>2, BoundAssumption DEF Change, Changes

LEMMA TypeWorker ==
    ASSUME TypeOK, FlowInv, NEW t \in Threads, Worker(t)
    PROVE  TypeOK'
<1> USE BoundAssumption DEF device, hist
<1>1. flow[t] \in Flows /\ clock \in Times
  BY DEF TypeOK
<1>2. ASSUME NEW l \in LBs, CreateLb(t, l) \/ UpdateListener(t, l) \/ DeleteLb(t, l)
      PROVE  TypeOK'
  <2>1. PICK op \in Ops, step \in {"row", "change"} : Request(t, op, l, step)
    BY <1>2 DEF CreateLb, UpdateListener, DeleteLb, Ops
  <2>2. asked[l] + 1 \in 0..MaxChanges
    BY <2>1 DEF Request, TypeOK
  <2>3. [op |-> op, lb |-> l, nr |-> asked[l] + 1, step |-> step] \in Flows
    BY <2>2 DEF Flows
  <2> QED
    BY <2>1, <2>2, <2>3 DEF Request, TypeOK
<1>3. CASE CreateVThunderEntry(t)
  <2>1. flow[t].lb \in LBs => [status |-> "ACTIVE", updated |-> clock, written |-> 0] \in Rows
    BY <1>1 DEF Rows, Times
  <2> QED
    BY <1>3, <2>1, GoType DEF CreateVThunderEntry, TypeOK
<1>4. CASE MarkPendingDelete(t) \/ MarkVThunderDeleted(t)
  <2>1. PICK status \in {"PENDING_DELETE", "DELETED"} : MarkVThunderStatus(t, status)
    BY <1>4 DEF MarkPendingDelete, MarkVThunderDeleted
  <2>2. row' \in [LBs -> Rows]
    BY <2>1, <1>1 DEF MarkVThunderStatus, TypeOK, Rows
  <2>3. flow[t].lb \in LBs
    BY <1>4, ChangeType DEF MarkPendingDelete, MarkVThunderDeleted, At
  <2> QED
    BY <2>1, <2>2, <2>3, GoType DEF MarkVThunderStatus, TypeOK, Hidden
<1>5. CASE PostNetworkPlug(t)
  BY <1>5, <1>1, StampedType, AfterType DEF PostNetworkPlug, UpdateLastWriteMem, TypeOK
<1>6. CASE ReloadReboot(t)
  BY <1>6, <1>1, AfterType DEF ReloadReboot, TypeOK
<1>7. CASE ChangeDevice(t)
  <2>1. Change(t) \in Changes
    BY <1>7, ChangeType DEF ChangeDevice, At
  <2> QED
    BY <1>7, <2>1, GoType DEF ChangeDevice, TypeOK
<1>8. CASE MarkLBActive(t) \/ MarkLBDeleted(t)
  BY <1>8, GoType DEF MarkLBActive, MarkLBDeleted, MarkLB, TypeOK
<1>9. CASE SetThunderUpdatedAt(t)
  <2>1. Change(t) \in Changes /\ flow[t].lb \in LBs
    BY <1>9, ChangeType DEF SetThunderUpdatedAt, At
  <2>2. row' \in [LBs -> Rows]
    BY <1>9, <1>1 DEF SetThunderUpdatedAt, TypeOK, Rows
  <2> QED
    BY <1>9, <2>1, <2>2, RestingType DEF SetThunderUpdatedAt, TypeOK, Hidden
<1>10. CASE FailFlow(t)
  <2>1. flow[t].lb \in LBs
    BY <1>10 DEF FailFlow, FlowInv
  <2>2. RevertedStatus(flow[t].op) \in {"ACTIVE", "ERROR"}
    BY DEF RevertedStatus
  <2> QED
    BY <1>10, <2>1, <2>2, RestingType DEF FailFlow, TypeOK
<1> QED
  BY <1>2, <1>3, <1>4, <1>5, <1>6, <1>7, <1>8, <1>9, <1>10 DEF Worker

LEMMA TypeHousekeeper ==
    ASSUME TypeOK, PassInv, Housekeeper
    PROVE  TypeOK'
<1> USE DEF device, hist, Pass
<1>1. hk \in Passes /\ Resting \in Passes
  BY RestingType DEF TypeOK
<1>2. ASSUME NEW l \in LBs, PerformMemoryWrites(l)
      PROVE  TypeOK'
  <2>1. /\ [m \in LBs |-> IF m \in Checked THEN row[m].updated ELSE 0] \in [LBs -> Times]
        /\ Checked \subseteq LBs
    BY BoundAssumption DEF TypeOK, Rows, Times, Checked
  <2>2. hk' \in Passes
    BY <1>1, <1>2, <2>1 DEF PerformMemoryWrites, Passes
  <2> QED
    BY <1>2, <2>2 DEF PerformMemoryWrites, TypeOK
<1>3. ASSUME NEW l \in LBs, CheckActive(l)
      PROVE  TypeOK'
  <2>1. [hk.snap EXCEPT ![l] = 0] \in [LBs -> Times]
    BY <1>1, BoundAssumption DEF Passes, Times
  <2>2. hk' \in Passes
    BY <1>1, <1>3, <2>1 DEF CheckActive, Passes
  <2> QED
    BY <1>3, <2>2 DEF CheckActive, TypeOK
<1>4. ASSUME NEW answers \in BOOLEAN, StatusCheck(answers)
      PROVE  TypeOK'
  <2>1. [l \in LBs |-> IF l \in hk.check THEN hk.snap[l] ELSE 0] \in [LBs -> Times]
    BY <1>1, BoundAssumption DEF Passes, Times
  <2>2. hk' \in Passes
    BY <1>1, <1>4, <2>1 DEF StatusCheck, Passes
  <2> QED
    BY <1>1, <1>4, <2>2 DEF StatusCheck, TypeOK, Passes
<1>5. CASE PerformWriteMemory
  <2>1. hk' \in Passes
    BY <1>1, <1>5 DEF PerformWriteMemory, Passes, DeleteCompute
  <2> QED
    BY <1>5, <2>1 DEF PerformWriteMemory, TypeOK
<1>6. CASE GetActiveLoadBalancers
  <2>1. Active(hk.rep) \subseteq LBs
    BY <1>1, <1>6 DEF Active, Passes, PassInv, GetActiveLoadBalancers
  <2>2. hk' \in Passes
    BY <1>1, <1>6, <2>1 DEF GetActiveLoadBalancers, Passes
  <2> QED
    BY <1>6, <2>2 DEF GetActiveLoadBalancers, TypeOK
<1>7. CASE MarkPendingUpdate
  <2>1. hk' \in Passes
    BY <1>1, <1>7 DEF MarkPendingUpdate, Passes
  <2> QED
    BY <1>7, <2>1 DEF MarkPendingUpdate, MarkHeld, TypeOK
<1>8. CASE WriteMemory
  <2>1. hk' \in Passes
    BY <1>1, <1>8 DEF WriteMemory, NextWrite, Passes
  <2> QED
    BY <1>8, <2>1 DEF WriteMemory, TypeOK
<1>9. CASE WriteFails
  <2>1. hk' \in Passes
    BY <1>1, <1>9 DEF WriteFails, NextWrite, Passes
  <2> QED
    BY <1>9, <2>1 DEF WriteFails, MarkHeld, TypeOK
<1>10. CASE WriteAborts
  BY <1>10, <1>1 DEF WriteAborts, TypeOK
<1>11. CASE SetThunderLastWriteMem
  <2>1. hk' \in Passes
    BY <1>1, <1>11 DEF SetThunderLastWriteMem, Passes
  <2> QED
    BY <1>11, <2>1, StampedType DEF SetThunderLastWriteMem, UpdateLastWriteMem, TypeOK
<1>12. CASE MarkActive
  BY <1>12, <1>1 DEF MarkActive, MarkHeld, TypeOK
<1> QED
  BY <1>2, <1>3, <1>4, <1>5, <1>6, <1>7, <1>8, <1>9, <1>10, <1>11, <1>12 DEF Housekeeper

LEMMA TypeStep == TypeOK /\ FlowInv /\ PassInv /\ [Next]_vars => TypeOK'
<1> SUFFICES ASSUME TypeOK, FlowInv, PassInv, [Next]_vars PROVE TypeOK'
  OBVIOUS
<1>1. CASE Restart
  BY <1>1 DEF Restart, TypeOK
<1>2. CASE Tick
  BY <1>2, BoundAssumption DEF Tick, TypeOK, Times, device, hist
<1>3. CASE UNCHANGED vars
  BY <1>3 DEF vars, device, hist, TypeOK
<1> QED
  BY <1>1, <1>2, <1>3, TypeWorker, TypeHousekeeper DEF Next

-----------------------------------------------------------------------------
(* The requests of a load balancer are numbered: no two flows share one,   *)
(* and none that stored its time is at work.                               *)
FreshInv ==
    /\ \A t \in Threads : flow[t] # Idle => Change(t) \notin due
    /\ \A t, u \in Threads :
          t # u /\ flow[t] # Idle /\ flow[u] # Idle => Change(t) # Change(u)
    /\ \A c \in due : c[2] <= asked[c[1]]

(* A creation is the first request and, while it is at work, the only one. *)
CreationInv ==
    /\ \A l \in LBs : lb[l] = "NEW" => asked[l] = 0
    /\ \A t \in Threads : flow[t].op = "create" => asked[flow[t].lb] = 1

NumbersInv == FlowInv /\ PassInv /\ FreshInv /\ CreationInv

(* What a step of the worker does to its flow.                             *)
Moves(t) ==
    /\ flow[t] # Idle /\ asked' = asked /\ due' = due
    /\ \E s \in {"active", "change", "drop", "gone", "stamp", "reload"} :
          flow' = [flow EXCEPT ![t].step = s]
Ends(t) ==
    /\ flow[t] # Idle /\ asked' = asked /\ due' \subseteq due \cup {Change(t)}
    /\ flow' = [flow EXCEPT ![t] = Idle]
Begins(t) ==
    \E op \in Ops, l \in LBs, step \in {"row", "change"} :
        Request(t, op, l, step) /\ (op = "create" => lb[l] = "NEW")

LEMMA AfterSteps ==
    \A op, step : After(op, step) \in {"active", "change", "drop", "gone", "stamp", "reload"}
BY DEF After

LEMMA GoMoves ==
    ASSUME NEW t \in Threads, flow[t].step # "idle", Go(t), asked' = asked, due' = due
    PROVE  Moves(t)
<1>1. flow[t] # Idle
  BY DEF Idle
<1>2. After(flow[t].op, flow[t].step) \in {"active", "change", "drop", "gone", "stamp", "reload"}
  BY AfterSteps
<1> QED
  BY <1>1, <1>2 DEF Go, Moves

LEMMA WorkerSteps ==
    ASSUME TypeOK, NEW t \in Threads, Worker(t)
    PROVE  /\ Begins(t) \/ Moves(t) \/ Ends(t)
           /\ UNCHANGED hk
           /\ \A l \in LBs : lb'[l] = "NEW" => lb[l] = "NEW"
<1> USE AfterSteps DEF device, hist
<1>1. ASSUME NEW l \in LBs, CreateLb(t, l) \/ UpdateListener(t, l) \/ DeleteLb(t, l)
      PROVE  Begins(t) /\ UNCHANGED hk /\ lb' = [lb EXCEPT ![l] = "PENDING"]
  BY <1>1 DEF CreateLb, UpdateListener, DeleteLb, Begins, Request, Ops
<1>2. ASSUME NEW l \in LBs, CreateLb(t, l) \/ UpdateListener(t, l) \/ DeleteLb(t, l)
      PROVE  Begins(t) /\ UNCHANGED hk /\ \A m \in LBs : lb'[m] = "NEW" => lb[m] = "NEW"
  BY <1>1, <1>2 DEF TypeOK
<1>3. CASE CreateVThunderEntry(t)
  BY <1>3, GoMoves DEF CreateVThunderEntry, At
<1>4. CASE MarkPendingDelete(t) \/ MarkVThunderDeleted(t)
  BY <1>4, GoMoves DEF MarkPendingDelete, MarkVThunderDeleted, MarkVThunderStatus, At
<1>5. CASE PostNetworkPlug(t)
  <2>1. flow[t] # Idle
    BY <1>5 DEF PostNetworkPlug, Idle
  <2> QED
    BY <1>5, <2>1 DEF PostNetworkPlug, Moves
<1>6. CASE ReloadReboot(t)
  <2>1. flow[t] # Idle
    BY <1>6 DEF ReloadReboot, At, Idle
  <2> QED
    BY <1>6, <2>1 DEF ReloadReboot, Moves
<1>7. CASE ChangeDevice(t)
  BY <1>7, GoMoves DEF ChangeDevice, At
<1>8. CASE MarkLBActive(t) \/ MarkLBDeleted(t)
  <2>1. PICK step \in {"active", "gone"}, status \in {"ACTIVE", "DELETED"} : MarkLB(t, step, status)
    BY <1>8 DEF MarkLBActive, MarkLBDeleted
  <2>2. Moves(t)
    BY <2>1, GoMoves DEF MarkLB, At
  <2> QED
    BY <2>1, <2>2 DEF MarkLB, TypeOK
<1>9. CASE SetThunderUpdatedAt(t)
  <2>1. flow[t] # Idle
    BY <1>9 DEF SetThunderUpdatedAt, At, Idle
  <2> QED
    BY <1>9, <2>1 DEF SetThunderUpdatedAt, Ends
<1>10. CASE FailFlow(t)
  BY <1>10 DEF FailFlow, RevertedStatus, Ends, TypeOK
<1> QED
  BY <1>2, <1>3, <1>4, <1>5, <1>6, <1>7, <1>8, <1>9, <1>10 DEF Worker

LEMMA HousekeeperSteps ==
    ASSUME TypeOK, PassInv, Housekeeper
    PROVE  /\ UNCHANGED <<flow, asked, due, clock>>
           /\ \A l \in LBs : lb'[l] = "NEW" => lb[l] = "NEW"
           /\ PassInv'
<1> USE DEF Pass, PassInv
<1>1. hk \in Passes
  BY DEF TypeOK
<1>2. ASSUME NEW l \in LBs, PerformMemoryWrites(l)
      PROVE  UNCHANGED <<flow, asked, due, clock, lb>> /\ PassInv'
  BY <1>2 DEF PerformMemoryWrites, Resting, hist
<1>3. ASSUME NEW l \in LBs, CheckActive(l)
      PROVE  UNCHANGED <<flow, asked, due, clock, lb>> /\ PassInv'
  BY <1>1, <1>3 DEF CheckActive, Passes
<1>4. ASSUME NEW answers \in BOOLEAN, StatusCheck(answers)
      PROVE  /\ UNCHANGED <<flow, asked, due, clock>> /\ PassInv'
             /\ \A l \in LBs : lb'[l] = "NEW" => lb[l] = "NEW"
  BY <1>1, <1>4 DEF StatusCheck, Passes
<1>5. CASE PerformWriteMemory \/ GetActiveLoadBalancers
  BY <1>1, <1>5 DEF PerformWriteMemory, GetActiveLoadBalancers, Passes
<1>6. CASE MarkPendingUpdate \/ WriteFails \/ MarkActive
  <2>1. PICK status \in {"PENDING", "ACTIVE"} : MarkHeld(status)
    BY <1>6 DEF MarkPendingUpdate, WriteFails, MarkActive
  <2>2. \A l \in LBs : lb'[l] = "NEW" => lb[l] = "NEW"
    BY <2>1 DEF MarkHeld
  <2>3. PassInv'
    <3>1. CASE MarkPendingUpdate
      BY <1>1, <3>1 DEF MarkPendingUpdate, Passes
    <3>2. CASE WriteFails
      BY <1>1, <3>2 DEF WriteFails, NextWrite, Passes
    <3>3. CASE MarkActive
      BY <3>3 DEF MarkActive, Resting
    <3> QED
      BY <1>6, <3>1, <3>2, <3>3
  <2> QED
    BY <1>6, <2>2, <2>3 DEF MarkPendingUpdate, WriteFails, MarkActive
<1>7. CASE WriteMemory \/ WriteAborts \/ SetThunderLastWriteMem
  BY <1>1, <1>7 DEF WriteMemory, WriteAborts, SetThunderLastWriteMem, NextWrite, Passes, Resting
<1> QED
  BY <1>2, <1>3, <1>4, <1>5, <1>6, <1>7 DEF Housekeeper

LEMMA NumbersInit == Init => NumbersInv
BY DEF Init, NumbersInv, FlowInv, PassInv, FreshInv, CreationInv, Idle, Resting

LEMMA NumbersWorker ==
    ASSUME TypeOK, NumbersInv, NEW t \in Threads, Worker(t)
    PROVE  NumbersInv'
<1>1. UNCHANGED hk /\ \A l \in LBs : lb'[l] = "NEW" => lb[l] = "NEW"
  BY WorkerSteps
<1>2. PassInv'
  BY <1>1 DEF NumbersInv, PassInv
<1>3. \A u \in Threads : flow[u] # Idle => /\ flow[u].lb \in LBs /\ flow[u].op \in Ops
                                           /\ flow[u].nr \in 1..asked[flow[u].lb]
  BY DEF NumbersInv, FlowInv
<1>4. ASSUME Begins(t)
      PROVE  FlowInv' /\ FreshInv' /\ CreationInv'
  <2>1. PICK op \in Ops, l \in LBs, step \in {"row", "change"} :
             Request(t, op, l, step) /\ (op = "create" => lb[l] = "NEW")
    BY <1>4 DEF Begins
  <2> DEFINE new == [op |-> op, lb |-> l, nr |-> asked[l] + 1, step |-> step]
  <2>2. /\ flow' = [flow EXCEPT ![t] = new] /\ asked' = [asked EXCEPT ![l] = @ + 1]
        /\ UNCHANGED due /\ lb' = [lb EXCEPT ![l] = "PENDING"]
        /\ \A u \in Threads : flow[u].lb = l => flow[u].op # "create"
    BY <2>1 DEF Request
  <2>3. asked[l] \in Nat /\ asked \in [LBs -> 0..MaxChanges]
    BY DEF TypeOK
  <2>4. \A u \in Threads \ {t} : flow'[u] = flow[u]
    BY <2>2 DEF TypeOK
  <2>5. flow'[t] = new
    BY <2>2 DEF TypeOK
  <2>6. \A m \in LBs : asked'[m] = IF m = l THEN asked[l] + 1 ELSE asked[m]
    BY <2>2, <2>3
  <2>7. FlowInv'
    BY <1>3, <2>3, <2>4, <2>5, <2>6, BoundAssumption DEF FlowInv, NumbersInv
  <2>8. FreshInv'
    <3>1. \A u \in Threads \ {t} : Change(u)' = Change(u)
      BY <2>4 DEF Change
    <3>2. Change(t)' = <<l, asked[l] + 1>>
      BY <2>5 DEF Change
    <3>3. \A u \in Threads : flow[u] # Idle => Change(u) # <<l, asked[l] + 1>>
      BY <1>3, <2>3 DEF Change
    <3>4. <<l, asked[l] + 1>> \notin due
      BY <2>3 DEF FreshInv, NumbersInv
    <3>5. \A c \in due : c[2] <= asked'[c[1]]
      <4> SUFFICES ASSUME NEW c \in due PROVE c[2] <= asked'[c[1]]
        OBVIOUS
      <4>1. c[1] \in LBs /\ c[2] \in Nat /\ c[2] <= asked[c[1]] /\ asked[c[1]] \in Nat
        BY BoundAssumption DEF TypeOK, Changes, FreshInv, NumbersInv
      <4> QED
        BY <4>1, <2>6, <2>3
    <3> QED
      BY <2>2, <2>4, <3>1, <3>2, <3>3, <3>4, <3>5 DEF FreshInv, NumbersInv
  <2>9. CreationInv'
    BY <1>1, <1>3, <2>1, <2>2, <2>3, <2>4, <2>5, <2>6 DEF CreationInv, NumbersInv, TypeOK
  <2> QED
    BY <2>7, <2>8, <2>9
<1>5. ASSUME Moves(t)
      PROVE  FlowInv' /\ FreshInv' /\ CreationInv'
  <2>1. PICK s \in {"active", "change", "drop", "gone", "stamp", "reload"} :
             flow' = [flow EXCEPT ![t].step = s]
    BY <1>5 DEF Moves
  <2>2. \A u \in Threads : flow'[u].op = flow[u].op /\ flow'[u].lb = flow[u].lb
                           /\ flow'[u].nr = flow[u].nr
    BY <2>1 DEF TypeOK, Flows
  <2>3. (\A u \in Threads \ {t} : flow'[u] = flow[u]) /\ flow'[t].step = s /\ flow[t] # Idle
    BY <1>5, <2>1 DEF TypeOK, Flows, Moves
  <2>4. \A u \in Threads : flow'[u] # Idle => flow[u] # Idle
    BY <2>3
  <2>5. asked' = asked /\ due' = due
    BY <1>5 DEF Moves
  <2>6. FlowInv'
    BY <1>3, <2>2, <2>3, <2>5 DEF FlowInv, NumbersInv
  <2>7. FreshInv'
    BY <2>2, <2>4, <2>5 DEF FreshInv, NumbersInv, Change
  <2> QED
    BY <1>1, <2>2, <2>5, <2>6, <2>7 DEF CreationInv, NumbersInv
<1>6. ASSUME Ends(t)
      PROVE  FlowInv' /\ FreshInv' /\ CreationInv'
  <2>1. (\A u \in Threads \ {t} : flow'[u] = flow[u]) /\ flow'[t] = Idle /\ flow[t] # Idle
    BY <1>6 DEF TypeOK, Ends
  <2>2. asked' = asked /\ due' \subseteq due \cup {Change(t)}
    BY <1>6 DEF Ends
  <2>3. FlowInv'
    BY <2>1, <2>2 DEF FlowInv, NumbersInv
  <2>4. Change(t)[2] <= asked[Change(t)[1]]
    BY <1>3, <2>1 DEF Change
  <2>5. FreshInv'
    BY <2>1, <2>2, <2>4 DEF FreshInv, NumbersInv, Change
  <2>6. Idle.op # "create"
    BY DEF Idle
  <2> QED
    BY <1>1, <2>1, <2>2, <2>3, <2>5, <2>6 DEF CreationInv, NumbersInv
<1> QED
  BY <1>2, <1>4, <1>5, <1>6, WorkerSteps DEF NumbersInv

LEMMA NumbersStep == TypeOK /\ NumbersInv /\ [Next]_vars => NumbersInv'
<1> SUFFICES ASSUME TypeOK, NumbersInv, [Next]_vars PROVE NumbersInv'
  OBVIOUS
<1>1. ASSUME UNCHANGED <<flow, asked, due>>, \A l \in LBs : lb'[l] = "NEW" => lb[l] = "NEW"
      PROVE  FlowInv' /\ FreshInv' /\ CreationInv'
  BY <1>1 DEF NumbersInv, FlowInv, FreshInv, CreationInv, Change
<1>2. CASE Restart \/ Tick \/ UNCHANGED vars
  BY <1>1, <1>2 DEF Restart, Tick, vars, hist, NumbersInv, PassInv
<1>3. CASE Housekeeper
  BY <1>1, <1>3, HousekeeperSteps DEF NumbersInv
<1> QED
  BY <1>2, <1>3, NumbersWorker DEF Next

\* The rows, the passes of the housekeeper and the requests are of their
\* types at every moment, whatever the restarts and failures.
THEOREM TypeCorrect == Spec => []TypeOK
<1>1. TypeOK /\ NumbersInv /\ [Next]_vars => (TypeOK /\ NumbersInv)'
  BY TypeStep, NumbersStep DEF NumbersInv
<1> QED
  BY <1>1, InitTypeOK, NumbersInit, PTL DEF Spec

-----------------------------------------------------------------------------
(* A load balancer that a flow works on, that is ACTIVE, or that the       *)
(* housekeeper holds has its row; rows are saved at times that have been.  *)
Rowed(l) == row[l].status # "NONE" \/ l \in crossed
RowedAfter(l) == row'[l].status # "NONE" \/ l \in crossed'
RowInv ==
    /\ \A l \in LBs : row[l].written <= clock
    /\ \A t \in Threads :
          flow[t] # Idle /\ <<flow[t].op, flow[t].step>> # <<"create", "row">> => Rowed(flow[t].lb)
    /\ \A l \in LBs : lb[l] = "ACTIVE" \/ l \in hk.held => Rowed(l)

LEMMA RowInit == Init => RowInv
BY DEF Init, RowInv, NoRow, Resting

LEMMA CreatesAlone ==
    ASSUME NumbersInv, NEW t \in Threads, flow[t].op = "create", NEW u \in Threads \ {t}
    PROVE  flow[u].lb # flow[t].lb
<1> SUFFICES ASSUME flow[u].lb = flow[t].lb PROVE FALSE
  OBVIOUS
<1>1. flow[t] # Idle /\ flow[t].lb \in LBs
  BY DEF NumbersInv, FlowInv, Idle, Ops
<1>2. flow[u] # Idle
  BY <1>1, BoundAssumption DEF Idle
<1>3. asked[flow[t].lb] = 1
  BY DEF NumbersInv, CreationInv
<1>4. flow[t].nr = 1 /\ flow[u].nr = 1
  BY <1>1, <1>2, <1>3 DEF NumbersInv, FlowInv
<1>5. Change(t) # Change(u)
  BY <1>1, <1>2 DEF NumbersInv, FreshInv
<1> QED
  BY <1>4, <1>5 DEF Change

(* A flow goes on, past the creation of its row, and no row goes.          *)
LEMMA RowGoesOn ==
    ASSUME TypeOK, RowInv, FlowInv, NEW t \in Threads, Moves(t), UNCHANGED <<hk, clock>>,
           \A l \in LBs : Rowed(l) => RowedAfter(l),
           \A l \in LBs : lb'[l] = "ACTIVE" => lb[l] = "ACTIVE" \/ Rowed(l),
           RowedAfter(flow[t].lb), \A l \in LBs : row'[l].written <= clock
    PROVE  RowInv'
<1>1. PICK s \in {"active", "change", "drop", "gone", "stamp", "reload"} :
           flow' = [flow EXCEPT ![t].step = s]
  BY DEF Moves
<1>2. (\A u \in Threads \ {t} : flow'[u] = flow[u]) /\ flow'[t].lb = flow[t].lb
  BY <1>1 DEF TypeOK, Flows
<1>3. \A u \in Threads : flow[u] # Idle => flow[u].lb \in LBs
  BY DEF FlowInv
<1>4. \A u \in Threads : flow'[u] # Idle /\ <<flow'[u].op, flow'[u].step>> # <<"create", "row">>
                            => RowedAfter(flow'[u].lb)
  BY <1>2, <1>3 DEF RowInv
<1>5. \A l \in LBs : lb'[l] = "ACTIVE" \/ l \in hk'.held => RowedAfter(l)
  BY DEF RowInv
<1> QED
  BY <1>4, <1>5 DEF RowInv, Rowed, RowedAfter

LEMMA RowWorker ==
    ASSUME TypeOK, NumbersInv, RowInv, NEW t \in Threads, Worker(t)
    PROVE  RowInv'
<1> USE DEF device, hist
<1>1. FlowInv /\ UNCHANGED <<hk, clock>>
  BY WorkerSteps DEF NumbersInv, Worker, CreateLb, UpdateListener, DeleteLb, Request, CreateVThunderEntry,
     MarkPendingDelete, MarkVThunderDeleted, MarkVThunderStatus, PostNetworkPlug, ReloadReboot, ChangeDevice,
     MarkLBActive, MarkLBDeleted, MarkLB, SetThunderUpdatedAt, FailFlow
<1>2. clock \in Nat /\ \A l \in LBs : row[l] \in Rows /\ row[l].written \in Nat
  BY BoundAssumption DEF TypeOK, Times, Rows
<1>3. \A u \in Threads : flow[u] # Idle => flow[u].lb \in LBs
  BY <1>1 DEF FlowInv
<1>4. ASSUME NEW l \in LBs, CreateLb(t, l) \/ UpdateListener(t, l) \/ DeleteLb(t, l)
      PROVE  RowInv'
  <2>1. PICK op, step :
             /\ Request(t, op, l, step)
             /\ <<op, step>> # <<"create", "row">> => lb[l] = "ACTIVE" \/ row[l].status # "NONE"
    BY <1>4 DEF CreateLb, UpdateListener, DeleteLb
  <2>2. /\ \A u \in Threads \ {t} : flow'[u] = flow[u]
        /\ flow'[t].op = op /\ flow'[t].lb = l /\ flow'[t].step = step
        /\ UNCHANGED row /\ crossed \subseteq crossed'
        /\ \A m \in LBs : lb'[m] = "ACTIVE" => lb[m] = "ACTIVE"
    BY <2>1 DEF Request, TypeOK
  <2> QED
    BY <1>1, <1>3, <2>1, <2>2 DEF RowInv, Rowed
<1>5. CASE CreateVThunderEntry(t)
  <2>1. Moves(t) /\ flow[t].lb \in LBs
    BY <1>3, <1>5, GoMoves DEF CreateVThunderEntry, At, Moves
  <2> QED
    BY <1>1, <1>2, <1>5, <2>1, RowGoesOn DEF CreateVThunderEntry, Rowed, RowedAfter, RowInv, TypeOK
<1>6. CASE MarkPendingDelete(t) \/ MarkVThunderDeleted(t)
  <2>1. PICK status \in {"PENDING_DELETE", "DELETED"} : MarkVThunderStatus(t, status)
    BY <1>6 DEF MarkPendingDelete, MarkVThunderDeleted
  <2>2. Moves(t) /\ flow[t].lb \in LBs
    BY <1>3, <1>6, <2>1, GoMoves DEF MarkPendingDelete, MarkVThunderDeleted, MarkVThunderStatus, At, Moves
  <2>3. /\ \A l \in LBs : row[l].status # "NONE" => row'[l].status # "NONE"
        /\ row'[flow[t].lb].status # "NONE" /\ \A l \in LBs : row'[l].written = row[l].written
    BY <2>1, <2>2 DEF MarkVThunderStatus, TypeOK, Rows
  <2> QED
    BY <1>1, <1>2, <2>1, <2>2, <2>3, RowGoesOn DEF MarkVThunderStatus, Rowed, RowedAfter, RowInv
<1>7. CASE PostNetworkPlug(t)
  <2>1. Moves(t) /\ <<flow[t].op, flow[t].step>> # <<"create", "row">>
    BY <1>7 DEF PostNetworkPlug, Moves, Idle
  <2>2. \A l \in LBs : row'[l].status = row[l].status /\ row'[l].written <= clock
    BY <1>2, <1>7 DEF PostNetworkPlug, UpdateLastWriteMem, Stamped, Rows, RowInv
  <2>3. Rowed(flow[t].lb) /\ flow[t].lb \in LBs
    BY <1>3, <2>1 DEF RowInv, Moves
  <2> QED
    BY <1>1, <1>7, <2>1, <2>2, <2>3, RowGoesOn DEF PostNetworkPlug, Rowed, RowedAfter
<1>8. CASE ReloadReboot(t) \/ ChangeDevice(t) \/ MarkLBActive(t) \/ MarkLBDeleted(t)
  <2>1. /\ Moves(t) /\ flow[t].step # "row" /\ UNCHANGED <<row, crossed>>
        /\ \A l \in LBs : lb'[l] = "ACTIVE" => lb[l] = "ACTIVE" \/ l = flow[t].lb
    <3>1. CASE ReloadReboot(t)
      <4>1. flow[t] # Idle /\ flow[t].step = "reload"
        BY <3>1 DEF ReloadReboot, At, Idle
      <4> QED
        BY <3>1, <4>1 DEF ReloadReboot, Moves
    <3>2. CASE ChangeDevice(t)
      BY <3>2, GoMoves DEF ChangeDevice, At
    <3>3. CASE MarkLBActive(t) \/ MarkLBDeleted(t)
      BY <3>3, GoMoves DEF MarkLBActive, MarkLBDeleted, MarkLB, At, TypeOK
    <3> QED
      BY <1>8, <3>1, <3>2, <3>3
  <2>2. Rowed(flow[t].lb) /\ flow[t].lb \in LBs
    BY <1>3, <2>1 DEF RowInv, Moves
  <2> QED
    BY <1>1, <2>1, <2>2, RowGoesOn DEF Rowed, RowedAfter, RowInv
<1>9. CASE SetThunderUpdatedAt(t)
  <2>1. flow'[t] = Idle /\ \A u \in Threads \ {t} : flow'[u] = flow[u]
    BY <1>9 DEF SetThunderUpdatedAt, TypeOK
  <2>2. \A l \in LBs : row'[l].status = row[l].status /\ row'[l].written = row[l].written
    BY <1>9 DEF SetThunderUpdatedAt, TypeOK, Rows
  <2> QED
    BY <1>1, <1>3, <1>9, <2>1, <2>2 DEF SetThunderUpdatedAt, RowInv, Rowed
<1>10. CASE FailFlow(t)
  <2>1. /\ flow'[t] = Idle /\ \A u \in Threads \ {t} : flow'[u] = flow[u]
        /\ flow[t].lb \in LBs /\ crossed \subseteq crossed'
        /\ flow[t].lb \in hk.held => flow[t].lb \in crossed'
        /\ \A l \in LBs : lb'[l] = "ACTIVE" =>
              (lb[l] = "ACTIVE" /\ l # flow[t].lb) \/ (flow[t].op = "update" /\ l = flow[t].lb)
    BY <1>3, <1>10 DEF FailFlow, RevertedStatus, TypeOK
  <2>2. \A l \in LBs : \/ row'[l] = row[l]
                       \/ flow[t].op = "create" /\ l = flow[t].lb /\ row'[l] = NoRow
    BY <1>10 DEF FailFlow, TypeOK
  <2>3. flow[t].op = "create" => \A u \in Threads \ {t} : flow[u].lb # flow[t].lb
    BY CreatesAlone
  <2>4. \A l \in LBs : row'[l].written <= clock
    BY <1>2, <2>2 DEF NoRow, RowInv
  <2>5. flow[t].op = "update" => Rowed(flow[t].lb)
    BY <1>10 DEF FailFlow, RowInv
  <2> QED
    BY <1>1, <1>3, <2>1, <2>2, <2>3, <2>4, <2>5 DEF RowInv, Rowed
<1> QED
  BY <1>4, <1>5, <1>6, <1>7, <1>8, <1>9, <1>10 DEF Worker

(* What the pass of the housekeeper leaves: statuses of rows, and a load   *)
(* balancer that becomes ACTIVE, or that it holds, was ACTIVE or held.     *)
LEMMA HousekeeperHolds ==
    ASSUME TypeOK, NumbersInv, RowInv, Housekeeper
    PROVE  /\ UNCHANGED <<flow, clock, crossed, due, running, started>>
           /\ masked \subseteq masked'
           /\ \A l \in LBs : row'[l].status = row[l].status /\ row'[l].written <= clock
           /\ \A l \in LBs : lb'[l] = "ACTIVE" \/ l \in hk'.held => lb[l] = "ACTIVE" \/ l \in hk.held
<1> USE DEF Pass, RowInv
<1>1. hk \in Passes /\ clock \in Nat
  BY BoundAssumption DEF TypeOK, Times
<1> DEFINE Keeps == /\ UNCHANGED <<flow, clock, crossed, due, running, started>>
                    /\ masked \subseteq masked'
                    /\ \A l \in LBs : row'[l].status = row[l].status /\ row'[l].written <= clock
                    /\ \A l \in LBs : lb'[l] = "ACTIVE" \/ l \in hk'.held => lb[l] = "ACTIVE" \/ l \in hk.held
<1>3. ASSUME NEW l \in LBs, PerformMemoryWrites(l)
      PROVE  Keeps
  BY <1>3 DEF PerformMemoryWrites, hist, device, Resting
<1>4. ASSUME NEW l \in LBs, CheckActive(l)
      PROVE  Keeps
  <2>1. \A m \in LBs : m \in hk'.held => m \in hk.held \/ lb[m] = "ACTIVE"
    BY <1>1, <1>4 DEF CheckActive, Passes
  <2> QED
    BY <1>4, <2>1 DEF CheckActive
<1>5. ASSUME NEW answers \in BOOLEAN, StatusCheck(answers)
      PROVE  Keeps
  <2>1. hk'.held = {} /\ \A l \in LBs : lb'[l] = "ACTIVE" => lb[l] = "ACTIVE"
    BY <1>1, <1>5 DEF StatusCheck, Passes
  <2> QED
    BY <1>5, <2>1 DEF StatusCheck
<1>6. CASE PerformWriteMemory
  BY <1>1, <1>6 DEF PerformWriteMemory, Passes
<1>7. CASE GetActiveLoadBalancers
  <2>1. \A m \in LBs : m \in hk'.held => lb[m] = "ACTIVE"
    BY <1>1, <1>7 DEF GetActiveLoadBalancers, Active, Passes
  <2> QED
    BY <1>7, <2>1 DEF GetActiveLoadBalancers
<1>8. CASE MarkPendingUpdate
  <2>1. hk'.held = hk.held /\ \A l \in LBs : lb'[l] = "ACTIVE" => lb[l] = "ACTIVE"
    BY <1>1, <1>8 DEF MarkPendingUpdate, MarkHeld, Passes
  <2> QED
    BY <1>8, <2>1 DEF MarkPendingUpdate
<1>9. CASE WriteFails
  <2>1. hk'.held = hk.held /\ \A l \in LBs : lb'[l] = "ACTIVE" => lb[l] = "ACTIVE" \/ l \in hk.held
    BY <1>1, <1>9 DEF WriteFails, MarkHeld, Passes
  <2> QED
    BY <1>9, <2>1 DEF WriteFails
<1>10. CASE MarkActive
  <2>1. hk'.held = {} /\ \A l \in LBs : lb'[l] = "ACTIVE" => lb[l] = "ACTIVE" \/ l \in hk.held
    BY <1>10 DEF MarkActive, MarkHeld, Resting
  <2> QED
    BY <1>10, <2>1 DEF MarkActive
<1>11. CASE WriteMemory \/ WriteAborts
  <2>1. \A l \in LBs : l \in hk'.held => l \in hk.held
    BY <1>1, <1>11 DEF WriteMemory, WriteAborts, Resting, Passes
  <2> QED
    BY <1>11, <2>1 DEF WriteMemory, WriteAborts
<1>12. CASE SetThunderLastWriteMem
  <2>1. hk'.held = hk.held
    BY <1>1, <1>12 DEF SetThunderLastWriteMem, Passes
  <2>2. \A l \in LBs : row'[l].status = row[l].status /\ row'[l].written <= clock
    BY <1>1, <1>12 DEF SetThunderLastWriteMem, UpdateLastWriteMem, Stamped, TypeOK, Rows
  <2> QED
    BY <1>12, <2>1, <2>2 DEF SetThunderLastWriteMem
<1> QED
  BY <1>3, <1>4, <1>5, <1>6, <1>7, <1>8, <1>9, <1>10, <1>11, <1>12 DEF Housekeeper

LEMMA RowHousekeeper ==
    ASSUME TypeOK, NumbersInv, RowInv, Housekeeper
    PROVE  RowInv'
<1>1. \A u \in Threads : flow[u] # Idle => flow[u].lb \in LBs
  BY DEF NumbersInv, FlowInv
<1> QED
  BY <1>1, HousekeeperHolds DEF RowInv, Rowed

LEMMA RowStep == TypeOK /\ NumbersInv /\ RowInv /\ [Next]_vars => RowInv'
<1> SUFFICES ASSUME TypeOK, NumbersInv, RowInv, [Next]_vars PROVE RowInv'
  OBVIOUS
<1>1. CASE Tick
  <2>1. /\ clock \in Nat /\ clock' = clock + 1 /\ UNCHANGED <<row, flow, lb, hk, crossed>>
        /\ \A l \in LBs : row[l].written \in Nat
    BY <1>1, BoundAssumption DEF Tick, hist, TypeOK, Times, Rows
  <2> QED
    BY <2>1 DEF RowInv, Rowed
<1>2. CASE Restart \/ UNCHANGED vars
  BY <1>2 DEF Restart, vars, hist, RowInv, Rowed
<1> QED
  BY <1>1, <1>2, RowWorker, RowHousekeeper DEF Next

-----------------------------------------------------------------------------
(* Between the save and its time, what runs is saved or has slipped.       *)
SavedInv == Saved /\ ~hk.skip => running \subseteq saved \cup slipped

FoundInv == TypeOK /\ NumbersInv /\ RowInv /\ SavedInv /\ ChangeFound

LEMMA SavedWorker ==
    ASSUME SavedInv, NEW t \in Threads, Worker(t)
    PROVE  SavedInv'
<1> USE DEF device, hist, SavedInv, Saved
<1>1. CASE PostNetworkPlug(t)
  BY <1>1 DEF PostNetworkPlug
<1>2. CASE ReloadReboot(t)
  BY <1>2 DEF ReloadReboot
<1>3. CASE ChangeDevice(t)
  BY <1>3 DEF ChangeDevice
<1>4. ASSUME UNCHANGED <<hk, shared, running, saved, slipped>>
      PROVE  SavedInv'
  BY <1>4
<1> QED
  BY <1>1, <1>2, <1>3, <1>4 DEF Worker, CreateLb, UpdateListener, DeleteLb, Request, CreateVThunderEntry,
     MarkPendingDelete, MarkVThunderDeleted, MarkVThunderStatus, MarkLBActive, MarkLBDeleted, MarkLB,
     SetThunderUpdatedAt, FailFlow

LEMMA SavedHousekeeper ==
    ASSUME TypeOK, SavedInv, Housekeeper
    PROVE  SavedInv'
<1> USE DEF Pass, SavedInv, Saved
<1>1. hk \in Passes /\ shared \in BOOLEAN
  BY DEF TypeOK
<1>2. ASSUME NEW l \in LBs, PerformMemoryWrites(l) \/ CheckActive(l)
      PROVE  SavedInv'
  BY <1>1, <1>2 DEF PerformMemoryWrites, CheckActive, Resting, Passes
<1>3. ASSUME NEW answers \in BOOLEAN, StatusCheck(answers)
      PROVE  SavedInv'
  BY <1>1, <1>3 DEF StatusCheck, Passes
<1>4. CASE PerformWriteMemory \/ GetActiveLoadBalancers \/ WriteAborts \/ MarkActive
  <2>1. hk'.step \in {"idle", "read", "mark"}
    <3>1. CASE PerformWriteMemory \/ GetActiveLoadBalancers
      BY <1>1, <3>1 DEF PerformWriteMemory, GetActiveLoadBalancers, Passes
    <3>2. CASE WriteAborts \/ MarkActive
      BY <3>2 DEF WriteAborts, MarkActive, Resting
    <3> QED
      BY <1>4, <3>1, <3>2
  <2> QED
    BY <2>1
<1>5. CASE MarkPendingUpdate
  BY <1>1, <1>5 DEF MarkPendingUpdate, Passes
<1>6. CASE WriteFails \/ SetThunderLastWriteMem
  BY <1>1, <1>6 DEF WriteFails, SetThunderLastWriteMem, Passes
<1>7. CASE WriteMemory
  <2>1. hk'.step = NextWrite /\ hk'.ok = hk.ok /\ hk'.skip = hk.skip
    BY <1>1, <1>7 DEF WriteMemory, Passes
  <2>2. CASE hk.step = "shared"
    <3>1. saved' = (IF shared THEN running ELSE saved) /\ hk'.step = "private"
      BY <1>1, <1>7, <2>1, <2>2 DEF WriteMemory, NextWrite
    <3> QED
      BY <1>7, <2>1, <3>1 DEF WriteMemory
  <2>3. CASE hk.step = "private"
    <3>1. saved' = (IF shared THEN saved ELSE running) /\ UNCHANGED <<running, slipped>>
      BY <1>1, <1>7, <2>3 DEF WriteMemory
    <3> QED
      BY <2>1, <2>3, <3>1
  <2> QED
    BY <1>7, <2>2, <2>3 DEF WriteMemory
<1> QED
  BY <1>2, <1>3, <1>4, <1>5, <1>6, <1>7 DEF Housekeeper

LEMMA SavedStep == TypeOK /\ SavedInv /\ [Next]_vars => SavedInv'
<1> SUFFICES ASSUME TypeOK, SavedInv, [Next]_vars PROVE SavedInv'
  OBVIOUS
<1>1. CASE Restart \/ Tick \/ UNCHANGED vars
  BY <1>1 DEF Restart, Tick, vars, device, hist, SavedInv, Saved
<1> QED
  BY <1>1, SavedWorker, SavedHousekeeper DEF Next

(* A change stays found when nothing new runs or is due, its row keeps its *)
(* status and is not saved again.                                          *)
Findable(c) == c[1] \in crossed \/ Recent(row[c[1]]) \/ row[c[1]].status = "PENDING_DELETE"
FindableAfter(c) ==
    c[1] \in crossed' \/ Recent(row'[c[1]]) \/ row'[c[1]].status = "PENDING_DELETE"

LEMMA StaysFound ==
    ASSUME ChangeFound,
           (due' \cap running') \ (saved' \cup slipped') \subseteq
               (due \cap running) \ (saved \cup slipped),
           \A c \in (due' \cap running') \ (saved' \cup slipped') : Findable(c) => FindableAfter(c)
    PROVE  ChangeFound'
BY DEF ChangeFound, Findable, FindableAfter, Recent

LEMMA FoundWorker ==
    ASSUME FoundInv, NEW t \in Threads, Worker(t)
    PROVE  ChangeFound'
<1> USE DEF device, hist
<1>1. /\ \A c \in due : c[1] \in LBs /\ c \in Changes
      /\ \A l \in LBs : row[l] \in Rows /\ row[l].written \in Nat /\ row[l].written <= clock
      /\ clock \in Nat
      /\ \A u \in Threads : flow[u] # Idle => flow[u].lb \in LBs
  BY BoundAssumption DEF FoundInv, TypeOK, Times, Rows, Changes, NumbersInv, FlowInv, RowInv
<1>2. ChangeFound /\ TypeOK /\ NumbersInv /\ RowInv
  BY DEF FoundInv
<1>3. ASSUME NEW l \in LBs, CreateLb(t, l) \/ UpdateListener(t, l) \/ DeleteLb(t, l)
      PROVE  ChangeFound'
  BY <1>2, <1>3, StaysFound DEF CreateLb, UpdateListener, DeleteLb, Request, Findable, FindableAfter
<1>4. CASE CreateVThunderEntry(t)
  <2>1. flow[t].lb \in LBs
    BY <1>1, <1>4 DEF CreateVThunderEntry, At, Idle
  <2>2. \A c \in due : Findable(c) => FindableAfter(c)
    BY <1>1, <1>4, <2>1 DEF CreateVThunderEntry, Findable, FindableAfter, Recent, FoundInv, TypeOK
  <2> QED
    BY <1>2, <1>4, <2>2, StaysFound DEF CreateVThunderEntry
<1>5. CASE MarkPendingDelete(t) \/ MarkVThunderDeleted(t)
  <2>1. PICK status \in {"PENDING_DELETE", "DELETED"} : MarkVThunderStatus(t, status)
    BY <1>5 DEF MarkPendingDelete, MarkVThunderDeleted
  <2>2. flow[t].lb \in LBs
    BY <1>1, <1>5 DEF MarkPendingDelete, MarkVThunderDeleted, At, Idle
  <2>3. \A c \in due : Findable(c) => FindableAfter(c)
    BY <1>1, <1>2, <2>1, <2>2 DEF MarkVThunderStatus, Findable, FindableAfter, Recent, TypeOK, Rows
  <2> QED
    BY <1>2, <2>1, <2>3, StaysFound DEF MarkVThunderStatus
<1>6. CASE PostNetworkPlug(t)
  BY <1>6 DEF PostNetworkPlug, ChangeFound
<1>7. CASE ReloadReboot(t)
  BY <1>7 DEF ReloadReboot, ChangeFound
<1>8. CASE ChangeDevice(t)
  <2>1. Change(t) \notin due
    BY <1>2, <1>8 DEF ChangeDevice, At, Idle, NumbersInv, FreshInv
  <2> QED
    BY <1>2, <1>8, <2>1, StaysFound DEF ChangeDevice, Findable, FindableAfter
<1>9. CASE MarkLBActive(t) \/ MarkLBDeleted(t)
  BY <1>2, <1>9 DEF MarkLBActive, MarkLBDeleted, MarkLB, ChangeFound, Recent
<1>10. CASE SetThunderUpdatedAt(t)
  <2> DEFINE l == flow[t].lb
  <2>1. l \in LBs /\ Rowed(l)
    BY <1>1, <1>2, <1>10 DEF SetThunderUpdatedAt, At, Idle, RowInv
  <2>2. /\ row'[l].status = row[l].status /\ row'[l].updated = clock /\ row'[l].written = row[l].written
        /\ \A m \in LBs \ {l} : row'[m] = row[m]
    BY <1>1, <1>2, <1>10, <2>1 DEF SetThunderUpdatedAt, TypeOK, Rows
  <2>3. row[l].status \in {"NONE", "ACTIVE", "PENDING_DELETE", "DELETED"}
    BY <1>1, <2>1 DEF Rows
  <2>4. \A c \in due' : c[1] = l => FindableAfter(c)
    BY <1>1, <1>10, <2>1, <2>2, <2>3 DEF SetThunderUpdatedAt, Rowed, FindableAfter, Recent
  <2>5. Change(t)[1] = l
    BY DEF Change
  <2>6. \A c \in due' : c[1] # l => c \in due
    BY <1>10, <2>5 DEF SetThunderUpdatedAt
  <2> QED
    BY <1>1, <1>2, <1>10, <2>2, <2>4, <2>6 DEF SetThunderUpdatedAt, ChangeFound, FindableAfter, Recent
<1>11. CASE FailFlow(t)
  <2>1. flow[t].lb \in LBs /\ crossed \subseteq crossed'
    BY <1>1, <1>11, BoundAssumption DEF FailFlow, Idle
  <2>2. ASSUME NEW c \in due, flow[t].op = "create"
        PROVE  c[1] # flow[t].lb
    <3>1. asked[flow[t].lb] = 1 /\ flow[t].nr = 1
      BY <1>2, <2>1, <2>2, CreatesAlone DEF NumbersInv, CreationInv, FlowInv, Idle, Ops
    <3>2. c[1] = flow[t].lb => c = Change(t)
      BY <1>1, <1>2, <2>1, <2>2, <3>1 DEF NumbersInv, FreshInv, Change, Changes
    <3> QED
      BY <1>2, <1>11, <3>2 DEF FailFlow, NumbersInv, FreshInv
  <2>3. \A c \in due : row'[c[1]] = row[c[1]]
    BY <1>2, <1>11, <2>2 DEF FailFlow, TypeOK
  <2> QED
    BY <1>2, <1>11, <2>1, <2>3, StaysFound DEF FailFlow, Findable, FindableAfter, Recent
<1> QED
  BY <1>3, <1>4, <1>5, <1>6, <1>7, <1>8, <1>9, <1>10, <1>11 DEF Worker

LEMMA FoundHousekeeper ==
    ASSUME FoundInv, Housekeeper
    PROVE  ChangeFound'
<1> USE DEF Pass
<1>1. ChangeFound
  BY DEF FoundInv
<1>2. ASSUME UNCHANGED <<row, due, running, crossed>>, saved' \in {saved, running}, slipped \subseteq slipped'
      PROVE  ChangeFound'
  BY <1>1, <1>2 DEF ChangeFound
<1>3. CASE SetThunderLastWriteMem
  <2>1. CASE hk.skip
    BY <1>3, <2>1 DEF SetThunderLastWriteMem, ChangeFound
  <2>2. CASE ~hk.skip /\ hk.ok
    <3>1. running \subseteq saved \cup slipped
      BY <1>3, <2>2 DEF SetThunderLastWriteMem, FoundInv, SavedInv, Saved
    <3> QED
      BY <1>3, <2>2, <3>1 DEF SetThunderLastWriteMem, ChangeFound
  <2>3. CASE ~hk.skip /\ ~hk.ok
    BY <1>2, <1>3, <2>3 DEF SetThunderLastWriteMem
  <2> QED
    BY <2>1, <2>2, <2>3
<1> QED
  BY <1>2, <1>3 DEF Housekeeper, PerformMemoryWrites, CheckActive, StatusCheck, PerformWriteMemory,
     GetActiveLoadBalancers, MarkPendingUpdate, WriteMemory, WriteFails, WriteAborts, MarkActive, device, hist

LEMMA FoundStep == FoundInv /\ [Next]_vars => FoundInv'
<1> SUFFICES ASSUME FoundInv, [Next]_vars PROVE FoundInv'
  OBVIOUS
<1>1. TypeOK' /\ NumbersInv' /\ RowInv' /\ SavedInv'
  BY TypeStep, NumbersStep, RowStep, SavedStep DEF FoundInv, NumbersInv
<1>2. ASSUME Restart PROVE ChangeFound'
  BY <1>2 DEF Restart, ChangeFound
<1>3. ASSUME Tick \/ UNCHANGED vars PROVE ChangeFound'
  BY <1>3 DEF Tick, vars, device, hist, ChangeFound, FoundInv
<1> QED
  BY <1>1, <1>2, <1>3, FoundWorker, FoundHousekeeper DEF Next, FoundInv

(* Every change that runs on the device and is not saved is found by a     *)
(* later pass, but for those made in the window between a save and its     *)
(* time, stamped without a save, or of a row that is PENDING_DELETE.       *)
THEOREM ChangesAreFound == Spec => []ChangeFound
<1>1. Init => FoundInv
  BY InitTypeOK, NumbersInit, RowInit DEF Init, FoundInv, SavedInv, ChangeFound
<1>2. FoundInv => ChangeFound
  BY DEF FoundInv
<1> QED
  BY <1>1, <1>2, FoundStep, PTL DEF Spec

-----------------------------------------------------------------------------
(* A load balancer that a flow owns is PENDING, and has no other owner; no *)
(* flow owns what the housekeeper holds, which is PENDING once marked,     *)
(* until an error of the save sets it ACTIVE again.                        *)
OwnInv ==
    /\ \A t \in Threads, l \in LBs \ crossed :
          Owns(t, l) => /\ lb[l] = "PENDING" /\ l \notin hk.held
                        /\ \A u \in Threads \ {t} : ~Owns(u, l)
    /\ \A l \in hk.held \ crossed :
          /\ lb[l] \in {"PENDING", "ACTIVE"}
          /\ lb[l] = "PENDING" \/ hk.step \in {"uptime", "mark"} \/ ~hk.ok

LEMMA OwnWorker ==
    ASSUME TypeOK, NumbersInv, OwnInv, NEW t \in Threads, Worker(t)
    PROVE  OwnInv'
<1> USE DEF device, hist
<1>1. /\ UNCHANGED hk /\ hk.held \subseteq LBs
      /\ \A u \in Threads : flow[u] # Idle => flow[u].lb \in LBs /\ flow[u].op \in Ops
  BY WorkerSteps DEF TypeOK, Passes, NumbersInv, FlowInv
<1>2. ASSUME NEW l \in LBs, CreateLb(t, l) \/ UpdateListener(t, l) \/ DeleteLb(t, l)
      PROVE  OwnInv'
  <2>1. PICK op, step : Request(t, op, l, step) /\ lb[l] \in {"NEW", "ACTIVE", "ERROR"}
    BY <1>2 DEF CreateLb, UpdateListener, DeleteLb
  <2>2. /\ flow[t] = Idle /\ flow'[t].lb = l /\ \A u \in Threads \ {t} : flow'[u] = flow[u]
        /\ lb'[l] = "PENDING" /\ \A m \in LBs \ {l} : lb'[m] = lb[m]
        /\ crossed' = IF Crossing(l) THEN crossed \cup {l} ELSE crossed
    BY <2>1 DEF Request, TypeOK
  <2>3. l \in hk.held \ crossed => l \in crossed'
    BY <2>1, <2>2 DEF OwnInv, Crossing
  <2>4. l \notin crossed => \A u \in Threads : ~Owns(u, l)
    BY <2>1 DEF OwnInv
  <2> QED
    BY <1>1, <2>2, <2>3, <2>4 DEF OwnInv, Owns
<1>3. ASSUME crossed \subseteq crossed', \A u \in Threads, l \in LBs : Owns(u, l)' => Owns(u, l),
             \A l \in LBs : \/ lb'[l] = lb[l]
                            \/ l \in crossed'
                            \/ l \notin hk.held /\ \A u \in Threads : ~Owns(u, l)'
      PROVE  OwnInv'
  BY <1>1, <1>3 DEF OwnInv
<1>4. ASSUME Moves(t), flow[t].step # "stamp",
             <<flow[t].op, flow[t].step>> = <<"create", "change">> => flow'[t].step = "stamp"
      PROVE  /\ \A u \in Threads, l \in LBs : Owns(u, l)' => Owns(u, l)
             /\ \A u \in Threads \ {t} : flow'[u] = flow[u]
  <2>1. PICK s \in {"active", "change", "drop", "gone", "stamp", "reload"} :
             flow' = [flow EXCEPT ![t].step = s]
    BY <1>4 DEF Moves
  <2>2. /\ \A u \in Threads \ {t} : flow'[u] = flow[u]
        /\ flow'[t].lb = flow[t].lb /\ flow'[t].op = flow[t].op
        /\ flow[t].op \in Ops
    BY <1>1, <1>4, <2>1 DEF TypeOK, Flows, Moves
  <2> QED
    BY <1>4, <2>2 DEF Owns
<1>5. ASSUME Go(t), flow[t].step \in {"row", "change", "active", "drop", "gone"}, UNCHANGED <<asked, due>>
      PROVE  /\ \A u \in Threads, l \in LBs : Owns(u, l)' => Owns(u, l)
             /\ \A u \in Threads \ {t} : flow'[u] = flow[u]
             /\ <<flow[t].op, flow[t].step>> # <<"create", "change">> => Owns(t, flow[t].lb)
             /\ flow'[t].step = After(flow[t].op, flow[t].step) /\ flow'[t].op = flow[t].op
             /\ flow[t].op \in Ops /\ flow[t].lb \in LBs
  <2>1. Moves(t) /\ flow'[t].step = After(flow[t].op, flow[t].step) /\ flow'[t].op = flow[t].op
    BY <1>5, GoMoves DEF Go, TypeOK, Flows
  <2>2. <<flow[t].op, flow[t].step>> = <<"create", "change">> => flow'[t].step = "stamp"
    BY <2>1 DEF After
  <2> QED
    BY <1>1, <1>4, <1>5, <2>1, <2>2 DEF Owns, Ops, Moves
<1>6. CASE CreateVThunderEntry(t) \/ MarkPendingDelete(t) \/ MarkVThunderDeleted(t) \/ ChangeDevice(t)
  BY <1>3, <1>5, <1>6 DEF CreateVThunderEntry, MarkPendingDelete, MarkVThunderDeleted, MarkVThunderStatus,
     ChangeDevice, At
<1>7. CASE PostNetworkPlug(t)
  <2>1. Moves(t) /\ <<flow[t].op, flow[t].step>> \in {<<"create", "active">>, <<"delete", "change">>}
    BY <1>7, WorkerSteps DEF PostNetworkPlug, Moves, Idle
  <2> QED
    BY <1>3, <1>4, <1>7, <2>1 DEF PostNetworkPlug
<1>8. CASE ReloadReboot(t)
  <2>1. flow[t] # Idle /\ flow[t].step = "reload"
    BY <1>8 DEF ReloadReboot, At, Idle
  <2>2. Moves(t)
    BY <1>8, <2>1 DEF ReloadReboot, Moves
  <2> QED
    BY <1>3, <1>4, <1>8, <2>1, <2>2 DEF ReloadReboot
<1>9. CASE MarkLBActive(t) \/ MarkLBDeleted(t)
  <2>1. PICK step \in {"active", "gone"}, status \in {"ACTIVE", "DELETED"} : MarkLB(t, step, status)
    BY <1>9 DEF MarkLBActive, MarkLBDeleted
  <2>2. Go(t) /\ flow[t].step \in {"active", "gone"}
        /\ UNCHANGED <<asked, due, crossed>> /\ lb' = [lb EXCEPT ![flow[t].lb] = status]
    BY <2>1 DEF MarkLB, At
  <2>3. PICK l \in LBs : l = flow[t].lb
    BY <1>5, <2>2
  <2>4. Owns(t, l) /\ ~Owns(t, l)'
        /\ (\A u \in Threads, m \in LBs : Owns(u, m)' => Owns(u, m))
        /\ \A u \in Threads \ {t} : flow'[u] = flow[u]
    BY <1>5, <2>2, <2>3 DEF After, Owns, Ops
  <2>5. l \in crossed \/ (l \notin hk.held /\ \A u \in Threads \ {t} : ~Owns(u, l))
    BY <2>3, <2>4 DEF OwnInv
  <2>6. l \in crossed \/ (l \notin hk.held /\ \A u \in Threads : ~Owns(u, l)')
    BY <2>4, <2>5
  <2>7. \A m \in LBs \ {l} : lb'[m] = lb[m]
    BY <2>2, <2>3 DEF TypeOK
  <2> QED
    BY <1>3, <2>2, <2>3, <2>4, <2>6, <2>7
<1>10. CASE SetThunderUpdatedAt(t)
  <2>1. flow'[t] = Idle /\ \A u \in Threads \ {t} : flow'[u] = flow[u]
    BY <1>10 DEF SetThunderUpdatedAt, TypeOK
  <2>2. \A u \in Threads, l \in LBs : Owns(u, l)' => Owns(u, l)
    BY <2>1, BoundAssumption DEF Owns, Idle
  <2> QED
    BY <1>3, <1>10, <2>2 DEF SetThunderUpdatedAt
<1>11. CASE FailFlow(t)
  <2>1. PICK l \in LBs : l = flow[t].lb
    BY <1>1, <1>11, BoundAssumption DEF FailFlow, Idle
  <2>2. /\ flow'[t] = Idle /\ \A u \in Threads \ {t} : flow'[u] = flow[u]
        /\ \A m \in LBs \ {l} : lb'[m] = lb[m]
        /\ UNCHANGED <<asked, due>> /\ crossed \subseteq crossed'
        /\ l \notin crossed' => l \notin hk.held /\ \A u \in Threads \ {t} : flow[u].lb # l
    BY <1>11, <2>1 DEF FailFlow, TypeOK
  <2>3. \A u \in Threads, m \in LBs : Owns(u, m)' => Owns(u, m)
    BY <2>2, BoundAssumption DEF Owns, Idle
  <2>4. l \in crossed' \/ (l \notin hk.held /\ \A u \in Threads : ~Owns(u, l)')
    BY <2>2, BoundAssumption DEF Owns, Idle
  <2> QED
    BY <1>3, <2>1, <2>2, <2>3, <2>4
<1> QED
  BY <1>2, <1>6, <1>7, <1>8, <1>9, <1>10, <1>11 DEF Worker

(* A step of the housekeeper writes what it holds, which no flow owns.     *)
LEMMA OwnHousekeeper ==
    ASSUME TypeOK, NumbersInv, OwnInv, Housekeeper
    PROVE  /\ OwnInv'
           /\ \A l \in LBs \ crossed :
                 lb[l] = "DELETED" \/ (\E t \in Threads : Owns(t, l)) => lb'[l] = lb[l]
<1> USE DEF Pass
<1>1. /\ hk \in Passes /\ hk.held \subseteq LBs /\ PassInv
      /\ UNCHANGED flow
  BY HousekeeperSteps DEF TypeOK, Passes, NumbersInv
<1>2. UNCHANGED crossed /\ \A t, l : Owns(t, l)' <=> Owns(t, l)
  BY <1>1 DEF Owns, Housekeeper, PerformMemoryWrites, CheckActive, StatusCheck, PerformWriteMemory,
     GetActiveLoadBalancers, MarkPendingUpdate, WriteMemory, WriteFails, WriteAborts,
     SetThunderLastWriteMem, MarkActive, hist
<1>3. \A l \in hk.held \ crossed : lb[l] # "DELETED" /\ \A t \in Threads : ~Owns(t, l)
  BY <1>1 DEF OwnInv
<1>4. ASSUME \A l \in LBs \ hk.held : lb'[l] = lb[l],
             \A l \in hk'.held \ crossed : l \in hk.held \/ lb[l] = "ACTIVE",
             \A l \in hk'.held \ crossed :
                /\ lb'[l] \in {"PENDING", "ACTIVE"}
                /\ lb'[l] = "PENDING" \/ hk'.step \in {"uptime", "mark"} \/ ~hk'.ok
      PROVE  /\ OwnInv'
             /\ \A l \in LBs \ crossed :
                   lb[l] = "DELETED" \/ (\E t \in Threads : Owns(t, l)) => lb'[l] = lb[l]
  <2>1. \A l \in LBs \ crossed, t \in Threads : Owns(t, l) => l \notin hk'.held
    BY <1>3, <1>4 DEF OwnInv
  <2> QED
    BY <1>1, <1>2, <1>3, <1>4, <2>1 DEF OwnInv
<1>5. ASSUME NEW l \in LBs, PerformMemoryWrites(l)
      PROVE  hk'.held = {} /\ UNCHANGED lb
  BY <1>5 DEF PerformMemoryWrites, Resting
<1>6. ASSUME NEW l \in LBs, CheckActive(l)
      PROVE  /\ UNCHANGED lb
             /\ hk'.held = {} \/ (hk'.held = {l} /\ lb[l] = "ACTIVE" /\ hk'.step = "uptime")
  BY <1>1, <1>6 DEF CheckActive, Passes, PassInv
<1>7. ASSUME NEW answers \in BOOLEAN, StatusCheck(answers)
      PROVE  hk'.held = {} /\ \A l \in LBs \ hk.held : lb'[l] = lb[l]
  BY <1>1, <1>7 DEF StatusCheck, Passes
<1>8. CASE PerformWriteMemory
  <2>1. hk'.held = {} /\ UNCHANGED lb
    BY <1>1, <1>8 DEF PerformWriteMemory, Passes, PassInv
  <2> QED
    BY <1>4, <2>1
<1>9. CASE GetActiveLoadBalancers
  <2>1. hk'.held = Active(hk.rep) /\ hk'.step = "mark" /\ UNCHANGED lb
    BY <1>1, <1>9 DEF GetActiveLoadBalancers, Passes
  <2>2. \A l \in hk'.held : lb[l] = "ACTIVE"
    BY <2>1 DEF Active
  <2> QED
    BY <1>4, <2>1, <2>2
<1>10. CASE MarkPendingUpdate \/ WriteFails
  <2>1. PICK status \in {"PENDING", "ACTIVE"} :
             MarkHeld(status) /\ hk'.held = hk.held /\ (status = "PENDING" \/ ~hk'.ok)
    <3>1. CASE MarkPendingUpdate
      BY <1>1, <3>1 DEF MarkPendingUpdate, Passes
    <3>2. CASE WriteFails
      BY <1>1, <3>2 DEF WriteFails, Passes
    <3> QED
      BY <1>10, <3>1, <3>2
  <2>2. \A l \in LBs : lb'[l] = IF l \in hk.held THEN status ELSE lb[l]
    BY <2>1 DEF MarkHeld
  <2> QED
    BY <1>1, <1>4, <2>1, <2>2
<1>11. CASE MarkActive
  <2>1. hk'.held = {} /\ \A l \in LBs \ hk.held : lb'[l] = lb[l]
    BY <1>11 DEF MarkActive, MarkHeld, Resting
  <2> QED
    BY <1>4, <2>1
<1>12. CASE WriteAborts
  <2>1. hk'.held = {} /\ UNCHANGED lb
    BY <1>12 DEF WriteAborts, Resting
  <2> QED
    BY <1>4, <2>1
<1>13. CASE WriteMemory \/ SetThunderLastWriteMem
  <2>1. /\ hk'.held = hk.held /\ hk'.ok = hk.ok /\ UNCHANGED lb
        /\ hk.step \notin {"uptime", "mark"}
    <3>1. CASE WriteMemory
      BY <1>1, <3>1 DEF WriteMemory, Passes
    <3>2. CASE SetThunderLastWriteMem
      BY <1>1, <3>2 DEF SetThunderLastWriteMem, Passes
    <3> QED
      BY <1>13, <3>1, <3>2
  <2> QED
    BY <1>4, <2>1 DEF OwnInv
<1> QED
  BY <1>4, <1>5, <1>6, <1>7, <1>8, <1>9, <1>10, <1>11, <1>12, <1>13 DEF Housekeeper

LEMMA OwnStep == TypeOK /\ NumbersInv /\ OwnInv /\ [Next]_vars => OwnInv'
<1> SUFFICES ASSUME TypeOK, NumbersInv, OwnInv, [Next]_vars PROVE OwnInv'
  OBVIOUS
<1>1. ASSUME Restart \/ Tick \/ UNCHANGED vars
      PROVE  OwnInv'
  BY <1>1 DEF Restart, Tick, vars, hist, OwnInv, Owns
<1> QED
  BY <1>1, OwnWorker, OwnHousekeeper DEF Next

(* A pass of the housekeeper leaves alone what a flow works on and what is *)
(* gone, unless it was asked for, or failed, between a read and a write of *)
(* the pass.                                                               *)
THEOREM RequestsAreSpared == Spec => HousekeeperSparesRequests
<1> DEFINE IInv == TypeOK /\ NumbersInv /\ OwnInv
           Spares == \A l \in LBs \ crossed :
                        (hk' # hk /\ (lb[l] = "DELETED" \/ \E t \in Threads : Owns(t, l)))
                            => lb'[l] = lb[l]
<1>1. Init => IInv
  BY InitTypeOK, NumbersInit, BoundAssumption DEF Init, OwnInv, Owns, Idle, Resting
<1>2. IInv /\ [Next]_vars => IInv'
  BY TypeStep, NumbersStep, OwnStep DEF NumbersInv
<1>3. IInv /\ [Next]_vars => [Spares]_vars
  <2> SUFFICES ASSUME IInv, Next PROVE Spares
    OBVIOUS
  <2>1. ASSUME Restart \/ Tick \/ \E t \in Threads : Worker(t)
        PROVE  UNCHANGED hk
    BY <2>1, WorkerSteps DEF Restart, Tick
  <2> QED
    BY <2>1, OwnHousekeeper DEF Next
<1> HIDE DEF IInv
<1> QED
  BY <1>1, <1>2, <1>3, PTL DEF Spec, HousekeeperSparesRequests

-----------------------------------------------------------------------------
(* A load balancer that is ACTIVE, that the housekeeper holds, or whose    *)
(* flow is on its way to ACTIVE has an ACTIVE row: a deletion that marked  *)
(* the row ends with the load balancer deleted or in ERROR.                *)
Serves(t, l) == Owns(t, l) /\ flow[t].op # "delete" /\ flow[t].step # "row"
Serving(l) == lb[l] = "ACTIVE" \/ l \in hk.held \/ \E t \in Threads : Serves(t, l)
ServingInv ==
    /\ \A t \in Threads : /\ flow[t].step \in {"drop", "gone"} => flow[t].op = "delete"
                          /\ flow[t].step = "active" => flow[t].op # "delete"
    /\ \A l \in LBs \ crossed : Serving(l) => row[l].status = "ACTIVE"

LEMMA ServingInit == Init => ServingInv
BY BoundAssumption DEF Init, ServingInv, Serving, Serves, Owns, Idle, Resting

LEMMA ServingWorker ==
    ASSUME TypeOK, NumbersInv, OwnInv, ServingInv, NEW t \in Threads, Worker(t)
    PROVE  ServingInv'
<1> USE DEF device, hist
<1>1. /\ UNCHANGED hk /\ flow[t] \in Flows
      /\ \A u \in Threads : flow[u] # Idle => flow[u].lb \in LBs /\ flow[u].op \in Ops
  BY WorkerSteps DEF TypeOK, NumbersInv, FlowInv
<1>2. \A l \in LBs : row[l] \in Rows
  BY DEF TypeOK
<1>3. ASSUME \A u \in Threads \ {t} : flow'[u] = flow[u], crossed \subseteq crossed',
             flow'[t].step \in {"drop", "gone"} => flow'[t].op = "delete",
             flow'[t].step = "active" => flow'[t].op # "delete",
             \A l \in LBs \ crossed' :
                \/ row'[l].status = "ACTIVE"
                \/ ~Serving(l)'
                \/ /\ row'[l].status = row[l].status
                   /\ lb'[l] = "ACTIVE" => Serving(l)
                   /\ Serves(t, l)' => Serving(l)
      PROVE  ServingInv'
  <2>1. \A u \in Threads \ {t}, l \in LBs : Serves(u, l)' <=> Serves(u, l)
    BY <1>3 DEF Serves, Owns
  <2>2. \A l \in LBs \ crossed' : Serving(l)' => row'[l].status = "ACTIVE"
    <3> SUFFICES ASSUME NEW l \in LBs \ crossed', Serving(l)', row'[l].status # "ACTIVE"
                 PROVE  FALSE
      OBVIOUS
    <3>1. /\ row'[l].status = row[l].status
          /\ lb'[l] = "ACTIVE" => Serving(l)
          /\ Serves(t, l)' => Serving(l)
      BY <1>3
    <3>2. Serving(l)
      BY <1>1, <2>1, <3>1 DEF Serving
    <3> QED
      BY <1>3, <3>1, <3>2 DEF ServingInv
  <2> QED
    BY <1>3, <2>2 DEF ServingInv
<1>4. ASSUME NEW l \in LBs, CreateLb(t, l) \/ UpdateListener(t, l) \/ DeleteLb(t, l)
      PROVE  ServingInv'
  <2>1. PICK op, step : /\ Request(t, op, l, step)
                        /\ \/ op = "create" /\ step = "row"
                           \/ op = "delete" /\ step = "row"
                           \/ op = "update" /\ step = "change" /\ lb[l] = "ACTIVE"
    BY <1>4 DEF CreateLb, UpdateListener, DeleteLb
  <2>2. /\ flow'[t] = [op |-> op, lb |-> l, nr |-> asked[l] + 1, step |-> step]
        /\ \A u \in Threads \ {t} : flow'[u] = flow[u]
        /\ \A m \in LBs : lb'[m] = "ACTIVE" => lb[m] = "ACTIVE"
        /\ UNCHANGED row /\ crossed \subseteq crossed'
    BY <2>1 DEF Request, TypeOK
  <2>3. \A m \in LBs : Serves(t, m)' => lb[m] = "ACTIVE"
    BY <2>1, <2>2 DEF Serves, Owns
  <2>4. /\ flow'[t].step \in {"drop", "gone"} => flow'[t].op = "delete"
        /\ flow'[t].step = "active" => flow'[t].op # "delete"
    BY <2>1, <2>2
  <2> QED
    BY <1>3, <2>2, <2>3, <2>4 DEF Serving
<1>5. CASE CreateVThunderEntry(t)
  <2>1. /\ flow[t] # Idle /\ flow[t].lb \in LBs /\ flow[t].op = "create"
        /\ UNCHANGED <<lb, crossed>>
    BY <1>1, <1>5 DEF CreateVThunderEntry, At, Idle
  <2>2. /\ flow'[t].lb = flow[t].lb /\ flow'[t].op = "create" /\ flow'[t].step = "active"
        /\ \A u \in Threads \ {t} : flow'[u] = flow[u]
    BY <1>1, <1>5 DEF CreateVThunderEntry, At, Go, After, TypeOK, Flows
  <2>3. row'[flow[t].lb].status = "ACTIVE" /\ \A l \in LBs \ {flow[t].lb} : row'[l] = row[l]
    BY <1>5, <2>1 DEF CreateVThunderEntry, TypeOK
  <2>4. \A l \in LBs \ {flow[t].lb} : ~Serves(t, l)'
    BY <2>2 DEF Serves, Owns
  <2> QED
    BY <1>3, <2>1, <2>2, <2>3, <2>4 DEF Serving
<1>6. CASE MarkPendingDelete(t) \/ MarkVThunderDeleted(t)
  <2>1. PICK status \in {"PENDING_DELETE", "DELETED"} : MarkVThunderStatus(t, status)
    BY <1>6 DEF MarkPendingDelete, MarkVThunderDeleted
  <2>2. /\ flow[t] # Idle /\ flow[t].lb \in LBs /\ flow[t].op = "delete"
        /\ flow[t].step \in {"row", "drop"} /\ UNCHANGED <<lb, crossed>>
    BY <1>1, <1>6, <2>1 DEF MarkPendingDelete, MarkVThunderDeleted, MarkVThunderStatus, At, Idle, ServingInv
  <2>3. PICK l \in LBs : l = flow[t].lb
    BY <2>2
  <2>4. /\ flow'[t].lb = flow[t].lb /\ flow'[t].op = "delete"
        /\ flow'[t].step \in {"change", "gone"}
        /\ \A u \in Threads \ {t} : flow'[u] = flow[u]
    BY <1>1, <2>1, <2>2 DEF MarkVThunderStatus, Go, After, TypeOK, Flows
  <2>5. \A m \in LBs \ {l} : row'[m] = row[m]
    BY <2>1, <2>3 DEF MarkVThunderStatus, TypeOK
  <2>6. Owns(t, l)
    BY <2>2, <2>3 DEF Owns, Ops
  <2>7. l \in crossed \/ ~Serving(l)'
    <3>1. l \in crossed \/ (lb[l] = "PENDING" /\ l \notin hk.held /\ \A u \in Threads \ {t} : ~Owns(u, l))
      BY <2>6 DEF OwnInv
    <3>2. \A u \in Threads \ {t} : Owns(u, l)' <=> Owns(u, l)
      BY <2>4 DEF Owns
    <3> QED
      BY <1>1, <2>2, <2>4, <3>1, <3>2 DEF Serving, Serves
  <2>8. \A m \in LBs : ~Serves(t, m)'
    BY <2>4 DEF Serves
  <2> QED
    BY <1>3, <2>2, <2>4, <2>5, <2>7, <2>8 DEF Serving
<1>7. ASSUME \A u \in Threads \ {t} : flow'[u] = flow[u], UNCHANGED crossed,
             flow'[t].lb = flow[t].lb /\ flow'[t].op = flow[t].op,
             flow'[t].step \in {"drop", "gone"} => flow'[t].op = "delete",
             flow'[t].step = "active" => flow'[t].op # "delete",
             \A l \in LBs : row'[l].status = row[l].status,
             \A l \in LBs : lb'[l] = "ACTIVE" => Serving(l),
             flow[t].step # "row", flow'[t].op = "delete" \/ flow'[t].step = "stamp" \/ Owns(t, flow[t].lb)
      PROVE  ServingInv'
  <2>1. \A l \in LBs : Serves(t, l)' => Serving(l)
    BY <1>7 DEF Serving, Serves, Owns, Ops
  <2> QED
    BY <1>3, <1>7, <2>1
<1>8. CASE PostNetworkPlug(t) \/ ReloadReboot(t) \/ ChangeDevice(t)
  <2>1. /\ flow[t] # Idle /\ flow[t].op \in Ops /\ flow[t].lb \in LBs
        /\ flow[t].step \in {"active", "reload", "change"}
        /\ UNCHANGED <<lb, crossed>>
    BY <1>1, <1>8 DEF PostNetworkPlug, ReloadReboot, ChangeDevice, At, Idle
  <2>2. \A l \in LBs : row'[l].status = row[l].status
    BY <1>2, <1>8 DEF PostNetworkPlug, ReloadReboot, ChangeDevice, UpdateLastWriteMem, Stamped, Rows
  <2>3. /\ \A u \in Threads \ {t} : flow'[u] = flow[u]
        /\ flow'[t].lb = flow[t].lb /\ flow'[t].op = flow[t].op
        /\ flow'[t].step \in {"drop", "gone"} => flow'[t].op = "delete"
        /\ flow'[t].step = "active" => flow'[t].op # "delete"
        /\ <<flow[t].op, flow[t].step>> = <<"create", "change">> => flow'[t].step = "stamp"
    <3>1. CASE PostNetworkPlug(t)
      BY <1>1, <3>1 DEF PostNetworkPlug, TypeOK, Flows
    <3>2. CASE ReloadReboot(t)
      BY <1>1, <3>2 DEF ReloadReboot, At, TypeOK, Flows
    <3>3. CASE ChangeDevice(t)
      BY <1>1, <2>1, <3>3 DEF ChangeDevice, At, Go, After, Ops, TypeOK, Flows
    <3> QED
      BY <1>8, <3>1, <3>2, <3>3
  <2>4. flow'[t].step = "stamp" \/ Owns(t, flow[t].lb)
    BY <2>1, <2>3 DEF Owns, Ops
  <2> QED
    BY <1>7, <2>1, <2>2, <2>3, <2>4 DEF Serving
<1>9. CASE MarkLBActive(t) \/ MarkLBDeleted(t)
  <2>1. PICK step \in {"active", "gone"}, status \in {"ACTIVE", "DELETED"} :
             MarkLB(t, step, status) /\ (status = "ACTIVE" => step = "active")
    BY <1>9 DEF MarkLBActive, MarkLBDeleted
  <2>2. /\ flow[t] # Idle /\ flow[t].op \in Ops /\ flow[t].lb \in LBs /\ flow[t].step = step
        /\ UNCHANGED <<row, crossed>>
    BY <1>1, <2>1 DEF MarkLB, At, Idle
  <2>3. Owns(t, flow[t].lb) /\ (status = "ACTIVE" => Serves(t, flow[t].lb))
    BY <2>1, <2>2 DEF Owns, Serves, Ops, ServingInv
  <2>4. \A l \in LBs : lb'[l] = "ACTIVE" => Serving(l)
    BY <2>1, <2>3 DEF MarkLB, Serving, TypeOK
  <2>5. /\ \A u \in Threads \ {t} : flow'[u] = flow[u]
        /\ flow'[t].lb = flow[t].lb /\ flow'[t].op = flow[t].op
        /\ flow'[t].step \in {"change", "stamp"}
    BY <1>1, <2>1, <2>2 DEF MarkLB, Go, After, TypeOK, Flows
  <2> QED
    BY <1>7, <2>1, <2>2, <2>3, <2>4, <2>5
<1>10. CASE SetThunderUpdatedAt(t)
  <2>1. flow'[t] = Idle /\ \A u \in Threads \ {t} : flow'[u] = flow[u]
    BY <1>10 DEF SetThunderUpdatedAt, TypeOK
  <2>2. (\A l \in LBs : row'[l].status = row[l].status) /\ UNCHANGED <<lb, crossed>>
    BY <1>2, <1>10 DEF SetThunderUpdatedAt, TypeOK, Rows
  <2>3. (\A l \in LBs : ~Serves(t, l)') /\ flow'[t].step = "idle"
    BY <2>1, BoundAssumption DEF Serves, Owns, Idle
  <2> QED
    BY <1>3, <2>1, <2>2, <2>3 DEF Serving
<1>11. CASE FailFlow(t)
  <2>1. PICK l \in LBs : l = flow[t].lb
    BY <1>1, <1>11 DEF FailFlow
  <2>2. /\ flow'[t] = Idle /\ \A u \in Threads \ {t} : flow'[u] = flow[u]
        /\ \A m \in LBs \ {l} : lb'[m] = lb[m] /\ row'[m] = row[m]
        /\ lb'[l] = "ACTIVE" => flow[t].op = "update" /\ row'[l] = row[l]
        /\ crossed \subseteq crossed'
        /\ l \notin crossed' => /\ l \notin hk.held /\ \A u \in Threads \ {t} : flow[u].lb # l
                                /\ flow[t].op = "update" => row[l].status = "ACTIVE"
    BY <1>11, <2>1 DEF FailFlow, RevertedStatus, TypeOK
  <2>3. (\A m \in LBs : ~Serves(t, m)') /\ flow'[t].step = "idle"
    BY <2>2, BoundAssumption DEF Serves, Owns, Idle
  <2>4. l \in crossed' \/ ~Serving(l)' \/ row'[l].status = "ACTIVE"
    <3>1. l \notin crossed' => \A u \in Threads \ {t} : ~Serves(u, l)'
      BY <2>2 DEF Serves, Owns
    <3> QED
      BY <1>1, <2>2, <2>3, <3>1 DEF Serving
  <2> QED
    BY <1>3, <2>2, <2>3, <2>4 DEF Serving
<1> QED
  BY <1>4, <1>5, <1>6, <1>8, <1>9, <1>10, <1>11 DEF Worker

LEMMA ServingStep ==
    ASSUME TypeOK, NumbersInv, RowInv, OwnInv, ServingInv, [Next]_vars
    PROVE  ServingInv'
<1>1. ASSUME UNCHANGED <<flow, crossed>>, \A l \in LBs : row'[l].status = row[l].status,
             \A l \in LBs : lb'[l] = "ACTIVE" \/ l \in hk'.held => lb[l] = "ACTIVE" \/ l \in hk.held
      PROVE  ServingInv'
  <2>1. \A l \in LBs : Serving(l)' => Serving(l)
    BY <1>1 DEF Serving, Serves, Owns
  <2> QED
    BY <1>1, <2>1 DEF ServingInv
<1>2. CASE Restart \/ Tick \/ UNCHANGED vars
  BY <1>1, <1>2 DEF Restart, Tick, vars, hist
<1>3. CASE Housekeeper
  BY <1>1, <1>3, HousekeeperHolds
<1> QED
  BY <1>2, <1>3, ServingWorker DEF Next

-----------------------------------------------------------------------------
(* A deletion leaves no ACTIVE row, and no load balancer that is DELETED   *)
(* or not yet created has one.                                             *)
GoneInv ==
    /\ \A t \in Threads :
          flow[t].op = "delete" /\ flow[t].step # "row" => row[flow[t].lb].status # "ACTIVE"
    /\ \A l \in LBs \ crossed :
          lb[l] \in {"NEW", "DELETED"} => row[l].status # "ACTIVE"

LEMMA GoneInit == Init => GoneInv
BY DEF Init, GoneInv, NoRow, Idle

LEMMA GoneWorker ==
    ASSUME TypeOK, NumbersInv, OwnInv, ServingInv, GoneInv, NEW t \in Threads, Worker(t)
    PROVE  GoneInv'
<1> USE DEF device, hist
<1>1. /\ flow[t] \in Flows
      /\ \A u \in Threads : flow[u] # Idle => flow[u].lb \in LBs /\ flow[u].op \in Ops
      /\ \A l \in LBs : row[l] \in Rows
  BY DEF TypeOK, NumbersInv, FlowInv
<1>2. ASSUME \A u \in Threads \ {t} : flow'[u] = flow[u], crossed \subseteq crossed',
             \A l \in LBs : row'[l].status = "ACTIVE" => row[l].status = "ACTIVE",
             flow'[t].op = "delete" /\ flow'[t].step # "row" => row'[flow'[t].lb].status # "ACTIVE",
             \A l \in LBs \ crossed' :
                lb'[l] \in {"NEW", "DELETED"} /\ lb'[l] # lb[l] => row[l].status # "ACTIVE"
      PROVE  GoneInv'
  <2>1. ASSUME NEW u \in Threads \ {t}, flow[u].op = "delete", flow[u].step # "row"
        PROVE  row'[flow[u].lb].status # "ACTIVE"
    <3>1. flow[u].lb \in LBs
      BY <1>1, <2>1 DEF Idle
    <3> QED
      BY <1>2, <2>1, <3>1 DEF GoneInv
  <2> QED
    BY <1>2, <2>1 DEF GoneInv
<1>3. ASSUME NEW l \in LBs, CreateLb(t, l) \/ UpdateListener(t, l) \/ DeleteLb(t, l)
      PROVE  GoneInv'
  <2>1. PICK op, step : Request(t, op, l, step) /\ (op = "delete" => step = "row")
    BY <1>3 DEF CreateLb, UpdateListener, DeleteLb
  <2>2. /\ flow'[t].op = op /\ flow'[t].step = step /\ \A u \in Threads \ {t} : flow'[u] = flow[u]
        /\ \A m \in LBs : lb'[m] \in {"NEW", "DELETED"} => lb'[m] = lb[m]
        /\ UNCHANGED row /\ crossed \subseteq crossed'
    BY <2>1 DEF Request, TypeOK
  <2> QED
    BY <1>2, <2>1, <2>2
<1>4. ASSUME Go(t)
      PROVE  /\ flow'[t].lb = flow[t].lb /\ flow'[t].op = flow[t].op
             /\ \A u \in Threads \ {t} : flow'[u] = flow[u]
  BY <1>1, <1>4 DEF Go, TypeOK, Flows
<1>5. CASE CreateVThunderEntry(t)
  <2>1. PICK l \in LBs : l = flow[t].lb
    BY <1>1, <1>5 DEF CreateVThunderEntry, At, Idle
  <2>2. /\ \A m \in LBs \ {l} : row'[m] = row[m]
        /\ UNCHANGED <<lb, crossed>> /\ flow[t].op = "create" /\ flow[t].step = "row" /\ Go(t)
    BY <1>5, <2>1 DEF CreateVThunderEntry, At, TypeOK
  <2>3. \A u \in Threads \ {t} : flow[u].lb # l
    BY <2>1, <2>2, CreatesAlone
  <2>4. l \notin crossed => lb[l] = "PENDING"
    BY <2>1, <2>2 DEF OwnInv, Owns, Ops
  <2>5. ASSUME NEW u \in Threads, flow'[u].op = "delete", flow'[u].step # "row"
        PROVE  row'[flow'[u].lb].status # "ACTIVE"
    <3>1. flow'[u] = flow[u] /\ flow[u].lb # l /\ flow[u].lb \in LBs
      BY <1>1, <1>4, <2>2, <2>3, <2>5 DEF Idle
    <3> QED
      BY <2>2, <2>5, <3>1 DEF GoneInv
  <2>6. ASSUME NEW m \in LBs \ crossed, lb[m] \in {"NEW", "DELETED"}
        PROVE  row'[m].status # "ACTIVE"
    <3>1. m # l
      BY <2>4, <2>6
    <3> QED
      BY <2>2, <2>6, <3>1 DEF GoneInv
  <2> QED
    BY <2>2, <2>5, <2>6 DEF GoneInv
<1>6. CASE MarkPendingDelete(t) \/ MarkVThunderDeleted(t)
  <2>1. PICK status \in {"PENDING_DELETE", "DELETED"} : MarkVThunderStatus(t, status)
    BY <1>6 DEF MarkPendingDelete, MarkVThunderDeleted
  <2>2. flow[t].lb \in LBs
    BY <1>1, <1>6 DEF MarkPendingDelete, MarkVThunderDeleted, At, Idle
  <2>3. /\ row'[flow[t].lb].status # "ACTIVE" /\ \A l \in LBs \ {flow[t].lb} : row'[l] = row[l]
        /\ UNCHANGED <<lb, crossed>> /\ Go(t)
    BY <1>1, <2>1, <2>2 DEF MarkVThunderStatus, TypeOK, Rows
  <2> QED
    BY <1>2, <1>4, <2>2, <2>3
<1>7. CASE PostNetworkPlug(t) \/ ReloadReboot(t) \/ ChangeDevice(t) \/ SetThunderUpdatedAt(t)
  <2>1. /\ \A l \in LBs : row'[l].status = row[l].status
        /\ UNCHANGED <<lb, crossed>> /\ flow[t] # Idle /\ flow[t].step # "row"
    BY <1>1, <1>7 DEF PostNetworkPlug, ReloadReboot, ChangeDevice, SetThunderUpdatedAt,
       UpdateLastWriteMem, Stamped, Rows, At, Idle, TypeOK
  <2>2. /\ \A u \in Threads \ {t} : flow'[u] = flow[u]
        /\ flow'[t].op = "delete" => flow'[t].lb = flow[t].lb /\ flow[t].op = "delete"
    <3>1. CASE PostNetworkPlug(t) \/ ReloadReboot(t)
      BY <1>1, <3>1 DEF PostNetworkPlug, ReloadReboot, TypeOK, Flows
    <3>2. CASE ChangeDevice(t)
      BY <1>4, <3>2 DEF ChangeDevice
    <3>3. CASE SetThunderUpdatedAt(t)
      BY <3>3 DEF SetThunderUpdatedAt, Idle, TypeOK
    <3> QED
      BY <1>7, <3>1, <3>2, <3>3
  <2>3. flow'[t].op = "delete" => row'[flow'[t].lb].status # "ACTIVE"
    BY <1>1, <2>1, <2>2 DEF GoneInv
  <2> QED
    BY <1>2, <2>1, <2>2, <2>3
<1>8. CASE MarkLBActive(t) \/ MarkLBDeleted(t)
  <2>1. PICK step \in {"active", "gone"}, status \in {"ACTIVE", "DELETED"} :
             MarkLB(t, step, status) /\ (status = "DELETED" => step = "gone")
    BY <1>8 DEF MarkLBActive, MarkLBDeleted
  <2>2. /\ flow[t] # Idle /\ flow[t].lb \in LBs /\ flow[t].step = step /\ Go(t)
        /\ UNCHANGED <<row, crossed>> /\ lb' = [lb EXCEPT ![flow[t].lb] = status]
    BY <1>1, <2>1 DEF MarkLB, At, Idle
  <2>3. /\ flow[t].op = "delete" => row[flow[t].lb].status # "ACTIVE"
        /\ status = "DELETED" => flow[t].op = "delete"
    BY <2>1, <2>2 DEF GoneInv, ServingInv
  <2>4. \A l \in LBs : lb'[l] \in {"NEW", "DELETED"} /\ lb'[l] # lb[l] => row[l].status # "ACTIVE"
    BY <2>2, <2>3 DEF TypeOK
  <2> QED
    BY <1>2, <1>4, <2>2, <2>3, <2>4
<1>9. CASE FailFlow(t)
  <2>1. PICK l \in LBs : l = flow[t].lb
    BY <1>1, <1>9 DEF FailFlow
  <2>2. /\ flow'[t] = Idle /\ (\A u \in Threads \ {t} : flow'[u] = flow[u])
        /\ crossed \subseteq crossed'
        /\ \A m \in LBs : lb'[m] \in {"NEW", "DELETED"} => lb'[m] = lb[m]
        /\ \A m \in LBs : row'[m] = row[m] \/ row'[m] = NoRow
    BY <1>9, <2>1 DEF FailFlow, RevertedStatus, TypeOK
  <2> QED
    BY <1>2, <2>2 DEF Idle, NoRow
<1> QED
  BY <1>3, <1>5, <1>6, <1>7, <1>8, <1>9 DEF Worker

LEMMA GoneStep ==
    ASSUME TypeOK, NumbersInv, RowInv, OwnInv, ServingInv, GoneInv, [Next]_vars
    PROVE  GoneInv'
<1>1. ASSUME UNCHANGED <<flow, crossed>>, \A l \in LBs : row'[l].status = row[l].status,
             \A l \in LBs : lb'[l] \in {"NEW", "DELETED"} => lb'[l] = lb[l]
      PROVE  GoneInv'
  <2>1. \A t \in Threads : flow[t].op = "delete" => flow[t].lb \in LBs
    BY DEF NumbersInv, FlowInv, Idle
  <2> QED
    BY <1>1, <2>1 DEF GoneInv
<1>2. CASE Restart \/ Tick \/ UNCHANGED vars
  BY <1>1, <1>2 DEF Restart, Tick, vars, hist
<1>3. CASE Housekeeper
  <2>1. \A l \in LBs : lb'[l] \in {"NEW", "DELETED"} => lb'[l] = lb[l]
    BY <1>3 DEF Housekeeper, PerformMemoryWrites, CheckActive, StatusCheck, PerformWriteMemory,
       GetActiveLoadBalancers, MarkPendingUpdate, WriteMemory, WriteFails, WriteAborts,
       SetThunderLastWriteMem, MarkActive, MarkHeld, Pass
  <2> QED
    BY <1>1, <1>3, <2>1, HousekeeperHolds
<1> QED
  BY <1>2, <1>3, GoneWorker DEF Next

-----------------------------------------------------------------------------
(* A loss that the check can see, of a load balancer that is ACTIVE or     *)
(* will be when an update ends, arose between passes: a pass since then    *)
(* has it still to check, with the time it read.                           *)
Endangered(l) ==
    /\ Lost(l) /\ lb[l] \in {"ACTIVE", "PENDING"} /\ row[l].status = "ACTIVE"
    /\ \A t \in Threads : flow[t].lb = l => flow[t].op = "update"
ToCheck(l) ==
    \/ hk.step = "idle"
    \/ /\ hk.step \in {"check", "uptime"} /\ l \in hk.check \cup hk.held
       /\ hk.snap[l] = row[l].updated
Found(l) == Recent(row[l]) /\ started > row[l].updated /\ ToCheck(l)
LossInv ==
    /\ saved \subseteq running
    /\ \A l \in LBs \ (masked \cup crossed) : Endangered(l) => Found(l)

LEMMA LossWorker ==
    ASSUME TypeOK, NumbersInv, OwnInv, ServingInv, GoneInv, LossInv, NEW t \in Threads, Worker(t)
    PROVE  LossInv'
<1> USE DEF device, hist
<1>1. /\ UNCHANGED hk /\ flow[t] \in Flows
      /\ \A u \in Threads : flow[u] # Idle => flow[u].lb \in LBs /\ flow[u].op \in Ops
      /\ \A l \in LBs : row[l] \in Rows
  BY WorkerSteps DEF TypeOK, NumbersInv, FlowInv
<1>2. ASSUME saved' \subseteq running', masked \cup crossed \subseteq masked' \cup crossed',
             \A l \in LBs \ (masked' \cup crossed') : Endangered(l)' =>
                Endangered(l) /\ row'[l] = row[l] /\ UNCHANGED started
      PROVE  LossInv'
  <2>1. ASSUME NEW l \in LBs \ (masked' \cup crossed'), Endangered(l)'
        PROVE  Found(l)'
    <3>1. Endangered(l) /\ row'[l] = row[l] /\ UNCHANGED started
      BY <1>2, <2>1
    <3>2. Found(l)
      BY <1>2, <3>1 DEF LossInv
    <3> QED
      BY <1>1, <3>1, <3>2 DEF Found, ToCheck, Recent
  <2> QED
    BY <1>2, <2>1 DEF LossInv
<1>3. ASSUME NEW l \in LBs, CreateLb(t, l) \/ UpdateListener(t, l) \/ DeleteLb(t, l)
      PROVE  LossInv'
  <2>1. PICK op, step : Request(t, op, l, step) /\ (op = "update" => lb[l] = "ACTIVE")
    BY <1>3 DEF CreateLb, UpdateListener, DeleteLb
  <2>2. /\ flow[t] = Idle /\ flow'[t].lb = l /\ flow'[t].op = op
        /\ \A u \in Threads \ {t} : flow'[u] = flow[u]
        /\ \A m \in LBs \ {l} : lb'[m] = lb[m]
        /\ UNCHANGED <<row, due, running, saved, started, masked>> /\ crossed \subseteq crossed'
    BY <2>1 DEF Request, TypeOK
  <2>3. ASSUME NEW m \in LBs, Endangered(m)'
        PROVE  Endangered(m)
    <3>1. lb[m] \in {"ACTIVE", "PENDING"}
      BY <2>1, <2>2, <2>3 DEF Endangered
    <3>2. \A u \in Threads : flow[u].lb = m => flow[u].op = "update"
      BY <2>2, <2>3, BoundAssumption DEF Endangered, Idle
    <3> QED
      BY <2>2, <2>3, <3>1, <3>2 DEF Endangered, Lost
  <2> QED
    BY <1>2, <2>2, <2>3 DEF LossInv
<1>4. ASSUME Go(t), flow[t] # Idle
      PROVE  /\ flow'[t].lb = flow[t].lb /\ flow'[t].op = flow[t].op
             /\ \A u \in Threads \ {t} : flow'[u] = flow[u]
             /\ \A l \in LBs : (\A u \in Threads : flow'[u].lb = l => flow'[u].op = "update")
                                => \A u \in Threads : flow[u].lb = l => flow[u].op = "update"
  BY <1>1, <1>4 DEF Go, TypeOK, Flows
<1>5. CASE CreateVThunderEntry(t) \/ MarkPendingDelete(t) \/ MarkVThunderDeleted(t)
  <2>1. /\ Go(t) /\ UNCHANGED <<due, running, saved, started, crossed, lb>> /\ masked \subseteq masked'
        /\ \A m \in LBs \ {flow[t].lb} : row'[m] = row[m]
    BY <1>5 DEF CreateVThunderEntry, MarkPendingDelete, MarkVThunderDeleted, MarkVThunderStatus,
       TypeOK, Hidden
  <2>2. flow[t] # Idle /\ flow[t].op # "update"
    BY <1>5 DEF CreateVThunderEntry, MarkPendingDelete, MarkVThunderDeleted, At, ServingInv, Idle
  <2>3. \A m \in LBs : Endangered(m)' => Endangered(m) /\ m # flow[t].lb
    BY <1>4, <2>1, <2>2 DEF Endangered, Lost
  <2> QED
    BY <1>2, <2>1, <2>3 DEF LossInv
<1>6. CASE ChangeDevice(t)
  <2>1. /\ Go(t) /\ UNCHANGED <<due, saved, started, crossed, masked, lb, row>>
        /\ running \subseteq running' /\ flow[t] # Idle
    BY <1>6 DEF ChangeDevice, At, Idle
  <2>2. \A m \in LBs : Endangered(m)' => Endangered(m)
    BY <1>4, <2>1 DEF Endangered, Lost
  <2> QED
    BY <1>2, <2>1, <2>2 DEF LossInv
<1>7. CASE MarkLBActive(t) \/ MarkLBDeleted(t)
  <2>1. PICK step \in {"active", "gone"}, status \in {"ACTIVE", "DELETED"} : MarkLB(t, step, status)
    BY <1>7 DEF MarkLBActive, MarkLBDeleted
  <2>2. /\ flow[t] # Idle /\ flow[t].lb \in LBs /\ flow[t].op \in Ops /\ flow[t].step = step /\ Go(t)
        /\ UNCHANGED <<row, due, running, saved, started, masked, crossed>>
        /\ \A m \in LBs \ {flow[t].lb} : lb'[m] = lb[m]
    BY <1>1, <2>1 DEF MarkLB, At, Idle, TypeOK
  <2>3. flow[t].lb \notin crossed => lb[flow[t].lb] = "PENDING"
    BY <2>1, <2>2 DEF OwnInv, Owns, Ops
  <2>4. \A m \in LBs \ crossed : Endangered(m)' => Endangered(m)
    BY <1>4, <2>2, <2>3 DEF Endangered, Lost
  <2> QED
    BY <1>2, <2>2, <2>4 DEF LossInv
<1>8. CASE PostNetworkPlug(t) \/ ReloadReboot(t)
  <2>1. \A l \in LBs : Lost(l)' => l \in masked'
    BY <1>8 DEF PostNetworkPlug, ReloadReboot, Lost, LossInv
  <2>2. saved' \subseteq running' /\ masked \subseteq masked' /\ UNCHANGED crossed
    BY <1>8 DEF PostNetworkPlug, ReloadReboot
  <2> QED
    BY <1>2, <2>1, <2>2 DEF Endangered
<1>9. CASE SetThunderUpdatedAt(t)
  <2>1. PICK l \in LBs : l = flow[t].lb
    BY <1>1, <1>9 DEF SetThunderUpdatedAt, At, Idle
  <2>2. /\ flow'[t] = Idle /\ \A u \in Threads \ {t} : flow'[u] = flow[u]
        /\ due' = due \cup {Change(t)} /\ UNCHANGED <<running, saved, started, lb, crossed>>
        /\ masked' = (IF Change(t) \notin running \cup saved THEN masked \cup {l} ELSE Hidden(l))
        /\ \A m \in LBs \ {l} : row'[m] = row[m]
    BY <1>9, <2>1 DEF SetThunderUpdatedAt, TypeOK
  <2>3. Change(t)[1] = l /\ masked \subseteq masked'
    BY <2>1, <2>2 DEF Change, Hidden
  <2>4. Lost(l)' => l \in masked'
    <3> SUFFICES ASSUME NEW c \in due', c[1] = l, c \notin running \cup saved
                 PROVE  l \in masked'
      BY <2>2 DEF Lost
    <3>1. c # Change(t) => Lost(l)
      BY <2>2 DEF Lost
    <3> QED
      BY <2>2, <3>1 DEF Hidden
  <2>5. \A m \in LBs \ {l} : Endangered(m)' => Endangered(m)
    BY <2>1, <2>2, <2>3 DEF Endangered, Lost
  <2>6. \A m \in LBs \ (masked' \cup crossed') : Endangered(m)' => m # l
    BY <2>4 DEF Endangered
  <2> QED
    BY <1>2, <2>2, <2>3, <2>5, <2>6 DEF LossInv
<1>10. CASE FailFlow(t)
  <2>1. PICK l \in LBs : l = flow[t].lb
    BY <1>1, <1>10 DEF FailFlow
  <2>2. /\ flow'[t] = Idle /\ \A u \in Threads \ {t} : flow'[u] = flow[u]
        /\ \A m \in LBs \ {l} : lb'[m] = lb[m] /\ row'[m] = row[m]
        /\ UNCHANGED <<due, running, saved, started>>
        /\ masked \subseteq masked' /\ crossed \subseteq crossed'
        /\ lb'[l] \in {"ACTIVE", "PENDING"} => flow[t].op = "update" /\ row'[l] = row[l]
        /\ flow[t].op = "update" /\ lb[l] = "ERROR" => l \in masked'
    BY <1>10, <2>1 DEF FailFlow, RevertedStatus, TypeOK
  <2>3. lb[l] \in {"NEW", "DELETED"} /\ l \notin crossed => row[l].status # "ACTIVE"
    BY DEF GoneInv
  <2>4. ASSUME NEW m \in LBs \ (masked' \cup crossed'), Endangered(m)'
        PROVE  Endangered(m) /\ row'[m] = row[m]
    <3>1. row'[m] = row[m] /\ (m = l => flow[t].op = "update")
      BY <2>2, <2>4 DEF Endangered
    <3>2. lb[m] \in {"ACTIVE", "PENDING"}
      BY <2>2, <2>3, <2>4, <3>1 DEF Endangered, TypeOK
    <3> QED
      BY <2>1, <2>2, <2>4, <3>1, <3>2 DEF Endangered, Lost
  <2> QED
    BY <1>2, <2>2, <2>4 DEF LossInv
<1> QED
  BY <1>3, <1>5, <1>6, <1>7, <1>8, <1>9, <1>10 DEF Worker

LEMMA LossHousekeeper ==
    ASSUME TypeOK, NumbersInv, RowInv, OwnInv, LossInv, Housekeeper
    PROVE  LossInv'
<1> USE DEF Pass
<1>1. /\ hk \in Passes /\ hk.snap \in [LBs -> Times] /\ started \in Nat
      /\ UNCHANGED <<flow, crossed, due, running, started>> /\ masked \subseteq masked'
      /\ \A l \in LBs : row'[l].status = row[l].status
  BY HousekeeperHolds, BoundAssumption DEF TypeOK, Passes, Times
<1>2. saved' \in {saved, running} /\ saved' \subseteq running'
  BY <1>1 DEF Housekeeper, PerformMemoryWrites, CheckActive, StatusCheck, PerformWriteMemory,
     GetActiveLoadBalancers, MarkPendingUpdate, WriteMemory, WriteFails, WriteAborts,
     SetThunderLastWriteMem, MarkActive, device, LossInv
<1>3. \A l \in LBs : Lost(l)' <=> Lost(l)
  BY <1>1, <1>2 DEF Lost, LossInv
<1> SUFFICES ASSUME NEW l \in LBs, l \notin masked' \cup crossed, Endangered(l)'
             PROVE  Found(l)'
  BY <1>1, <1>2 DEF LossInv
<1>4. lb[l] \in {"ACTIVE", "PENDING"}
  <2>1. l \in hk.held \/ lb'[l] \in {lb[l], "ERROR"}
    BY <1>1 DEF Housekeeper, PerformMemoryWrites, CheckActive, StatusCheck, PerformWriteMemory,
       GetActiveLoadBalancers, MarkPendingUpdate, WriteMemory, WriteFails, WriteAborts,
       SetThunderLastWriteMem, MarkActive, MarkHeld
  <2> QED
    BY <2>1 DEF Endangered, OwnInv
<1>5. Endangered(l) /\ Found(l)
  <2>1. Endangered(l)
    BY <1>1, <1>3, <1>4 DEF Endangered
  <2> QED
    BY <1>1, <2>1 DEF LossInv
<1>6. hk.step \in {"idle", "check"} => hk.held = {}
  BY DEF NumbersInv, PassInv
<1>7. ASSUME NEW m \in LBs, PerformMemoryWrites(m)
      PROVE  Found(l)'
  <2>1. /\ UNCHANGED row /\ hk'.held = {} /\ hk'.step = "check" /\ hk'.check = Checked
        /\ hk'.snap = [k \in LBs |-> IF k \in Checked THEN row[k].updated ELSE 0]
    BY <1>7 DEF PerformMemoryWrites, Resting
  <2>2. l \in Checked
    BY <1>5 DEF Checked, Endangered, Found
  <2> QED
    BY <1>1, <1>5, <2>1, <2>2 DEF Found, ToCheck, Recent
<1>8. ASSUME NEW m \in LBs, CheckActive(m)
      PROVE  Found(l)'
  <2>1. /\ UNCHANGED row /\ hk.step = "check" /\ m \in hk.check /\ hk'.check = hk.check \ {m}
        /\ IF lb[m] = "ACTIVE"
           THEN hk'.held = {m} /\ hk'.step = "uptime" /\ hk'.snap = hk.snap
           ELSE hk'.held = hk.held /\ hk'.step = "check" /\ hk'.snap = [hk.snap EXCEPT ![m] = 0]
        /\ m = l /\ lb[l] = "PENDING" => l \in masked'
    BY <1>1, <1>5, <1>8 DEF CheckActive, Passes, Endangered
  <2>2. l \in hk.check /\ hk.snap[l] = row[l].updated
    BY <1>5, <1>6, <2>1 DEF Found, ToCheck
  <2>3. m = l => lb[m] = "ACTIVE"
    BY <1>4, <2>1
  <2>4. ToCheck(l)'
    BY <1>1, <2>1, <2>2, <2>3 DEF ToCheck
  <2> QED
    BY <1>1, <1>5, <2>1, <2>4 DEF Found, Recent
<1>9. ASSUME NEW answers \in BOOLEAN, StatusCheck(answers)
      PROVE  Found(l)'
  <2>1. /\ UNCHANGED row /\ hk.step = "uptime" /\ hk'.step = "check" /\ hk'.check = hk.check
        /\ hk'.snap = [k \in LBs |-> IF k \in hk.check THEN hk.snap[k] ELSE 0]
        /\ l \in hk.held /\ answers /\ started > hk.snap[l] => lb'[l] = "ERROR"
        /\ l \in hk.held /\ ~answers => l \in masked'
    BY <1>1, <1>5, <1>9 DEF StatusCheck, Passes, Endangered
  <2>2. /\ l \in hk.check \cup hk.held /\ hk.snap[l] = row[l].updated /\ started > row[l].updated
    BY <1>5, <2>1 DEF Found, ToCheck
  <2>3. l \in hk.check
    BY <2>1, <2>2 DEF Endangered
  <2> QED
    BY <1>1, <1>5, <2>1, <2>2, <2>3 DEF Found, ToCheck, Recent
<1>10. ASSUME hk.step \notin {"idle", "check", "uptime"}
       PROVE  FALSE
  BY <1>5, <1>10 DEF Found, ToCheck
<1>11. ASSUME PerformWriteMemory
       PROVE  FALSE
  BY <1>5, <1>6, <1>11 DEF PerformWriteMemory, Found, ToCheck
<1> QED
  BY <1>7, <1>8, <1>9, <1>10, <1>11 DEF Housekeeper, GetActiveLoadBalancers, MarkPendingUpdate, WriteMemory,
     WriteFails, WriteAborts, SetThunderLastWriteMem, MarkActive

(* The device starts again between passes: what it loses for the first     *)
(* time was found (ChangeFound), so that the next pass looks at the row.   *)
LEMMA LossRestart ==
    ASSUME FoundInv, LossInv, Restart
    PROVE  LossInv'
<1>1. /\ running' = saved /\ started' = clock
      /\ masked' = masked \cup
            {l \in LBs : Unsaved(l) /\ (hk.step # "idle" \/ row[l].updated >= clock
                                        \/ \E c \in slipped : c[1] = l)}
      /\ UNCHANGED <<clock, lb, row, saved, flow, hk, due, crossed, slipped>>
  BY DEF Restart
<1>2. clock \in Nat /\ started \in Nat /\ \A l \in LBs : row[l] \in Rows /\ row[l].updated \in Nat
  BY BoundAssumption DEF FoundInv, TypeOK, Times, Rows
<1> SUFFICES ASSUME NEW l \in LBs, l \notin masked' \cup crossed, Endangered(l)'
             PROVE  Found(l)'
  BY <1>1 DEF LossInv
<1>3. PICK c \in due : c[1] = l /\ c \notin saved
  BY <1>1 DEF Endangered, Lost
<1>4. hk.step = "idle" /\ row[l].updated < clock /\ (\A d \in slipped : d[1] # l) /\ l \notin masked
  BY <1>1, <1>2, <1>3 DEF Unsaved
<1>5. Recent(row[l])
  <2>1. CASE c \in running
    <3>1. row[l].status = "ACTIVE"
      BY <1>1 DEF Endangered
    <3> QED
      BY <1>1, <1>3, <1>4, <2>1, <3>1 DEF FoundInv, ChangeFound
  <2>2. CASE c \notin running
    <3>1. Endangered(l)
      BY <1>1, <1>3, <2>2 DEF Endangered, Lost
    <3> QED
      BY <1>1, <1>4, <3>1 DEF LossInv, Found
  <2> QED
    BY <2>1, <2>2
<1> QED
  BY <1>1, <1>2, <1>4, <1>5 DEF Found, ToCheck, Recent

LossIInv == FoundInv /\ OwnInv /\ ServingInv /\ GoneInv /\ LossInv

LEMMA LossStep == LossIInv /\ [Next]_vars => LossIInv'
<1> SUFFICES ASSUME LossIInv, [Next]_vars PROVE LossIInv'
  OBVIOUS
<1>1. TypeOK /\ NumbersInv /\ RowInv /\ FoundInv /\ OwnInv /\ ServingInv /\ GoneInv /\ LossInv
  BY DEF LossIInv, FoundInv
<1>2. FoundInv' /\ OwnInv' /\ ServingInv' /\ GoneInv'
  BY <1>1, FoundStep, OwnStep, ServingStep, GoneStep
<1>3. ASSUME Tick \/ UNCHANGED vars
      PROVE  LossInv'
  <2>1. UNCHANGED <<lb, row, running, saved, started, flow, hk, due, masked, crossed>>
    BY <1>3 DEF Tick, vars, device, hist
  <2>2. \A l \in LBs : (Endangered(l)' <=> Endangered(l)) /\ (Found(l)' <=> Found(l))
    BY <2>1 DEF Endangered, Lost, Found, ToCheck, Recent
  <2> QED
    BY <1>1, <2>1, <2>2 DEF LossInv
<1>4. ASSUME Restart \/ Housekeeper \/ \E t \in Threads : Worker(t)
      PROVE  LossInv'
  BY <1>1, <1>4, LossWorker, LossHousekeeper, LossRestart
<1>5. LossInv'
  BY <1>3, <1>4 DEF Next
<1> QED
  BY <1>2, <1>5 DEF LossIInv

(* A load balancer that lost changes which the check can see and that no   *)
(* flow works on is not ACTIVE for ever: the next pass looks at its row    *)
(* and finds the device started after it, whatever the failures and        *)
(* restarts in between, the failures of updates included, which set it     *)
(* ACTIVE.                                                                 *)
THEOREM LossesAreFound == Spec => []LossFound
<1>1. Init => LossIInv
  <2>1. Init => FoundInv
    BY InitTypeOK, NumbersInit, RowInit DEF Init, FoundInv, SavedInv, ChangeFound
  <2> QED
    BY <2>1, ServingInit, GoneInit, BoundAssumption DEF Init, LossIInv, OwnInv, Owns, Idle, Resting,
       LossInv, Endangered, Lost
<1>2. LossIInv => LossFound
  <2> SUFFICES ASSUME LossIInv, NEW l \in LBs \ (masked \cup crossed),
                      lb[l] = "ACTIVE", Lost(l), \A t \in Threads : flow[t].lb # l
               PROVE  Recent(row[l]) /\ row[l].status # "DELETED" /\ started > row[l].updated
    BY DEF LossFound
  <2>1. row[l].status = "ACTIVE"
    BY DEF LossIInv, ServingInv, Serving
  <2>2. Found(l)
    BY <2>1 DEF LossIInv, LossInv, Endangered
  <2> QED
    BY <2>1, <2>2 DEF Found
<1> QED
  BY <1>1, <1>2, LossStep, PTL DEF Spec
=============================================================================

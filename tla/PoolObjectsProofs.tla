-------------------------- MODULE PoolObjectsProofs --------------------------
(***************************************************************************)
(* Proofs about PoolObjects, for any load balancers, pools and servers and *)
(* any number of flows under way: the types of the state, that a pool that *)
(* is ACTIVE in an ACTIVE load balancer is served by the device, that a    *)
(* monitor that is ACTIVE checks its servers, and that a pool that is gone *)
(* leaves nothing on the device, when no two flows of the load balancer    *)
(* overlapped where one failed.                                            *)
(***************************************************************************)
EXTENDS PoolInvariants, SequenceTheorems, TLAPS

-----------------------------------------------------------------------------
(* The tasks of each flow, by their number.                                *)
LEMMA PoolCreateFlowIs ==
  ASSUME NEW k \in 1 .. Len(PoolCreateFlow)
  PROVE  /\ Len(PoolCreateFlow) = 6
         /\ <<PoolCreateFlow[k], k>> \in
              {<<"proxy", 1>>, <<"group", 2>>, <<"persist", 3>>, <<"front", 4>>,
               <<"pool_active", 5>>, <<"active", 6>>}
<1>1. /\ Len(PoolCreateFlow) = 6
      /\ PoolCreateFlow[1] = "proxy"
      /\ PoolCreateFlow[2] = "group"
      /\ PoolCreateFlow[3] = "persist"
      /\ PoolCreateFlow[4] = "front"
      /\ PoolCreateFlow[5] = "pool_active"
      /\ PoolCreateFlow[6] = "active"
  BY DEF PoolCreateFlow
<1>2. k = 1 \/ k = 2 \/ k = 3 \/ k = 4 \/ k = 5 \/ k = 6
  BY <1>1
<1> QED
  BY <1>1, <1>2

LEMMA PoolUpdateFlowIs ==
  ASSUME NEW k \in 1 .. Len(PoolUpdateFlow)
  PROVE  /\ Len(PoolUpdateFlow) = 6
         /\ <<PoolUpdateFlow[k], k>> \in
              {<<"replace_group", 1>>, <<"persist", 2>>, <<"front", 3>>, <<"pool_row", 4>>,
               <<"pool_active", 5>>, <<"active", 6>>}
<1>1. /\ Len(PoolUpdateFlow) = 6
      /\ PoolUpdateFlow[1] = "replace_group"
      /\ PoolUpdateFlow[2] = "persist"
      /\ PoolUpdateFlow[3] = "front"
      /\ PoolUpdateFlow[4] = "pool_row"
      /\ PoolUpdateFlow[5] = "pool_active"
      /\ PoolUpdateFlow[6] = "active"
  BY DEF PoolUpdateFlow
<1>2. k = 1 \/ k = 2 \/ k = 3 \/ k = 4 \/ k = 5 \/ k = 6
  BY <1>1
<1> QED
  BY <1>1, <1>2

LEMMA PoolDeleteFlowIs ==
  ASSUME NEW k \in 1 .. Len(PoolDeleteFlow)
  PROVE  /\ Len(PoolDeleteFlow) = 8
         /\ <<PoolDeleteFlow[k], k>> \in
              {<<"front", 1>>, <<"no_persist", 2>>, <<"count", 3>>, <<"no_monitor", 4>>,
               <<"no_proxy", 5>>, <<"no_group", 6>>, <<"no_row", 7>>, <<"active", 8>>}
<1>1. /\ Len(PoolDeleteFlow) = 8
      /\ PoolDeleteFlow[1] = "front"
      /\ PoolDeleteFlow[2] = "no_persist"
      /\ PoolDeleteFlow[3] = "count"
      /\ PoolDeleteFlow[4] = "no_monitor"
      /\ PoolDeleteFlow[5] = "no_proxy"
      /\ PoolDeleteFlow[6] = "no_group"
      /\ PoolDeleteFlow[7] = "no_row"
      /\ PoolDeleteFlow[8] = "active"
  BY DEF PoolDeleteFlow
<1>2. k = 1 \/ k = 2 \/ k = 3 \/ k = 4 \/ k = 5 \/ k = 6 \/ k = 7 \/ k = 8
  BY <1>1
<1> QED
  BY <1>1, <1>2

LEMMA HmCreateFlowIs ==
  ASSUME NEW k \in 1 .. Len(HmCreateFlow)
  PROVE  /\ Len(HmCreateFlow) = 5
         /\ <<HmCreateFlow[k], k>> \in
              {<<"monitor", 1>>, <<"associate", 2>>, <<"hm_active", 3>>, <<"pool_active", 4>>,
               <<"active", 5>>}
<1>1. /\ Len(HmCreateFlow) = 5
      /\ HmCreateFlow[1] = "monitor"
      /\ HmCreateFlow[2] = "associate"
      /\ HmCreateFlow[3] = "hm_active"
      /\ HmCreateFlow[4] = "pool_active"
      /\ HmCreateFlow[5] = "active"
  BY DEF HmCreateFlow
<1>2. k = 1 \/ k = 2 \/ k = 3 \/ k = 4 \/ k = 5
  BY <1>1
<1> QED
  BY <1>1, <1>2

LEMMA HmUpdateFlowIs ==
  ASSUME NEW k \in 1 .. Len(HmUpdateFlow)
  PROVE  /\ Len(HmUpdateFlow) = 4
         /\ <<HmUpdateFlow[k], k>> \in
              {<<"change_monitor", 1>>, <<"hm_active", 2>>, <<"pool_active", 3>>,
               <<"active", 4>>}
<1>1. /\ Len(HmUpdateFlow) = 4
      /\ HmUpdateFlow[1] = "change_monitor"
      /\ HmUpdateFlow[2] = "hm_active"
      /\ HmUpdateFlow[3] = "pool_active"
      /\ HmUpdateFlow[4] = "active"
  BY DEF HmUpdateFlow
<1>2. k = 1 \/ k = 2 \/ k = 3 \/ k = 4
  BY <1>1
<1> QED
  BY <1>1, <1>2

LEMMA HmDeleteFlowIs ==
  ASSUME NEW k \in 1 .. Len(HmDeleteFlow)
  PROVE  /\ Len(HmDeleteFlow) = 4
         /\ <<HmDeleteFlow[k], k>> \in
              {<<"no_monitor", 1>>, <<"no_hm_row", 2>>, <<"pool_active", 3>>, <<"active", 4>>}
<1>1. /\ Len(HmDeleteFlow) = 4
      /\ HmDeleteFlow[1] = "no_monitor"
      /\ HmDeleteFlow[2] = "no_hm_row"
      /\ HmDeleteFlow[3] = "pool_active"
      /\ HmDeleteFlow[4] = "active"
  BY DEF HmDeleteFlow
<1>2. k = 1 \/ k = 2 \/ k = 3 \/ k = 4
  BY <1>1
<1> QED
  BY <1>1, <1>2

LEMMA PoolSubflowIs ==
  ASSUME NEW k \in 1 .. Len(PoolSubflow)
  PROVE  /\ Len(PoolSubflow) = 7
         /\ <<PoolSubflow[k], k>> \in
              {<<"monitor", 1>>, <<"associate", 2>>, <<"hm_active", 3>>, <<"proxy", 4>>,
               <<"group", 5>>, <<"persist", 6>>, <<"pool_active", 7>>}
<1>1. /\ Len(PoolSubflow) = 7
      /\ PoolSubflow[1] = "monitor"
      /\ PoolSubflow[2] = "associate"
      /\ PoolSubflow[3] = "hm_active"
      /\ PoolSubflow[4] = "proxy"
      /\ PoolSubflow[5] = "group"
      /\ PoolSubflow[6] = "persist"
      /\ PoolSubflow[7] = "pool_active"
  BY DEF PoolSubflow
<1>2. k = 1 \/ k = 2 \/ k = 3 \/ k = 4 \/ k = 5 \/ k = 6 \/ k = 7
  BY <1>1
<1> QED
  BY <1>1, <1>2

LEMMA LbCreateFlowIs ==
  ASSUME NEW k \in 1 .. Len(LbCreateFlow)
  PROVE  /\ Len(LbCreateFlow) = 3
         /\ <<LbCreateFlow[k], k>> \in
              {<<"listener", 1>>, <<"active", 2>>, <<"active", 3>>}
<1>1. /\ Len(LbCreateFlow) = 3
      /\ LbCreateFlow[1] = "listener"
      /\ LbCreateFlow[2] = "active"
      /\ LbCreateFlow[3] = "active"
  BY DEF LbCreateFlow
<1>2. k = 1 \/ k = 2 \/ k = 3
  BY <1>1
<1> QED
  BY <1>1, <1>2

LEMMA PoolCascadeIs ==
  ASSUME NEW k \in 1 .. Len(PoolCascade)
  PROVE  /\ Len(PoolCascade) = 8
         /\ <<PoolCascade[k], k>> \in
              {<<"deleting", 1>>, <<"clear_front", 2>>, <<"no_persist", 3>>, <<"count", 4>>,
               <<"no_monitor", 5>>, <<"no_proxy", 6>>, <<"no_group", 7>>, <<"no_row", 8>>}
<1>1. /\ Len(PoolCascade) = 8
      /\ PoolCascade[1] = "deleting"
      /\ PoolCascade[2] = "clear_front"
      /\ PoolCascade[3] = "no_persist"
      /\ PoolCascade[4] = "count"
      /\ PoolCascade[5] = "no_monitor"
      /\ PoolCascade[6] = "no_proxy"
      /\ PoolCascade[7] = "no_group"
      /\ PoolCascade[8] = "no_row"
  BY DEF PoolCascade
<1>2. k = 1 \/ k = 2 \/ k = 3 \/ k = 4 \/ k = 5 \/ k = 6 \/ k = 7 \/ k = 8
  BY <1>1
<1> QED
  BY <1>1, <1>2

LEMMA LbDeleteFlowIs ==
  ASSUME NEW k \in 1 .. Len(LbDeleteFlow)
  PROVE  /\ Len(LbDeleteFlow) = 1
         /\ <<LbDeleteFlow[k], k>> \in
              {<<"no_lb", 1>>}
<1>1. /\ Len(LbDeleteFlow) = 1
      /\ LbDeleteFlow[1] = "no_lb"
  BY DEF LbDeleteFlow
<1>2. k = 1
  BY <1>1
<1> QED
  BY <1>1, <1>2

LEMMA Places ==
  ASSUME NEW f \in Flows, Shape(f), NEW do, Doing(f, do)
  PROVE  Place(f.op, f.cur = f.on, do, f.pc)
<1>1. f.pc \in 1 .. Len(Tasks(f)) /\ Tasks(f)[f.pc] = do
  <2>1. f.pc \in Nat /\ f.pc >= 1
    BY DEF Flows, Shape
  <2>2. Len(Tasks(f)) \in Nat
    <3>1. /\ Len(PoolCreateFlow) = 6 /\ Len(PoolUpdateFlow) = 6 /\ Len(PoolDeleteFlow) = 8
          /\ Len(HmCreateFlow) = 5 /\ Len(HmUpdateFlow) = 4 /\ Len(HmDeleteFlow) = 4
      BY DEF PoolCreateFlow, PoolUpdateFlow, PoolDeleteFlow, HmCreateFlow, HmUpdateFlow, HmDeleteFlow
    <3>2. /\ Len(PoolSubflow) = 7 /\ Len(LbCreateFlow) = 3 /\ Len(PoolCascade) = 8
          /\ Len(LbDeleteFlow) = 1
      BY DEF PoolSubflow, LbCreateFlow, PoolCascade, LbDeleteFlow
    <3> QED
      BY <3>1, <3>2 DEF Tasks, Shape, PoolShape, LbShape, PoolOps, HmOps, LbOps
  <2> QED
    BY <2>1, <2>2 DEF Doing, Ended
<1>2. f.op \in Ops
  BY DEF Shape, PoolShape, LbShape, Ops
<1>3. CASE f.op = "create_pool"
  <2>1. Tasks(f) = PoolCreateFlow
    BY <1>3 DEF Tasks
  <2> QED
    BY <1>1, <1>3, <2>1, PoolCreateFlowIs DEF Place
<1>4. CASE f.op = "update_pool"
  <2>1. Tasks(f) = PoolUpdateFlow
    BY <1>4 DEF Tasks
  <2> QED
    BY <1>1, <1>4, <2>1, PoolUpdateFlowIs DEF Place
<1>5. CASE f.op = "delete_pool"
  <2>1. Tasks(f) = PoolDeleteFlow
    BY <1>5 DEF Tasks
  <2> QED
    BY <1>1, <1>5, <2>1, PoolDeleteFlowIs DEF Place
<1>6. CASE f.op = "create_hm"
  <2>1. Tasks(f) = HmCreateFlow
    BY <1>6 DEF Tasks
  <2> QED
    BY <1>1, <1>6, <2>1, HmCreateFlowIs DEF Place
<1>7. CASE f.op = "update_hm"
  <2>1. Tasks(f) = HmUpdateFlow
    BY <1>7 DEF Tasks
  <2> QED
    BY <1>1, <1>7, <2>1, HmUpdateFlowIs DEF Place
<1>8. CASE f.op = "delete_hm"
  <2>1. Tasks(f) = HmDeleteFlow
    BY <1>8 DEF Tasks
  <2> QED
    BY <1>1, <1>8, <2>1, HmDeleteFlowIs DEF Place
<1>9. CASE f.op = "create_lb" /\ f.cur # f.on
  <2>1. Tasks(f) = PoolSubflow
    BY <1>9 DEF Tasks
  <2> QED
    BY <1>1, <1>9, <2>1, PoolSubflowIs DEF Place
<1>10. CASE f.op = "create_lb" /\ f.cur = f.on
  <2>1. Tasks(f) = LbCreateFlow
    BY <1>10 DEF Tasks
  <2> QED
    BY <1>1, <1>10, <2>1, LbCreateFlowIs DEF Place
<1>11. CASE f.op = "delete_lb" /\ f.cur # f.on
  <2>1. Tasks(f) = PoolCascade
    BY <1>11 DEF Tasks
  <2> QED
    BY <1>1, <1>11, <2>1, PoolCascadeIs DEF Place
<1>12. CASE f.op = "delete_lb" /\ f.cur = f.on
  <2>1. Tasks(f) = LbDeleteFlow
    BY <1>12 DEF Tasks
  <2> QED
    BY <1>1, <1>12, <2>1, LbDeleteFlowIs DEF Place
<1> QED
  BY <1>2, <1>3, <1>4, <1>5, <1>6, <1>7,
     <1>8, <1>9, <1>10, <1>11, <1>12 DEF Ops, PoolOps, HmOps, LbOps

LEMMA Lengths ==
  ASSUME NEW f \in Flows, Shape(f)
  PROVE  /\ f.op = "create_pool" \/ f.op = "update_pool" => Len(Tasks(f)) = 6
         /\ f.op = "create_hm" => Len(Tasks(f)) = 5
         /\ f.op = "update_hm" \/ f.op = "delete_hm" => Len(Tasks(f)) = 4
         /\ f.op = "delete_pool" => Len(Tasks(f)) = 8
         /\ f.op = "create_lb" => Len(Tasks(f)) = IF f.cur = f.on THEN 3 ELSE 7
         /\ f.op = "delete_lb" => Len(Tasks(f)) = IF f.cur = f.on THEN 1 ELSE 8
         /\ Len(Tasks(f)) \in Nat /\ Len(Tasks(f)) >= 1
<1>1. /\ Len(PoolCreateFlow) = 6 /\ Len(PoolUpdateFlow) = 6 /\ Len(PoolDeleteFlow) = 8
      /\ Len(HmCreateFlow) = 5 /\ Len(HmUpdateFlow) = 4 /\ Len(HmDeleteFlow) = 4
  BY DEF PoolCreateFlow, PoolUpdateFlow, PoolDeleteFlow, HmCreateFlow, HmUpdateFlow, HmDeleteFlow
<1>2. /\ Len(PoolSubflow) = 7 /\ Len(LbCreateFlow) = 3 /\ Len(PoolCascade) = 8
      /\ Len(LbDeleteFlow) = 1
  BY DEF PoolSubflow, LbCreateFlow, PoolCascade, LbDeleteFlow
<1>3. f.op \in PoolOps \cup HmOps \cup LbOps
  BY DEF Shape, PoolShape, LbShape
<1>4. f.op = "create_pool" => Tasks(f) = PoolCreateFlow
  BY DEF Tasks
<1>5. f.op = "update_pool" => Tasks(f) = PoolUpdateFlow
  BY DEF Tasks
<1>6. f.op = "delete_pool" => Tasks(f) = PoolDeleteFlow
  BY DEF Tasks
<1>7. f.op = "create_hm" => Tasks(f) = HmCreateFlow
  BY DEF Tasks
<1>8. f.op = "update_hm" => Tasks(f) = HmUpdateFlow
  BY DEF Tasks
<1>9. f.op = "delete_hm" => Tasks(f) = HmDeleteFlow
  BY DEF Tasks
<1>10. f.op = "create_lb" /\ f.cur # f.on => Tasks(f) = PoolSubflow
  BY DEF Tasks
<1>11. f.op = "create_lb" /\ f.cur = f.on => Tasks(f) = LbCreateFlow
  BY DEF Tasks
<1>12. f.op = "delete_lb" /\ f.cur # f.on => Tasks(f) = PoolCascade
  BY DEF Tasks
<1>13. f.op = "delete_lb" /\ f.cur = f.on => Tasks(f) = LbDeleteFlow
  BY DEF Tasks
<1>14. /\ f.op = "create_pool" \/ f.op = "update_pool" => Len(Tasks(f)) = 6
       /\ f.op = "create_hm" => Len(Tasks(f)) = 5
       /\ f.op = "update_hm" \/ f.op = "delete_hm" => Len(Tasks(f)) = 4
       /\ f.op = "delete_pool" => Len(Tasks(f)) = 8
  BY <1>1, <1>4, <1>5, <1>6, <1>7, <1>8, <1>9
<1>15. /\ f.op = "create_lb" => Len(Tasks(f)) = IF f.cur = f.on THEN 3 ELSE 7
       /\ f.op = "delete_lb" => Len(Tasks(f)) = IF f.cur = f.on THEN 1 ELSE 8
  BY <1>2, <1>10, <1>11, <1>12, <1>13
<1>16. Len(Tasks(f)) \in Nat /\ Len(Tasks(f)) >= 1
  <2> DEFINE n == Len(Tasks(f))
  <2>1. n \in {1, 3, 4, 5, 6, 7, 8}
    BY <1>3, <1>14, <1>15 DEF PoolOps, HmOps, LbOps
  <2> HIDE DEF n
  <2>2. n \in Nat /\ n >= 1
    BY <2>1
  <2> QED
    BY <2>2 DEF n
<1> QED
  BY <1>14, <1>15, <1>16

(* The next task of a flow, the flow at its next part, and the flow past   *)
(* a task.                                                                 *)
LEMMA Stage ==
  ASSUME Inv, NEW s \in Slots, NEW do, At(s, do)
  PROVE  /\ flow[s] \in Flows /\ Shape(flow[s]) /\ flow[s].step = "run" /\ ~Ended(flow[s])
         /\ Place(flow[s].op, flow[s].cur = flow[s].on, do, flow[s].pc)
         /\ Doing(flow[s], do)
<1>1. flow[s] \in Flows /\ flow[s].step = "run"
  BY DEF Inv, FlowInv, At
<1>2. Shape(flow[s])
  BY <1>1 DEF Inv, FlowInv, Idle
<1>3. Doing(flow[s], do) /\ ~Ended(flow[s])
  BY DEF At, Doing
<1> QED
  BY <1>1, <1>2, <1>3, Places

Same(f, g) ==
    /\ g.op = f.op /\ g.on = f.on /\ g.sp = f.sp /\ g.monitored = f.monitored
    /\ g.last = f.last /\ g.seen = f.seen /\ g.step = f.step

LEMMA PartStep ==
  ASSUME ShapeAssumption, NEW f \in Flows, f.op \in LbOps, f.on \in LBs, f.rest \subseteq Under(f.on),
         f.step # "idle", \A t \in f.done : t.on = f.on \/ t.on \in Under(f.on) \ f.rest,
         NEW g \in NextPart(f)
  PROVE  /\ g \in Flows /\ Shape(g) /\ Same(f, g) /\ g.done = f.done
         /\ \/ f.rest = {} /\ g.rest = {} /\ g.cur = f.on /\ g.pc = 1
            \/ g.cur \in f.rest /\ g.rest = f.rest \ {g.cur} /\ g.pc = FirstTask(f, g.cur)
<1>0. f.cur \in Objects \cup {None} /\ Under(f.on) \subseteq Pools
  BY DEF Flows, Under
<1>1. CASE f.rest = {}
  <2>1. g = [f EXCEPT !.cur = f.on, !.pc = 1]
    BY <1>1 DEF NextPart
  <2>2. g \in Flows /\ Same(f, g) /\ g.done = f.done /\ g.rest = {} /\ g.cur = f.on /\ g.pc = 1
    BY <2>1, <1>1 DEF Flows, Same, Objects
  <2>3. Shape(g)
    BY <2>2 DEF Shape, LbShape, Same
  <2> QED
    BY <2>2, <2>3, <1>1
<1>2. CASE f.rest # {}
  <2>1. PICK p \in f.rest : g = [f EXCEPT !.cur = p, !.rest = @ \ {p}, !.pc = FirstTask(f, p)]
    BY <1>2 DEF NextPart
  <2>2. p \in Under(f.on) /\ p \in Pools /\ p # f.on
    BY <1>0, <2>1 DEF ShapeAssumption
  <2>3. FirstTask(f, p) \in {1, 4} /\ (FirstTask(f, p) = 4 => f.op = "create_lb")
    BY DEF FirstTask
  <2>4. /\ g \in Flows /\ Same(f, g) /\ g.done = f.done /\ g.rest = f.rest \ {p} /\ g.cur = p
        /\ g.pc = FirstTask(f, p)
    <3>1. Same(f, g) /\ g.done = f.done
      BY <2>1 DEF Flows, Same
    <3>2. g.rest = f.rest \ {p} /\ g.cur = p /\ g.pc = FirstTask(f, p)
      BY <2>1 DEF Flows
    <3>3. p \in Objects \cup {None} /\ f.rest \ {p} \in SUBSET Pools /\ FirstTask(f, p) \in Nat
      BY <2>2, <2>3 DEF Flows, Objects
    <3>4. g \in Flows
      BY <2>1, <3>3 DEF Flows
    <3> QED
      BY <3>1, <3>2, <3>4
  <2>5. ~Ended(g)
    <3>1. g.op = "create_lb" => Len(Tasks(g)) = 7
      <4>1. g.op = "create_lb" => Tasks(g) = PoolSubflow
        BY <2>4, <2>2 DEF Tasks, Same
      <4> QED
        BY <4>1 DEF PoolSubflow
    <3>2. g.op = "delete_lb" => Len(Tasks(g)) = 8
      <4>1. g.op = "delete_lb" => Tasks(g) = PoolCascade
        BY <2>4, <2>2 DEF Tasks, Same
      <4> QED
        BY <4>1 DEF PoolCascade
    <3>3. g.op = f.op
      BY <2>4 DEF Same
    <3>4. g.pc \in {1, 4} /\ (g.pc = 4 => g.op = "create_lb")
      BY <2>3, <2>4, <3>3
    <3>5. g.op = "create_lb" \/ g.op = "delete_lb"
      BY <3>3 DEF LbOps
    <3>6. CASE g.op = "create_lb"
      <4> DEFINE n == Len(Tasks(g))
                 c == g.pc
      <4>1. n = 7 /\ c \in {1, 4}
        BY <3>1, <3>4, <3>6
      <4> HIDE DEF n, c
      <4>2. ~(c > n)
        BY <4>1
      <4> QED
        BY <4>2 DEF Ended, n, c
    <3>7. CASE g.op = "delete_lb"
      <4> DEFINE n == Len(Tasks(g))
                 c == g.pc
      <4>1. n = 8 /\ c = 1
        BY <3>2, <3>4, <3>7
      <4> HIDE DEF n, c
      <4>2. ~(c > n)
        BY <4>1
      <4> QED
        BY <4>2 DEF Ended, n, c
    <3> QED
      BY <3>5, <3>6, <3>7
  <2>6. Shape(g)
    BY <2>2, <2>3, <2>4, <2>5 DEF Shape, LbShape, Same
  <2> QED
    BY <2>4, <2>6, <1>2
<1> QED
  BY <1>1, <1>2

Moves(f, g) ==
    /\ g \in Flows /\ Shape(g) /\ Same(f, g) /\ g.done = Done(f)
    /\ \/ g.cur = f.cur /\ g.rest = f.rest /\ g.pc = f.pc + 1
       \/ /\ f.cur # f.on /\ f.pc = Len(Tasks(f)) /\ f.rest = {}
          /\ g.rest = {} /\ g.cur = f.on /\ g.pc = 1
       \/ /\ f.cur # f.on /\ f.pc = Len(Tasks(f)) /\ g.cur \in f.rest
          /\ g.rest = f.rest \ {g.cur} /\ g.pc = FirstTask(f, g.cur)

LEMMA DoneIs ==
  ASSUME NEW f \in Flows, f.cur \in Objects
  PROVE  /\ Done(f) \subseteq [do : Kept, on : Objects] /\ f.done \subseteq Done(f)
         /\ \A t \in Done(f) : t \in f.done \/ (t.on = f.cur /\ Doing(f, t.do) /\ t.do \in Kept)
         /\ \A do \in Kept : Doing(f, do) => Task(do, f.cur) \in Done(f)
  BY DEF Flows, Done, Task

LEMMA MoveStep ==
  ASSUME ShapeAssumption, NEW f \in Flows, Shape(f), ~Ended(f),
         NEW g \in Refilled([f EXCEPT !.pc = @ + 1, !.done = Done(f)])
  PROVE  Moves(f, g)
<1> DEFINE h == [f EXCEPT !.pc = @ + 1, !.done = Done(f)]
<1>1. f.cur \in Objects
  BY DEF Shape, PoolShape, LbShape, Objects, Under
<1>2. Done(f) \subseteq [do : Kept, on : Objects] /\ \A t \in Done(f) : t \in f.done \/ t.on = f.cur
  BY <1>1, DoneIs
<1>3. /\ h \in Flows /\ Same(f, h) /\ h.done = Done(f) /\ h.cur = f.cur /\ h.rest = f.rest
      /\ h.pc = f.pc + 1
  <2>1. Done(f) \in SUBSET [do : Kept, on : Objects] /\ f.pc + 1 \in Nat
    BY <1>2 DEF Flows
  <2>2. h \in Flows
    BY <2>1 DEF Flows
  <2>3. h.done = Done(f) /\ h.cur = f.cur /\ h.rest = f.rest /\ h.pc = f.pc + 1
    BY DEF Flows
  <2>4. Same(f, h)
    BY DEF Flows, Same
  <2> QED
    BY <2>2, <2>3, <2>4
<1>4. g \in Refilled(h)
  OBVIOUS
<1> HIDE DEF h
<1>5. Tasks(h) = Tasks(f)
  BY <1>3 DEF Tasks, Same
<1>6. f.pc \in Nat /\ f.pc >= 1 /\ Len(Tasks(f)) \in Nat /\ f.pc <= Len(Tasks(f))
  BY Lengths DEF Flows, Shape, Ended
<1>7. Ended(h) => f.pc = Len(Tasks(f))
  BY <1>3, <1>5, <1>6 DEF Ended
<1>8. CASE ~(Ended(h) /\ h.cur # h.on)
  <2>1. g = h
    BY <1>4, <1>8 DEF Refilled
  <2>2. PoolShape(f) => PoolShape(h)
    BY <1>2, <1>3 DEF PoolShape, Same
  <2>3. LbShape(f) => LbShape(h)
    <3>1. SUFFICES ASSUME LbShape(f) PROVE LbShape(h)
      OBVIOUS
    <3>2. f.cur # f.on => ~Ended(h)
      BY <1>3, <1>8 DEF Same
    <3>3. h.op = f.op /\ h.on = f.on /\ h.rest = f.rest /\ h.cur = f.cur
      BY <1>3 DEF Same
    <3>4. ASSUME NEW t \in h.done PROVE t.on = h.on \/ t.on \in Under(h.on) \ h.rest
      BY <3>1, <3>3, <1>2, <1>3 DEF LbShape
    <3>5. h.op \in LbOps /\ h.on \in LBs /\ h.rest \subseteq Under(h.on)
      BY <3>1, <3>3 DEF LbShape
    <3>6. \/ h.cur = h.on /\ h.rest = {}
          \/ h.cur \in Under(h.on) \ h.rest /\ ~Ended(h)
      <4>1. f.on \notin Under(f.on)
        BY <3>1 DEF LbShape, Under, ShapeAssumption
      <4> QED
        BY <4>1, <3>1, <3>2, <3>3 DEF LbShape
    <3> HIDE DEF h
    <3> QED
      BY <3>4, <3>5, <3>6 DEF LbShape
  <2>4. Shape(h)
    BY <2>2, <2>3, <1>3, <1>6 DEF Shape, Same
  <2> QED
    BY <2>1, <2>4, <1>3 DEF Moves
<1>9. CASE Ended(h) /\ h.cur # h.on
  <2>1. LbShape(f) /\ f.cur # f.on
    BY <1>9, <1>3 DEF Shape, PoolShape, Same
  <2>2. /\ h.op \in LbOps /\ h.on \in LBs /\ h.rest \subseteq Under(h.on) /\ h.step # "idle"
        /\ \A t \in h.done : t.on = h.on \/ t.on \in Under(h.on) \ h.rest
    BY <2>1, <1>2, <1>3 DEF LbShape, Same, Shape
  <2>3. g \in NextPart(h)
    BY <1>4, <1>9 DEF Refilled
  <2>4. /\ g \in Flows /\ Shape(g) /\ Same(h, g) /\ g.done = h.done
        /\ \/ h.rest = {} /\ g.rest = {} /\ g.cur = h.on /\ g.pc = 1
           \/ g.cur \in h.rest /\ g.rest = h.rest \ {g.cur} /\ g.pc = FirstTask(h, g.cur)
    BY <1>3, <2>2, <2>3, PartStep
  <2>5. FirstTask(h, g.cur) = FirstTask(f, g.cur)
    BY <1>3 DEF FirstTask, Same
  <2>6. Same(f, g) /\ h.on = f.on
    BY <2>4, <1>3 DEF Same
  <2> QED
    BY <2>1, <2>4, <2>5, <2>6, <1>3, <1>7, <1>9 DEF Moves
<1> QED
  BY <1>8, <1>9

-----------------------------------------------------------------------------
(* The types of the state.                                                 *)
LEMMA SetIs ==
  ASSUME NEW D, NEW st \in [D -> Statuses], NEW S, NEW to \in Statuses
  PROVE  /\ Set(st, S, to) \in [D -> Statuses]
         /\ \A x \in D : Set(st, S, to)[x] = IF x \in S /\ HasRow(st[x]) THEN to ELSE st[x]
  BY DEF Set

LEMMA FlowFrame ==
  ASSUME FlowInv, NEW s \in Slots, NEW g, g = Idle \/ (g \in Flows /\ Shape(g)),
         flow' = [flow EXCEPT ![s] = g]
  PROVE  FlowInv' /\ flow'[s] = g /\ \A t \in Slots \ {s} : flow'[t] = flow[t]
<1>1. Idle \in Flows
  BY DEF Idle, Flows
<1>2. flow' \in [Slots -> Flows] /\ flow'[s] = g /\ \A t \in Slots \ {s} : flow'[t] = flow[t]
  BY <1>1 DEF FlowInv
<1>3. \A t \in Slots : flow'[t] = Idle \/ Shape(flow'[t])
  BY <1>2 DEF FlowInv
<1>4. FlowInv'
  BY <1>2, <1>3 DEF FlowInv, Shape, PoolShape, LbShape, Ended, Tasks, Under
<1> QED
  BY <1>2, <1>4

LEMMA ProceedStep ==
  ASSUME ShapeAssumption, FlowInv, NEW s \in Slots, NEW f \in Flows, Shape(f), ~Ended(f),
         Proceed(s, f)
  PROVE  FlowInv' /\ Moves(f, flow'[s]) /\ Only(s)
<1>1. PICK g \in Refilled([f EXCEPT !.pc = @ + 1, !.done = Done(f)]) : flow' = [flow EXCEPT ![s] = g]
  BY DEF Proceed
<1>2. Moves(f, g)
  BY MoveStep
<1>3. g \in Flows /\ Shape(g)
  BY <1>2 DEF Moves
<1>4. FlowInv' /\ flow'[s] = g /\ \A t \in Slots \ {s} : flow'[t] = flow[t]
  BY <1>1, <1>3, FlowFrame
<1> QED
  BY <1>2, <1>4 DEF Only

LEMMA AdvanceStep ==
  ASSUME ShapeAssumption, Inv, NEW s \in Slots, NEW do, At(s, do), Advance(s)
  PROVE  FlowInv' /\ Moves(flow[s], flow'[s]) /\ Only(s)
<1>1. flow[s] \in Flows /\ Shape(flow[s]) /\ ~Ended(flow[s])
  BY Stage
<1> QED
  BY <1>1, ProceedStep DEF Advance, Inv

(* The tasks of a load balancer are at it, the others at a pool of it.     *)
LEMMA Targets ==
  ASSUME ShapeAssumption, Inv, NEW s \in Slots, NEW do, At(s, do)
  PROVE  /\ LbAt(s) \in LBs
         /\ do \in {"listener", "no_lb"} => Target(s) = flow[s].on /\ Target(s) \in LBs
         /\ do \notin {"listener", "no_lb", "active"} => Target(s) \in Pools /\ LbOf[Target(s)] = LbAt(s)
<1>1. /\ Shape(flow[s])
      /\ Place(flow[s].op, flow[s].cur = flow[s].on, do, flow[s].pc)
  BY Stage
<1>2. CASE PoolShape(flow[s])
  <2>1. flow[s].on \in Pools /\ flow[s].cur = flow[s].on /\ flow[s].on \notin LBs
    BY <1>2 DEF PoolShape, ShapeAssumption
  <2>2. LbAt(s) = LbOf[flow[s].on] /\ LbAt(s) \in LBs
    BY <2>1 DEF LbAt, ShapeAssumption
  <2>3. do \notin {"listener", "no_lb"}
    BY <1>1, <1>2 DEF Place, PoolShape, PoolOps, HmOps
  <2> QED
    BY <2>1, <2>2, <2>3 DEF Target
<1>3. CASE LbShape(flow[s])
  <2>1. flow[s].on \in LBs /\ LbAt(s) = flow[s].on
    BY <1>3 DEF LbShape, LbAt
  <2>2. do \in {"listener", "no_lb"} => flow[s].cur = flow[s].on
    BY <1>1, <1>3 DEF Place, LbShape, LbOps
  <2>3. do \notin {"listener", "no_lb", "active"} => flow[s].cur # flow[s].on
    BY <1>1, <1>3 DEF Place, LbShape, LbOps
  <2>4. flow[s].cur # flow[s].on => flow[s].cur \in Pools /\ LbOf[flow[s].cur] = flow[s].on
    BY <1>3 DEF LbShape, Under
  <2> QED
    BY <2>1, <2>2, <2>3, <2>4 DEF Target
<1> QED
  BY <1>1, <1>2, <1>3 DEF Shape

LEMMA Membership ==
  ASSUME NEW x, NEW S
  PROVE  (x \in S) \in BOOLEAN
  OBVIOUS

LEMMA InitInv == ShapeAssumption /\ Init => Inv
<1> SUFFICES ASSUME ShapeAssumption, Init PROVE Inv
  OBVIOUS
<1> USE DEF Init
<1>1. FlowInv
  <2>1. Idle \in Flows
    BY DEF Idle, Flows
  <2> QED
    BY <2>1 DEF FlowInv
<1>2. /\ lb \in [LBs -> Statuses] /\ pool \in [Pools -> Statuses] /\ hm \in [Pools -> Statuses]
      /\ sp \subseteq Pools /\ vports \subseteq LBs
      /\ groups \subseteq Pools /\ pers \subseteq Pools /\ monitors \subseteq Pools
      /\ check \in [Servers -> monitors \cup {None}] /\ proxy \in BOOLEAN
  BY DEF Statuses
<1>3. front \in [Default -> Fronts]
  <2>1. Unbound \in Fronts
    BY DEF Unbound, Fronts
  <2>2. ASSUME NEW p \in Default
        PROVE  [Unbound EXCEPT !.group = TRUE, !.proxy = p \in Proxied] \in Fronts
    <3>1. \A b \in BOOLEAN : [Unbound EXCEPT !.group = TRUE, !.proxy = b] \in Fronts
      BY DEF Unbound, Fronts
    <3>2. (p \in Proxied) \in BOOLEAN
      BY Membership
    <3> QED
      BY <3>1, <3>2, Zenon
  <2> QED
    BY <2>1, <2>2
<1>4. ASSUME NEW p \in Default
      PROVE  /\ front[p].group => p \in groups /\ LbOf[p] \in vports
             /\ front[p].pers => p \in pers
             /\ front[p].proxy => proxy
  <2>1. /\ ~Unbound.group /\ ~Unbound.pers /\ ~Unbound.proxy
        /\ ~[Unbound EXCEPT !.group = TRUE, !.proxy = p \in Proxied].pers
        /\ [Unbound EXCEPT !.group = TRUE, !.proxy = p \in Proxied].proxy = (p \in Proxied)
    BY DEF Unbound
  <2>2. p \notin scene.exist => ~front[p].group /\ ~front[p].pers /\ ~front[p].proxy
    BY <2>1
  <2>3. p \in scene.exist => ~front[p].pers /\ (front[p].proxy => proxy)
    <3>1. SUFFICES ASSUME p \in scene.exist PROVE ~front[p].pers /\ (front[p].proxy => proxy)
      OBVIOUS
    <3>2. front[p] = [Unbound EXCEPT !.group = TRUE, !.proxy = p \in Proxied]
      BY <3>1
    <3>3. p \in Proxied => proxy
      BY <3>1
    <3> QED
      BY <3>2, <3>3, <2>1
  <2>4. p \in scene.exist => p \in groups /\ LbOf[p] \in vports
    BY DEF ShapeAssumption
  <2> QED
    BY <2>2, <2>3, <2>4
<1> QED
  BY <1>1, <1>2, <1>3, <1>4 DEF Inv, TypeOK

-----------------------------------------------------------------------------
(* The requests.                                                           *)
LEMMA PoolFlowIs ==
  ASSUME ShapeAssumption, NEW op \in PoolOps \cup HmOps, NEW p \in Pools, NEW persistent \in BOOLEAN,
         NEW mon \in SUBSET {p}, op \in HmOps => p \in mon
  PROVE  LET f == PoolFlow(op, p, persistent, mon)
         IN  /\ f \in Flows /\ Shape(f) /\ f.op = op /\ f.on = p /\ f.sp = persistent /\ f.monitored = mon
             /\ f.cur = p /\ f.pc = 1 /\ f.done = {} /\ f.step = "queued" /\ f.rest = {} /\ ~f.last
<1> DEFINE f == PoolFlow(op, p, persistent, mon)
<1>1. Idle \in Flows
  BY DEF Idle, Flows
<1>2. f.op = op /\ f.on = p /\ f.sp = persistent /\ f.monitored = mon /\ f.cur = p /\ f.step = "queued"
  BY DEF PoolFlow, Idle
<1>3. f.pc = 1 /\ f.done = {} /\ f.rest = {} /\ ~f.last
  BY DEF PoolFlow, Idle
<1>5. f \in Flows
  <2>1. op \in Ops \cup {"none"} /\ p \in Objects \cup {None} /\ mon \in SUBSET Pools
    BY DEF Ops, Objects
  <2> QED
    BY <1>1, <2>1 DEF Flows, PoolFlow
<1> HIDE DEF f
<1>4. Shape(f)
  BY <1>2, <1>3 DEF Shape, PoolShape
<1> QED
  BY <1>2, <1>3, <1>4, <1>5 DEF f

LbBegins(g, op, l, pools, mon) ==
    /\ g \in Flows /\ Shape(g) /\ g.op = op /\ g.on = l /\ g.monitored = mon
    /\ g.done = {} /\ g.step = "queued" /\ ~g.last
    /\ \/ pools = {} /\ g.rest = {} /\ g.cur = l /\ g.pc = 1
       \/ /\ g.cur \in pools /\ g.rest = pools \ {g.cur}
          /\ g.pc = IF op = "create_lb" /\ g.cur \notin mon THEN 4 ELSE 1

LEMMA LbFlowIs ==
  ASSUME ShapeAssumption, NEW op \in LbOps, NEW l \in LBs, NEW pools \in SUBSET Under(l),
         NEW mon \in SUBSET Pools, NEW g \in NextPart(LbFlow(op, l, pools, mon))
  PROVE  LbBegins(g, op, l, pools, mon)
<1> DEFINE f == LbFlow(op, l, pools, mon)
<1>1. Idle \in Flows
  BY DEF Idle, Flows
<1>2. /\ f.op = op /\ f.on = l /\ f.monitored = mon /\ f.done = {} /\ f.step = "queued"
      /\ f.rest = pools /\ ~f.last
  BY DEF LbFlow, Idle
<1>3. f \in Flows
  <2>1. op \in Ops \cup {"none"} /\ l \in Objects \cup {None} /\ pools \in SUBSET Pools
    BY DEF Ops, Objects, Under
  <2> QED
    BY <1>1, <2>1 DEF Flows, LbFlow
<1>4. g \in NextPart(f)
  OBVIOUS
<1> HIDE DEF f
<1>5. /\ g \in Flows /\ Shape(g) /\ Same(f, g) /\ g.done = f.done
      /\ \/ f.rest = {} /\ g.rest = {} /\ g.cur = f.on /\ g.pc = 1
         \/ g.cur \in f.rest /\ g.rest = f.rest \ {g.cur} /\ g.pc = FirstTask(f, g.cur)
  BY <1>2, <1>3, <1>4, PartStep
<1> QED
  BY <1>2, <1>5 DEF Same, FirstTask, LbBegins

Rows ==
    /\ lb \in [LBs -> Statuses] /\ pool \in [Pools -> Statuses] /\ hm \in [Pools -> Statuses]
    /\ sp \subseteq Pools
Device ==
    /\ vports \subseteq LBs
    /\ groups \subseteq Pools /\ pers \subseteq Pools /\ monitors \subseteq Pools
    /\ check \in [Servers -> monitors \cup {None}]
    /\ proxy \in BOOLEAN /\ front \in [Default -> Fronts]
    /\ \A p \in Default :
         /\ front[p].group => p \in groups /\ LbOf[p] \in vports
         /\ front[p].pers => p \in pers
         /\ front[p].proxy => proxy

LEMMA InvParts == Inv <=> Rows /\ Device /\ FlowInv /\ scene \in Scenes
  BY DEF Inv, TypeOK, Rows, Device

LEMMA InvPartsNext ==
  ASSUME Rows', Device', FlowInv', scene' \in Scenes
  PROVE  Inv'
  BY DEF Inv, TypeOK, Rows, Device

LEMMA DeviceFrame ==
  ASSUME Device, UNCHANGED device
  PROVE  Device'
  BY DEF Device, device

LbOfFlow(f) == IF f.on \in LBs THEN f.on ELSE LbOf[f.on]

LEMMA AdmitStep ==
  ASSUME ShapeAssumption, Inv, NEW s \in Slots, NEW f \in Flows, Shape(f), Admit(s, f),
         pool' \in [Pools -> Statuses], hm' \in [Pools -> Statuses], sp' \subseteq Pools
  PROVE  Inv' /\ flow'[s] = f /\ Only(s) /\ LbOfFlow(f) \in LBs
<1>1. LbOfFlow(f) \in LBs
  BY DEF LbOfFlow, Shape, PoolShape, LbShape, ShapeAssumption
<1>2. FlowInv' /\ flow'[s] = f /\ Only(s)
  <2>1. FlowInv /\ flow' = [flow EXCEPT ![s] = f]
    BY DEF Inv, Admit
  <2> QED
    BY <2>1, FlowFrame DEF Only
<1>3. lb' \in [LBs -> Statuses]
  <2>1. lb' = [lb EXCEPT ![LbOfFlow(f)] = "PENDING"]
    BY DEF Admit, LbOfFlow
  <2> QED
    BY <2>1, <1>1 DEF Inv, TypeOK, Statuses
<1>4. Device' /\ scene' \in Scenes
  BY InvParts, DeviceFrame DEF Admit
<1> QED
  BY <1>1, <1>2, <1>3, <1>4, InvPartsNext DEF Rows

LEMMA RequestTypes ==
  ASSUME ShapeAssumption, Inv, NEW s \in Slots
  PROVE  /\ \A p \in Pools : CreatePool(s, p) \/ UpdatePool(s, p) \/ DeletePool(s, p)
                \/ CreateMonitor(s, p) \/ UpdateMonitor(s, p) \/ DeleteMonitor(s, p) => Inv'
         /\ \A l \in LBs : CreateLb(s, l) \/ DeleteLb(s, l) => Inv'
<1>0. pool \in [Pools -> Statuses] /\ hm \in [Pools -> Statuses] /\ sp \subseteq Pools
  BY DEF Inv, TypeOK
<1>1. ASSUME NEW p \in Pools, CreatePool(s, p) PROVE Inv'
  <2>1. PICK persistent \in BOOLEAN :
           /\ sp' = IF persistent THEN sp \cup {p} ELSE sp
           /\ Admit(s, PoolFlow("create_pool", p, persistent, {}))
    BY <1>1 DEF CreatePool
  <2>2. PoolFlow("create_pool", p, persistent, {}) \in Flows
        /\ Shape(PoolFlow("create_pool", p, persistent, {}))
    BY PoolFlowIs DEF PoolOps, HmOps
  <2>3. pool' \in [Pools -> Statuses] /\ hm' \in [Pools -> Statuses] /\ sp' \subseteq Pools
    BY <1>0, <1>1, <2>1 DEF CreatePool, Statuses
  <2> QED
    BY <2>1, <2>2, <2>3, AdmitStep
<1>2. ASSUME NEW p \in Pools, UpdatePool(s, p) PROVE Inv'
  <2>1. PICK persistent \in BOOLEAN : Admit(s, PoolFlow("update_pool", p, persistent, {}))
    BY <1>2 DEF UpdatePool
  <2>2. PoolFlow("update_pool", p, persistent, {}) \in Flows
        /\ Shape(PoolFlow("update_pool", p, persistent, {}))
    BY PoolFlowIs DEF PoolOps, HmOps
  <2>3. pool' \in [Pools -> Statuses] /\ hm' \in [Pools -> Statuses] /\ sp' \subseteq Pools
    BY <1>0, <1>2, <2>1 DEF UpdatePool, Statuses
  <2> QED
    BY <2>1, <2>2, <2>3, AdmitStep
<1>3. ASSUME NEW p \in Pools, DeletePool(s, p) PROVE Inv'
  <2> DEFINE f == PoolFlow("delete_pool", p, p \in sp, Monitored({p}))
  <2>1. (p \in sp) \in BOOLEAN /\ Monitored({p}) \in SUBSET {p}
    BY Membership DEF Monitored
  <2>2. f \in Flows /\ Shape(f)
    BY <2>1, PoolFlowIs DEF PoolOps, HmOps
  <2>3. pool' \in [Pools -> Statuses] /\ hm' \in [Pools -> Statuses] /\ sp' \subseteq Pools
    BY <1>0, <1>3 DEF DeletePool, Statuses
  <2>4. Admit(s, f)
    BY <1>3 DEF DeletePool
  <2> HIDE DEF f
  <2> QED
    BY <2>2, <2>3, <2>4, AdmitStep
<1>4. ASSUME NEW p \in Pools, NEW op \in HmOps, NEW status \in Statuses, ChangeMonitor(s, op, p, status)
      PROVE  Inv'
  <2> DEFINE f == PoolFlow(op, p, FALSE, {p})
  <2>1. f \in Flows /\ Shape(f)
    BY PoolFlowIs
  <2>2. pool' \in [Pools -> Statuses] /\ hm' \in [Pools -> Statuses] /\ sp' \subseteq Pools
    BY <1>0, <1>4 DEF ChangeMonitor, Statuses
  <2>3. Admit(s, f)
    BY <1>4 DEF ChangeMonitor
  <2> HIDE DEF f
  <2> QED
    BY <2>1, <2>2, <2>3, AdmitStep
<1>5. ASSUME NEW p \in Pools, CreateMonitor(s, p) \/ UpdateMonitor(s, p) \/ DeleteMonitor(s, p)
      PROVE  Inv'
  <2>1. "PENDING" \in Statuses /\ "DELETING" \in Statuses
    BY DEF Statuses
  <2>2. "create_hm" \in HmOps /\ "update_hm" \in HmOps /\ "delete_hm" \in HmOps
    BY DEF HmOps
  <2> QED
    BY <1>4, <1>5, <2>1, <2>2 DEF CreateMonitor, UpdateMonitor, DeleteMonitor
<1>6. ASSUME NEW l \in LBs, CreateLb(s, l) PROVE Inv'
  <2>1. PICK mon \in SUBSET Under(l), persistent \in SUBSET Under(l) :
          /\ hm' = [p \in Pools |-> IF p \in mon THEN "PENDING" ELSE hm[p]]
          /\ sp' = sp \cup persistent
          /\ \E f \in NextPart(LbFlow("create_lb", l, Under(l), mon)) : Admit(s, f)
    BY <1>6 DEF CreateLb, Under
  <2>2. PICK f \in NextPart(LbFlow("create_lb", l, Under(l), mon)) : Admit(s, f)
    BY <2>1
  <2>3. f \in Flows /\ Shape(f)
    <3> DEFINE S == Under(l)
    <3>1. "create_lb" \in LbOps /\ mon \in SUBSET Pools /\ S \in SUBSET Under(l)
      BY DEF LbOps, Under
    <3>2. f \in NextPart(LbFlow("create_lb", l, S, mon))
      OBVIOUS
    <3> HIDE DEF S
    <3> QED
      BY <3>1, <3>2, LbFlowIs DEF LbBegins
  <2>4. pool' \in [Pools -> Statuses] /\ hm' \in [Pools -> Statuses] /\ sp' \subseteq Pools
    BY <1>0, <1>6, <2>1 DEF CreateLb, Under, Statuses
  <2> QED
    BY <2>2, <2>3, <2>4, AdmitStep
<1>7. ASSUME NEW l \in LBs, DeleteLb(s, l) PROVE Inv'
  <2>1. PICK f \in NextPart(LbFlow("delete_lb", l, PoolsOf(l), Monitored(PoolsOf(l)))) : Admit(s, f)
    BY <1>7 DEF DeleteLb
  <2>2. f \in Flows /\ Shape(f)
    <3> DEFINE S == PoolsOf(l)
               M == Monitored(PoolsOf(l))
    <3>1. "delete_lb" \in LbOps /\ M \in SUBSET Pools /\ S \in SUBSET Under(l)
      BY DEF LbOps, Under, PoolsOf, Monitored
    <3>2. f \in NextPart(LbFlow("delete_lb", l, S, M))
      OBVIOUS
    <3> HIDE DEF S, M
    <3> QED
      BY <3>1, <3>2, LbFlowIs DEF LbBegins
  <2>3. pool' \in [Pools -> Statuses] /\ hm' \in [Pools -> Statuses] /\ sp' \subseteq Pools
    BY <1>0, <1>7 DEF DeleteLb
  <2> QED
    BY <2>1, <2>2, <2>3, AdmitStep
<1> QED
  BY <1>1, <1>2, <1>3, <1>5, <1>6, <1>7

-----------------------------------------------------------------------------
(* The tasks, by what they change: nothing, rows, or the device.           *)
LEMMA FrontSet ==
  ASSUME front \in [Default -> Fronts], NEW p, NEW part \in {"group", "pers", "proxy"}
  PROVE  /\ Bound(p, part, FALSE) \in [Default -> Fronts]
         /\ \A q \in Default \ {p} : Bound(p, part, FALSE)[q] = front[q]
         /\ p \in Default => Bound(p, part, FALSE)[p] = [front[p] EXCEPT ![part] = FALSE]
<1>1. ASSUME NEW r \in Fronts PROVE [r EXCEPT ![part] = FALSE] \in Fronts
  BY DEF Fronts
<1>2. p \in Default => front[p] \in Fronts
  OBVIOUS
<1> QED
  BY <1>1, <1>2 DEF Bound

(* The count keeps what it found; else a task moves its flow on.           *)
LEMMA CountStep ==
  ASSUME ShapeAssumption, Inv, NEW s \in Slots, CountProxyPools(s)
  PROVE  /\ FlowInv' /\ Only(s)
         /\ \E f \in Flows : /\ f.op = flow[s].op /\ f.on = flow[s].on /\ f.sp = flow[s].sp
                             /\ f.monitored = flow[s].monitored /\ f.step = flow[s].step
                             /\ f.rest = flow[s].rest /\ f.cur = flow[s].cur /\ f.pc = flow[s].pc
                             /\ f.done = flow[s].done
                             /\ f.last = (\A q \in OfProject(LbAt(s)) : pool[q] = "DELETING")
                             /\ f.seen = OfProject(LbAt(s))
                             /\ Moves(f, flow'[s])
<1>1. /\ flow[s] \in Flows /\ Shape(flow[s]) /\ flow[s].step = "run" /\ ~Ended(flow[s])
  BY Stage DEF CountProxyPools
<1> DEFINE last == \A q \in OfProject(LbAt(s)) : pool[q] = "DELETING"
           f == [flow[s] EXCEPT !.last = last, !.seen = OfProject(LbAt(s))]
<1>2. Proceed(s, f)
  BY DEF CountProxyPools, OfProject
<1>3. last \in BOOLEAN /\ OfProject(LbAt(s)) \in SUBSET Proxied
  <2>1. OfProject(LbAt(s)) \in SUBSET Proxied
    BY DEF OfProject
  <2>2. last \in BOOLEAN
    OBVIOUS
  <2> QED
    BY <2>1, <2>2
<1> HIDE DEF last
<1>4. /\ f \in Flows
      /\ f.last = last /\ f.seen = OfProject(LbAt(s))
  BY <1>1, <1>3 DEF Flows
<1>5. /\ f.op = flow[s].op /\ f.on = flow[s].on /\ f.sp = flow[s].sp
      /\ f.monitored = flow[s].monitored /\ f.step = flow[s].step
      /\ f.rest = flow[s].rest /\ f.cur = flow[s].cur /\ f.pc = flow[s].pc
      /\ f.done = flow[s].done
  BY <1>1 DEF Flows
<1> HIDE DEF f
<1>6. Tasks(f) = Tasks(flow[s])
  BY <1>5 DEF Tasks
<1>7. ~Ended(f)
  BY <1>1, <1>5, <1>6 DEF Ended
<1>8. Shape(f)
  <2>1. PoolShape(flow[s]) => PoolShape(f)
    BY <1>5 DEF PoolShape
  <2>2. LbShape(flow[s]) => LbShape(f)
    <3>1. SUFFICES ASSUME LbShape(flow[s]) PROVE LbShape(f)
      OBVIOUS
    <3>2. /\ f.op \in LbOps /\ f.on \in LBs /\ f.rest \subseteq Under(f.on)
          /\ \/ f.cur = f.on /\ f.rest = {}
             \/ f.cur \in Under(f.on) \ f.rest
      BY <3>1, <1>5 DEF LbShape
    <3>3. ASSUME NEW t \in f.done PROVE t.on = f.on \/ t.on \in Under(f.on) \ f.rest
      BY <3>1, <1>5 DEF LbShape
    <3> QED
      BY <3>2, <3>3, <1>7 DEF LbShape
  <2> QED
    BY <2>1, <2>2, <1>1, <1>5 DEF Shape
<1>9. FlowInv' /\ Moves(f, flow'[s]) /\ Only(s)
  BY <1>2, <1>4, <1>7, <1>8, ProceedStep DEF Inv
<1> QED
  BY <1>4, <1>5, <1>9 DEF last

Acts(s, do) == At(s, do) /\ Advance(s) /\ scene' = scene

LEMMA TaskSteps ==
  ASSUME NEW s
  PROVE  /\ PutProxy(s) => Acts(s, "proxy")
         /\ CreateGroup(s) => Acts(s, "group")
         /\ ReplaceGroup(s) => Acts(s, "replace_group")
         /\ PutPersistence(s) => Acts(s, "persist")
         /\ DeletePersistence(s) => Acts(s, "no_persist")
         /\ UpdateFront(s) => Acts(s, "front")
         /\ ClearFront(s) => Acts(s, "clear_front")
         /\ DeleteProxy(s) => Acts(s, "no_proxy")
         /\ DeleteGroup(s) => Acts(s, "no_group")
         /\ CreateListener(s) => Acts(s, "listener")
         /\ PutMonitor(s) => Acts(s, "monitor")
         /\ Associate(s) => Acts(s, "associate")
         /\ UpdateMonitorTask(s) => Acts(s, "change_monitor")
         /\ DeleteMonitorTask(s) => Acts(s, "no_monitor")
         /\ UpdatePoolRow(s) => Acts(s, "pool_row")
         /\ MarkPoolActive(s) => Acts(s, "pool_active")
         /\ MarkMonitorActive(s) => Acts(s, "hm_active")
         /\ MarkActive(s) => Acts(s, "active")
         /\ MarkPoolPendingDelete(s) => Acts(s, "deleting")
         /\ DeletePoolRow(s) => Acts(s, "no_row")
         /\ DeleteMonitorRow(s) => Acts(s, "no_hm_row")
         /\ DeleteLbTask(s) => Acts(s, "no_lb")
<1>1. PutProxy(s) => Acts(s, "proxy")
  BY DEF PutProxy, Acts
<1>2. CreateGroup(s) => Acts(s, "group")
  BY DEF CreateGroup, Acts
<1>3. ReplaceGroup(s) => Acts(s, "replace_group")
  BY DEF ReplaceGroup, Acts
<1>4. PutPersistence(s) => Acts(s, "persist")
  BY DEF PutPersistence, Acts
<1>5. DeletePersistence(s) => Acts(s, "no_persist")
  BY DEF DeletePersistence, Acts
<1>6. UpdateFront(s) => Acts(s, "front")
  BY DEF UpdateFront, Acts
<1>7. ClearFront(s) => Acts(s, "clear_front")
  BY DEF ClearFront, Acts
<1>8. DeleteProxy(s) => Acts(s, "no_proxy")
  BY DEF DeleteProxy, Acts
<1>9. DeleteGroup(s) => Acts(s, "no_group")
  BY DEF DeleteGroup, Acts
<1>10. CreateListener(s) => Acts(s, "listener")
  BY DEF CreateListener, Acts
<1>11. PutMonitor(s) => Acts(s, "monitor")
  BY DEF PutMonitor, Acts
<1>12. Associate(s) => Acts(s, "associate")
  BY DEF Associate, Acts
<1>13. UpdateMonitorTask(s) => Acts(s, "change_monitor")
  BY DEF UpdateMonitorTask, Acts
<1>14. DeleteMonitorTask(s) => Acts(s, "no_monitor")
  BY DEF DeleteMonitorTask, Acts
<1>15. UpdatePoolRow(s) => Acts(s, "pool_row")
  BY DEF UpdatePoolRow, Acts
<1>16. MarkPoolActive(s) => Acts(s, "pool_active")
  BY DEF MarkPoolActive, Acts
<1>17. MarkMonitorActive(s) => Acts(s, "hm_active")
  BY DEF MarkMonitorActive, Acts
<1>18. MarkActive(s) => Acts(s, "active")
  BY DEF MarkActive, Acts
<1>19. MarkPoolPendingDelete(s) => Acts(s, "deleting")
  BY DEF MarkPoolPendingDelete, Acts
<1>20. DeletePoolRow(s) => Acts(s, "no_row")
  BY DEF DeletePoolRow, Acts
<1>21. DeleteMonitorRow(s) => Acts(s, "no_hm_row")
  BY DEF DeleteMonitorRow, Acts
<1>22. DeleteLbTask(s) => Acts(s, "no_lb")
  BY DEF DeleteLbTask, Acts
<1> QED
  BY <1>1, <1>2, <1>3, <1>4, <1>5, <1>6, <1>7, <1>8, <1>9, <1>10, <1>11, <1>12,
     <1>13, <1>14, <1>15, <1>16, <1>17, <1>18, <1>19, <1>20, <1>21, <1>22

LEMMA RunMoves ==
  ASSUME ShapeAssumption, Inv, NEW s \in Slots, Run(s)
  PROVE  FlowInv' /\ Only(s) /\ scene' \in Scenes
<1>1. CASE ~CountProxyPools(s)
  <2>1. \E do : Acts(s, do)
    BY <1>1, TaskSteps, Zenon DEF Run
  <2>2. PICK do : At(s, do) /\ Advance(s) /\ scene' = scene
    BY <2>1 DEF Acts
  <2>3. FlowInv' /\ Only(s)
    BY <2>2, AdvanceStep
  <2> QED
    BY <2>2, <2>3 DEF Inv
<1>2. CASE CountProxyPools(s)
  BY <1>2, CountStep DEF CountProxyPools, Inv
<1> QED
  BY <1>1, <1>2

LEMMA RowTasks ==
  ASSUME ShapeAssumption, Inv, NEW s \in Slots,
         \/ UpdatePoolRow(s) \/ MarkPoolActive(s) \/ MarkMonitorActive(s) \/ MarkActive(s)
         \/ MarkPoolPendingDelete(s) \/ DeletePoolRow(s) \/ DeleteMonitorRow(s)
  PROVE  Rows' /\ Device'
<1>1. Rows /\ Device
  BY InvParts
<1>2. "ACTIVE" \in Statuses /\ "DELETING" \in Statuses /\ "GONE" \in Statuses
  BY DEF Statuses
<1>3. Device'
  BY <1>1, DeviceFrame DEF UpdatePoolRow, MarkPoolActive, MarkMonitorActive, MarkActive,
     MarkPoolPendingDelete, DeletePoolRow, DeleteMonitorRow
<1>4. CASE UpdatePoolRow(s)
  <2>1. Target(s) \in Pools
    BY <1>4, Targets DEF UpdatePoolRow
  <2> QED
    BY <1>1, <1>3, <1>4, <2>1 DEF UpdatePoolRow, Rows
<1>5. CASE MarkPoolActive(s) \/ MarkPoolPendingDelete(s)
  <2>1. pool' \in [Pools -> Statuses]
    BY <1>1, <1>2, <1>5, SetIs DEF MarkPoolActive, MarkPoolPendingDelete, Rows
  <2> QED
    BY <1>1, <1>3, <1>5, <2>1 DEF MarkPoolActive, MarkPoolPendingDelete, Rows
<1>6. CASE MarkMonitorActive(s) \/ DeleteMonitorRow(s)
  <2>1. hm' \in [Pools -> Statuses]
    BY <1>1, <1>2, <1>6, SetIs DEF MarkMonitorActive, DeleteMonitorRow, Rows
  <2> QED
    BY <1>1, <1>3, <1>6, <2>1 DEF MarkMonitorActive, DeleteMonitorRow, Rows
<1>7. CASE MarkActive(s)
  <2>1. lb' \in [LBs -> Statuses]
    BY <1>1, <1>2, <1>7, SetIs DEF MarkActive, Rows
  <2> QED
    BY <1>1, <1>3, <1>7, <2>1 DEF MarkActive, Rows
<1>8. CASE DeletePoolRow(s)
  <2>1. pool' \in [Pools -> Statuses] /\ hm' \in [Pools -> Statuses]
    BY <1>1, <1>2, <1>8, SetIs DEF DeletePoolRow, Rows
  <2> QED
    BY <1>1, <1>3, <1>8, <2>1 DEF DeletePoolRow, Rows
<1> QED
  BY <1>4, <1>5, <1>6, <1>7, <1>8

LEMMA RowsFrame ==
  ASSUME Rows, UNCHANGED rows
  PROVE  Rows'
  BY DEF Rows, rows

(* The device after a task, by what it does to each object.                *)
LEMMA DevicePartsNext ==
  ASSUME vports' \subseteq LBs,
         groups' \subseteq Pools /\ pers' \subseteq Pools /\ monitors' \subseteq Pools,
         check' \in [Servers -> monitors' \cup {None}],
         proxy' \in BOOLEAN /\ front' \in [Default -> Fronts],
         \A p \in Default : /\ front'[p].group => p \in groups' /\ LbOf[p] \in vports'
                            /\ front'[p].pers => p \in pers'
                            /\ front'[p].proxy => proxy'
  PROVE  Device'
  BY DEF Device

LEMMA ProxyTasks ==
  ASSUME ShapeAssumption, Inv, NEW s \in Slots, PutProxy(s) \/ DeleteProxy(s)
  PROVE  Rows' /\ Device'
<1>1. Rows /\ Device
  BY InvParts
<1>2. CASE PutProxy(s)
  <2>1. proxy' \in BOOLEAN /\ (proxy => proxy')
    BY <1>2 DEF PutProxy
  <2>2. UNCHANGED <<rows, vports, groups, pers, front, monitors, check>>
    BY <1>2 DEF PutProxy
  <2> QED
    BY <1>1, <2>1, <2>2, RowsFrame, DevicePartsNext DEF Device
<1>3. CASE DeleteProxy(s)
  <2>1. UNCHANGED <<rows, vports, groups, pers, monitors, check>>
    BY <1>3 DEF DeleteProxy
  <2>2. \/ UNCHANGED <<proxy, front>>
        \/ proxy' = FALSE /\ front' = [q \in Default |-> [front[q] EXCEPT !.proxy = FALSE]]
    BY <1>3 DEF DeleteProxy
  <2>3. CASE UNCHANGED <<proxy, front>>
    BY <1>1, <2>1, <2>3, RowsFrame, DeviceFrame DEF device
  <2>4. CASE proxy' = FALSE /\ front' = [q \in Default |-> [front[q] EXCEPT !.proxy = FALSE]]
    <3>1. ASSUME NEW r \in Fronts
          PROVE  /\ [r EXCEPT !.proxy = FALSE] \in Fronts /\ ~[r EXCEPT !.proxy = FALSE].proxy
                 /\ [r EXCEPT !.proxy = FALSE].group = r.group /\ [r EXCEPT !.proxy = FALSE].pers = r.pers
      BY DEF Fronts
    <3>2. \A q \in Default : front[q] \in Fronts /\ front'[q] = [front[q] EXCEPT !.proxy = FALSE]
      BY <2>4, <1>1 DEF Device
    <3>3. front' \in [Default -> Fronts]
      BY <2>4, <3>1, <3>2
    <3>4. ASSUME NEW p \in Default
          PROVE /\ front'[p].group => p \in groups' /\ LbOf[p] \in vports'
                /\ front'[p].pers => p \in pers'
                /\ front'[p].proxy => proxy'
      <4>1. /\ ~front'[p].proxy /\ front'[p].group = front[p].group
            /\ front'[p].pers = front[p].pers
        <5>1. PICK r \in Fronts : r = front[p] /\ front'[p] = [r EXCEPT !.proxy = FALSE]
          BY <3>2
        <5> QED
          BY <5>1, <3>1
      <4> QED
        BY <4>1, <2>1, <1>1 DEF Device
    <3> QED
      BY <1>1, <2>1, <2>4, <3>3, <3>4, RowsFrame, DevicePartsNext DEF Device
  <2> QED
    BY <2>2, <2>3, <2>4
<1> QED
  BY <1>2, <1>3

LessPers(p) ==
    /\ front' \in [Default -> Fronts]
    /\ \A q \in Default : /\ q # p => front'[q] = front[q]
                          /\ front'[q].proxy = front[q].proxy /\ front'[q].group = front[q].group
                          /\ front'[q].pers => front[q].pers /\ q # p

LEMMA BoundPers ==
  ASSUME front \in [Default -> Fronts], NEW p, front' = Bound(p, "pers", FALSE)
  PROVE  LessPers(p)
<1>1. /\ front' \in [Default -> Fronts] /\ \A q \in Default \ {p} : front'[q] = front[q]
      /\ p \in Default => front'[p] = [front[p] EXCEPT !["pers"] = FALSE]
  BY FrontSet
<1>2. ASSUME p \in Default
      PROVE  /\ ~front'[p].pers /\ front'[p].group = front[p].group
             /\ front'[p].proxy = front[p].proxy
  <2>1. PICK r \in Fronts : r = front[p] /\ front'[p] = [r EXCEPT !["pers"] = FALSE]
    BY <1>1, <1>2
  <2> QED
    BY <2>1 DEF Fronts
<1> QED
  BY <1>1, <1>2 DEF LessPers

LessGroup(p) ==
    /\ front' \in [Default -> Fronts]
    /\ \A q \in Default : /\ q # p => front'[q] = front[q]
                          /\ front'[q].proxy = front[q].proxy /\ front'[q].pers = front[q].pers
                          /\ front'[q].group => front[q].group /\ q # p

LEMMA BoundGroup ==
  ASSUME front \in [Default -> Fronts], NEW p, front' = Bound(p, "group", FALSE)
  PROVE  LessGroup(p)
<1>1. /\ front' \in [Default -> Fronts] /\ \A q \in Default \ {p} : front'[q] = front[q]
      /\ p \in Default => front'[p] = [front[p] EXCEPT !["group"] = FALSE]
  BY FrontSet
<1>2. ASSUME p \in Default
      PROVE  /\ ~front'[p].group /\ front'[p].pers = front[p].pers
             /\ front'[p].proxy = front[p].proxy
  <2>1. PICK r \in Fronts : r = front[p] /\ front'[p] = [r EXCEPT !["group"] = FALSE]
    BY <1>1, <1>2
  <2> QED
    BY <2>1 DEF Fronts
<1> QED
  BY <1>1, <1>2 DEF LessGroup

LEMMA PersistenceTasks ==
  ASSUME ShapeAssumption, Inv, NEW s \in Slots, PutPersistence(s) \/ DeletePersistence(s)
  PROVE  Rows' /\ Device'
<1>0. PICK p : p = Target(s)
  OBVIOUS
<1>1. Rows /\ Device
  BY InvParts
<1>2. p \in Pools
  <2>1. At(s, "persist") \/ At(s, "no_persist")
    BY DEF PutPersistence, DeletePersistence
  <2> QED
    BY <2>1, <1>0, Targets
<1>3. UNCHANGED <<rows, vports, groups, proxy, monitors, check>>
  BY DEF PutPersistence, DeletePersistence
<1>4. CASE UNCHANGED <<pers, front>>
  BY <1>1, <1>3, <1>4, RowsFrame, DeviceFrame DEF device
<1>5. CASE pers' \in {pers \cup {p}, pers \ {p}} /\ front' = Bound(p, "pers", FALSE)
  <2>1. LessPers(p)
    <3>1. front \in [Default -> Fronts]
      BY <1>1 DEF Device
    <3> QED
      BY <3>1, <1>5, BoundPers
  <2>2. pers' \subseteq Pools /\ \A q \in Default : q # p => (q \in pers' <=> q \in pers)
    BY <1>5, <1>1, <1>2 DEF Device
  <2> QED
    BY <1>1, <1>3, <2>1, <2>2, RowsFrame, DevicePartsNext DEF Device, LessPers
<1> QED
  BY <1>0, <1>4, <1>5 DEF PutPersistence, DeletePersistence

LEMMA GroupTasks ==
  ASSUME ShapeAssumption, Inv, NEW s \in Slots, CreateGroup(s) \/ DeleteGroup(s)
  PROVE  Rows' /\ Device'
<1>0. PICK p : p = Target(s)
  OBVIOUS
<1>1. Rows /\ Device
  BY InvParts
<1>2. p \in Pools
  <2>1. At(s, "group") \/ At(s, "no_group")
    BY DEF CreateGroup, DeleteGroup
  <2> QED
    BY <2>1, <1>0, Targets
<1>3. UNCHANGED <<rows, vports, pers, proxy, monitors, check>>
  BY DEF CreateGroup, DeleteGroup
<1>4. CASE groups' = groups \cup {p} /\ UNCHANGED front
  BY <1>1, <1>2, <1>3, <1>4, RowsFrame, DevicePartsNext DEF Device
<1>5. CASE groups' = groups \ {p} /\ front' = Bound(p, "group", FALSE)
  <2>1. LessGroup(p)
    <3>1. front \in [Default -> Fronts]
      BY <1>1 DEF Device
    <3> QED
      BY <3>1, <1>5, BoundGroup
  <2>2. groups' \subseteq Pools /\ \A q \in Default : q # p => (q \in groups' <=> q \in groups)
    BY <1>5, <1>1, <1>2 DEF Device
  <2> QED
    BY <1>1, <1>3, <2>1, <2>2, RowsFrame, DevicePartsNext DEF Device, LessGroup
<1> QED
  BY <1>0, <1>4, <1>5 DEF CreateGroup, DeleteGroup

(* What the port of a default pool is bound to by a whole record.          *)
LEMMA BindingIs ==
  ASSUME NEW a \in BOOLEAN, NEW b \in BOOLEAN, NEW c \in BOOLEAN, NEW r,
         r = [group |-> a, pers |-> b, proxy |-> c]
  PROVE  r \in Fronts /\ r.group = a /\ r.pers = b /\ r.proxy = c
  BY DEF Fronts

LEMMA UnboundIs == Unbound \in Fronts /\ ~Unbound.group /\ ~Unbound.pers /\ ~Unbound.proxy
  BY DEF Unbound, Fronts

LEMMA WantsPersIs ==
  ASSUME Inv, NEW s \in Slots, NEW p
  PROVE  WantsPers(s, p) \in BOOLEAN
<1>1. flow[s].sp \in BOOLEAN
  BY DEF Inv, FlowInv, Flows
<1>2. (p \in sp) \in BOOLEAN
  BY Membership
<1> QED
  BY <1>1, <1>2 DEF WantsPers

LEMMA UpdateFrontStep ==
  ASSUME ShapeAssumption, Inv, NEW s \in Slots, UpdateFront(s)
  PROVE  /\ front' \in [Default -> Fronts]
         /\ \A q \in Default : q # Target(s) => front'[q] = front[q]
         /\ Target(s) \in Default =>
              /\ LbOf[Target(s)] \in vports /\ Target(s) \in groups
              /\ WantsPers(s, Target(s)) => Target(s) \in pers
              /\ Target(s) \in Proxied /\ pool[Target(s)] # "DELETING" => proxy
              /\ front'[Target(s)].group
              /\ front'[Target(s)].pers = WantsPers(s, Target(s))
              /\ front'[Target(s)].proxy = (Target(s) \in Proxied /\ pool[Target(s)] # "DELETING")
<1> DEFINE p == Target(s)
           b == WantsPers(s, p)
           c == p \in Proxied /\ pool[p] # "DELETING"
<1>1. front \in [Default -> Fronts]
  BY DEF Inv
<1>2. CASE p \notin Default
  BY <1>1, <1>2 DEF UpdateFront
<1>3. CASE p \in Default
  <2>1. b \in BOOLEAN /\ c \in BOOLEAN
    BY WantsPersIs
  <2>2. PICK r : r = [group |-> TRUE, pers |-> b, proxy |-> c]
    OBVIOUS
  <2>3. front' = [front EXCEPT ![p] = r]
    BY <1>3, <2>2 DEF UpdateFront
  <2>4. r \in Fronts /\ r.group /\ r.pers = b /\ r.proxy = c
    BY <2>1, <2>2, BindingIs
  <2>5. /\ LbOf[p] \in vports /\ p \in groups /\ (b => p \in pers) /\ (c => proxy)
    BY <1>3 DEF UpdateFront
  <2>6. front'[p] = r /\ front' \in [Default -> Fronts] /\ \A q \in Default : q # p => front'[q] = front[q]
    BY <1>1, <1>3, <2>3, <2>4
  <2> QED
    BY <2>4, <2>5, <2>6
<1> QED
  BY <1>2, <1>3

LEMMA FrontTasks ==
  ASSUME ShapeAssumption, Inv, NEW s \in Slots, UpdateFront(s) \/ ClearFront(s)
  PROVE  Rows' /\ Device'
<1>1. Rows /\ Device
  BY InvParts
<1>2. UNCHANGED <<rows, vports, groups, pers, proxy, monitors, check>>
  BY DEF UpdateFront, ClearFront
<1>3. CASE UpdateFront(s)
  <2>1. PICK p : p = Target(s)
    OBVIOUS
  <2>2. /\ front' \in [Default -> Fronts]
        /\ \A q \in Default : q # p => front'[q] = front[q]
        /\ p \in Default => /\ LbOf[p] \in vports /\ p \in groups
                            /\ front'[p].pers => p \in pers
                            /\ front'[p].proxy => proxy
    BY <1>3, <2>1, UpdateFrontStep
  <2> QED
    BY <1>1, <1>2, <2>2, RowsFrame, DevicePartsNext DEF Device
<1>4. CASE ClearFront(s)
  <2>1. PICK p : p = Target(s)
    OBVIOUS
  <2>2. front' = IF p \in Default THEN [front EXCEPT ![p] = Unbound] ELSE front
    BY <1>4, <2>1 DEF ClearFront
  <2>3. /\ front' \in [Default -> Fronts]
        /\ \A q \in Default : front'[q] = front[q] \/ front'[q] = Unbound
    BY <1>1, <2>2, UnboundIs DEF Device
  <2> QED
    BY <1>1, <1>2, <2>3, UnboundIs, RowsFrame, DevicePartsNext DEF Device
<1> QED
  BY <1>3, <1>4

LEMMA UncheckedIs ==
  ASSUME Device, NEW S
  PROVE  Unchecked(S) \in [Servers -> (monitors \ S) \cup {None}]
  BY DEF Device, Unchecked

LEMMA MonitorTasks ==
  ASSUME ShapeAssumption, Inv, NEW s \in Slots,
         PutMonitor(s) \/ Associate(s) \/ DeleteMonitorTask(s)
  PROVE  Rows' /\ Device'
<1>0. PICK p : p = Target(s)
  OBVIOUS
<1>1. Rows /\ Device
  BY InvParts
<1>2. p \in Pools
  <2>1. At(s, "monitor") \/ At(s, "associate") \/ At(s, "no_monitor")
    BY DEF PutMonitor, Associate, DeleteMonitorTask
  <2> QED
    BY <2>1, <1>0, Targets
<1>3. UNCHANGED <<rows, vports, groups, pers, proxy, front>>
  BY DEF PutMonitor, Associate, DeleteMonitorTask
<1>4. \/ monitors' = monitors \cup {p} /\ check' = check
      \/ /\ p \in monitors /\ monitors' = monitors
         /\ check' = [v \in Servers |-> IF v \in ServersOf[p] THEN p ELSE check[v]]
      \/ monitors' = monitors \ {p} /\ check' = Unchecked({p})
      \/ monitors' = monitors /\ check' = check
  BY <1>0 DEF PutMonitor, Associate, DeleteMonitorTask
<1>5. monitors' \subseteq Pools /\ check' \in [Servers -> monitors' \cup {None}]
  <2>1. monitors \subseteq Pools /\ check \in [Servers -> monitors \cup {None}]
    BY <1>1 DEF Device
  <2>2. Unchecked({p}) \in [Servers -> (monitors \ {p}) \cup {None}]
    BY <1>1, UncheckedIs
  <2>3. CASE monitors' = monitors \cup {p} /\ check' = check
    BY <1>2, <2>1, <2>3
  <2>4. CASE /\ p \in monitors /\ monitors' = monitors
             /\ check' = [v \in Servers |-> IF v \in ServersOf[p] THEN p ELSE check[v]]
    BY <2>1, <2>4
  <2>5. CASE monitors' = monitors \ {p} /\ check' = Unchecked({p})
    BY <2>1, <2>2, <2>5
  <2>6. CASE monitors' = monitors /\ check' = check
    BY <2>1, <2>6
  <2> QED
    BY <1>4, <2>3, <2>4, <2>5, <2>6
<1> QED
  BY <1>1, <1>3, <1>5, RowsFrame, DevicePartsNext DEF Device

(* What a listener is bound to when it is created.                         *)
LEMMA CreateListenerStep ==
  ASSUME ShapeAssumption, Inv, NEW s \in Slots, CreateListener(s)
  PROVE  /\ front' \in [Default -> Fronts]
         /\ \A p \in Default :
              IF LbOf[p] = Target(s) /\ HasRow(pool[p])
              THEN /\ p \in groups /\ (p \in sp => p \in pers) /\ (p \in Proxied => proxy)
                   /\ front'[p].group /\ front'[p].pers = (p \in sp)
                   /\ front'[p].proxy = (p \in Proxied)
              ELSE front'[p] = front[p]
<1> DEFINE mine == {p \in Default : LbOf[p] = Target(s) /\ HasRow(pool[p])}
           r(p) == [group |-> TRUE, pers |-> p \in sp, proxy |-> p \in Proxied]
<1>1. front' = [p \in Default |-> IF p \in mine THEN r(p) ELSE front[p]]
  BY DEF CreateListener
<1>2. ASSUME NEW p
      PROVE  r(p) \in Fronts /\ r(p).group /\ r(p).pers = (p \in sp) /\ r(p).proxy = (p \in Proxied)
  <2>1. (p \in sp) \in BOOLEAN /\ (p \in Proxied) \in BOOLEAN
    BY Membership
  <2> QED
    BY <2>1, BindingIs
<1>3. front \in [Default -> Fronts]
  BY DEF Inv
<1>4. \A p \in mine : p \in groups /\ (p \in sp => p \in pers) /\ (p \in Proxied => proxy)
  BY DEF CreateListener
<1> HIDE DEF r
<1>5. front' \in [Default -> Fronts]
  BY <1>1, <1>2, <1>3
<1>6. \A p \in Default : front'[p] = IF p \in mine THEN r(p) ELSE front[p]
  BY <1>1
<1>7. ASSUME NEW p \in Default
      PROVE  IF LbOf[p] = Target(s) /\ HasRow(pool[p])
             THEN /\ p \in groups /\ (p \in sp => p \in pers) /\ (p \in Proxied => proxy)
                  /\ front'[p].group /\ front'[p].pers = (p \in sp)
                  /\ front'[p].proxy = (p \in Proxied)
             ELSE front'[p] = front[p]
  <2>1. p \in mine <=> LbOf[p] = Target(s) /\ HasRow(pool[p])
    OBVIOUS
  <2> HIDE DEF mine
  <2>2. CASE p \in mine
    <3>1. front'[p] = r(p)
      BY <1>6, <2>2
    <3> QED
      BY <3>1, <2>1, <2>2, <1>2, <1>4
  <2>3. CASE p \notin mine
    BY <1>6, <2>1, <2>3
  <2> QED
    BY <2>2, <2>3
<1> QED
  BY <1>5, <1>7

LEMMA ListenerTasks ==
  ASSUME ShapeAssumption, Inv, NEW s \in Slots, CreateListener(s) \/ DeleteLbTask(s)
  PROVE  Rows' /\ Device'
<1>0. PICK l : l = Target(s)
  OBVIOUS
<1>1. Rows /\ Device
  BY InvParts
<1>2. l \in LBs
  <2>1. At(s, "listener") \/ At(s, "no_lb")
    BY DEF CreateListener, DeleteLbTask
  <2> QED
    BY <2>1, <1>0, Targets
<1>3. UNCHANGED <<pool, hm, sp, groups, pers, proxy, monitors, check>>
  BY DEF CreateListener, DeleteLbTask, rows
<1>4. CASE CreateListener(s)
  <2>1. vports' = vports \cup {l} /\ lb' = lb
    BY <1>0, <1>4 DEF CreateListener, rows
  <2>2. /\ front' \in [Default -> Fronts]
        /\ \A p \in Default :
             \/ front'[p] = front[p]
             \/ /\ LbOf[p] = l /\ p \in groups /\ (p \in sp => p \in pers) /\ (p \in Proxied => proxy)
                /\ front'[p].pers = (p \in sp) /\ front'[p].proxy = (p \in Proxied)
    BY <1>0, <1>4, CreateListenerStep
  <2>3. ASSUME NEW p \in Default
        PROVE /\ front'[p].group => p \in groups' /\ LbOf[p] \in vports'
              /\ front'[p].pers => p \in pers'
              /\ front'[p].proxy => proxy'
    BY <1>1, <1>3, <2>1, <2>2 DEF Device
  <2>4. Rows'
    BY <1>1, <1>3, <2>1 DEF Rows
  <2> QED
    BY <1>1, <1>2, <1>3, <2>1, <2>2, <2>3, <2>4, DevicePartsNext DEF Device
<1>5. CASE DeleteLbTask(s)
  <2>1. vports' = vports \ {l} /\ lb' = Set(lb, {l}, "GONE")
    BY <1>0, <1>5 DEF DeleteLbTask, DropPorts
  <2>2. front' = [p \in Default |-> IF LbOf[p] = l THEN Unbound ELSE front[p]]
    BY <1>0, <1>5 DEF DeleteLbTask, DropPorts
  <2>3. front' \in [Default -> Fronts]
    BY <1>1, <2>2, UnboundIs DEF Device
  <2>4. ASSUME NEW p \in Default
        PROVE /\ front'[p].group => p \in groups' /\ LbOf[p] \in vports'
              /\ front'[p].pers => p \in pers'
              /\ front'[p].proxy => proxy'
    BY <1>1, <1>3, <2>1, <2>2, UnboundIs DEF Device
  <2>5. lb' \in [LBs -> Statuses]
    <3>1. "GONE" \in Statuses
      BY DEF Statuses
    <3> QED
      BY <1>1, <2>1, <3>1, SetIs DEF Rows
  <2>6. Rows'
    BY <1>1, <1>3, <2>5 DEF Rows
  <2> QED
    BY <1>1, <1>3, <2>1, <2>3, <2>4, <2>6, DevicePartsNext DEF Device
<1> QED
  BY <1>4, <1>5

LEMMA DidIs ==
  ASSUME NEW f, f.done \subseteq [do : Kept, on : Objects], NEW do
  PROVE  Did(f, do) = {x \in Objects : Task(do, x) \in f.done}
<1>1. ASSUME NEW x \in Did(f, do) PROVE x \in Objects /\ Task(do, x) \in f.done
  <2>1. PICK t \in f.done : t.do = do /\ t.on = x
    BY <1>1 DEF Did
  <2>2. t \in [do : Kept, on : Objects]
    BY <2>1
  <2>3. t = Task(do, x)
    BY <2>1, <2>2 DEF Task
  <2> QED
    BY <2>1, <2>2, <2>3
<1>2. ASSUME NEW x \in Objects, Task(do, x) \in f.done PROVE x \in Did(f, do)
  BY <1>2 DEF Did, Task
<1> QED
  BY <1>1, <1>2

(* A failure, the reverts, and the end of a flow.                          *)
LEMMA FailStep ==
  ASSUME ShapeAssumption, Inv, NEW s \in Slots, Fail(s)
  PROVE  /\ FlowInv' /\ Only(s) /\ Shape(flow[s]) /\ flow[s] \in Flows
         /\ flow[s].step \in {"queued", "run"} /\ flow'[s] \in Flows /\ Shape(flow'[s])
         /\ flow'[s].step = "revert" /\ flow'[s].op = flow[s].op /\ flow'[s].on = flow[s].on
         /\ flow'[s].sp = flow[s].sp /\ flow'[s].monitored = flow[s].monitored
         /\ flow'[s].last = flow[s].last /\ flow'[s].seen = flow[s].seen
         /\ flow'[s].rest = flow[s].rest /\ flow'[s].cur = flow[s].cur /\ flow'[s].pc = flow[s].pc
         /\ flow'[s].done = IF flow[s].step = "run" THEN Done(flow[s]) ELSE flow[s].done
<1> DEFINE d == IF flow[s].step = "run" THEN Done(flow[s]) ELSE flow[s].done
           g == [[flow[s] EXCEPT !.done = d] EXCEPT !.step = "revert"]
<1>1. flow[s] \in Flows /\ flow[s].step \in {"queued", "run"} /\ flow' = [flow EXCEPT ![s] = g]
  <2>1. flow[s] \in Flows
    BY DEF Inv, FlowInv
  <2>2. [flow[s] EXCEPT !.done = d].step = flow[s].step
    BY <2>1 DEF Flows
  <2> QED
    BY <2>1, <2>2 DEF Fail
<1>2. Shape(flow[s])
  BY <1>1 DEF Inv, FlowInv, Idle
<1>3. flow[s].cur \in Objects
  BY <1>2 DEF Shape, PoolShape, LbShape, Objects, Under
<1>4. /\ d \subseteq [do : Kept, on : Objects]
      /\ \A t \in d : t \in flow[s].done \/ t.on = flow[s].cur
  BY <1>1, <1>3, DoneIs DEF Flows
<1> HIDE DEF d
<1>5. /\ g \in Flows /\ g.step = "revert" /\ g.done = d
  BY <1>1, <1>4 DEF Flows
<1>6. /\ g.op = flow[s].op /\ g.on = flow[s].on
      /\ g.sp = flow[s].sp /\ g.monitored = flow[s].monitored
      /\ g.last = flow[s].last /\ g.seen = flow[s].seen
      /\ g.rest = flow[s].rest /\ g.cur = flow[s].cur /\ g.pc = flow[s].pc
  BY <1>1 DEF Flows
<1> HIDE DEF g
<1>7. Ended(g) <=> Ended(flow[s])
  <2>1. Tasks(g) = Tasks(flow[s])
    BY <1>6 DEF Tasks
  <2> QED
    BY <2>1, <1>6 DEF Ended
<1>8. Shape(g)
  <2>1. CASE PoolShape(flow[s])
    <3>1. PoolShape(g)
      BY <2>1, <1>4, <1>5, <1>6 DEF PoolShape
    <3> QED
      BY <3>1, <1>2, <1>5, <1>6 DEF Shape
  <2>2. CASE LbShape(flow[s])
    <3>1. /\ g.op \in LbOps /\ g.on \in LBs /\ g.rest \subseteq Under(g.on)
          /\ \/ g.cur = g.on /\ g.rest = {}
             \/ g.cur \in Under(g.on) \ g.rest /\ ~Ended(g)
      BY <2>2, <1>6, <1>7 DEF LbShape
    <3>2. ASSUME NEW t \in g.done PROVE t.on = g.on \/ t.on \in Under(g.on) \ g.rest
      BY <2>2, <3>1, <1>4, <1>5, <1>6 DEF LbShape
    <3> QED
      BY <3>1, <3>2, <1>2, <1>5, <1>6 DEF Shape, LbShape
  <2> QED
    BY <2>1, <2>2, <1>2 DEF Shape
<1>9. FlowInv' /\ flow'[s] = g /\ Only(s)
  BY <1>1, <1>5, <1>8, FlowFrame DEF Inv, Only
<1> QED
  BY <1>1, <1>2, <1>5, <1>6, <1>8, <1>9 DEF d

LEMMA FailTypes ==
  ASSUME ShapeAssumption, Inv, NEW s \in Slots, Fail(s)
  PROVE  Inv'
<1>1. Rows /\ Device /\ FlowInv'
  BY InvParts, FailStep
<1>2. "ERROR" \in Statuses
  BY DEF Statuses
<1>3. UNCHANGED <<scene, sp, device>>
  BY DEF Fail
<1>4. \E A, B, C : /\ lb' \in {Set(lb, A, "ERROR"), lb} /\ pool' = Set(pool, B, "ERROR")
                   /\ hm' = Set(hm, C, "ERROR")
  BY DEF Fail
<1>5. lb' \in [LBs -> Statuses] /\ pool' \in [Pools -> Statuses] /\ hm' \in [Pools -> Statuses]
  BY <1>1, <1>2, <1>4, SetIs DEF Rows
<1> QED
  BY <1>1, <1>3, <1>5, DeviceFrame, InvPartsNext DEF Rows, Inv

(* The reverts: what they may delete, and do.                              *)
RevertGroups(f) == IF f.op \in {"create_pool", "create_lb"} THEN Did(f, "group") ELSE {}
RevertPers(s) == {p \in Did(flow[s], "persist") : WantsPers(s, p)}
RevertMonitors(f) == IF f.op \in {"create_hm", "create_lb"} THEN Did(f, "monitor") ELSE {}

LEMMA RevertDevice ==
  ASSUME ShapeAssumption, Inv, NEW s \in Slots, Revert(s)
  PROVE  /\ Device' /\ UNCHANGED proxy
         /\ flow[s].step = "revert" /\ flow' = [flow EXCEPT ![s] = Idle]
         /\ \E kept \in SUBSET (RevertGroups(flow[s]) \cup RevertPers(s) \cup RevertMonitors(flow[s])) :
              /\ groups' = groups \ (RevertGroups(flow[s]) \ kept)
              /\ pers' = pers \ (RevertPers(s) \ kept)
              /\ monitors' = monitors \ (RevertMonitors(flow[s]) \ kept)
              /\ check' = Unchecked(RevertMonitors(flow[s]) \ kept)
              /\ left' = left \cup kept
         /\ vports' \in {vports} \cup (IF flow[s].op = "create_lb" THEN {vports \ {flow[s].on}} ELSE {})
         /\ \A p \in Default :
              IF flow[s].op = "create_lb" /\ LbOf[p] = flow[s].on /\ flow[s].on \notin vports' THEN front'[p] = Unbound
              ELSE /\ front'[p].group = (front[p].group /\ p \in groups')
                   /\ front'[p].pers = (front[p].pers /\ p \in pers')
                   /\ front'[p].proxy = front[p].proxy
<1>1. Device
  BY InvParts
<1>2. PICK kept \in SUBSET (RevertGroups(flow[s]) \cup RevertPers(s) \cup RevertMonitors(flow[s])) :
              /\ groups' = groups \ (RevertGroups(flow[s]) \ kept)
              /\ pers' = pers \ (RevertPers(s) \ kept)
              /\ monitors' = monitors \ (RevertMonitors(flow[s]) \ kept)
              /\ check' = Unchecked(RevertMonitors(flow[s]) \ kept)
              /\ left' = left \cup kept
  BY DEF Revert, RevertGroups, RevertPers, RevertMonitors
<1>3. /\ vports' \in {vports} \cup (IF flow[s].op = "create_lb" THEN {vports \ {flow[s].on}} ELSE {})
      /\ flow[s].step = "revert" /\ flow' = [flow EXCEPT ![s] = Idle] /\ UNCHANGED proxy
      /\ front' = [p \in Default |->
                       IF flow[s].op = "create_lb" /\ LbOf[p] = flow[s].on /\ flow[s].on \notin vports' THEN Unbound
                       ELSE [front[p] EXCEPT !.group = @ /\ p \in groups',
                                             !.pers = @ /\ p \in pers']]
  BY DEF Revert
<1>5. ASSUME NEW p \in Default
      PROVE  /\ front'[p] \in Fronts
             /\ IF flow[s].op = "create_lb" /\ LbOf[p] = flow[s].on /\ flow[s].on \notin vports' THEN front'[p] = Unbound
                ELSE /\ front'[p].group = (front[p].group /\ p \in groups')
                     /\ front'[p].pers = (front[p].pers /\ p \in pers')
                     /\ front'[p].proxy = front[p].proxy
  <2>1. CASE flow[s].op = "create_lb" /\ LbOf[p] = flow[s].on /\ flow[s].on \notin vports'
    BY <1>3, <2>1, UnboundIs
  <2>2. CASE ~(flow[s].op = "create_lb" /\ LbOf[p] = flow[s].on /\ flow[s].on \notin vports')
    <3>1. PICK r \in Fronts : r = front[p]
      BY <1>1 DEF Device
    <3>2. PICK a \in BOOLEAN : a = (r.group /\ p \in groups')
      OBVIOUS
    <3>3. PICK b \in BOOLEAN : b = (r.pers /\ p \in pers')
      OBVIOUS
    <3>4. front'[p] = [r EXCEPT !.group = r.group /\ p \in groups', !.pers = r.pers /\ p \in pers']
      <4>1. front'[p] = [front[p] EXCEPT !.group = @ /\ p \in groups', !.pers = @ /\ p \in pers']
        BY <1>3, <2>2
      <4> QED
        BY <4>1, <3>1 DEF Fronts
    <3>5. front'[p] = [r EXCEPT !.group = a, !.pers = b]
      BY <3>2, <3>3, <3>4
    <3>6. front'[p] \in Fronts /\ front'[p].group = a /\ front'[p].pers = b /\ front'[p].proxy = r.proxy
      BY <3>5 DEF Fronts
    <3>7. a = (front[p].group /\ p \in groups') /\ b = (front[p].pers /\ p \in pers')
      BY <3>1, <3>2, <3>3
    <3> QED
      BY <2>2, <3>1, <3>6, <3>7
  <2> QED
    BY <2>1, <2>2
<1>6. front' \in [Default -> Fronts]
  BY <1>3, <1>5
<1>7. check' \in [Servers -> monitors' \cup {None}]
  BY <1>1, <1>2, UncheckedIs
<1>8. ASSUME NEW p \in Default
      PROVE /\ front'[p].group => p \in groups' /\ LbOf[p] \in vports'
            /\ front'[p].pers => p \in pers'
            /\ front'[p].proxy => proxy'
  <2>1. CASE flow[s].op = "create_lb" /\ LbOf[p] = flow[s].on /\ flow[s].on \notin vports'
    BY <1>5, <2>1, UnboundIs
  <2>2. CASE ~(flow[s].op = "create_lb" /\ LbOf[p] = flow[s].on /\ flow[s].on \notin vports')
    <3>1. /\ front'[p].group = (front[p].group /\ p \in groups')
          /\ front'[p].pers = (front[p].pers /\ p \in pers') /\ front'[p].proxy = front[p].proxy
      BY <1>5, <2>2
    <3>2. /\ front[p].group => LbOf[p] \in vports
          /\ front[p].proxy => proxy
      BY <1>1 DEF Device
    <3>3. LbOf[p] \in vports => LbOf[p] \in vports'
      BY <1>3, <2>2
    <3> QED
      BY <1>3, <3>1, <3>2, <3>3
  <2> QED
    BY <2>1, <2>2
<1>10. vports' \subseteq vports /\ UNCHANGED proxy
  BY <1>3
<1>9. Device'
  BY <1>1, <1>2, <1>6, <1>7, <1>8, <1>10, DevicePartsNext DEF Device
<1> QED
  BY <1>2, <1>3, <1>5, <1>9

LEMMA RevertTypes ==
  ASSUME ShapeAssumption, Inv, NEW s \in Slots, Revert(s)
  PROVE  Inv' /\ flow'[s] = Idle /\ Only(s)
<1>1. Rows /\ FlowInv
  BY InvParts
<1>2. Device' /\ flow' = [flow EXCEPT ![s] = Idle]
  BY RevertDevice
<1>3. FlowInv' /\ flow'[s] = Idle /\ Only(s)
  BY <1>1, <1>2, FlowFrame DEF Only
<1>4. EndInError(flow[s], LbAt(s)) /\ UNCHANGED <<scene, sp>>
  BY DEF Revert
<1>5. "ERROR" \in Statuses /\ "ACTIVE" \in Statuses
  BY DEF Statuses
<1>6. lb' \in [LBs -> Statuses]
  BY <1>1, <1>4, <1>5, SetIs DEF EndInError, Rows
<1>7. pool' \in [Pools -> Statuses]
  <2>1. pool \in [Pools -> Statuses]
    BY <1>1 DEF Rows
  <2>2. \A A : Set(pool, A, "ERROR") \in [Pools -> Statuses] /\ Set(pool, A, "ACTIVE") \in [Pools -> Statuses]
    BY <2>1, <1>5, SetIs
  <2>3. pool' = CASE flow[s].op = "create_lb" -> Set(pool, {t.on : t \in flow[s].done} \cap Pools, "ERROR")
                  [] flow[s].op = "delete_lb" -> pool
                  [] flow[s].op \in {"create_pool", "update_pool", "delete_pool"} -> Set(pool, {flow[s].on}, "ERROR")
                  [] OTHER -> Set(pool, {flow[s].on}, "ACTIVE")
    BY <1>4 DEF EndInError
  <2>4. CASE flow[s].op = "create_lb"
    BY <2>2, <2>3, <2>4
  <2>5. CASE flow[s].op = "delete_lb"
    BY <2>1, <2>3, <2>5
  <2>6. CASE flow[s].op \in {"create_pool", "update_pool", "delete_pool"}
    BY <2>2, <2>3, <2>6
  <2>7. CASE flow[s].op \notin {"create_lb", "delete_lb", "create_pool", "update_pool", "delete_pool"}
    BY <2>2, <2>3, <2>7
  <2> QED
    BY <2>4, <2>5, <2>6, <2>7
<1>8. hm' \in [Pools -> Statuses]
  BY <1>1, <1>4, <1>5, SetIs DEF EndInError, Rows
<1> QED
  BY <1>1, <1>2, <1>3, <1>4, <1>6, <1>7, <1>8, InvPartsNext DEF Rows, Inv

LEMMA BeginStep ==
  ASSUME ShapeAssumption, Inv, NEW s \in Slots, Begin(s)
  PROVE  /\ Inv' /\ Only(s) /\ flow[s].step = "queued" /\ flow[s] \in Flows /\ Shape(flow[s])
         /\ flow'[s] \in Flows /\ Shape(flow'[s])
         /\ flow'[s].step = "run" /\ flow'[s].op = flow[s].op /\ flow'[s].on = flow[s].on
         /\ flow'[s].sp = flow[s].sp /\ flow'[s].monitored = flow[s].monitored
         /\ flow'[s].last = flow[s].last /\ flow'[s].seen = flow[s].seen
         /\ flow'[s].rest = flow[s].rest /\ flow'[s].cur = flow[s].cur /\ flow'[s].pc = flow[s].pc
         /\ flow'[s].done = flow[s].done
<1> DEFINE g == [flow[s] EXCEPT !.step = "run"]
<1>1. flow[s] \in Flows /\ flow[s].step = "queued" /\ flow' = [flow EXCEPT ![s] = g]
  BY DEF Begin, Inv, FlowInv
<1>2. Shape(flow[s])
  BY <1>1 DEF Inv, FlowInv, Idle
<1>3. /\ g \in Flows /\ g.step = "run"
      /\ g.op = flow[s].op /\ g.on = flow[s].on
      /\ g.sp = flow[s].sp /\ g.monitored = flow[s].monitored
      /\ g.last = flow[s].last /\ g.seen = flow[s].seen
      /\ g.rest = flow[s].rest /\ g.cur = flow[s].cur /\ g.pc = flow[s].pc
      /\ g.done = flow[s].done
  BY <1>1 DEF Flows
<1> HIDE DEF g
<1>4. Ended(g) <=> Ended(flow[s])
  <2>1. Tasks(g) = Tasks(flow[s])
    BY <1>3 DEF Tasks
  <2> QED
    BY <2>1, <1>3 DEF Ended
<1>5. Shape(g)
  <2>1. PoolShape(flow[s]) => PoolShape(g)
    BY <1>3 DEF PoolShape
  <2>2. ASSUME LbShape(flow[s]) PROVE LbShape(g)
    <3>1. /\ g.op \in LbOps /\ g.on \in LBs /\ g.rest \subseteq Under(g.on)
          /\ \/ g.cur = g.on /\ g.rest = {}
             \/ g.cur \in Under(g.on) \ g.rest /\ ~Ended(g)
      BY <2>2, <1>3, <1>4 DEF LbShape
    <3>2. ASSUME NEW t \in g.done PROVE t.on = g.on \/ t.on \in Under(g.on) \ g.rest
      BY <2>2, <1>3 DEF LbShape
    <3> QED
      BY <3>1, <3>2 DEF LbShape
  <2> QED
    BY <2>1, <2>2, <1>2, <1>3 DEF Shape
<1>6. FlowInv' /\ flow'[s] = g /\ Only(s)
  BY <1>1, <1>3, <1>5, FlowFrame DEF Inv, Only
<1>7. Rows' /\ Device' /\ scene' \in Scenes
  <2>1. Rows /\ Device /\ UNCHANGED <<scene, rows, device>>
    BY InvParts DEF Begin
  <2> QED
    BY <2>1, RowsFrame, DeviceFrame DEF Inv
<1> QED
  BY <1>1, <1>2, <1>3, <1>5, <1>6, <1>7, InvPartsNext

LEMMA FinishStep ==
  ASSUME ShapeAssumption, Inv, NEW s \in Slots, Finish(s)
  PROVE  Inv' /\ flow'[s] = Idle /\ Only(s) /\ flow[s].step = "run" /\ Ended(flow[s])
<1>1. FlowInv' /\ flow'[s] = Idle /\ Only(s)
  BY FlowFrame DEF Finish, Inv, Only
<1>2. Rows' /\ Device' /\ scene' \in Scenes
  <2>1. Rows /\ Device /\ UNCHANGED <<scene, rows, device>>
    BY InvParts DEF Finish
  <2> QED
    BY <2>1, RowsFrame, DeviceFrame DEF Inv
<1> QED
  BY <1>1, <1>2, InvPartsNext DEF Finish

LEMMA RunTypes ==
  ASSUME ShapeAssumption, Inv, NEW s \in Slots, Run(s)
  PROVE  Inv'
<1>1. FlowInv' /\ scene' \in Scenes
  BY RunMoves
<1>2. Rows' /\ Device'
  <2>1. CASE ReplaceGroup(s) \/ CountProxyPools(s) \/ UpdateMonitorTask(s)
    BY <2>1, InvParts, RowsFrame, DeviceFrame DEF ReplaceGroup, CountProxyPools, UpdateMonitorTask
  <2>2. CASE \/ UpdatePoolRow(s) \/ MarkPoolActive(s) \/ MarkMonitorActive(s) \/ MarkActive(s)
             \/ MarkPoolPendingDelete(s) \/ DeletePoolRow(s) \/ DeleteMonitorRow(s)
    BY <2>2, RowTasks
  <2>3. CASE \/ PutProxy(s) \/ DeleteProxy(s) \/ PutPersistence(s) \/ DeletePersistence(s)
             \/ CreateGroup(s) \/ DeleteGroup(s)
    BY <2>3, ProxyTasks, PersistenceTasks, GroupTasks
  <2>4. CASE \/ UpdateFront(s) \/ ClearFront(s) \/ PutMonitor(s) \/ Associate(s)
             \/ DeleteMonitorTask(s) \/ CreateListener(s) \/ DeleteLbTask(s)
    BY <2>4, FrontTasks, MonitorTasks, ListenerTasks
  <2> QED
    BY <2>1, <2>2, <2>3, <2>4, Zenon DEF Run
<1> QED
  BY <1>1, <1>2, InvPartsNext

LEMMA InvStep ==
  ASSUME ShapeAssumption, Inv, [Next]_vars
  PROVE  Inv'
<1>1. CASE UNCHANGED vars
  <2>1. UNCHANGED <<scene, rows, device, flow>>
    BY <1>1 DEF vars
  <2>2. FlowInv'
    <3>1. flow' = flow /\ FlowInv
      BY <2>1, InvParts
    <3>2. \A t \in Slots : Shape(flow[t])' <=> Shape(flow[t])
      BY <3>1 DEF Shape, PoolShape, LbShape, Ended, Tasks, Under
    <3> QED
      BY <3>1, <3>2 DEF FlowInv
  <2>3. Rows' /\ Device' /\ scene' \in Scenes
    BY <2>1, InvParts, RowsFrame, DeviceFrame
  <2> QED
    BY <2>2, <2>3, InvPartsNext
<1>2. ASSUME NEW s \in Slots, NEW p \in Pools,
             CreatePool(s, p) \/ UpdatePool(s, p) \/ DeletePool(s, p)
             \/ CreateMonitor(s, p) \/ UpdateMonitor(s, p) \/ DeleteMonitor(s, p)
      PROVE  Inv'
  BY <1>2, RequestTypes
<1>3. ASSUME NEW s \in Slots, NEW l \in LBs, CreateLb(s, l) \/ DeleteLb(s, l) PROVE Inv'
  BY <1>3, RequestTypes
<1>4. ASSUME NEW s \in Slots, Begin(s) \/ Run(s) \/ Finish(s) \/ Fail(s) \/ Revert(s) PROVE Inv'
  BY <1>4, BeginStep, RunTypes, FinishStep, FailTypes, RevertTypes
<1> QED
  BY <1>1, <1>2, <1>3, <1>4, Zenon DEF Next

(* The types of the state; what the port of a listener names, its service  *)
(* group, its persistence template, the tcp-proxy template and its virtual *)
(* port, is on the device after every step, the failing ones included.     *)
THEOREM TypeCorrect == Spec => []TypeOK
<1>1. Init => Inv
  BY InitInv, ShapeAssumption
<1>2. Inv /\ [Next]_vars => Inv'
  BY InvStep, ShapeAssumption
<1>3. Inv => TypeOK
  BY DEF Inv
<1> QED
  BY <1>1, <1>2, <1>3, PTL DEF Spec

-----------------------------------------------------------------------------
(* What a step leaves alone of what serves a pool.                         *)
LEMMA BindStays ==
  ASSUME NEW p, NEW persistent, SameService(p), Lives(pool[p]),
         Bind(p, persistent)
  PROVE  Bind(p, persistent)'
  BY DEF Bind, SameService

LEMMA GoodStays ==
  ASSUME NEW p, SameService(p), Lives(pool[p]), Good(p)
  PROVE  Good(p)'
<1>1. (p \in sp') = (p \in sp)
  BY DEF SameService
<1>2. p \in groups' /\ Bind(p, p \in sp)
  BY DEF Good, SameService
<1>3. Bind(p, p \in sp)'
  BY <1>1, <1>2 DEF Bind, SameService
<1> QED
  BY <1>2, <1>3 DEF Good

LEMMA FlowEffects ==
  ASSUME ShapeAssumption, Inv, NEW s \in Slots, NEW do, Run(s), At(s, do),
         do # "count" => Advance(s), do = "count" => CountProxyPools(s),
         UNCHANGED <<overlapped, revived, halfway>>
  PROVE  FlowEffect(s, do)
<1>1. Inv'
  BY RunTypes
<1>2. CASE do # "count"
  <2>1. Moves(flow[s], flow'[s]) /\ Only(s)
    BY <1>2, AdvanceStep
  <2>2. Walks(flow[s], flow'[s]) /\ flow'[s].seen = flow[s].seen /\ flow'[s].last = flow[s].last
    BY <2>1 DEF Moves, Walks, Same
  <2> QED
    BY <1>1, <1>2, <2>1, <2>2 DEF FlowEffect
<1>3. CASE do = "count"
  <2>1. PICK f \in Flows : /\ f.op = flow[s].op /\ f.on = flow[s].on /\ f.sp = flow[s].sp
                           /\ f.monitored = flow[s].monitored /\ f.step = flow[s].step
                           /\ f.rest = flow[s].rest /\ f.cur = flow[s].cur /\ f.pc = flow[s].pc
                           /\ f.done = flow[s].done
                           /\ f.last = (\A q \in OfProject(LbAt(s)) : pool[q] = "DELETING")
                           /\ f.seen = OfProject(LbAt(s))
                           /\ Moves(f, flow'[s])
    BY <1>3, CountStep
  <2>2. Only(s)
    BY <1>3, CountStep
  <2>3. Done(f) = Done(flow[s]) /\ Tasks(f) = Tasks(flow[s])
    <3>1. Tasks(f) = Tasks(flow[s])
      BY <2>1 DEF Tasks
    <3>2. \A k : Doing(f, k) <=> Doing(flow[s], k)
      BY <3>1, <2>1 DEF Doing, Ended
    <3> QED
      BY <3>1, <3>2, <2>1 DEF Done
  <2>4. \A q : FirstTask(f, q) = FirstTask(flow[s], q)
    BY <2>1 DEF FirstTask
  <2>5. Walks(flow[s], flow'[s]) /\ flow'[s].seen = f.seen /\ flow'[s].last = f.last
    BY <2>1, <2>3, <2>4 DEF Moves, Walks, Same
  <2> QED
    BY <1>1, <1>3, <2>1, <2>2, <2>5 DEF FlowEffect
<1> QED
  BY <1>2, <1>3

LEMMA SameIfSame ==
  ASSUME UNCHANGED <<groups, sp, front, raced>>
  PROVE  \A p : SameService(p)
  BY DEF SameService

Quiet == {"proxy", "replace_group", "count", "monitor", "associate", "change_monitor",
          "no_monitor", "pool_active", "hm_active", "active", "deleting", "no_row", "no_hm_row"}

LEMMA QuietService ==
  ASSUME NEW s, NEW do \in Quiet, UNCHANGED <<groups, sp, front, raced>>,
         do = "replace_group" => Target(s) \in groups
  PROVE  ServiceEffect(s, do)
<1>1. \A p : SameService(p)
  BY SameIfSame
<1>2. groups' = groups /\ sp' = sp
  OBVIOUS
<1>3. Elsewhere(s, do)
  BY <1>1 DEF Elsewhere
<1> QED
  BY <1>1, <1>2, <1>3 DEF ServiceEffect, Quiet

(* The tasks that leave alone what serves the pools.                       *)
LEMMA QuietTasks ==
  ASSUME ShapeAssumption, Inv, NEW s \in Slots
  PROVE  /\ PutProxy(s) => Serves(s, "proxy")
         /\ ReplaceGroup(s) => Serves(s, "replace_group")
         /\ CountProxyPools(s) => Serves(s, "count")
         /\ PutMonitor(s) => Serves(s, "monitor")
         /\ Associate(s) => Serves(s, "associate")
         /\ UpdateMonitorTask(s) => Serves(s, "change_monitor")
         /\ DeleteMonitorTask(s) => Serves(s, "no_monitor")
         /\ MarkPoolActive(s) => Serves(s, "pool_active")
         /\ MarkMonitorActive(s) => Serves(s, "hm_active")
         /\ MarkActive(s) => Serves(s, "active")
         /\ MarkPoolPendingDelete(s) => Serves(s, "deleting")
         /\ DeletePoolRow(s) => Serves(s, "no_row")
         /\ DeleteMonitorRow(s) => Serves(s, "no_hm_row")
<1>1. ASSUME PutProxy(s) PROVE Serves(s, "proxy")
  <2>1. UNCHANGED <<groups, sp, front, raced>>
    BY <1>1 DEF PutProxy, rows, device, hist
  <2>2. RowEffect(s, "proxy")
    BY <1>1 DEF PutProxy, RowEffect, rows
  <2>3. ServiceEffect(s, "proxy")
    BY <2>1, QuietService DEF Quiet
  <2> QED
    BY <2>2, <2>3 DEF Serves
<1>2. ASSUME ReplaceGroup(s) PROVE Serves(s, "replace_group")
  <2>1. UNCHANGED <<groups, sp, front, raced>>
    BY <1>2 DEF ReplaceGroup, rows, device, hist
  <2>2. RowEffect(s, "replace_group")
    BY <1>2 DEF ReplaceGroup, RowEffect, rows
  <2>3. Target(s) \in groups
    BY <1>2 DEF ReplaceGroup
  <2>4. ServiceEffect(s, "replace_group")
    BY <2>1, <2>3, QuietService DEF Quiet
  <2> QED
    BY <2>2, <2>4 DEF Serves
<1>3. ASSUME CountProxyPools(s) PROVE Serves(s, "count")
  <2>1. UNCHANGED <<groups, sp, front, raced>>
    BY <1>3 DEF CountProxyPools, rows, device, hist
  <2>2. RowEffect(s, "count")
    BY <1>3 DEF CountProxyPools, RowEffect, rows
  <2>3. ServiceEffect(s, "count")
    BY <2>1, QuietService DEF Quiet
  <2> QED
    BY <2>2, <2>3 DEF Serves
<1>4. ASSUME PutMonitor(s) PROVE Serves(s, "monitor")
  <2>1. UNCHANGED <<groups, sp, front, raced>>
    BY <1>4 DEF PutMonitor, rows, device, hist
  <2>2. RowEffect(s, "monitor")
    BY <1>4 DEF PutMonitor, RowEffect, rows
  <2>3. ServiceEffect(s, "monitor")
    BY <2>1, QuietService DEF Quiet
  <2> QED
    BY <2>2, <2>3 DEF Serves
<1>5. ASSUME Associate(s) PROVE Serves(s, "associate")
  <2>1. UNCHANGED <<groups, sp, front, raced>>
    BY <1>5 DEF Associate, rows, device, hist
  <2>2. RowEffect(s, "associate")
    BY <1>5 DEF Associate, RowEffect, rows
  <2>3. ServiceEffect(s, "associate")
    BY <2>1, QuietService DEF Quiet
  <2> QED
    BY <2>2, <2>3 DEF Serves
<1>6. ASSUME UpdateMonitorTask(s) PROVE Serves(s, "change_monitor")
  <2>1. UNCHANGED <<groups, sp, front, raced>>
    BY <1>6 DEF UpdateMonitorTask, rows, device, hist
  <2>2. RowEffect(s, "change_monitor")
    BY <1>6 DEF UpdateMonitorTask, RowEffect, rows
  <2>3. ServiceEffect(s, "change_monitor")
    BY <2>1, QuietService DEF Quiet
  <2> QED
    BY <2>2, <2>3 DEF Serves
<1>7. ASSUME DeleteMonitorTask(s) PROVE Serves(s, "no_monitor")
  <2>1. UNCHANGED <<groups, sp, front, raced>>
    BY <1>7 DEF DeleteMonitorTask, rows, device, hist
  <2>2. RowEffect(s, "no_monitor")
    BY <1>7 DEF DeleteMonitorTask, RowEffect, rows
  <2>3. ServiceEffect(s, "no_monitor")
    BY <2>1, QuietService DEF Quiet
  <2> QED
    BY <2>2, <2>3 DEF Serves
<1>8. ASSUME MarkPoolActive(s) PROVE Serves(s, "pool_active")
  <2>1. UNCHANGED <<groups, sp, front, raced>>
    BY <1>8 DEF MarkPoolActive, rows, device, hist
  <2>2. RowEffect(s, "pool_active")
    BY <1>8 DEF MarkPoolActive, RowEffect, rows
  <2>3. ServiceEffect(s, "pool_active")
    BY <2>1, QuietService DEF Quiet
  <2> QED
    BY <2>2, <2>3 DEF Serves
<1>9. ASSUME MarkMonitorActive(s) PROVE Serves(s, "hm_active")
  <2>1. UNCHANGED <<groups, sp, front, raced>>
    BY <1>9 DEF MarkMonitorActive, rows, device, hist
  <2>2. RowEffect(s, "hm_active")
    BY <1>9 DEF MarkMonitorActive, RowEffect, rows
  <2>3. ServiceEffect(s, "hm_active")
    BY <2>1, QuietService DEF Quiet
  <2> QED
    BY <2>2, <2>3 DEF Serves
<1>10. ASSUME MarkActive(s) PROVE Serves(s, "active")
  <2>1. UNCHANGED <<groups, sp, front, raced>>
    BY <1>10 DEF MarkActive, rows, device, hist
  <2>2. RowEffect(s, "active")
    BY <1>10 DEF MarkActive, RowEffect, rows
  <2>3. ServiceEffect(s, "active")
    BY <2>1, QuietService DEF Quiet
  <2> QED
    BY <2>2, <2>3 DEF Serves
<1>11. ASSUME MarkPoolPendingDelete(s) PROVE Serves(s, "deleting")
  <2>1. UNCHANGED <<groups, sp, front, raced>>
    BY <1>11 DEF MarkPoolPendingDelete, rows, device, hist
  <2>2. RowEffect(s, "deleting")
    BY <1>11 DEF MarkPoolPendingDelete, RowEffect, rows
  <2>3. ServiceEffect(s, "deleting")
    BY <2>1, QuietService DEF Quiet
  <2> QED
    BY <2>2, <2>3 DEF Serves
<1>12. ASSUME DeletePoolRow(s) PROVE Serves(s, "no_row")
  <2>1. UNCHANGED <<groups, sp, front, raced>>
    BY <1>12 DEF DeletePoolRow, rows, device, hist
  <2>2. RowEffect(s, "no_row")
    BY <1>12 DEF DeletePoolRow, RowEffect, rows
  <2>3. ServiceEffect(s, "no_row")
    BY <2>1, QuietService DEF Quiet
  <2> QED
    BY <2>2, <2>3 DEF Serves
<1>13. ASSUME DeleteMonitorRow(s) PROVE Serves(s, "no_hm_row")
  <2>1. UNCHANGED <<groups, sp, front, raced>>
    BY <1>13 DEF DeleteMonitorRow, rows, device, hist
  <2>2. RowEffect(s, "no_hm_row")
    BY <1>13 DEF DeleteMonitorRow, RowEffect, rows
  <2>3. ServiceEffect(s, "no_hm_row")
    BY <2>1, QuietService DEF Quiet
  <2> QED
    BY <2>2, <2>3 DEF Serves
<1> QED
  BY <1>1, <1>2, <1>3, <1>4, <1>5, <1>6, <1>7, <1>8, <1>9, <1>10, <1>11, <1>12, <1>13

LEMMA SameUnless ==
  ASSUME NEW p, p \in groups' <=> p \in groups, p \in sp' <=> p \in sp, p \in raced => p \in raced',
         p \in Default => front'[p] = front[p]
  PROVE  SameService(p)
  BY DEF SameService

LEMMA GroupService ==
  ASSUME ShapeAssumption, Inv, NEW s \in Slots
  PROVE  /\ CreateGroup(s) => Serves(s, "group")
         /\ DeleteGroup(s) => Serves(s, "no_group")
<1>1. front \in [Default -> Fronts]
  BY DEF Inv
<1>2. ASSUME CreateGroup(s) PROVE Serves(s, "group")
  <2>1. groups' = groups \cup {Target(s)} /\ UNCHANGED <<rows, front, raced>>
    BY <1>2 DEF CreateGroup, hist
  <2>2. RowEffect(s, "group")
    BY <2>1 DEF RowEffect, rows
  <2>3. Elsewhere(s, "group")
    BY <2>1, SameUnless DEF Elsewhere, rows
  <2>4. ServiceEffect(s, "group")
    BY <2>1, <2>3 DEF ServiceEffect, rows
  <2> QED
    BY <2>2, <2>4 DEF Serves
<1>3. ASSUME DeleteGroup(s) PROVE Serves(s, "no_group")
  <2>1. /\ groups' = groups \ {Target(s)} /\ UNCHANGED <<rows, raced>>
        /\ front' = Bound(Target(s), "group", FALSE)
    BY <1>3 DEF DeleteGroup, hist
  <2>2. RowEffect(s, "no_group")
    BY <2>1 DEF RowEffect, rows
  <2>3. Elsewhere(s, "no_group")
    <3>1. \A q \in Default \ {Target(s)} : front'[q] = front[q]
      BY <1>1, <2>1 DEF Bound
    <3> QED
      BY <2>1, <3>1, SameUnless DEF Elsewhere, rows
  <2>4. ServiceEffect(s, "no_group")
    BY <2>1, <2>3 DEF ServiceEffect, rows
  <2> QED
    BY <2>2, <2>4 DEF Serves
<1> QED
  BY <1>2, <1>3

LEMMA PersistenceService ==
  ASSUME ShapeAssumption, Inv, NEW s \in Slots
  PROVE  /\ PutPersistence(s) => Serves(s, "persist")
         /\ DeletePersistence(s) => Serves(s, "no_persist")
<1>1. front \in [Default -> Fronts]
  BY DEF Inv
<1>2. ASSUME NEW do \in {"persist", "no_persist"}, UNCHANGED <<groups, rows, raced>>,
             front' = Bound(Target(s), "pers", FALSE) \/ front' = front
      PROVE  Serves(s, do)
  <2>2. RowEffect(s, do)
    BY <1>2 DEF RowEffect, rows
  <2>3. Elsewhere(s, do)
    <3>1. \A q \in Default \ {Target(s)} : front'[q] = front[q]
      BY <1>1, <1>2 DEF Bound
    <3> QED
      BY <1>2, <3>1, SameUnless DEF Elsewhere, rows
  <2>4. ServiceEffect(s, do)
    BY <1>2, <2>3 DEF ServiceEffect, rows
  <2> QED
    BY <2>2, <2>4 DEF Serves
<1>3. PutPersistence(s) => UNCHANGED <<groups, rows, raced>> /\ front' = Bound(Target(s), "pers", FALSE)
  BY DEF PutPersistence, hist
<1>4. DeletePersistence(s) => /\ UNCHANGED <<groups, rows, raced>>
                              /\ front' = Bound(Target(s), "pers", FALSE) \/ front' = front
  BY DEF DeletePersistence, hist
<1> QED
  BY <1>2, <1>3, <1>4

LEMMA FrontService ==
  ASSUME ShapeAssumption, Inv, NEW s \in Slots
  PROVE  /\ UpdateFront(s) => Serves(s, "front")
         /\ ClearFront(s) => Serves(s, "clear_front")
<1>1. front \in [Default -> Fronts]
  BY DEF Inv
<1>2. ASSUME UpdateFront(s) PROVE Serves(s, "front")
  <2>1. UNCHANGED <<rows, groups, raced>>
    BY <1>2 DEF UpdateFront, hist
  <2>2. RowEffect(s, "front")
    BY <2>1 DEF RowEffect, rows
  <2>3. Elsewhere(s, "front")
    <3>1. \A q \in Default : q # Target(s) => front'[q] = front[q]
      BY <1>2, UpdateFrontStep
    <3> QED
      BY <2>1, <3>1, SameUnless DEF Elsewhere, rows
  <2>4. Target(s) \in Default =>
          /\ front'[Target(s)].group /\ front'[Target(s)].pers = WantsPers(s, Target(s))
          /\ front'[Target(s)].proxy = (Target(s) \in Proxied /\ pool[Target(s)] # "DELETING")
    BY <1>2, UpdateFrontStep
  <2>5. ServiceEffect(s, "front")
    BY <2>1, <2>3, <2>4 DEF ServiceEffect, rows
  <2> QED
    BY <2>2, <2>5 DEF Serves
<1>3. ASSUME ClearFront(s) PROVE Serves(s, "clear_front")
  <2>1. UNCHANGED <<rows, groups, raced>> /\ \A q \in Default \ {Target(s)} : front'[q] = front[q]
    BY <1>1, <1>3 DEF ClearFront, hist
  <2>2. RowEffect(s, "clear_front")
    BY <2>1 DEF RowEffect, rows
  <2>3. Elsewhere(s, "clear_front")
    BY <2>1, SameUnless DEF Elsewhere, rows
  <2>4. ServiceEffect(s, "clear_front")
    BY <2>1, <2>3 DEF ServiceEffect, rows
  <2> QED
    BY <2>2, <2>4 DEF Serves
<1> QED
  BY <1>2, <1>3

LEMMA LoudService ==
  ASSUME ShapeAssumption, Inv, NEW s \in Slots
  PROVE  /\ CreateListener(s) => Serves(s, "listener")
         /\ DeleteLbTask(s) => Serves(s, "no_lb")
         /\ UpdatePoolRow(s) => Serves(s, "pool_row")
<1>1. front \in [Default -> Fronts]
  BY DEF Inv
<1>2. ASSUME CreateListener(s) PROVE Serves(s, "listener")
  <2>1. UNCHANGED <<rows, groups, raced>>
    BY <1>2 DEF CreateListener, hist
  <2>2. RowEffect(s, "listener")
    BY <2>1 DEF RowEffect, rows
  <2>3. \A p \in Default :
          IF LbOf[p] = Target(s) /\ HasRow(pool[p])
          THEN front'[p].group /\ front'[p].pers = (p \in sp) /\ front'[p].proxy = (p \in Proxied)
          ELSE front'[p] = front[p]
    BY <1>2, CreateListenerStep
  <2>4. Elsewhere(s, "listener")
    BY <2>1, <2>3, SameUnless DEF Elsewhere, rows
  <2>5. ServiceEffect(s, "listener")
    BY <2>1, <2>3, <2>4 DEF ServiceEffect, rows
  <2> QED
    BY <2>2, <2>5 DEF Serves
<1>3. ASSUME DeleteLbTask(s) PROVE Serves(s, "no_lb")
  <2>1. /\ UNCHANGED <<pool, sp, groups, raced>> /\ lb' = Set(lb, {Target(s)}, "GONE")
        /\ front' = [p \in Default |-> IF LbOf[p] = Target(s) THEN Unbound ELSE front[p]]
    BY <1>3 DEF DeleteLbTask, DropPorts, hist
  <2>2. RowEffect(s, "no_lb")
    BY <2>1 DEF RowEffect
  <2>3. Elsewhere(s, "no_lb")
    BY <2>1, SameUnless DEF Elsewhere
  <2>4. ServiceEffect(s, "no_lb")
    BY <2>1, <2>3 DEF ServiceEffect
  <2> QED
    BY <2>2, <2>4 DEF Serves
<1>4. ASSUME UpdatePoolRow(s) PROVE Serves(s, "pool_row")
  <2>1. /\ UNCHANGED <<lb, pool, groups, front, raced>>
        /\ sp' = IF flow[s].sp THEN sp \cup {Target(s)} ELSE sp \ {Target(s)}
    BY <1>4 DEF UpdatePoolRow, device, hist
  <2>2. RowEffect(s, "pool_row")
    BY <2>1 DEF RowEffect
  <2>3. Elsewhere(s, "pool_row")
    BY <2>1, SameUnless DEF Elsewhere
  <2>4. ServiceEffect(s, "pool_row")
    BY <2>1, <2>3 DEF ServiceEffect
  <2> QED
    BY <2>2, <2>4 DEF Serves
<1> QED
  BY <1>2, <1>3, <1>4

(* The deletion of the template takes it from the ports of the pools that  *)
(* the count did not see, which raced tells, and from those it saw.        *)
LEMMA ProxyService ==
  ASSUME ShapeAssumption, Inv, NEW s \in Slots, Seen(s), DeleteProxy(s)
  PROVE  Serves(s, "no_proxy")
<1>1. front \in [Default -> Fronts]
  BY DEF Inv
<1>2. UNCHANGED <<rows, groups>>
  BY DEF DeleteProxy
<1>3. RowEffect(s, "no_proxy")
  BY <1>2 DEF RowEffect, rows
<1>4. ASSUME NEW p \in Pools, Settled(LbOf[p]) PROVE SameService(p)
  <2>1. CASE UNCHANGED <<front, raced>>
    BY <2>1, <1>2, SameUnless DEF rows
  <2>2. CASE /\ flow[s].last /\ front' = [q \in Default |-> [front[q] EXCEPT !.proxy = FALSE]]
             /\ raced' = raced \cup {q \in Proxied : HasRow(pool[q]) /\ q \notin flow[s].seen \ halfway}
    <3>1. p \in raced' \/ ~Lives(pool[p]) \/ p \notin Proxied
      <4>1. CASE p \in flow[s].seen \ halfway
        BY <4>1, <1>4, <2>2 DEF Seen, Lives
      <4>2. CASE p \notin flow[s].seen \ halfway
        BY <4>2, <2>2 DEF HasRow, Lives
      <4> QED
        BY <4>1, <4>2
    <3>2. p \in Default => /\ front'[p].group = front[p].group /\ front'[p].pers = front[p].pers
                           /\ ~front'[p].proxy
      BY <1>1, <2>2 DEF Fronts
    <3> QED
      BY <1>2, <2>2, <3>1, <3>2 DEF SameService, rows
  <2> QED
    BY <2>1, <2>2 DEF DeleteProxy
<1>5. Elsewhere(s, "no_proxy")
  BY <1>4 DEF Elsewhere
<1> QED
  BY <1>2, <1>3, <1>4, <1>5 DEF Serves, ServiceEffect, rows

LEMMA RunKeepsHistory ==
  ASSUME NEW s, Run(s)
  PROVE  UNCHANGED <<overlapped, revived, halfway>>
<1>1. PutProxy(s) => UNCHANGED <<overlapped, revived, halfway>>
  BY DEF PutProxy, hist
<1>2. CreateGroup(s) => UNCHANGED <<overlapped, revived, halfway>>
  BY DEF CreateGroup, hist
<1>3. ReplaceGroup(s) => UNCHANGED <<overlapped, revived, halfway>>
  BY DEF ReplaceGroup, hist
<1>4. PutPersistence(s) => UNCHANGED <<overlapped, revived, halfway>>
  BY DEF PutPersistence, hist
<1>5. DeletePersistence(s) => UNCHANGED <<overlapped, revived, halfway>>
  BY DEF DeletePersistence, hist
<1>6. UpdateFront(s) => UNCHANGED <<overlapped, revived, halfway>>
  BY DEF UpdateFront, hist
<1>7. ClearFront(s) => UNCHANGED <<overlapped, revived, halfway>>
  BY DEF ClearFront, hist
<1>8. DeleteProxy(s) => UNCHANGED <<overlapped, revived, halfway>>
  BY DEF DeleteProxy, hist
<1>9. DeleteGroup(s) => UNCHANGED <<overlapped, revived, halfway>>
  BY DEF DeleteGroup, hist
<1>10. CreateListener(s) => UNCHANGED <<overlapped, revived, halfway>>
  BY DEF CreateListener, hist
<1>11. PutMonitor(s) => UNCHANGED <<overlapped, revived, halfway>>
  BY DEF PutMonitor, hist
<1>12. Associate(s) => UNCHANGED <<overlapped, revived, halfway>>
  BY DEF Associate, hist
<1>13. UpdateMonitorTask(s) => UNCHANGED <<overlapped, revived, halfway>>
  BY DEF UpdateMonitorTask, hist
<1>14. DeleteMonitorTask(s) => UNCHANGED <<overlapped, revived, halfway>>
  BY DEF DeleteMonitorTask, hist
<1>15. UpdatePoolRow(s) => UNCHANGED <<overlapped, revived, halfway>>
  BY DEF UpdatePoolRow, hist
<1>16. MarkPoolActive(s) => UNCHANGED <<overlapped, revived, halfway>>
  BY DEF MarkPoolActive, hist
<1>17. MarkMonitorActive(s) => UNCHANGED <<overlapped, revived, halfway>>
  BY DEF MarkMonitorActive, hist
<1>18. MarkActive(s) => UNCHANGED <<overlapped, revived, halfway>>
  BY DEF MarkActive, hist
<1>19. MarkPoolPendingDelete(s) => UNCHANGED <<overlapped, revived, halfway>>
  BY DEF MarkPoolPendingDelete, hist
<1>20. DeletePoolRow(s) => UNCHANGED <<overlapped, revived, halfway>>
  BY DEF DeletePoolRow, hist
<1>21. DeleteMonitorRow(s) => UNCHANGED <<overlapped, revived, halfway>>
  BY DEF DeleteMonitorRow, hist
<1>22. DeleteLbTask(s) => UNCHANGED <<overlapped, revived, halfway>>
  BY DEF DeleteLbTask, hist
<1>23. CountProxyPools(s) => UNCHANGED <<overlapped, revived, halfway>>
  BY DEF CountProxyPools, hist
<1> QED
  BY <1>1, <1>2, <1>3, <1>4, <1>5, <1>6, <1>7, <1>8, <1>9, <1>10, <1>11, <1>12, <1>13, <1>14, <1>15, <1>16, <1>17, <1>18, <1>19, <1>20, <1>21, <1>22, <1>23, Zenon DEF Run

(* Each task by what it does: to its flow, the rows, and the service.      *)
LEMMA RunEffects ==
  ASSUME ShapeAssumption, Inv, NEW s \in Slots, Seen(s), Run(s)
  PROVE  \E do : FlowEffect(s, do) /\ Serves(s, do)
<1>1. UNCHANGED <<overlapped, revived, halfway>>
  BY RunKeepsHistory
<1>2. ASSUME NEW do, Acts(s, do), Serves(s, do), do # "count" PROVE \E d : FlowEffect(s, d) /\ Serves(s, d)
  BY <1>1, <1>2, FlowEffects DEF Acts
<1>3. PutProxy(s) => Acts(s, "proxy") /\ Serves(s, "proxy")
  BY TaskSteps, QuietTasks
<1>4. CreateGroup(s) => Acts(s, "group") /\ Serves(s, "group")
  BY TaskSteps, GroupService
<1>5. ReplaceGroup(s) => Acts(s, "replace_group") /\ Serves(s, "replace_group")
  BY TaskSteps, QuietTasks
<1>6. PutPersistence(s) => Acts(s, "persist") /\ Serves(s, "persist")
  BY TaskSteps, PersistenceService
<1>7. DeletePersistence(s) => Acts(s, "no_persist") /\ Serves(s, "no_persist")
  BY TaskSteps, PersistenceService
<1>8. UpdateFront(s) => Acts(s, "front") /\ Serves(s, "front")
  BY TaskSteps, FrontService
<1>9. ClearFront(s) => Acts(s, "clear_front") /\ Serves(s, "clear_front")
  BY TaskSteps, FrontService
<1>10. DeleteProxy(s) => Acts(s, "no_proxy") /\ Serves(s, "no_proxy")
  BY TaskSteps, ProxyService
<1>11. DeleteGroup(s) => Acts(s, "no_group") /\ Serves(s, "no_group")
  BY TaskSteps, GroupService
<1>12. CreateListener(s) => Acts(s, "listener") /\ Serves(s, "listener")
  BY TaskSteps, LoudService
<1>13. PutMonitor(s) => Acts(s, "monitor") /\ Serves(s, "monitor")
  BY TaskSteps, QuietTasks
<1>14. Associate(s) => Acts(s, "associate") /\ Serves(s, "associate")
  BY TaskSteps, QuietTasks
<1>15. UpdateMonitorTask(s) => Acts(s, "change_monitor") /\ Serves(s, "change_monitor")
  BY TaskSteps, QuietTasks
<1>16. DeleteMonitorTask(s) => Acts(s, "no_monitor") /\ Serves(s, "no_monitor")
  BY TaskSteps, QuietTasks
<1>17. UpdatePoolRow(s) => Acts(s, "pool_row") /\ Serves(s, "pool_row")
  BY TaskSteps, LoudService
<1>18. MarkPoolActive(s) => Acts(s, "pool_active") /\ Serves(s, "pool_active")
  BY TaskSteps, QuietTasks
<1>19. MarkMonitorActive(s) => Acts(s, "hm_active") /\ Serves(s, "hm_active")
  BY TaskSteps, QuietTasks
<1>20. MarkActive(s) => Acts(s, "active") /\ Serves(s, "active")
  BY TaskSteps, QuietTasks
<1>21. MarkPoolPendingDelete(s) => Acts(s, "deleting") /\ Serves(s, "deleting")
  BY TaskSteps, QuietTasks
<1>22. DeletePoolRow(s) => Acts(s, "no_row") /\ Serves(s, "no_row")
  BY TaskSteps, QuietTasks
<1>23. DeleteMonitorRow(s) => Acts(s, "no_hm_row") /\ Serves(s, "no_hm_row")
  BY TaskSteps, QuietTasks
<1>24. DeleteLbTask(s) => Acts(s, "no_lb") /\ Serves(s, "no_lb")
  BY TaskSteps, LoudService
<1>25. ASSUME CountProxyPools(s) PROVE FlowEffect(s, "count") /\ Serves(s, "count")
  <2>1. At(s, "count")
    BY <1>25 DEF CountProxyPools
  <2> QED
    BY <1>1, <1>25, <2>1, QuietTasks, FlowEffects
<1>26. CASE CountProxyPools(s)
  BY <1>26, <1>25
<1>27. ASSUME ~CountProxyPools(s) PROVE \E do : Acts(s, do) /\ Serves(s, do) /\ do # "count"
  <2>1. CASE PutProxy(s)
    BY <1>3, <2>1
  <2>2. CASE CreateGroup(s)
    BY <1>4, <2>2
  <2>3. CASE ReplaceGroup(s)
    BY <1>5, <2>3
  <2>4. CASE PutPersistence(s)
    BY <1>6, <2>4
  <2>5. CASE DeletePersistence(s)
    BY <1>7, <2>5
  <2>6. CASE UpdateFront(s)
    BY <1>8, <2>6
  <2>7. CASE ClearFront(s)
    BY <1>9, <2>7
  <2>8. CASE DeleteProxy(s)
    BY <1>10, <2>8
  <2>9. CASE DeleteGroup(s)
    BY <1>11, <2>9
  <2>10. CASE CreateListener(s)
    BY <1>12, <2>10
  <2>11. CASE PutMonitor(s)
    BY <1>13, <2>11
  <2>12. CASE Associate(s)
    BY <1>14, <2>12
  <2>13. CASE UpdateMonitorTask(s)
    BY <1>15, <2>13
  <2>14. CASE DeleteMonitorTask(s)
    BY <1>16, <2>14
  <2>15. CASE UpdatePoolRow(s)
    BY <1>17, <2>15
  <2>16. CASE MarkPoolActive(s)
    BY <1>18, <2>16
  <2>17. CASE MarkMonitorActive(s)
    BY <1>19, <2>17
  <2>18. CASE MarkActive(s)
    BY <1>20, <2>18
  <2>19. CASE MarkPoolPendingDelete(s)
    BY <1>21, <2>19
  <2>20. CASE DeletePoolRow(s)
    BY <1>22, <2>20
  <2>21. CASE DeleteMonitorRow(s)
    BY <1>23, <2>21
  <2>22. CASE DeleteLbTask(s)
    BY <1>24, <2>22
  <2> QED
    BY <1>27, <2>1, <2>2, <2>3, <2>4, <2>5, <2>6, <2>7, <2>8, <2>9, <2>10, <2>11, <2>12, <2>13, <2>14, <2>15, <2>16, <2>17, <2>18, <2>19, <2>20, <2>21, <2>22, Zenon DEF Run
<1> QED
  BY <1>2, <1>26, <1>27

-----------------------------------------------------------------------------
(* What the invariants say of a flow by its kind, and what keeps them.     *)
LEMMA FlowKinds ==
  ASSUME ShapeAssumption, FlowInv, NEW s \in Slots, flow[s].step # "idle"
  PROVE  /\ flow[s] \in Flows /\ Shape(flow[s]) /\ LbAt(s) \in LBs /\ s \in On(LbAt(s))
         /\ LbAt(s) = LbOfFlow(flow[s])
         /\ \/ flow[s].on \in Pools /\ flow[s].on \notin LBs /\ PoolShape(flow[s]) /\ LbAt(s) = LbOf[flow[s].on]
            \/ flow[s].on \in LBs /\ flow[s].on \notin Pools /\ LbShape(flow[s]) /\ LbAt(s) = flow[s].on
<1>1. flow[s] \in Flows /\ Shape(flow[s])
  BY DEF FlowInv, Idle
<1>2. CASE PoolShape(flow[s])
  <2>1. flow[s].on \in Pools /\ flow[s].on \notin LBs
    BY <1>2 DEF PoolShape, ShapeAssumption
  <2>2. LbAt(s) = LbOf[flow[s].on] /\ LbAt(s) \in LBs
    BY <2>1 DEF LbAt, ShapeAssumption
  <2> QED
    BY <1>1, <1>2, <2>1, <2>2 DEF On, LbAt, LbOfFlow
<1>3. CASE LbShape(flow[s])
  <2>1. flow[s].on \in LBs /\ flow[s].on \notin Pools
    BY <1>3 DEF LbShape, ShapeAssumption
  <2>2. LbAt(s) = flow[s].on
    BY <2>1 DEF LbAt
  <2> QED
    BY <1>1, <1>3, <2>1, <2>2 DEF On, LbAt, LbOfFlow
<1> QED
  BY <1>1, <1>2, <1>3 DEF Shape

LEMMA IdleIs ==
  ShapeAssumption => /\ Idle.step = "idle" /\ Idle.op = "none" /\ Idle.on \notin Pools \cup LBs
                     /\ ~Idle.last /\ ~Works(Idle) /\ ~Trails(Idle) /\ ~Closing(Idle)
  BY DEF Idle, ShapeAssumption, Works, Trails, Closing

(* A pool stays as it is when a step leaves it alone, and the flow it is   *)
(* of works on it, or trails, as before.                                   *)
Away(f, p) == f.on \notin {p, LbOf[p]}
Alike(f, g, p) ==
    /\ Works(f) /\ f.on \in {p, LbOf[p]} => Works(g) /\ g.on \in {p, LbOf[p]}
    /\ Trails(g) /\ g.on = p => Trails(f) /\ f.on = p
    /\ Works(g) /\ g.on = p /\ g.op \in HmOps => Works(f) /\ f.on = p /\ f.op \in HmOps
    /\ Unserved(f, p) => Unserved(g, p)

LEMMA AwayAlike ==
  ASSUME NEW f, NEW g, NEW p, Away(f, p), Away(g, p)
  PROVE  Alike(f, g, p)
  BY DEF Away, Alike, Unserved

LEMMA PoolFrame ==
  ASSUME NEW u \in Slots, NEW p \in Pools, Only(u), Alike(flow[u], flow'[u], p),
         Untouched(p), <<"pool", p>> \in revived => <<"pool", p>> \in revived',
         lb[LbOf[p]] = "ERROR" /\ On(LbOf[p]) = {} => lb'[LbOf[p]] = "ERROR" /\ On(LbOf[p])' = {}
  PROVE  /\ Calm(p) => Calm(p)'
         /\ GoodPool(p) => GoodPool(p)'
<1>1. ASSUME NEW s \in Slots
      PROVE  Alike(flow[s], flow'[s], p)
  BY DEF Only, Alike
<1>2. pool'[p] = pool[p] /\ SameService(p)
  BY DEF Untouched
<1>3. Calm(p) => Calm(p)'
  <2>1. Free(p)' => Free(p)
    BY <1>1 DEF Free, Alike
  <2>2. (\E s \in Slots : Trails(flow'[s]) /\ flow'[s].on = p) => \E s \in Slots : Trails(flow[s]) /\ flow[s].on = p
    BY <1>1 DEF Alike
  <2> QED
    BY <1>2, <2>1, <2>2 DEF Calm
<1>4. GoodPool(p) => GoodPool(p)'
  <2>1. Lives(pool[p]) /\ Good(p) => Good(p)'
    BY <1>2, GoodStays
  <2>2. SUFFICES ASSUME GoodPool(p), <<"pool", p>> \notin revived'
                 PROVE  /\ pool'[p] = "ACTIVE" /\ (\A s \in Slots : ~Unserved(flow'[s], p)) => Good(p)'
                        /\ Lives(pool'[p]) /\ (\E s \in Slots : Works(flow'[s]) /\ flow'[s].on = p /\ flow'[s].op \in HmOps)
                             => Good(p)'
    BY DEF GoodPool
  <2>3. /\ pool[p] = "ACTIVE" /\ (\A s \in Slots : ~Unserved(flow[s], p)) => Good(p)
        /\ Lives(pool[p]) /\ (\E s \in Slots : Works(flow[s]) /\ flow[s].on = p /\ flow[s].op \in HmOps)
             => Good(p)
    BY <2>2 DEF GoodPool
  <2>4. pool'[p] = "ACTIVE" /\ (\A s \in Slots : ~Unserved(flow'[s], p)) => Good(p)'
    BY <1>1, <1>2, <2>1, <2>3 DEF Lives, Alike
  <2>5. Lives(pool'[p]) /\ (\E s \in Slots : Works(flow'[s]) /\ flow'[s].on = p /\ flow'[s].op \in HmOps) => Good(p)'
    BY <1>1, <1>2, <2>1, <2>3 DEF Alike
  <2> QED
    BY <2>4, <2>5
<1> QED
  BY <1>3, <1>4

LEMMA OnIs ==
  /\ \A l : On(l) = {s \in Slots : flow[s].step # "idle" /\ LbOfFlow(flow[s]) = l}
  /\ \A l : On(l)' = {s \in Slots : flow'[s].step # "idle" /\ LbOfFlow(flow'[s]) = l}
  BY DEF On, LbAt, LbOfFlow

LEMMA AwayIs ==
  ASSUME ShapeAssumption, NEW f, f = Idle \/ Shape(f), NEW p \in Pools,
         f.step # "idle" => LbOfFlow(f) # LbOf[p]
  PROVE  Away(f, p)
<1>0. LbOf[p] \in LBs /\ p \notin LBs
  BY DEF ShapeAssumption
<1>1. CASE f = Idle
  BY <1>0, <1>1, IdleIs DEF Away
<1>2. CASE Shape(f)
  <2>1. f.step # "idle"
    BY <1>2 DEF Shape
  <2> QED
    BY <1>0, <2>1 DEF Away, LbOfFlow
<1> QED
  BY <1>1, <1>2

(* A flow that works on pools that a step leaves alone.                    *)
LEMMA FlowOKFrame ==
  ASSUME ShapeAssumption, NEW f, Shape(f), FlowOK(f), NEW l, LbOfFlow(f) = l,
         \A p \in Under(l) : Untouched(p)
  PROVE  FlowOK(f)'
<1>1. ASSUME Works(f), f.on \in Pools PROVE PoolStatus(f)' /\ PoolGood(f)'
  <2>1. PoolStatus(f) /\ PoolGood(f)
    BY <1>1 DEF FlowOK
  <2>2. f.on \in Under(l)
    BY <1>1 DEF LbOfFlow, ShapeAssumption, Under
  <2>3. SameService(f.on) /\ pool'[f.on] = pool[f.on]
    BY <2>2 DEF Untouched
  <2>4. PoolStatus(f)'
    BY <2>1, <2>3 DEF PoolStatus
  <2>5. /\ f.on \in groups => f.on \in groups'
        /\ f.on \in sp' <=> f.on \in sp
    BY <2>3 DEF SameService
  <2>6. f.op \in {"create_pool", "update_pool"} /\ f.step # "revert" /\ Bind(f.on, f.sp) => Bind(f.on, f.sp)'
    <3>1. f.op \in {"create_pool", "update_pool"} /\ f.step # "revert" => Lives(pool[f.on])
      BY <2>1 DEF PoolStatus, StatusAt, Lives
    <3> QED
      BY <2>3, <3>1, BindStays
  <2>7. PoolGood(f)'
    BY <2>1, <2>5, <2>6 DEF PoolGood
  <2> QED
    BY <2>4, <2>7
<1>2. ASSUME Works(f), f.on \in LBs, NEW p \in Under(f.on) PROVE LbStatus(f, p)' /\ LbGood(f, p)'
  <2>1. LbStatus(f, p) /\ LbGood(f, p)
    BY <1>2 DEF FlowOK
  <2>2. SameService(p) /\ pool'[p] = pool[p]
    BY <1>2 DEF LbOfFlow, Untouched
  <2>3. p \in groups => p \in groups'
    BY <2>2 DEF SameService
  <2>4. LbStatus(f, p)'
    BY <2>1, <2>2 DEF LbStatus
  <2>5. LbGood(f, p)'
    BY <2>1, <2>3 DEF LbGood
  <2> QED
    BY <2>4, <2>5
<1> QED
  BY <1>1, <1>2 DEF FlowOK

(* A step of one load balancer leaves the others as they are.              *)
LEMMA LbFrame ==
  ASSUME ShapeAssumption, FlowInv, FlowInv', NEW u \in Slots, NEW l \in LBs, Only(u),
         flow[u].step # "idle" => LbOfFlow(flow[u]) # l,
         flow'[u].step # "idle" => LbOfFlow(flow'[u]) # l,
         lb'[l] = lb[l], overlapped \subseteq overlapped', revived \subseteq revived',
         Settled(l)' => \A p \in Under(l) : Untouched(p),
         LbOK(l)
  PROVE  LbOK(l)'
<1> SUFFICES ASSUME Settled(l)' PROVE LbOK(l)'
  BY DEF LbOK
<1>1. Settled(l)
  BY DEF Settled
<1>2. On(l)' = On(l) /\ \A s \in On(l) : flow'[s] = flow[s]
  BY OnIs DEF Only
<1>3. Exclusive(l) /\ (\A p \in Under(l) : Calm(p) /\ GoodPool(p) /\ Buried(p)) /\ \A s \in On(l), f \in Flows : f = flow[s] => FlowOK(f)
  BY <1>1 DEF LbOK
<1>4. Exclusive(l)'
  BY <1>2, <1>3 DEF Exclusive
<1>5. ASSUME NEW p \in Under(l) PROVE Calm(p)' /\ GoodPool(p)' /\ Buried(p)'
  <2>1. p \in Pools /\ LbOf[p] = l
    BY <1>5 DEF Under
  <2>2. Alike(flow[u], flow'[u], p)
    BY <2>1, AwayIs, AwayAlike DEF FlowInv
  <2>3. <<"pool", p>> \in revived => <<"pool", p>> \in revived'
    OBVIOUS
  <2>4. Untouched(p)
    BY <1>5
  <2>5. lb[LbOf[p]] = "ERROR" /\ On(LbOf[p]) = {} => lb'[LbOf[p]] = "ERROR" /\ On(LbOf[p])' = {}
    BY <1>2, <2>1
  <2>6. Buried(p)'
    BY <1>3, <2>1, <2>4 DEF Buried, Untouched
  <2> QED
    BY <1>3, <2>1, <2>2, <2>3, <2>4, <2>5, <2>6, PoolFrame
<1>6. ASSUME NEW s \in On(l)', NEW f \in Flows, f = flow'[s] PROVE FlowOK(f)'
  <2>1. s \in On(l) /\ f = flow[s] /\ f.step # "idle" /\ LbOfFlow(f) = l /\ s \in Slots
    BY <1>2, <1>6, OnIs
  <2>2. FlowOK(f)
    BY <1>3, <2>1
  <2>3. Shape(f)
    BY <2>1, FlowKinds
  <2> QED
    BY <2>1, <2>2, <2>3, FlowOKFrame
<1> QED
  BY <1>2, <1>4, <1>5, <1>6 DEF LbOK

-----------------------------------------------------------------------------
(* Where the tasks are that the invariants speak of.                       *)
Sizes(op, n) ==
    /\ op \in {"create_pool", "update_pool"} => n = 6
    /\ op = "create_hm" => n = 5
    /\ op \in {"update_hm", "delete_hm"} => n = 4
    /\ op = "delete_pool" => n = 8

LEMMA PlaceNumbers ==
  ASSUME NEW op \in PoolOps \cup HmOps, NEW last, NEW do, NEW c \in Nat, NEW n,
         Place(op, last, do, c), Sizes(op, n)
  PROVE  /\ n \in Nat /\ c <= n
         /\ do = "active" <=> c = n
         /\ do \in {"pool_active", "no_row"} <=> c + 1 = n
         /\ do = "no_row" => op = "delete_pool"
         /\ do = "pool_active" => op # "delete_pool"
         /\ do \notin {"deleting", "clear_front", "listener", "no_lb"}
<1>1. CASE op = "create_pool"
  BY <1>1 DEF Place, Sizes
<1>2. CASE op = "update_pool"
  BY <1>2 DEF Place, Sizes
<1>3. CASE op = "delete_pool"
  BY <1>3 DEF Place, Sizes
<1>4. CASE op = "create_hm"
  BY <1>4 DEF Place, Sizes
<1>5. CASE op = "update_hm"
  BY <1>5 DEF Place, Sizes
<1>6. CASE op = "delete_hm"
  BY <1>6 DEF Place, Sizes
<1> QED
  BY <1>1, <1>2, <1>3, <1>4, <1>5, <1>6 DEF PoolOps, HmOps

LEMMA PoolPlace ==
  ASSUME ShapeAssumption, NEW f \in Flows, Shape(f), f.on \in Pools, NEW do, Doing(f, do),
         NEW n, n = Len(Tasks(f))
  PROVE  /\ n \in Nat /\ f.pc \in Nat /\ f.pc >= 1 /\ f.pc <= n
         /\ do = "active" <=> f.pc = n
         /\ do \in {"pool_active", "no_row"} <=> f.pc + 1 = n
         /\ do = "no_row" => f.op = "delete_pool"
         /\ do = "pool_active" => f.op # "delete_pool"
         /\ do \notin {"deleting", "clear_front", "listener", "no_lb"}
<1>1. Place(f.op, f.cur = f.on, do, f.pc)
  BY Places
<1>2. f.op \in PoolOps \cup HmOps
  BY DEF Shape, PoolShape, LbShape, ShapeAssumption
<1>3. Sizes(f.op, n)
  BY Lengths DEF Sizes
<1>4. f.pc \in Nat /\ f.pc >= 1
  BY DEF Flows, Shape
<1>5. /\ f.pc <= n /\ n \in Nat
      /\ do = "active" <=> f.pc = n
      /\ do \in {"pool_active", "no_row"} <=> f.pc + 1 = n
      /\ do = "no_row" => f.op = "delete_pool"
      /\ do = "pool_active" => f.op # "delete_pool"
      /\ do \notin {"deleting", "clear_front", "listener", "no_lb"}
  BY <1>1, <1>2, <1>3, <1>4, PlaceNumbers
<1> QED
  BY <1>4, <1>5

LEMMA CreateUpdatePlace ==
  ASSUME ShapeAssumption, NEW f \in Flows, Shape(f), NEW do, Doing(f, do)
  PROVE  /\ f.op = "create_pool" =>
              /\ Len(Tasks(f)) = 6 /\ f.pc \in 1 .. 6 /\ do # "no_group" /\ do # "pool_row"
              /\ do = "group" <=> f.pc = 2
              /\ do = "front" <=> f.pc = 4
              /\ do \in {"pool_active", "active"} <=> f.pc >= 5
         /\ f.op = "update_pool" =>
              /\ Len(Tasks(f)) = 6 /\ f.pc \in 1 .. 6 /\ do # "no_group" /\ do # "group"
              /\ do = "replace_group" <=> f.pc = 1
              /\ do = "front" <=> f.pc = 3
              /\ do = "pool_row" <=> f.pc = 4
              /\ do \in {"pool_active", "active"} <=> f.pc >= 5
         /\ f.op \in HmOps =>
              do \notin {"group", "persist", "no_persist", "front", "clear_front", "no_group", "pool_row",
                         "listener", "no_lb"}
<1>1. Place(f.op, f.cur = f.on, do, f.pc)
  BY Places
<1>2. f.op \in {"create_pool", "update_pool"} => Len(Tasks(f)) = 6
  BY Lengths
<1> QED
  BY <1>1, <1>2 DEF Place, HmOps

LEMMA LbPlace ==
  ASSUME ShapeAssumption, NEW f \in Flows, Shape(f), NEW do, Doing(f, do)
  PROVE  /\ f.op = "create_lb" /\ f.cur # f.on =>
              /\ Len(Tasks(f)) = 7 /\ f.pc \in 1 .. 7
              /\ do = "group" <=> f.pc = 5
              /\ do = "pool_active" <=> f.pc = 7
              /\ do \notin {"active", "no_lb", "listener", "deleting", "no_row", "no_group", "pool_row"}
         /\ f.op = "create_lb" /\ f.cur = f.on =>
              /\ Len(Tasks(f)) = 3 /\ f.pc \in 1 .. 3
              /\ do = "listener" <=> f.pc = 1
              /\ do = "active" <=> f.pc >= 2
         /\ f.op = "delete_lb" /\ f.cur # f.on =>
              /\ Len(Tasks(f)) = 8 /\ f.pc \in 1 .. 8
              /\ do = "deleting" <=> f.pc = 1
              /\ do = "no_row" <=> f.pc = 8
              /\ do \notin {"active", "no_lb", "listener", "pool_active", "pool_row", "group"}
         /\ f.op = "delete_lb" /\ f.cur = f.on => Len(Tasks(f)) = 1 /\ f.pc = 1 /\ do = "no_lb"
<1>1. Place(f.op, f.cur = f.on, do, f.pc)
  BY Places
<1>2. /\ f.op = "create_lb" => Len(Tasks(f)) = IF f.cur = f.on THEN 3 ELSE 7
      /\ f.op = "delete_lb" => Len(Tasks(f)) = IF f.cur = f.on THEN 1 ELSE 8
  BY Lengths
<1> QED
  BY <1>1, <1>2 DEF Place

-----------------------------------------------------------------------------
(* While a flow works on a load balancer, or on a pool of it, the others   *)
(* there trail.                                                            *)
LEMMA Workers ==
  ASSUME ShapeAssumption, FlowInv, NEW u \in Slots, Works(flow[u]), NEW l, l = LbOfFlow(flow[u]),
         Exclusive(l)
  PROVE  /\ l \in LBs /\ u \in On(l)
         /\ \A t \in On(l) \ {u} : Trails(flow[t])
         /\ \A t \in Slots \ {u}, p \in Under(l) : flow[t].on \in {p, l} => Trails(flow[t])
         /\ flow[u].op = "create_lb" \/ flow[u].step = "revert" => On(l) = {u}
         /\ lb[l] = "ACTIVE" => Closing(flow[u])
         /\ lb[l] = "ERROR" => flow[u].step = "revert"
         /\ lb[l] # "NEW"
<1>1. l \in LBs /\ u \in On(l)
  BY FlowKinds DEF Works
<1>2. \A t \in On(l) \ {u} : Trails(flow[t])
  BY <1>1 DEF Exclusive, Works
<1>3. ASSUME NEW t \in Slots \ {u}, NEW p \in Under(l), flow[t].on \in {p, l} PROVE Trails(flow[t])
  <2>1. flow[t].step # "idle"
    BY <1>1, <1>3, IdleIs DEF FlowInv, Shape, Under
  <2>2. LbAt(t) = l
    BY <1>1, <1>3 DEF LbAt, Under, ShapeAssumption
  <2> QED
    BY <1>2, <2>1, <2>2 DEF On
<1>4. flow[u].op = "create_lb" \/ flow[u].step = "revert" => On(l) = {u}
  BY <1>1 DEF Exclusive
<1> QED
  BY <1>1, <1>2, <1>3, <1>4 DEF Exclusive, Works

(* A step of one flow keeps the order among the flows of its load          *)
(* balancer when the others trail.                                         *)
LEMMA ExclusiveStep ==
  ASSUME ShapeAssumption, FlowInv, FlowInv', NEW u \in Slots, Only(u), NEW l,
         \A t \in On(l) \ {u} : Trails(flow[t]),
         u \in On(l)' /\ (flow'[u].op = "create_lb" \/ flow'[u].step = "revert") => On(l)' = {u},
         lb'[l] = "ACTIVE" => u \notin On(l)' \/ Trails(flow'[u]) \/ Closing(flow'[u]),
         lb'[l] = "ERROR" => On(l)' = {} \/ (On(l)' = {u} /\ flow'[u].step = "revert"),
         lb'[l] = "NEW" => On(l)' = {}
  PROVE  Exclusive(l)'
<1>1. \A t \in On(l)' \ {u} : t \in On(l) /\ flow'[t] = flow[t]
  BY OnIs DEF Only
<1>2. \A t \in On(l)' \ {u} : Trails(flow'[t]) /\ flow'[t].step # "revert" /\ flow'[t].op # "create_lb"
  <2> TAKE t \in On(l)' \ {u}
  <2>1. Trails(flow'[t]) /\ t \in Slots
    BY <1>1, OnIs
  <2>2. flow'[t].on \in Pools /\ flow'[t].step = "run"
    BY <2>1 DEF Trails
  <2>3. Shape(flow'[t])
    BY <2>1, <2>2, IdleIs DEF FlowInv
  <2>4. flow'[t].op # "create_lb"
    BY <2>2, <2>3 DEF Shape, PoolShape, LbShape, ShapeAssumption, PoolOps, HmOps
  <2> QED
    BY <2>1, <2>2, <2>4
<1>3. \A s, t \in On(l)' : s # t =>
         /\ Trails(flow'[s]) \/ Trails(flow'[t])
         /\ flow'[s].step # "revert" /\ flow'[s].op # "create_lb"
  BY <1>2
<1>4. lb'[l] = "ACTIVE" => \A s \in On(l)' : Trails(flow'[s]) \/ Closing(flow'[s])
  BY <1>2
<1>5. lb'[l] = "ERROR" => \A s \in On(l)' : flow'[s].step = "revert"
  OBVIOUS
<1> QED
  BY <1>3, <1>4, <1>5 DEF Exclusive

(* With it go the pools of the load balancer and the flow that moved.      *)
LEMMA LbStep ==
  ASSUME ShapeAssumption, FlowInv, FlowInv', NEW u \in Slots, Only(u), NEW l,
         \A t \in On(l) \ {u} : Trails(flow[t]),
         Exclusive(l)', \A p \in Under(l) : Calm(p)' /\ GoodPool(p)' /\ Buried(p)',
         u \in On(l)' => \A g \in Flows : g = flow'[u] => FlowOK(g)'
  PROVE  LbOK(l)'
<1>1. ASSUME NEW s \in On(l)', NEW g \in Flows, g = flow'[s] PROVE FlowOK(g)'
  <2>1. CASE s = u
    BY <2>1, <1>1
  <2>2. CASE s # u
    <3>1. s \in On(l) /\ flow'[s] = flow[s]
      BY <2>2, OnIs DEF Only
    <3>2. ~Works(g)
      BY <1>1, <2>2, <3>1 DEF Works
    <3> QED
      BY <3>2 DEF FlowOK
  <2> QED
    BY <2>1, <2>2
<1> QED
  BY <1>1 DEF LbOK

-----------------------------------------------------------------------------
(* A task of a flow on a pool.                                             *)
LEMMA PoolTask ==
  ASSUME ShapeAssumption, Inv, NEW u \in Slots, NEW do, FlowEffect(u, do),
         NEW f \in Flows, f = flow[u], NEW g \in Flows, g = flow'[u], f.on \in Pools
  PROVE  /\ Shape(f) /\ Shape(g) /\ Doing(f, do) /\ f.step = "run" /\ g.step = "run"
         /\ Works(f) /\ Target(u) = f.on /\ LbOf[f.on] \in LBs
         /\ g.op = f.op /\ g.on = f.on /\ g.sp = f.sp /\ g.cur = f.on /\ g.pc = f.pc + 1
         /\ Tasks(g) = Tasks(f) /\ Len(Tasks(f)) \in Nat
         /\ f.pc \in Nat /\ f.pc >= 1 /\ f.pc <= Len(Tasks(f))
         /\ do = "active" <=> f.pc = Len(Tasks(f))
         /\ do \in {"pool_active", "no_row"} <=> f.pc + 1 = Len(Tasks(f))
         /\ do = "no_row" => f.op = "delete_pool"
         /\ do = "pool_active" => f.op # "delete_pool"
         /\ do \notin {"deleting", "clear_front", "listener", "no_lb"}
         /\ LbAt(u) = LbOf[f.on] /\ LbOfFlow(f) = LbOf[f.on] /\ LbOfFlow(g) = LbOf[f.on]
<1>1. Shape(f) /\ Doing(f, do) /\ f.step = "run" /\ ~Ended(f)
  BY Stage DEF FlowEffect
<1>2. Walks(f, g)
  BY DEF FlowEffect
<1>3. PoolShape(f)
  BY <1>1 DEF Shape, LbShape, ShapeAssumption
<1>4. f.cur = f.on
  BY <1>3 DEF PoolShape
<1>5. /\ Shape(g) /\ g.op = f.op /\ g.on = f.on /\ g.sp = f.sp /\ g.cur = f.on /\ g.pc = f.pc + 1
      /\ g.step = "run"
  BY <1>1, <1>2, <1>4 DEF Walks
<1>6. Tasks(g) = Tasks(f)
  BY <1>4, <1>5 DEF Tasks
<1>7. Works(f) /\ Target(u) = f.on
  BY <1>1, <1>4 DEF Works, Trails, Target
<1>8. f.on \notin LBs /\ LbOf[f.on] \in LBs
  BY DEF ShapeAssumption
<1>9. LbAt(u) = LbOf[f.on] /\ LbOfFlow(f) = LbOf[f.on] /\ LbOfFlow(g) = LbOf[f.on]
  BY <1>5, <1>8 DEF LbAt, LbOfFlow
<1>10. /\ Len(Tasks(f)) \in Nat /\ f.pc \in Nat /\ f.pc >= 1 /\ f.pc <= Len(Tasks(f))
       /\ do = "active" <=> f.pc = Len(Tasks(f))
       /\ do \in {"pool_active", "no_row"} <=> f.pc + 1 = Len(Tasks(f))
       /\ do = "no_row" => f.op = "delete_pool"
       /\ do = "pool_active" => f.op # "delete_pool"
       /\ do \notin {"deleting", "clear_front", "listener", "no_lb"}
  BY <1>1, PoolPlace
<1> QED
  BY <1>1, <1>5, <1>6, <1>7, <1>8, <1>9, <1>10

(* Its pool has the status of the flow's next task.                        *)
LEMMA PoolTaskStatus ==
  ASSUME ShapeAssumption, Inv, NEW u \in Slots, NEW do, FlowEffect(u, do), RowEffect(u, do),
         NEW f \in Flows, f = flow[u], NEW g \in Flows, g = flow'[u], f.on \in Pools, PoolStatus(f)
  PROVE  /\ pool[f.on] = StatusAt(f)
         /\ ~Ended(g) => pool'[f.on] = StatusAt(g)
         /\ Ended(g) => do = "active" /\ pool'[f.on] \in {"GONE", "ACTIVE"}
         /\ pool'[f.on] = "ACTIVE" => do \in {"pool_active", "active"} /\ f.op # "delete_pool"
<1> DEFINE n == Len(Tasks(f))
<1>1. /\ Shape(f) /\ g.op = f.op /\ g.pc = f.pc + 1 /\ Tasks(g) = Tasks(f) /\ Target(u) = f.on
      /\ n \in Nat /\ f.pc \in Nat /\ f.pc <= n
      /\ do = "active" <=> f.pc = n
      /\ do \in {"pool_active", "no_row"} <=> f.pc + 1 = n
      /\ do = "no_row" => f.op = "delete_pool"
      /\ do = "pool_active" => f.op # "delete_pool"
      /\ do # "deleting" /\ f.step = "run" /\ Len(Tasks(g)) = n
  BY PoolTask
<1>2. pool[f.on] = StatusAt(f)
  BY <1>1 DEF PoolStatus
<1>3. pool \in [Pools -> Statuses]
  BY DEF Inv, TypeOK
<1>4. /\ f.pc < n => pool[f.on] = IF f.op = "delete_pool" THEN "DELETING" ELSE "PENDING"
      /\ ~(f.pc < n) => pool[f.on] = IF f.op = "delete_pool" THEN "GONE" ELSE "ACTIVE"
      /\ g.pc < n => StatusAt(g) = IF f.op = "delete_pool" THEN "DELETING" ELSE "PENDING"
      /\ ~(g.pc < n) => StatusAt(g) = IF f.op = "delete_pool" THEN "GONE" ELSE "ACTIVE"
      /\ Ended(g) <=> g.pc > n
  BY <1>1, <1>2 DEF StatusAt, Ended
<1> HIDE DEF n
<1>5. CASE f.pc + 1 < n
  <2>1. pool'[f.on] = pool[f.on]
    BY <1>1, <1>5 DEF RowEffect
  <2> QED
    BY <1>1, <1>2, <1>4, <1>5, <2>1
<1>6. CASE f.pc + 1 = n
  <2>1. do \in {"pool_active", "no_row"} /\ f.pc < n /\ ~(g.pc < n) /\ ~Ended(g)
    BY <1>1, <1>4, <1>6
  <2>2. HasRow(pool[f.on])
    BY <1>4, <2>1 DEF HasRow
  <2>3. pool'[f.on] = IF do = "pool_active" THEN "ACTIVE" ELSE "GONE"
    BY <1>1, <1>3, <2>1, <2>2 DEF RowEffect, Set
  <2> QED
    BY <1>1, <1>2, <1>4, <2>1, <2>3
<1>7. CASE f.pc = n
  <2>1. do = "active" /\ pool'[f.on] = pool[f.on]
    BY <1>1, <1>7 DEF RowEffect
  <2>2. ~(f.pc < n) /\ Ended(g)
    BY <1>1, <1>4, <1>7
  <2> QED
    BY <1>2, <1>4, <2>1, <2>2
<1>8. f.pc + 1 < n \/ f.pc + 1 = n \/ f.pc = n
  BY <1>1
<1> QED
  BY <1>5, <1>6, <1>7, <1>8

(* What serves the pool is built up as the flow goes.                      *)
LEMMA PoolTaskBind ==
  ASSUME ShapeAssumption, Inv, NEW u \in Slots, NEW do, FlowEffect(u, do), Serves(u, do),
         NEW f \in Flows, f = flow[u], f.on \in Pools, Settled(LbOf[f.on]), Lives(pool[f.on])
  PROVE  /\ do = "front" => Bind(f.on, f.sp)'
         /\ do \in {"pool_row", "pool_active", "active"} /\ Bind(f.on, f.sp) => Bind(f.on, f.sp)'
<1>0. flow'[u] \in Flows
  BY DEF FlowEffect, Walks
<1>1. Target(u) = f.on /\ ServiceEffect(u, do)
  BY <1>0, PoolTask DEF Serves
<1>2. ASSUME do = "front" PROVE Bind(f.on, f.sp)'
  <2>1. SUFFICES ASSUME f.on \in Default
                 PROVE  /\ front'[f.on].group /\ front'[f.on].pers = f.sp
                        /\ f.on \in Proxied \ raced' => front'[f.on].proxy
    BY DEF Bind
  <2>2. WantsPers(u, f.on) = f.sp
    BY DEF WantsPers
  <2>3. pool[f.on] # "DELETING"
    BY DEF Lives
  <2> QED
    BY <1>1, <1>2, <2>1, <2>2, <2>3 DEF ServiceEffect
<1>3. ASSUME do = "pool_row", Bind(f.on, f.sp) PROVE Bind(f.on, f.sp)'
  BY <1>1, <1>3 DEF ServiceEffect, Bind
<1>4. ASSUME do \in {"pool_active", "active"}, Bind(f.on, f.sp) PROVE Bind(f.on, f.sp)'
  <2>1. SameService(f.on)
    BY <1>1, <1>4 DEF ServiceEffect
  <2> QED
    BY <1>4, <2>1, BindStays
<1> QED
  BY <1>2, <1>3, <1>4

LEMMA PoolTaskGood ==
  ASSUME ShapeAssumption, Inv, NEW u \in Slots, NEW do, FlowEffect(u, do), Serves(u, do),
         NEW f \in Flows, f = flow[u], NEW g \in Flows, g = flow'[u], f.on \in Pools,
         Settled(LbOf[f.on]), PoolStatus(f), PoolGood(f)
  PROVE  PoolGood(g)'
<1>1. /\ Shape(f) /\ Doing(f, do) /\ f.step = "run" /\ g.step = "run" /\ Target(u) = f.on
      /\ g.op = f.op /\ g.on = f.on /\ g.sp = f.sp /\ g.pc = f.pc + 1
      /\ f.pc \in Nat /\ ServiceEffect(u, do)
  BY PoolTask DEF Serves
<1>2. f.op \in {"create_pool", "update_pool"} => Lives(pool[f.on])
  BY PoolTaskStatus DEF Serves, StatusAt, Lives
<1>3. ASSUME f.op = "create_pool"
      PROVE  /\ g.pc >= 3 => f.on \in groups'
             /\ g.pc >= 5 => Bind(f.on, f.sp)'
             /\ f.sp <=> f.on \in sp'
  <2>1. /\ f.pc \in 1 .. 6 /\ do # "no_group" /\ do # "pool_row"
        /\ do = "group" <=> f.pc = 2
        /\ do = "front" <=> f.pc = 4
        /\ do \in {"pool_active", "active"} <=> f.pc >= 5
    BY <1>1, <1>3, CreateUpdatePlace
  <2>2. /\ f.pc >= 3 => f.on \in groups
        /\ f.pc >= 5 => Bind(f.on, f.sp)
        /\ f.sp <=> f.on \in sp
    BY <1>1, <1>3 DEF PoolGood
  <2>3. sp' = sp /\ groups \subseteq groups' /\ (do = "group" => f.on \in groups')
    BY <1>1, <2>1 DEF ServiceEffect
  <2>4. g.pc >= 5 => f.pc = 4 \/ f.pc >= 5
    BY <1>1, <2>1
  <2>5. g.pc >= 3 => f.pc = 2 \/ f.pc >= 3
    BY <1>1, <2>1
  <2>6. g.pc >= 5 => Bind(f.on, f.sp)'
    BY <1>2, <1>3, <2>1, <2>2, <2>4, PoolTaskBind
  <2> QED
    BY <2>1, <2>2, <2>3, <2>5, <2>6
<1>4. ASSUME f.op = "update_pool"
      PROVE  /\ g.pc >= 2 => f.on \in groups'
             /\ g.pc >= 4 => Bind(f.on, f.sp)'
             /\ g.pc >= 5 => (f.sp <=> f.on \in sp')
  <2>1. /\ f.pc \in 1 .. 6 /\ do # "no_group" /\ do # "group"
        /\ do = "replace_group" <=> f.pc = 1
        /\ do = "front" <=> f.pc = 3
        /\ do = "pool_row" <=> f.pc = 4
        /\ do \in {"pool_active", "active"} <=> f.pc >= 5
    BY <1>1, <1>4, CreateUpdatePlace
  <2>2. /\ f.pc >= 2 => f.on \in groups
        /\ f.pc >= 4 => Bind(f.on, f.sp)
        /\ f.pc >= 5 => (f.sp <=> f.on \in sp)
    BY <1>1, <1>4 DEF PoolGood
  <2>3. groups' = groups /\ (do = "replace_group" => f.on \in groups)
    BY <1>1, <2>1 DEF ServiceEffect
  <2>4. (do = "pool_row" => (f.on \in sp' <=> f.sp)) /\ (do # "pool_row" => sp' = sp)
    BY <1>1 DEF ServiceEffect
  <2>5. /\ f.pc = 1 \/ f.pc >= 2
        /\ g.pc >= 4 => f.pc = 3 \/ f.pc = 4 \/ f.pc >= 5
        /\ g.pc >= 5 => f.pc = 4 \/ f.pc >= 5
        /\ f.pc >= 5 => f.pc >= 4
        /\ f.pc = 4 => f.pc >= 4
    BY <1>1, <2>1
  <2>6. g.pc >= 4 => Bind(f.on, f.sp)'
    BY <1>2, <1>4, <2>1, <2>2, <2>5, PoolTaskBind
  <2> QED
    BY <2>1, <2>2, <2>3, <2>4, <2>5, <2>6
<1> QED
  BY <1>1, <1>3, <1>4 DEF PoolGood

(* No other flow works on the pools of the load balancer.                  *)
LEMMA OthersAway ==
  ASSUME ShapeAssumption, NEW u \in Slots, NEW l \in LBs, NEW p \in Under(l), Only(u),
         \A t \in Slots \ {u} : flow[t].on \in {p, l} => Trails(flow[t])
  PROVE  /\ \A t \in Slots \ {u} : ~Unserved(flow[t], p) /\ ~Unserved(flow'[t], p)
         /\ \A t \in Slots : Works(flow'[t]) /\ flow'[t].on = p => t = u
         /\ \A t \in Slots : Works(flow[t]) /\ flow[t].on \in {p, l} => t = u
<1>1. \A t \in Slots \ {u} : flow'[t] = flow[t]
  BY DEF Only
<1>2. LbOf[p] = l
  BY DEF Under
<1>3. \A t \in Slots \ {u} : flow[t].on \in {p, l} => ~Works(flow[t])
  BY DEF Works
<1>4. ASSUME NEW t \in Slots \ {u} PROVE ~Unserved(flow[t], p)
  <2>1. SUFFICES ASSUME Unserved(flow[t], p) PROVE FALSE
    OBVIOUS
  <2>2. Trails(flow[t]) /\ flow[t].on = l
    BY <1>2, <2>1 DEF Unserved
  <2> QED
    BY <2>2 DEF Trails, ShapeAssumption
<1> QED
  BY <1>1, <1>3, <1>4

LEMMA PoolTaskPool ==
  ASSUME ShapeAssumption, Inv, NEW u \in Slots, NEW do, FlowEffect(u, do), Serves(u, do),
         NEW f \in Flows, f = flow[u], NEW g \in Flows, g = flow'[u], f.on \in Pools,
         NEW l, l = LbOf[f.on], Settled(l), Exclusive(l), PoolStatus(f), PoolGood(f),
         Calm(f.on), GoodPool(f.on)
  PROVE  Calm(f.on)' /\ GoodPool(f.on)'
<1>1. /\ Works(f) /\ g.op = f.op /\ g.on = f.on /\ g.step = "run" /\ Target(u) = f.on
      /\ Doing(f, do) /\ Shape(f) /\ ServiceEffect(u, do) /\ LbOfFlow(f) = l /\ l \in LBs
      /\ f.pc \in Nat /\ f.pc <= Len(Tasks(f)) /\ Len(Tasks(f)) \in Nat /\ f.step = "run"
      /\ do \in {"pool_active", "no_row"} <=> f.pc + 1 = Len(Tasks(f))
      /\ do = "active" <=> f.pc = Len(Tasks(f))
  BY PoolTask DEF Serves
<1>2. /\ pool[f.on] = StatusAt(f)
      /\ Ended(g) => pool'[f.on] \in {"GONE", "ACTIVE"}
      /\ pool'[f.on] = "ACTIVE" => do \in {"pool_active", "active"} /\ f.op # "delete_pool"
  BY PoolTaskStatus DEF Serves
<1>3. f.on \in Under(l) /\ Only(u) /\ FlowInv
  BY DEF Under, FlowEffect, Inv
<1>4. \A t \in Slots \ {u} : flow[t].on \in {f.on, l} => Trails(flow[t])
  BY <1>1, <1>3, Workers
<1>5. /\ \A t \in Slots \ {u} : ~Unserved(flow[t], f.on) /\ ~Unserved(flow'[t], f.on)
      /\ \A t \in Slots : Works(flow'[t]) /\ flow'[t].on = f.on => t = u
  BY <1>1, <1>3, <1>4, OthersAway
<1>6. f.op \notin {"create_lb"} /\ f.op \in PoolOps \cup HmOps
  BY <1>1 DEF Shape, PoolShape, LbShape, ShapeAssumption, PoolOps, HmOps
<1>7. \A t \in Slots : ~Unserved(flow[t], f.on) /\ ~Unserved(flow'[t], f.on)
  BY <1>1, <1>5, <1>6 DEF Unserved
<1>8. Calm(f.on)'
  <2>1. CASE Ended(g)
    BY <1>2, <2>1 DEF Calm
  <2>2. CASE ~Ended(g)
    <3>1. Works(g)
      BY <1>1, <2>2 DEF Works, Trails
    <3> QED
      BY <1>1, <3>1 DEF Calm, Free
  <2> QED
    BY <2>1, <2>2
<1>9. ASSUME f.op \in HmOps, Lives(pool[f.on]), <<"pool", f.on>> \notin revived PROVE Good(f.on)'
  <2>1. Good(f.on)
    BY <1>1, <1>9 DEF GoodPool
  <2>2. SameService(f.on)
    <3>1. do \notin {"group", "persist", "no_persist", "front", "clear_front", "no_group", "pool_row",
                     "listener", "no_lb"}
      BY <1>1, <1>9, CreateUpdatePlace
    <3> QED
      BY <1>1, <3>1 DEF ServiceEffect
  <2> QED
    BY <1>9, <2>1, <2>2, GoodStays
<1>10. ASSUME pool'[f.on] = "ACTIVE", <<"pool", f.on>> \notin revived PROVE Good(f.on)'
  <2>1. do \in {"pool_active", "active"} /\ f.op # "delete_pool"
    BY <1>2, <1>10
  <2>2. Lives(pool[f.on])
    BY <1>2, <2>1 DEF StatusAt, Lives
  <2>3. CASE f.op \in HmOps
    BY <1>9, <1>10, <2>2, <2>3
  <2>4. CASE f.op \in {"create_pool", "update_pool"}
    <3>1. f.pc >= 5
      BY <1>1, <2>1, <2>4, CreateUpdatePlace
    <3>2. f.on \in groups /\ Bind(f.on, f.sp) /\ (f.sp <=> f.on \in sp)
      BY <1>1, <2>4, <3>1 DEF PoolGood
    <3>3. f.sp \in BOOLEAN /\ (f.on \in sp) \in BOOLEAN
      BY Membership DEF Flows
    <3>4. f.sp = (f.on \in sp)
      BY <3>2, <3>3
    <3>5. Good(f.on)
      BY <3>2, <3>4 DEF Good
    <3>6. SameService(f.on)
      BY <1>1, <2>1 DEF ServiceEffect
    <3> QED
      BY <2>2, <3>5, <3>6, GoodStays
  <2> QED
    BY <1>6, <2>1, <2>3, <2>4 DEF PoolOps
<1>11. revived' = revived
  BY DEF FlowEffect
<1>12. Lives(pool'[f.on]) /\ f.op # "delete_pool" => Lives(pool[f.on])
  BY <1>2 DEF StatusAt, Lives
<1>13. ASSUME Lives(pool'[f.on]), NEW t \in Slots, Works(flow'[t]), flow'[t].on = f.on, flow'[t].op \in HmOps,
              <<"pool", f.on>> \notin revived
       PROVE  Good(f.on)'
  <2>1. f.op \in HmOps
    BY <1>1, <1>5, <1>13
  <2> QED
    BY <1>9, <1>12, <1>13, <2>1 DEF HmOps
<1>14. GoodPool(f.on)'
  BY <1>10, <1>11, <1>13 DEF GoodPool
<1> QED
  BY <1>8, <1>14

(* What the record of a flow says of its end, after a task.                *)
LEMMA RunRecorded ==
  ASSUME ShapeAssumption, Inv, NEW u \in Slots, NEW do, FlowEffect(u, do),
         NEW f \in Flows, f = flow[u], NEW g \in Flows, g = flow'[u], Recorded(f)
  PROVE  Recorded(g)
<1>1. /\ Shape(f) /\ Doing(f, do) /\ f.step = "run" /\ Walks(f, g)
      /\ Place(f.op, f.cur = f.on, do, f.pc)
  BY Stage DEF FlowEffect
<1>2. g.step = "run" /\ g.op = f.op /\ g.on = f.on /\ g.done = Done(f) /\ Shape(g)
  BY <1>1 DEF Walks
<1>3. f.cur \in Objects
  BY <1>1 DEF Shape, PoolShape, LbShape, Objects, Under
<1>4. do = "active" => \E t \in g.done : t.do = "active"
  <2>1. do = "active" => Task("active", f.cur) \in g.done
    BY <1>1, <1>2, <1>3, DoneIs DEF Kept
  <2> QED
    BY <2>1 DEF Task
<1>5. ASSUME f.on \in Pools, AtEnd(g) PROVE do = "active"
  <2>1. ~Ended(g) \/ do = "active"
    <3> DEFINE n == Len(Tasks(f))
    <3>1. /\ g.pc = f.pc + 1 /\ Tasks(g) = Tasks(f) /\ n \in Nat /\ f.pc \in Nat /\ f.pc <= n
          /\ do = "active" <=> f.pc = n
      BY <1>5, PoolTask
    <3>2. Ended(g) <=> f.pc + 1 > n
      BY <3>1 DEF Ended
    <3> HIDE DEF n
    <3> QED
      BY <3>1, <3>2
  <2>2. g.op # "create_lb"
    BY <1>1, <1>2, <1>5 DEF Shape, PoolShape, LbShape, ShapeAssumption, PoolOps, HmOps
  <2> QED
    BY <1>2, <1>5, <2>1, <2>2 DEF AtEnd
<1>6. ASSUME f.on \notin Pools, AtEnd(g) PROVE do = "active"
  <2>1. g.op = "create_lb" /\ g.cur = g.on /\ g.pc >= 3
    BY <1>2, <1>6 DEF AtEnd
  <2>2. g.cur = f.cur /\ g.pc = f.pc + 1
    <3>1. f.rest \subseteq Under(f.on)
      BY <1>1, <1>6 DEF Shape, PoolShape, LbShape
    <3>2. g.cur \notin f.rest
      BY <1>2, <1>6, <2>1, <3>1 DEF Under
    <3>3. g.pc # 1
      BY <2>1
    <3> QED
      BY <1>1, <3>2, <3>3 DEF Walks
  <2>3. f.pc \in 1 .. 3 /\ (do = "active" <=> f.pc >= 2)
    <3>1. f.op = "create_lb" /\ f.cur = f.on
      BY <1>2, <2>1, <2>2
    <3> QED
      BY <1>1, <3>1, LbPlace
  <2> QED
    BY <2>1, <2>2, <2>3
<1>7. ASSUME f.op \in HmOps \cup {"delete_lb"}, NEW t \in g.done PROVE t.do # "persist"
  <2>1. t \in f.done \/ Doing(f, t.do)
    BY <1>2, <1>3, <1>7, DoneIs
  <2>2. t \in f.done => t.do # "persist"
    BY <1>7 DEF Recorded
  <2>3. do # "persist"
    BY <1>1, <1>7 DEF Place, HmOps
  <2>4. Doing(f, t.do) => t.do = do
    BY <1>1 DEF Doing
  <2> QED
    BY <2>1, <2>2, <2>3, <2>4
<1> QED
  BY <1>2, <1>4, <1>5, <1>6, <1>7 DEF Recorded

(* A task leaves the other pools alone.                                    *)
LEMMA RunElsewhere ==
  ASSUME ShapeAssumption, Inv, NEW u \in Slots, NEW do, FlowEffect(u, do), Serves(u, do),
         NEW p \in Pools, p # Target(u), Settled(LbOf[p]),
         do \in {"listener", "no_lb"} => LbOf[p] # Target(u)
  PROVE  Untouched(p)
<1>1. SameService(p)
  BY DEF Serves, ServiceEffect, Elsewhere
<1>2. pool'[p] = pool[p]
  <2>1. pool \in [Pools -> Statuses]
    BY DEF Inv, TypeOK
  <2>2. \/ pool' = pool \/ pool' = Set(pool, {Target(u)}, "ACTIVE")
        \/ pool' = Set(pool, {Target(u)}, "DELETING") \/ pool' = Set(pool, {Target(u)}, "GONE")
    BY DEF Serves, RowEffect
  <2> QED
    BY <2>1, <2>2 DEF Set
<1> QED
  BY <1>1, <1>2 DEF Untouched

(* The load balancer in which a flow on a pool does a task.                *)
LEMMA PoolRun ==
  ASSUME ShapeAssumption, Inv, NEW u \in Slots, NEW do, FlowEffect(u, do), Serves(u, do),
         NEW f \in Flows, f = flow[u], NEW g \in Flows, g = flow'[u], f.on \in Pools,
         Recorded(f), LbOK(LbOf[f.on])
  PROVE  LbOK(LbOf[f.on])'
<1> DEFINE l == LbOf[f.on]
<1>0. SUFFICES ASSUME Settled(l) PROVE LbOK(l)'
  <2>1. Settled(l)' <=> Settled(l)
    BY DEF FlowEffect, Settled
  <2> QED
    BY <2>1 DEF LbOK
<1>1. /\ Shape(f) /\ Shape(g) /\ Doing(f, do) /\ f.step = "run" /\ g.step = "run"
      /\ Works(f) /\ Target(u) = f.on /\ l \in LBs /\ g.on = f.on /\ g.op = f.op
      /\ g.pc = f.pc + 1 /\ Tasks(g) = Tasks(f) /\ Len(Tasks(f)) \in Nat
      /\ f.pc \in Nat /\ f.pc >= 1 /\ f.pc <= Len(Tasks(f))
      /\ do = "active" <=> f.pc = Len(Tasks(f))
      /\ do \notin {"deleting", "clear_front", "listener", "no_lb"}
      /\ LbAt(u) = l /\ LbOfFlow(f) = l /\ LbOfFlow(g) = l
  BY PoolTask
<1>2. FlowInv /\ FlowInv' /\ Only(u) /\ pool \in [Pools -> Statuses] /\ lb \in [LBs -> Statuses]
  BY DEF FlowEffect, Inv, TypeOK
<1>3. /\ Exclusive(l) /\ \A p \in Under(l) : Calm(p) /\ GoodPool(p) /\ Buried(p)
      /\ f.on \in Under(l) /\ u \in On(l) /\ FlowOK(f)
  <2>1. u \in On(l) /\ f.on \in Under(l)
    BY <1>1 DEF On, Under
  <2> QED
    BY <1>0, <2>1 DEF LbOK
<1>4. PoolStatus(f) /\ PoolGood(f)
  BY <1>1, <1>3 DEF FlowOK
<1>5. /\ \A t \in On(l) \ {u} : Trails(flow[t])
      /\ lb[l] \notin {"ACTIVE", "ERROR", "NEW"} /\ f.op # "create_lb"
  <2>1. f.op # "create_lb"
    BY <1>1 DEF Shape, PoolShape, LbShape, ShapeAssumption, PoolOps, HmOps
  <2> QED
    BY <1>1, <1>2, <1>3, <2>1, Workers DEF Closing
<1>6. /\ lb'[l] \notin {"ERROR", "NEW"}
      /\ lb'[l] = "ACTIVE" => do = "active"
      /\ lb'[l] = "GONE" => lb[l] = "GONE"
  <2>1. CASE do # "active"
    BY <1>1, <1>5, <2>1 DEF Serves, RowEffect
  <2>2. CASE do = "active"
    <3>1. lb' = Set(lb, {l}, "ACTIVE")
      BY <1>1, <2>2 DEF Serves, RowEffect
    <3> QED
      BY <1>1, <1>2, <1>5, <2>2, <3>1 DEF Set
  <2> QED
    BY <2>1, <2>2
<1>7. do = "active" => Trails(g)
  <2> DEFINE n == Len(Tasks(f))
  <2>1. n \in Nat /\ f.pc \in Nat /\ (do = "active" => f.pc = n) /\ (Ended(g) <=> f.pc + 1 > n)
    BY <1>1 DEF Ended
  <2> HIDE DEF n
  <2>2. do = "active" => Ended(g)
    BY <2>1
  <2> QED
    BY <1>1, <2>2 DEF Trails
<1>8. Exclusive(l)'
  BY <1>1, <1>2, <1>5, <1>6, <1>7, ExclusiveStep
<1>9. ASSUME NEW p \in Under(l), p # f.on PROVE Calm(p)' /\ GoodPool(p)' /\ Buried(p)'
  <2>1. p \in Pools /\ LbOf[p] = l /\ p # l
    BY <1>1, <1>9 DEF Under, ShapeAssumption
  <2>2. Untouched(p)
    BY <1>0, <1>1, <1>9, <2>1, RunElsewhere
  <2>3. Away(f, p) /\ Away(g, p)
    BY <1>1, <1>9, <2>1 DEF Away, ShapeAssumption
  <2>4. Calm(p)' /\ GoodPool(p)'
    <3>1. revived' = revived
      BY DEF FlowEffect
    <3>2. Alike(flow[u], flow'[u], p)
      BY <2>3, AwayAlike
    <3>3. On(l) # {}
      BY <1>3
    <3> QED
      BY <1>2, <1>3, <1>9, <2>1, <2>2, <3>1, <3>2, <3>3, PoolFrame
  <2>5. Buried(p)'
    BY <1>3, <1>6, <1>9, <2>1, <2>2 DEF Buried, Untouched
  <2> QED
    BY <2>4, <2>5
<1>10. Calm(f.on)' /\ GoodPool(f.on)' /\ Buried(f.on)'
  <2>1. Calm(f.on)' /\ GoodPool(f.on)'
    BY <1>0, <1>3, <1>4, PoolTaskPool
  <2>2. ~HasRow(pool[f.on]) => ~HasRow(pool'[f.on])
    BY <1>1, <1>2 DEF Serves, RowEffect, Set
  <2>3. Buried(f.on)'
    BY <1>3, <1>6, <2>2 DEF Buried
  <2> QED
    BY <2>1, <2>3
<1>11. FlowOK(g)'
  <2>1. SUFFICES ASSUME Works(g) PROVE PoolStatus(g)' /\ PoolGood(g)'
    BY <1>1 DEF FlowOK, ShapeAssumption
  <2>2. ~Ended(g)
    BY <1>1, <2>1 DEF Works, Trails
  <2>3. PoolStatus(g)'
    BY <1>1, <1>4, <2>2, PoolTaskStatus DEF PoolStatus, Serves
  <2>4. PoolGood(g)'
    BY <1>0, <1>4, PoolTaskGood
  <2> QED
    BY <2>3, <2>4
<1>12. \A p \in Under(l) : Calm(p)' /\ GoodPool(p)' /\ Buried(p)'
  BY <1>9, <1>10
<1>13. LbOK(l)'
  BY <1>1, <1>2, <1>5, <1>8, <1>11, <1>12, LbStep
<1> QED
  BY <1>13

-----------------------------------------------------------------------------
(* A task of a flow on a load balancer: the flow stays at its part, or     *)
(* goes on to the next one.                                                *)
Within(f, g) ==
    /\ g.cur = f.cur /\ g.rest = f.rest /\ g.pc = f.pc + 1
    /\ f.cur # f.on => f.pc # Len(Tasks(f))
Onward(f, g) ==
    /\ f.cur \in Under(f.on) \ f.rest /\ f.pc = Len(Tasks(f))
    /\ \A p \in Under(f.on) : p \in g.rest \cup {g.cur} <=> p \in f.rest
    /\ \A p \in Under(f.on) : p \in g.rest => p \in f.rest
    /\ g.pc \in {1, 4} /\ (g.pc = 4 => f.op = "create_lb" /\ g.cur # g.on)

LEMMA LbTask ==
  ASSUME ShapeAssumption, Inv, NEW u \in Slots, NEW do, FlowEffect(u, do),
         NEW f \in Flows, f = flow[u], NEW g \in Flows, g = flow'[u], f.on \in LBs
  PROVE  /\ Shape(f) /\ Shape(g) /\ Doing(f, do) /\ f.step = "run" /\ g.step = "run"
         /\ Works(f) /\ Works(g) /\ Target(u) = f.cur /\ f.on \notin Pools /\ f.op \in LbOps
         /\ g.op = f.op /\ g.on = f.on /\ g.done = Done(f)
         /\ f.pc \in Nat /\ f.pc >= 1 /\ g.pc \in Nat
         /\ f.rest \subseteq Under(f.on)
         /\ \/ f.cur = f.on /\ f.rest = {}
            \/ f.cur \in Under(f.on) \ f.rest
         /\ LbAt(u) = f.on /\ LbOfFlow(f) = f.on /\ LbOfFlow(g) = f.on
         /\ Within(f, g) \/ Onward(f, g)
<1>1. Shape(f) /\ Doing(f, do) /\ f.step = "run" /\ ~Ended(f)
  BY Stage DEF FlowEffect
<1>2. Walks(f, g)
  BY DEF FlowEffect
<1>3. f.on \notin Pools
  BY DEF ShapeAssumption
<1>4. LbShape(f)
  BY <1>1, <1>3 DEF Shape, PoolShape
<1>5. /\ Shape(g) /\ g.op = f.op /\ g.on = f.on /\ g.step = "run" /\ g.done = Done(f)
  BY <1>1, <1>2 DEF Walks
<1>6. LbShape(g)
  BY <1>3, <1>5 DEF Shape, PoolShape
<1>7. LbAt(u) = f.on /\ LbOfFlow(f) = f.on /\ LbOfFlow(g) = f.on
  BY <1>5 DEF LbAt, LbOfFlow
<1>8. Works(f) /\ Works(g) /\ Target(u) = f.cur
  BY <1>1, <1>3, <1>5 DEF Works, Trails, Target
<1>9. f.pc \in Nat /\ g.pc \in Nat /\ f.pc >= 1
  BY <1>1 DEF Flows, Shape
<1>10. f.on \notin Under(f.on)
  BY <1>3 DEF Under
<1>11. CASE g.cur = f.cur /\ g.rest = f.rest /\ g.pc = f.pc + 1
  <2>1. ASSUME f.cur # f.on PROVE f.pc # Len(Tasks(f))
    <3> DEFINE n == Len(Tasks(f))
    <3>1. Tasks(g) = Tasks(f) /\ n \in Nat
      BY <1>1, <1>5, <1>11, Lengths DEF Tasks
    <3>2. ~Ended(g)
      BY <1>5, <1>6, <1>11, <2>1 DEF LbShape
    <3>3. ~(f.pc + 1 > n)
      BY <1>11, <3>1, <3>2 DEF Ended
    <3> HIDE DEF n
    <3>4. f.pc # n
      BY <1>9, <3>1, <3>3
    <3> QED
      BY <3>4 DEF n
  <2>2. Within(f, g)
    BY <1>11, <2>1 DEF Within
  <2> QED
    BY <1>1, <1>3, <1>4, <1>5, <1>7, <1>8, <1>9, <2>2 DEF LbShape
<1>12. CASE f.cur # f.on /\ f.pc = Len(Tasks(f)) /\ f.rest = {} /\ g.rest = {} /\ g.cur = f.on /\ g.pc = 1
  <2>1. Onward(f, g)
    BY <1>4, <1>10, <1>12 DEF Onward, LbShape
  <2> QED
    BY <1>1, <1>3, <1>4, <1>5, <1>7, <1>8, <1>9, <2>1 DEF LbShape
<1>13. CASE /\ f.cur # f.on /\ f.pc = Len(Tasks(f)) /\ g.cur \in f.rest
            /\ g.rest = f.rest \ {g.cur} /\ g.pc = FirstTask(f, g.cur)
  <2>1. g.cur # g.on /\ f.rest \subseteq Under(f.on)
    BY <1>4, <1>5, <1>10, <1>13 DEF LbShape
  <2>2. g.pc \in {1, 4} /\ (g.pc = 4 => f.op = "create_lb")
    BY <1>13 DEF FirstTask
  <2>3. Onward(f, g)
    BY <1>4, <1>13, <2>1, <2>2 DEF Onward, LbShape
  <2> QED
    BY <1>1, <1>3, <1>4, <1>5, <1>7, <1>8, <1>9, <2>3 DEF LbShape
<1> QED
  BY <1>2, <1>11, <1>12, <1>13 DEF Walks

(* The creation of a load balancer does a task.                            *)
LEMMA CreateLbTask ==
  ASSUME ShapeAssumption, Inv, NEW u \in Slots, NEW do, FlowEffect(u, do), Serves(u, do),
         NEW f \in Flows, f = flow[u], NEW g \in Flows, g = flow'[u], f.on \in LBs,
         f.op = "create_lb", NEW p \in Under(f.on), LbStatus(f, p), LbGood(f, p)
  PROVE  LbStatus(g, p)' /\ LbGood(g, p)'
<1>1. /\ Shape(f) /\ Doing(f, do) /\ f.step = "run" /\ g.step = "run" /\ Target(u) = f.cur
      /\ g.op = f.op /\ g.on = f.on /\ g.done = Done(f) /\ f.pc \in Nat
      /\ f.rest \subseteq Under(f.on)
      /\ \/ f.cur = f.on /\ f.rest = {}
         \/ f.cur \in Under(f.on) \ f.rest
      /\ Within(f, g) \/ Onward(f, g)
  BY LbTask
<1>2. pool \in [Pools -> Statuses] /\ p \in Pools /\ p # f.on
  BY DEF Inv, TypeOK, Under, ShapeAssumption
<1>3. /\ p \in f.rest \cup {f.cur} => pool[p] = "PENDING"
      /\ p \notin f.rest \cup {f.cur} => pool[p] = "ACTIVE" /\ Task("pool_active", p) \in f.done
  BY <1>1 DEF LbStatus
<1>4. p \notin f.rest /\ (p = f.cur => f.pc >= 6) => p \in groups
  BY <1>1 DEF LbGood
<1>5. /\ f.cur # f.on =>
           /\ Len(Tasks(f)) = 7 /\ f.pc \in 1 .. 7
           /\ do = "group" <=> f.pc = 5
           /\ do = "pool_active" <=> f.pc = 7
      /\ do \notin {"deleting", "no_row", "no_group"} /\ (f.cur = f.on => do # "pool_active")
  <2>1. f.cur # f.on =>
           /\ Len(Tasks(f)) = 7 /\ f.pc \in 1 .. 7
           /\ do = "group" <=> f.pc = 5
           /\ do = "pool_active" <=> f.pc = 7
           /\ do \notin {"deleting", "no_row", "no_group"}
    BY <1>1, LbPlace
  <2>2. f.cur = f.on => f.pc \in 1 .. 3 /\ (do = "listener" <=> f.pc = 1) /\ (do = "active" <=> f.pc >= 2)
    BY <1>1, LbPlace
  <2>3. f.cur = f.on => do \in {"listener", "active"}
    BY <2>2
  <2> QED
    BY <2>1, <2>3
<1>6. groups \subseteq groups' /\ (do = "group" => f.cur \in groups')
  BY <1>1, <1>5 DEF Serves, ServiceEffect
<1>7. f.done \subseteq g.done /\ (do = "pool_active" => Task("pool_active", f.cur) \in g.done)
  <2>1. f.cur \in Objects
    BY <1>1 DEF Objects, Under
  <2> QED
    BY <1>1, <2>1, DoneIs DEF Kept
<1>8. CASE Within(f, g)
  <2>1. g.cur = f.cur /\ g.rest = f.rest /\ g.pc = f.pc + 1 /\ do # "pool_active"
    BY <1>5, <1>8 DEF Within
  <2>2. pool' = pool
    BY <1>5, <2>1 DEF Serves, RowEffect
  <2>3. LbStatus(g, p)'
    BY <1>1, <1>3, <1>7, <2>1, <2>2 DEF LbStatus
  <2>4. SUFFICES ASSUME p \notin f.rest, p = f.cur => g.pc >= 6 PROVE p \in groups'
    BY <2>1, <2>3 DEF LbGood
  <2>5. CASE p = f.cur
    <3>1. f.pc = 5 \/ f.pc >= 6
      BY <1>1, <2>1, <2>4, <2>5
    <3> QED
      BY <1>2, <1>4, <1>5, <1>6, <2>4, <2>5, <3>1
  <2> QED
    BY <1>4, <1>6, <2>4, <2>5
<1>9. CASE Onward(f, g)
  <2>1. /\ f.cur # f.on /\ do = "pool_active" /\ f.pc = 7 /\ f.cur \notin f.rest
        /\ p \in g.rest \cup {g.cur} <=> p \in f.rest
        /\ p \in g.rest => p \in f.rest
        /\ g.pc \in {1, 4}
    <3>1. f.cur # f.on
      BY <1>2, <1>9 DEF Onward, Under, ShapeAssumption
    <3> QED
      BY <1>5, <1>9, <3>1 DEF Onward
  <2>2. pool' = Set(pool, {f.cur}, "ACTIVE")
    BY <1>1, <2>1 DEF Serves, RowEffect
  <2>3. p # f.cur => pool'[p] = pool[p]
    BY <1>2, <2>2 DEF Set
  <2>4. p = f.cur => pool'[p] = "ACTIVE"
    BY <1>2, <1>3, <2>2 DEF Set, HasRow
  <2>5. /\ p \in g.rest \cup {g.cur} => pool'[p] = "PENDING"
        /\ p \notin g.rest \cup {g.cur} => pool'[p] = "ACTIVE" /\ Task("pool_active", p) \in g.done
    BY <1>3, <1>7, <2>1, <2>3, <2>4
  <2>6. LbStatus(g, p)'
    BY <1>1, <2>5 DEF LbStatus
  <2>7. SUFFICES ASSUME p \notin g.rest, p = g.cur => g.pc >= 6 PROVE p \in groups'
    BY <2>6 DEF LbGood
  <2>8. p # g.cur
    BY <2>1, <2>7
  <2> QED
    BY <1>4, <1>6, <2>1, <2>7, <2>8
<1> QED
  BY <1>1, <1>8, <1>9

(* Its pools are served when the listener is there.                        *)
LEMMA CreateLbPool ==
  ASSUME ShapeAssumption, Inv, NEW u \in Slots, NEW do, FlowEffect(u, do), Serves(u, do),
         NEW f \in Flows, f = flow[u], NEW g \in Flows, g = flow'[u], f.on \in LBs,
         f.op = "create_lb", NEW p \in Under(f.on), LbStatus(f, p), LbGood(f, p),
         Settled(f.on), Exclusive(f.on), GoodPool(p)
  PROVE  GoodPool(p)'
<1>1. /\ Shape(f) /\ Doing(f, do) /\ f.step = "run" /\ g.step = "run" /\ Target(u) = f.cur
      /\ Works(f) /\ g.op = f.op /\ g.on = f.on /\ f.pc \in Nat /\ LbOfFlow(f) = f.on
      /\ f.cur = f.on => f.rest = {}
      /\ Within(f, g) \/ Onward(f, g)
  BY LbTask DEF Under
<1>2. pool \in [Pools -> Statuses] /\ p \in Pools /\ p # f.on /\ LbOf[p] = f.on /\ f.on \notin Pools
  BY DEF Inv, TypeOK, Under, ShapeAssumption
<1>3. FlowInv /\ Only(u)
  BY DEF Inv, FlowEffect
<1>4. \A t \in Slots \ {u} : flow[t].on \in {p, f.on} => Trails(flow[t])
  BY <1>1, <1>3, Workers
<1>5. /\ \A t \in Slots \ {u} : ~Unserved(flow[t], p)
      /\ \A t \in Slots : Works(flow'[t]) /\ flow'[t].on = p => t = u
  BY <1>3, <1>4, OthersAway
<1>6. \A t \in Slots : ~(Works(flow'[t]) /\ flow'[t].on = p /\ flow'[t].op \in HmOps)
  BY <1>1, <1>2, <1>5
<1>7. ASSUME pool'[p] = "ACTIVE", ~Unserved(g, p), <<"pool", p>> \notin revived PROVE Good(p)'
  <2>1. g.cur = g.on /\ g.pc >= 2
    <3>1. g.cur = g.on /\ ~(g.pc < 2)
      BY <1>1, <1>2, <1>7 DEF Unserved
    <3> QED
      BY <1>1, <3>1 DEF Flows
  <2>2. ~Onward(f, g)
    <3>1. g.cur = g.on /\ g.pc # 1
      BY <2>1
    <3> QED
      BY <3>1 DEF Onward
  <2>3. f.cur = f.on /\ g.pc = f.pc + 1 /\ f.rest = {} /\ f.pc >= 1
    <3>1. f.cur = f.on /\ g.pc = f.pc + 1
      BY <1>1, <2>1, <2>2 DEF Within
    <3> QED
      BY <1>1, <2>1, <3>1
  <2>4. f.pc \in 1 .. 3 /\ (do = "listener" <=> f.pc = 1) /\ (do = "active" <=> f.pc >= 2)
    BY <1>1, <2>3, LbPlace
  <2>5. pool'[p] = pool[p] /\ HasRow(pool[p]) /\ sp' = sp
    <3>1. do \in {"listener", "active"}
      BY <2>4
    <3>2. pool' = pool /\ sp' = sp
      BY <3>1 DEF Serves, RowEffect, ServiceEffect
    <3> QED
      BY <1>7, <3>2 DEF HasRow
  <2>6. CASE f.pc = 1
    <3>1. do = "listener" /\ groups' = groups
      BY <2>4, <2>6 DEF Serves, ServiceEffect
    <3>2. p \in groups
      BY <1>1, <1>2, <2>3 DEF LbGood
    <3>3. p \in Default => front'[p].group /\ front'[p].pers = (p \in sp) /\ front'[p].proxy = (p \in Proxied)
      BY <1>1, <1>2, <2>3, <2>5, <3>1 DEF Serves, ServiceEffect
    <3> QED
      BY <2>5, <3>1, <3>2, <3>3 DEF Good, Bind
  <2>7. CASE f.pc # 1
    <3>1. do = "active" /\ ~(f.pc < 2)
      BY <2>4, <2>7
    <3>2. ~Unserved(f, p)
      BY <2>3, <3>1 DEF Unserved
    <3>3. \A t \in Slots : ~Unserved(flow[t], p)
      BY <1>5, <3>2
    <3>4. Good(p)
      BY <1>7, <2>5, <3>3 DEF GoodPool
    <3>5. SameService(p)
      BY <1>1, <1>2, <2>3, <3>1 DEF Serves, ServiceEffect, Elsewhere
    <3> QED
      BY <1>7, <2>5, <3>4, <3>5, GoodStays DEF Lives
  <2> QED
    BY <2>6, <2>7
<1>8. revived' = revived
  BY DEF FlowEffect
<1>9. (\A t \in Slots : ~Unserved(flow'[t], p)) => ~Unserved(g, p)
  OBVIOUS
<1> QED
  BY <1>6, <1>7, <1>8, <1>9 DEF GoodPool

LEMMA CreateLbRun ==
  ASSUME ShapeAssumption, Inv, NEW u \in Slots, NEW do, FlowEffect(u, do), Serves(u, do),
         NEW f \in Flows, f = flow[u], NEW g \in Flows, g = flow'[u], f.on \in LBs,
         f.op = "create_lb", Recorded(f), LbOK(f.on)
  PROVE  LbOK(f.on)'
<1> DEFINE l == f.on
<1>0. SUFFICES ASSUME Settled(l) PROVE LbOK(l)'
  <2>1. Settled(l)' <=> Settled(l)
    BY DEF FlowEffect, Settled
  <2> QED
    BY <2>1 DEF LbOK
<1>1. /\ Shape(f) /\ Shape(g) /\ Doing(f, do) /\ f.step = "run" /\ g.step = "run"
      /\ Works(f) /\ Works(g) /\ Target(u) = f.cur /\ g.on = l /\ g.op = "create_lb" /\ l \notin Pools
      /\ f.pc \in Nat /\ g.pc \in Nat /\ LbAt(u) = l /\ LbOfFlow(f) = l /\ LbOfFlow(g) = l
      /\ f.cur = l \/ f.cur \in Under(l)
      /\ Within(f, g) \/ Onward(f, g)
  BY LbTask
<1>2. FlowInv /\ FlowInv' /\ Only(u) /\ pool \in [Pools -> Statuses] /\ lb \in [LBs -> Statuses]
  BY DEF FlowEffect, Inv, TypeOK
<1>3. /\ Exclusive(l) /\ \A p \in Under(l) : Calm(p) /\ GoodPool(p) /\ Buried(p)
      /\ u \in On(l) /\ FlowOK(f)
  <2>1. u \in On(l)
    BY <1>1 DEF On
  <2> QED
    BY <1>0, <2>1 DEF LbOK
<1>4. \A p \in Under(l) : LbStatus(f, p) /\ LbGood(f, p)
  BY <1>1, <1>3 DEF FlowOK
<1>5. /\ On(l) = {u} /\ \A t \in On(l) \ {u} : Trails(flow[t])
      /\ lb[l] \notin {"ERROR", "NEW"} /\ (lb[l] = "ACTIVE" => Closing(f))
  BY <1>1, <1>2, <1>3, Workers
<1>6. On(l)' = {u}
  BY <1>1, <1>2, <1>5, OnIs DEF Only
<1>7. /\ do = "active" => g.cur = g.on /\ g.pc >= 3
      /\ Closing(f) => do = "active"
      /\ do \notin {"no_lb", "deleting", "no_row"}
  <2>1. f.cur = l => f.pc \in 1 .. 3 /\ (do = "active" <=> f.pc >= 2) /\ (do = "listener" <=> f.pc = 1)
    BY <1>1, LbPlace
  <2>2. f.cur # l => do \notin {"active", "no_lb", "deleting", "no_row"}
    BY <1>1, LbPlace
  <2>3. f.cur = l => do \in {"active", "listener"}
    BY <2>1
  <2>4. ASSUME do = "active" PROVE g.cur = g.on /\ g.pc >= 3
    <3>1. f.cur = l /\ f.pc >= 2 /\ f.pc \in 1 .. 3
      BY <2>1, <2>2, <2>4
    <3>2. ~Onward(f, g)
      BY <1>1, <3>1 DEF Onward, Under
    <3>3. g.cur = f.cur /\ g.pc = f.pc + 1
      BY <1>1, <3>2 DEF Within
    <3> QED
      BY <1>1, <3>1, <3>3
  <2>5. Closing(f) => do = "active"
    BY <1>1, <2>1 DEF Closing
  <2> QED
    BY <2>2, <2>3, <2>4, <2>5
<1>8. /\ lb'[l] \notin {"ERROR", "NEW"}
      /\ lb'[l] = "ACTIVE" => do = "active"
      /\ lb'[l] = "GONE" => lb[l] = "GONE"
  <2>1. CASE do # "active"
    BY <1>1, <1>5, <1>7, <2>1 DEF Serves, RowEffect
  <2>2. CASE do = "active"
    <3>1. lb' = Set(lb, {l}, "ACTIVE")
      BY <1>1, <2>2 DEF Serves, RowEffect
    <3> QED
      BY <1>1, <1>2, <1>5, <2>2, <3>1 DEF Set
  <2> QED
    BY <2>1, <2>2
<1>9. do = "active" => Closing(g)
  BY <1>1, <1>7 DEF Closing
<1>10. Exclusive(l)'
  BY <1>2, <1>5, <1>6, <1>8, <1>9, ExclusiveStep
<1>11. ASSUME NEW p \in Under(l) PROVE Calm(p)' /\ GoodPool(p)' /\ Buried(p)'
  <2>1. p \in Pools /\ LbOf[p] = l
    BY <1>11 DEF Under
  <2>2. GoodPool(p)'
    BY <1>0, <1>1, <1>3, <1>4, <1>11, CreateLbPool
  <2>3. Calm(p)'
    BY <1>1, <2>1 DEF Calm, Free
  <2>4. ~HasRow(pool[p]) => ~HasRow(pool'[p])
    BY <1>2, <1>7, <2>1 DEF Serves, RowEffect, Set
  <2>5. Buried(p)'
    BY <1>3, <1>8, <1>11, <2>1, <2>4 DEF Buried
  <2> QED
    BY <2>2, <2>3, <2>5
<1>12. FlowOK(g)'
  <2>1. \A p \in Under(l) : LbStatus(g, p)' /\ LbGood(g, p)'
    BY <1>4, CreateLbTask
  <2> QED
    BY <1>1, <2>1 DEF FlowOK
<1>13. LbOK(l)'
  BY <1>1, <1>2, <1>5, <1>10, <1>11, <1>12, LbStep
<1> QED
  BY <1>13

(* The deletion of a load balancer does a task.                            *)
LEMMA DeleteLbTaskStatus ==
  ASSUME ShapeAssumption, Inv, NEW u \in Slots, NEW do, FlowEffect(u, do), Serves(u, do),
         NEW f \in Flows, f = flow[u], NEW g \in Flows, g = flow'[u], f.on \in LBs,
         f.op = "delete_lb", NEW p \in Under(f.on), LbStatus(f, p)
  PROVE  /\ LbStatus(g, p)'
         /\ pool'[p] = "ACTIVE" => pool[p] = "ACTIVE" /\ p # Target(u) /\ f.cur # f.on
         /\ ~HasRow(pool[p]) => ~HasRow(pool'[p])
<1>1. /\ Shape(f) /\ Doing(f, do) /\ f.step = "run" /\ g.step = "run" /\ Target(u) = f.cur
      /\ g.op = f.op /\ g.on = f.on /\ f.pc \in Nat /\ f.pc >= 1
      /\ f.cur = f.on => f.rest = {}
      /\ Within(f, g) \/ Onward(f, g)
  BY LbTask DEF Under
<1>2. pool \in [Pools -> Statuses] /\ p \in Pools /\ p # f.on
  BY DEF Inv, TypeOK, Under, ShapeAssumption
<1>3. /\ p \notin f.rest \cup {f.cur} => ~HasRow(pool[p])
      /\ p = f.cur /\ f.pc >= 2 => pool[p] # "ACTIVE"
  BY <1>1 DEF LbStatus
<1>4. /\ f.cur # f.on =>
           /\ Len(Tasks(f)) = 8
           /\ do = "deleting" <=> f.pc = 1
           /\ do = "no_row" <=> f.pc = 8
      /\ do # "pool_active" /\ (f.cur = f.on => do = "no_lb")
  BY <1>1, LbPlace
<1>5. /\ do \notin {"deleting", "no_row"} => pool' = pool
      /\ do = "deleting" => pool' = Set(pool, {f.cur}, "DELETING")
      /\ do = "no_row" => pool' = Set(pool, {f.cur}, "GONE")
  BY <1>1, <1>4 DEF Serves, RowEffect
<1>6. /\ p # f.cur => pool'[p] = pool[p]
      /\ pool'[p] = "ACTIVE" => pool[p] = "ACTIVE"
      /\ do \in {"deleting", "no_row"} => pool'[f.cur] # "ACTIVE" \/ f.cur \notin Pools
      /\ do = "no_row" /\ f.cur \in Pools => ~HasRow(pool'[f.cur])
      /\ ~HasRow(pool[p]) => ~HasRow(pool'[p])
  BY <1>2, <1>5 DEF Set, HasRow
<1>7. pool'[p] = "ACTIVE" => p # f.cur
  <2>1. CASE p = f.cur /\ f.pc = 1
    BY <1>2, <1>4, <1>6, <2>1
  <2>2. CASE p = f.cur /\ f.pc >= 2
    BY <1>3, <1>6, <2>2
  <2> QED
    BY <1>1, <2>1, <2>2
<1>8. pool'[p] = "ACTIVE" => p \in f.rest /\ f.cur # f.on
  <2>1. pool'[p] = "ACTIVE" => p \in f.rest
    BY <1>3, <1>6, <1>7 DEF HasRow
  <2> QED
    BY <1>1, <2>1
<1>9. LbStatus(g, p)'
  <2>1. CASE Within(f, g)
    <3>1. g.cur = f.cur /\ g.rest = f.rest
      BY <2>1 DEF Within
    <3>2. p \notin g.rest \cup {g.cur} => ~HasRow(pool'[p])
      BY <1>3, <1>6, <3>1
    <3>3. p = g.cur => pool'[p] # "ACTIVE"
      BY <1>7, <3>1
    <3> QED
      BY <1>1, <3>2, <3>3 DEF LbStatus
  <2>2. CASE Onward(f, g)
    <3>1. f.cur # f.on /\ do = "no_row" /\ f.cur \in Pools
      BY <1>2, <1>4, <2>2 DEF Onward, Under, ShapeAssumption
    <3>2. p \notin g.rest \cup {g.cur} => p \notin f.rest
      BY <2>2 DEF Onward
    <3>3. p \notin g.rest \cup {g.cur} => ~HasRow(pool'[p])
      BY <1>3, <1>6, <3>1, <3>2
    <3>4. ~(g.pc >= 2)
      BY <1>1, <2>2 DEF Onward
    <3> QED
      BY <1>1, <3>3, <3>4 DEF LbStatus
  <2> QED
    BY <1>1, <2>1, <2>2
<1> QED
  BY <1>1, <1>6, <1>7, <1>8, <1>9

LEMMA DeleteLbRun ==
  ASSUME ShapeAssumption, Inv, NEW u \in Slots, NEW do, FlowEffect(u, do), Serves(u, do),
         NEW f \in Flows, f = flow[u], NEW g \in Flows, g = flow'[u], f.on \in LBs,
         f.op = "delete_lb", LbOK(f.on)
  PROVE  LbOK(f.on)'
<1> DEFINE l == f.on
<1>0. SUFFICES ASSUME Settled(l) PROVE LbOK(l)'
  <2>1. Settled(l)' <=> Settled(l)
    BY DEF FlowEffect, Settled
  <2> QED
    BY <2>1 DEF LbOK
<1>1. /\ Shape(f) /\ Shape(g) /\ Doing(f, do) /\ f.step = "run" /\ g.step = "run"
      /\ Works(f) /\ Works(g) /\ Target(u) = f.cur /\ g.on = l /\ g.op = "delete_lb" /\ l \notin Pools
      /\ f.cur = l => f.rest = {}
      /\ f.rest \subseteq Under(l) /\ (f.cur = l \/ f.cur \in Under(l))
      /\ LbAt(u) = l /\ LbOfFlow(f) = l /\ LbOfFlow(g) = l
  BY LbTask DEF Under
<1>2. FlowInv /\ FlowInv' /\ Only(u) /\ pool \in [Pools -> Statuses] /\ lb \in [LBs -> Statuses]
  BY DEF FlowEffect, Inv, TypeOK
<1>3. /\ Exclusive(l) /\ \A p \in Under(l) : Calm(p) /\ GoodPool(p) /\ Buried(p)
      /\ u \in On(l) /\ FlowOK(f)
  <2>1. u \in On(l)
    BY <1>1 DEF On
  <2> QED
    BY <1>0, <2>1 DEF LbOK
<1>4. \A p \in Under(l) : LbStatus(f, p) /\ LbGood(f, p)
  BY <1>1, <1>3 DEF FlowOK
<1>5. /\ \A t \in On(l) \ {u} : Trails(flow[t])
      /\ \A t \in Slots \ {u}, p \in Under(l) : flow[t].on \in {p, l} => Trails(flow[t])
      /\ lb[l] \notin {"ERROR", "NEW", "ACTIVE"}
  BY <1>1, <1>2, <1>3, Workers DEF Closing
<1>6. /\ f.cur = l => do = "no_lb"
      /\ f.cur # l => do \notin {"active", "no_lb", "listener"}
  BY <1>1, LbPlace
<1>7. /\ lb'[l] \notin {"ERROR", "NEW", "ACTIVE"}
      /\ lb'[l] = "GONE" => lb[l] = "GONE" \/ do = "no_lb"
  <2>1. CASE do # "no_lb"
    BY <1>5, <1>6, <2>1 DEF Serves, RowEffect
  <2>2. CASE do = "no_lb"
    <3>1. lb' = Set(lb, {l}, "GONE")
      BY <1>1, <1>6, <2>2 DEF Serves, RowEffect
    <3> QED
      BY <1>1, <1>2, <1>5, <2>2, <3>1 DEF Set
  <2> QED
    BY <2>1, <2>2
<1>8. Exclusive(l)'
  BY <1>1, <1>2, <1>5, <1>7, ExclusiveStep
<1>9. ASSUME NEW p \in Under(l) PROVE Calm(p)' /\ GoodPool(p)' /\ Buried(p)'
  <2>1. p \in Pools /\ LbOf[p] = l
    BY <1>9 DEF Under
  <2>2. /\ pool'[p] = "ACTIVE" => pool[p] = "ACTIVE" /\ p # Target(u) /\ f.cur # l
        /\ ~HasRow(pool[p]) => ~HasRow(pool'[p])
    BY <1>4, <1>9, DeleteLbTaskStatus
  <2>3. Calm(p)'
    BY <1>1, <2>1 DEF Calm, Free
  <2>4. /\ \A t \in Slots \ {u} : ~Unserved(flow[t], p)
        /\ \A t \in Slots : Works(flow'[t]) /\ flow'[t].on = p => t = u
    BY <1>2, <1>5, <1>9, OthersAway
  <2>5. \A t \in Slots : ~Unserved(flow[t], p)
    BY <1>1, <2>4 DEF Unserved
  <2>6. \A t \in Slots : ~(Works(flow'[t]) /\ flow'[t].on = p /\ flow'[t].op \in HmOps)
    BY <1>1, <2>1, <2>4
  <2>7. ASSUME pool'[p] = "ACTIVE", <<"pool", p>> \notin revived PROVE Good(p)'
    <3>1. Good(p)
      BY <1>3, <1>9, <2>2, <2>5, <2>7 DEF GoodPool
    <3>2. Untouched(p)
      BY <1>0, <1>6, <2>1, <2>2, <2>7, RunElsewhere
    <3> QED
      BY <2>2, <2>7, <3>1, <3>2, GoodStays DEF Untouched, Lives
  <2>8. GoodPool(p)'
    BY <2>6, <2>7 DEF GoodPool, FlowEffect
  <2>9. Buried(p)'
    <3>1. do = "no_lb" => ~HasRow(pool[p])
      <4>1. do = "no_lb" => p \notin f.rest \cup {f.cur}
        BY <1>1, <1>6, <2>1
      <4> QED
        BY <1>1, <1>4, <1>9, <4>1 DEF LbStatus
    <3> QED
      BY <1>3, <1>7, <1>9, <2>1, <2>2, <3>1 DEF Buried
  <2> QED
    BY <2>3, <2>8, <2>9
<1>10. FlowOK(g)'
  <2>1. \A p \in Under(l) : LbStatus(g, p)' /\ LbGood(g, p)'
    BY <1>1, <1>4, DeleteLbTaskStatus DEF LbGood
  <2> QED
    BY <1>1, <2>1 DEF FlowOK
<1>11. LbOK(l)'
  BY <1>1, <1>2, <1>5, <1>8, <1>9, <1>10, LbStep
<1> QED
  BY <1>11

(* A task leaves the other load balancers as they are.                     *)
LEMMA RunOthers ==
  ASSUME ShapeAssumption, Inv, NEW u \in Slots, NEW do, FlowEffect(u, do), Serves(u, do),
         NEW l \in LBs, l # LbAt(u), LbOK(l)
  PROVE  LbOK(l)'
<1>1. FlowInv /\ FlowInv' /\ Only(u) /\ lb \in [LBs -> Statuses] /\ overlapped' = overlapped /\ revived' = revived
  BY DEF FlowEffect, Inv, TypeOK
<1>2. /\ flow[u].step # "idle" /\ LbOfFlow(flow[u]) # l /\ LbOfFlow(flow'[u]) # l
      /\ Target(u) # l /\ \A p \in Under(l) : p # Target(u) /\ LbOf[p] # Target(u)
  <2>1. /\ flow[u] \in Flows /\ Shape(flow[u]) /\ flow[u].step = "run"
        /\ Walks(flow[u], flow'[u])
    BY Stage DEF FlowEffect
  <2>2. flow'[u].on = flow[u].on
    BY <2>1 DEF Walks
  <2>3. LbOfFlow(flow[u]) = LbAt(u) /\ LbOfFlow(flow'[u]) = LbAt(u)
    BY <2>2 DEF LbOfFlow, LbAt
  <2>4. Target(u) = LbAt(u) \/ Target(u) \in Under(LbAt(u))
    BY <2>1 DEF Target, LbAt, Shape, PoolShape, LbShape, ShapeAssumption, Under
  <2>5. LbAt(u) \in LBs
    BY <2>1 DEF LbAt, Shape, PoolShape, LbShape, ShapeAssumption
  <2> QED
    BY <2>1, <2>3, <2>4, <2>5 DEF Under, ShapeAssumption
<1>3. lb'[l] = lb[l]
  BY <1>1, <1>2 DEF Serves, RowEffect, Set
<1>4. Settled(l) => \A p \in Under(l) : Untouched(p)
  <2>1. SUFFICES ASSUME Settled(l), NEW p \in Under(l) PROVE Untouched(p)
    OBVIOUS
  <2>2. p \in Pools /\ LbOf[p] = l /\ p # Target(u) /\ LbOf[p] # Target(u)
    BY <1>2, <2>1 DEF Under
  <2> QED
    BY <2>1, <2>2, RunElsewhere
<1>5. Settled(l)' => Settled(l)
  BY <1>1 DEF Settled
<1> QED
  BY <1>1, <1>2, <1>3, <1>4, <1>5, LbFrame

LEMMA RunLbs ==
  ASSUME ShapeAssumption, Inv, NEW u \in Slots, NEW do, FlowEffect(u, do), Serves(u, do),
         Recorded(flow[u]), \A l \in LBs : LbOK(l)
  PROVE  \A l \in LBs : LbOK(l)'
<1>1. PICK f \in Flows : f = flow[u]
  BY Stage DEF FlowEffect
<1>2. PICK g \in Flows : g = flow'[u]
  BY DEF FlowEffect, Walks
<1>3. f.on \in Pools \/ (f.on \in LBs /\ f.op \in LbOps)
  BY <1>1, Stage DEF FlowEffect, Shape, PoolShape, LbShape
<1>4. ASSUME NEW l \in LBs, l = LbAt(u) PROVE LbOK(l)'
  <2>1. CASE f.on \in Pools
    <3>1. l = LbOf[f.on]
      BY <1>1, <1>4, <2>1 DEF LbAt, ShapeAssumption
    <3> QED
      BY <1>1, <1>2, <2>1, <3>1, PoolRun
  <2>2. CASE f.on \in LBs /\ f.op \in LbOps
    <3>1. l = f.on
      BY <1>1, <1>4, <2>2 DEF LbAt
    <3>2. CASE f.op = "create_lb"
      BY <1>1, <1>2, <2>2, <3>1, <3>2, CreateLbRun
    <3>3. CASE f.op = "delete_lb"
      BY <1>1, <1>2, <2>2, <3>1, <3>3, DeleteLbRun
    <3> QED
      BY <2>2, <3>2, <3>3 DEF LbOps
  <2> QED
    BY <1>3, <2>1, <2>2
<1> QED
  BY <1>4, RunOthers

-----------------------------------------------------------------------------
(* Pools that are new, and what the flows have recorded.                   *)
LEMMA SeenFrame ==
  ASSUME ShapeAssumption, FlowInv, NEW s \in Slots, Seen(s),
         flow'[s].last => flow[s].last /\ flow'[s].seen = flow[s].seen,
         overlapped \subseteq overlapped', halfway \subseteq halfway',
         \A q \in Pools : Settled(LbOf[q])' /\ pool[q] \in {"DELETING", "GONE"} =>
                            pool'[q] \in {"DELETING", "GONE"} \/ q \in halfway'
  PROVE  Seen(s)'
<1>1. SUFFICES ASSUME flow'[s].last, NEW q \in flow'[s].seen, Settled(LbOf[q])'
               PROVE  pool'[q] \in {"DELETING", "GONE"} \/ q \in halfway'
  BY DEF Seen
<1>2. q \in flow[s].seen /\ q \in Pools
  BY <1>1 DEF FlowInv, Flows, ShapeAssumption
<1>3. Settled(LbOf[q])
  BY <1>1 DEF Settled
<1>4. pool[q] \in {"DELETING", "GONE"} \/ q \in halfway
  BY <1>1, <1>2, <1>3 DEF Seen
<1> QED
  BY <1>1, <1>2, <1>4

LEMMA RunFades ==
  ASSUME ShapeAssumption, Inv, NEW u \in Slots, NEW do, FlowEffect(u, do), Serves(u, do),
         NEW q \in Pools, LbOK(LbOf[q]), Settled(LbOf[q]), pool[q] \in {"DELETING", "GONE"}
  PROVE  pool'[q] \in {"DELETING", "GONE"}
<1>1. pool \in [Pools -> Statuses]
  BY DEF Inv, TypeOK
<1>2. CASE do # "pool_active"
  BY <1>1, <1>2 DEF Serves, RowEffect, Set
<1>3. CASE do = "pool_active"
  <2>1. pool' = Set(pool, {Target(u)}, "ACTIVE")
    BY <1>3 DEF Serves, RowEffect
  <2>2. q # Target(u) \/ pool[q] = "GONE" => pool'[q] = pool[q]
    BY <1>1, <2>1 DEF Set, HasRow
  <2>3. ASSUME q = Target(u) PROVE pool[q] # "DELETING"
    <3>1. PICK f \in Flows : f = flow[u]
      BY Stage DEF FlowEffect
    <3>2. PICK g \in Flows : g = flow'[u]
      BY DEF FlowEffect, Walks
    <3>3. f.on \in Pools \/ (f.on \in LBs /\ f.op \in LbOps)
      BY <3>1, Stage DEF FlowEffect, Shape, PoolShape, LbShape
    <3>4. CASE f.on \in Pools
      <4>1. q = f.on /\ u \in On(LbOf[q]) /\ Works(f) /\ f.op # "delete_pool" /\ f.step = "run"
        <5>1. q = f.on /\ LbAt(u) = LbOf[q] /\ Works(f) /\ f.op # "delete_pool" /\ f.step = "run"
          BY <1>3, <2>3, <3>1, <3>2, <3>4, PoolTask
        <5> QED
          BY <3>1, <5>1 DEF On
      <4>2. PoolStatus(f)
        BY <3>1, <3>4, <4>1 DEF LbOK, FlowOK
      <4> QED
        BY <4>1, <4>2 DEF PoolStatus, StatusAt
    <3>5. CASE f.on \in LBs /\ f.op \in LbOps
      <4>1. /\ q = f.cur /\ Works(f) /\ f.step = "run" /\ Shape(f) /\ Doing(f, do) /\ LbAt(u) = f.on
            /\ f.cur = f.on \/ f.cur \in Under(f.on)
        BY <2>3, <3>1, <3>2, <3>5, LbTask
      <4>2. q \in Under(f.on) /\ f.cur # f.on /\ f.on = LbOf[q] /\ u \in On(LbOf[q])
        BY <3>1, <3>5, <4>1 DEF Under, ShapeAssumption, On
      <4>3. f.op = "create_lb"
        BY <1>3, <3>5, <4>1, <4>2, LbPlace DEF LbOps
      <4>4. LbStatus(f, q)
        BY <3>1, <3>5, <4>1, <4>2 DEF LbOK, FlowOK
      <4> QED
        BY <4>1, <4>3, <4>4 DEF LbStatus
    <3> QED
      BY <3>3, <3>4, <3>5
  <2> QED
    BY <2>2, <2>3
<1> QED
  BY <1>2, <1>3

LEMMA RunFresh ==
  ASSUME ShapeAssumption, Inv, NEW u \in Slots, NEW do, FlowEffect(u, do), Serves(u, do),
         NEW p \in Pools, Fresh(p)
  PROVE  Fresh(p)'
<1>1. pool \in [Pools -> Statuses] /\ lb \in [LBs -> Statuses] /\ LbOf[p] \in LBs
  BY DEF Inv, TypeOK, ShapeAssumption
<1>2. pool'[p] = "NEW" <=> pool[p] = "NEW"
  BY <1>1 DEF Serves, RowEffect, Set, HasRow
<1>3. lb'[LbOf[p]] = "NEW" => lb[LbOf[p]] = "NEW"
  BY <1>1 DEF Serves, RowEffect, Set, HasRow
<1>4. \A s \in Slots : flow'[s].on = flow[s].on
  BY DEF FlowEffect, Walks, Only
<1>5. pool[p] = "NEW" => p \notin sp'
  <2>1. SUFFICES ASSUME pool[p] = "NEW" PROVE p \notin sp'
    OBVIOUS
  <2>2. p \notin sp /\ flow[u].on # p
    BY <2>1 DEF Fresh
  <2>3. CASE do # "pool_row"
    BY <2>2, <2>3 DEF Serves, ServiceEffect
  <2>4. CASE do = "pool_row"
    <3>1. flow[u].cur = flow[u].on
      <4>1. Place(flow[u].op, flow[u].cur = flow[u].on, do, flow[u].pc) /\ Shape(flow[u])
        BY Stage DEF FlowEffect
      <4> QED
        BY <2>4, <4>1 DEF Place, Shape, PoolShape, LbShape, LbOps
    <3>2. p # Target(u)
      BY <2>2, <3>1 DEF Target
    <3> QED
      BY <2>2, <2>4, <3>2 DEF Serves, ServiceEffect
  <2> QED
    BY <2>3, <2>4
<1> QED
  BY <1>2, <1>3, <1>4, <1>5 DEF Fresh

LEMMA RunServed ==
  ASSUME ShapeAssumption, ServedInv, NEW u \in Slots, Run(u)
  PROVE  ServedInv'
<1>1. PICK do : FlowEffect(u, do) /\ Serves(u, do)
  BY RunEffects DEF ServedInv
<1>2. Inv' /\ Only(u) /\ Walks(flow[u], flow'[u]) /\ UNCHANGED <<overlapped, revived, halfway>>
  BY <1>1 DEF FlowEffect
<1>3. flow[u] \in Flows /\ flow'[u] \in Flows /\ flow[u].step = "run" /\ flow'[u].step = "run"
  BY <1>1, <1>2, Stage DEF FlowEffect, Walks, ServedInv
<1>4. \A p \in Pools : Fresh(p)'
  BY <1>1, RunFresh DEF ServedInv
<1>5. \A s \in Slots : Recorded(flow'[s])
  <2> TAKE s \in Slots
  <2>1. CASE s = u
    BY <1>1, <1>3, <2>1, RunRecorded DEF ServedInv
  <2>2. CASE s # u
    BY <1>2, <2>2 DEF Only, ServedInv
  <2> QED
    BY <2>1, <2>2
<1>6. \A q \in Pools : Settled(LbOf[q])' /\ pool[q] \in {"DELETING", "GONE"} => pool'[q] \in {"DELETING", "GONE"}
  <2> SUFFICES ASSUME NEW q \in Pools, Settled(LbOf[q])', pool[q] \in {"DELETING", "GONE"}
               PROVE  pool'[q] \in {"DELETING", "GONE"}
    OBVIOUS
  <2>1. LbOf[q] \in LBs /\ Settled(LbOf[q])
    BY <1>2 DEF Settled, ShapeAssumption
  <2> QED
    BY <1>1, <2>1, RunFades DEF ServedInv
<1>7. \A s \in Slots : Seen(s)'
  <2> TAKE s \in Slots
  <2>1. Seen(s) /\ FlowInv
    BY DEF ServedInv, Inv
  <2>2. CASE s # u \/ do # "count"
    <3>1. flow'[s].last = flow[s].last /\ flow'[s].seen = flow[s].seen
      BY <1>1, <2>2 DEF FlowEffect, Only
    <3> QED
      BY <1>2, <1>6, <2>1, <3>1, SeenFrame
  <2>3. CASE s = u /\ do = "count"
    <3>1. /\ pool' = pool
          /\ flow'[s].last => \A q \in flow'[s].seen : pool[q] = "DELETING"
      BY <1>1, <2>3 DEF FlowEffect, Serves, RowEffect
    <3> QED
      BY <3>1 DEF Seen
  <2> QED
    BY <2>2, <2>3
<1>8. \A s \in Slots, f \in Flows : f = flow'[s] => Half(f)'
  <2> SUFFICES ASSUME NEW s \in Slots, NEW f \in Flows, f = flow'[s] PROVE Half(f)'
    OBVIOUS
  <2>1. CASE s = u
    BY <1>3, <2>1 DEF Half
  <2>2. CASE s # u
    <3>1. f = flow[s]
      BY <1>2, <2>2 DEF Only
    <3>2. Half(f)
      BY <3>1 DEF ServedInv
    <3> QED
      BY <1>2, <3>2 DEF Half
  <2> QED
    BY <2>1, <2>2
<1>9. \A l \in LBs : LbOK(l)'
  BY <1>1, RunLbs DEF ServedInv
<1> QED
  BY <1>2, <1>4, <1>5, <1>7, <1>8, <1>9 DEF ServedInv

-----------------------------------------------------------------------------
(* The start and the end of a flow change nothing else.                    *)
LEMMA QuietStep ==
  ASSUME UNCHANGED <<rows, device, hist>>
  PROVE  /\ \A p \in Pools : Untouched(p)
         /\ UNCHANGED <<lb, pool, sp, overlapped, revived, halfway>>
<1>1. UNCHANGED <<lb, pool, sp, groups, front, raced, overlapped, revived, halfway>>
  BY DEF rows, device, hist
<1> QED
  BY <1>1, SameIfSame DEF Untouched

LEMMA QuietOthers ==
  ASSUME ShapeAssumption, ServedInv, FlowInv', NEW u \in Slots, Only(u), UNCHANGED <<rows, device, hist>>,
         NEW l \in LBs, flow[u].step # "idle", LbOfFlow(flow[u]) # l,
         flow'[u] = Idle \/ flow'[u].on = flow[u].on
  PROVE  LbOK(l)'
<1>1. /\ \A p \in Under(l) : Untouched(p)
      /\ UNCHANGED <<lb, pool, sp, overlapped, revived, halfway>>
  BY QuietStep DEF Under
<1>2. flow'[u].step # "idle" => LbOfFlow(flow'[u]) # l
  BY IdleIs DEF LbOfFlow
<1> QED
  BY <1>1, <1>2, LbFrame DEF ServedInv, Inv

LEMMA BeginLb ==
  ASSUME ShapeAssumption, ServedInv, NEW u \in Slots, Begin(u), NEW l \in LBs, LbOfFlow(flow[u]) = l
  PROVE  LbOK(l)'
<1>0. UNCHANGED <<rows, device, hist>>
  BY DEF Begin
<1>1. PICK f \in Flows : f = flow[u]
  BY DEF ServedInv, Inv, FlowInv
<1>2. PICK g \in Flows : g = flow'[u]
  BY BeginStep DEF ServedInv
<1>3. /\ FlowInv /\ FlowInv' /\ Only(u) /\ f.step = "queued" /\ Shape(f) /\ Shape(g)
      /\ g.step = "run" /\ g.op = f.op /\ g.on = f.on /\ g.sp = f.sp /\ g.rest = f.rest
      /\ g.cur = f.cur /\ g.pc = f.pc /\ g.done = f.done /\ Inv
  BY <1>1, <1>2, BeginStep DEF ServedInv, Inv
<1>4. /\ \A p \in Pools : Untouched(p)
      /\ UNCHANGED <<lb, pool, sp, overlapped, revived, halfway>>
  BY <1>0, QuietStep
<1>5. SUFFICES ASSUME Settled(l) PROVE LbOK(l)'
  <2>1. Settled(l)' <=> Settled(l)
    BY <1>4 DEF Settled
  <2> QED
    BY <2>1 DEF LbOK
<1>6. Tasks(g) = Tasks(f)
  BY <1>3 DEF Tasks
<1>7. ~AtEnd(f) /\ ~AtEnd(g)
  <2>1. ~AtEnd(f)
    <3>1. Recorded(f) /\ f.step = "queued"
      BY <1>1, <1>3 DEF ServedInv
    <3> QED
      BY <3>1 DEF Recorded
  <2> QED
    BY <1>3, <1>6, <2>1 DEF AtEnd, Ended
<1>8. Works(f) /\ Works(g) /\ ~Trails(f) /\ ~Trails(g) /\ ~Closing(f)
  BY <1>3, <1>7 DEF Works, Trails, AtEnd, Closing
<1>9. /\ Exclusive(l) /\ \A p \in Under(l) : Calm(p) /\ GoodPool(p) /\ Buried(p)
      /\ u \in On(l) /\ FlowOK(f)
  <2>1. u \in On(l)
    BY <1>1, <1>3, OnIs
  <2> QED
    BY <1>1, <1>5, <2>1 DEF LbOK, ServedInv
<1>10. /\ \A t \in On(l) \ {u} : Trails(flow[t])
       /\ lb[l] \notin {"ERROR", "NEW", "ACTIVE"}
       /\ f.op = "create_lb" => On(l) = {u}
  BY <1>1, <1>3, <1>8, <1>9, Workers
<1>11. On(l)' = On(l)
  <2>1. LbOfFlow(g) = LbOfFlow(f)
    BY <1>3 DEF LbOfFlow
  <2>2. /\ flow[u].step # "idle" /\ LbOfFlow(flow[u]) = l
        /\ flow'[u].step # "idle" /\ LbOfFlow(flow'[u]) = l
    BY <1>1, <1>2, <1>3, <2>1
  <2>3. \A t \in Slots \ {u} : flow'[t] = flow[t]
    BY <1>3 DEF Only
  <2> QED
    BY <2>2, <2>3, OnIs
<1>12. Exclusive(l)'
  BY <1>2, <1>3, <1>4, <1>10, <1>11, ExclusiveStep
<1>13. ASSUME NEW p \in Under(l) PROVE Calm(p)' /\ GoodPool(p)' /\ Buried(p)'
  <2>1. p \in Pools /\ LbOf[p] = l /\ Untouched(p)
    BY <1>4, <1>13 DEF Under
  <2>2. Alike(flow[u], flow'[u], p)
    BY <1>1, <1>2, <1>3, <1>8 DEF Alike, Unserved
  <2>3. On(l) # {}
    BY <1>9
  <2>4. Calm(p)' /\ GoodPool(p)'
    BY <1>3, <1>4, <1>9, <1>13, <2>1, <2>2, <2>3, PoolFrame
  <2>5. Buried(p)'
    BY <1>4, <1>9, <1>13 DEF Buried
  <2> QED
    BY <2>4, <2>5
<1>14. FlowOK(g)'
  <2>1. FlowOK(f)'
    BY <1>1, <1>3, <1>4, <1>9, FlowOKFrame DEF Under
  <2>2. StatusAt(g) = StatusAt(f)
    BY <1>3, <1>6 DEF StatusAt
  <2>3. PoolStatus(f)' => PoolStatus(g)'
    BY <1>3, <2>2 DEF PoolStatus
  <2>4. PoolGood(f)' => PoolGood(g)'
    BY <1>3 DEF PoolGood
  <2>5. \A p : (LbStatus(f, p)' => LbStatus(g, p)') /\ (LbGood(f, p)' => LbGood(g, p)')
    BY <1>3 DEF LbStatus, LbGood
  <2> QED
    BY <1>3, <1>8, <2>1, <2>3, <2>4, <2>5 DEF FlowOK
<1> QED
  BY <1>2, <1>3, <1>10, <1>12, <1>13, <1>14, LbStep

LEMMA FinishLb ==
  ASSUME ShapeAssumption, ServedInv, NEW u \in Slots, Finish(u), NEW l \in LBs, LbOfFlow(flow[u]) = l
  PROVE  LbOK(l)'
<1>0. UNCHANGED <<rows, device, hist>>
  BY DEF Finish
<1>1. PICK f \in Flows : f = flow[u]
  BY DEF ServedInv, Inv, FlowInv
<1>2. /\ FlowInv /\ FlowInv' /\ Only(u) /\ f.step = "run" /\ flow'[u] = Idle /\ Ended(f) /\ Inv
  BY <1>1, FinishStep DEF ServedInv, Inv
<1>3. /\ \A p \in Pools : Untouched(p)
      /\ UNCHANGED <<lb, pool, sp, overlapped, revived, halfway>>
  BY <1>0, QuietStep
<1>4. SUFFICES ASSUME Settled(l) PROVE LbOK(l)'
  <2>1. Settled(l)' <=> Settled(l)
    BY <1>3 DEF Settled
  <2> QED
    BY <2>1 DEF LbOK
<1>5. /\ Shape(f)
      /\ \/ f.on \in Pools /\ f.on \notin LBs /\ PoolShape(f)
         \/ f.on \in LBs /\ f.on \notin Pools /\ LbShape(f)
  BY <1>1, <1>2, FlowKinds
<1>6. /\ Exclusive(l) /\ \A p \in Under(l) : Calm(p) /\ GoodPool(p) /\ Buried(p)
      /\ u \in On(l) /\ FlowOK(f)
  <2>1. u \in On(l)
    BY <1>1, <1>2, OnIs
  <2> QED
    BY <1>1, <1>4, <2>1 DEF LbOK, ServedInv
<1>7. On(l)' = On(l) \ {u} /\ \A t \in On(l)' : flow'[t] = flow[t]
  BY <1>2, OnIs, IdleIs DEF Only
<1>8. Exclusive(l)'
  BY <1>3, <1>6, <1>7 DEF Exclusive
<1>9. \A p \in Under(l) : Buried(p)'
  BY <1>3, <1>6 DEF Buried
<1>10. CASE f.on \in Pools
  <2>1. Trails(f) /\ ~Works(f) /\ f.op # "create_lb"
    BY <1>2, <1>5, <1>10 DEF Trails, Works, PoolShape, PoolOps, HmOps
  <2>2. ASSUME NEW p \in Under(l) PROVE Calm(p)' /\ GoodPool(p)'
    <3>1. p \in Pools /\ LbOf[p] = l /\ Untouched(p)
      BY <1>3, <2>2 DEF Under
    <3>2. Alike(flow[u], flow'[u], p)
      <4>1. ~Works(Idle) /\ ~Trails(Idle)
        BY IdleIs
      <4> QED
        BY <1>1, <1>2, <2>1, <4>1 DEF Alike, Unserved
    <3>3. On(l) # {}
      BY <1>6
    <3> QED
      BY <1>2, <1>3, <1>6, <2>2, <3>1, <3>2, <3>3, PoolFrame
  <2>3. ASSUME NEW s \in On(l)', NEW h \in Flows, h = flow'[s] PROVE FlowOK(h)'
    <3>1. s \in On(l) /\ h = flow[s] /\ h.step # "idle" /\ LbOfFlow(h) = l /\ s \in Slots
      BY <1>7, <2>3, OnIs
    <3>2. FlowOK(h) /\ Shape(h)
      BY <1>2, <1>4, <3>1, FlowKinds DEF LbOK, ServedInv
    <3> QED
      BY <1>3, <3>1, <3>2, FlowOKFrame DEF Under
  <2> QED
    BY <1>8, <1>9, <2>2, <2>3 DEF LbOK
<1>11. CASE f.on \in LBs
  <2>1. f.on = l /\ f.on \notin Pools /\ Works(f) /\ f.cur = l /\ f.rest = {} /\ f.op \in LbOps
    BY <1>1, <1>2, <1>5, <1>11 DEF LbOfFlow, Works, Trails, LbShape
  <2>2. /\ \A t \in On(l) \ {u} : Trails(flow[t])
        /\ \A t \in Slots \ {u}, p \in Under(l) : flow[t].on \in {p, l} => Trails(flow[t])
        /\ f.op = "create_lb" => On(l) = {u}
    BY <1>1, <1>2, <1>6, <2>1, Workers
  <2>3. \A p \in Under(l) : LbStatus(f, p)
    BY <1>6, <2>1 DEF FlowOK
  <2>4. ASSUME NEW p \in Under(l) PROVE Calm(p)' /\ GoodPool(p)'
    <3>1. p \in Pools /\ LbOf[p] = l /\ p # l /\ Untouched(p)
      BY <1>3, <2>1, <2>4 DEF Under
    <3>2. p \notin f.rest \cup {f.cur}
      BY <2>1, <3>1
    <3>3. /\ \A t \in Slots \ {u} : ~Unserved(flow[t], p)
          /\ \A t \in Slots : Works(flow'[t]) /\ flow'[t].on = p => t = u
      BY <1>2, <2>2, <2>4, OthersAway
    <3>4. \A t \in Slots : ~(Works(flow'[t]) /\ flow'[t].on = p /\ flow'[t].op \in HmOps)
      BY <1>2, <3>3, IdleIs
    <3>5. CASE f.op = "create_lb"
      <4>1. pool[p] = "ACTIVE" /\ pool'[p] = "ACTIVE"
        BY <1>2, <1>3, <2>3, <2>4, <3>2, <3>5 DEF LbStatus
      <4>2. ~Unserved(f, p)
        <5>1. f.pc > 3
          BY <1>2, <1>5, <2>1, <3>5, Lengths DEF Ended
        <5> QED
          BY <2>1, <5>1 DEF Unserved, Flows
      <4>3. \A t \in Slots : ~Unserved(flow[t], p)
        BY <1>1, <3>3, <4>2
      <4>4. <<"pool", p>> \notin revived => Good(p)
        BY <1>6, <2>4, <4>1, <4>3 DEF GoodPool
      <4>5. <<"pool", p>> \notin revived => Good(p)'
        BY <3>1, <4>1, <4>4, GoodStays DEF Untouched, Lives
      <4>6. GoodPool(p)'
        BY <1>3, <3>4, <4>5 DEF GoodPool
      <4>7. Calm(p)'
        BY <4>1 DEF Calm
      <4> QED
        BY <4>6, <4>7
    <3>6. CASE f.op = "delete_lb"
      <4>1. ~HasRow(pool[p]) /\ pool'[p] = pool[p]
        BY <1>2, <1>3, <2>3, <2>4, <3>2, <3>6 DEF LbStatus
      <4>2. pool'[p] \in {"NEW", "GONE"}
        BY <4>1 DEF HasRow
      <4> QED
        BY <3>4, <4>2 DEF Calm, GoodPool
    <3> QED
      BY <2>1, <3>5, <3>6 DEF LbOps
  <2>5. ASSUME NEW s \in On(l)', NEW h \in Flows, h = flow'[s] PROVE FlowOK(h)'
    <3>1. s \in On(l) \ {u} /\ h = flow[s]
      BY <1>7, <2>5
    <3>2. ~Works(h)
      BY <2>2, <3>1 DEF Works
    <3> QED
      BY <3>2 DEF FlowOK
  <2> QED
    BY <1>8, <1>9, <2>4, <2>5 DEF LbOK
<1> QED
  BY <1>5, <1>10, <1>11

(* The rest of the invariant after a step of one flow.                     *)
LEMMA ServedStep ==
  ASSUME ShapeAssumption, ServedInv, Inv', NEW u \in Slots, Only(u),
         overlapped \subseteq overlapped', halfway \subseteq halfway',
         \A p \in Pools : Fresh(p)',
         Recorded(flow'[u]), flow'[u].last => flow[u].last /\ flow'[u].seen = flow[u].seen,
         \A q \in Pools : Settled(LbOf[q])' /\ pool[q] \in {"DELETING", "GONE"} =>
                            pool'[q] \in {"DELETING", "GONE"} \/ q \in halfway',
         \A g \in Flows : g = flow'[u] => Half(g)',
         \A l \in LBs : LbOK(l)'
  PROVE  ServedInv'
<1>1. \A s \in Slots : Recorded(flow'[s])
  <2> TAKE s \in Slots
  <2>1. CASE s = u
    BY <2>1
  <2>2. CASE s # u
    BY <2>2 DEF Only, ServedInv
  <2> QED
    BY <2>1, <2>2
<1>2. \A s \in Slots : Seen(s)'
  <2> TAKE s \in Slots
  <2>1. Seen(s) /\ FlowInv
    BY DEF ServedInv, Inv
  <2>2. flow'[s].last => flow[s].last /\ flow'[s].seen = flow[s].seen
    <3>1. CASE s = u
      BY <3>1
    <3>2. CASE s # u
      BY <3>2 DEF Only
    <3> QED
      BY <3>1, <3>2
  <2> QED
    BY <2>1, <2>2, SeenFrame
<1>3. \A s \in Slots, f \in Flows : f = flow'[s] => Half(f)'
  <2> SUFFICES ASSUME NEW s \in Slots, NEW f \in Flows, f = flow'[s] PROVE Half(f)'
    OBVIOUS
  <2>1. CASE s = u
    BY <2>1
  <2>2. CASE s # u
    <3>1. f = flow[s]
      BY <2>2 DEF Only
    <3>2. Half(f)
      BY <3>1 DEF ServedInv
    <3> QED
      BY <3>2 DEF Half
  <2> QED
    BY <2>1, <2>2
<1> QED
  BY <1>1, <1>2, <1>3 DEF ServedInv

LEMMA FreshFrame ==
  ASSUME UNCHANGED <<lb, pool, sp>>, NEW p \in Pools, Fresh(p),
         \A s \in Slots : flow'[s].on = p => flow[s].on = p
  PROVE  Fresh(p)'
  BY DEF Fresh

LEMMA BeginServed ==
  ASSUME ShapeAssumption, ServedInv, NEW u \in Slots, Begin(u)
  PROVE  ServedInv'
<1>1. Inv
  BY DEF ServedInv
<1>2. /\ Inv' /\ Only(u) /\ flow[u].step = "queued" /\ flow[u] \in Flows /\ Shape(flow[u])
      /\ flow'[u] \in Flows /\ flow'[u].step = "run" /\ flow'[u].op = flow[u].op /\ flow'[u].on = flow[u].on
      /\ flow'[u].last = flow[u].last /\ flow'[u].seen = flow[u].seen
      /\ flow'[u].cur = flow[u].cur /\ flow'[u].pc = flow[u].pc
      /\ flow'[u].done = flow[u].done
  BY <1>1, BeginStep
<1>3. UNCHANGED <<rows, device, hist>>
  BY DEF Begin
<1>4. UNCHANGED <<lb, pool, sp, overlapped, revived, halfway>>
  BY <1>3, QuietStep
<1>5. \A p \in Pools : Fresh(p)'
  <2>1. \A s \in Slots : flow'[s].on = flow[s].on
    BY <1>2 DEF Only
  <2> QED
    BY <1>4, <2>1, FreshFrame DEF ServedInv
<1>6. Recorded(flow'[u])
  <2>1. Tasks(flow'[u]) = Tasks(flow[u])
    BY <1>2 DEF Tasks
  <2>2. AtEnd(flow'[u]) => AtEnd(flow[u])
    BY <1>2, <2>1 DEF AtEnd, Ended
  <2>3. Recorded(flow[u])
    BY DEF ServedInv
  <2> QED
    BY <1>2, <2>2, <2>3 DEF Recorded
<1>7. \A g \in Flows : g = flow'[u] => Half(g)'
  BY <1>2 DEF Half
<1>8. ASSUME NEW l \in LBs PROVE LbOK(l)'
  <2>1. CASE LbOfFlow(flow[u]) = l
    BY <2>1, BeginLb
  <2>2. CASE LbOfFlow(flow[u]) # l
    <3>1. flow[u].step # "idle" /\ FlowInv'
      BY <1>2 DEF Inv
    <3> QED
      BY <1>2, <1>3, <2>2, <3>1, QuietOthers
  <2> QED
    BY <2>1, <2>2
<1> QED
  BY <1>2, <1>4, <1>5, <1>6, <1>7, <1>8, ServedStep

LEMMA IdleRecorded ==
  ASSUME ShapeAssumption
  PROVE  Recorded(Idle) /\ ~Idle.last /\ (\A g \in Flows : g = Idle => Half(g)')
<1>1. Idle.op = "none" /\ Idle.step = "idle" /\ ~Idle.last
  BY IdleIs
<1> QED
  BY <1>1 DEF Recorded, Half, HmOps

LEMMA FinishServed ==
  ASSUME ShapeAssumption, ServedInv, NEW u \in Slots, Finish(u)
  PROVE  ServedInv'
<1>1. Inv
  BY DEF ServedInv
<1>2. Inv' /\ Only(u) /\ flow'[u] = Idle /\ flow[u].step = "run"
  BY <1>1, FinishStep
<1>3. UNCHANGED <<rows, device, hist>>
  BY DEF Finish
<1>4. UNCHANGED <<lb, pool, sp, overlapped, revived, halfway>>
  BY <1>3, QuietStep
<1>5. \A p \in Pools : Fresh(p)'
  <2>1. \A s \in Slots, p \in Pools : flow'[s].on = p => flow[s].on = p
    BY <1>2, IdleIs DEF Only
  <2> QED
    BY <1>4, <2>1, FreshFrame DEF ServedInv
<1>6. ASSUME NEW l \in LBs PROVE LbOK(l)'
  <2>1. CASE LbOfFlow(flow[u]) = l
    BY <2>1, FinishLb
  <2>2. CASE LbOfFlow(flow[u]) # l
    <3>1. flow[u].step # "idle" /\ FlowInv'
      BY <1>2 DEF Inv
    <3> QED
      BY <1>2, <1>3, <2>2, <3>1, QuietOthers
  <2> QED
    BY <2>1, <2>2
<1> QED
  BY <1>2, <1>4, <1>5, <1>6, IdleRecorded, ServedStep

-----------------------------------------------------------------------------
(* A failure: what it writes, and of which pools.                          *)
LEMMA FailEffects ==
  ASSUME ShapeAssumption, Inv, NEW u \in Slots, Fail(u), NEW g, g = flow'[u],
         NEW l, l = LbOfFlow(flow[u])
  PROVE  /\ lb' = IF Did(g, "active") # {} THEN Set(lb, {l}, "ERROR") ELSE lb
         /\ pool' = Set(pool, Did(g, "pool_active") \cup Did(g, "deleting"), "ERROR")
         /\ halfway \subseteq halfway'
         /\ g.op = "delete_pool" => g.on \in halfway'
         /\ g.op = "delete_lb" => \A t \in g.done : t.on \in Pools => t.on \in halfway'
         /\ overlapped' = IF On(l) # {u} THEN overlapped \cup {l} ELSE overlapped
         /\ UNCHANGED <<sp, revived>> /\ \A p : SameService(p)
<1> DEFINE f == [flow[u] EXCEPT !.done = IF flow[u].step = "run" THEN Done(flow[u]) ELSE @]
<1>1. /\ flow[u] \in Flows /\ g.op = flow[u].op /\ g.on = flow[u].on
      /\ g.done = IF flow[u].step = "run" THEN Done(flow[u]) ELSE flow[u].done
  BY FailStep
<1>2. f.done = g.done /\ f.op = g.op /\ f.on = g.on
  BY <1>1 DEF Flows
<1>3. LbAt(u) = l
  BY DEF LbAt, LbOfFlow
<1>4. /\ lb' = IF Did(f, "active") # {} THEN Set(lb, {LbAt(u)}, "ERROR") ELSE lb
      /\ pool' = Set(pool, Did(f, "pool_active") \cup Did(f, "deleting"), "ERROR")
      /\ halfway' = halfway \cup (CASE f.op = "delete_pool" -> {f.on}
                                    [] f.op = "delete_lb" -> {t.on : t \in f.done} \cap Pools
                                    [] OTHER -> {})
      /\ Overlap(u) /\ UNCHANGED <<sp, device, raced, revived>>
  BY DEF Fail
<1> HIDE DEF f
<1>5. \A do : Did(f, do) = Did(g, do)
  BY <1>2 DEF Did
<1>6. UNCHANGED <<groups, sp, front, raced>>
  BY <1>4 DEF device
<1>7. /\ halfway \subseteq halfway'
      /\ g.op = "delete_pool" => g.on \in halfway'
      /\ g.op = "delete_lb" => \A t \in g.done : t.on \in Pools => t.on \in halfway'
  <2>1. halfway' = halfway \cup (CASE g.op = "delete_pool" -> {g.on}
                                   [] g.op = "delete_lb" -> {t.on : t \in g.done} \cap Pools
                                   [] OTHER -> {})
    BY <1>2, <1>4
  <2>2. g.op = "delete_pool" => halfway' = halfway \cup {g.on}
    BY <2>1
  <2>3. g.op = "delete_lb" => halfway' = halfway \cup ({t.on : t \in g.done} \cap Pools)
    BY <2>1
  <2> QED
    BY <2>1, <2>2, <2>3
<1> QED
  BY <1>3, <1>4, <1>5, <1>6, <1>7, SameIfSame DEF Overlap

LEMMA DidWhere ==
  ASSUME ShapeAssumption, NEW g \in Flows, Shape(g), NEW do, NEW x \in Did(g, do)
  PROVE  /\ x \in Objects /\ \E t \in g.done : t.on = x
         /\ g.on \in Pools => x = g.on
         /\ x \in Pools => LbOf[x] = LbOfFlow(g)
<1>1. x \in Objects /\ Task(do, x) \in g.done
  BY DidIs DEF Flows
<1>2. \E t \in g.done : t.on = x
  BY <1>1 DEF Task
<1>3. CASE PoolShape(g)
  <2>1. g.on \in Pools /\ g.on \notin LBs /\ x = g.on
    BY <1>2, <1>3 DEF PoolShape, ShapeAssumption
  <2> QED
    BY <1>1, <1>2, <2>1 DEF LbOfFlow
<1>4. CASE LbShape(g)
  <2>1. g.on \in LBs /\ g.on \notin Pools /\ (x = g.on \/ x \in Under(g.on))
    BY <1>2, <1>4 DEF LbShape, ShapeAssumption
  <2> QED
    BY <1>1, <1>2, <2>1 DEF LbOfFlow, Under
<1> QED
  BY <1>3, <1>4 DEF Shape

LEMMA LonelyFlow ==
  ASSUME ShapeAssumption, FlowInv, NEW u \in Slots, NEW l \in LBs, On(l) = {u}, NEW p \in Under(l)
  PROVE  \A t \in Slots \ {u} : flow[t].on \notin {p, l}
<1> SUFFICES ASSUME NEW t \in Slots \ {u}, flow[t].on \in {p, l} PROVE FALSE
  OBVIOUS
<1>1. p \in Pools /\ p \notin LBs /\ LbOf[p] = l
  BY DEF Under, ShapeAssumption
<1>2. flow[t].step # "idle"
  BY <1>1, IdleIs DEF FlowInv, Shape
<1>3. LbOfFlow(flow[t]) = l
  BY <1>1 DEF LbOfFlow
<1> QED
  BY <1>2, <1>3, OnIs

(* A pool whose flow fails was not to be deleted, or its deletion failed.  *)
LEMMA FailPool ==
  ASSUME ShapeAssumption, ServedInv, NEW u \in Slots, Fail(u), NEW f \in Flows, f = flow[u],
         NEW l \in LBs, LbOfFlow(f) = l, Settled(l)'
  PROVE  /\ On(l) = {u} /\ LbOK(l) /\ Settled(l)
         /\ f.on \in Pools => f.op = "delete_pool" \/ pool[f.on] # "DELETING"
         /\ Trails(f) => pool[f.on] \in {"NEW", "ACTIVE", "GONE"}
<1>1. /\ Shape(f) /\ f.step \in {"queued", "run"} /\ FlowInv
  BY FailStep DEF ServedInv, Inv
<1>2. On(l) = {u} /\ Settled(l)
  <2>1. overlapped' = IF On(l) # {u} THEN overlapped \cup {l} ELSE overlapped
    BY FailEffects DEF ServedInv
  <2> QED
    BY <2>1 DEF Settled
<1>3. LbOK(l) /\ u \in On(l) /\ FlowOK(f)
  BY <1>2 DEF LbOK, ServedInv
<1>4. ASSUME Trails(f) PROVE pool[f.on] \in {"NEW", "ACTIVE", "GONE"}
  <2>1. f.on \in Under(l) /\ LbOf[f.on] = l /\ ~Works(f)
    BY <1>4 DEF LbOfFlow, Under, Trails, Works, ShapeAssumption
  <2>2. Free(f.on)
    BY <1>1, <1>2, <2>1, LonelyFlow DEF Free
  <2>3. \E s \in Slots : Trails(flow[s]) /\ flow[s].on = f.on
    BY <1>4
  <2>4. Calm(f.on)
    BY <1>2, <1>3, <2>1 DEF LbOK
  <2> QED
    BY <1>2, <2>1, <2>2, <2>3, <2>4 DEF Calm
<1>5. ASSUME f.on \in Pools, f.op # "delete_pool" PROVE pool[f.on] # "DELETING"
  <2>1. CASE Trails(f)
    BY <1>4, <2>1
  <2>2. CASE ~Trails(f)
    <3>1. PoolStatus(f)
      BY <1>1, <1>3, <1>5, <2>2 DEF FlowOK, Works
    <3> QED
      BY <1>1, <1>5, <3>1 DEF PoolStatus, StatusAt
  <2> QED
    BY <2>1, <2>2
<1> QED
  BY <1>2, <1>3, <1>4, <1>5

(* The pools of a load balancer whose flow fails.                          *)
LEMMA FailOwnPool ==
  ASSUME ShapeAssumption, ServedInv, NEW u \in Slots, Fail(u), NEW f \in Flows, f = flow[u],
         NEW g \in Flows, g = flow'[u],
         NEW l \in LBs, LbOfFlow(f) = l, Settled(l)', f.on \in Pools
  PROVE  \A p \in Under(l) : Calm(p)' /\ GoodPool(p)'
<1>1. /\ Shape(f) /\ Shape(g) /\ f.step \in {"queued", "run"} /\ g.step = "revert"
      /\ g.op = f.op /\ g.on = f.on /\ Only(u) /\ FlowInv /\ Inv /\ pool \in [Pools -> Statuses]
  BY FailStep DEF ServedInv, Inv, TypeOK
<1>2. /\ pool' = Set(pool, Did(g, "pool_active") \cup Did(g, "deleting"), "ERROR")
      /\ revived' = revived /\ \A p : SameService(p)
  BY <1>1, FailEffects
<1>3. On(l) = {u} /\ LbOK(l) /\ Settled(l)
  BY FailPool
<1>4. Works(g) /\ f.on \in Under(l)
  BY <1>1 DEF Works, Trails, LbOfFlow, Under, ShapeAssumption
<1>5. ASSUME NEW p \in Under(l), p # f.on PROVE Calm(p)' /\ GoodPool(p)'
  <2>1. p \in Pools /\ LbOf[p] = l /\ f.on # l
    BY <1>5, <1>4 DEF Under, ShapeAssumption
  <2>2. p \notin Did(g, "pool_active") \cup Did(g, "deleting")
    BY <1>1, <1>5, DidWhere
  <2>3. pool'[p] = pool[p]
    BY <1>1, <1>2, <2>1, <2>2 DEF Set
  <2>4. Untouched(p) /\ Alike(flow[u], flow'[u], p)
    BY <1>1, <1>2, <1>5, <2>1, <2>3, AwayAlike DEF Untouched, Away
  <2>5. Calm(p) /\ GoodPool(p) /\ On(LbOf[p]) # {}
    BY <1>3, <1>5, <2>1 DEF LbOK
  <2> QED
    BY <1>1, <1>2, <2>1, <2>4, <2>5, PoolFrame
<1>6. Calm(f.on)'
  <2>1. ~Free(f.on)'
    BY <1>1, <1>4 DEF Free
  <2> QED
    BY <2>1 DEF Calm
<1>7. GoodPool(f.on)'
  <2> DEFINE q == f.on
  <2>1. /\ \A t \in Slots \ {u} : flow[t].on \notin {q, l}
        /\ GoodPool(q) /\ LbOf[q] = l /\ q \in Pools /\ l # q
    BY <1>1, <1>3, <1>4, LonelyFlow DEF LbOK, Under, ShapeAssumption
  <2>2. \A t \in Slots : ~Unserved(flow[t], q)
    BY <2>1 DEF Unserved
  <2>3. \A t \in Slots : Works(flow'[t]) /\ flow'[t].on = q => t = u
    BY <1>1, <2>1 DEF Only
  <2>4. pool'[q] = pool[q] \/ (pool'[q] = "ERROR" /\ HasRow(pool[q]))
    BY <1>1, <1>2, <2>1 DEF Set
  <2>5. pool[q] = "ACTIVE" /\ <<"pool", q>> \notin revived => Good(q)'
    <3>1. pool[q] = "ACTIVE" /\ <<"pool", q>> \notin revived => Good(q)
      BY <2>1, <2>2 DEF GoodPool
    <3> QED
      BY <1>2, <3>1, GoodStays DEF Lives
  <2>6. ASSUME Lives(pool'[q]), f.op \in HmOps, <<"pool", q>> \notin revived PROVE Good(q)'
    <3>1. f.op # "delete_pool" /\ pool[q] # "DELETING"
      BY <2>6, FailPool DEF HmOps
    <3>2. Lives(pool[q])
      BY <2>4, <2>6, <3>1 DEF Lives, HasRow
    <3>3. Trails(f) => pool[q] = "ACTIVE"
      BY <3>2, FailPool DEF Lives
    <3>4. ~Trails(f) => Works(f)
      BY <1>1 DEF Works
    <3>5. Works(f) => Good(q)
      BY <2>1, <2>6, <3>2 DEF GoodPool
    <3> QED
      BY <1>2, <2>5, <2>6, <3>2, <3>3, <3>4, <3>5, GoodStays
  <2>7. pool'[q] = "ACTIVE" => pool[q] = "ACTIVE"
    BY <2>4
  <2> HIDE DEF q
  <2>8. GoodPool(q)'
    BY <1>1, <1>2, <2>3, <2>5, <2>6, <2>7 DEF GoodPool
  <2> QED
    BY <2>8 DEF q
<1> QED
  BY <1>5, <1>6, <1>7

LEMMA FailLbPool ==
  ASSUME ShapeAssumption, ServedInv, NEW u \in Slots, Fail(u), NEW f \in Flows, f = flow[u],
         NEW g \in Flows, g = flow'[u],
         NEW l \in LBs, f.on = l, Settled(l)', NEW p \in Under(l)
  PROVE  /\ Calm(p)' /\ GoodPool(p)'
         /\ f.op = "create_lb" => pool'[p] \in {"PENDING", "ERROR"} /\ pool[p] # "DELETING"
<1>1. /\ Shape(f) /\ Shape(g) /\ f.step \in {"queued", "run"} /\ g.step = "revert"
      /\ g.op = f.op /\ g.on = f.on /\ Only(u) /\ FlowInv /\ Inv /\ pool \in [Pools -> Statuses]
      /\ g.done = IF f.step = "run" THEN Done(f) ELSE f.done
  BY FailStep DEF ServedInv, Inv, TypeOK
<1>2. /\ pool' = Set(pool, Did(g, "pool_active") \cup Did(g, "deleting"), "ERROR")
      /\ revived' = revived /\ \A q : SameService(q)
  BY <1>1, FailEffects
<1>3. On(l) = {u} /\ LbOK(l) /\ Settled(l)
  <2>1. LbOfFlow(f) = l
    BY DEF LbOfFlow
  <2> QED
    BY <2>1, FailPool
<1>4. p \in Pools /\ LbOf[p] = l /\ p # l /\ l \notin Pools
  BY DEF Under, ShapeAssumption
<1>5. Works(f) /\ Works(g) /\ FlowOK(f)
  BY <1>1, <1>3, <1>4 DEF Works, Trails, LbOK
<1>6. /\ \A t \in Slots \ {u} : flow[t].on \notin {p, l}
      /\ GoodPool(p)
  BY <1>1, <1>3, LonelyFlow DEF LbOK
<1>7. pool'[p] = IF p \in Did(g, "pool_active") \cup Did(g, "deleting") /\ HasRow(pool[p])
                 THEN "ERROR" ELSE pool[p]
  BY <1>1, <1>2, <1>4 DEF Set
<1>8. ASSUME f.op = "create_lb" PROVE pool'[p] \in {"PENDING", "ERROR"} /\ pool[p] # "DELETING"
  <2>1. LbStatus(f, p)
    BY <1>4, <1>5 DEF FlowOK
  <2>2. CASE p \in f.rest \cup {f.cur}
    <3>1. pool[p] = "PENDING"
      BY <1>1, <1>8, <2>1, <2>2 DEF LbStatus
    <3> QED
      BY <1>7, <3>1
  <2>3. CASE p \notin f.rest \cup {f.cur}
    <3>1. pool[p] = "ACTIVE" /\ Task("pool_active", p) \in f.done
      BY <1>1, <1>8, <2>1, <2>3 DEF LbStatus
    <3>2. f.done \subseteq Done(f)
      BY DEF Done
    <3>3. Task("pool_active", p) \in g.done
      BY <1>1, <3>1, <3>2
    <3>4. p \in Did(g, "pool_active")
      BY <3>3 DEF Did, Task
    <3>5. pool'[p] = "ERROR"
      BY <1>7, <3>1, <3>4 DEF HasRow
    <3> QED
      BY <3>1, <3>5
  <2> QED
    BY <2>2, <2>3
<1>9. Calm(p)'
  <2>1. ~Free(p)'
    BY <1>1, <1>4, <1>5 DEF Free
  <2> QED
    BY <2>1 DEF Calm
<1>10. GoodPool(p)'
  <2>1. \A t \in Slots : ~(Works(flow'[t]) /\ flow'[t].on = p /\ flow'[t].op \in HmOps)
    BY <1>1, <1>4, <1>6 DEF Only
  <2>2. pool'[p] = "ACTIVE" => pool[p] = "ACTIVE" /\ f.op # "create_lb"
    BY <1>7, <1>8
  <2>3. f.op # "create_lb" => \A t \in Slots : ~Unserved(flow[t], p)
    BY <1>4, <1>6 DEF Unserved
  <2>4. pool'[p] = "ACTIVE" /\ <<"pool", p>> \notin revived => Good(p)
    BY <1>6, <2>2, <2>3 DEF GoodPool
  <2>5. pool'[p] = "ACTIVE" /\ <<"pool", p>> \notin revived => Good(p)'
    BY <1>2, <2>2, <2>4, GoodStays DEF Lives
  <2> QED
    BY <1>2, <2>1, <2>5 DEF GoodPool
<1> QED
  BY <1>8, <1>9, <1>10

LEMMA FailLb ==
  ASSUME ShapeAssumption, ServedInv, NEW u \in Slots, Fail(u), NEW l \in LBs, LbOfFlow(flow[u]) = l
  PROVE  LbOK(l)'
<1>1. PICK f \in Flows : f = flow[u]
  BY DEF ServedInv, Inv, FlowInv
<1>2. PICK g \in Flows : g = flow'[u]
  BY FailStep DEF ServedInv
<1>3. /\ Shape(f) /\ Shape(g) /\ f.step \in {"queued", "run"} /\ g.step = "revert"
      /\ g.op = f.op /\ g.on = f.on /\ Only(u) /\ FlowInv /\ FlowInv' /\ Inv /\ Inv'
      /\ g.done = (IF f.step = "run" THEN Done(f) ELSE f.done)
      /\ pool \in [Pools -> Statuses] /\ lb \in [LBs -> Statuses]
  BY <1>1, <1>2, FailStep, FailTypes DEF ServedInv, Inv, TypeOK
<1>4. /\ pool' = Set(pool, Did(g, "pool_active") \cup Did(g, "deleting"), "ERROR")
      /\ lb' = IF Did(g, "active") # {} THEN Set(lb, {l}, "ERROR") ELSE lb
      /\ revived' = revived
  BY <1>2, <1>3, FailEffects
<1> SUFFICES ASSUME Settled(l)' PROVE LbOK(l)'
  BY DEF LbOK
<1>5. On(l) = {u} /\ LbOK(l) /\ Settled(l) /\ (f.on \in Pools => f.op = "delete_pool" \/ pool[f.on] # "DELETING")
  BY <1>1, FailPool
<1>6. Works(g) /\ Exclusive(l) /\ On(l)' = {u}
  <2>1. Works(g) /\ Exclusive(l)
    BY <1>3, <1>5 DEF Works, Trails, LbOK
  <2>2. LbOfFlow(g) = l
    BY <1>1, <1>3 DEF LbOfFlow
  <2>3. flow[u].step # "idle" /\ flow'[u].step # "idle" /\ LbOfFlow(flow'[u]) = l
    BY <1>1, <1>2, <1>3, <2>2
  <2>4. \A t \in Slots \ {u} : flow'[t] = flow[t]
    BY <1>3 DEF Only
  <2>5. On(l)' = On(l)
    BY <2>3, <2>4, OnIs
  <2> QED
    BY <1>5, <2>1, <2>5
<1>7. lb'[l] # "ACTIVE" /\ lb'[l] # "NEW"
  <2>1. lb[l] # "NEW"
    BY <1>5, <1>6 DEF Exclusive
  <2>2. lb'[l] = lb[l] \/ lb'[l] = "ERROR"
    BY <1>3, <1>4 DEF Set
  <2>3. ASSUME lb[l] = "ACTIVE" PROVE lb'[l] = "ERROR"
    <3>1. Trails(f) \/ Closing(f)
      BY <1>1, <1>5, <1>6, <2>3 DEF Exclusive
    <3>2. AtEnd(f)
      BY <3>1 DEF Trails, Closing, AtEnd
    <3>3. PICK t \in f.done : t.do = "active"
      BY <1>1, <1>3, <3>2 DEF ServedInv, Recorded
    <3>4. t \in g.done
      BY <1>3 DEF Done
    <3>5. t.on \in Did(g, "active")
      BY <3>3, <3>4 DEF Did
    <3> QED
      BY <1>3, <1>4, <2>3, <3>5 DEF Set, HasRow
  <2> QED
    BY <2>1, <2>2, <2>3
<1>8. Exclusive(l)'
  BY <1>2, <1>3, <1>5, <1>6, <1>7, ExclusiveStep
<1>9. \A p \in Under(l) : Calm(p)' /\ GoodPool(p)'
  <2>1. CASE f.on \in Pools
    <3>1. LbOfFlow(f) = l
      BY <1>1
    <3> QED
      BY <1>1, <1>2, <2>1, <3>1, FailOwnPool
  <2>2. CASE f.on \in LBs
    <3>1. f.on = l
      BY <1>1, <2>2 DEF LbOfFlow
    <3> QED
      BY <1>1, <1>2, <3>1, FailLbPool
  <2> QED
    BY <1>3, <2>1, <2>2 DEF Shape, PoolShape, LbShape
<1>10. ASSUME NEW p \in Under(l) PROVE Buried(p)'
  <2>1. p \in Pools /\ LbOf[p] = l /\ Buried(p)
    BY <1>5, <1>10 DEF Under, LbOK
  <2>2. lb'[l] = "GONE" => lb[l] = "GONE"
    BY <1>3, <1>4 DEF Set
  <2>3. ~HasRow(pool[p]) => pool'[p] = pool[p]
    BY <1>3, <1>4, <2>1 DEF Set
  <2> QED
    BY <2>1, <2>2, <2>3 DEF Buried
<1>11. FlowOK(g)'
  <2>1. ASSUME g.on \in Pools PROVE PoolStatus(g)' /\ PoolGood(g)'
    <3>1. g.op = "delete_pool" \/ pool[g.on] # "DELETING"
      BY <1>3, <1>5, <2>1
    <3>2. g.op = "delete_pool" \/ pool'[g.on] # "DELETING"
      BY <1>3, <1>4, <2>1, <3>1 DEF Set
    <3> QED
      BY <1>3, <3>2 DEF PoolStatus, PoolGood
  <2>2. ASSUME g.on \in LBs, NEW p \in Under(g.on) PROVE LbStatus(g, p)' /\ LbGood(g, p)'
    <3>1. g.on = l
      BY <1>1, <1>3, <2>2 DEF LbOfFlow
    <3>2. f.on = l /\ p \in Under(l)
      BY <1>3, <2>2, <3>1
    <3>3. g.op = "create_lb" => pool'[p] \in {"PENDING", "ERROR"}
      BY <1>1, <1>2, <1>3, <3>2, FailLbPool
    <3> QED
      BY <1>3, <3>3 DEF LbStatus, LbGood
  <2> QED
    BY <2>1, <2>2 DEF FlowOK
<1> QED
  BY <1>2, <1>3, <1>5, <1>8, <1>9, <1>10, <1>11, LbStep

LEMMA FailRecorded ==
  ASSUME ShapeAssumption, ServedInv, NEW u \in Slots, Fail(u)
  PROVE  Recorded(flow'[u])
<1>1. PICK f \in Flows : f = flow[u]
  BY DEF ServedInv, Inv, FlowInv
<1>2. PICK g \in Flows : g = flow'[u]
  BY FailStep DEF ServedInv
<1>3. /\ Shape(f) /\ g.step = "revert" /\ g.op = f.op /\ Recorded(f)
      /\ g.done = (IF f.step = "run" THEN Done(f) ELSE f.done)
  BY <1>1, <1>2, FailStep DEF ServedInv
<1>4. ASSUME f.op \in HmOps \cup {"delete_lb"}, NEW t \in g.done PROVE t.do # "persist"
  <2>1. t \in f.done => t.do # "persist"
    BY <1>3, <1>4 DEF Recorded
  <2>2. f.cur \in Objects
    BY <1>3 DEF Shape, PoolShape, LbShape, Objects, Under
  <2>3. t \in f.done \/ Doing(f, t.do)
    BY <1>3, <1>4, <2>2, DoneIs
  <2>4. Doing(f, t.do) => Place(f.op, f.cur = f.on, t.do, f.pc)
    BY <1>3, Places
  <2>5. Doing(f, t.do) => t.do # "persist"
    BY <1>4, <2>4 DEF Place, HmOps
  <2> QED
    BY <2>1, <2>3, <2>5
<1>5. Recorded(g)
  BY <1>3, <1>4 DEF Recorded
<1> QED
  BY <1>2, <1>5

LEMMA FailServed ==
  ASSUME ShapeAssumption, ServedInv, NEW u \in Slots, Fail(u)
  PROVE  ServedInv'
<1>1. PICK f \in Flows : f = flow[u]
  BY DEF ServedInv, Inv, FlowInv
<1>2. PICK g \in Flows : g = flow'[u]
  BY FailStep DEF ServedInv
<1>3. /\ Shape(f) /\ Shape(g) /\ f.step \in {"queued", "run"} /\ g.step = "revert"
      /\ g.op = f.op /\ g.on = f.on /\ Only(u) /\ FlowInv /\ FlowInv' /\ Inv /\ Inv'
      /\ g.last = f.last /\ g.seen = f.seen
      /\ pool \in [Pools -> Statuses] /\ lb \in [LBs -> Statuses]
  BY <1>1, <1>2, FailStep, FailTypes DEF ServedInv, Inv, TypeOK
<1>4. PICK l \in LBs : l = LbOfFlow(f)
  <2>1. flow[u].step # "idle"
    BY <1>1, <1>3
  <2>2. LbOfFlow(flow[u]) \in LBs
    BY <1>3, <2>1, FlowKinds
  <2> QED
    BY <1>1, <2>2
<1>5. /\ pool' = Set(pool, Did(g, "pool_active") \cup Did(g, "deleting"), "ERROR")
      /\ lb' = IF Did(g, "active") # {} THEN Set(lb, {l}, "ERROR") ELSE lb
      /\ UNCHANGED <<sp, revived>> /\ halfway \subseteq halfway' /\ overlapped \subseteq overlapped'
      /\ \A p : SameService(p)
      /\ g.op = "delete_pool" => g.on \in halfway'
      /\ g.op = "delete_lb" => \A t \in g.done : t.on \in Pools => t.on \in halfway'
  <2>1. l = LbOfFlow(flow[u])
    BY <1>1, <1>4
  <2>2. overlapped' = IF On(l) # {u} THEN overlapped \cup {l} ELSE overlapped
    BY <1>2, <1>3, <2>1, FailEffects
  <2>3. overlapped \subseteq overlapped'
    BY <2>2
  <2> QED
    BY <1>2, <1>3, <2>1, <2>3, FailEffects
<1>6. \A s \in Slots : flow'[s].on = flow[s].on
  BY <1>1, <1>2, <1>3 DEF Only
<1>7. ASSUME NEW p \in Pools PROVE Fresh(p)'
  <2>1. Fresh(p) /\ LbOf[p] \in LBs
    BY DEF ServedInv, ShapeAssumption
  <2>2. pool'[p] = "NEW" <=> pool[p] = "NEW"
    BY <1>3, <1>5 DEF Set, HasRow
  <2>3. lb'[LbOf[p]] = "NEW" => lb[LbOf[p]] = "NEW"
    BY <1>3, <1>5, <2>1 DEF Set
  <2> QED
    BY <1>5, <1>6, <2>1, <2>2, <2>3 DEF Fresh
<1>8. ASSUME NEW q \in Pools, Settled(LbOf[q])', pool[q] \in {"DELETING", "GONE"}
      PROVE  pool'[q] \in {"DELETING", "GONE"} \/ q \in halfway'
  <2>1. CASE q \notin Did(g, "pool_active") \cup Did(g, "deleting")
    BY <1>3, <1>5, <1>8, <2>1 DEF Set
  <2>2. CASE q \in Did(g, "pool_active") \cup Did(g, "deleting")
    <3>1. /\ \E t \in g.done : t.on = q
          /\ g.on \in Pools => q = g.on
          /\ LbOf[q] = LbOfFlow(g)
      BY <1>3, <2>2, DidWhere
    <3>2. LbOf[q] = l
      BY <1>3, <1>4, <3>1 DEF LbOfFlow
    <3>3. CASE g.on \in Pools
      <4>1. f.op = "delete_pool" \/ pool[q] # "DELETING"
        BY <1>1, <1>3, <1>4, <1>8, <3>1, <3>2, <3>3, FailPool
      <4>2. pool[q] = "GONE" => pool'[q] = "GONE"
        BY <1>3, <1>5 DEF Set, HasRow
      <4> QED
        BY <1>3, <1>5, <1>8, <3>1, <3>3, <4>1, <4>2
    <3>4. CASE g.on \in LBs
      <4>1. f.on = l /\ q \in Under(l) /\ f.op \in LbOps
        BY <1>3, <1>4, <3>2, <3>4 DEF LbOfFlow, Under, Shape, PoolShape, LbShape, ShapeAssumption
      <4>2. f.op = "create_lb" => pool[q] # "DELETING"
        BY <1>1, <1>2, <1>4, <1>8, <3>2, <4>1, FailLbPool
      <4>3. pool[q] = "GONE" => pool'[q] = "GONE"
        BY <1>3, <1>5 DEF Set, HasRow
      <4> QED
        BY <1>3, <1>5, <1>8, <3>1, <4>1, <4>2, <4>3 DEF LbOps
    <3> QED
      BY <1>3, <3>3, <3>4 DEF Shape, PoolShape, LbShape
  <2> QED
    BY <2>1, <2>2
<1>9. \A h \in Flows : h = flow'[u] => Half(h)'
  BY <1>2, <1>5 DEF Half
<1>10. ASSUME NEW k \in LBs PROVE LbOK(k)'
  <2>1. CASE k = l
    BY <1>1, <1>4, <2>1, FailLb
  <2>2. CASE k # l
    <3>1. lb'[k] = lb[k]
      BY <1>3, <1>5, <2>2 DEF Set
    <3>2. ASSUME NEW p \in Under(k) PROVE Untouched(p)
      <4>1. p \in Pools /\ LbOf[p] = k /\ LbOfFlow(g) = l
        BY <1>3, <1>4, <3>2 DEF Under, LbOfFlow
      <4>2. p \notin Did(g, "pool_active") \cup Did(g, "deleting")
        BY <1>3, <2>2, <4>1, DidWhere
      <4>3. pool'[p] = pool[p]
        BY <1>3, <1>5, <4>1, <4>2 DEF Set
      <4> QED
        BY <1>5, <4>3 DEF Untouched
    <3>3. LbOfFlow(flow[u]) # k /\ LbOfFlow(flow'[u]) # k
      BY <1>1, <1>2, <1>3, <1>4, <2>2 DEF LbOfFlow
    <3> QED
      BY <1>3, <1>5, <3>1, <3>2, <3>3, LbFrame DEF ServedInv
  <2> QED
    BY <2>1, <2>2
<1>11. Recorded(flow'[u])
  BY FailRecorded
<1>12. flow'[u].last => flow[u].last /\ flow'[u].seen = flow[u].seen
  BY <1>1, <1>2, <1>3
<1> QED
  BY <1>3, <1>5, <1>7, <1>8, <1>9, <1>10, <1>11, <1>12, ServedStep

-----------------------------------------------------------------------------
(* The reverts: what they write, and of which pools.                       *)
LEMMA RevertEffects ==
  ASSUME ShapeAssumption, Inv, NEW u \in Slots, Revert(u), NEW f \in Flows, f = flow[u],
         NEW l, l = LbOfFlow(f)
  PROVE  /\ Shape(f) /\ f.step = "revert" /\ flow'[u] = Idle /\ Only(u) /\ Inv'
         /\ lb' = Set(lb, {l}, IF f.on \in LBs THEN "ERROR" ELSE "ACTIVE")
         /\ f.op = "create_lb" => pool' = Set(pool, {t.on : t \in f.done} \cap Pools, "ERROR")
         /\ f.op = "delete_lb" => pool' = pool
         /\ f.op \in PoolOps => pool' = Set(pool, {f.on}, "ERROR")
         /\ f.op \in HmOps => pool' = Set(pool, {f.on}, "ACTIVE")
         /\ overlapped' = IF On(l) # {u} THEN overlapped \cup {l} ELSE overlapped
         /\ UNCHANGED <<sp, raced, revived, halfway>>
<1>1. /\ flow'[u] = Idle /\ Only(u) /\ Inv' /\ f.step = "revert"
  BY RevertTypes, RevertDevice
<1>2. Shape(f)
  BY <1>1, IdleIs DEF Inv, FlowInv
<1>3. LbAt(u) = l
  BY DEF LbAt, LbOfFlow
<1>4. EndInError(f, l) /\ Overlap(u) /\ UNCHANGED <<sp, raced, revived, halfway>>
  BY <1>3 DEF Revert
<1>5. /\ lb' = Set(lb, {l}, IF f.on \in LBs THEN "ERROR" ELSE "ACTIVE")
      /\ pool' = CASE f.op = "create_lb" -> Set(pool, {t.on : t \in f.done} \cap Pools, "ERROR")
                   [] f.op = "delete_lb" -> pool
                   [] f.op \in {"create_pool", "update_pool", "delete_pool"} -> Set(pool, {f.on}, "ERROR")
                   [] OTHER -> Set(pool, {f.on}, "ACTIVE")
  BY <1>4 DEF EndInError
<1>6. f.op = "create_lb" => pool' = Set(pool, {t.on : t \in f.done} \cap Pools, "ERROR")
  BY <1>5
<1>7. f.op = "delete_lb" => pool' = pool
  BY <1>5
<1>8. f.op \in PoolOps => pool' = Set(pool, {f.on}, "ERROR")
  <2>1. f.op \in PoolOps => f.op \notin {"create_lb", "delete_lb"}
    BY DEF PoolOps
  <2> QED
    BY <1>5, <2>1 DEF PoolOps
<1>9. f.op \in HmOps => pool' = Set(pool, {f.on}, "ACTIVE")
  <2>1. f.op \in HmOps => f.op \notin {"create_lb", "delete_lb", "create_pool", "update_pool", "delete_pool"}
    BY DEF HmOps
  <2> QED
    BY <1>5, <2>1
<1> QED
  BY <1>1, <1>2, <1>3, <1>4, <1>5, <1>6, <1>7, <1>8, <1>9 DEF Overlap

LEMMA RevertService ==
  ASSUME ShapeAssumption, Inv, NEW u \in Slots, Revert(u), NEW f \in Flows, f = flow[u],
         NEW p \in Pools, UNCHANGED <<sp, raced>>,
         f.op \in {"create_pool", "create_lb"} => p \notin Did(f, "group"),
         p \notin Did(f, "persist"), f.op = "create_lb" => LbOf[p] # f.on
  PROVE  SameService(p)
<1>1. PICK kept : /\ groups' = groups \ (RevertGroups(f) \ kept)
                  /\ pers' = pers \ (RevertPers(u) \ kept)
  BY RevertDevice
<1>2. p \notin RevertGroups(f) /\ p \notin RevertPers(u)
  BY DEF RevertGroups, RevertPers
<1>3. (p \in groups' <=> p \in groups) /\ (p \in pers' <=> p \in pers)
  BY <1>1, <1>2
<1>4. ASSUME p \in Default
      PROVE  /\ front'[p].group = front[p].group /\ front'[p].pers = front[p].pers
             /\ front'[p].proxy = front[p].proxy
  <2>1. /\ front'[p].group = (front[p].group /\ p \in groups')
        /\ front'[p].pers = (front[p].pers /\ p \in pers')
        /\ front'[p].proxy = front[p].proxy
    BY <1>4, RevertDevice
  <2>2. /\ front[p].group => p \in groups
        /\ front[p].pers => p \in pers
        /\ front[p] \in Fronts
    BY <1>4 DEF Inv, TypeOK
  <2>3. front[p].group \in BOOLEAN /\ front[p].pers \in BOOLEAN
    BY <2>2 DEF Fronts
  <2> QED
    BY <1>3, <2>1, <2>2, <2>3
<1> QED
  BY <1>3, <1>4 DEF SameService

(* The pools of other load balancers stay as they are.                     *)
LEMMA RevertElsewhere ==
  ASSUME ShapeAssumption, Inv, NEW u \in Slots, Revert(u), NEW f \in Flows, f = flow[u],
         NEW p \in Pools, LbOf[p] # LbOfFlow(f)
  PROVE  Untouched(p)
<1>1. /\ Shape(f) /\ pool \in [Pools -> Statuses] /\ UNCHANGED <<sp, raced>>
      /\ f.op = "create_lb" => pool' = Set(pool, {t.on : t \in f.done} \cap Pools, "ERROR")
      /\ f.op = "delete_lb" => pool' = pool
      /\ f.op \in PoolOps => pool' = Set(pool, {f.on}, "ERROR")
      /\ f.op \in HmOps => pool' = Set(pool, {f.on}, "ACTIVE")
  BY RevertEffects DEF Inv, TypeOK
<1>2. \A do : p \notin Did(f, do)
  BY <1>1, DidWhere
<1>3. f.op = "create_lb" => LbOf[p] # f.on
  BY <1>1 DEF Shape, PoolShape, LbShape, LbOfFlow, PoolOps, HmOps
<1>4. SameService(p)
  BY <1>1, <1>2, <1>3, RevertService
<1>5. pool'[p] = pool[p]
  <2>1. CASE PoolShape(f)
    <3>1. f.on \in Pools /\ f.on \notin LBs /\ p # f.on /\ f.op \in PoolOps \cup HmOps
      BY <2>1 DEF PoolShape, ShapeAssumption, LbOfFlow
    <3> QED
      BY <1>1, <3>1 DEF Set
  <2>2. CASE LbShape(f)
    <3>1. f.op \in LbOps /\ \A t \in f.done : t.on # p
      BY <2>2 DEF LbShape, LbOfFlow, Under, ShapeAssumption
    <3> QED
      BY <1>1, <3>1 DEF Set, LbOps
  <2> QED
    BY <1>1, <2>1, <2>2 DEF Shape
<1> QED
  BY <1>4, <1>5 DEF Untouched

LEMMA RevertPool ==
  ASSUME ShapeAssumption, ServedInv, NEW u \in Slots, Revert(u), NEW f \in Flows, f = flow[u],
         NEW l \in LBs, LbOfFlow(f) = l, Settled(l)'
  PROVE  /\ On(l) = {u} /\ LbOK(l) /\ Settled(l) /\ Works(f) /\ FlowOK(f) /\ lb[l] # "NEW"
         /\ On(l)' = {}
<1>1. /\ Shape(f) /\ f.step = "revert" /\ flow'[u] = Idle /\ Only(u) /\ FlowInv
      /\ overlapped' = IF On(l) # {u} THEN overlapped \cup {l} ELSE overlapped
  BY RevertEffects DEF ServedInv, Inv
<1>2. On(l) = {u} /\ Settled(l)
  BY <1>1 DEF Settled
<1>3. LbOK(l) /\ u \in On(l) /\ Works(f)
  BY <1>1, <1>2 DEF ServedInv, Works, Trails
<1>4. FlowOK(f) /\ lb[l] # "NEW"
  BY <1>2, <1>3 DEF LbOK, Exclusive
<1>5. On(l)' = {}
  <2> SUFFICES ASSUME NEW t \in On(l)' PROVE FALSE
    OBVIOUS
  <2>1. t \in Slots /\ flow'[t].step # "idle" /\ LbOfFlow(flow'[t]) = l
    BY OnIs
  <2>2. t # u
    BY <1>1, <2>1, IdleIs
  <2>3. t \in On(l)
    BY <1>1, <2>1, <2>2, OnIs DEF Only
  <2> QED
    BY <1>2, <2>2, <2>3
<1> QED
  BY <1>2, <1>3, <1>4, <1>5

(* What the flow of a pool leaves of the pools of its load balancer.       *)
LEMMA RevertOwnPool ==
  ASSUME ShapeAssumption, ServedInv, NEW u \in Slots, Revert(u), NEW f \in Flows, f = flow[u],
         NEW l \in LBs, LbOfFlow(f) = l, Settled(l)', f.on \in Pools, NEW p \in Under(l)
  PROVE  /\ pool'[p] \in {"NEW", "ACTIVE", "ERROR", "GONE"}
         /\ pool'[p] = "ACTIVE" /\ <<"pool", p>> \notin revived' => Good(p)'
         /\ ~HasRow(pool[p]) => pool'[p] = pool[p]
<1>1. /\ Shape(f) /\ f.step = "revert" /\ pool \in [Pools -> Statuses] /\ UNCHANGED <<sp, raced, revived>>
      /\ f.op \in PoolOps => pool' = Set(pool, {f.on}, "ERROR")
      /\ f.op \in HmOps => pool' = Set(pool, {f.on}, "ACTIVE")
      /\ FlowInv /\ Inv
  BY RevertEffects DEF ServedInv, Inv, TypeOK
<1>2. On(l) = {u} /\ LbOK(l) /\ Settled(l) /\ Works(f) /\ FlowOK(f)
  BY RevertPool
<1>3. /\ p \in Pools /\ LbOf[p] = l /\ p # l /\ l \notin Pools /\ f.on \notin LBs
      /\ f.op \in PoolOps \cup HmOps
  BY <1>1 DEF Under, ShapeAssumption, Shape, PoolShape, LbShape
<1>4. /\ \A t \in Slots \ {u} : flow[t].on \notin {p, l}
      /\ GoodPool(p) /\ Calm(p)
  BY <1>1, <1>2, LonelyFlow DEF LbOK
<1>5. \A t \in Slots : ~Unserved(flow[t], p)
  BY <1>3, <1>4 DEF Unserved
<1>6. f.op \in PoolOps <=> f.op \notin HmOps
  BY <1>3 DEF PoolOps, HmOps
<1>7. CASE p # f.on
  <2>1. pool'[p] = pool[p]
    BY <1>1, <1>3, <1>7 DEF Set
  <2>2. Free(p)
    BY <1>3, <1>4, <1>7 DEF Free
  <2>3. pool[p] \in {"NEW", "ACTIVE", "ERROR", "GONE"}
    BY <1>2, <1>3, <1>4, <2>2 DEF Calm
  <2>4. SameService(p)
    <3>1. \A do : p \notin Did(f, do)
      BY <1>1, <1>7, DidWhere
    <3>2. f.op # "create_lb"
      BY <1>3 DEF PoolOps, HmOps
    <3> QED
      BY <1>1, <1>3, <3>1, <3>2, RevertService
  <2>5. pool[p] = "ACTIVE" /\ <<"pool", p>> \notin revived => Good(p)
    BY <1>4, <1>5 DEF GoodPool
  <2> QED
    BY <1>1, <2>1, <2>3, <2>4, <2>5, GoodStays DEF Lives
<1>8. CASE p = f.on /\ f.op \in PoolOps
  <2>1. pool'[p] = IF HasRow(pool[p]) THEN "ERROR" ELSE pool[p]
    BY <1>1, <1>3, <1>8 DEF Set
  <2> QED
    BY <1>1, <1>3, <2>1 DEF HasRow, Statuses
<1>9. CASE p = f.on /\ f.op \in HmOps
  <2>1. pool'[p] = IF HasRow(pool[p]) THEN "ACTIVE" ELSE pool[p]
    BY <1>1, <1>3, <1>9 DEF Set
  <2>2. pool[p] # "DELETING"
    <3>1. PoolStatus(f)
      BY <1>2, <1>3, <1>9 DEF FlowOK
    <3> QED
      BY <1>1, <1>9, <3>1 DEF PoolStatus, HmOps
  <2>3. SameService(p)
    <3>1. p \notin Did(f, "persist")
      <4>1. Recorded(f)
        BY DEF ServedInv
      <4> QED
        BY <1>9, <4>1 DEF Recorded, Did
    <3>2. f.op \notin {"create_pool", "create_lb"}
      BY <1>9 DEF HmOps
    <3> QED
      BY <1>1, <1>3, <3>1, <3>2, RevertService
  <2>4. Lives(pool[p]) /\ <<"pool", p>> \notin revived => Good(p)
    BY <1>2, <1>4, <1>9 DEF GoodPool
  <2>5. pool'[p] = "ACTIVE" => Lives(pool[p])
    BY <2>1, <2>2 DEF Lives, HasRow
  <2>6. pool'[p] = "ACTIVE" /\ <<"pool", p>> \notin revived => Good(p)'
    BY <2>3, <2>4, <2>5, GoodStays
  <2> QED
    BY <1>1, <1>3, <2>1, <2>6 DEF HasRow, Statuses
<1> QED
  BY <1>3, <1>7, <1>8, <1>9

(* That of a load balancer.                                                *)
LEMMA RevertLbPool ==
  ASSUME ShapeAssumption, ServedInv, NEW u \in Slots, Revert(u), NEW f \in Flows, f = flow[u],
         NEW l \in LBs, f.on = l, Settled(l)', NEW p \in Under(l)
  PROVE  /\ pool'[p] = "ACTIVE" /\ <<"pool", p>> \notin revived' => Good(p)'
         /\ ~HasRow(pool[p]) => pool'[p] = pool[p]
         /\ f.op = "create_lb" => pool[p] \in {"PENDING", "ERROR"}
<1>1. /\ Shape(f) /\ f.step = "revert" /\ pool \in [Pools -> Statuses] /\ UNCHANGED <<sp, raced, revived>>
      /\ f.op = "create_lb" => pool' = Set(pool, {t.on : t \in f.done} \cap Pools, "ERROR")
      /\ f.op = "delete_lb" => pool' = pool
      /\ FlowInv /\ Inv
  BY RevertEffects DEF ServedInv, Inv, TypeOK
<1>2. On(l) = {u} /\ LbOK(l) /\ Settled(l) /\ Works(f) /\ FlowOK(f)
  <2>1. LbOfFlow(f) = l
    BY DEF LbOfFlow
  <2> QED
    BY <2>1, RevertPool
<1>3. /\ p \in Pools /\ LbOf[p] = l /\ l \notin Pools /\ f.op \in {"create_lb", "delete_lb"}
  BY <1>1 DEF Under, ShapeAssumption, Shape, PoolShape, LbShape, LbOps
<1>4. /\ \A t \in Slots \ {u} : flow[t].on \notin {p, l}
      /\ GoodPool(p) /\ LbStatus(f, p)
  BY <1>1, <1>2, LonelyFlow DEF LbOK, FlowOK
<1>5. CASE f.op = "create_lb"
  <2>1. pool[p] \in {"PENDING", "ERROR"}
    BY <1>1, <1>4, <1>5 DEF LbStatus
  <2>2. pool'[p] \in {"PENDING", "ERROR"}
    BY <1>1, <1>3, <1>5, <2>1 DEF Set
  <2> QED
    BY <2>1, <2>2 DEF HasRow
<1>6. CASE f.op = "delete_lb"
  <2>1. SameService(p)
    <3>1. p \notin Did(f, "persist")
      <4>1. Recorded(f)
        BY DEF ServedInv
      <4> QED
        BY <1>6, <4>1 DEF Recorded, Did
    <3>2. f.op \notin {"create_pool", "create_lb"}
      BY <1>6
    <3> QED
      BY <1>1, <1>3, <3>1, <3>2, RevertService
  <2>2. \A t \in Slots : ~Unserved(flow[t], p)
    BY <1>3, <1>4, <1>6 DEF Unserved
  <2>3. pool[p] = "ACTIVE" /\ <<"pool", p>> \notin revived => Good(p)
    BY <1>4, <2>2 DEF GoodPool
  <2> QED
    BY <1>1, <1>6, <2>1, <2>3, GoodStays DEF Lives
<1> QED
  BY <1>3, <1>5, <1>6

LEMMA RevertLb ==
  ASSUME ShapeAssumption, ServedInv, NEW u \in Slots, Revert(u), NEW l \in LBs, LbOfFlow(flow[u]) = l
  PROVE  LbOK(l)'
<1> SUFFICES ASSUME Settled(l)' PROVE LbOK(l)'
  BY DEF LbOK
<1>1. PICK f \in Flows : f = flow[u]
  BY DEF ServedInv, Inv, FlowInv
<1>2. /\ Shape(f) /\ flow'[u] = Idle /\ Only(u) /\ FlowInv
      /\ lb' = Set(lb, {l}, IF f.on \in LBs THEN "ERROR" ELSE "ACTIVE")
      /\ lb \in [LBs -> Statuses] /\ pool \in [Pools -> Statuses]
  <2>1. Inv /\ FlowInv /\ lb \in [LBs -> Statuses] /\ pool \in [Pools -> Statuses]
    BY DEF ServedInv, Inv, TypeOK
  <2>2. l = LbOfFlow(f)
    BY <1>1
  <2>3. PICK k : k = LbOfFlow(f)
    OBVIOUS
  <2>5. lb' = Set(lb, {k}, IF f.on \in LBs THEN "ERROR" ELSE "ACTIVE")
    BY <1>1, <2>1, <2>3, RevertEffects
  <2>4. Shape(f) /\ flow'[u] = Idle /\ Only(u)
    BY <1>1, <2>1, <2>2, RevertEffects
  <2> QED
    BY <2>1, <2>2, <2>3, <2>4, <2>5
<1>3. On(l) = {u} /\ LbOK(l) /\ Settled(l) /\ lb[l] # "NEW" /\ On(l)' = {}
  BY <1>1, RevertPool
<1>4. Exclusive(l)'
  BY <1>3 DEF Exclusive
<1>5. lb'[l] = "GONE" <=> lb[l] = "GONE"
  BY <1>2 DEF Set, HasRow
<1>6. ASSUME NEW p \in Under(l) PROVE Calm(p)' /\ GoodPool(p)' /\ Buried(p)'
  <2>1. p \in Pools /\ LbOf[p] = l /\ Buried(p) /\ p # l
    BY <1>3, <1>6 DEF Under, LbOK, ShapeAssumption
  <2>2. f.on \in Pools \/ (f.on \in LBs /\ f.on = l)
    BY <1>1, <1>2 DEF LbOfFlow, Shape, PoolShape, LbShape
  <2>3. /\ pool'[p] = "ACTIVE" /\ <<"pool", p>> \notin revived' => Good(p)'
        /\ ~HasRow(pool[p]) => pool'[p] = pool[p]
    BY <1>1, <1>6, <2>2, RevertOwnPool, RevertLbPool
  <2>4. \A t \in Slots : flow'[t].on # p
    BY <1>2, <1>3, <1>6, <2>1, LonelyFlow, IdleIs DEF Only
  <2>5. \/ pool'[p] \in {"NEW", "ACTIVE", "ERROR", "GONE"}
        \/ lb'[LbOf[p]] = "ERROR" /\ On(LbOf[p])' = {}
    <3>1. CASE f.on \in Pools
      BY <1>1, <1>6, <3>1, RevertOwnPool
    <3>2. CASE f.on = l
      <4>1. CASE HasRow(lb[l])
        BY <1>2, <1>3, <2>1, <3>2, <4>1 DEF Set
      <4>2. CASE ~HasRow(lb[l])
        <5>1. lb[l] = "GONE"
          BY <1>3, <4>2 DEF HasRow
        <5>2. pool'[p] = pool[p] /\ ~HasRow(pool[p])
          BY <2>1, <2>3, <5>1 DEF Buried
        <5> QED
          BY <5>2 DEF HasRow
      <4> QED
        BY <4>1, <4>2
    <3> QED
      BY <2>2, <3>1, <3>2
  <2>6. Calm(p)'
    BY <2>4, <2>5 DEF Calm
  <2>7. GoodPool(p)'
    BY <2>3, <2>4 DEF GoodPool
  <2>8. Buried(p)'
    BY <1>5, <2>1, <2>3 DEF Buried
  <2> QED
    BY <2>6, <2>7, <2>8
<1> QED
  BY <1>3, <1>4, <1>6 DEF LbOK

LEMMA RevertServed ==
  ASSUME ShapeAssumption, ServedInv, NEW u \in Slots, Revert(u)
  PROVE  ServedInv'
<1>1. PICK f \in Flows : f = flow[u]
  BY DEF ServedInv, Inv, FlowInv
<1>2. /\ Shape(f) /\ f.step = "revert" /\ flow'[u] = Idle /\ Only(u) /\ FlowInv /\ Inv'
      /\ lb \in [LBs -> Statuses] /\ pool \in [Pools -> Statuses]
      /\ UNCHANGED <<sp, raced, revived, halfway>>
      /\ f.op = "create_lb" => pool' = Set(pool, {t.on : t \in f.done} \cap Pools, "ERROR")
      /\ f.op = "delete_lb" => pool' = pool
      /\ f.op \in PoolOps => pool' = Set(pool, {f.on}, "ERROR")
      /\ f.op \in HmOps => pool' = Set(pool, {f.on}, "ACTIVE")
  <2>1. Inv /\ FlowInv /\ lb \in [LBs -> Statuses] /\ pool \in [Pools -> Statuses]
    BY DEF ServedInv, Inv, TypeOK
  <2> QED
    BY <1>1, <2>1, RevertEffects
<1>3. PICK l \in LBs : l = LbOfFlow(f)
  <2>1. LbOfFlow(flow[u]) \in LBs
    BY <1>1, <1>2, FlowKinds
  <2> QED
    BY <1>1, <2>1
<1>4. /\ lb' = Set(lb, {l}, IF f.on \in LBs THEN "ERROR" ELSE "ACTIVE")
      /\ overlapped' = IF On(l) # {u} THEN overlapped \cup {l} ELSE overlapped
  BY <1>1, <1>3, RevertEffects DEF ServedInv
<1>5. overlapped \subseteq overlapped'
  BY <1>4
<1>6. \/ f.op \in PoolOps \cup HmOps /\ f.on \in Pools /\ f.on \notin LBs
      \/ f.op \in {"create_lb", "delete_lb"} /\ f.on \in LBs
  BY <1>2 DEF Shape, PoolShape, LbShape, LbOps, ShapeAssumption
<1>7. \A p \in Pools : pool[p] \in {"NEW", "GONE"} => pool'[p] = pool[p]
  BY <1>2, <1>6 DEF Set, HasRow
<1>8. ASSUME NEW p \in Pools PROVE Fresh(p)'
  <2>1. Fresh(p) /\ LbOf[p] \in LBs
    BY DEF ServedInv, ShapeAssumption
  <2>2. pool'[p] = "NEW" <=> pool[p] = "NEW"
    BY <1>2, <1>6, <1>7 DEF Set
  <2>3. lb'[LbOf[p]] = "NEW" => lb[LbOf[p]] = "NEW"
    BY <1>2, <1>4, <2>1 DEF Set
  <2>4. \A s \in Slots : flow'[s].on = p => flow[s].on = p
    BY <1>2, IdleIs DEF Only
  <2> QED
    BY <1>2, <2>1, <2>2, <2>3, <2>4 DEF Fresh
<1>9. ASSUME NEW q \in Pools, Settled(LbOf[q])', pool[q] \in {"DELETING", "GONE"}
      PROVE  pool'[q] \in {"DELETING", "GONE"} \/ q \in halfway'
  <2>1. CASE pool[q] = "GONE"
    BY <1>7, <2>1
  <2>2. CASE pool[q] = "DELETING" /\ LbOf[q] # l
    <3>1. Untouched(q)
      BY <1>1, <1>3, <2>2, RevertElsewhere DEF ServedInv
    <3> QED
      BY <2>2, <3>1 DEF Untouched
  <2>3. CASE pool[q] = "DELETING" /\ LbOf[q] = l /\ f.on \in Pools
    <3>1. FlowOK(f) /\ Works(f)
      BY <1>1, <1>3, <1>9, <2>3, RevertPool
    <3>2. f.op = "delete_pool" \/ pool[f.on] # "DELETING"
      BY <1>2, <2>3, <3>1 DEF FlowOK, PoolStatus
    <3>3. f.op = "delete_pool" => f.on \in halfway'
      <4>1. Half(f)
        BY <1>1 DEF ServedInv
      <4> QED
        BY <1>2, <4>1 DEF Half
    <3>4. q # f.on => pool'[q] = pool[q]
      BY <1>2, <1>6, <2>3 DEF Set
    <3> QED
      BY <2>3, <3>2, <3>3, <3>4
  <2>4. CASE pool[q] = "DELETING" /\ LbOf[q] = l /\ f.on \in LBs
    <3>1. f.on = l /\ q \in Under(l)
      BY <1>3, <2>4 DEF LbOfFlow, Under
    <3>2. f.op # "create_lb"
      <4>1. Settled(l)'
        BY <1>9, <2>4 DEF Settled
      <4> QED
        BY <1>1, <2>4, <3>1, <4>1, RevertLbPool
    <3> QED
      BY <1>2, <1>6, <2>4, <3>2
  <2> QED
    BY <1>6, <1>9, <2>1, <2>2, <2>3, <2>4
<1>10. ASSUME NEW k \in LBs PROVE LbOK(k)'
  <2>1. CASE k = l
    BY <1>1, <1>3, <2>1, RevertLb
  <2>2. CASE k # l
    <3>1. lb'[k] = lb[k]
      BY <1>2, <1>4, <2>2 DEF Set
    <3>2. ASSUME NEW p \in Under(k) PROVE Untouched(p)
      BY <1>1, <1>3, <2>2, <3>2, RevertElsewhere DEF ServedInv, Under
    <3>3. LbOfFlow(flow[u]) # k /\ flow'[u].step = "idle" /\ FlowInv'
      BY <1>1, <1>2, <1>3, <2>2, IdleIs DEF Inv
    <3> QED
      BY <1>2, <1>5, <3>1, <3>2, <3>3, LbFrame DEF ServedInv
  <2> QED
    BY <2>1, <2>2
<1>11. Recorded(flow'[u]) /\ ~flow'[u].last /\ \A g \in Flows : g = flow'[u] => Half(g)'
  BY <1>2, IdleRecorded
<1> QED
  BY <1>2, <1>5, <1>8, <1>9, <1>10, <1>11, ServedStep

-----------------------------------------------------------------------------
(* A request is admitted when the flows of its load balancer only have to  *)
(* end.                                                                    *)
Queued(f) ==
    /\ f \in Flows /\ Shape(f) /\ f.step = "queued" /\ f.done = {} /\ ~f.last /\ ~AtEnd(f)

LEMMA QueuedIs ==
  ASSUME NEW f, Queued(f)
  PROVE  /\ Works(f) /\ ~Trails(f) /\ ~Closing(f) /\ f.step # "idle" /\ f.step # "revert"
         /\ Recorded(f)
<1>1. Recorded(f)
  BY DEF Queued, Recorded
<1> QED
  BY <1>1 DEF Queued, Works, Trails, Closing

LEMMA Admitted ==
  ASSUME ShapeAssumption, Inv, NEW u \in Slots, NEW f, Queued(f), Admit(u, f), NEW l, l = LbOfFlow(f)
  PROVE  /\ l \in LBs /\ flow[u] = Idle /\ flow'[u] = f /\ Only(u)
         /\ lb' = [lb EXCEPT ![l] = "PENDING"]
         /\ lb'[l] = "PENDING" /\ \A k \in LBs \ {l} : lb'[k] = lb[k]
         /\ overlapped \subseteq overlapped'
         /\ UNCHANGED <<groups, front, raced, halfway>>
         /\ u \notin On(l) /\ On(l)' = On(l) \cup {u}
<1>1. l \in LBs
  BY DEF LbOfFlow, Queued, Shape, PoolShape, LbShape, ShapeAssumption
<1>2. flow[u] = Idle /\ flow' = [flow EXCEPT ![u] = f]
  BY DEF Admit
<1>3. flow'[u] = f /\ Only(u)
  BY <1>2 DEF Inv, FlowInv, Only
<1>4. lb' = [lb EXCEPT ![l] = "PENDING"] /\ UNCHANGED <<device, raced, halfway>>
  BY DEF Admit, LbOfFlow
<1>5. lb'[l] = "PENDING" /\ \A k \in LBs \ {l} : lb'[k] = lb[k]
  BY <1>1, <1>4 DEF Inv, TypeOK
<1>6. overlapped \subseteq overlapped'
  BY DEF Admit
<1>7. u \notin On(l) /\ On(l)' = On(l) \cup {u}
  <2>1. flow[u].step = "idle" /\ flow'[u].step # "idle" /\ LbOfFlow(flow'[u]) = l
    BY <1>2, <1>3, IdleIs, QueuedIs
  <2>2. \A t \in Slots \ {u} : flow'[t] = flow[t]
    BY <1>3 DEF Only
  <2> QED
    BY <2>1, <2>2, OnIs
<1> QED
  BY <1>1, <1>2, <1>3, <1>4, <1>5, <1>6, <1>7 DEF device

LEMMA AdmittedAlone ==
  ASSUME ShapeAssumption, ServedInv, NEW u \in Slots, NEW f, Queued(f), Admit(u, f),
         NEW l \in LBs, l = LbOfFlow(f), lb[l] \in {"NEW", "ACTIVE", "ERROR"}, Settled(l)'
  PROVE  /\ Settled(l) /\ LbOK(l) /\ \A t \in On(l) : Trails(flow[t])
         /\ lb[l] \in {"NEW", "ERROR"} => On(l) = {}
         /\ \A p \in Under(l) : Free(p) /\ \A t \in Slots : ~Unserved(flow[t], p)
         /\ \A p \in Under(l), t \in Slots : Works(flow'[t]) /\ flow'[t].on = p => t = u
<1>1. /\ Inv /\ FlowInv /\ overlapped \subseteq overlapped' /\ Only(u)
  BY Admitted DEF ServedInv, Inv
<1>2. Settled(l) /\ LbOK(l) /\ Exclusive(l)
  BY <1>1 DEF Settled, ServedInv, LbOK
<1>3. \A t \in On(l) : flow[t].on # l /\ flow[t].step # "revert"
  <2>1. overlapped' = IF \E t \in On(l) : flow[t].on = l \/ flow[t].step = "revert"
                      THEN overlapped \cup {l} ELSE overlapped
    BY DEF Admit, LbOfFlow
  <2> QED
    BY <2>1 DEF Settled
<1>4. \A t \in On(l) : Trails(flow[t])
  <2> TAKE t \in On(l)
  <2>1. t \in Slots /\ flow[t].step # "idle" /\ LbOfFlow(flow[t]) = l
    BY OnIs
  <2>2. lb[l] = "ACTIVE"
    BY <1>2, <1>3 DEF Exclusive
  <2>3. Trails(flow[t]) \/ Closing(flow[t])
    BY <1>2, <2>2 DEF Exclusive
  <2>4. ~Closing(flow[t])
    <3>1. Closing(flow[t]) => flow[t].on \in LBs
      BY <1>1, <2>1, FlowKinds DEF Closing, PoolShape, LbShape, PoolOps, HmOps
    <3> QED
      BY <1>3, <2>1, <3>1 DEF LbOfFlow
  <2> QED
    BY <2>3, <2>4
<1>5. lb[l] \in {"NEW", "ERROR"} => On(l) = {}
  BY <1>2, <1>3 DEF Exclusive
<1>6. ASSUME NEW p \in Under(l), NEW t \in Slots, flow[t].on \in {p, l} PROVE Trails(flow[t])
  <2>1. p \in Pools /\ p \notin LBs /\ LbOf[p] = l
    BY DEF Under, ShapeAssumption
  <2>2. flow[t].step # "idle"
    BY <1>1, <1>6, <2>1, IdleIs DEF FlowInv, Shape
  <2>3. LbOfFlow(flow[t]) = l
    BY <1>6, <2>1 DEF LbOfFlow
  <2> QED
    BY <1>4, <2>2, <2>3, OnIs
<1>7. ASSUME NEW p \in Under(l) PROVE Free(p) /\ \A t \in Slots : ~Unserved(flow[t], p)
  <2>1. p \in Pools /\ LbOf[p] = l /\ l \notin Pools
    BY DEF Under, ShapeAssumption
  <2>2. Free(p)
    BY <1>6, <1>7, <2>1 DEF Free, Works
  <2>3. \A t \in Slots : ~Unserved(flow[t], p)
    BY <1>6, <1>7, <2>1 DEF Unserved, Trails
  <2> QED
    BY <2>2, <2>3
<1>8. ASSUME NEW p \in Under(l), NEW t \in Slots, Works(flow'[t]), flow'[t].on = p PROVE t = u
  <2>1. t # u => flow'[t] = flow[t]
    BY <1>1 DEF Only
  <2> QED
    BY <1>6, <1>8, <2>1 DEF Works
<1> QED
  BY <1>2, <1>4, <1>5, <1>7, <1>8

(* The rest of the invariant after a request.                              *)
LEMMA AdmitServed ==
  ASSUME ShapeAssumption, ServedInv, Inv', NEW u \in Slots, NEW f, Queued(f), Admit(u, f),
         NEW l \in LBs, l = LbOfFlow(f), LbOK(l)', revived \subseteq revived',
         \A p \in Pools : LbOf[p] # l => pool'[p] = pool[p] /\ (p \in sp' <=> p \in sp),
         \A p \in Pools : LbOf[p] = l /\ pool'[p] = "NEW" => pool[p] = "NEW" /\ p # f.on /\ (p \in sp' => p \in sp),
         \A p \in Pools : LbOf[p] = l /\ Settled(l)' /\ pool[p] \in {"DELETING", "GONE"} =>
                            pool'[p] = pool[p]
  PROVE  ServedInv'
<1>1. /\ Inv /\ FlowInv /\ FlowInv' /\ flow[u] = Idle /\ flow'[u] = f /\ Only(u)
      /\ lb'[l] = "PENDING" /\ \A k \in LBs \ {l} : lb'[k] = lb[k]
      /\ overlapped \subseteq overlapped'
      /\ UNCHANGED <<groups, front, raced, halfway>>
  BY Admitted DEF ServedInv, Inv
<1>2. f \in Flows /\ f.step = "queued" /\ ~f.last /\ Recorded(f)
  BY QueuedIs DEF Queued
<1>3. ASSUME NEW p \in Pools PROVE Fresh(p)'
  <2>1. Fresh(p) /\ LbOf[p] \in LBs
    BY DEF ServedInv, ShapeAssumption
  <2>2. \A t \in Slots : flow'[t] = flow[t] \/ t = u
    BY <1>1 DEF Only
  <2>3. CASE LbOf[p] # l
    <3>1. pool'[p] = pool[p] /\ (p \in sp' <=> p \in sp) /\ lb'[LbOf[p]] = lb[LbOf[p]]
      BY <1>1, <2>1, <2>3
    <3>2. f.on # p
      BY <2>3 DEF LbOfFlow, ShapeAssumption
    <3> QED
      BY <1>1, <2>1, <2>2, <3>1, <3>2 DEF Fresh
  <2>4. CASE LbOf[p] = l
    BY <1>1, <2>1, <2>2, <2>4 DEF Fresh
  <2> QED
    BY <2>3, <2>4
<1>4. ASSUME NEW q \in Pools, Settled(LbOf[q])', pool[q] \in {"DELETING", "GONE"}
      PROVE  pool'[q] \in {"DELETING", "GONE"}
  <2>1. LbOf[q] = l => Settled(l)'
    BY <1>4 DEF Settled
  <2> QED
    BY <1>4, <2>1
<1>5. ASSUME NEW k \in LBs PROVE LbOK(k)'
  <2>1. CASE k = l
    BY <2>1 DEF LbOK
  <2>2. CASE k # l
    <3>1. \A p \in Under(k) : Untouched(p)
      BY <1>1, <2>2 DEF Under, Untouched, SameService
    <3>2. flow[u].step = "idle" /\ LbOfFlow(flow'[u]) # k
      BY <1>1, <2>2, IdleIs
    <3> QED
      BY <1>1, <2>2, <3>1, <3>2, LbFrame DEF ServedInv
  <2> QED
    BY <2>1, <2>2
<1>6. \A g \in Flows : g = flow'[u] => Half(g)'
  BY <1>1, <1>2 DEF Half
<1>7. halfway \subseteq halfway' /\ Recorded(flow'[u]) /\ ~flow'[u].last
  BY <1>1, <1>2
<1> QED
  BY <1>1, <1>3, <1>4, <1>5, <1>6, <1>7, ServedStep

(* A request about a pool.                                                 *)
LEMMA AdmitPool ==
  ASSUME ShapeAssumption, ServedInv, Inv', NEW u \in Slots, NEW p \in Pools,
         NEW f, Queued(f), f.on = p, Admit(u, f), lb[LbOf[p]] = "ACTIVE", revived \subseteq revived',
         \A q \in Pools \ {p} : pool'[q] = pool[q] /\ (q \in sp' <=> q \in sp),
         pool'[p] \in {"PENDING", "DELETING"},
         Settled(LbOf[p])' /\ pool[p] \in {"DELETING", "GONE"} => pool'[p] = pool[p],
         Settled(LbOf[p])' => PoolStatus(f)' /\ PoolGood(f)',
         Settled(LbOf[p])' /\ f.op \in HmOps /\ <<"pool", p>> \notin revived' => Good(p)'
  PROVE  ServedInv'
<1>1. PICK l \in LBs : l = LbOf[p]
  BY DEF ShapeAssumption
<1>2. /\ l = LbOfFlow(f) /\ p \in Under(l) /\ p # l /\ p \notin LBs
      /\ f \in Flows /\ f.op # "create_lb" /\ f.step # "revert" /\ Works(f)
      /\ ~Trails(f) /\ ~Closing(f)
  <2>1. p \notin LBs /\ p # l
    BY <1>1 DEF ShapeAssumption
  <2>2. f.op # "create_lb"
    BY <2>1 DEF Queued, Shape, PoolShape, LbShape, PoolOps, HmOps
  <2> QED
    BY <1>1, <2>1, <2>2, QueuedIs DEF LbOfFlow, Under, Queued
<1>3. /\ Inv /\ FlowInv /\ FlowInv' /\ flow[u] = Idle /\ flow'[u] = f /\ Only(u)
      /\ lb'[l] = "PENDING"
      /\ UNCHANGED <<groups, front, raced, halfway>>
      /\ On(l)' = On(l) \cup {u}
  BY <1>2, Admitted DEF ServedInv, Inv
<1>4. \A q \in Pools \ {p} : Untouched(q)
  BY <1>3 DEF Untouched, SameService
<1>5. LbOK(l)'
  <2> SUFFICES ASSUME Settled(l)' PROVE LbOK(l)'
    BY DEF LbOK
  <2>1. /\ Settled(l) /\ LbOK(l) /\ \A t \in On(l) : Trails(flow[t])
        /\ \A q \in Under(l), t \in Slots : Works(flow'[t]) /\ flow'[t].on = q => t = u
    BY <1>1, <1>2, AdmittedAlone
  <2>2. Exclusive(l)'
    BY <1>2, <1>3, <2>1, ExclusiveStep
  <2>3. \A q \in Under(l) : Buried(q)'
    BY <1>3 DEF Buried, Under
  <2>4. ASSUME NEW q \in Under(l), q # p PROVE Calm(q)' /\ GoodPool(q)'
    <3>1. q \in Pools /\ LbOf[q] = l /\ Untouched(q) /\ lb[LbOf[q]] # "ERROR"
      BY <1>1, <1>4, <2>4 DEF Under
    <3>2. Away(flow[u], q) /\ Away(flow'[u], q)
      BY <1>2, <1>3, <2>4, <3>1, IdleIs DEF Away
    <3>3. Calm(q) /\ GoodPool(q)
      BY <2>1, <2>4 DEF LbOK
    <3> QED
      BY <1>3, <3>1, <3>2, <3>3, AwayAlike, PoolFrame
  <2>5. Calm(p)'
    BY <1>2, <1>3 DEF Calm, Free
  <2>6. GoodPool(p)'
    <3>1. \A t \in Slots : Works(flow'[t]) /\ flow'[t].on = p /\ flow'[t].op \in HmOps => f.op \in HmOps
      BY <1>2, <1>3, <2>1
    <3>2. f.op \in HmOps /\ <<"pool", p>> \notin revived' => Good(p)'
      BY <1>1 DEF Settled
    <3> QED
      BY <3>1, <3>2 DEF GoodPool
  <2>7. FlowOK(f)'
    <3>1. PoolStatus(f)' /\ PoolGood(f)'
      BY <1>1 DEF Settled
    <3> QED
      BY <1>2, <3>1 DEF FlowOK
  <2> QED
    BY <1>3, <2>1, <2>2, <2>3, <2>4, <2>5, <2>6, <2>7, LbStep
<1>6. \A q \in Pools : LbOf[q] # l => pool'[q] = pool[q] /\ (q \in sp' <=> q \in sp)
  BY <1>1
<1>7. \A q \in Pools : LbOf[q] = l /\ pool'[q] = "NEW" => pool[q] = "NEW" /\ q # f.on /\ (q \in sp' => q \in sp)
  OBVIOUS
<1>8. \A q \in Pools : LbOf[q] = l /\ Settled(l)' /\ pool[q] \in {"DELETING", "GONE"} => pool'[q] = pool[q]
  <2> SUFFICES ASSUME NEW q \in Pools, LbOf[q] = l, Settled(l)', pool[q] \in {"DELETING", "GONE"}
               PROVE  pool'[q] = pool[q]
    OBVIOUS
  <2>1. q = p => Settled(LbOf[p])'
    BY <1>1 DEF Settled
  <2> QED
    BY <2>1
<1> QED
  BY <1>2, <1>5, <1>6, <1>7, <1>8, AdmitServed

LEMMA PoolQueued ==
  ASSUME ShapeAssumption, NEW op \in PoolOps \cup HmOps, NEW p \in Pools, NEW persistent \in BOOLEAN,
         NEW mon \in SUBSET {p}, op \in HmOps => p \in mon,
         NEW f, f = PoolFlow(op, p, persistent, mon)
  PROVE  /\ Queued(f) /\ f.op = op /\ f.on = p /\ f.sp = persistent /\ f.step = "queued" /\ f.pc = 1
         /\ StatusAt(f) = IF op = "delete_pool" THEN "DELETING" ELSE "PENDING"
<1>1. /\ f \in Flows /\ Shape(f) /\ f.op = op /\ f.on = p /\ f.sp = persistent
      /\ f.cur = p /\ f.pc = 1 /\ f.done = {} /\ f.step = "queued" /\ f.rest = {} /\ ~f.last
  BY PoolFlowIs
<1>2. 1 < Len(Tasks(f)) /\ ~(1 > Len(Tasks(f)))
  <2> DEFINE n == Len(Tasks(f))
  <2>1. n \in {4, 5, 6, 8}
    BY <1>1, Lengths DEF PoolOps, HmOps
  <2> HIDE DEF n
  <2>2. 1 < n /\ ~(1 > n)
    BY <2>1
  <2> QED
    BY <2>2 DEF n
<1>3. ~AtEnd(f)
  BY <1>1, <1>2 DEF AtEnd, Ended
<1> QED
  BY <1>1, <1>2, <1>3 DEF Queued, StatusAt

(* A pool of a load balancer that is ACTIVE, when a request is admitted.   *)
LEMMA AdmittedCalm ==
  ASSUME ShapeAssumption, ServedInv, NEW u \in Slots, NEW f, Queued(f), Admit(u, f),
         NEW p \in Pools, f.on = p, lb[LbOf[p]] = "ACTIVE", Settled(LbOf[p])'
  PROVE  /\ pool[p] \in {"NEW", "ACTIVE", "ERROR", "GONE"}
         /\ pool[p] = "ACTIVE" /\ <<"pool", p>> \notin revived => Good(p)
<1>1. PICK l \in LBs : l = LbOf[p]
  BY DEF ShapeAssumption
<1>2. l = LbOfFlow(f) /\ p \in Under(l) /\ lb[l] = "ACTIVE" /\ Settled(l)'
  <2>1. p \notin LBs
    BY DEF ShapeAssumption
  <2> QED
    BY <1>1, <2>1 DEF LbOfFlow, Under, Settled
<1>3. LbOK(l) /\ Settled(l) /\ Free(p) /\ \A t \in Slots : ~Unserved(flow[t], p)
  BY <1>2, AdmittedAlone
<1>4. Calm(p) /\ GoodPool(p)
  BY <1>2, <1>3 DEF LbOK
<1> QED
  BY <1>1, <1>2, <1>3, <1>4 DEF Calm, GoodPool

LEMMA PoolRequests ==
  ASSUME ShapeAssumption, ServedInv, NEW u \in Slots, NEW p \in Pools,
         CreatePool(u, p) \/ UpdatePool(u, p) \/ DeletePool(u, p)
  PROVE  ServedInv'
<1>1. /\ Inv' /\ pool \in [Pools -> Statuses] /\ Fresh(p)
  BY RequestTypes DEF ServedInv, Inv, TypeOK
<1>2. CASE CreatePool(u, p)
  <2>1. PICK persistent \in BOOLEAN :
           /\ sp' = IF persistent THEN sp \cup {p} ELSE sp
           /\ Admit(u, PoolFlow("create_pool", p, persistent, {}))
    BY <1>2 DEF CreatePool
  <2>2. PICK f : f = PoolFlow("create_pool", p, persistent, {})
    OBVIOUS
  <2>3. /\ Queued(f) /\ f.op = "create_pool" /\ f.on = p /\ f.sp = persistent /\ f.step = "queued" /\ f.pc = 1
        /\ StatusAt(f) = "PENDING"
    <3>1. "create_pool" \in PoolOps \cup HmOps /\ "create_pool" \notin HmOps
      BY DEF PoolOps, HmOps
    <3> QED
      BY <2>2, <3>1, PoolQueued
  <2>4. /\ pool' = [pool EXCEPT ![p] = "PENDING"] /\ pool[p] = "NEW" /\ lb[LbOf[p]] = "ACTIVE"
        /\ revived' = revived /\ Admit(u, f)
    BY <1>2, <2>1, <2>2 DEF CreatePool
  <2>5. /\ \A q \in Pools \ {p} : pool'[q] = pool[q] /\ (q \in sp' <=> q \in sp)
        /\ pool'[p] = "PENDING" /\ (p \in sp' <=> persistent)
    BY <1>1, <2>1, <2>4 DEF Fresh
  <2>6. PoolStatus(f)' /\ PoolGood(f)'
    BY <2>3, <2>5 DEF PoolStatus, PoolGood
  <2>7. f.op \notin HmOps
    BY <2>3 DEF HmOps
  <2> QED
    BY <1>1, <2>3, <2>4, <2>5, <2>6, <2>7, AdmitPool
<1>3. CASE UpdatePool(u, p)
  <2>1. PICK persistent \in BOOLEAN : Admit(u, PoolFlow("update_pool", p, persistent, {}))
    BY <1>3 DEF UpdatePool
  <2>2. PICK f : f = PoolFlow("update_pool", p, persistent, {})
    OBVIOUS
  <2>3. /\ Queued(f) /\ f.op = "update_pool" /\ f.on = p /\ f.sp = persistent /\ f.step = "queued" /\ f.pc = 1
        /\ StatusAt(f) = "PENDING"
    <3>1. "update_pool" \in PoolOps \cup HmOps /\ "update_pool" \notin HmOps
      BY DEF PoolOps, HmOps
    <3> QED
      BY <2>2, <3>1, PoolQueued
  <2>4. /\ pool' = [pool EXCEPT ![p] = "PENDING"] /\ HasRow(pool[p]) /\ lb[LbOf[p]] = "ACTIVE"
        /\ revived' = revived /\ Admit(u, f) /\ sp' = sp
    BY <1>3, <2>1, <2>2 DEF UpdatePool
  <2>5. /\ \A q \in Pools \ {p} : pool'[q] = pool[q] /\ (q \in sp' <=> q \in sp)
        /\ pool'[p] = "PENDING"
    BY <1>1, <2>4
  <2>6. PoolStatus(f)' /\ PoolGood(f)'
    BY <2>3, <2>5 DEF PoolStatus, PoolGood
  <2>7. f.op \notin HmOps
    BY <2>3 DEF HmOps
  <2>8. Settled(LbOf[p])' => pool[p] \notin {"DELETING", "GONE"}
    BY <2>3, <2>4, AdmittedCalm DEF HasRow
  <2> QED
    BY <1>1, <2>3, <2>4, <2>5, <2>6, <2>7, <2>8, AdmitPool
<1>4. CASE DeletePool(u, p)
  <2>1. PICK f : f = PoolFlow("delete_pool", p, p \in sp, Monitored({p}))
    OBVIOUS
  <2>2. PICK persistent \in BOOLEAN : persistent = (p \in sp)
    BY Membership
  <2>3. /\ Queued(f) /\ f.op = "delete_pool" /\ f.on = p /\ f.step = "queued" /\ f.pc = 1
        /\ StatusAt(f) = "DELETING"
    <3>1. "delete_pool" \in PoolOps \cup HmOps /\ "delete_pool" \notin HmOps
      BY DEF PoolOps, HmOps
    <3>2. PICK mon \in SUBSET {p} : mon = Monitored({p})
      BY DEF Monitored
    <3>3. f = PoolFlow("delete_pool", p, persistent, mon)
      BY <2>1, <2>2, <3>2
    <3> QED
      BY <3>1, <3>3, PoolQueued
  <2>4. /\ pool' = [pool EXCEPT ![p] = "DELETING"] /\ HasRow(pool[p]) /\ lb[LbOf[p]] = "ACTIVE"
        /\ revived' = revived /\ Admit(u, f) /\ sp' = sp
    BY <1>4, <2>1 DEF DeletePool
  <2>5. /\ \A q \in Pools \ {p} : pool'[q] = pool[q] /\ (q \in sp' <=> q \in sp)
        /\ pool'[p] = "DELETING" /\ pool[p] # "GONE"
    BY <1>1, <2>4 DEF HasRow
  <2>6. PoolStatus(f)' /\ PoolGood(f)'
    BY <2>3, <2>5 DEF PoolStatus, PoolGood
  <2>7. f.op \notin HmOps
    BY <2>3 DEF HmOps
  <2> QED
    BY <1>1, <2>3, <2>4, <2>5, <2>6, <2>7, AdmitPool
<1> QED
  BY <1>2, <1>3, <1>4

LEMMA MonitorRequests ==
  ASSUME ShapeAssumption, ServedInv, NEW u \in Slots, NEW p \in Pools,
         CreateMonitor(u, p) \/ UpdateMonitor(u, p) \/ DeleteMonitor(u, p)
  PROVE  ServedInv'
<1>1. /\ Inv' /\ pool \in [Pools -> Statuses]
  BY RequestTypes DEF ServedInv, Inv, TypeOK
<1>2. PICK op \in HmOps : \E status : ChangeMonitor(u, op, p, status)
  BY DEF CreateMonitor, UpdateMonitor, DeleteMonitor, HmOps
<1>3. PICK f : f = PoolFlow(op, p, FALSE, {p})
  OBVIOUS
<1>4. /\ pool' = [pool EXCEPT ![p] = "PENDING"] /\ HasRow(pool[p]) /\ lb[LbOf[p]] = "ACTIVE"
      /\ revived \subseteq revived' /\ Admit(u, f) /\ sp' = sp
      /\ pool[p] = "ERROR" => <<"pool", p>> \in revived'
  BY <1>2, <1>3 DEF ChangeMonitor
<1>5. /\ Queued(f) /\ f.op = op /\ f.on = p /\ f.step = "queued" /\ f.pc = 1
      /\ StatusAt(f) = "PENDING"
  <2>1. op \in PoolOps \cup HmOps /\ op # "delete_pool"
    BY DEF HmOps
  <2>2. PICK persistent \in BOOLEAN : persistent = FALSE
    OBVIOUS
  <2>3. PICK mon \in SUBSET {p} : mon = {p}
    OBVIOUS
  <2>4. f = PoolFlow(op, p, persistent, mon) /\ p \in mon
    BY <1>3, <2>2, <2>3
  <2> QED
    BY <2>1, <2>4, PoolQueued
<1>6. /\ \A q \in Pools \ {p} : pool'[q] = pool[q] /\ (q \in sp' <=> q \in sp)
      /\ pool'[p] = "PENDING"
  BY <1>1, <1>4
<1>7. PoolStatus(f)' /\ PoolGood(f)'
  <2>1. f.op \notin {"create_pool", "update_pool"}
    BY <1>5 DEF HmOps
  <2> QED
    BY <1>5, <1>6, <2>1 DEF PoolStatus, PoolGood
<1>8. Settled(LbOf[p])' => pool[p] \notin {"DELETING", "GONE"}
  BY <1>4, <1>5, AdmittedCalm DEF HasRow
<1>9. ASSUME Settled(LbOf[p])', <<"pool", p>> \notin revived' PROVE Good(p)'
  <2>1. pool[p] = "ACTIVE" /\ Good(p)
    BY <1>4, <1>5, <1>9, AdmittedCalm DEF HasRow
  <2>2. SameService(p)
    <3>1. UNCHANGED <<groups, front, raced>>
      BY <1>4 DEF Admit, device
    <3> QED
      BY <1>4, <3>1, SameIfSame
  <2> QED
    BY <2>1, <2>2, GoodStays DEF Lives
<1> QED
  BY <1>1, <1>4, <1>5, <1>6, <1>7, <1>8, <1>9, AdmitPool

(* A request about a load balancer.                                        *)
LbWaits(f, op, l, pools) ==
    /\ Queued(f) /\ f.op = op /\ f.on = l /\ f.step = "queued" /\ f.pc \in {1, 4}
    /\ f.rest \cup {f.cur} = pools \/ (pools = {} /\ f.rest = {} /\ f.cur = l)
    /\ op = "delete_lb" => f.pc = 1

LEMMA LbQueued ==
  ASSUME ShapeAssumption, NEW op \in LbOps, NEW l \in LBs, NEW pools \in SUBSET Under(l),
         NEW mon \in SUBSET Pools, NEW f \in NextPart(LbFlow(op, l, pools, mon))
  PROVE  LbWaits(f, op, l, pools)
<1>1. /\ f \in Flows /\ Shape(f) /\ f.op = op /\ f.on = l
      /\ f.done = {} /\ f.step = "queued" /\ ~f.last
      /\ \/ pools = {} /\ f.rest = {} /\ f.cur = l /\ f.pc = 1
         \/ /\ f.cur \in pools /\ f.rest = pools \ {f.cur}
            /\ f.pc = IF op = "create_lb" /\ f.cur \notin mon THEN 4 ELSE 1
  <2>1. LbBegins(f, op, l, pools, mon)
    BY LbFlowIs
  <2> QED
    BY <2>1 DEF LbBegins
<1>2. l \notin Pools /\ l \notin pools
  BY DEF ShapeAssumption, Under
<1>3. ~AtEnd(f)
  BY <1>1, <1>2 DEF AtEnd
<1> QED
  BY <1>1, <1>3 DEF Queued, LbWaits

LEMMA AdmitLb ==
  ASSUME ShapeAssumption, ServedInv, Inv', NEW u \in Slots, NEW l \in LBs,
         NEW f, Queued(f), f.on = l, Admit(u, f), lb[l] \in {"NEW", "ACTIVE", "ERROR"},
         f.op = "create_lb" => lb[l] = "NEW", revived' = revived,
         \A p \in Pools : LbOf[p] # l => pool'[p] = pool[p] /\ (p \in sp' <=> p \in sp),
         \A p \in Under(l) : /\ pool'[p] = "NEW" => pool[p] = "NEW" /\ (p \in sp' => p \in sp)
                             /\ pool[p] \in {"DELETING", "GONE"} => pool'[p] = pool[p]
                             /\ LbStatus(f, p)' /\ LbGood(f, p)'
                             /\ pool'[p] = "ACTIVE" => pool[p] = "ACTIVE" /\ (p \in sp' <=> p \in sp)
  PROVE  ServedInv'
<1>1. /\ l = LbOfFlow(f) /\ l \notin Pools /\ f \in Flows /\ f.step # "revert" /\ Works(f)
      /\ ~Trails(f) /\ ~Closing(f)
  BY QueuedIs DEF LbOfFlow, Queued, ShapeAssumption
<1>2. /\ Inv /\ FlowInv /\ FlowInv' /\ flow[u] = Idle /\ flow'[u] = f /\ Only(u)
      /\ lb'[l] = "PENDING"
      /\ UNCHANGED <<groups, front, raced, halfway>>
      /\ On(l)' = On(l) \cup {u}
  BY <1>1, Admitted DEF ServedInv, Inv
<1>3. LbOK(l)'
  <2> SUFFICES ASSUME Settled(l)' PROVE LbOK(l)'
    BY DEF LbOK
  <2>1. /\ LbOK(l) /\ \A t \in On(l) : Trails(flow[t])
        /\ lb[l] \in {"NEW", "ERROR"} => On(l) = {}
        /\ \A p \in Under(l) : \A t \in Slots : ~Unserved(flow[t], p)
        /\ \A p \in Under(l), t \in Slots : Works(flow'[t]) /\ flow'[t].on = p => t = u
    BY <1>1, AdmittedAlone
  <2>2. Exclusive(l)'
    <3>1. f.op = "create_lb" => On(l)' = {u}
      BY <1>2, <2>1
    <3> QED
      BY <1>1, <1>2, <2>1, <3>1, ExclusiveStep
  <2>3. ASSUME NEW p \in Under(l) PROVE Calm(p)' /\ GoodPool(p)' /\ Buried(p)'
    <3>1. p \in Pools /\ LbOf[p] = l /\ p # l
      BY <1>1, <2>3 DEF Under
    <3>2. Calm(p)'
      BY <1>1, <1>2, <3>1 DEF Calm, Free
    <3>3. Buried(p)'
      BY <1>2, <3>1 DEF Buried
    <3>4. \A t \in Slots : ~(Works(flow'[t]) /\ flow'[t].on = p)
      BY <1>2, <2>1, <2>3, <3>1
    <3>5. ASSUME pool'[p] = "ACTIVE", <<"pool", p>> \notin revived PROVE Good(p)'
      <4>1. pool[p] = "ACTIVE" /\ (p \in sp' <=> p \in sp)
        BY <2>3, <3>5
      <4>2. GoodPool(p) /\ \A t \in Slots : ~Unserved(flow[t], p)
        BY <2>1, <2>3, <1>2 DEF LbOK, Settled, Admit
      <4>3. Good(p)
        BY <3>5, <4>1, <4>2 DEF GoodPool
      <4>4. SameService(p)
        BY <1>2, <4>1 DEF SameService
      <4> QED
        BY <4>1, <4>3, <4>4, GoodStays DEF Lives
    <3>6. GoodPool(p)'
      BY <3>4, <3>5 DEF GoodPool
    <3> QED
      BY <3>2, <3>3, <3>6
  <2>4. FlowOK(f)'
    BY <1>1 DEF FlowOK
  <2> QED
    BY <1>2, <2>1, <2>2, <2>3, <2>4, LbStep
<1>4. /\ \A p \in Pools : LbOf[p] = l /\ pool'[p] = "NEW" => pool[p] = "NEW" /\ p # f.on /\ (p \in sp' => p \in sp)
      /\ \A p \in Pools : LbOf[p] = l /\ Settled(l)' /\ pool[p] \in {"DELETING", "GONE"} =>
                            pool'[p] = pool[p]
  BY <1>1 DEF Under
<1> QED
  BY <1>1, <1>3, <1>4, AdmitServed

LEMMA LbRequests ==
  ASSUME ShapeAssumption, ServedInv, NEW u \in Slots, NEW l \in LBs,
         CreateLb(u, l) \/ DeleteLb(u, l)
  PROVE  ServedInv'
<1>1. /\ Inv' /\ pool \in [Pools -> Statuses] /\ \A p \in Pools : Fresh(p)
  BY RequestTypes DEF ServedInv, Inv, TypeOK
<1>2. CASE CreateLb(u, l)
  <2>1. PICK mon \in SUBSET Under(l), persistent \in SUBSET Under(l) :
          /\ sp' = sp \cup persistent
          /\ \E f \in NextPart(LbFlow("create_lb", l, Under(l), mon)) : Admit(u, f)
    BY <1>2 DEF CreateLb, Under
  <2>2. PICK f \in NextPart(LbFlow("create_lb", l, Under(l), mon)) : Admit(u, f)
    BY <2>1
  <2>3. /\ Queued(f) /\ f.op = "create_lb" /\ f.on = l /\ f.step = "queued" /\ f.pc \in {1, 4}
        /\ Under(l) \subseteq f.rest \cup {f.cur}
    <3> DEFINE S == Under(l)
    <3>1. "create_lb" \in LbOps /\ mon \in SUBSET Pools /\ S \in SUBSET Under(l)
      BY DEF LbOps, Under
    <3>2. f \in NextPart(LbFlow("create_lb", l, S, mon))
      OBVIOUS
    <3>3. Under(l) \subseteq S
      OBVIOUS
    <3> HIDE DEF S
    <3>4. LbWaits(f, "create_lb", l, S)
      BY <3>1, <3>2, LbQueued
    <3> QED
      BY <3>3, <3>4 DEF LbWaits
  <2>4. /\ pool' = [p \in Pools |-> IF p \in Under(l) THEN "PENDING" ELSE pool[p]]
        /\ lb[l] = "NEW" /\ revived' = revived
    BY <1>2 DEF CreateLb, Under
  <2>5. \A p \in Pools : LbOf[p] # l => pool'[p] = pool[p] /\ (p \in sp' <=> p \in sp)
    BY <2>1, <2>4 DEF Under
  <2>6. ASSUME NEW p \in Under(l)
        PROVE  pool[p] = "NEW" /\ pool'[p] = "PENDING" /\ LbStatus(f, p)' /\ LbGood(f, p)'
    <3>1. p \in Pools /\ LbOf[p] = l /\ p \in f.rest \cup {f.cur}
      BY <2>3, <2>6 DEF Under
    <3>2. pool[p] = "NEW" /\ pool'[p] = "PENDING"
      BY <1>1, <2>4, <2>6, <3>1 DEF Fresh
    <3>3. LbStatus(f, p)'
      BY <2>3, <3>1, <3>2 DEF LbStatus
    <3>4. LbGood(f, p)'
      BY <2>3, <3>1 DEF LbGood
    <3> QED
      BY <3>2, <3>3, <3>4
  <2> QED
    BY <1>1, <2>2, <2>3, <2>4, <2>5, <2>6, AdmitLb
<1>3. CASE DeleteLb(u, l)
  <2>1. PICK f \in NextPart(LbFlow("delete_lb", l, PoolsOf(l), Monitored(PoolsOf(l)))) : Admit(u, f)
    BY <1>3 DEF DeleteLb
  <2>2. /\ Queued(f) /\ f.op = "delete_lb" /\ f.on = l /\ f.step = "queued" /\ f.pc = 1
        /\ \A p \in Under(l) : p \notin f.rest \cup {f.cur} => ~HasRow(pool[p])
    <3> DEFINE S == PoolsOf(l)
               M == Monitored(PoolsOf(l))
    <3>1. "delete_lb" \in LbOps /\ M \in SUBSET Pools /\ S \in SUBSET Under(l)
      BY DEF LbOps, Under, PoolsOf, Monitored
    <3>2. f \in NextPart(LbFlow("delete_lb", l, S, M))
      OBVIOUS
    <3>3. \A p \in Under(l) : p \notin S => ~HasRow(pool[p])
      BY DEF PoolsOf, Under
    <3> HIDE DEF S, M
    <3>4. LbWaits(f, "delete_lb", l, S)
      BY <3>1, <3>2, LbQueued
    <3> QED
      BY <3>3, <3>4 DEF LbWaits
  <2>3. lb[l] \in {"ACTIVE", "ERROR"} /\ UNCHANGED <<pool, sp, revived>>
    BY <1>3 DEF DeleteLb
  <2>4. ASSUME NEW p \in Under(l) PROVE LbStatus(f, p)' /\ LbGood(f, p)'
    BY <2>2, <2>3, <2>4 DEF LbStatus, LbGood
  <2> QED
    BY <1>1, <2>1, <2>2, <2>3, <2>4, AdmitLb
<1> QED
  BY <1>2, <1>3

-----------------------------------------------------------------------------
(* The invariant holds at the start and after every step.                  *)
LEMMA InitServed ==
  ASSUME ShapeAssumption, Init
  PROVE  ServedInv
<1>1. Inv
  BY InitInv
<1>2. /\ scene \in Scenes
      /\ lb = [l \in LBs |-> IF l \in scene.exist THEN "ACTIVE" ELSE "NEW"]
      /\ pool = [p \in Pools |-> IF p \in scene.exist THEN "ACTIVE" ELSE "NEW"]
      /\ sp = {} /\ groups = scene.exist \cap Pools
      /\ flow = [s \in Slots |-> Idle]
  BY DEF Init
<1>3. \A s \in Slots : flow[s] = Idle
  BY <1>2
<1>4. ASSUME NEW p \in Pools PROVE Fresh(p)
  <2>1. LbOf[p] \in LBs /\ (p \in scene.exist => LbOf[p] \in scene.exist)
    BY <1>2 DEF ShapeAssumption
  <2>2. \A s \in Slots : flow[s].on # p
    BY <1>3, IdleIs
  <2> QED
    BY <1>2, <2>1, <2>2 DEF Fresh
<1>5. ASSUME NEW s \in Slots PROVE Recorded(flow[s]) /\ Seen(s)
  BY <1>3, IdleRecorded DEF Seen
<1>6. \A s \in Slots, f \in Flows : f = flow[s] => Half(f)
  <2>1. Idle.step # "revert"
    BY IdleIs
  <2> QED
    BY <1>3, <2>1 DEF Half
<1>7. ASSUME NEW l \in LBs PROVE LbOK(l)
  <2>1. On(l) = {}
    BY <1>3, IdleIs, OnIs
  <2>2. Exclusive(l)
    BY <2>1 DEF Exclusive
  <2>3. ASSUME NEW p \in Under(l) PROVE Calm(p) /\ GoodPool(p) /\ Buried(p)
    <3>1. p \in Pools /\ LbOf[p] \in LBs
      BY <2>3 DEF Under
    <3>2. pool[p] \in {"NEW", "ACTIVE"} /\ lb[LbOf[p]] # "GONE"
      BY <1>2, <3>1
    <3>3. \A s \in Slots : ~Trails(flow[s]) /\ ~Works(flow[s])
      BY <1>3, IdleIs
    <3>4. Calm(p)
      BY <3>2, <3>3 DEF Calm
    <3>5. ASSUME pool[p] = "ACTIVE" PROVE Good(p)
      <4>1. p \in scene.exist /\ p \in groups /\ p \notin sp
        BY <1>2, <3>1, <3>5
      <4>2. p \in Default => /\ front[p].group /\ ~front[p].pers
                             /\ p \in Proxied => front[p].proxy
        <5> SUFFICES ASSUME p \in Default
                     PROVE  /\ front[p].group /\ ~front[p].pers
                            /\ p \in Proxied => front[p].proxy
          OBVIOUS
        <5>1. front[p] = [Unbound EXCEPT !.group = TRUE, !.proxy = p \in Proxied]
          BY <4>1 DEF Init
        <5>2. PICK b \in BOOLEAN : b = (p \in Proxied)
          BY Membership
        <5>3. front[p] = [Unbound EXCEPT !.group = TRUE, !.proxy = b]
          BY <5>1, <5>2
        <5>4. front[p].group /\ ~front[p].pers /\ front[p].proxy = b
          BY <5>3 DEF Unbound
        <5> QED
          BY <5>2, <5>4
      <4>3. (p \in sp) = FALSE
        BY <4>1
      <4>4. p \in Default => front[p].pers \in BOOLEAN
        BY <1>1 DEF Inv, Fronts
      <4> QED
        BY <4>1, <4>2, <4>3, <4>4 DEF Good, Bind
    <3>6. GoodPool(p)
      BY <3>3, <3>5 DEF GoodPool
    <3> QED
      BY <3>2, <3>4, <3>6 DEF Buried
  <2> QED
    BY <2>1, <2>2, <2>3 DEF LbOK
<1> QED
  BY <1>1, <1>4, <1>5, <1>6, <1>7 DEF ServedInv

LEMMA StutterServed ==
  ASSUME ShapeAssumption, ServedInv, UNCHANGED vars
  PROVE  ServedInv'
<1>1. Inv'
  BY InvStep DEF ServedInv
<1>2. /\ UNCHANGED <<lb, pool, sp, groups, front, flow, raced, overlapped, revived, halfway>>
      /\ \A p \in Pools : Untouched(p)
  <2>1. UNCHANGED <<rows, device, hist, flow>>
    BY DEF vars
  <2>2. UNCHANGED <<lb, pool, sp, groups, front, flow, raced, overlapped, revived, halfway>>
    BY <2>1 DEF rows, device, hist
  <2> QED
    BY <2>1, <2>2, QuietStep
<1>3. \A p \in Pools : Fresh(p)'
  BY <1>2, FreshFrame DEF ServedInv
<1>4. \A s \in Slots : Recorded(flow'[s])
  BY <1>2 DEF ServedInv
<1>5. \A s \in Slots : Seen(s)'
  BY <1>2 DEF ServedInv, Seen, Settled
<1>6. \A s \in Slots, f \in Flows : f = flow'[s] => Half(f)'
  BY <1>2 DEF ServedInv, Half
<1>7. ASSUME NEW l \in LBs PROVE LbOK(l)'
  <2> SUFFICES ASSUME Settled(l)' PROVE LbOK(l)'
    BY DEF LbOK
  <2>1. LbOK(l) /\ Settled(l) /\ On(l)' = On(l)
    BY <1>2, OnIs DEF Settled, ServedInv
  <2>2. Exclusive(l)'
    BY <1>2, <2>1 DEF LbOK, Exclusive
  <2>3. ASSUME NEW p \in Under(l) PROVE Calm(p)' /\ GoodPool(p)' /\ Buried(p)'
    <3>1. p \in Pools /\ LbOf[p] = l /\ Calm(p) /\ GoodPool(p) /\ Buried(p)
      BY <2>1, <2>3 DEF LbOK, Under
    <3>2. Free(p)' => Free(p)
      BY <1>2 DEF Free
    <3>3. Calm(p)'
      BY <1>2, <2>1, <3>1, <3>2 DEF Calm
    <3>4. Good(p) => Good(p)'
      BY <1>2 DEF Good, Bind
    <3>5. GoodPool(p)'
      BY <1>2, <3>1, <3>4 DEF GoodPool
    <3>6. Buried(p)'
      BY <1>2, <3>1 DEF Buried
    <3> QED
      BY <3>3, <3>5, <3>6
  <2>4. ASSUME NEW s \in On(l)', NEW f \in Flows, f = flow'[s] PROVE FlowOK(f)'
    <3>1. s \in Slots /\ s \in On(l) /\ f = flow[s] /\ f.step # "idle" /\ LbOfFlow(f) = l
      BY <1>2, <2>1, <2>4, OnIs
    <3>2. FlowOK(f) /\ Shape(f)
      BY <2>1, <3>1, FlowKinds DEF LbOK, ServedInv, Inv
    <3> QED
      BY <1>2, <3>1, <3>2, FlowOKFrame DEF Under
  <2> QED
    BY <2>2, <2>3, <2>4 DEF LbOK
<1> QED
  BY <1>1, <1>3, <1>4, <1>5, <1>6, <1>7 DEF ServedInv

LEMMA ServedNext ==
  ASSUME ShapeAssumption, ServedInv, [Next]_vars
  PROVE  ServedInv'
<1>1. CASE UNCHANGED vars
  BY <1>1, StutterServed
<1>2. ASSUME NEW s \in Slots, NEW p \in Pools,
             CreatePool(s, p) \/ UpdatePool(s, p) \/ DeletePool(s, p)
             \/ CreateMonitor(s, p) \/ UpdateMonitor(s, p) \/ DeleteMonitor(s, p)
      PROVE  ServedInv'
  BY <1>2, PoolRequests, MonitorRequests
<1>3. ASSUME NEW s \in Slots, NEW l \in LBs, CreateLb(s, l) \/ DeleteLb(s, l) PROVE ServedInv'
  BY <1>3, LbRequests
<1>4. ASSUME NEW s \in Slots, Begin(s) \/ Run(s) \/ Finish(s) \/ Fail(s) \/ Revert(s) PROVE ServedInv'
  BY <1>4, BeginServed, RunServed, FinishServed, FailServed, RevertServed
<1> QED
  BY <1>1, <1>2, <1>3, <1>4, Zenon DEF Next

(* A pool that is ACTIVE in an ACTIVE load balancer has its service group, *)
(* and its listener sends to it, with its persistence and the PROXY        *)
(* protocol, whatever other requests are under way and fail.               *)
THEOREM ActivePoolsServed == Spec => []ActivePoolServed
<1>1. Init => ServedInv
  BY InitServed, ShapeAssumption
<1>2. ServedInv /\ [Next]_vars => ServedInv'
  BY ServedNext, ShapeAssumption
<1>3. ASSUME ServedInv PROVE ActivePoolServed
  <2> SUFFICES ASSUME NEW p \in Pools, pool[p] = "ACTIVE", lb[LbOf[p]] = "ACTIVE", Settled(LbOf[p]),
                      <<"pool", p>> \notin revived
               PROVE  Good(p)
    BY DEF ActivePoolServed, Good, Bind
  <2>1. PICK l \in LBs : l = LbOf[p]
    BY ShapeAssumption DEF ShapeAssumption
  <2>2. LbOK(l) /\ p \in Under(l) /\ FlowInv
    BY <1>3, <2>1 DEF ServedInv, Inv, Under
  <2>3. Exclusive(l) /\ GoodPool(p)
    BY <2>1, <2>2 DEF LbOK
  <2>4. ASSUME NEW s \in Slots PROVE ~Unserved(flow[s], p)
    <3> SUFFICES ASSUME Unserved(flow[s], p) PROVE FALSE
      OBVIOUS
    <3>1. flow[s].on = l /\ flow[s].on \notin Pools
      BY <2>1, ShapeAssumption DEF Unserved, ShapeAssumption
    <3>2. flow[s].step # "idle"
      BY <2>2, <3>1, IdleIs, ShapeAssumption DEF FlowInv, Shape
    <3>3. s \in On(l)
      BY <3>1, <3>2, OnIs DEF LbOfFlow
    <3>4. Closing(flow[s])
      BY <2>1, <2>3, <3>1, <3>3 DEF Exclusive, Trails
    <3>5. flow[s].pc \in Nat
      BY <2>2 DEF FlowInv, Flows
    <3>6. flow[s].pc >= 3 /\ (flow[s].cur # flow[s].on \/ flow[s].pc < 2) /\ flow[s].cur = flow[s].on
      BY <3>4, SMT DEF Closing, Unserved
    <3> QED
      BY <3>5, <3>6, SMT
  <2> QED
    BY <2>3, <2>4 DEF GoodPool
<1> QED
  BY <1>1, <1>2, <1>3, PTL DEF Spec

-----------------------------------------------------------------------------
(* What a task does to the monitors.                                       *)
LEMMA ChecksStay ==
  ASSUME UNCHANGED <<monitors, check, overset>>
  PROVE  \A p : Checks(p)' <=> Checks(p)
  BY DEF Checks

LEMMA MonitorWatches ==
  ASSUME ShapeAssumption, Inv, NEW s \in Slots
  PROVE  /\ PutMonitor(s) => Watches(s, "monitor")
         /\ Associate(s) => Watches(s, "associate")
         /\ DeleteMonitorTask(s) => Watches(s, "no_monitor")
<1>1. ASSUME PutMonitor(s) PROVE Watches(s, "monitor")
  <2>1. monitors \subseteq monitors' /\ UNCHANGED <<hm, check, overset>>
    BY <1>1 DEF PutMonitor, rows, hist
  <2>2. \A p \in Pools : Checks(p) => Checks(p)'
    BY <2>1 DEF Checks
  <2> QED
    BY <2>1, <2>2 DEF Watches
<1>2. ASSUME Associate(s) PROVE Watches(s, "associate")
  <2>0. PICK t : t = Target(s)
    OBVIOUS
  <2>1. /\ hm' = hm /\ monitors' = monitors /\ t \in monitors
        /\ check' = [v \in Servers |-> IF v \in ServersOf[t] THEN t ELSE check[v]]
        /\ overset' = (overset \cup {q \in Pools \ {t} : ServersOf[q] \cap ServersOf[t] # {}}) \ {t}
    BY <1>2, <2>0 DEF Associate, rows
  <2>2. \A p \in Pools : ServersOf[p] \subseteq Servers
    BY DEF ShapeAssumption
  <2>3. t \in Pools
    BY <2>1 DEF Inv, TypeOK
  <2>4. Checks(t)'
    BY <2>1, <2>2, <2>3 DEF Checks
  <2>5. ASSUME NEW p \in Pools, Checks(p), p # t PROVE Checks(p)'
    <3>1. ASSUME p \notin overset', NEW v \in ServersOf[p] PROVE check'[v] = p
      <4>1. p \notin overset /\ v \notin ServersOf[t] /\ v \in Servers
        BY <2>1, <2>2, <2>5, <3>1
      <4> QED
        BY <2>1, <2>5, <4>1 DEF Checks
    <3> QED
      BY <2>1, <2>5, <3>1 DEF Checks
  <2>6. \A p \in Pools : Checks(p) => Checks(p)'
    BY <2>4, <2>5
  <2> QED
    BY <2>0, <2>1, <2>4, <2>6 DEF Watches
<1>3. ASSUME DeleteMonitorTask(s) PROVE Watches(s, "no_monitor")
  <2>0. PICK t : t = Target(s)
    OBVIOUS
  <2>1. /\ hm' = hm /\ overset' = overset
        /\ \/ monitors' = monitors \ {t} /\ check' = Unchecked({t})
           \/ UNCHANGED <<monitors, check>>
    BY <1>3, <2>0 DEF DeleteMonitorTask, rows, hist
  <2>2. \A p \in Pools : ServersOf[p] \subseteq Servers
    BY DEF ShapeAssumption
  <2>3. ASSUME NEW p \in Pools, Checks(p), p # t PROVE Checks(p)'
    <3>1. CASE UNCHANGED <<monitors, check>>
      BY <2>1, <2>3, <3>1 DEF Checks
    <3>2. CASE monitors' = monitors \ {t} /\ check' = Unchecked({t})
      BY <2>1, <2>2, <2>3, <3>2 DEF Checks, Unchecked
    <3> QED
      BY <2>1, <3>1, <3>2
  <2> QED
    BY <2>0, <2>1, <2>3 DEF Watches
<1> QED
  BY <1>1, <1>2, <1>3

LEMMA RunWatches ==
  ASSUME ShapeAssumption, Inv, NEW s \in Slots, NEW do, At(s, do), Run(s)
  PROVE  Watches(s, do)
<1>0. \A d : At(s, d) => d = do
  BY DEF At, Doing
<1>1. CASE PutProxy(s)
  <2>1. do = "proxy"
    BY <1>0, <1>1, TaskSteps DEF Acts
  <2>2. hm' = hm /\ UNCHANGED <<monitors, check, overset>>
    BY <1>1 DEF PutProxy, rows, device, hist
  <2> QED
    BY <2>1, <2>2, ChecksStay DEF Watches
<1>2. CASE CreateGroup(s)
  <2>1. do = "group"
    BY <1>0, <1>2, TaskSteps DEF Acts
  <2>2. hm' = hm /\ UNCHANGED <<monitors, check, overset>>
    BY <1>2 DEF CreateGroup, rows, device, hist
  <2> QED
    BY <2>1, <2>2, ChecksStay DEF Watches
<1>3. CASE ReplaceGroup(s)
  <2>1. do = "replace_group"
    BY <1>0, <1>3, TaskSteps DEF Acts
  <2>2. hm' = hm /\ UNCHANGED <<monitors, check, overset>>
    BY <1>3 DEF ReplaceGroup, rows, device, hist
  <2> QED
    BY <2>1, <2>2, ChecksStay DEF Watches
<1>4. CASE PutPersistence(s)
  <2>1. do = "persist"
    BY <1>0, <1>4, TaskSteps DEF Acts
  <2>2. hm' = hm /\ UNCHANGED <<monitors, check, overset>>
    BY <1>4 DEF PutPersistence, rows, device, hist
  <2> QED
    BY <2>1, <2>2, ChecksStay DEF Watches
<1>5. CASE DeletePersistence(s)
  <2>1. do = "no_persist"
    BY <1>0, <1>5, TaskSteps DEF Acts
  <2>2. hm' = hm /\ UNCHANGED <<monitors, check, overset>>
    BY <1>5 DEF DeletePersistence, rows, device, hist
  <2> QED
    BY <2>1, <2>2, ChecksStay DEF Watches
<1>6. CASE UpdateFront(s)
  <2>1. do = "front"
    BY <1>0, <1>6, TaskSteps DEF Acts
  <2>2. hm' = hm /\ UNCHANGED <<monitors, check, overset>>
    BY <1>6 DEF UpdateFront, rows, device, hist
  <2> QED
    BY <2>1, <2>2, ChecksStay DEF Watches
<1>7. CASE ClearFront(s)
  <2>1. do = "clear_front"
    BY <1>0, <1>7, TaskSteps DEF Acts
  <2>2. hm' = hm /\ UNCHANGED <<monitors, check, overset>>
    BY <1>7 DEF ClearFront, rows, device, hist
  <2> QED
    BY <2>1, <2>2, ChecksStay DEF Watches
<1>8. CASE DeleteProxy(s)
  <2>1. do = "no_proxy"
    BY <1>0, <1>8, TaskSteps DEF Acts
  <2>2. hm' = hm /\ UNCHANGED <<monitors, check, overset>>
    BY <1>8 DEF DeleteProxy, rows, device, hist
  <2> QED
    BY <2>1, <2>2, ChecksStay DEF Watches
<1>9. CASE DeleteGroup(s)
  <2>1. do = "no_group"
    BY <1>0, <1>9, TaskSteps DEF Acts
  <2>2. hm' = hm /\ UNCHANGED <<monitors, check, overset>>
    BY <1>9 DEF DeleteGroup, rows, device, hist
  <2> QED
    BY <2>1, <2>2, ChecksStay DEF Watches
<1>10. CASE CreateListener(s)
  <2>1. do = "listener"
    BY <1>0, <1>10, TaskSteps DEF Acts
  <2>2. hm' = hm /\ UNCHANGED <<monitors, check, overset>>
    BY <1>10 DEF CreateListener, rows, device, hist
  <2> QED
    BY <2>1, <2>2, ChecksStay DEF Watches
<1>11. CASE PutMonitor(s)
  <2>1. do = "monitor"
    BY <1>0, <1>11, TaskSteps DEF Acts
  <2> QED
    BY <1>11, <2>1, MonitorWatches
<1>12. CASE Associate(s)
  <2>1. do = "associate"
    BY <1>0, <1>12, TaskSteps DEF Acts
  <2> QED
    BY <1>12, <2>1, MonitorWatches
<1>13. CASE UpdateMonitorTask(s)
  <2>1. do = "change_monitor"
    BY <1>0, <1>13, TaskSteps DEF Acts
  <2>2. hm' = hm /\ UNCHANGED <<monitors, check, overset>>
    BY <1>13 DEF UpdateMonitorTask, rows, device, hist
  <2> QED
    BY <2>1, <2>2, ChecksStay DEF Watches
<1>14. CASE DeleteMonitorTask(s)
  <2>1. do = "no_monitor"
    BY <1>0, <1>14, TaskSteps DEF Acts
  <2> QED
    BY <1>14, <2>1, MonitorWatches
<1>15. CASE UpdatePoolRow(s)
  <2>1. do = "pool_row"
    BY <1>0, <1>15, TaskSteps DEF Acts
  <2>2. hm' = hm /\ UNCHANGED <<monitors, check, overset>>
    BY <1>15 DEF UpdatePoolRow, rows, device, hist
  <2> QED
    BY <2>1, <2>2, ChecksStay DEF Watches
<1>16. CASE MarkPoolActive(s)
  <2>1. do = "pool_active"
    BY <1>0, <1>16, TaskSteps DEF Acts
  <2>2. hm' = hm /\ UNCHANGED <<monitors, check, overset>>
    BY <1>16 DEF MarkPoolActive, rows, device, hist
  <2> QED
    BY <2>1, <2>2, ChecksStay DEF Watches
<1>17. CASE MarkMonitorActive(s)
  <2>1. do = "hm_active"
    BY <1>0, <1>17, TaskSteps DEF Acts
  <2>2. hm' = Set(hm, {Target(s)}, "ACTIVE") /\ UNCHANGED <<monitors, check, overset>>
    BY <1>17 DEF MarkMonitorActive, rows, device, hist
  <2> QED
    BY <2>1, <2>2, ChecksStay DEF Watches
<1>18. CASE MarkActive(s)
  <2>1. do = "active"
    BY <1>0, <1>18, TaskSteps DEF Acts
  <2>2. hm' = hm /\ UNCHANGED <<monitors, check, overset>>
    BY <1>18 DEF MarkActive, rows, device, hist
  <2> QED
    BY <2>1, <2>2, ChecksStay DEF Watches
<1>19. CASE MarkPoolPendingDelete(s)
  <2>1. do = "deleting"
    BY <1>0, <1>19, TaskSteps DEF Acts
  <2>2. hm' = hm /\ UNCHANGED <<monitors, check, overset>>
    BY <1>19 DEF MarkPoolPendingDelete, rows, device, hist
  <2> QED
    BY <2>1, <2>2, ChecksStay DEF Watches
<1>20. CASE DeletePoolRow(s)
  <2>1. do = "no_row"
    BY <1>0, <1>20, TaskSteps DEF Acts
  <2>2. hm' = Set(hm, {Target(s)}, "GONE") /\ UNCHANGED <<monitors, check, overset>>
    BY <1>20 DEF DeletePoolRow, rows, device, hist
  <2> QED
    BY <2>1, <2>2, ChecksStay DEF Watches
<1>21. CASE DeleteMonitorRow(s)
  <2>1. do = "no_hm_row"
    BY <1>0, <1>21, TaskSteps DEF Acts
  <2>2. hm' = Set(hm, {Target(s)}, "GONE") /\ UNCHANGED <<monitors, check, overset>>
    BY <1>21 DEF DeleteMonitorRow, rows, device, hist
  <2> QED
    BY <2>1, <2>2, ChecksStay DEF Watches
<1>22. CASE DeleteLbTask(s)
  <2>1. do = "no_lb"
    BY <1>0, <1>22, TaskSteps DEF Acts
  <2>2. hm' = hm /\ UNCHANGED <<monitors, check, overset>>
    BY <1>22 DEF DeleteLbTask, rows, device, hist
  <2> QED
    BY <2>1, <2>2, ChecksStay DEF Watches
<1>23. CASE CountProxyPools(s)
  <2>1. do = "count"
    BY <1>0, <1>23 DEF CountProxyPools
  <2>2. hm' = hm /\ UNCHANGED <<monitors, check, overset>>
    BY <1>23 DEF CountProxyPools, rows, device, hist
  <2> QED
    BY <2>1, <2>2, ChecksStay DEF Watches
<1> QED
  BY <1>1, <1>2, <1>3, <1>4, <1>5, <1>6, <1>7, <1>8, <1>9, <1>10, <1>11, <1>12, <1>13, <1>14, <1>15, <1>16, <1>17, <1>18, <1>19, <1>20, <1>21, <1>22, <1>23, Zenon DEF Run

(* What a step has to keep of the monitor of a pool, and of the flows that *)
(* it is not of.                                                           *)
SameMonitor(p) ==
    /\ hm'[p] = hm[p] /\ pool'[p] = pool[p]
    /\ Checks(p) => Checks(p)'
    /\ Spared(p)' => Spared(p)
OthersOff(u, p) == \A t \in Slots \ {u} : Works(flow[t]) => flow[t].on \notin {p, LbOf[p]}
HmMoves(u, p) ==
    Settled(LbOf[p])' =>
      /\ HmCalm(p)' /\ Checked(p)'
      /\ \A g \in Flows : g = flow'[u] /\ Works(g) => HmFlow(g, p)'
      /\ SameMonitor(p) \/ OthersOff(u, p)

LEMMA SameFlow ==
  ASSUME NEW p, SameMonitor(p), NEW f, HmFlow(f, p)
  PROVE  HmFlow(f, p)'
<1>1. ASSUME HmOfPool(f, p) PROVE HmOfPool(f, p)'
  BY <1>1 DEF HmOfPool, SameMonitor
<1>2. ASSUME HmOfLb(f, p) PROVE HmOfLb(f, p)'
  <2>1. HmBuilt(f, p) => HmBuilt(f, p)'
    BY DEF HmBuilt, SameMonitor
  <2> QED
    BY <1>2, <2>1 DEF HmOfLb, SameMonitor
<1> QED
  BY <1>1, <1>2 DEF HmFlow

LEMMA OffFlow ==
  ASSUME NEW p, NEW f, f.on \notin {p, LbOf[p]}
  PROVE  HmFlow(f, p) /\ HmFlow(f, p)' /\ ~Busy(f, p)
BY DEF HmFlow, HmOfPool, HmOfLb, Busy

LEMMA HmStep ==
  ASSUME FlowInv, NEW u \in Slots, NEW p \in Pools, Only(u), overlapped \subseteq overlapped',
         HmOK(p), HmMoves(u, p)
  PROVE  HmOK(p)'
<1> SUFFICES ASSUME Settled(LbOf[p])' PROVE HmCalm(p)' /\ Checked(p)' /\
      \A s \in Slots, f \in Flows : f = flow'[s] /\ Works(f) => HmFlow(f, p)'
  BY DEF HmOK
<1>1. Settled(LbOf[p])
  BY DEF Settled
<1>2. ASSUME NEW s \in Slots, NEW f \in Flows, f = flow'[s], Works(f) PROVE HmFlow(f, p)'
  <2>1. CASE s = u
    BY <1>2, <2>1 DEF HmMoves
  <2>2. CASE s # u
    <3>1. f = flow[s]
      BY <1>2, <2>2 DEF Only
    <3>2. HmFlow(f, p)
      BY <1>1, <1>2, <3>1 DEF HmOK
    <3>3. CASE SameMonitor(p)
      BY <3>2, <3>3, SameFlow
    <3>4. CASE OthersOff(u, p)
      <4>1. f.on \notin {p, LbOf[p]}
        BY <1>2, <2>2, <3>1, <3>4 DEF OthersOff
      <4> QED
        BY <4>1, OffFlow
    <3> QED
      BY <3>3, <3>4 DEF HmMoves
  <2> QED
    BY <2>1, <2>2
<1> QED
  BY <1>2 DEF HmMoves

(* The flow that moves is as busy with the monitor as before, or works     *)
(* elsewhere.                                                              *)
LEMMA HmFrame ==
  ASSUME NEW u \in Slots, NEW p \in Pools, Only(u), overlapped \subseteq overlapped',
         SameMonitor(p), HmOK(p),
         lb[LbOf[p]] = "ERROR" /\ On(LbOf[p]) = {} => lb'[LbOf[p]] = "ERROR" /\ On(LbOf[p])' = {},
         Works(flow[u]) /\ Busy(flow[u], p) => Works(flow'[u]) /\ Busy(flow'[u], p),
         \A g \in Flows : g = flow'[u] /\ Works(g) => HmFlow(g, p)'
  PROVE  HmMoves(u, p)
<1> SUFFICES ASSUME Settled(LbOf[p])' PROVE HmCalm(p)' /\ Checked(p)'
  BY DEF HmMoves
<1>1. Settled(LbOf[p])
  BY DEF Settled
<1>2. Checked(p)'
  <2>1. Checked(p)
    BY <1>1 DEF HmOK
  <2> QED
    BY <2>1 DEF Checked, SameMonitor
<1>3. HmFree(p)' => HmFree(p)
  BY DEF HmFree, Only
<1>4. HmCalm(p)'
  BY <1>1, <1>3 DEF HmOK, HmCalm, SameMonitor
<1> QED
  BY <1>2, <1>4

LEMMA HmPlace ==
  ASSUME ShapeAssumption, NEW f \in Flows, Shape(f), NEW do, Doing(f, do)
  PROVE  /\ f.op \in PoolOps => do \notin {"associate", "hm_active", "no_hm_row"}
         /\ f.op \in {"create_pool", "update_pool"} => do \notin {"no_monitor", "no_row"}
         /\ f.op = "create_hm" =>
              /\ Len(Tasks(f)) = 5 /\ f.pc \in 1 .. 5 /\ do \notin {"no_hm_row", "no_row", "no_monitor"}
              /\ do = "associate" <=> f.pc = 2
              /\ do = "hm_active" <=> f.pc = 3
         /\ f.op = "update_hm" =>
              /\ Len(Tasks(f)) = 4 /\ f.pc \in 1 .. 4
              /\ do \notin {"no_hm_row", "no_row", "no_monitor", "associate"}
              /\ do = "hm_active" <=> f.pc = 2
         /\ f.op = "delete_hm" =>
              /\ Len(Tasks(f)) = 4 /\ f.pc \in 1 .. 4 /\ do \notin {"hm_active", "no_row", "associate"}
              /\ do = "no_hm_row" <=> f.pc = 2
         /\ f.op = "create_lb" => do \notin {"no_hm_row", "no_row", "no_monitor"}
         /\ f.op = "create_lb" /\ f.cur # f.on =>
              /\ Len(Tasks(f)) = 7 /\ f.pc \in 1 .. 7
              /\ do = "associate" <=> f.pc = 2
              /\ do = "hm_active" <=> f.pc = 3
         /\ f.op = "create_lb" /\ f.cur = f.on => do # "hm_active"
         /\ f.op = "delete_lb" => do \notin {"hm_active", "no_hm_row", "associate"}
         /\ f.op = "delete_lb" /\ f.cur # f.on =>
              /\ Len(Tasks(f)) = 8 /\ f.pc \in 1 .. 8
              /\ do = "no_row" <=> f.pc = 8
              /\ do = "no_monitor" <=> f.pc = 5
              /\ do = "deleting" <=> f.pc = 1
         /\ f.op = "delete_lb" /\ f.cur = f.on => do = "no_lb"
<1>1. Place(f.op, f.cur = f.on, do, f.pc)
  BY Places
<1>2. /\ f.op = "create_hm" => Len(Tasks(f)) = 5
      /\ f.op = "update_hm" \/ f.op = "delete_hm" => Len(Tasks(f)) = 4
      /\ f.op = "create_lb" => Len(Tasks(f)) = IF f.cur = f.on THEN 3 ELSE 7
      /\ f.op = "delete_lb" => Len(Tasks(f)) = IF f.cur = f.on THEN 1 ELSE 8
  BY Lengths
<1>3. f.op \in PoolOps => f.op \in {"create_pool", "update_pool", "delete_pool"}
  BY DEF PoolOps
<1> QED
  BY <1>1, <1>2, <1>3 DEF Place

(* A task keeps the monitor's row with that of its pool.                   *)
LEMMA RunHmRow ==
  ASSUME Inv, NEW u \in Slots, NEW do, RowEffect(u, do), Watches(u, do),
         NEW p \in Pools, HmRow(p)
  PROVE  HmRow(p)'
<1>0. PICK t : t = Target(u)
  OBVIOUS
<1>1. pool \in [Pools -> Statuses] /\ hm \in [Pools -> Statuses]
  BY DEF Inv, TypeOK
<1>2. /\ do = "no_row" => pool'[p] = (IF p = t /\ HasRow(pool[p]) THEN "GONE" ELSE pool[p])
      /\ do # "no_row" => \/ pool'[p] = pool[p]
                          \/ HasRow(pool[p]) /\ pool'[p] \in {"ACTIVE", "DELETING"}
  <2>1. do = "no_row" => pool' = Set(pool, {t}, "GONE")
    BY <1>0 DEF RowEffect
  <2>2. do # "no_row" => pool' \in {pool, Set(pool, {t}, "ACTIVE"), Set(pool, {t}, "DELETING")}
    BY <1>0 DEF RowEffect
  <2> QED
    BY <1>1, <2>1, <2>2 DEF Set
<1>3. /\ do = "no_row" => hm'[p] = (IF p = t /\ HasRow(hm[p]) THEN "GONE" ELSE hm[p])
      /\ \/ hm'[p] = hm[p]
         \/ HasRow(hm[p]) /\ hm'[p] \in {"ACTIVE", "GONE"}
  <2>1. do = "no_row" => hm' = Set(hm, {t}, "GONE")
    BY <1>0 DEF Watches
  <2>2. hm' \in {hm, Set(hm, {t}, "ACTIVE"), Set(hm, {t}, "GONE")}
    BY <1>0 DEF Watches
  <2> QED
    BY <1>1, <2>1, <2>2 DEF Set
<1> QED
  BY <1>2, <1>3 DEF HmRow, HasRow

(* A task of a flow on a pool.  The monitor of that pool.                  *)
LEMMA PoolTaskHm ==
  ASSUME ShapeAssumption, Inv, NEW u \in Slots, NEW do, FlowEffect(u, do), RowEffect(u, do),
         Watches(u, do),
         NEW f \in Flows, f = flow[u], NEW g \in Flows, g = flow'[u], f.on \in Pools, PoolStatus(f),
         HmRow(f.on)', Checked(f.on), HmFlow(f, f.on)
  PROVE  Checked(f.on)' /\ HmFlow(g, f.on)'
<1> DEFINE p == f.on
<1>1. /\ Shape(f) /\ Shape(g) /\ Doing(f, do) /\ f.step = "run" /\ g.step = "run" /\ Target(u) = p
      /\ g.op = f.op /\ g.on = f.on /\ g.pc = f.pc + 1 /\ f.pc \in Nat /\ f.op \in PoolOps \cup HmOps
  <2>1. f.on \notin LBs
    BY DEF ShapeAssumption
  <2>2. /\ Shape(f) /\ Shape(g) /\ Doing(f, do) /\ f.step = "run" /\ g.step = "run" /\ Target(u) = p
        /\ g.op = f.op /\ g.on = f.on /\ g.pc = f.pc + 1 /\ f.pc \in Nat
    BY PoolTask
  <2>3. f.op \in PoolOps \cup HmOps
    BY <2>1, <2>2 DEF Shape, PoolShape, LbShape
  <2> QED
    BY <2>2, <2>3
<1>2. /\ f.op = "delete_pool" => pool'[p] # "ACTIVE" /\ pool'[p] \in {"DELETING", "GONE", "ACTIVE"}
      /\ f.op # "delete_pool" => pool[p] \in {"PENDING", "ACTIVE"}
  <2>1. /\ pool[p] = StatusAt(f)
        /\ ~Ended(g) => pool'[p] = StatusAt(g)
        /\ Ended(g) => pool'[p] \in {"GONE", "ACTIVE"}
        /\ pool'[p] = "ACTIVE" => f.op # "delete_pool"
    BY PoolTaskStatus
  <2>2. /\ f.op = "delete_pool" => StatusAt(g) \in {"DELETING", "GONE"}
        /\ f.op # "delete_pool" => StatusAt(f) \in {"PENDING", "ACTIVE"}
    BY <1>1 DEF StatusAt
  <2> QED
    BY <2>1, <2>2
<1>3. Spared(p)' => Spared(p)
  BY DEF FlowEffect, Spared
<1>4. hm \in [Pools -> Statuses]
  BY DEF Inv, TypeOK
<1>5. /\ Checks(p) /\ do # "no_monitor" => Checks(p)'
      /\ do = "associate" => Checks(p)'
  BY <1>1 DEF Watches
<1>6. /\ do \notin {"hm_active", "no_hm_row", "no_row"} => hm'[p] = hm[p]
      /\ do = "hm_active" => hm'[p] = (IF HasRow(hm[p]) THEN "ACTIVE" ELSE hm[p])
      /\ do = "no_hm_row" => hm'[p] = (IF HasRow(hm[p]) THEN "GONE" ELSE hm[p])
  BY <1>1, <1>4 DEF Watches, Set
<1>7. HmOfLb(g, p)'
  BY <1>1 DEF HmOfLb, ShapeAssumption
<1>8. HmOfPool(f, p)
  BY DEF HmFlow
<1>9. CASE f.op = "delete_pool"
  <2>1. HmOfPool(g, p)'
    BY <1>1, <1>9 DEF HmOfPool
  <2>2. pool'[p] = "GONE" => hm'[p] # "ACTIVE"
    BY DEF HmRow, HasRow
  <2>3. Checked(p)'
    BY <1>2, <1>9, <2>2 DEF Checked
  <2> QED
    BY <1>7, <2>1, <2>3 DEF HmFlow
<1>10. CASE f.op \in {"create_pool", "update_pool"}
  <2>1. do \notin {"hm_active", "no_hm_row", "no_row", "no_monitor"}
    BY <1>1, <1>10, HmPlace DEF PoolOps
  <2>2. HmOfPool(g, p)'
    BY <1>1, <1>10 DEF HmOfPool
  <2>3. Checked(p)'
    BY <1>2, <1>3, <1>5, <1>6, <1>10, <2>1 DEF Checked
  <2> QED
    BY <1>7, <2>2, <2>3 DEF HmFlow
<1>11. CASE f.op = "create_hm"
  <2>1. /\ f.pc \in 1 .. 5 /\ do \notin {"no_hm_row", "no_row", "no_monitor"}
        /\ do = "associate" <=> f.pc = 2
        /\ do = "hm_active" <=> f.pc = 3
    BY <1>1, <1>11, HmPlace
  <2>2. /\ hm[p] = IF f.pc <= 3 THEN "PENDING" ELSE "ACTIVE"
        /\ f.pc = 3 => Checks(p)
    BY <1>1, <1>8, <1>11 DEF HmOfPool
  <2>3. /\ hm'[p] = IF g.pc <= 3 THEN "PENDING" ELSE "ACTIVE"
        /\ g.pc = 3 => Checks(p)'
    <3>1. CASE f.pc \in {1, 2}
      BY <1>1, <1>5, <1>6, <2>1, <2>2, <3>1
    <3>2. CASE f.pc = 3
      BY <1>1, <1>6, <2>1, <2>2, <3>2 DEF HasRow
    <3>3. CASE f.pc \in {4, 5}
      BY <1>1, <1>6, <2>1, <2>2, <3>3
    <3> QED
      BY <2>1, <3>1, <3>2, <3>3
  <2>4. HmOfPool(g, p)'
    BY <1>1, <1>11, <2>3 DEF HmOfPool
  <2>5. Checked(p)'
    <3>1. f.pc \in {1, 2} => hm'[p] # "ACTIVE"
      BY <1>1, <2>3
    <3>2. f.pc = 3 => Checks(p)'
      BY <1>5, <2>1, <2>2
    <3>3. f.pc \in {4, 5} => hm[p] = "ACTIVE"
      BY <2>2
    <3>4. pool[p] # "DELETING"
      BY <1>2, <1>11
    <3> QED
      BY <1>3, <1>5, <2>1, <3>1, <3>2, <3>3, <3>4 DEF Checked
  <2> QED
    BY <1>7, <2>4, <2>5 DEF HmFlow
<1>12. CASE f.op = "update_hm"
  <2>1. /\ f.pc \in 1 .. 4 /\ do \notin {"no_hm_row", "no_row", "no_monitor"}
        /\ do = "hm_active" <=> f.pc = 2
    BY <1>1, <1>12, HmPlace
  <2>2. /\ hm[p] = IF f.pc <= 2 THEN "PENDING" ELSE "ACTIVE"
        /\ f.pc <= 2 /\ Spared(p) => Checks(p)
    BY <1>1, <1>8, <1>12 DEF HmOfPool
  <2>3. /\ hm'[p] = IF g.pc <= 2 THEN "PENDING" ELSE "ACTIVE"
        /\ g.pc <= 2 /\ Spared(p)' => Checks(p)'
    <3>1. CASE f.pc = 1
      BY <1>1, <1>3, <1>5, <1>6, <2>1, <2>2, <3>1
    <3>2. CASE f.pc = 2
      BY <1>1, <1>6, <2>1, <2>2, <3>2 DEF HasRow
    <3>3. CASE f.pc \in {3, 4}
      BY <1>1, <1>6, <2>1, <2>2, <3>3
    <3> QED
      BY <2>1, <3>1, <3>2, <3>3
  <2>4. HmOfPool(g, p)'
    BY <1>1, <1>12, <2>3 DEF HmOfPool
  <2>5. Checked(p)'
    <3>1. f.pc = 1 => hm'[p] # "ACTIVE"
      BY <1>1, <2>3
    <3>2. f.pc = 2 /\ Spared(p) => Checks(p)'
      BY <1>5, <2>1, <2>2
    <3>3. f.pc \in {3, 4} => hm[p] = "ACTIVE"
      BY <2>2
    <3>4. pool[p] # "DELETING"
      BY <1>2, <1>12
    <3> QED
      BY <1>3, <1>5, <2>1, <3>1, <3>2, <3>3, <3>4 DEF Checked
  <2> QED
    BY <1>7, <2>4, <2>5 DEF HmFlow
<1>13. CASE f.op = "delete_hm"
  <2>1. /\ f.pc \in 1 .. 4 /\ do \notin {"hm_active", "no_row"}
        /\ do = "no_hm_row" <=> f.pc = 2
    BY <1>1, <1>13, HmPlace
  <2>2. hm[p] = IF f.pc <= 2 THEN "DELETING" ELSE "GONE"
    BY <1>1, <1>8, <1>13 DEF HmOfPool
  <2>3. hm'[p] = IF g.pc <= 2 THEN "DELETING" ELSE "GONE"
    <3>1. CASE f.pc = 1
      BY <1>1, <1>6, <2>1, <2>2, <3>1
    <3>2. CASE f.pc = 2
      BY <1>1, <1>6, <2>1, <2>2, <3>2 DEF HasRow
    <3>3. CASE f.pc \in {3, 4}
      BY <1>1, <1>6, <2>1, <2>2, <3>3
    <3> QED
      BY <2>1, <3>1, <3>2, <3>3
  <2>4. HmOfPool(g, p)'
    BY <1>1, <1>13, <2>3 DEF HmOfPool
  <2>5. Checked(p)'
    BY <2>3 DEF Checked
  <2> QED
    BY <1>7, <2>4, <2>5 DEF HmFlow
<1> QED
  BY <1>1, <1>9, <1>10, <1>11, <1>12, <1>13 DEF PoolOps, HmOps

(* A task of the creation of a load balancer.                              *)
LEMMA CreateLbTaskHm ==
  ASSUME ShapeAssumption, Inv, NEW u \in Slots, NEW do, FlowEffect(u, do), Watches(u, do),
         NEW f \in Flows, f = flow[u], NEW g \in Flows, g = flow'[u], f.on \in LBs,
         f.op = "create_lb", NEW p \in Under(f.on), LbStatus(f, p), Checked(p), HmFlow(f, p)
  PROVE  Checked(p)' /\ HmFlow(g, p)'
<1>1. /\ Shape(f) /\ Doing(f, do) /\ f.step = "run" /\ g.step = "run" /\ Target(u) = f.cur
      /\ g.op = f.op /\ g.on = f.on /\ g.done = Done(f) /\ f.pc \in Nat
      /\ f.rest \subseteq Under(f.on)
      /\ \/ f.cur = f.on /\ f.rest = {}
         \/ f.cur \in Under(f.on) \ f.rest
      /\ Within(f, g) \/ Onward(f, g)
  BY LbTask
<1>2. hm \in [Pools -> Statuses] /\ p \in Pools /\ p # f.on /\ LbOf[p] = f.on
  BY DEF Inv, TypeOK, Under, ShapeAssumption
<1>3. /\ do \notin {"no_hm_row", "no_row", "no_monitor"}
      /\ f.cur # f.on =>
           /\ Len(Tasks(f)) = 7 /\ f.pc \in 1 .. 7
           /\ do = "associate" <=> f.pc = 2
           /\ do = "hm_active" <=> f.pc = 3
      /\ f.cur = f.on => do # "hm_active"
  BY <1>1, HmPlace
<1>4. g.monitored = f.monitored /\ (p = g.cur /\ Onward(f, g) /\ p \in f.monitored => g.pc = 1)
  <2>1. Walks(f, g)
    BY DEF FlowEffect
  <2>2. g.monitored = f.monitored
    BY <2>1 DEF Walks
  <2>3. ASSUME p = g.cur, Onward(f, g), p \in f.monitored PROVE g.pc = 1
    <3>1. g.cur # f.cur /\ g.cur # f.on
      BY <1>2, <2>3 DEF Onward
    <3>2. g.pc = FirstTask(f, g.cur)
      BY <2>1, <3>1 DEF Walks
    <3> QED
      BY <2>3, <3>2 DEF FirstTask
  <2> QED
    BY <2>2, <2>3
<1>5. /\ f.done \subseteq g.done
      /\ do = "hm_active" => Task("hm_active", f.cur) \in g.done
  <2>1. f.cur \in Objects
    BY <1>1 DEF Objects, Under
  <2> QED
    BY <1>1, <2>1, DoneIs DEF Kept
<1>6. /\ Checks(p) => Checks(p)'
      /\ do = "associate" /\ p = f.cur => Checks(p)'
  BY <1>1, <1>2, <1>3 DEF Watches
<1>7. /\ p # f.cur \/ do # "hm_active" => hm'[p] = hm[p]
      /\ do = "hm_active" /\ p = f.cur => hm'[p] = IF HasRow(hm[p]) THEN "ACTIVE" ELSE hm[p]
  <2>1. do # "hm_active" => hm' = hm
    BY <1>3 DEF Watches
  <2>2. do = "hm_active" => hm' = Set(hm, {f.cur}, "ACTIVE")
    BY <1>1 DEF Watches
  <2> QED
    BY <1>2, <2>1, <2>2 DEF Set
<1>8. HmBuilt(f, p)
  BY <1>1, <1>2 DEF HmFlow, HmOfLb
<1>9. pool[p] # "DELETING" /\ (Spared(p)' => Spared(p))
  <2>1. pool[p] \in {"PENDING", "ACTIVE"}
    BY <1>1 DEF LbStatus
  <2> QED
    BY <2>1 DEF FlowEffect, Spared
<1>10. /\ p \in f.rest => p \in g.rest \cup {g.cur} /\ p # f.cur
       /\ p = g.cur /\ p \in f.monitored /\ p # f.cur => g.pc = 1
       /\ p \notin f.rest \cup {f.cur} => p \notin g.rest \cup {g.cur}
       /\ p = f.cur /\ f.pc <= 3 => g.cur = p /\ g.pc = f.pc + 1
       /\ p = f.cur /\ f.pc >= 4 => p \notin g.rest /\ (p = g.cur => g.pc >= 4)
  <2>1. p \in f.rest => p # f.cur
    BY <1>1
  <2>2. p = f.cur => p \notin f.rest
    BY <2>1
  <2>3. CASE Within(f, g)
    BY <1>1, <2>1, <2>2, <2>3 DEF Within
  <2>4. CASE Onward(f, g)
    <3>1. f.cur # f.on
      BY <1>2, <2>4 DEF Onward, Under, ShapeAssumption
    <3>2. f.pc = 7 /\ (p \in g.rest \cup {g.cur} <=> p \in f.rest)
      BY <1>3, <2>4, <3>1 DEF Onward
    <3> QED
      BY <1>4, <2>1, <2>2, <2>4, <3>2
  <2> QED
    BY <1>1, <2>3, <2>4
<1>11. CASE hm[p] = "NEW" /\ p \notin f.monitored
  <2>1. hm'[p] = "NEW"
    BY <1>7, <1>11 DEF HasRow
  <2> QED
    BY <1>1, <1>2, <1>4, <1>11, <2>1 DEF HmFlow, HmOfPool, HmOfLb, HmBuilt, Checked
<1>12. CASE hm[p] = "PENDING" /\ p \in f.monitored /\ p \in f.rest
  <2>1. hm'[p] = "PENDING"
    BY <1>7, <1>10, <1>12
  <2>2. HmBuilt(g, p)'
    BY <1>4, <1>10, <1>12, <2>1 DEF HmBuilt
  <2> QED
    BY <1>1, <1>2, <2>1, <2>2 DEF HmFlow, HmOfPool, HmOfLb, Checked
<1>13. CASE /\ hm[p] = "PENDING" /\ p \in f.monitored /\ p = f.cur /\ f.pc <= 3
            /\ f.pc = 3 => Checks(p)
  <2>1. g.cur = p /\ g.pc = f.pc + 1 /\ f.pc \in 1 .. 7 /\ f.cur # f.on
    BY <1>2, <1>3, <1>10, <1>13
  <2>2. CASE f.pc = 3
    <3>1. hm'[p] = "ACTIVE" /\ Task("hm_active", p) \in g.done /\ g.pc >= 4
      BY <1>3, <1>5, <1>7, <1>13, <2>1, <2>2 DEF HasRow
    <3>2. HmBuilt(g, p)'
      BY <2>1, <3>1 DEF HmBuilt
    <3>3. Checks(p)'
      BY <1>6, <1>13, <2>2
    <3> QED
      BY <1>1, <1>2, <3>2, <3>3 DEF HmFlow, HmOfPool, HmOfLb, Checked
  <2>3. CASE f.pc # 3
    <3>1. hm'[p] = "PENDING" /\ g.pc <= 3 /\ (g.pc = 3 => Checks(p)')
      <4>1. f.pc = 1 \/ f.pc = 2
        BY <1>13, <2>1, <2>3
      <4> QED
        BY <1>3, <1>6, <1>7, <1>13, <2>1, <4>1
    <3>2. HmBuilt(g, p)'
      BY <1>4, <1>13, <2>1, <3>1 DEF HmBuilt
    <3> QED
      BY <1>1, <1>2, <3>1, <3>2 DEF HmFlow, HmOfPool, HmOfLb, Checked
  <2> QED
    BY <2>2, <2>3
<1>14. CASE /\ hm[p] = "ACTIVE" /\ Task("hm_active", p) \in f.done
            /\ p \notin f.rest \cup {f.cur} \/ (p = f.cur /\ f.pc >= 4)
  <2>1. hm'[p] = "ACTIVE" /\ Task("hm_active", p) \in g.done
    BY <1>5, <1>7, <1>14 DEF HasRow
  <2>2. p \notin g.rest \cup {g.cur} \/ (p = g.cur /\ g.pc >= 4)
    BY <1>10, <1>14
  <2>3. HmBuilt(g, p)'
    BY <2>1, <2>2 DEF HmBuilt
  <2>4. Checked(p)'
    BY <1>6, <1>9, <1>14 DEF Checked
  <2> QED
    BY <1>1, <1>2, <2>3, <2>4 DEF HmFlow, HmOfPool, HmOfLb
<1> QED
  BY <1>8, <1>11, <1>12, <1>13, <1>14 DEF HmBuilt

(* A task of its deletion.                                                 *)
LEMMA DeleteLbTaskHm ==
  ASSUME ShapeAssumption, Inv, NEW u \in Slots, NEW do, FlowEffect(u, do), RowEffect(u, do),
         Watches(u, do),
         NEW f \in Flows, f = flow[u], NEW g \in Flows, g = flow'[u], f.on \in LBs,
         f.op = "delete_lb", NEW p \in Under(f.on), HmRow(p), HmRow(p)', Checked(p), HmFlow(f, p)
  PROVE  Checked(p)' /\ HmFlow(g, p)'
<1>1. /\ Shape(f) /\ Doing(f, do) /\ f.step = "run" /\ g.step = "run" /\ Target(u) = f.cur
      /\ g.op = f.op /\ g.on = f.on /\ f.pc \in Nat /\ f.pc >= 1
      /\ Within(f, g) \/ Onward(f, g)
  BY LbTask
<1>2. /\ hm \in [Pools -> Statuses] /\ pool \in [Pools -> Statuses]
      /\ p \in Pools /\ p # f.on /\ LbOf[p] = f.on
  BY DEF Inv, TypeOK, Under, ShapeAssumption
<1>3. /\ do \notin {"hm_active", "no_hm_row"}
      /\ f.cur # f.on =>
           /\ Len(Tasks(f)) = 8 /\ f.pc \in 1 .. 8
           /\ do = "no_row" <=> f.pc = 8
           /\ do = "no_monitor" <=> f.pc = 5
           /\ do = "deleting" <=> f.pc = 1
      /\ f.cur = f.on => do = "no_lb"
      /\ do # "pool_active"
  BY <1>1, HmPlace, LbPlace
<1>4. /\ do \notin {"deleting", "no_row"} \/ p # f.cur => pool'[p] = pool[p]
      /\ do = "deleting" /\ p = f.cur => pool'[p] = IF HasRow(pool[p]) THEN "DELETING" ELSE pool[p]
      /\ do = "no_row" /\ p = f.cur => pool'[p] = IF HasRow(pool[p]) THEN "GONE" ELSE pool[p]
  <2>1. do \notin {"deleting", "no_row"} => pool' = pool
    BY <1>3 DEF RowEffect
  <2>2. /\ do = "deleting" => pool' = Set(pool, {f.cur}, "DELETING")
        /\ do = "no_row" => pool' = Set(pool, {f.cur}, "GONE")
    BY <1>1 DEF RowEffect
  <2> QED
    BY <1>2, <2>1, <2>2 DEF Set
<1>5. /\ do # "no_row" \/ p # f.cur => hm'[p] = hm[p]
      /\ do = "no_row" /\ p = f.cur => hm'[p] = IF HasRow(hm[p]) THEN "GONE" ELSE hm[p]
  <2>1. do # "no_row" => hm' = hm
    BY <1>3 DEF Watches
  <2>2. do = "no_row" => hm' = Set(hm, {f.cur}, "GONE")
    BY <1>1 DEF Watches
  <2> QED
    BY <1>2, <2>1, <2>2 DEF Set
<1>6. p = f.cur /\ f.pc >= 2 => pool[p] \in {"NEW", "DELETING", "GONE"}
  BY <1>1, <1>2 DEF HmFlow, HmOfLb
<1>7. p = g.cur /\ g.pc >= 2 => pool'[p] \in {"NEW", "DELETING", "GONE"}
  <2>1. CASE Onward(f, g)
    BY <1>1, <2>1 DEF Onward
  <2>2. CASE Within(f, g) /\ p = g.cur
    <3>1. p = f.cur /\ f.cur # f.on /\ f.pc \in 1 .. 8
      BY <1>2, <1>3, <2>2 DEF Within
    <3>2. CASE f.pc = 1
      BY <1>2, <1>3, <1>4, <3>1, <3>2 DEF HasRow
    <3>3. CASE f.pc >= 2
      BY <1>3, <1>4, <1>6, <3>1, <3>3 DEF HasRow
    <3> QED
      BY <3>1, <3>2, <3>3
  <2> QED
    BY <1>1, <2>1, <2>2
<1>8. HmFlow(g, p)'
  BY <1>1, <1>2, <1>7 DEF HmFlow, HmOfPool, HmOfLb
<1>9. Checked(p)'
  <2> SUFFICES ASSUME hm'[p] = "ACTIVE", pool'[p] # "DELETING", Spared(p)' PROVE Checks(p)'
    BY DEF Checked
  <2>1. hm[p] = "ACTIVE"
    BY <1>5
  <2>2. HasRow(pool[p]) /\ HasRow(pool'[p])
    BY <2>1 DEF HmRow, HasRow
  <2>3. Spared(p)
    BY DEF FlowEffect, Spared
  <2>4. CASE p = f.cur /\ f.pc >= 2
    <3>1. pool[p] = "DELETING" /\ f.cur # f.on
      BY <1>2, <1>6, <2>2, <2>4 DEF HasRow
    <3>2. f.pc # 1 /\ do # "deleting"
      BY <1>1, <1>3, <2>4, <3>1
    <3> QED
      BY <1>4, <2>2, <3>1, <3>2 DEF HasRow
  <2>5. CASE ~(p = f.cur /\ f.pc >= 2)
    <3>1. do = "no_monitor" => p # f.cur
      BY <1>2, <1>3, <2>5
    <3>2. pool[p] # "DELETING"
      BY <1>4, <2>2 DEF HasRow
    <3>3. Checks(p)
      BY <2>1, <2>3, <3>2 DEF Checked
    <3> QED
      BY <1>1, <1>2, <3>1, <3>3 DEF Watches
  <2> QED
    BY <2>4, <2>5
<1> QED
  BY <1>8, <1>9

LEMMA NoneStay ==
  ASSUME NEW u \in Slots, Only(u), NEW l, On(l) = {},
         flow'[u].step # "idle" => LbOfFlow(flow'[u]) # l
  PROVE  On(l)' = {}
<1>1. \A s \in Slots : flow[s].step # "idle" => LbOfFlow(flow[s]) # l
  BY OnIs
<1> QED
  BY <1>1, OnIs DEF Only

(* A task leaves the monitors alone of the pools that its flow is not of.  *)
LEMMA RunElsewhereHm ==
  ASSUME ShapeAssumption, ServedInv, NEW u \in Slots, NEW do, FlowEffect(u, do), Serves(u, do),
         Watches(u, do), NEW f \in Flows, f = flow[u], NEW g \in Flows, g = flow'[u],
         NEW p \in Pools, f.on \notin {p, LbOf[p]}, HmOK(p)
  PROVE  HmMoves(u, p)
<1> SUFFICES ASSUME Settled(LbOf[p])' PROVE HmMoves(u, p)
  BY DEF HmMoves
<1>1. /\ Inv /\ Inv' /\ Only(u) /\ overlapped' = overlapped /\ hm \in [Pools -> Statuses]
      /\ lb \in [LBs -> Statuses] /\ Settled(LbOf[p]) /\ LbOf[p] \in LBs
  BY DEF FlowEffect, ServedInv, Inv, TypeOK, Settled, ShapeAssumption
<1>2. Shape(f) /\ f.step = "run" /\ g.on = f.on /\ g.step = "run"
  BY <1>1, Stage DEF FlowEffect, Walks
<1>3. /\ p # Target(u) /\ LbOf[p] # Target(u)
  <2>1. f.on \in Pools => Target(u) = f.on
    BY <1>1, PoolTask
  <2>2. f.on \in LBs => Target(u) = f.on \/ Target(u) \in Under(f.on)
    BY <1>2 DEF Target, Shape, PoolShape, LbShape, ShapeAssumption
  <2>3. f.on \in Pools \cup LBs
    BY <1>2 DEF Shape, PoolShape, LbShape
  <2> QED
    BY <1>1, <2>1, <2>2, <2>3 DEF ShapeAssumption, Under
<1>4. pool'[p] = pool[p]
  BY <1>1, <1>3, RunElsewhere DEF Untouched
<1>5. hm'[p] = hm[p]
  <2>1. hm' \in {hm, Set(hm, {Target(u)}, "ACTIVE"), Set(hm, {Target(u)}, "GONE")}
    BY DEF Watches
  <2> QED
    BY <1>1, <1>3, <2>1 DEF Set
<1>6. SameMonitor(p)
  <2>1. Checks(p) => Checks(p)'
    BY <1>3 DEF Watches
  <2>2. Spared(p)' => Spared(p)
    BY DEF FlowEffect, Spared
  <2> QED
    BY <1>4, <1>5, <2>1, <2>2 DEF SameMonitor
<1>7. ~Busy(f, p) /\ HmFlow(g, p)'
  BY <1>2, OffFlow
<1>8. lb[LbOf[p]] = "ERROR" /\ On(LbOf[p]) = {} => lb'[LbOf[p]] = "ERROR" /\ On(LbOf[p])' = {}
  <2> SUFFICES ASSUME lb[LbOf[p]] = "ERROR", On(LbOf[p]) = {} PROVE lb'[LbOf[p]] = "ERROR" /\ On(LbOf[p])' = {}
    OBVIOUS
  <2>1. LbOfFlow(f) # LbOf[p] /\ LbAt(u) # LbOf[p]
    BY <1>2, OnIs DEF LbOfFlow, LbAt
  <2>2. LbOfFlow(g) # LbOf[p]
    BY <1>2, <2>1 DEF LbOfFlow
  <2>3. lb'[LbOf[p]] = lb[LbOf[p]]
    BY <1>1, <1>3, <2>1 DEF Serves, RowEffect, Set
  <2> QED
    BY <1>1, <2>2, <2>3, NoneStay
<1> QED
  BY <1>1, <1>6, <1>7, <1>8, HmFrame

LEMMA RunPoolHm ==
  ASSUME ShapeAssumption, ServedInv, NEW u \in Slots, NEW do, FlowEffect(u, do), Serves(u, do),
         Watches(u, do), NEW f \in Flows, f = flow[u], NEW g \in Flows, g = flow'[u],
         NEW p \in Pools, f.on = p, HmOK(p), HmRow(p)'
  PROVE  HmMoves(u, p)
<1> SUFFICES ASSUME Settled(LbOf[p])' PROVE HmMoves(u, p)
  BY DEF HmMoves
<1>1. /\ Inv /\ FlowInv /\ Only(u) /\ hm \in [Pools -> Statuses]
      /\ Settled(LbOf[p]) /\ LbOf[p] \in LBs
  BY DEF FlowEffect, ServedInv, Inv, TypeOK, Settled, ShapeAssumption
<1>2. /\ Shape(f) /\ Doing(f, do) /\ Works(f) /\ Target(u) = p /\ LbOfFlow(f) = LbOf[p]
      /\ g.op = f.op /\ g.on = f.on /\ g.pc = f.pc + 1 /\ f.pc \in Nat /\ g.step = "run"
      /\ Tasks(g) = Tasks(f)
  BY <1>1, PoolTask
<1>3. LbOK(LbOf[p]) /\ u \in On(LbOf[p])
  BY <1>1, <1>2, OnIs DEF ServedInv, Works
<1>4. Exclusive(LbOf[p]) /\ PoolStatus(f)
  BY <1>1, <1>2, <1>3 DEF LbOK, FlowOK
<1>5. \A t \in Slots \ {u} : flow[t].on \in {p, LbOf[p]} => Trails(flow[t])
  BY <1>1, <1>2, <1>4, Workers DEF Under
<1>6. OthersOff(u, p)
  BY <1>5 DEF OthersOff, Works
<1>7. HmCalm(p) /\ Checked(p) /\ HmFlow(f, p)
  BY <1>1, <1>2 DEF HmOK
<1>8. Checked(p)' /\ HmFlow(g, p)'
  BY <1>1, <1>4, <1>7, PoolTaskHm DEF Serves
<1>9. HmCalm(p)'
  <2> SUFFICES ASSUME HmFree(p)' PROVE hm'[p] \in AtRest
    BY DEF HmCalm
  <2>1. ~(Works(g) /\ Busy(g, p))
    BY DEF HmFree
  <2>2. f.op \in PoolOps \cup HmOps
    BY <1>1, <1>2 DEF Shape, PoolShape, LbShape, ShapeAssumption
  <2>3. CASE f.op \in PoolOps
    <3>1. ~Busy(f, p)
      BY <1>1, <2>3 DEF Busy, ShapeAssumption
    <3>2. HmFree(p)
      BY <1>6, <3>1, OffFlow DEF HmFree, OthersOff
    <3>3. hm[p] \in AtRest
      BY <1>3, <1>7, <3>2 DEF HmCalm
    <3>4. hm'[p] = hm[p] \/ hm'[p] \in {"ACTIVE", "GONE"}
      <4>1. hm' \in {hm, Set(hm, {p}, "ACTIVE"), Set(hm, {p}, "GONE")}
        BY <1>2 DEF Watches
      <4> QED
        BY <1>1, <4>1 DEF Set
    <3> QED
      BY <3>3, <3>4 DEF AtRest
  <2>4. CASE f.op \in HmOps
    <3>1. Busy(g, p)
      BY <1>2, <2>4 DEF Busy, HmOps, PoolOps
    <3>2. Ended(g)
      BY <1>2, <2>1, <3>1 DEF Works, Trails
    <3>3. g.pc > Len(Tasks(f))
      BY <1>2, <3>2 DEF Ended
    <3>4. /\ f.op = "create_hm" => Len(Tasks(f)) = 5
          /\ f.op \in {"update_hm", "delete_hm"} => Len(Tasks(f)) = 4
      BY <1>2, HmPlace
    <3>5. /\ f.op = "create_hm" => ~(g.pc <= 3)
          /\ f.op \in {"update_hm", "delete_hm"} => ~(g.pc <= 2)
      <4> DEFINE n == Len(Tasks(f))
                 c == g.pc
      <4>1. /\ c > n /\ c \in Nat
            /\ f.op = "create_hm" => n = 5
            /\ f.op \in {"update_hm", "delete_hm"} => n = 4
        BY <1>2, <3>3, <3>4
      <4> HIDE DEF n, c
      <4>2. /\ f.op = "create_hm" => ~(c <= 3)
            /\ f.op \in {"update_hm", "delete_hm"} => ~(c <= 2)
        BY <4>1
      <4> QED
        BY <4>2 DEF c
    <3>6. HmOfPool(g, p)'
      BY <1>8 DEF HmFlow
    <3> QED
      BY <1>2, <2>4, <3>5, <3>6 DEF HmOfPool, HmOps, AtRest
  <2> QED
    BY <2>2, <2>3, <2>4
<1> QED
  BY <1>6, <1>8, <1>9 DEF HmMoves

LEMMA RunLbHm ==
  ASSUME ShapeAssumption, ServedInv, NEW u \in Slots, NEW do, FlowEffect(u, do), Serves(u, do),
         Watches(u, do), NEW f \in Flows, f = flow[u], NEW g \in Flows, g = flow'[u],
         NEW p \in Pools, f.on = LbOf[p], HmRow(p), HmOK(p), HmRow(p)'
  PROVE  HmMoves(u, p)
<1> SUFFICES ASSUME Settled(LbOf[p])' PROVE HmMoves(u, p)
  BY DEF HmMoves
<1>1. /\ Inv /\ FlowInv /\ Only(u) /\ Settled(LbOf[p]) /\ f.on \in LBs /\ p \in Under(f.on)
  BY DEF FlowEffect, ServedInv, Inv, TypeOK, Settled, ShapeAssumption, Under
<1>2. Works(f) /\ Works(g) /\ g.on = f.on /\ f.op \in LbOps /\ LbOfFlow(f) = f.on
  BY <1>1, LbTask
<1>3. LbOK(f.on) /\ u \in On(f.on)
  BY <1>1, <1>2, OnIs DEF ServedInv, Works
<1>4. Exclusive(f.on) /\ LbStatus(f, p)
  BY <1>1, <1>2, <1>3 DEF LbOK, FlowOK
<1>5. \A t \in Slots \ {u} : flow[t].on \in {p, f.on} => Trails(flow[t])
  BY <1>1, <1>2, <1>4, Workers
<1>6. OthersOff(u, p)
  BY <1>5 DEF OthersOff, Works
<1>7. Checked(p) /\ HmFlow(f, p)
  BY <1>1, <1>2 DEF HmOK
<1>8. Checked(p)' /\ HmFlow(g, p)'
  <2>1. CASE f.op = "create_lb"
    BY <1>1, <1>4, <1>7, <2>1, CreateLbTaskHm
  <2>2. CASE f.op = "delete_lb"
    BY <1>1, <1>7, <2>2, DeleteLbTaskHm DEF Serves
  <2> QED
    BY <1>2, <2>1, <2>2 DEF LbOps
<1>9. HmCalm(p)'
  <2>1. Busy(g, p)
    BY <1>2 DEF Busy
  <2> QED
    BY <1>2, <2>1 DEF HmCalm, HmFree
<1> QED
  BY <1>6, <1>8, <1>9 DEF HmMoves

(* What is kept of the monitors beside what serves the pools.              *)
LEMMA RunHm ==
  ASSUME ShapeAssumption, MonitorInv, NEW u \in Slots, Run(u), NEW p \in Pools
  PROVE  HmRow(p)' /\ HmOK(p)'
<1>1. ServedInv /\ Inv /\ FlowInv /\ HmRow(p) /\ HmOK(p)
  BY DEF MonitorInv, ServedInv, Inv
<1>2. PICK do : FlowEffect(u, do) /\ Serves(u, do)
  BY <1>1, RunEffects DEF ServedInv
<1>3. Watches(u, do)
  BY <1>1, <1>2, RunWatches DEF FlowEffect
<1>4. HmRow(p)'
  BY <1>1, <1>2, <1>3, RunHmRow DEF Serves
<1>5. PICK f \in Flows : f = flow[u]
  BY <1>1, <1>2, Stage DEF FlowEffect
<1>6. PICK g \in Flows : g = flow'[u]
  BY <1>2 DEF FlowEffect, Walks
<1>7. HmMoves(u, p)
  <2>1. CASE f.on \notin {p, LbOf[p]}
    BY <1>1, <1>2, <1>3, <1>5, <1>6, <2>1, RunElsewhereHm
  <2>2. CASE f.on = p
    BY <1>1, <1>2, <1>3, <1>4, <1>5, <1>6, <2>2, RunPoolHm
  <2>3. CASE f.on = LbOf[p]
    BY <1>1, <1>2, <1>3, <1>4, <1>5, <1>6, <2>3, RunLbHm
  <2> QED
    BY <2>1, <2>2, <2>3
<1>8. Only(u) /\ overlapped \subseteq overlapped'
  BY <1>2 DEF FlowEffect
<1> QED
  BY <1>1, <1>4, <1>7, <1>8, HmStep

(* The start of a flow.                                                    *)
LEMMA RowsSame ==
  ASSUME UNCHANGED <<rows, device, hist>>
  PROVE  /\ UNCHANGED <<lb, pool, hm, overlapped>>
         /\ \A p : SameMonitor(p) /\ (HmRow(p) => HmRow(p)')
<1>1. UNCHANGED <<lb, pool, hm, monitors, check, overset, revived, halfway, overlapped>>
  BY DEF rows, device, hist
<1> QED
  BY <1>1 DEF SameMonitor, Checks, Spared, HmRow

LEMMA BeginHm ==
  ASSUME ShapeAssumption, MonitorInv, NEW u \in Slots, Begin(u), NEW p \in Pools
  PROVE  HmRow(p)' /\ HmOK(p)'
<1>1. /\ UNCHANGED <<lb, pool, hm, overlapped>> /\ SameMonitor(p) /\ HmRow(p)' /\ HmOK(p)
  <2>1. UNCHANGED <<rows, device, hist>>
    BY DEF Begin
  <2> QED
    BY <2>1, RowsSame DEF MonitorInv
<1>2. PICK f \in Flows : f = flow[u]
  BY DEF MonitorInv, ServedInv, Inv, FlowInv
<1>3. PICK g \in Flows : g = flow'[u]
  BY BeginStep DEF MonitorInv, ServedInv
<1>4. /\ FlowInv /\ Only(u) /\ f.step = "queued" /\ Shape(f) /\ Shape(g)
      /\ g.step = "run" /\ g.op = f.op /\ g.on = f.on /\ g.rest = f.rest /\ g.monitored = f.monitored
      /\ g.cur = f.cur /\ g.pc = f.pc /\ g.done = f.done
  BY <1>2, <1>3, BeginStep DEF MonitorInv, ServedInv, Inv
<1>5. Works(f) /\ Works(g)
  <2>1. ~AtEnd(f)
    <3>1. Recorded(f) /\ f.step = "queued"
      BY <1>2, <1>4 DEF MonitorInv, ServedInv
    <3> QED
      BY <3>1 DEF Recorded
  <2>2. Tasks(g) = Tasks(f)
    BY <1>4 DEF Tasks
  <2> QED
    BY <1>4, <2>1, <2>2 DEF Works, Trails, AtEnd, Ended
<1>6. Busy(g, p) <=> Busy(f, p)
  BY <1>4 DEF Busy
<1>7. On(LbOf[p]) = {} => On(LbOf[p])' = {}
  <2>1. On(LbOf[p]) = {} => LbOfFlow(f) # LbOf[p]
    BY <1>2, <1>4, OnIs
  <2>2. LbOfFlow(g) = LbOfFlow(f)
    BY <1>4 DEF LbOfFlow
  <2> QED
    BY <1>3, <1>4, <2>1, <2>2, NoneStay
<1>8. ASSUME Settled(LbOf[p]) PROVE HmFlow(g, p)'
  <2>1. HmFlow(f, p)
    BY <1>1, <1>2, <1>5, <1>8 DEF HmOK
  <2>2. HmFlow(g, p)
    BY <1>4, <2>1 DEF HmFlow, HmOfPool, HmOfLb, HmBuilt
  <2> QED
    BY <1>1, <2>2, SameFlow
<1>9. CASE Settled(LbOf[p])
  <2>1. HmMoves(u, p)
    BY <1>1, <1>2, <1>3, <1>4, <1>5, <1>6, <1>7, <1>8, <1>9, HmFrame
  <2> QED
    BY <1>1, <1>4, <2>1, HmStep
<1>10. CASE ~Settled(LbOf[p])
  BY <1>1, <1>10 DEF HmOK, Settled
<1> QED
  BY <1>1, <1>9, <1>10

(* The end of a flow.                                                      *)
LEMMA FinishHm ==
  ASSUME ShapeAssumption, MonitorInv, NEW u \in Slots, Finish(u), NEW p \in Pools
  PROVE  HmRow(p)' /\ HmOK(p)'
<1>1. /\ UNCHANGED <<lb, pool, hm, overlapped>> /\ SameMonitor(p) /\ HmRow(p)' /\ HmOK(p) /\ HmRow(p)
  <2>1. UNCHANGED <<rows, device, hist>>
    BY DEF Finish
  <2> QED
    BY <2>1, RowsSame DEF MonitorInv
<1>2. PICK f \in Flows : f = flow[u]
  BY DEF MonitorInv, ServedInv, Inv, FlowInv
<1>3. /\ FlowInv /\ Only(u) /\ f.step = "run" /\ flow'[u] = Idle /\ Ended(f)
  BY <1>2, FinishStep DEF MonitorInv, ServedInv, Inv
<1>4. ~Works(Idle) /\ Idle.step = "idle"
  BY IdleIs
<1>5. On(LbOf[p]) = {} => On(LbOf[p])' = {}
  BY <1>3, <1>4, NoneStay
<1>6. CASE ~(Works(f) /\ Busy(f, p))
  <2>1. HmMoves(u, p)
    BY <1>1, <1>2, <1>3, <1>4, <1>5, <1>6, HmFrame
  <2> QED
    BY <1>1, <1>3, <2>1, HmStep
<1>7. CASE Works(f) /\ Busy(f, p)
  <2>1. /\ f.on \in LBs /\ LbShape(f) /\ f.on \notin Pools /\ f.on = LbOf[p] /\ LbOfFlow(f) = f.on
    <3>1. f.on \notin Pools
      BY <1>3, <1>7 DEF Works, Trails
    <3> QED
      BY <1>2, <1>3, <1>7, <3>1, FlowKinds DEF Busy, LbOfFlow
  <2> SUFFICES ASSUME Settled(LbOf[p]) PROVE HmMoves(u, p)
    <3>1. ~Settled(LbOf[p]) => HmMoves(u, p)
      BY <1>1 DEF HmMoves, Settled
    <3> QED
      BY <1>1, <1>3, <3>1, HmStep
  <2>2. f.cur = f.on /\ f.rest = {} /\ p \in Under(f.on) /\ p # f.on
    BY <1>3, <2>1 DEF LbShape, Under
  <2>3. HmFlow(f, p) /\ Checked(p)
    BY <1>1, <1>2, <1>7 DEF HmOK
  <2>4. FlowOK(f)
    <3>1. u \in On(f.on) /\ LbOK(f.on)
      BY <1>2, <1>3, <2>1, OnIs DEF MonitorInv, ServedInv
    <3> QED
      BY <1>2, <2>1, <3>1 DEF LbOK
  <2>5. hm[p] \in AtRest
    <3>1. CASE f.op = "create_lb"
      <4>1. HmBuilt(f, p)
        BY <1>3, <2>1, <2>3, <3>1 DEF HmFlow, HmOfLb
      <4> QED
        BY <2>2, <4>1 DEF HmBuilt, AtRest
    <3>2. CASE f.op = "delete_lb"
      <4>1. ~HasRow(pool[p])
        BY <1>3, <1>7, <2>1, <2>2, <2>4, <3>2 DEF FlowOK, LbStatus
      <4> QED
        BY <1>1, <4>1 DEF HmRow, HasRow, AtRest
    <3> QED
      BY <2>1, <3>1, <3>2 DEF LbShape, LbOps
  <2>6. HmCalm(p)'
    BY <1>1, <2>5 DEF HmCalm
  <2>7. Checked(p)'
    BY <1>1, <2>3 DEF Checked, SameMonitor
  <2> QED
    BY <1>1, <1>3, <1>4, <2>6, <2>7 DEF HmMoves
<1> QED
  BY <1>1, <1>6, <1>7

(* A failure: what it writes of the monitors.                              *)
LEMMA FailWrites ==
  ASSUME ShapeAssumption, Inv, NEW u \in Slots, Fail(u), NEW g, g = flow'[u]
  PROVE  /\ hm' = Set(hm, Did(g, "hm_active"), "ERROR")
         /\ UNCHANGED <<monitors, check, overset, revived>>
<1> DEFINE f == [flow[u] EXCEPT !.done = IF flow[u].step = "run" THEN Done(flow[u]) ELSE @]
<1>1. /\ flow[u] \in Flows
      /\ g.done = IF flow[u].step = "run" THEN Done(flow[u]) ELSE flow[u].done
  BY FailStep
<1>2. f.done = g.done
  BY <1>1 DEF Flows
<1>3. hm' = Set(hm, Did(f, "hm_active"), "ERROR") /\ UNCHANGED <<device, overset, revived>>
  BY DEF Fail
<1> HIDE DEF f
<1>4. \A do : Did(f, do) = Did(g, do)
  BY <1>2 DEF Did
<1> QED
  BY <1>3, <1>4 DEF device

LEMMA FailHm ==
  ASSUME ShapeAssumption, MonitorInv, NEW u \in Slots, Fail(u), NEW p \in Pools
  PROVE  HmRow(p)' /\ HmOK(p)'
<1>0. Inv /\ FlowInv /\ ServedInv /\ HmOK(p) /\ HmRow(p) /\ p \in Pools /\ LbOf[p] \in LBs
  BY DEF MonitorInv, ServedInv, Inv, ShapeAssumption
<1>1. PICK f \in Flows : f = flow[u]
  BY <1>0 DEF Inv, FlowInv
<1>2. PICK g \in Flows : g = flow'[u]
  BY <1>0, FailStep
<1>3. /\ Only(u) /\ Shape(f) /\ Shape(g) /\ f.step \in {"queued", "run"} /\ g.step = "revert"
      /\ g.op = f.op /\ g.on = f.on /\ g.done = IF f.step = "run" THEN Done(f) ELSE f.done
  BY <1>0, <1>1, <1>2, FailStep
<1>4. PICK l \in LBs : l = LbOfFlow(f)
  BY <1>0, <1>1, <1>3, FlowKinds
<1>5. hm \in [Pools -> Statuses] /\ pool \in [Pools -> Statuses] /\ lb \in [LBs -> Statuses]
  BY <1>0 DEF Inv, TypeOK
<1>6. /\ lb' = IF Did(g, "active") # {} THEN Set(lb, {l}, "ERROR") ELSE lb
      /\ pool' = Set(pool, Did(g, "pool_active") \cup Did(g, "deleting"), "ERROR")
      /\ halfway \subseteq halfway'
      /\ g.op = "delete_pool" => g.on \in halfway'
      /\ g.op = "delete_lb" => \A t \in g.done : t.on \in Pools => t.on \in halfway'
      /\ overlapped' = IF On(l) # {u} THEN overlapped \cup {l} ELSE overlapped
  BY <1>0, <1>1, <1>2, <1>4, FailEffects
<1>7. /\ hm' = Set(hm, Did(g, "hm_active"), "ERROR") /\ UNCHANGED <<monitors, check, overset, revived>>
  BY <1>0, <1>2, FailWrites
<1>8. /\ hm'[p] = IF p \in Did(g, "hm_active") /\ HasRow(hm[p]) THEN "ERROR" ELSE hm[p]
      /\ pool'[p] = IF p \in Did(g, "pool_active") \cup Did(g, "deleting") /\ HasRow(pool[p]) THEN "ERROR"
                    ELSE pool[p]
      /\ Checks(p)' <=> Checks(p)
      /\ Spared(p)' => Spared(p)
  <2>1. Spared(p)' => Spared(p)
    BY <1>6, <1>7 DEF Spared
  <2> QED
    BY <1>5, <1>6, <1>7, <2>1, ChecksStay DEF Set
<1>9. HmRow(p)'
  BY <1>0, <1>8 DEF HmRow, HasRow
<1>10. overlapped \subseteq overlapped' /\ Works(g) /\ LbOfFlow(g) = l
  BY <1>3, <1>4, <1>6 DEF Works, Trails, LbOfFlow
<1> SUFFICES ASSUME Settled(LbOf[p])' PROVE HmMoves(u, p)
  <2>1. ~Settled(LbOf[p])' => HmMoves(u, p)
    BY DEF HmMoves
  <2> QED
    BY <1>0, <1>3, <1>9, <1>10, <2>1, HmStep
<1>11. Settled(LbOf[p])
  BY <1>10 DEF Settled
<1>12. CASE f.on \notin {p, LbOf[p]}
  <2>1. p \notin Did(g, "pool_active") \cup Did(g, "deleting") \cup Did(g, "hm_active")
    <3>1. \A do : p \in Did(g, do) => (g.on \in Pools => p = g.on) /\ LbOf[p] = LbOfFlow(g)
      BY <1>0, <1>3, DidWhere
    <3>2. g.on \notin Pools => LbOfFlow(g) = g.on
      BY <1>3, <1>4, <1>10 DEF LbOfFlow, Shape, PoolShape, LbShape
    <3> QED
      BY <1>3, <1>12, <3>1, <3>2
  <2>2. SameMonitor(p)
    BY <1>8, <2>1 DEF SameMonitor
  <2>3. ~Busy(f, p) /\ HmFlow(g, p)'
    BY <1>3, <1>12, OffFlow
  <2>4. lb[LbOf[p]] = "ERROR" /\ On(LbOf[p]) = {} => lb'[LbOf[p]] = "ERROR" /\ On(LbOf[p])' = {}
    <3> SUFFICES ASSUME lb[LbOf[p]] = "ERROR", On(LbOf[p]) = {} PROVE lb'[LbOf[p]] = "ERROR" /\ On(LbOf[p])' = {}
      OBVIOUS
    <3>1. l # LbOf[p]
      BY <1>1, <1>3, <1>4, OnIs
    <3> QED
      BY <1>0, <1>2, <1>3, <1>5, <1>6, <1>10, <3>1, NoneStay DEF Set
  <2> QED
    BY <1>0, <1>1, <1>2, <1>3, <1>10, <2>2, <2>3, <2>4, HmFrame
<1>13. CASE f.on \in {p, LbOf[p]}
  <2>1. l = LbOf[p] /\ p \in Under(l)
    BY <1>0, <1>4, <1>13 DEF LbOfFlow, Under, ShapeAssumption
  <2>2. /\ On(l) = {u} /\ LbOK(l)
        /\ f.on \in Pools => f.op = "delete_pool" \/ pool[f.on] # "DELETING"
    BY <1>0, <1>1, <1>4, <2>1, FailPool
  <2>3. OthersOff(u, p)
    <3>1. \A t \in Slots \ {u} : flow[t].on \notin {p, l}
      BY <1>0, <2>1, <2>2, LonelyFlow
    <3> QED
      BY <2>1, <3>1 DEF OthersOff
  <2>4. HmCalm(p) /\ Checked(p) /\ (Works(f) => HmFlow(f, p))
    BY <1>0, <1>1, <1>11 DEF HmOK
  <2>5. hm'[p] = "ACTIVE" => hm[p] = "ACTIVE"
    BY <1>8
  <2>6. CASE f.on = p
    <3>1. p # LbOf[p]
      BY <1>0 DEF ShapeAssumption
    <3>2. HmFlow(g, p)'
      BY <1>3, <2>6, <3>1 DEF HmFlow, HmOfPool, HmOfLb
    <3>3. Checked(p)'
      <4> SUFFICES ASSUME hm'[p] = "ACTIVE", pool'[p] # "DELETING", Spared(p)' PROVE Checks(p)
        BY <1>8 DEF Checked
      <4>1. f.op # "delete_pool"
        BY <1>3, <1>6, <2>6 DEF Spared
      <4>2. pool[p] # "DELETING"
        BY <1>0, <2>2, <2>6, <4>1
      <4> QED
        BY <1>8, <2>4, <2>5, <4>2 DEF Checked
    <3>4. HmCalm(p)'
      <4> SUFFICES ASSUME HmFree(p)' PROVE hm'[p] \in AtRest
        BY DEF HmCalm
      <4>1. ~Busy(g, p)
        BY <1>2, <1>10 DEF HmFree
      <4>2. ~Busy(f, p)
        BY <1>3, <4>1 DEF Busy
      <4>3. HmFree(p)
        BY <1>1, <2>3, <4>2, OffFlow DEF HmFree, OthersOff
      <4>4. hm[p] \in AtRest
        BY <2>1, <2>2, <2>4, <4>3 DEF HmCalm
      <4> QED
        BY <1>8, <4>4 DEF AtRest
    <3> QED
      BY <1>2, <2>3, <3>2, <3>3, <3>4 DEF HmMoves
  <2>7. CASE f.on = LbOf[p]
    <3>1. f.on = l /\ f.on \notin Pools /\ f.op \in LbOps /\ Works(f) /\ Busy(g, p)
      BY <1>0, <1>3, <2>1, <2>7 DEF ShapeAssumption, Shape, PoolShape, LbShape, Works, Trails, Busy
    <3>2. HmCalm(p)'
      BY <1>2, <1>10, <3>1 DEF HmCalm, HmFree
    <3>3. CASE f.op = "create_lb"
      <4>1. HmBuilt(f, p)
        BY <1>3, <2>4, <2>7, <3>1, <3>3 DEF HmFlow, HmOfLb
      <4>2. hm'[p] # "ACTIVE"
        <5>1. f.done \subseteq g.done
          <6>1. f.cur \in Objects
            BY <1>3, <3>1 DEF Shape, PoolShape, LbShape, Objects, Under
          <6> QED
            BY <1>3, <6>1, DoneIs
        <5>2. hm[p] = "ACTIVE" => Task("hm_active", p) \in g.done
          BY <4>1, <5>1 DEF HmBuilt
        <5>3. hm[p] = "ACTIVE" => p \in Did(g, "hm_active")
          BY <5>2 DEF Did, Task
        <5> QED
          BY <1>8, <5>3 DEF HasRow
      <4>3. HmFlow(g, p)'
        BY <1>0, <1>3, <2>7, <3>1, <3>3, <4>2 DEF HmFlow, HmOfPool, HmOfLb
      <4>4. Checked(p)'
        BY <4>2 DEF Checked
      <4> QED
        BY <1>2, <2>3, <3>2, <4>3, <4>4 DEF HmMoves
    <3>4. CASE f.op = "delete_lb"
      <4>1. HmFlow(g, p)'
        BY <1>0, <1>3, <2>7, <3>1, <3>4 DEF HmFlow, HmOfPool, HmOfLb
      <4>2. Checked(p)'
        <5> SUFFICES ASSUME hm'[p] = "ACTIVE", pool'[p] # "DELETING", Spared(p)' PROVE Checks(p)
          BY <1>8 DEF Checked
        <5>1. p \notin Did(g, "pool_active") \cup Did(g, "deleting")
          <6>1. \A t \in g.done : t.on # p
            BY <1>0, <1>3, <1>6, <3>4 DEF Spared
          <6> QED
            BY <6>1 DEF Did
        <5>2. pool[p] # "DELETING"
          BY <1>8, <5>1
        <5> QED
          BY <1>8, <2>4, <2>5, <5>2 DEF Checked
      <4> QED
        BY <1>2, <2>3, <3>2, <4>1, <4>2 DEF HmMoves
    <3> QED
      BY <3>1, <3>3, <3>4 DEF LbOps
  <2> QED
    BY <1>13, <2>6, <2>7
<1> QED
  BY <1>12, <1>13

(* The reverts: what they write of the monitors.                           *)
LEMMA RevertWrites ==
  ASSUME ShapeAssumption, Inv, NEW u \in Slots, Revert(u), NEW f \in Flows, f = flow[u]
  PROVE  /\ f.on \in LBs \/ f.op \in PoolOps => hm' = hm
         /\ ~(f.on \in LBs \/ f.op \in PoolOps) => hm' = Set(hm, {f.on}, "ERROR")
         /\ \A p \in Pools : p \notin RevertMonitors(f) /\ Checks(p) => Checks(p)'
         /\ UNCHANGED <<revived, halfway>>
<1>1. PICK kept : /\ monitors' = monitors \ (RevertMonitors(f) \ kept)
                  /\ check' = Unchecked(RevertMonitors(f) \ kept)
  BY RevertDevice
<1>2. /\ hm' = IF f.on \in LBs \/ f.op \in PoolOps THEN hm ELSE Set(hm, {f.on}, "ERROR")
      /\ UNCHANGED <<overset, revived, halfway>>
  BY DEF Revert, EndInError, PoolOps
<1>3. ASSUME NEW p \in Pools, p \notin RevertMonitors(f), Checks(p) PROVE Checks(p)'
  <2>1. ServersOf[p] \subseteq Servers
    BY DEF ShapeAssumption
  <2>2. p \in monitors'
    BY <1>1, <1>3 DEF Checks
  <2>3. \A v \in ServersOf[p] : check[v] = p => check'[v] = p
    BY <1>1, <1>3, <2>1 DEF Unchecked
  <2> QED
    BY <1>2, <1>3, <2>2, <2>3 DEF Checks
<1> QED
  BY <1>2, <1>3

LEMMA RevertHm ==
  ASSUME ShapeAssumption, MonitorInv, NEW u \in Slots, Revert(u), NEW p \in Pools
  PROVE  HmRow(p)' /\ HmOK(p)'
<1>0. Inv /\ FlowInv /\ ServedInv /\ HmOK(p) /\ HmRow(p) /\ p \in Pools /\ LbOf[p] \in LBs /\ LbOf[p] \notin Pools
  BY DEF MonitorInv, ServedInv, Inv, ShapeAssumption
<1>1. PICK f \in Flows : f = flow[u]
  BY <1>0 DEF Inv, FlowInv
<1>2. PICK l : l = LbOfFlow(f)
  OBVIOUS
<1>3. hm \in [Pools -> Statuses] /\ pool \in [Pools -> Statuses] /\ lb \in [LBs -> Statuses]
  BY <1>0 DEF Inv, TypeOK
<1>4. /\ Shape(f) /\ f.step = "revert" /\ flow'[u] = Idle /\ Only(u)
      /\ lb' = Set(lb, {l}, IF f.on \in LBs THEN "ERROR" ELSE "ACTIVE")
      /\ f.op = "create_lb" => pool' = Set(pool, {t.on : t \in f.done} \cap Pools, "ERROR")
      /\ f.op = "delete_lb" => pool' = pool
      /\ f.op \in PoolOps => pool' = Set(pool, {f.on}, "ERROR")
      /\ f.op \in HmOps => pool' = Set(pool, {f.on}, "ACTIVE")
      /\ overlapped' = IF On(l) # {u} THEN overlapped \cup {l} ELSE overlapped
  BY <1>0, <1>1, <1>2, RevertEffects
<1>5. /\ f.on \in LBs \/ f.op \in PoolOps => hm' = hm
      /\ ~(f.on \in LBs \/ f.op \in PoolOps) => hm' = Set(hm, {f.on}, "ERROR")
      /\ p \notin RevertMonitors(f) /\ Checks(p) => Checks(p)'
      /\ UNCHANGED <<revived, halfway>>
  BY <1>0, <1>1, RevertWrites
<1>6. Spared(p)' <=> Spared(p)
  BY <1>5 DEF Spared
<1>7. /\ l \in LBs /\ u \in On(l)
      /\ \/ f.on \in Pools /\ f.on \notin LBs /\ PoolShape(f) /\ l = LbOf[f.on]
         \/ f.on \in LBs /\ f.on \notin Pools /\ LbShape(f) /\ l = f.on
  BY <1>0, <1>1, <1>2, <1>4, FlowKinds
<1>8. /\ hm'[p] = hm[p] \/ (HasRow(hm[p]) /\ hm'[p] = "ERROR")
      /\ pool'[p] = pool[p] \/ (HasRow(pool[p]) /\ pool'[p] \in {"ERROR", "ACTIVE"})
  <2>1. hm' \in {hm, Set(hm, {f.on}, "ERROR")}
    BY <1>5
  <2>2. \/ pool' = pool \/ pool' = Set(pool, {t.on : t \in f.done} \cap Pools, "ERROR")
        \/ pool' = Set(pool, {f.on}, "ERROR") \/ pool' = Set(pool, {f.on}, "ACTIVE")
    BY <1>4, <1>7 DEF PoolShape, LbShape, LbOps
  <2> QED
    BY <1>3, <2>1, <2>2 DEF Set
<1>9. HmRow(p)'
  BY <1>0, <1>8 DEF HmRow, HasRow
<1>10. overlapped \subseteq overlapped' /\ ~Works(Idle) /\ Idle.step = "idle"
  BY <1>4, IdleIs
<1> SUFFICES ASSUME Settled(LbOf[p])' PROVE HmMoves(u, p)
  <2>1. ~Settled(LbOf[p])' => HmMoves(u, p)
    BY DEF HmMoves
  <2> QED
    BY <1>0, <1>4, <1>9, <1>10, <2>1, HmStep
<1>11. Settled(LbOf[p])
  BY <1>10 DEF Settled
<1>12. CASE f.on \notin {p, LbOf[p]}
  <2>1. pool'[p] = pool[p]
    <3>1. CASE LbOf[p] # l
      BY <1>0, <1>1, <1>2, <3>1, RevertElsewhere DEF Untouched
    <3>2. CASE LbOf[p] = l
      <4>1. f.on \in Pools /\ f.op \in PoolOps \cup HmOps
        BY <1>7, <1>12, <3>2 DEF PoolShape
      <4> QED
        BY <1>3, <1>4, <1>12, <4>1 DEF Set
    <3> QED
      BY <3>1, <3>2
  <2>2. hm'[p] = hm[p]
    BY <1>3, <1>5, <1>12 DEF Set
  <2>3. p \notin RevertMonitors(f)
    <3>1. \A do : p \in Did(f, do) => (f.on \in Pools => p = f.on) /\ LbOf[p] = LbOfFlow(f)
      BY <1>0, <1>4, DidWhere
    <3> QED
      BY <1>2, <1>7, <1>12, <3>1 DEF RevertMonitors
  <2>4. SameMonitor(p)
    BY <1>5, <1>6, <2>1, <2>2, <2>3 DEF SameMonitor
  <2>5. ~Busy(f, p)
    BY <1>12, OffFlow
  <2>6. lb[LbOf[p]] = "ERROR" /\ On(LbOf[p]) = {} => lb'[LbOf[p]] = "ERROR" /\ On(LbOf[p])' = {}
    <3> SUFFICES ASSUME lb[LbOf[p]] = "ERROR", On(LbOf[p]) = {} PROVE lb'[LbOf[p]] = "ERROR" /\ On(LbOf[p])' = {}
      OBVIOUS
    <3>1. l # LbOf[p]
      BY <1>7
    <3> QED
      BY <1>0, <1>3, <1>4, <1>10, <3>1, NoneStay DEF Set
  <2>7. \A g \in Flows : g = flow'[u] /\ Works(g) => HmFlow(g, p)'
    BY <1>4, <1>10
  <2>8. Works(flow[u]) /\ Busy(flow[u], p) => Works(flow'[u]) /\ Busy(flow'[u], p)
    BY <1>1, <2>5
  <2> QED
    BY <1>0, <1>4, <1>10, <2>4, <2>6, <2>7, <2>8, HmFrame
<1>13. CASE f.on \in {p, LbOf[p]}
  <2>1. l = LbOf[p] /\ p \in Under(l)
    BY <1>0, <1>7, <1>13 DEF Under
  <2>2. Settled(l)'
    BY <2>1
  <2>3. On(l) = {u} /\ LbOK(l) /\ Works(f) /\ FlowOK(f) /\ lb[l] # "NEW" /\ On(l)' = {}
    BY <1>0, <1>1, <1>2, <1>7, <2>2, RevertPool
  <2>4. OthersOff(u, p)
    <3>1. \A t \in Slots \ {u} : flow[t].on \notin {p, l}
      BY <1>0, <1>7, <2>1, <2>3, LonelyFlow
    <3> QED
      BY <2>1, <3>1 DEF OthersOff
  <2>5. HmCalm(p) /\ Checked(p) /\ HmFlow(f, p)
    BY <1>0, <1>1, <1>11, <2>3 DEF HmOK
  <2> SUFFICES HmCalm(p)' /\ Checked(p)'
    BY <1>4, <1>10, <2>4 DEF HmMoves
  <2>6. CASE f.on = p /\ f.op \in PoolOps
    <3>1. hm'[p] = hm[p] /\ pool'[p] = (IF HasRow(pool[p]) THEN "ERROR" ELSE pool[p])
      BY <1>3, <1>4, <1>5, <2>6 DEF Set
    <3>2. p \notin RevertMonitors(f)
      BY <2>6 DEF RevertMonitors, PoolOps
    <3>3. HmCalm(p)'
      <4>1. ~Busy(f, p)
        BY <1>0, <2>6 DEF Busy
      <4>2. HmFree(p)
        BY <1>1, <2>4, <4>1, OffFlow DEF HmFree, OthersOff
      <4>3. hm[p] \in AtRest
        BY <2>1, <2>3, <2>5, <4>2 DEF HmCalm
      <4> QED
        BY <3>1, <4>3 DEF HmCalm
    <3>4. Checked(p)'
      <4> SUFFICES ASSUME hm[p] = "ACTIVE", Spared(p) PROVE Checks(p)
        BY <1>5, <1>6, <3>1, <3>2 DEF Checked
      <4>1. f.op # "delete_pool"
        BY <1>0, <1>1, <1>4, <2>6 DEF ServedInv, Half, Spared
      <4>2. pool[p] # "DELETING"
        BY <1>4, <2>3, <2>6, <4>1 DEF FlowOK, PoolStatus
      <4> QED
        BY <2>5, <4>2 DEF Checked
    <3> QED
      BY <3>3, <3>4
  <2>7. CASE f.on = p /\ f.op \notin PoolOps
    <3>1. hm'[p] = IF HasRow(hm[p]) THEN "ERROR" ELSE hm[p]
      BY <1>0, <1>3, <1>5, <1>7, <2>7 DEF Set
    <3>2. hm'[p] \in AtRest \ {"ACTIVE"}
      BY <1>3, <3>1 DEF AtRest, HasRow, Statuses
    <3> QED
      BY <3>2 DEF HmCalm, Checked
  <2>8. CASE f.on = LbOf[p]
    <3>1. f.on = l /\ f.on \notin Pools /\ f.op \in LbOps /\ hm' = hm
      BY <1>0, <1>5, <1>7, <2>1, <2>8 DEF LbShape
    <3>2. lb[l] = "GONE" => ~HasRow(pool[p])
      BY <1>11, <2>1, <2>3 DEF LbOK, Buried
    <3>3. HmCalm(p)'
      <4>1. CASE lb[l] = "GONE"
        <5>1. hm'[p] \in AtRest
          BY <1>0, <3>1, <3>2, <4>1 DEF HmRow, HasRow, AtRest
        <5> QED
          BY <5>1 DEF HmCalm
      <4>2. CASE lb[l] # "GONE"
        <5>1. lb'[l] = "ERROR"
          BY <1>3, <1>4, <1>7, <2>3, <3>1, <4>2 DEF Set, HasRow
        <5> QED
          BY <2>1, <2>3, <5>1 DEF HmCalm
      <4> QED
        BY <4>1, <4>2
    <3>4. CASE f.op = "create_lb"
      <4>1. hm[p] # "ACTIVE"
        BY <1>4, <2>5, <2>8, <3>4 DEF HmFlow, HmOfLb
      <4> QED
        BY <3>1, <3>3, <4>1 DEF Checked
    <3>5. CASE f.op = "delete_lb"
      <4>1. pool' = pool /\ (Checks(p) => Checks(p)')
        BY <1>4, <1>5, <3>5 DEF RevertMonitors
      <4> QED
        BY <1>6, <2>5, <3>1, <3>3, <4>1 DEF Checked
    <3> QED
      BY <3>1, <3>4, <3>5 DEF LbOps
  <2> QED
    BY <1>13, <2>6, <2>7, <2>8
<1> QED
  BY <1>12, <1>13

(* A request makes no monitor of another pool look different.              *)
LEMMA AdmitElsewhereHm ==
  ASSUME ShapeAssumption, MonitorInv, NEW u \in Slots, NEW f, Queued(f), Admit(u, f),
         NEW l \in LBs, l = LbOfFlow(f), lb[l] \in {"NEW", "ACTIVE", "ERROR"},
         revived \subseteq revived', NEW p \in Pools, f.on \notin {p, LbOf[p]},
         LbOf[p] = l => lb[l] = "ACTIVE",
         hm'[p] = hm[p], pool'[p] = pool[p]
  PROVE  HmRow(p)' /\ HmOK(p)'
<1>1. /\ FlowInv /\ ServedInv /\ HmOK(p) /\ HmRow(p) /\ Only(u) /\ flow[u] = Idle /\ flow'[u] = f
      /\ overlapped \subseteq overlapped' /\ halfway' = halfway
      /\ \A k \in LBs \ {l} : lb'[k] = lb[k]
  BY Admitted DEF MonitorInv, ServedInv, Inv
<1>2. UNCHANGED <<monitors, check, overset>>
  BY DEF Admit, device
<1>3. SameMonitor(p)
  <2>1. Spared(p)' => Spared(p)
    BY <1>1 DEF Spared
  <2> QED
    BY <1>2, <2>1, ChecksStay DEF SameMonitor
<1>4. HmRow(p)'
  BY <1>1 DEF HmRow
<1>5. ~Works(Idle) /\ HmFlow(f, p)'
  BY IdleIs, OffFlow
<1>6. lb[LbOf[p]] = "ERROR" /\ On(LbOf[p]) = {} => lb'[LbOf[p]] = "ERROR" /\ On(LbOf[p])' = {}
  <2> SUFFICES ASSUME lb[LbOf[p]] = "ERROR", On(LbOf[p]) = {} PROVE lb'[LbOf[p]] = "ERROR" /\ On(LbOf[p])' = {}
    OBVIOUS
  <2>1. LbOf[p] # l /\ LbOf[p] \in LBs
    BY DEF ShapeAssumption
  <2> QED
    BY <1>1, <2>1, NoneStay
<1>7. HmMoves(u, p)
  BY <1>1, <1>3, <1>5, <1>6, HmFrame
<1> QED
  BY <1>1, <1>4, <1>7, HmStep

(* The monitor of the pool, or of a pool of the load balancer, that it is  *)
(* about.                                                                  *)
LEMMA AdmitHm ==
  ASSUME ShapeAssumption, MonitorInv, NEW u \in Slots, NEW f, Queued(f), Admit(u, f),
         NEW l \in LBs, l = LbOfFlow(f), lb[l] \in {"NEW", "ACTIVE", "ERROR"},
         NEW p \in Under(l),
         Settled(l)' => HmCalm(p)' /\ Checked(p)' /\ HmFlow(f, p)'
  PROVE  HmOK(p)'
<1>1. /\ FlowInv /\ ServedInv /\ HmOK(p) /\ Only(u) /\ flow'[u] = f /\ p \in Pools /\ LbOf[p] = l
      /\ overlapped \subseteq overlapped'
  BY Admitted DEF MonitorInv, ServedInv, Inv, Under
<1>2. ASSUME Settled(l)' PROVE OthersOff(u, p)
  <2>1. \A t \in On(l) : Trails(flow[t])
    BY <1>1, <1>2, AdmittedAlone
  <2> SUFFICES ASSUME NEW t \in Slots \ {u}, Works(flow[t]), flow[t].on \in {p, l} PROVE FALSE
    BY <1>1 DEF OthersOff
  <2>2. LbOfFlow(flow[t]) = l
    BY <1>1 DEF LbOfFlow, ShapeAssumption
  <2>3. t \in On(l)
    BY <2>2, OnIs DEF Works
  <2> QED
    BY <2>1, <2>3 DEF Works
<1>3. HmMoves(u, p)
  BY <1>1, <1>2 DEF HmMoves, Settled
<1> QED
  BY <1>1, <1>3, HmStep

(* A load balancer that takes a request has its monitors at rest.          *)
LEMMA AdmittedHm ==
  ASSUME ShapeAssumption, MonitorInv, NEW u \in Slots, NEW f, Queued(f), Admit(u, f),
         NEW l \in LBs, l = LbOfFlow(f), lb[l] \in {"NEW", "ACTIVE", "ERROR"}, Settled(l)',
         NEW p \in Under(l)
  PROVE  /\ Checked(p) /\ HmRow(p)
         /\ lb[l] = "ACTIVE" => hm[p] \in AtRest
<1>1. p \in Pools /\ LbOf[p] = l
  BY DEF Under
<1>2. Settled(l) /\ Free(p)
  BY AdmittedAlone DEF MonitorInv
<1>3. HmFree(p)
  BY <1>2, OffFlow DEF Free, HmFree
<1>4. HmCalm(p) /\ Checked(p) /\ HmRow(p)
  BY <1>1, <1>2 DEF MonitorInv, HmOK
<1> QED
  BY <1>1, <1>3, <1>4 DEF HmCalm

Asks(u, f, op, p) ==
    /\ Queued(f) /\ f.op = op /\ f.on = p /\ f.pc = 1 /\ f.step = "queued" /\ Admit(u, f)
    /\ lb[LbOf[p]] = "ACTIVE" /\ \A q \in Pools \ {p} : pool'[q] = pool[q]

(* What a request about a pool, or its monitor, is.                        *)
LEMMA AsksPool ==
  ASSUME ShapeAssumption, Inv, NEW u \in Slots, NEW p \in Pools,
         CreatePool(u, p) \/ UpdatePool(u, p) \/ DeletePool(u, p)
  PROVE  /\ \E op \in PoolOps : \E f : /\ Asks(u, f, op, p)
                                       /\ op = "delete_pool" => f.monitored = Monitored({p})
         /\ hm' = hm /\ revived' = revived /\ pool'[p] \in {"PENDING", "DELETING"}
         /\ sp \subseteq sp'
<1>0. pool \in [Pools -> Statuses]
  BY DEF Inv, TypeOK
<1>1. PICK op \in PoolOps, persistent \in BOOLEAN, mon \in SUBSET {p} :
         /\ Admit(u, PoolFlow(op, p, persistent, mon))
         /\ op = "delete_pool" => mon = Monitored({p})
  <2>1. CASE CreatePool(u, p)
    <3>1. PICK persistent \in BOOLEAN : Admit(u, PoolFlow("create_pool", p, persistent, {}))
      BY <2>1 DEF CreatePool
    <3>2. "create_pool" \in PoolOps /\ {} \in SUBSET {p}
      BY DEF PoolOps
    <3> QED
      BY <3>1, <3>2
  <2>2. CASE UpdatePool(u, p)
    <3>1. PICK persistent \in BOOLEAN : Admit(u, PoolFlow("update_pool", p, persistent, {}))
      BY <2>2 DEF UpdatePool
    <3>2. "update_pool" \in PoolOps /\ {} \in SUBSET {p}
      BY DEF PoolOps
    <3> QED
      BY <3>1, <3>2
  <2>3. CASE DeletePool(u, p)
    <3>1. PICK persistent \in BOOLEAN : persistent = (p \in sp)
      BY Membership
    <3>2. PICK mon \in SUBSET {p} : mon = Monitored({p})
      BY DEF Monitored
    <3>3. Admit(u, PoolFlow("delete_pool", p, persistent, mon))
      BY <2>3, <3>1, <3>2 DEF DeletePool
    <3>4. "delete_pool" \in PoolOps
      BY DEF PoolOps
    <3> QED
      BY <3>2, <3>3, <3>4
  <2> QED
    BY <2>1, <2>2, <2>3
<1>2. PICK f : f = PoolFlow(op, p, persistent, mon)
  OBVIOUS
<1>3. op \in PoolOps \cup HmOps /\ op \notin HmOps
  BY DEF PoolOps, HmOps
<1>4. Queued(f) /\ f.op = op /\ f.on = p /\ f.pc = 1 /\ f.step = "queued"
  BY <1>2, <1>3, PoolQueued
<1>8. f.monitored = mon
  BY <1>2, <1>3, PoolFlowIs
<1>5. /\ pool' = [pool EXCEPT ![p] = "PENDING"] \/ pool' = [pool EXCEPT ![p] = "DELETING"]
      /\ hm' = hm /\ revived' = revived /\ lb[LbOf[p]] = "ACTIVE" /\ sp \subseteq sp'
  BY DEF CreatePool, UpdatePool, DeletePool
<1>6. (\A q \in Pools \ {p} : pool'[q] = pool[q]) /\ pool'[p] \in {"PENDING", "DELETING"}
  BY <1>0, <1>5
<1>7. Asks(u, f, op, p)
  BY <1>1, <1>2, <1>4, <1>5, <1>6 DEF Asks
<1> QED
  BY <1>1, <1>5, <1>6, <1>7, <1>8

LEMMA AsksMonitor ==
  ASSUME ShapeAssumption, Inv, NEW u \in Slots, NEW p \in Pools, NEW op, NEW status,
         \/ op = "create_hm" /\ status = "PENDING" /\ CreateMonitor(u, p)
         \/ op = "update_hm" /\ status = "PENDING" /\ UpdateMonitor(u, p)
         \/ op = "delete_hm" /\ status = "DELETING" /\ DeleteMonitor(u, p)
  PROVE  /\ \E f : Asks(u, f, op, p)
         /\ hm'[p] = status /\ \A q \in Pools \ {p} : hm'[q] = hm[q]
         /\ revived \subseteq revived' /\ (hm[p] = "ERROR" => <<"hm", p>> \in revived')
         /\ HasRow(pool[p]) /\ pool'[p] = "PENDING"
         /\ op = "update_hm" => HasRow(hm[p])
         /\ sp' = sp
<1>0. pool \in [Pools -> Statuses] /\ hm \in [Pools -> Statuses]
  BY DEF Inv, TypeOK
<1>1. ChangeMonitor(u, op, p, status) /\ (op = "update_hm" => HasRow(hm[p]))
  BY DEF CreateMonitor, UpdateMonitor, DeleteMonitor
<1>2. PICK mon \in SUBSET {p}, persistent \in BOOLEAN : mon = {p} /\ persistent = FALSE
  OBVIOUS
<1>3. PICK f : f = PoolFlow(op, p, persistent, mon)
  OBVIOUS
<1>4. op \in PoolOps \cup HmOps /\ p \in mon
  BY <1>2 DEF HmOps
<1>5. Queued(f) /\ f.op = op /\ f.on = p /\ f.pc = 1 /\ f.step = "queued"
  BY <1>2, <1>3, <1>4, PoolQueued
<1>6. /\ pool' = [pool EXCEPT ![p] = "PENDING"] /\ hm' = [hm EXCEPT ![p] = status]
      /\ lb[LbOf[p]] = "ACTIVE" /\ Admit(u, f) /\ HasRow(pool[p])
      /\ revived \subseteq revived' /\ (hm[p] = "ERROR" => <<"hm", p>> \in revived')
      /\ sp' = sp
  BY <1>1, <1>2, <1>3 DEF ChangeMonitor
<1>7. /\ \A q \in Pools \ {p} : pool'[q] = pool[q] /\ hm'[q] = hm[q]
      /\ pool'[p] = "PENDING" /\ hm'[p] = status
  BY <1>0, <1>6
<1>8. Asks(u, f, op, p)
  BY <1>5, <1>6, <1>7 DEF Asks
<1> QED
  BY <1>1, <1>6, <1>7, <1>8

(* The monitors of the other pools.                                        *)
LEMMA AsksOthersHm ==
  ASSUME ShapeAssumption, MonitorInv, NEW u \in Slots, NEW p \in Pools, NEW f, NEW op,
         Asks(u, f, op, p), revived \subseteq revived', NEW q \in Pools, q # p, hm'[q] = hm[q]
  PROVE  HmRow(q)' /\ HmOK(q)'
<1>1. PICK l \in LBs : l = LbOf[p]
  BY DEF ShapeAssumption
<1>2. l = LbOfFlow(f) /\ f.on \notin {q, LbOf[q]} /\ lb[l] = "ACTIVE"
  BY <1>1 DEF Asks, LbOfFlow, ShapeAssumption
<1>3. Queued(f) /\ Admit(u, f) /\ pool'[q] = pool[q]
  BY DEF Asks
<1> QED
  BY <1>2, <1>3, AdmitElsewhereHm

(* The monitor of the pool that the request is about.                      *)
LEMMA AsksHm ==
  ASSUME ShapeAssumption, MonitorInv, NEW u \in Slots, NEW p \in Pools, NEW f, NEW op,
         Asks(u, f, op, p), op \in PoolOps \cup HmOps,
         Settled(LbOf[p])' /\ hm[p] \in AtRest /\ Checked(p) /\ pool[p] # "DELETING" =>
           HmCalm(p)' /\ Checked(p)' /\ HmOfPool(f, p)'
  PROVE  HmOK(p)'
<1>1. PICK l \in LBs : l = LbOf[p]
  BY DEF ShapeAssumption
<1>2. /\ l = LbOfFlow(f) /\ lb[l] = "ACTIVE" /\ p \in Under(l) /\ f.on # LbOf[p]
      /\ Queued(f) /\ Admit(u, f) /\ f.on = p /\ f.op = op
  BY <1>1 DEF Asks, LbOfFlow, Under, ShapeAssumption
<1>3. HmOfLb(f, p)'
  BY <1>2 DEF HmOfLb
<1>4. Settled(l)' => HmCalm(p)' /\ Checked(p)' /\ HmFlow(f, p)'
  <2> SUFFICES ASSUME Settled(l)' PROVE HmCalm(p)' /\ Checked(p)' /\ HmFlow(f, p)'
    OBVIOUS
  <2>1. Checked(p) /\ hm[p] \in AtRest
    BY <1>2, AdmittedHm
  <2>2. Settled(LbOf[p])'
    BY <1>1
  <2>3. pool[p] # "DELETING"
    BY <1>1, <1>2, <2>2, AdmittedCalm DEF MonitorInv
  <2> QED
    BY <1>3, <2>1, <2>2, <2>3 DEF HmFlow
<1> QED
  BY <1>2, <1>4, AdmitHm

LEMMA PoolRequestsHm ==
  ASSUME ShapeAssumption, MonitorInv, NEW u \in Slots, NEW p \in Pools,
         CreatePool(u, p) \/ UpdatePool(u, p) \/ DeletePool(u, p), NEW q \in Pools
  PROVE  HmRow(q)' /\ HmOK(q)'
<1>1. /\ \E op \in PoolOps : \E f : Asks(u, f, op, p)
      /\ hm' = hm /\ revived' = revived /\ pool'[p] \in {"PENDING", "DELETING"}
  BY AsksPool DEF MonitorInv, ServedInv
<1>2. PICK op \in PoolOps : \E f : Asks(u, f, op, p)
  BY <1>1
<1>3. PICK f : Asks(u, f, op, p)
  BY <1>2
<1>4. CASE q # p
  BY <1>1, <1>3, <1>4, AsksOthersHm
<1>5. CASE q = p
  <2>1. HmRow(p)'
    BY <1>1 DEF HmRow, HasRow
  <2>2. ASSUME hm[p] \in AtRest, Checked(p), pool[p] # "DELETING"
        PROVE  HmCalm(p)' /\ Checked(p)' /\ HmOfPool(f, p)'
    <3>1. HmCalm(p)'
      BY <1>1, <2>2 DEF HmCalm
    <3>2. UNCHANGED <<monitors, check, overset, halfway>>
      BY <1>3 DEF Asks, Admit, device
    <3>3. Spared(p)' => Spared(p)
      BY <1>1, <3>2 DEF Spared
    <3>4. Checked(p)'
      BY <1>1, <2>2, <3>2, <3>3, ChecksStay DEF Checked
    <3>5. HmOfPool(f, p)'
      BY <1>3 DEF HmOfPool, Asks, PoolOps
    <3> QED
      BY <3>1, <3>4, <3>5
  <2>3. HmOK(p)'
    BY <1>2, <1>3, <2>2, AsksHm
  <2> QED
    BY <1>5, <2>1, <2>3
<1> QED
  BY <1>4, <1>5

LEMMA MonitorRequestsHm ==
  ASSUME ShapeAssumption, MonitorInv, NEW u \in Slots, NEW p \in Pools,
         CreateMonitor(u, p) \/ UpdateMonitor(u, p) \/ DeleteMonitor(u, p), NEW q \in Pools
  PROVE  HmRow(q)' /\ HmOK(q)'
<1>1. PICK op \in HmOps, status \in {"PENDING", "DELETING"} :
         \/ op = "create_hm" /\ status = "PENDING" /\ CreateMonitor(u, p)
         \/ op = "update_hm" /\ status = "PENDING" /\ UpdateMonitor(u, p)
         \/ op = "delete_hm" /\ status = "DELETING" /\ DeleteMonitor(u, p)
  BY DEF HmOps
<1>2. /\ \E f : Asks(u, f, op, p)
      /\ hm'[p] = status /\ \A x \in Pools \ {p} : hm'[x] = hm[x]
      /\ revived \subseteq revived' /\ (hm[p] = "ERROR" => <<"hm", p>> \in revived')
      /\ HasRow(pool[p]) /\ pool'[p] = "PENDING"
      /\ op = "update_hm" => HasRow(hm[p])
  BY <1>1, AsksMonitor DEF MonitorInv, ServedInv
<1>3. PICK f : Asks(u, f, op, p)
  BY <1>2
<1>4. CASE q # p
  BY <1>2, <1>3, <1>4, AsksOthersHm
<1>5. CASE q = p
  <2>1. HmRow(p)'
    BY <1>2 DEF HmRow, HasRow
  <2>2. /\ Queued(f) /\ f.op = op /\ f.on = p /\ f.pc = 1 /\ f.step = "queued" /\ flow'[u] = f
        /\ UNCHANGED <<monitors, check, overset, halfway>>
    <3>1. Queued(f) /\ Admit(u, f) /\ f.op = op /\ f.on = p /\ f.pc = 1 /\ f.step = "queued"
      BY <1>3 DEF Asks
    <3>2. flow'[u] = f
      BY <3>1, Admitted DEF MonitorInv, ServedInv
    <3> QED
      BY <3>1, <3>2 DEF Admit, device
  <2>3. HmCalm(p)' /\ Checked(p)'
    <3>1. Works(f) /\ Busy(f, p)
      BY <2>2, QueuedIs DEF Busy, HmOps, PoolOps
    <3> QED
      BY <1>2, <2>2, <3>1 DEF HmCalm, HmFree, Checked
  <2>4. ASSUME hm[p] \in AtRest, Checked(p), pool[p] # "DELETING" PROVE HmOfPool(f, p)'
    <3>1. op = "update_hm" /\ Spared(p)' => Checks(p)'
      <4> SUFFICES ASSUME op = "update_hm", Spared(p)' PROVE Checks(p)'
        OBVIOUS
      <4>1. hm[p] = "ACTIVE" /\ Spared(p)
        BY <1>2, <2>2, <2>4 DEF Spared, AtRest, HasRow
      <4>2. Checks(p)
        BY <2>4, <4>1 DEF Checked
      <4> QED
        BY <2>2, <4>2, ChecksStay
    <3>2. status = IF op = "delete_hm" THEN "DELETING" ELSE "PENDING"
      BY <1>1
    <3> QED
      BY <1>2, <2>2, <3>1, <3>2 DEF HmOfPool
  <2>5. HmOK(p)'
    BY <1>3, <2>3, <2>4, AsksHm
  <2> QED
    BY <1>5, <2>1, <2>5
<1> QED
  BY <1>4, <1>5

LEMMA CreateLbHm ==
  ASSUME ShapeAssumption, MonitorInv, NEW u \in Slots, NEW l \in LBs, CreateLb(u, l), NEW p \in Pools
  PROVE  HmRow(p)' /\ HmOK(p)'
<1>1. PICK mon \in SUBSET Under(l) :
        /\ hm' = [q \in Pools |-> IF q \in mon THEN "PENDING" ELSE hm[q]]
        /\ \E f \in NextPart(LbFlow("create_lb", l, Under(l), mon)) : Admit(u, f)
  BY DEF CreateLb, Under
<1>2. PICK f \in NextPart(LbFlow("create_lb", l, Under(l), mon)) : Admit(u, f)
  BY <1>1
<1>3. LbBegins(f, "create_lb", l, Under(l), mon) /\ LbWaits(f, "create_lb", l, Under(l))
  <2> DEFINE S == Under(l)
  <2>1. "create_lb" \in LbOps /\ mon \in SUBSET Pools /\ S \in SUBSET Under(l)
    BY DEF LbOps, Under
  <2>2. f \in NextPart(LbFlow("create_lb", l, S, mon))
    OBVIOUS
  <2> HIDE DEF S
  <2>3. LbBegins(f, "create_lb", l, S, mon) /\ LbWaits(f, "create_lb", l, S)
    BY <2>1, <2>2, LbQueued, LbFlowIs
  <2> QED
    BY <2>3 DEF S
<1>4. /\ pool' = [q \in Pools |-> IF q \in Under(l) THEN "PENDING" ELSE pool[q]]
      /\ lb[l] = "NEW" /\ revived' = revived
  BY DEF CreateLb, Under
<1>5. /\ Queued(f) /\ f.op = "create_lb" /\ f.on = l /\ f.step = "queued" /\ f.monitored = mon
      /\ l = LbOfFlow(f) /\ l \notin Pools
  BY <1>3 DEF LbBegins, LbWaits, LbOfFlow, ShapeAssumption
<1>6. CASE LbOf[p] # l
  <2>1. p \notin Under(l) /\ pool'[p] = pool[p] /\ hm'[p] = hm[p]
    BY <1>1, <1>4, <1>6 DEF Under
  <2>2. f.on \notin {p, LbOf[p]}
    BY <1>5, <1>6
  <2> QED
    BY <1>2, <1>4, <1>5, <1>6, <2>1, <2>2, AdmitElsewhereHm
<1>7. CASE LbOf[p] = l
  <2>1. p \in Under(l) /\ pool'[p] = "PENDING"
    BY <1>4, <1>7 DEF Under
  <2>2. hm'[p] = IF p \in mon THEN "PENDING" ELSE "NEW"
    <3>1. Fresh(p) /\ HmRow(p)
      BY DEF MonitorInv, ServedInv
    <3> QED
      BY <1>1, <1>4, <1>7, <3>1 DEF Fresh, HmRow
  <2>3. HmRow(p)'
    BY <2>1 DEF HmRow, HasRow
  <2>4. HmBuilt(f, p)'
    <3>1. CASE p \notin mon
      BY <1>5, <2>2, <3>1 DEF HmBuilt
    <3>2. CASE p \in mon
      <4>1. f.cur \in Under(l) /\ f.rest = Under(l) \ {f.cur} /\ f.pc = IF f.cur \notin mon THEN 4 ELSE 1
        BY <1>3, <2>1 DEF LbBegins
      <4> QED
        BY <1>5, <2>1, <2>2, <3>2, <4>1 DEF HmBuilt
    <3> QED
      BY <3>1, <3>2
  <2>5. HmFlow(f, p)'
    BY <1>5, <2>4 DEF HmFlow, HmOfPool, HmOfLb
  <2>6. HmCalm(p)' /\ Checked(p)'
    <3>1. Works(f) /\ Busy(f, p) /\ flow'[u] = f
      BY <1>2, <1>5, <1>7, QueuedIs, Admitted DEF Busy, MonitorInv, ServedInv
    <3> QED
      BY <2>2, <3>1 DEF HmCalm, HmFree, Checked
  <2>7. HmOK(p)'
    BY <1>2, <1>4, <1>5, <2>1, <2>5, <2>6, AdmitHm
  <2> QED
    BY <2>3, <2>7
<1> QED
  BY <1>6, <1>7

LEMMA DeleteLbHm ==
  ASSUME ShapeAssumption, MonitorInv, NEW u \in Slots, NEW l \in LBs, DeleteLb(u, l), NEW p \in Pools
  PROVE  HmRow(p)' /\ HmOK(p)'
<1>1. PICK f \in NextPart(LbFlow("delete_lb", l, PoolsOf(l), Monitored(PoolsOf(l)))) : Admit(u, f)
  BY DEF DeleteLb
<1>2. LbWaits(f, "delete_lb", l, PoolsOf(l))
  <2> DEFINE S == PoolsOf(l)
             M == Monitored(PoolsOf(l))
  <2>1. "delete_lb" \in LbOps /\ M \in SUBSET Pools /\ S \in SUBSET Under(l)
    BY DEF LbOps, Under, PoolsOf, Monitored
  <2>2. f \in NextPart(LbFlow("delete_lb", l, S, M))
    OBVIOUS
  <2> HIDE DEF S, M
  <2>3. LbWaits(f, "delete_lb", l, S)
    BY <2>1, <2>2, LbQueued
  <2> QED
    BY <2>3 DEF S
<1>3. lb[l] \in {"ACTIVE", "ERROR"} /\ UNCHANGED <<pool, hm, revived>>
  BY DEF DeleteLb
<1>4. /\ Queued(f) /\ f.op = "delete_lb" /\ f.on = l /\ f.step = "queued" /\ f.pc = 1
      /\ l = LbOfFlow(f) /\ l \notin Pools
  BY <1>2 DEF LbWaits, LbOfFlow, ShapeAssumption
<1>5. CASE LbOf[p] # l
  <2>1. f.on \notin {p, LbOf[p]}
    BY <1>4, <1>5
  <2> QED
    BY <1>1, <1>3, <1>4, <1>5, <2>1, AdmitElsewhereHm
<1>6. CASE LbOf[p] = l
  <2>1. p \in Under(l)
    BY <1>6 DEF Under
  <2>2. HmRow(p)'
    BY <1>3 DEF MonitorInv, HmRow
  <2>3. HmFlow(f, p)'
    BY <1>4 DEF HmFlow, HmOfPool, HmOfLb
  <2>4. HmCalm(p)'
    <3>1. Works(f) /\ Busy(f, p) /\ flow'[u] = f
      BY <1>1, <1>4, <1>6, QueuedIs, Admitted DEF Busy, MonitorInv, ServedInv
    <3> QED
      BY <3>1 DEF HmCalm, HmFree
  <2>5. ASSUME Settled(l)' PROVE Checked(p)'
    <3>1. Checked(p)
      BY <1>1, <1>3, <1>4, <2>1, <2>5, AdmittedHm
    <3>2. UNCHANGED <<monitors, check, overset, halfway>>
      BY <1>1 DEF Admit, device
    <3> QED
      BY <1>3, <3>1, <3>2, ChecksStay DEF Checked, Spared
  <2>6. HmOK(p)'
    BY <1>1, <1>3, <1>4, <2>1, <2>3, <2>4, <2>5, AdmitHm
  <2> QED
    BY <2>2, <2>6
<1> QED
  BY <1>5, <1>6

-----------------------------------------------------------------------------
(* The invariant of the monitors at the start and after every step.        *)
LEMMA InitMonitor ==
  ASSUME ShapeAssumption, Init
  PROVE  MonitorInv
<1>1. ServedInv
  BY InitServed
<1>2. hm = [p \in Pools |-> "NEW"] /\ flow = [s \in Slots |-> Idle]
  BY DEF Init
<1>3. ASSUME NEW p \in Pools PROVE HmRow(p) /\ HmOK(p)
  <2>1. hm[p] = "NEW"
    BY <1>2
  <2>2. HmRow(p) /\ HmCalm(p) /\ Checked(p)
    BY <2>1 DEF HmRow, HasRow, HmCalm, AtRest, Checked
  <2>3. \A s \in Slots : ~Works(flow[s])
    BY <1>2, IdleIs
  <2> QED
    BY <2>2, <2>3 DEF HmOK
<1> QED
  BY <1>1, <1>3 DEF MonitorInv

LEMMA StutterHm ==
  ASSUME MonitorInv, UNCHANGED vars, NEW p \in Pools
  PROVE  HmRow(p)' /\ HmOK(p)'
<1>1. UNCHANGED <<rows, device, hist, flow>>
  BY DEF vars
<1>2. /\ UNCHANGED <<lb, pool, hm, overlapped, flow>>
      /\ SameMonitor(p) /\ HmRow(p)'
  BY <1>1, RowsSame DEF MonitorInv
<1>3. ASSUME Settled(LbOf[p])' PROVE HmCalm(p)' /\ Checked(p)'
  <2>1. HmCalm(p) /\ Checked(p)
    BY <1>2, <1>3 DEF MonitorInv, HmOK, Settled
  <2>2. On(LbOf[p])' = On(LbOf[p]) /\ (HmFree(p)' <=> HmFree(p))
    BY <1>2, OnIs DEF HmFree
  <2> QED
    BY <1>2, <2>1, <2>2 DEF HmCalm, Checked, SameMonitor
<1>4. ASSUME Settled(LbOf[p])', NEW s \in Slots, NEW f \in Flows, f = flow'[s], Works(f)
      PROVE  HmFlow(f, p)'
  <2>1. HmFlow(f, p)
    BY <1>2, <1>4 DEF MonitorInv, HmOK, Settled
  <2> QED
    BY <1>2, <2>1, SameFlow
<1>5. HmOK(p)'
  BY <1>3, <1>4 DEF HmOK
<1> QED
  BY <1>2, <1>5

LEMMA MonitorNext ==
  ASSUME ShapeAssumption, MonitorInv, [Next]_vars
  PROVE  MonitorInv'
<1>1. ServedInv'
  BY ServedNext DEF MonitorInv
<1>2. ASSUME NEW q \in Pools PROVE HmRow(q)' /\ HmOK(q)'
  <2>1. CASE UNCHANGED vars
    BY <1>2, <2>1, StutterHm
  <2>2. ASSUME NEW s \in Slots, NEW p \in Pools,
               CreatePool(s, p) \/ UpdatePool(s, p) \/ DeletePool(s, p)
               \/ CreateMonitor(s, p) \/ UpdateMonitor(s, p) \/ DeleteMonitor(s, p)
        PROVE  HmRow(q)' /\ HmOK(q)'
    BY <1>2, <2>2, PoolRequestsHm, MonitorRequestsHm
  <2>3. ASSUME NEW s \in Slots, NEW l \in LBs, CreateLb(s, l) \/ DeleteLb(s, l)
        PROVE  HmRow(q)' /\ HmOK(q)'
    BY <1>2, <2>3, CreateLbHm, DeleteLbHm
  <2>4. ASSUME NEW s \in Slots, Begin(s) \/ Run(s) \/ Finish(s) \/ Fail(s) \/ Revert(s)
        PROVE  HmRow(q)' /\ HmOK(q)'
    BY <1>2, <2>4, BeginHm, RunHm, FinishHm, FailHm, RevertHm
  <2> QED
    BY <2>1, <2>2, <2>3, <2>4, Zenon DEF Next
<1> QED
  BY <1>1, <1>2 DEF MonitorInv

(* A health monitor that is ACTIVE is on the device and checks the servers *)
(* of its pool, whatever other requests are under way and fail, unless     *)
(* another pool's monitor was set on them, the deletion of the pool failed *)
(* or the monitor came out of ERROR by an update.                          *)
THEOREM ActiveMonitorsChecked == Spec => []ActiveMonitorChecks
<1>1. Init => MonitorInv
  BY InitMonitor, ShapeAssumption
<1>2. MonitorInv /\ [Next]_vars => MonitorInv'
  BY MonitorNext, ShapeAssumption
<1>3. MonitorInv => ActiveMonitorChecks
  BY DEF MonitorInv, HmOK, Checked, Checks, Spared, ActiveMonitorChecks
<1> QED
  BY <1>1, <1>2, <1>3, PTL DEF Spec

-----------------------------------------------------------------------------
(* What a step has to keep of a pool's objects.                            *)
SameStore(p) ==
    /\ p \in pers' => p \in pers
    /\ p \in sp => p \in sp'
    /\ p \in monitors' => p \in monitors
    /\ p \in groups' => p \in groups
    /\ HasRow(hm'[p]) <=> HasRow(hm[p])
    /\ pool'[p] = "GONE" => pool[p] = "GONE"
StoreMoves(u, p) ==
    Settled(LbOf[p])' /\ p \notin left' =>
      /\ p \in pers' => \/ p \in sp' \/ Updating(flow'[u], p)
                        \/ \E s \in Slots \ {u} : Updating(flow[s], p)
      /\ Owned(p)'
      /\ \A g \in Flows : g = flow'[u] /\ Works(g) => Cleared(g, p)'
      /\ SameStore(p) \/ OthersOff(u, p)

LEMMA SameCleared ==
  ASSUME NEW p, SameStore(p), NEW f, Cleared(f, p)
  PROVE  Cleared(f, p)'
  BY DEF Cleared, SameStore, Past

LEMMA OffCleared ==
  ASSUME NEW p, NEW f, f.on \notin {p, LbOf[p]}
  PROVE  Cleared(f, p) /\ Cleared(f, p)'
  BY DEF Cleared

LEMMA StoreStep ==
  ASSUME NEW u \in Slots, NEW p \in Pools, Only(u), overlapped \subseteq overlapped',
         left \subseteq left', OrphanOK(p), StoreMoves(u, p)
  PROVE  OrphanOK(p)'
<1> SUFFICES ASSUME Settled(LbOf[p])', p \notin left'
    PROVE  /\ p \in pers' => p \in sp' \/ \E s \in Slots : Updating(flow'[s], p)
           /\ Owned(p)'
           /\ \A s \in Slots, f \in Flows : f = flow'[s] /\ Works(f) => Cleared(f, p)'
  BY DEF OrphanOK, Updating
<1>1. Settled(LbOf[p]) /\ p \notin left
  BY DEF Settled
<1>2. ASSUME NEW s \in Slots, NEW f \in Flows, f = flow'[s], Works(f) PROVE Cleared(f, p)'
  <2>1. CASE s = u
    BY <1>2, <2>1 DEF StoreMoves
  <2>2. CASE s # u
    <3>1. f = flow[s]
      BY <1>2, <2>2 DEF Only
    <3>2. Cleared(f, p)
      BY <1>1, <1>2, <3>1 DEF OrphanOK
    <3>3. CASE SameStore(p)
      BY <3>2, <3>3, SameCleared
    <3>4. CASE OthersOff(u, p)
      <4>1. f.on \notin {p, LbOf[p]}
        BY <1>2, <2>2, <3>1, <3>4 DEF OthersOff
      <4> QED
        BY <4>1, OffCleared
    <3> QED
      BY <3>3, <3>4 DEF StoreMoves
  <2> QED
    BY <2>1, <2>2
<1>3. ASSUME p \in pers', p \notin sp' PROVE \E s \in Slots : Updating(flow'[s], p)
  <2>1. Updating(flow'[u], p) \/ \E s \in Slots \ {u} : Updating(flow[s], p)
    BY <1>3 DEF StoreMoves
  <2>2. \A s \in Slots \ {u} : flow'[s] = flow[s]
    BY DEF Only
  <2> QED
    BY <2>1, <2>2
<1> QED
  BY <1>2, <1>3 DEF StoreMoves

(* The flow that moves is as busy with the template as before.             *)
LEMMA StoreFrame ==
  ASSUME NEW u \in Slots, NEW p \in Pools, Only(u), overlapped \subseteq overlapped',
         left \subseteq left', SameStore(p), OrphanOK(p),
         Updating(flow[u], p) => Updating(flow'[u], p) \/ p \in left',
         \A g \in Flows : g = flow'[u] /\ Works(g) /\ Settled(LbOf[p]) /\ p \notin left => Cleared(g, p)'
  PROVE  OrphanOK(p)'
<1>1. StoreMoves(u, p)
  <2> SUFFICES ASSUME Settled(LbOf[p])', p \notin left'
      PROVE  /\ p \in pers' => \/ p \in sp' \/ Updating(flow'[u], p)
                               \/ \E s \in Slots \ {u} : Updating(flow[s], p)
             /\ Owned(p)'
             /\ \A g \in Flows : g = flow'[u] /\ Works(g) => Cleared(g, p)'
    BY DEF StoreMoves
  <2>1. Settled(LbOf[p]) /\ p \notin left
    BY DEF Settled
  <2>2. Owned(p) /\ (p \in pers => p \in sp \/ \E s \in Slots : Updating(flow[s], p))
    BY <2>1 DEF OrphanOK
  <2>3. Owned(p)'
    BY <2>2 DEF Owned, SameStore
  <2>4. p \in pers' => \/ p \in sp' \/ Updating(flow[u], p)
                       \/ \E s \in Slots \ {u} : Updating(flow[s], p)
    BY <2>2 DEF SameStore
  <2> QED
    BY <2>1, <2>3, <2>4
<1> QED
  BY <1>1, StoreStep

LEMMA RunStores ==
  ASSUME ShapeAssumption, Inv, NEW s \in Slots, NEW do, At(s, do), Run(s)
  PROVE  Stores(s, do)
<1>0. \A d : At(s, d) => d = do
  BY DEF At, Doing
<1>1. PutProxy(s) => At(s, "proxy") /\ Stores(s, "proxy")
  BY DEF PutProxy, Stores, hist
<1>2. CreateGroup(s) => At(s, "group") /\ Stores(s, "group")
  BY DEF CreateGroup, Stores, hist
<1>3. ReplaceGroup(s) => At(s, "replace_group") /\ Stores(s, "replace_group")
  BY DEF ReplaceGroup, Stores, device, hist
<1>4. PutPersistence(s) => At(s, "persist") /\ Stores(s, "persist")
  BY DEF PutPersistence, Stores, hist
<1>5. DeletePersistence(s) => At(s, "no_persist") /\ Stores(s, "no_persist")
  <2> SUFFICES ASSUME DeletePersistence(s) PROVE At(s, "no_persist") /\ Stores(s, "no_persist")
    OBVIOUS
  <2>1. At(s, "no_persist") /\ pers' = IF Target(s) \in sp THEN pers \ {Target(s)} ELSE pers
    BY DEF DeletePersistence
  <2>2. UNCHANGED <<monitors, proxy, left>>
    BY DEF DeletePersistence, hist
  <2> QED
    BY <2>1, <2>2 DEF Stores
<1>6. UpdateFront(s) => At(s, "front") /\ Stores(s, "front")
  BY DEF UpdateFront, Stores, hist
<1>7. ClearFront(s) => At(s, "clear_front") /\ Stores(s, "clear_front")
  BY DEF ClearFront, Stores, hist
<1>8. CountProxyPools(s) => At(s, "count") /\ Stores(s, "count")
  BY DEF CountProxyPools, Stores, device, hist
<1>9. DeleteProxy(s) => At(s, "no_proxy") /\ Stores(s, "no_proxy")
  BY DEF DeleteProxy, Stores
<1>10. DeleteGroup(s) => At(s, "no_group") /\ Stores(s, "no_group")
  BY DEF DeleteGroup, Stores, hist
<1>11. CreateListener(s) => At(s, "listener") /\ Stores(s, "listener")
  BY DEF CreateListener, Stores, hist
<1>12. PutMonitor(s) => At(s, "monitor") /\ Stores(s, "monitor")
  BY DEF PutMonitor, Stores, hist
<1>13. Associate(s) => At(s, "associate") /\ Stores(s, "associate")
  BY DEF Associate, Stores
<1>14. UpdateMonitorTask(s) => At(s, "change_monitor") /\ Stores(s, "change_monitor")
  BY DEF UpdateMonitorTask, Stores, device, hist
<1>15. DeleteMonitorTask(s) => At(s, "no_monitor") /\ Stores(s, "no_monitor")
  BY DEF DeleteMonitorTask, Stores, hist
<1>16. UpdatePoolRow(s) => At(s, "pool_row") /\ Stores(s, "pool_row")
  BY DEF UpdatePoolRow, Stores, device, hist
<1>17. MarkPoolActive(s) => At(s, "pool_active") /\ Stores(s, "pool_active")
  BY DEF MarkPoolActive, Stores, device, hist
<1>18. MarkMonitorActive(s) => At(s, "hm_active") /\ Stores(s, "hm_active")
  BY DEF MarkMonitorActive, Stores, device, hist
<1>19. MarkActive(s) => At(s, "active") /\ Stores(s, "active")
  BY DEF MarkActive, Stores, device, hist
<1>20. MarkPoolPendingDelete(s) => At(s, "deleting") /\ Stores(s, "deleting")
  BY DEF MarkPoolPendingDelete, Stores, device, hist
<1>21. DeletePoolRow(s) => At(s, "no_row") /\ Stores(s, "no_row")
  BY DEF DeletePoolRow, Stores, device, hist
<1>22. DeleteMonitorRow(s) => At(s, "no_hm_row") /\ Stores(s, "no_hm_row")
  BY DEF DeleteMonitorRow, Stores, device, hist
<1>23. DeleteLbTask(s) => At(s, "no_lb") /\ Stores(s, "no_lb")
  BY DEF DeleteLbTask, Stores, hist
<1>24. \E d : At(s, d) /\ Stores(s, d)
  BY <1>1, <1>2, <1>3, <1>4, <1>5, <1>6, <1>7, <1>8, <1>9, <1>10, <1>11, <1>12, <1>13, <1>14, <1>15,
     <1>16, <1>17, <1>18, <1>19, <1>20, <1>21, <1>22, <1>23, Zenon DEF Run
<1> QED
  BY <1>0, <1>24

(* What it does to the objects of one pool: the one it is at, and others.  *)
Keeps(f, do, p) ==
    /\ p \in pers' <=> IF do = "persist" THEN IF f.on = p THEN f.sp ELSE p \in sp
                       ELSE p \in pers /\ ~(do = "no_persist" /\ p \in sp)
    /\ p \in sp' <=> IF do = "pool_row" THEN f.sp ELSE p \in sp
    /\ p \in monitors' <=> do = "monitor" \/ (p \in monitors /\ ~(do = "no_monitor" /\ p \in f.monitored))
    /\ p \in groups' => do = "group" \/ (p \in groups /\ do # "no_group")
    /\ HasRow(hm'[p]) <=> HasRow(hm[p]) /\ do \notin {"no_hm_row", "no_row"}
    /\ pool'[p] = "GONE" => pool[p] = "GONE" \/ do = "no_row"

LEMMA TaskKeeps ==
  ASSUME ShapeAssumption, Inv, NEW u \in Slots, NEW do, Serves(u, do), Watches(u, do), Stores(u, do),
         NEW f \in Flows, f = flow[u], NEW p \in Pools
  PROVE  /\ p = Target(u) => Keeps(f, do, p)
         /\ p # Target(u) => SameStore(p)
<1>0. PICK t : t = Target(u)
  OBVIOUS
<1>1. pool \in [Pools -> Statuses] /\ hm \in [Pools -> Statuses]
  BY DEF Inv, TypeOK
<1>2. /\ pool'[p] = "GONE" => pool[p] = "GONE" \/ (do = "no_row" /\ p = t)
  <2>1. /\ do = "no_row" => pool' = Set(pool, {t}, "GONE")
        /\ do # "no_row" => pool' \in {pool, Set(pool, {t}, "ACTIVE"), Set(pool, {t}, "DELETING")}
    BY <1>0 DEF Serves, RowEffect
  <2> QED
    BY <1>1, <2>1 DEF Set
<1>3. HasRow(hm'[p]) <=> HasRow(hm[p]) /\ ~(do \in {"no_hm_row", "no_row"} /\ p = t)
  <2>1. /\ do \notin {"no_hm_row", "no_row"} => hm' \in {hm, Set(hm, {t}, "ACTIVE")}
        /\ do \in {"no_hm_row", "no_row"} => hm' = Set(hm, {t}, "GONE")
    BY <1>0 DEF Watches
  <2> QED
    BY <1>1, <2>1 DEF Set, HasRow
<1>4. p \in sp' <=> IF do = "pool_row" /\ p = t THEN f.sp ELSE p \in sp
  <2>1. /\ do # "pool_row" => sp' = sp
        /\ do = "pool_row" => sp' = IF f.sp THEN sp \cup {t} ELSE sp \ {t}
    BY <1>0 DEF Serves, ServiceEffect, Stores
  <2> QED
    BY <2>1
<1>5. p \in groups' => (do = "group" /\ p = t) \/ (p \in groups /\ ~(do = "no_group" /\ p = t))
  BY <1>0 DEF Serves, ServiceEffect, Stores
<1>6. /\ p = t => (p \in pers' <=> IF do = "persist" THEN IF f.on = p THEN f.sp ELSE p \in sp
                                   ELSE p \in pers /\ ~(do = "no_persist" /\ p \in sp))
      /\ p # t => (p \in pers' <=> p \in pers)
  BY <1>0 DEF Stores, WantsPers
<1>7. p \in monitors' <=> (do = "monitor" /\ p = t)
                          \/ (p \in monitors /\ ~(do = "no_monitor" /\ p = t /\ p \in f.monitored))
  BY <1>0 DEF Stores
<1> QED
  BY <1>0, <1>2, <1>3, <1>4, <1>5, <1>6, <1>7 DEF Keeps, SameStore

(* A task of a flow on a pool.                                             *)
LEMMA PoolTaskStore ==
  ASSUME ShapeAssumption, Inv, NEW u \in Slots, NEW do, FlowEffect(u, do),
         NEW f \in Flows, f = flow[u], NEW g \in Flows, g = flow'[u], NEW p \in Pools, f.on = p,
         Keeps(f, do, p), PoolStatus(f), PoolGood(f), HmFlow(f, p), Owned(p), Cleared(f, p),
         p \in pers => p \in sp \/ Updating(f, p)
  PROVE  /\ p \in pers' => p \in sp' \/ Updating(g, p)
         /\ Owned(p)' /\ Cleared(g, p)'
<1>1. /\ Shape(f) /\ Doing(f, do) /\ f.step = "run" /\ g.step = "run" /\ f.cur = p
      /\ g.op = f.op /\ g.on = p /\ g.sp = f.sp /\ g.pc = f.pc + 1 /\ f.pc \in Nat /\ g.cur = p
      /\ g.monitored = f.monitored /\ f.rest = {} /\ g.rest = {}
      /\ f.op \in PoolOps \cup HmOps /\ (f.op \in HmOps => p \in f.monitored)
      /\ do = "no_row" => f.op = "delete_pool"
  <2>1. f.on \notin LBs
    BY DEF ShapeAssumption
  <2>2. /\ Shape(f) /\ Shape(g) /\ Doing(f, do) /\ f.step = "run" /\ g.step = "run"
        /\ g.op = f.op /\ g.on = f.on /\ g.sp = f.sp /\ g.pc = f.pc + 1 /\ f.pc \in Nat
        /\ do = "no_row" => f.op = "delete_pool"
    BY PoolTask
  <2>3. PoolShape(f) /\ PoolShape(g)
    BY <2>1, <2>2 DEF Shape, LbShape
  <2>4. g.monitored = f.monitored
    BY DEF FlowEffect, Walks
  <2> QED
    BY <2>2, <2>3, <2>4 DEF PoolShape
<1>2. Place(f.op, TRUE, do, f.pc)
  BY <1>1, Places
<1>3. f.op # "delete_pool" => pool[p] # "GONE"
  BY <1>1 DEF PoolStatus, StatusAt
<1>4. f.op # "delete_pool" => pool'[p] # "GONE"
  BY <1>1, <1>3 DEF Keeps
<1>5. CASE f.op = "create_pool"
  <2>1. do \notin {"no_hm_row", "no_row", "monitor", "no_monitor", "pool_row", "no_persist"}
    BY <1>2, <1>5 DEF Place
  <2>2. f.sp <=> p \in sp
    BY <1>1, <1>5 DEF PoolGood
  <2>3. p \in pers' => p \in sp'
    BY <1>1, <1>5, <2>1, <2>2 DEF Keeps, Updating
  <2>4. Owned(p)'
    BY <1>4, <1>5, <2>1 DEF Owned, Keeps
  <2> QED
    BY <1>1, <1>5, <2>3, <2>4 DEF Cleared, Past
<1>6. CASE f.op = "update_pool"
  <2>1. /\ do \notin {"no_hm_row", "no_row", "monitor", "no_monitor", "no_persist"}
        /\ do = "persist" <=> f.pc = 2
        /\ do = "pool_row" <=> f.pc = 4
        /\ f.pc \in 1 .. 6
    BY <1>2, <1>6 DEF Place
  <2>2. /\ Updating(f, p) <=> f.pc \in {3, 4}
        /\ Updating(g, p) <=> g.pc \in {3, 4}
    BY <1>1, <1>6 DEF Updating
  <2>3. f.pc \in {3, 4} /\ p \in pers => f.sp
    BY <1>1, <1>6 DEF Cleared
  <2>4. p \in pers' => p \in sp' \/ Updating(g, p)
    <3>1. CASE f.pc = 2
      BY <1>1, <2>2, <3>1
    <3>2. CASE f.pc = 3
      BY <1>1, <2>2, <3>2
    <3>3. CASE f.pc = 4
      BY <2>1, <2>3, <3>3 DEF Keeps
    <3>4. CASE f.pc \notin {2, 3, 4}
      BY <2>1, <2>2, <3>4 DEF Keeps
    <3> QED
      BY <3>1, <3>2, <3>3, <3>4
  <2>5. g.pc \in {3, 4} /\ p \in pers' => g.sp
    BY <1>1, <2>1, <2>3 DEF Keeps
  <2>6. Owned(p)'
    BY <1>4, <1>6, <2>1 DEF Owned, Keeps
  <2> QED
    BY <1>1, <1>6, <2>4, <2>5, <2>6 DEF Cleared, Past
<1>7. CASE f.op = "delete_pool"
  <2>1. /\ do \notin {"no_hm_row", "monitor", "group", "persist", "pool_row"}
        /\ do = "no_persist" <=> f.pc = 2
        /\ do = "no_monitor" <=> f.pc = 4
        /\ do = "no_group" <=> f.pc = 6
        /\ do = "no_row" <=> f.pc = 7
        /\ f.pc \in 1 .. 8
    BY <1>2, <1>7 DEF Place
  <2>2. ~Updating(f, p)
    BY <1>7 DEF Updating
  <2>3. /\ p \notin f.monitored => ~HasRow(hm[p])
        /\ f.pc > 2 => p \notin pers
        /\ f.pc > 4 => p \notin monitors
        /\ f.pc > 6 => p \notin groups
    BY <1>1, <1>7 DEF Cleared, Past
  <2>4. /\ p \notin f.monitored => ~HasRow(hm'[p])
        /\ g.pc > 2 => p \notin pers'
    BY <1>1, <2>1, <2>2, <2>3 DEF Keeps
  <2>5. g.pc > 4 => p \notin monitors'
    <3>1. CASE f.pc = 4
      BY <2>1, <2>3, <3>1 DEF Keeps, Owned
    <3>2. CASE f.pc # 4
      BY <1>1, <2>1, <2>3, <3>2 DEF Keeps
    <3> QED
      BY <3>1, <3>2
  <2>6. g.pc > 6 => p \notin groups'
    BY <1>1, <2>1, <2>3 DEF Keeps
  <2>7. p \in pers' => p \in sp'
    BY <2>1, <2>2 DEF Keeps
  <2>8. Owned(p)'
    <3>1. p \in monitors' => HasRow(hm'[p])
      <4>1. CASE f.pc = 7
        BY <1>1, <2>5, <4>1
      <4>2. CASE f.pc # 7
        BY <2>1, <4>2 DEF Owned, Keeps
      <4> QED
        BY <4>1, <4>2
    <3>2. pool'[p] = "GONE" => p \notin groups' /\ p \notin pers' /\ p \notin monitors'
      <4>1. CASE f.pc = 7
        BY <1>1, <2>4, <2>5, <2>6, <4>1
      <4>2. CASE f.pc # 7
        BY <2>1, <4>2 DEF Owned, Keeps
      <4> QED
        BY <4>1, <4>2
    <3> QED
      BY <3>1, <3>2 DEF Owned
  <2> QED
    BY <1>1, <1>7, <2>4, <2>5, <2>6, <2>7, <2>8 DEF Cleared, Past
<1>8. CASE f.op \in HmOps
  <2>1. /\ do \notin {"no_row", "group", "persist", "pool_row", "no_persist"}
        /\ do = "monitor" => f.op = "create_hm" /\ f.pc = 1
        /\ f.op = "delete_hm" => do = "no_monitor" <=> f.pc = 1
        /\ do = "no_hm_row" => f.op = "delete_hm" /\ f.pc = 2
        /\ f.pc \in 1 .. 5
    BY <1>2, <1>8 DEF Place, HmOps
  <2>2. ~Updating(f, p)
    BY <1>8 DEF Updating, HmOps
  <2>3. do = "monitor" => HasRow(hm[p])
    <3>1. f.op = "create_hm" => hm[p] = IF f.pc <= 3 THEN "PENDING" ELSE "ACTIVE"
      BY <1>1 DEF HmFlow, HmOfPool
    <3> QED
      BY <2>1, <3>1 DEF HasRow
  <2>4. f.op = "delete_hm" => /\ f.pc >= 2 => p \notin monitors
                              /\ p \notin monitors'
    <3>1. f.op = "delete_hm" /\ f.pc >= 2 => p \notin monitors
      BY <1>1 DEF Cleared
    <3> QED
      BY <1>1, <1>8, <2>1, <3>1 DEF Keeps
  <2>5. p \in pers' => p \in sp'
    BY <2>1, <2>2 DEF Keeps
  <2>6. Owned(p)'
    <3>1. p \in monitors' => HasRow(hm'[p])
      BY <2>1, <2>3, <2>4 DEF Owned, Keeps
    <3> QED
      BY <1>4, <1>8, <3>1 DEF Owned, HmOps
  <2> QED
    BY <1>1, <1>8, <2>4, <2>5, <2>6 DEF Cleared, Past, HmOps
<1> QED
  BY <1>1, <1>5, <1>6, <1>7, <1>8 DEF PoolOps

(* A task of the creation of a load balancer.                              *)
LEMMA CreateLbTaskStore ==
  ASSUME ShapeAssumption, Inv, NEW u \in Slots, NEW do, FlowEffect(u, do),
         NEW f \in Flows, f = flow[u], NEW g \in Flows, g = flow'[u], f.on \in LBs,
         f.op = "create_lb", NEW p \in Under(f.on), IF p = f.cur THEN Keeps(f, do, p) ELSE SameStore(p),
         LbStatus(f, p), HmFlow(f, p), Owned(p), Cleared(f, p), p \in pers => p \in sp
  PROVE  (p \in pers' => p \in sp') /\ Owned(p)' /\ Cleared(g, p)'
<1>1. /\ Shape(f) /\ Doing(f, do) /\ f.step = "run" /\ g.step = "run"
      /\ g.op = f.op /\ g.on = f.on /\ f.pc \in Nat /\ g.pc \in Nat
      /\ Within(f, g) \/ Onward(f, g)
  BY LbTask
<1>2. p \in Pools /\ p # f.on /\ LbOf[p] = f.on
  BY DEF Under, ShapeAssumption
<1>3. g.monitored = f.monitored
  BY DEF FlowEffect, Walks
<1>4. Cleared(g, p)'
  <2>1. ASSUME p = g.cur, p \notin f.monitored PROVE g.pc >= 4
    <3>1. CASE p = f.cur
      <4>1. f.pc >= 4
        BY <1>1, <1>2, <2>1, <3>1 DEF Cleared
      <4>2. Within(f, g)
        BY <1>1, <2>1, <3>1 DEF Onward
      <4> QED
        BY <1>1, <4>1, <4>2 DEF Within
    <3>2. CASE p # f.cur
      <4>1. g.pc = FirstTask(f, p)
        BY <1>2, <2>1, <3>2 DEF FlowEffect, Walks
      <4> QED
        BY <2>1, <4>1 DEF FirstTask
    <3> QED
      BY <3>1, <3>2
  <2> QED
    BY <1>1, <1>3, <2>1 DEF Cleared, Past
<1>5. CASE p # f.cur
  BY <1>4, <1>5 DEF SameStore, Owned
<1>6. CASE p = f.cur
  <2>1. Place("create_lb", FALSE, do, f.pc)
    <3>1. (f.cur = f.on) = FALSE
      BY <1>2, <1>6
    <3>2. Place(f.op, f.cur = f.on, do, f.pc)
      BY <1>1, Places
    <3> QED
      BY <3>1, <3>2
  <2>2. /\ do \notin {"no_hm_row", "no_row", "no_monitor", "no_persist", "pool_row"}
        /\ do = "monitor" => f.pc = 1
    BY <2>1 DEF Place
  <2>3. pool[p] = "PENDING"
    BY <1>1, <1>6 DEF LbStatus
  <2>4. do = "monitor" => HasRow(hm[p])
    <3> SUFFICES ASSUME do = "monitor" PROVE HasRow(hm[p])
      OBVIOUS
    <3>1. p \in f.monitored
      BY <1>1, <1>2, <1>6, <2>2 DEF Cleared
    <3>2. HmBuilt(f, p)
      BY <1>1, <1>2 DEF HmFlow, HmOfLb
    <3> QED
      BY <3>1, <3>2 DEF HmBuilt, HasRow
  <2>5. p \in pers' => p \in sp'
    BY <1>2, <1>6, <2>2 DEF Keeps
  <2>6. Owned(p)'
    BY <1>6, <2>2, <2>3, <2>4 DEF Owned, Keeps
  <2> QED
    BY <1>4, <2>5, <2>6
<1> QED
  BY <1>5, <1>6

(* A task of its deletion.                                                 *)
LEMMA DeleteLbTaskStore ==
  ASSUME ShapeAssumption, Inv, NEW u \in Slots, NEW do, FlowEffect(u, do),
         NEW f \in Flows, f = flow[u], NEW g \in Flows, g = flow'[u], f.on \in LBs,
         f.op = "delete_lb", NEW p \in Under(f.on), IF p = f.cur THEN Keeps(f, do, p) ELSE SameStore(p),
         Owned(p), Cleared(f, p), p \in pers => p \in sp
  PROVE  (p \in pers' => p \in sp') /\ Owned(p)' /\ Cleared(g, p)'
<1>1. /\ Shape(f) /\ Doing(f, do) /\ f.step = "run" /\ g.step = "run"
      /\ g.op = f.op /\ g.on = f.on /\ f.pc \in Nat /\ g.pc \in Nat
      /\ Within(f, g) \/ Onward(f, g)
  BY LbTask
<1>2. p \in Pools /\ p # f.on /\ LbOf[p] = f.on
  BY DEF Under, ShapeAssumption
<1>3. g.monitored = f.monitored
  BY DEF FlowEffect, Walks
<1>4. p \in f.rest \cup {f.cur} /\ p \notin f.monitored => ~HasRow(hm[p])
  BY <1>1, <1>2 DEF Cleared
<1>5. p \in g.rest \cup {g.cur} => p \in f.rest \cup {f.cur}
  BY <1>1 DEF Within, Onward
<1>6. HasRow(hm'[p]) => HasRow(hm[p])
  BY DEF Keeps, SameStore
<1>7. p \in g.rest \cup {g.cur} /\ p \notin g.monitored => ~HasRow(hm'[p])
  BY <1>3, <1>4, <1>5, <1>6
<1>8. CASE p # f.cur
  <2>1. p = g.cur => g.pc = 1
    BY <1>1, <1>8 DEF Within, Onward
  <2>2. Cleared(g, p)'
    BY <1>1, <1>7, <2>1 DEF Cleared, Past
  <2> QED
    BY <1>8, <2>2 DEF SameStore, Owned
<1>9. CASE p = f.cur
  <2>0. Keeps(f, do, p)
    BY <1>9
  <2>1. Place("delete_lb", FALSE, do, f.pc)
    <3>1. (f.cur = f.on) = FALSE
      BY <1>2, <1>9
    <3>2. Place(f.op, f.cur = f.on, do, f.pc)
      BY <1>1, Places
    <3> QED
      BY <3>1, <3>2
  <2>2. /\ do \notin {"no_hm_row", "monitor", "group", "persist", "pool_row"}
        /\ do = "no_persist" <=> f.pc = 3
        /\ do = "no_monitor" <=> f.pc = 5
        /\ do = "no_group" <=> f.pc = 7
        /\ do = "no_row" <=> f.pc = 8
        /\ f.pc \in 1 .. 8
    BY <2>1 DEF Place
  <2>3. /\ f.pc > 3 => p \notin pers
        /\ f.pc > 5 => p \notin monitors
        /\ f.pc > 7 => p \notin groups
    BY <1>1, <1>2, <1>9 DEF Cleared, Past
  <2>4. f.pc + 1 > 3 => p \notin pers'
    BY <2>0, <2>2, <2>3 DEF Keeps
  <2>5. f.pc + 1 > 5 => p \notin monitors'
    <3>1. CASE f.pc = 5
      BY <1>4, <1>9, <2>0, <2>2, <3>1 DEF Keeps, Owned
    <3>2. CASE f.pc # 5
      BY <2>0, <2>2, <2>3, <3>2 DEF Keeps
    <3> QED
      BY <3>1, <3>2
  <2>6. f.pc + 1 > 7 => p \notin groups'
    BY <2>0, <2>2, <2>3 DEF Keeps
  <2>7. p = g.cur => g.pc = f.pc + 1
    BY <1>1, <1>9 DEF Within, Onward
  <2>8. p \in pers' => p \in sp'
    BY <2>0, <2>2 DEF Keeps
  <2>9. Owned(p)'
    <3>1. CASE f.pc = 8
      BY <2>2, <2>4, <2>5, <2>6, <3>1 DEF Owned
    <3>2. CASE f.pc # 8
      BY <2>0, <2>2, <3>2 DEF Owned, Keeps
    <3> QED
      BY <3>1, <3>2
  <2>10. Cleared(g, p)'
    BY <1>1, <1>7, <2>4, <2>5, <2>6, <2>7 DEF Cleared, Past
  <2> QED
    BY <2>8, <2>9, <2>10
<1> QED
  BY <1>8, <1>9

LEMMA UpdatingWorks ==
  ASSUME ShapeAssumption, FlowInv, NEW s \in Slots, NEW p \in Pools, Updating(flow[s], p)
  PROVE  Works(flow[s])
<1>1. flow[s] \in Flows /\ Shape(flow[s])
  BY FlowKinds DEF Updating
<1>2. Len(Tasks(flow[s])) = 6
  BY <1>1, Lengths DEF Updating
<1> QED
  BY <1>2 DEF Updating, Works, Trails, Ended

(* What a flow that works on a pool, or on its load balancer, relies on.   *)
Relied(u, f, p) ==
    /\ OthersOff(u, p) /\ Owned(p) /\ Cleared(f, p)
    /\ p \in pers => p \in sp \/ Updating(f, p)

LEMMA OwnStore ==
  ASSUME ShapeAssumption, ServedInv, NEW u \in Slots, NEW f \in Flows, f = flow[u], Works(f),
         NEW p \in Pools, f.on \in {p, LbOf[p]}, OrphanOK(p), Settled(LbOf[p]), p \notin left
  PROVE  Relied(u, f, p) /\ LbOK(LbOf[p]) /\ FlowOK(f) /\ LbOf[p] \in LBs /\ LbOfFlow(f) = LbOf[p]
<1>1. FlowInv /\ LbOf[p] \in LBs /\ LbOK(LbOf[p]) /\ f.step # "idle" /\ p \in Under(LbOf[p])
  BY DEF ServedInv, Inv, Works, ShapeAssumption, Under
<1>2. LbOfFlow(f) = LbOf[p] /\ u \in On(LbOf[p])
  <2>1. LbOfFlow(f) = LbOf[p]
    BY <1>1 DEF LbOfFlow, ShapeAssumption
  <2> QED
    BY <1>1, <2>1, OnIs
<1>3. Exclusive(LbOf[p]) /\ FlowOK(f)
  BY <1>1, <1>2 DEF LbOK
<1>4. \A t \in Slots \ {u} : flow[t].on \in {p, LbOf[p]} => Trails(flow[t])
  BY <1>1, <1>2, <1>3, Workers
<1>5. OthersOff(u, p)
  BY <1>4 DEF OthersOff, Works
<1>6. p \in pers => p \in sp \/ Updating(f, p)
  <2> SUFFICES ASSUME p \in pers, p \notin sp PROVE Updating(f, p)
    OBVIOUS
  <2>1. PICK s \in Slots : Updating(flow[s], p)
    BY DEF OrphanOK
  <2>2. Works(flow[s]) /\ flow[s].on = p
    BY <1>1, <2>1, UpdatingWorks DEF Updating
  <2> QED
    BY <1>5, <2>1, <2>2 DEF OthersOff
<1> QED
  BY <1>1, <1>2, <1>3, <1>5, <1>6 DEF Relied, OrphanOK

LEMMA RunOwnStore ==
  ASSUME ShapeAssumption, MonitorInv, NEW u \in Slots, NEW do, FlowEffect(u, do), Serves(u, do),
         Watches(u, do), Stores(u, do), NEW f \in Flows, f = flow[u], NEW g \in Flows, g = flow'[u],
         NEW p \in Pools, f.on \in {p, LbOf[p]}, OrphanOK(p)
  PROVE  StoreMoves(u, p)
<1> SUFFICES ASSUME Settled(LbOf[p])', p \notin left' PROVE StoreMoves(u, p)
  BY DEF StoreMoves
<1>1. ServedInv /\ Inv /\ HmOK(p) /\ Settled(LbOf[p]) /\ p \notin left
  BY DEF MonitorInv, ServedInv, FlowEffect, Settled, Stores
<1>2. Works(f) /\ Target(u) = f.cur
  <2>1. f.on \in Pools => Works(f)
    BY <1>1, PoolTask
  <2>2. f.on \in LBs => Works(f)
    BY <1>1, LbTask
  <2> QED
    BY <2>1, <2>2 DEF Target, ShapeAssumption
<1>3. Relied(u, f, p) /\ LbOK(LbOf[p]) /\ FlowOK(f) /\ LbOf[p] \in LBs
  BY <1>1, <1>2, OwnStore
<1>4. HmFlow(f, p)
  BY <1>1, <1>2 DEF HmOK
<1>5. IF p = f.cur THEN Keeps(f, do, p) ELSE SameStore(p)
  BY <1>1, <1>2, TaskKeeps
<1>6. (p \in pers' => p \in sp' \/ Updating(g, p)) /\ Owned(p)' /\ Cleared(g, p)'
  <2>1. CASE f.on = p
    <3>1. PoolStatus(f) /\ PoolGood(f)
      BY <1>2, <1>3, <2>1 DEF FlowOK
    <3>2. p = f.cur
      BY <1>1, <1>2, <2>1, PoolTask
    <3> QED
      BY <1>1, <1>3, <1>4, <1>5, <2>1, <3>1, <3>2, PoolTaskStore DEF Relied
  <2>2. CASE f.on = LbOf[p]
    <3>1. p \in Under(f.on) /\ f.on \in LBs /\ LbStatus(f, p) /\ f.op \in LbOps
      <4>1. f.on \in LBs /\ p \in Under(f.on)
        BY <1>3, <2>2 DEF Under
      <4> QED
        BY <1>1, <1>2, <1>3, <4>1, LbTask DEF FlowOK
    <3>2. p \in pers => p \in sp
      BY <1>3, <3>1 DEF Relied, Updating, ShapeAssumption
    <3>3. CASE f.op = "create_lb"
      BY <1>1, <1>3, <1>4, <1>5, <3>1, <3>2, <3>3, CreateLbTaskStore DEF Relied
    <3>4. CASE f.op = "delete_lb"
      BY <1>1, <1>3, <1>5, <3>1, <3>2, <3>4, DeleteLbTaskStore DEF Relied
    <3> QED
      BY <3>1, <3>3, <3>4 DEF LbOps
  <2> QED
    BY <2>1, <2>2
<1> QED
  BY <1>3, <1>6 DEF StoreMoves, Relied

LEMMA RunOrphan ==
  ASSUME ShapeAssumption, MonitorInv, NEW u \in Slots, NEW do, FlowEffect(u, do), Serves(u, do),
         Watches(u, do), Stores(u, do), NEW p \in Pools, OrphanOK(p)
  PROVE  OrphanOK(p)'
<1>1. ServedInv /\ Inv /\ FlowInv /\ Only(u) /\ overlapped \subseteq overlapped' /\ left \subseteq left'
  BY DEF MonitorInv, ServedInv, Inv, FlowEffect, Stores
<1>2. PICK f \in Flows : f = flow[u] /\ Shape(f) /\ f.step = "run"
  BY <1>1, Stage DEF FlowEffect
<1>3. PICK g \in Flows : g = flow'[u] /\ g.on = f.on
  BY <1>2 DEF FlowEffect, Walks
<1>4. CASE f.on \in {p, LbOf[p]}
  BY <1>1, <1>2, <1>3, <1>4, RunOwnStore, StoreStep
<1>5. CASE f.on \notin {p, LbOf[p]}
  <2>1. p # Target(u)
    <3>1. f.on \in Pools => Target(u) = f.on
      BY <1>1, <1>2, <1>3, PoolTask
    <3>2. f.on \in LBs => Target(u) = f.on \/ Target(u) \in Under(f.on)
      BY <1>1, <1>2, <1>3, LbTask
    <3>3. f.on \in Pools \cup LBs
      BY <1>2 DEF Shape, PoolShape, LbShape
    <3> QED
      BY <1>5, <3>1, <3>2, <3>3 DEF ShapeAssumption, Under
  <2>2. SameStore(p)
    BY <1>1, <1>2, <2>1, TaskKeeps
  <2>3. ~Updating(f, p) /\ Cleared(g, p)'
    BY <1>3, <1>5, OffCleared DEF Updating
  <2> QED
    BY <1>1, <1>2, <1>3, <2>2, <2>3, StoreFrame
<1> QED
  BY <1>4, <1>5

(* The start, the end and the failure of a flow, and its reverts, leave    *)
(* the objects of every pool as they were, or fewer.                       *)
LEMMA SetKeeps ==
  ASSUME NEW st \in [Pools -> Statuses], NEW S, NEW to \in {"ACTIVE", "ERROR"}, NEW p \in Pools
  PROVE  /\ HasRow(Set(st, S, to)[p]) <=> HasRow(st[p])
         /\ Set(st, S, to)[p] = "GONE" => st[p] = "GONE"
  BY DEF Set, HasRow

LEMMA BeginOrphan ==
  ASSUME ShapeAssumption, MonitorInv, NEW u \in Slots, Begin(u), NEW p \in Pools, OrphanOK(p)
  PROVE  OrphanOK(p)'
<1>1. /\ Inv /\ Only(u) /\ flow[u].step = "queued" /\ flow[u] \in Flows /\ flow'[u] \in Flows
      /\ flow'[u].step = "run" /\ flow'[u].op = flow[u].op /\ flow'[u].on = flow[u].on
      /\ flow'[u].sp = flow[u].sp /\ flow'[u].monitored = flow[u].monitored
      /\ flow'[u].rest = flow[u].rest /\ flow'[u].cur = flow[u].cur /\ flow'[u].pc = flow[u].pc
  BY BeginStep DEF MonitorInv, ServedInv
<1>2. UNCHANGED <<rows, device, hist>>
  BY DEF Begin
<1>3. SameStore(p) /\ overlapped' = overlapped /\ left' = left
  BY <1>2 DEF SameStore, rows, device, hist
<1>4. Works(flow[u]) /\ ~Updating(flow[u], p)
  BY <1>1 DEF Works, Trails, Updating
<1>5. ASSUME NEW g \in Flows, g = flow'[u], Settled(LbOf[p]), p \notin left PROVE Cleared(g, p)'
  <2>1. Cleared(flow[u], p)
    BY <1>1, <1>4, <1>5 DEF OrphanOK
  <2>2. Cleared(g, p)
    BY <1>1, <1>5, <2>1 DEF Cleared, Past
  <2> QED
    BY <1>3, <2>2, SameCleared
<1> QED
  BY <1>1, <1>3, <1>4, <1>5, StoreFrame

LEMMA FinishOrphan ==
  ASSUME ShapeAssumption, MonitorInv, NEW u \in Slots, Finish(u), NEW p \in Pools, OrphanOK(p)
  PROVE  OrphanOK(p)'
<1>1. Inv /\ FlowInv /\ Only(u) /\ flow'[u] = Idle /\ flow[u].step = "run" /\ Ended(flow[u])
  BY FinishStep DEF MonitorInv, ServedInv, Inv
<1>2. UNCHANGED <<rows, device, hist>>
  BY DEF Finish
<1>3. SameStore(p) /\ overlapped' = overlapped /\ left' = left
  BY <1>2 DEF SameStore, rows, device, hist
<1>4. ~Works(flow'[u])
  BY <1>1, IdleIs
<1>5. ~Updating(flow[u], p)
  BY <1>1, UpdatingWorks DEF Updating, Works, Trails
<1> QED
  BY <1>1, <1>3, <1>4, <1>5, StoreFrame

LEMMA FailLeaves ==
  ASSUME NEW u, Fail(u)
  PROVE  /\ left \subseteq left' /\ (flow[u].op = "update_pool" => flow[u].on \in left')
         /\ UNCHANGED <<sp, groups, pers, monitors, proxy>>
<1>1. UNCHANGED <<sp, groups, pers, monitors, proxy>>
  BY DEF Fail, device
<1>2. left' = IF flow[u].op = "update_pool" THEN left \cup {flow[u].on} ELSE left
  BY DEF Fail
<1> QED
  BY <1>1, <1>2

LEMMA FailOrphan ==
  ASSUME ShapeAssumption, MonitorInv, NEW u \in Slots, Fail(u), NEW p \in Pools, OrphanOK(p)
  PROVE  OrphanOK(p)'
<1>1. /\ Inv /\ Only(u) /\ flow'[u] \in Flows /\ flow'[u].step = "revert"
      /\ pool \in [Pools -> Statuses] /\ hm \in [Pools -> Statuses]
  BY FailStep DEF MonitorInv, ServedInv, Inv, TypeOK
<1>2. PICK g, l : g = flow'[u] /\ l = LbOfFlow(flow[u])
  OBVIOUS
<1>3. /\ pool' = Set(pool, Did(g, "pool_active") \cup Did(g, "deleting"), "ERROR")
      /\ hm' = Set(hm, Did(g, "hm_active"), "ERROR")
      /\ overlapped \subseteq overlapped'
  <2>1. /\ pool' = Set(pool, Did(g, "pool_active") \cup Did(g, "deleting"), "ERROR")
        /\ overlapped' = IF On(l) # {u} THEN overlapped \cup {l} ELSE overlapped
    BY <1>1, <1>2, FailEffects
  <2>2. hm' = Set(hm, Did(g, "hm_active"), "ERROR")
    BY <1>1, <1>2, FailWrites
  <2> QED
    BY <2>1, <2>2
<1>4. SameStore(p)
  BY <1>1, <1>3, SetKeeps, FailLeaves DEF SameStore
<1>5. Updating(flow[u], p) => p \in left'
  BY FailLeaves DEF Updating
<1>6. \A h \in Flows : h = flow'[u] => Cleared(h, p)'
  BY <1>1 DEF Cleared
<1> QED
  BY <1>1, <1>3, <1>4, <1>5, <1>6, FailLeaves, StoreFrame

LEMMA RevertRows ==
  ASSUME ShapeAssumption, Inv, NEW u \in Slots, Revert(u)
  PROVE  pool' = pool \/ \E S : pool' \in {Set(pool, S, "ERROR"), Set(pool, S, "ACTIVE")}
<1>1. PICK f \in Flows : f = flow[u]
  BY DEF Inv, FlowInv
<1>2. PICK l : l = LbOfFlow(f)
  OBVIOUS
<1>3. f.op \in PoolOps \cup HmOps \cup LbOps
  BY <1>1, <1>2, RevertEffects DEF Shape, PoolShape, LbShape
<1>4. CASE f.op = "create_lb"
  BY <1>1, <1>2, <1>4, RevertEffects
<1>5. CASE f.op = "delete_lb"
  BY <1>1, <1>2, <1>5, RevertEffects
<1>6. CASE f.op \in PoolOps
  BY <1>1, <1>2, <1>6, RevertEffects
<1>7. CASE f.op \in HmOps
  BY <1>1, <1>2, <1>7, RevertEffects
<1> QED
  BY <1>3, <1>4, <1>5, <1>6, <1>7 DEF LbOps

LEMMA RevertLeaves ==
  ASSUME ShapeAssumption, Inv, NEW u \in Slots, Revert(u), NEW p \in Pools
  PROVE  SameStore(p) /\ left \subseteq left' /\ overlapped \subseteq overlapped' /\ proxy' = proxy
<1>1. PICK f \in Flows : f = flow[u]
  BY DEF Inv, FlowInv
<1>2. PICK l : l = LbOfFlow(f)
  OBVIOUS
<1>3. pool \in [Pools -> Statuses] /\ hm \in [Pools -> Statuses]
  BY DEF Inv, TypeOK
<1>4. /\ groups' \subseteq groups /\ pers' \subseteq pers /\ monitors' \subseteq monitors
      /\ left \subseteq left' /\ proxy' = proxy
  BY RevertDevice
<1>5. sp' = sp /\ overlapped \subseteq overlapped'
  <2>1. sp' = sp /\ overlapped' = IF On(l) # {u} THEN overlapped \cup {l} ELSE overlapped
    BY <1>1, <1>2, RevertEffects
  <2> QED
    BY <2>1
<1>6. hm' \in {hm, Set(hm, {f.on}, "ERROR")}
  BY <1>1, RevertWrites
<1>7. HasRow(hm'[p]) <=> HasRow(hm[p])
  BY <1>3, <1>6, SetKeeps
<1>8. pool'[p] = "GONE" => pool[p] = "GONE"
  BY <1>3, RevertRows, SetKeeps
<1> QED
  BY <1>4, <1>5, <1>7, <1>8 DEF SameStore

LEMMA RevertOrphan ==
  ASSUME ShapeAssumption, MonitorInv, NEW u \in Slots, Revert(u), NEW p \in Pools, OrphanOK(p)
  PROVE  OrphanOK(p)'
<1>1. Inv /\ Only(u) /\ flow'[u] = Idle /\ flow[u].step = "revert"
  BY RevertTypes DEF MonitorInv, ServedInv, Revert
<1>2. ~Works(flow'[u]) /\ ~Updating(flow[u], p)
  BY <1>1, IdleIs DEF Updating
<1> QED
  BY <1>1, <1>2, RevertLeaves, StoreFrame

(* A request adds a flow that has done nothing yet.                        *)
LEMMA AdmitOrphan ==
  ASSUME ShapeAssumption, ServedInv, NEW u \in Slots, NEW f, Queued(f), Admit(u, f),
         NEW l \in LBs, l = LbOfFlow(f), lb[l] \in {"NEW", "ACTIVE", "ERROR"},
         NEW p \in Pools, OrphanOK(p), p \in sp => p \in sp', HasRow(hm[p]) => HasRow(hm'[p]),
         pool'[p] = "GONE" => pool[p] = "GONE",
         LbOf[p] # l => (HasRow(hm'[p]) <=> HasRow(hm[p])),
         LbOf[p] = l /\ Settled(l)' => Cleared(f, p)'
  PROVE  OrphanOK(p)'
<1>1. /\ Inv /\ FlowInv /\ Only(u) /\ flow[u] = Idle /\ flow'[u] = f /\ overlapped \subseteq overlapped'
      /\ l \in LBs /\ LbOf[p] \in LBs
  BY Admitted DEF ServedInv, Inv, ShapeAssumption
<1>2. UNCHANGED <<pers, monitors, groups, left>>
  BY DEF Admit, device
<1>3. ~Updating(flow[u], p)
  BY <1>1, IdleIs DEF Updating
<1>4. CASE LbOf[p] # l
  <2>1. SameStore(p)
    BY <1>2, <1>4 DEF SameStore
  <2>2. f.on \notin {p, LbOf[p]}
    BY <1>1, <1>4 DEF LbOfFlow, ShapeAssumption
  <2>3. Cleared(f, p)'
    BY <2>2, OffCleared
  <2> QED
    BY <1>1, <1>2, <1>3, <2>1, <2>3, StoreFrame
<1>5. CASE LbOf[p] = l
  <2>1. ASSUME Settled(LbOf[p])', p \notin left' PROVE StoreMoves(u, p)
    <3>1. Settled(l)' /\ p \in Under(l)
      BY <1>5, <2>1 DEF Under
    <3>2. Settled(l) /\ Free(p)
      BY <3>1, AdmittedAlone
    <3>3. OthersOff(u, p)
      BY <3>2 DEF Free, OthersOff
    <3>4. p \in pers => p \in sp
      <4> SUFFICES ASSUME p \in pers, p \notin sp PROVE FALSE
        OBVIOUS
      <4>1. PICK s \in Slots : Updating(flow[s], p)
        BY <1>2, <1>5, <2>1, <3>2 DEF OrphanOK
      <4> QED
        BY <1>1, <3>2, <4>1, UpdatingWorks DEF Free, Updating
    <3>5. Owned(p)
      BY <1>2, <1>5, <2>1, <3>2 DEF OrphanOK
    <3>6. Owned(p)'
      BY <1>2, <3>5 DEF Owned
    <3>7. Cleared(f, p)'
      BY <1>5, <3>1
    <3> QED
      BY <1>1, <1>2, <3>3, <3>4, <3>6, <3>7 DEF StoreMoves
  <2>2. StoreMoves(u, p)
    BY <2>1 DEF StoreMoves
  <2> QED
    BY <1>1, <1>2, <2>2, StoreStep
<1> QED
  BY <1>4, <1>5

LEMMA AsksOrphan ==
  ASSUME ShapeAssumption, ServedInv, NEW u \in Slots, NEW p \in Pools, NEW f, NEW op,
         Asks(u, f, op, p), op \in PoolOps \cup HmOps, pool'[p] # "GONE", sp \subseteq sp',
         NEW q \in Pools, OrphanOK(q), HasRow(hm[q]) => HasRow(hm'[q]), q # p => hm'[q] = hm[q],
         q = p /\ op = "delete_pool" => p \in f.monitored \/ ~HasRow(hm'[p])
  PROVE  OrphanOK(q)'
<1>1. PICK l \in LBs : l = LbOf[p]
  BY DEF ShapeAssumption
<1>2. /\ l = LbOfFlow(f) /\ lb[l] = "ACTIVE" /\ Queued(f) /\ Admit(u, f) /\ f.on = p /\ f.op = op
      /\ f.pc = 1 /\ f.cur = p /\ f.rest = {} /\ p \notin LBs
  BY <1>1 DEF Asks, LbOfFlow, Queued, Shape, PoolShape, LbShape, ShapeAssumption
<1>3. Cleared(f, q)'
  <2>1. CASE q # p
    <3>1. f.on \notin {q, LbOf[q]}
      BY <1>2, <2>1 DEF ShapeAssumption
    <3> QED
      BY <3>1, OffCleared
  <2>2. CASE q = p
    BY <1>2, <2>2 DEF Cleared, Past, PoolOps, HmOps
  <2> QED
    BY <2>1, <2>2
<1>4. pool'[q] = "GONE" => pool[q] = "GONE"
  BY DEF Asks
<1> QED
  BY <1>1, <1>2, <1>3, <1>4, AdmitOrphan

LEMMA PoolRequestsOrphan ==
  ASSUME ShapeAssumption, MonitorInv, NEW u \in Slots, NEW p \in Pools,
         CreatePool(u, p) \/ UpdatePool(u, p) \/ DeletePool(u, p), NEW q \in Pools, OrphanOK(q)
  PROVE  OrphanOK(q)'
<1>1. ServedInv /\ Inv
  BY DEF MonitorInv, ServedInv
<1>2. /\ \E op \in PoolOps : \E f : /\ Asks(u, f, op, p)
                                    /\ op = "delete_pool" => f.monitored = Monitored({p})
      /\ hm' = hm /\ pool'[p] \in {"PENDING", "DELETING"} /\ sp \subseteq sp'
  BY <1>1, AsksPool
<1>3. PICK op \in PoolOps : \E f : /\ Asks(u, f, op, p)
                                   /\ op = "delete_pool" => f.monitored = Monitored({p})
  BY <1>2
<1>4. PICK f : Asks(u, f, op, p) /\ (op = "delete_pool" => f.monitored = Monitored({p}))
  BY <1>3
<1>5. op = "delete_pool" => p \in f.monitored \/ ~HasRow(hm'[p])
  BY <1>2, <1>4 DEF Monitored
<1>6. pool'[p] # "GONE"
  BY <1>2
<1> QED
  BY <1>1, <1>2, <1>4, <1>5, <1>6, AsksOrphan

LEMMA MonitorRequestsOrphan ==
  ASSUME ShapeAssumption, MonitorInv, NEW u \in Slots, NEW p \in Pools,
         CreateMonitor(u, p) \/ UpdateMonitor(u, p) \/ DeleteMonitor(u, p), NEW q \in Pools, OrphanOK(q)
  PROVE  OrphanOK(q)'
<1>1. ServedInv /\ Inv
  BY DEF MonitorInv, ServedInv
<1>2. PICK op \in HmOps, status \in {"PENDING", "DELETING"} :
         \/ op = "create_hm" /\ status = "PENDING" /\ CreateMonitor(u, p)
         \/ op = "update_hm" /\ status = "PENDING" /\ UpdateMonitor(u, p)
         \/ op = "delete_hm" /\ status = "DELETING" /\ DeleteMonitor(u, p)
  BY DEF HmOps
<1>4. /\ \E f : Asks(u, f, op, p)
      /\ hm'[p] = status /\ \A r \in Pools \ {p} : hm'[r] = hm[r]
      /\ revived \subseteq revived' /\ (hm[p] = "ERROR" => <<"hm", p>> \in revived')
      /\ HasRow(pool[p]) /\ pool'[p] = "PENDING"
      /\ op = "update_hm" => HasRow(hm[p])
      /\ sp' = sp
  BY <1>1, <1>2, AsksMonitor
<1>3. PICK f : Asks(u, f, op, p)
  BY <1>4
<1>5. HasRow(hm'[p]) /\ op # "delete_pool"
  BY <1>4 DEF HasRow, HmOps
<1> QED
  BY <1>1, <1>3, <1>4, <1>5, AsksOrphan

LEMMA CreateLbOrphan ==
  ASSUME ShapeAssumption, MonitorInv, NEW u \in Slots, NEW l \in LBs, CreateLb(u, l),
         NEW p \in Pools, OrphanOK(p)
  PROVE  OrphanOK(p)'
<1>1. PICK mon \in SUBSET Under(l) :
        /\ hm' = [q \in Pools |-> IF q \in mon THEN "PENDING" ELSE hm[q]]
        /\ sp \subseteq sp'
        /\ \E f \in NextPart(LbFlow("create_lb", l, Under(l), mon)) : Admit(u, f)
  BY DEF CreateLb, Under
<1>2. PICK f \in NextPart(LbFlow("create_lb", l, Under(l), mon)) : Admit(u, f)
  BY <1>1
<1>3. LbBegins(f, "create_lb", l, Under(l), mon) /\ LbWaits(f, "create_lb", l, Under(l))
  <2> DEFINE S == Under(l)
  <2>1. "create_lb" \in LbOps /\ mon \in SUBSET Pools /\ S \in SUBSET Under(l)
    BY DEF LbOps, Under
  <2>2. f \in NextPart(LbFlow("create_lb", l, S, mon))
    OBVIOUS
  <2> HIDE DEF S
  <2>3. LbBegins(f, "create_lb", l, S, mon) /\ LbWaits(f, "create_lb", l, S)
    BY <2>1, <2>2, LbQueued, LbFlowIs
  <2> QED
    BY <2>3 DEF S
<1>4. /\ pool' = [q \in Pools |-> IF q \in Under(l) THEN "PENDING" ELSE pool[q]] /\ lb[l] = "NEW"
  BY DEF CreateLb, Under
<1>5. /\ Queued(f) /\ f.op = "create_lb" /\ f.on = l /\ f.monitored = mon
      /\ l = LbOfFlow(f) /\ l \notin Pools /\ ServedInv
  BY <1>3 DEF LbBegins, LbWaits, LbOfFlow, ShapeAssumption, MonitorInv
<1>6. Cleared(f, p)'
  <2>1. f.cur = p /\ p \notin mon => f.pc >= 4
    BY <1>3, <1>5 DEF LbBegins
  <2> QED
    BY <1>5, <2>1 DEF Cleared, Past
<1>7. /\ HasRow(hm[p]) => HasRow(hm'[p])
      /\ LbOf[p] # l => (HasRow(hm'[p]) <=> HasRow(hm[p]))
      /\ pool'[p] = "GONE" => pool[p] = "GONE"
  BY <1>1, <1>4 DEF HasRow, Under
<1> QED
  BY <1>1, <1>2, <1>4, <1>5, <1>6, <1>7, AdmitOrphan

LEMMA DeleteLbOrphan ==
  ASSUME ShapeAssumption, MonitorInv, NEW u \in Slots, NEW l \in LBs, DeleteLb(u, l),
         NEW p \in Pools, OrphanOK(p)
  PROVE  OrphanOK(p)'
<1>1. PICK f \in NextPart(LbFlow("delete_lb", l, PoolsOf(l), Monitored(PoolsOf(l)))) : Admit(u, f)
  BY DEF DeleteLb
<1>2. /\ LbBegins(f, "delete_lb", l, PoolsOf(l), Monitored(PoolsOf(l)))
      /\ LbWaits(f, "delete_lb", l, PoolsOf(l))
  <2> DEFINE S == PoolsOf(l)
             M == Monitored(PoolsOf(l))
  <2>1. "delete_lb" \in LbOps /\ M \in SUBSET Pools /\ S \in SUBSET Under(l)
    BY DEF LbOps, Under, PoolsOf, Monitored
  <2>2. f \in NextPart(LbFlow("delete_lb", l, S, M))
    OBVIOUS
  <2> HIDE DEF S, M
  <2>3. LbBegins(f, "delete_lb", l, S, M) /\ LbWaits(f, "delete_lb", l, S)
    BY <2>1, <2>2, LbQueued, LbFlowIs
  <2> QED
    BY <2>3 DEF S, M
<1>3. lb[l] \in {"ACTIVE", "ERROR"} /\ UNCHANGED <<pool, hm, sp>>
  BY DEF DeleteLb
<1>4. /\ Queued(f) /\ f.op = "delete_lb" /\ f.on = l /\ f.pc = 1
      /\ f.monitored = Monitored(PoolsOf(l))
      /\ l = LbOfFlow(f) /\ l \notin Pools /\ ServedInv
  BY <1>2 DEF LbBegins, LbWaits, LbOfFlow, ShapeAssumption, MonitorInv
<1>5. Cleared(f, p)'
  <2>1. p \in f.rest \cup {f.cur} => p \in PoolsOf(l)
    BY <1>2, <1>4 DEF LbBegins
  <2>2. p \in f.rest \cup {f.cur} /\ p \notin f.monitored => ~HasRow(hm'[p])
    BY <1>3, <1>4, <2>1 DEF Monitored
  <2> QED
    BY <1>4, <2>2 DEF Cleared, Past
<1> QED
  BY <1>1, <1>3, <1>4, <1>5, AdmitOrphan

-----------------------------------------------------------------------------
LEMMA ProxyFrame ==
  ASSUME NEW u \in Slots, Only(u), overlapped \subseteq overlapped', left \subseteq left', ProxyOK,
         proxy' => proxy, \A p \in Proxied : pool[p] # "NEW" => pool'[p] # "NEW",
         (\A l \in LBs : Settled(l)) =>
            \A p \in Proxied : Used(p) => HasRow(pool'[p]) /\ ~Parting(flow'[u], p)
  PROVE  ProxyOK'
<1> SUFFICES ASSUME proxy', \A l \in LBs : Settled(l)'
    PROVE  \E p \in Proxied : Used(p)' \/ (Proxied \subseteq left' /\ pool'[p] # "NEW")
  BY DEF ProxyOK
<1>1. \A l \in LBs : Settled(l)
  BY DEF Settled
<1>2. PICK p \in Proxied : Used(p) \/ (Proxied \subseteq left /\ pool[p] # "NEW")
  BY <1>1 DEF ProxyOK
<1>3. CASE Used(p)
  <2>1. HasRow(pool'[p]) /\ ~Parting(flow'[u], p)
    BY <1>1, <1>2, <1>3
  <2>2. \A s \in Slots \ {u} : ~Parting(flow'[s], p)
    BY <1>3 DEF Used, Only
  <2>3. Used(p)'
    BY <2>1, <2>2 DEF Used, Parting, Past, Works, Trails, Ended, Tasks
  <2> QED
    BY <1>2, <2>3
<1>4. CASE Proxied \subseteq left /\ pool[p] # "NEW"
  BY <1>2, <1>4
<1> QED
  BY <1>2, <1>3, <1>4

(* A pool that is parting is being deleted, by its flow or that of its     *)
(* load balancer.                                                          *)
LEMMA PartingStatus ==
  ASSUME ShapeAssumption, MonitorInv, NEW s \in Slots, NEW p \in Pools, Parting(flow[s], p)
  PROVE  /\ flow[s].on \in {p, LbOf[p]}
         /\ Settled(LbOf[p]) => pool[p] \in {"NEW", "DELETING", "GONE"}
<1>1. FlowInv /\ ServedInv /\ HmOK(p) /\ flow[s].step # "idle" /\ Works(flow[s])
  BY DEF MonitorInv, ServedInv, Inv, Parting, Works
<1>2. PICK f \in Flows : f = flow[s]
  BY <1>1, FlowKinds
<1>3. /\ Shape(f) /\ s \in On(LbAt(s)) /\ LbAt(s) \in LBs /\ f.pc \in Nat /\ f.cur = p /\ f.step # "revert"
      /\ \/ f.on \in Pools /\ f.on \notin LBs /\ PoolShape(f) /\ LbAt(s) = LbOf[f.on]
         \/ f.on \in LBs /\ f.on \notin Pools /\ LbShape(f) /\ LbAt(s) = f.on
  BY <1>1, <1>2, FlowKinds DEF Parting, Flows
<1>4. \/ f.op = "delete_pool" /\ f.pc > 3
      \/ f.op = "delete_lb" /\ f.pc > 4
  <2>1. Past(f, 5, 6) \/ Past(f, 3, 4)
    BY <1>2 DEF Parting
  <2> DEFINE c == f.pc
  <2>2. \/ f.op = "delete_pool" /\ (c > 5 \/ c > 3)
        \/ f.op = "delete_lb" /\ (c > 6 \/ c > 4)
    BY <2>1, Zenon DEF Past
  <2>3. c \in Nat
    BY <1>3
  <2> HIDE DEF c
  <2>4. (c > 5 => c > 3) /\ (c > 6 => c > 4)
    BY <2>3
  <2> QED
    BY <2>2, <2>4 DEF c
<1>5. LbOK(LbAt(s))
  BY <1>1, <1>3 DEF ServedInv
<1>6. CASE f.on \in Pools
  <2>1. f.on = p /\ f.op = "delete_pool" /\ LbAt(s) = LbOf[p]
    BY <1>3, <1>4, <1>6 DEF PoolShape, PoolOps, HmOps
  <2>2. ASSUME Settled(LbOf[p]) PROVE pool[p] \in {"NEW", "DELETING", "GONE"}
    <3>1. PoolStatus(f)
      BY <1>1, <1>2, <1>3, <1>5, <1>6, <2>1, <2>2 DEF LbOK, FlowOK
    <3> QED
      BY <1>3, <2>1, <3>1 DEF PoolStatus, StatusAt
  <2> QED
    BY <1>2, <2>1, <2>2
<1>7. CASE f.on \in LBs
  <2>1. f.on = LbOf[p] /\ f.op = "delete_lb"
    BY <1>3, <1>4, <1>7 DEF LbShape, LbOps, Under, ShapeAssumption
  <2>2. ASSUME Settled(LbOf[p]) PROVE pool[p] \in {"NEW", "DELETING", "GONE"}
    <3>1. HmFlow(f, p)
      BY <1>1, <1>2, <2>2 DEF HmOK
    <3> QED
      BY <1>3, <1>4, <2>1, <3>1 DEF HmFlow, HmOfLb
  <2> QED
    BY <1>2, <2>1, <2>2
<1> QED
  BY <1>3, <1>6, <1>7

(* Where the tasks are that the template depends on.                       *)
Leaving == {"delete_pool", "delete_lb"}
LEMMA ProxyPlace ==
  ASSUME ShapeAssumption, Inv, NEW u \in Slots, NEW do, FlowEffect(u, do),
         NEW f \in Flows, f = flow[u], NEW g \in Flows, g = flow'[u]
  PROVE  /\ Works(f) /\ f.step = "run" /\ g.step = "run" /\ g.op = f.op /\ Target(u) = f.cur
         /\ f.pc \in Nat /\ g.pc \in Nat
         /\ f.op \in Leaving => (g.cur = f.cur /\ g.pc = f.pc + 1) \/ g.pc = 1
         /\ f.op \in Leaving /\ f.cur \in Pools =>
              /\ do = "count" <=> f.pc = IF f.op = "delete_pool" THEN 3 ELSE 4
              /\ do = "no_proxy" <=> f.pc = IF f.op = "delete_pool" THEN 5 ELSE 6
              /\ do = "no_row" <=> f.pc = IF f.op = "delete_pool" THEN 7 ELSE 8
         /\ do \in {"count", "no_proxy", "no_row"} => f.op \in Leaving /\ f.cur \in Pools
         /\ do = "proxy" => f.op \notin Leaving /\ f.cur \in Pools
<1>1. /\ Shape(f) /\ Doing(f, do) /\ f.step = "run" /\ Target(u) = f.cur /\ f.pc \in Nat /\ g.pc \in Nat
      /\ Place(f.op, f.cur = f.on, do, f.pc)
  BY Stage DEF FlowEffect, Target, Flows
<1>2. Works(f)
  BY <1>1, PoolTask, LbTask DEF Shape, PoolShape, LbShape
<1>3. /\ g.op = f.op /\ g.step = "run" /\ g.on = f.on
      /\ f.op \in Leaving => (g.cur = f.cur /\ g.pc = f.pc + 1) \/ g.pc = 1
  BY <1>1 DEF FlowEffect, Walks, FirstTask, Leaving
<1>4. CASE f.op = "delete_pool"
  <2>1. f.cur = f.on /\ f.on \in Pools
    BY <1>1, <1>4 DEF Shape, PoolShape, LbShape, LbOps
  <2>2. /\ do = "count" <=> f.pc = 3
        /\ do = "no_proxy" <=> f.pc = 5
        /\ do = "no_row" <=> f.pc = 7
        /\ do # "proxy"
    BY <1>1, <1>4 DEF Place
  <2> QED
    BY <1>1, <1>2, <1>3, <1>4, <2>1, <2>2 DEF Leaving
<1>5. CASE f.op = "delete_lb" /\ f.cur \in Pools
  <2>1. (f.cur = f.on) = FALSE
    BY <1>1, <1>5 DEF Shape, PoolShape, LbShape, PoolOps, HmOps, ShapeAssumption
  <2>2. Place("delete_lb", FALSE, do, f.pc)
    BY <1>1, <1>5, <2>1
  <2>3. /\ do = "count" <=> f.pc = 4
        /\ do = "no_proxy" <=> f.pc = 6
        /\ do = "no_row" <=> f.pc = 8
        /\ do # "proxy"
    BY <2>2 DEF Place
  <2> QED
    BY <1>1, <1>2, <1>3, <1>5, <2>3 DEF Leaving
<1>6. CASE f.op = "delete_lb" /\ f.cur \notin Pools
  <2>1. (f.cur = f.on) = TRUE
    BY <1>1, <1>6 DEF Shape, PoolShape, LbShape, PoolOps, HmOps, Under
  <2>2. Place("delete_lb", TRUE, do, f.pc)
    BY <1>1, <1>6, <2>1
  <2>3. do = "no_lb"
    BY <2>2 DEF Place
  <2> QED
    BY <1>1, <1>2, <1>3, <1>6, <2>3 DEF Leaving
<1>7. CASE f.op \notin Leaving
  <2>1. f.op \in {"create_pool", "update_pool", "create_hm", "update_hm", "delete_hm", "create_lb"}
    BY <1>1, <1>7 DEF Shape, PoolShape, LbShape, PoolOps, HmOps, LbOps, Leaving
  <2>2. do \notin {"count", "no_proxy", "no_row"}
    BY <1>1, <2>1 DEF Place
  <2>3. do = "proxy" => f.cur \in Pools
    BY Targets DEF FlowEffect, Target
  <2> QED
    BY <1>1, <1>2, <1>3, <1>7, <2>2, <2>3
<1> QED
  BY <1>4, <1>5, <1>6, <1>7 DEF Leaving

(* Only a count, or the deletion of the template, makes a pool part.       *)
LEMMA RunParting ==
  ASSUME ShapeAssumption, Inv, NEW u \in Slots, NEW do, FlowEffect(u, do), do \notin {"count", "no_proxy"},
         NEW p \in Pools, Parting(flow'[u], p)
  PROVE  Parting(flow[u], p)
<1>1. PICK f \in Flows, g \in Flows : f = flow[u] /\ g = flow'[u]
  BY Stage DEF FlowEffect, Walks
<1>2. /\ Works(f) /\ f.step = "run" /\ g.step = "run" /\ g.op = f.op /\ f.pc \in Nat /\ g.pc \in Nat
      /\ f.op \in Leaving => (g.cur = f.cur /\ g.pc = f.pc + 1) \/ g.pc = 1
      /\ f.op \in Leaving /\ f.cur \in Pools =>
           /\ do = "count" <=> f.pc = IF f.op = "delete_pool" THEN 3 ELSE 4
           /\ do = "no_proxy" <=> f.pc = IF f.op = "delete_pool" THEN 5 ELSE 6
  BY <1>1, ProxyPlace
<1>3. /\ Parting(g, p) /\ g.cur = p /\ g.last = f.last
      /\ IF f.last THEN Past(g, 5, 6) ELSE Past(g, 3, 4)
  BY <1>1 DEF Parting, FlowEffect
<1>4. g.op = f.op /\ f.op \in Leaving /\ g.pc # 1
  <2>1. Past(g, 5, 6) \/ Past(g, 3, 4)
    BY <1>3
  <2> QED
    BY <1>2, <2>1 DEF Past, Leaving
<1>5. g.pc = f.pc + 1 /\ f.cur = p
  BY <1>2, <1>3, <1>4
<1>6. /\ f.op = "delete_pool" => f.pc # 3 /\ f.pc # 5
      /\ f.op # "delete_pool" => f.pc # 4 /\ f.pc # 6
  BY <1>2, <1>4, <1>5
<1>7. CASE f.last
  <2>1. Past(f, 5, 6)
    BY <1>2, <1>3, <1>5, <1>6, <1>7 DEF Past
  <2> QED
    BY <1>1, <1>2, <1>5, <1>7, <2>1 DEF Parting
<1>8. CASE ~f.last
  <2>1. Past(f, 3, 4)
    BY <1>2, <1>3, <1>5, <1>6, <1>8 DEF Past
  <2> QED
    BY <1>1, <1>2, <1>5, <1>8, <2>1 DEF Parting
<1> QED
  BY <1>7, <1>8

(* What a task does to the rows of the pools.                              *)
LEMMA RunRows ==
  ASSUME Inv, NEW u \in Slots, NEW do, RowEffect(u, do), NEW p \in Pools
  PROVE  /\ pool[p] # "NEW" => pool'[p] # "NEW"
         /\ HasRow(pool[p]) /\ ~(do = "no_row" /\ p = Target(u)) => HasRow(pool'[p])
<1>1. pool \in [Pools -> Statuses]
  BY DEF Inv, TypeOK
<1>2. PICK t : t = Target(u)
  OBVIOUS
<1>3. /\ do = "no_row" => pool' = Set(pool, {t}, "GONE")
      /\ do # "no_row" => pool' \in {pool, Set(pool, {t}, "ACTIVE"), Set(pool, {t}, "DELETING")}
  BY <1>2 DEF RowEffect
<1> QED
  BY <1>1, <1>2, <1>3 DEF Set, HasRow

(* The flow makes the template for the pool that it creates.               *)
LEMMA PutProxyUsed ==
  ASSUME ShapeAssumption, MonitorInv, NEW u \in Slots, FlowEffect(u, "proxy"), RowEffect(u, "proxy"),
         NEW p \in Pools, p = Target(u), Settled(LbOf[p])
  PROVE  Used(p)'
<1>1. Inv /\ FlowInv /\ ServedInv /\ Only(u)
  BY DEF MonitorInv, ServedInv, Inv, FlowEffect
<1>2. PICK f \in Flows, g \in Flows : f = flow[u] /\ g = flow'[u]
  BY <1>1, Stage DEF FlowEffect, Walks
<1>3. Works(f) /\ f.step = "run" /\ g.op = f.op /\ f.op \notin Leaving /\ f.cur = p
  BY <1>1, <1>2, ProxyPlace
<1>4. Shape(f) /\ f.on \in {p, LbOf[p]} /\ LbOf[p] \in LBs /\ Doing(f, "proxy")
  <2>1. Shape(f) /\ Doing(f, "proxy")
    BY <1>1, <1>2, Stage DEF FlowEffect
  <2>2. f.on = p \/ p \in Under(f.on)
    BY <1>3, <2>1 DEF Shape, PoolShape, LbShape, ShapeAssumption
  <2> QED
    BY <2>1, <2>2 DEF Under, ShapeAssumption
<1>5. LbOK(LbOf[p]) /\ LbOfFlow(f) = LbOf[p] /\ u \in On(LbOf[p]) /\ p \in Under(LbOf[p])
  <2>1. LbOfFlow(f) = LbOf[p] /\ f.step # "idle"
    BY <1>3, <1>4 DEF LbOfFlow, ShapeAssumption
  <2> QED
    BY <1>1, <1>2, <1>4, <2>1, OnIs DEF ServedInv, Under
<1>6. Exclusive(LbOf[p]) /\ FlowOK(f)
  BY <1>2, <1>5 DEF LbOK
<1>7. \A t \in Slots \ {u} : flow[t].on \in {p, LbOf[p]} => Trails(flow[t])
  BY <1>1, <1>2, <1>3, <1>5, <1>6, Workers
<1>8. \A t \in Slots \ {u} : ~Parting(flow[t], p)
  BY <1>7, PartingStatus DEF Parting, Works
<1>9. ~Parting(g, p)
  BY <1>3 DEF Parting, Past, Leaving
<1>10. HasRow(pool[p])
  <2>1. CASE f.on = p
    BY <1>2, <1>3, <1>6, <2>1 DEF FlowOK, PoolStatus, StatusAt, HasRow, Leaving
  <2>2. CASE f.on = LbOf[p]
    <3>1. LbStatus(f, p) /\ f.op = "create_lb"
      <4>1. f.on \in LBs /\ p \in Under(f.on)
        BY <1>4, <1>5, <2>2
      <4>2. f.op \in LbOps
        BY <1>4, <4>1 DEF Shape, PoolShape, LbShape, ShapeAssumption
      <4> QED
        BY <1>3, <1>6, <4>1, <4>2 DEF FlowOK, LbOps, Leaving
    <3> QED
      BY <1>3, <3>1 DEF LbStatus, HasRow
  <2> QED
    BY <1>4, <2>1, <2>2
<1>11. pool' = pool
  BY DEF RowEffect
<1>12. \A s \in Slots : ~Parting(flow'[s], p)
  BY <1>1, <1>2, <1>8, <1>9 DEF Only
<1> QED
  BY <1>10, <1>11, <1>12 DEF Used, Parting, Past, Works, Trails, Ended, Tasks

(* A flow that is to delete a pool has counted it as such.                 *)
LEMMA LeavingStatus ==
  ASSUME ShapeAssumption, MonitorInv, NEW u \in Slots, NEW do \in {"count", "no_proxy"}, FlowEffect(u, do),
         Settled(LbOf[Target(u)])
  PROVE  pool[Target(u)] \in {"NEW", "DELETING", "GONE"}
<1>1. Inv /\ FlowInv /\ ServedInv
  BY DEF MonitorInv, ServedInv, Inv
<1>2. PICK f \in Flows, g \in Flows : f = flow[u] /\ g = flow'[u]
  BY <1>1, Stage DEF FlowEffect, Walks
<1>3. PICK p \in Pools : p = Target(u)
  BY <1>1, <1>2, ProxyPlace
<1>4. /\ Works(f) /\ f.step = "run" /\ f.cur = p /\ f.op \in Leaving /\ f.pc \in Nat
      /\ f.pc >= 3 /\ (f.op # "delete_pool" => f.pc >= 4)
  BY <1>1, <1>2, <1>3, ProxyPlace
<1>5. /\ Shape(f) /\ u \in On(LbAt(u)) /\ LbAt(u) \in LBs
      /\ \/ f.on \in Pools /\ f.on \notin LBs /\ PoolShape(f) /\ LbAt(u) = LbOf[f.on]
         \/ f.on \in LBs /\ f.on \notin Pools /\ LbShape(f) /\ LbAt(u) = f.on
  BY <1>1, <1>2, <1>4, FlowKinds DEF Works
<1>6. LbOK(LbAt(u)) /\ HmOK(p)
  BY <1>1, <1>5 DEF ServedInv, MonitorInv
<1>7. CASE f.on \in Pools
  <2>1. f.on = p /\ f.op = "delete_pool" /\ LbAt(u) = LbOf[p]
    BY <1>4, <1>5, <1>7 DEF PoolShape, PoolOps, HmOps, Leaving
  <2>2. PoolStatus(f)
    BY <1>2, <1>3, <1>4, <1>5, <1>6, <1>7, <2>1 DEF LbOK, FlowOK
  <2> QED
    BY <1>3, <1>4, <2>1, <2>2 DEF PoolStatus, StatusAt
<1>8. CASE f.on \in LBs
  <2>1. f.on = LbOf[p] /\ f.op = "delete_lb"
    BY <1>4, <1>5, <1>8 DEF LbShape, LbOps, Under, ShapeAssumption, Leaving
  <2>2. HmFlow(f, p)
    BY <1>2, <1>3, <1>4, <1>6 DEF HmOK
  <2>3. f.pc >= 2
    BY <1>4
  <2> QED
    BY <1>3, <1>4, <2>1, <2>2, <2>3 DEF HmFlow, HmOfLb
<1> QED
  BY <1>5, <1>7, <1>8

LEMMA CountProxy ==
  ASSUME ShapeAssumption, MonitorInv, NEW u \in Slots, FlowEffect(u, "count"), RowEffect(u, "count"),
         Stores(u, "count"), ProxyOK
  PROVE  ProxyOK'
<1> SUFFICES ASSUME proxy', \A l \in LBs : Settled(l)'
    PROVE  \E p \in Proxied : Used(p)' \/ (Proxied \subseteq left' /\ pool'[p] # "NEW")
  BY DEF ProxyOK
<1>1. Inv /\ Only(u) /\ pool' = pool /\ proxy /\ left \subseteq left' /\ \A l \in LBs : Settled(l)
  BY DEF MonitorInv, ServedInv, FlowEffect, RowEffect, Stores, Settled
<1>2. PICK f \in Flows, g \in Flows : f = flow[u] /\ g = flow'[u]
  BY <1>1, Stage DEF FlowEffect, Walks
<1>3. /\ Works(f) /\ g.op = f.op /\ Target(u) = f.cur /\ f.pc \in Nat /\ g.pc \in Nat
      /\ f.op \in Leaving /\ f.cur \in Pools
      /\ (g.cur = f.cur /\ g.pc = f.pc + 1) \/ g.pc = 1
      /\ f.pc = IF f.op = "delete_pool" THEN 3 ELSE 4
  BY <1>1, <1>2, ProxyPlace
<1>4. g.last = (\A q \in OfProject(LbAt(u)) : pool[q] = "DELETING")
  BY <1>2 DEF FlowEffect
<1>5. CASE g.last
  <2>1. \A p : ~Parting(g, p)
    BY <1>3, <1>5 DEF Parting, Past
  <2>2. PICK p \in Proxied : Used(p) \/ (Proxied \subseteq left /\ pool[p] # "NEW")
    BY <1>1 DEF ProxyOK
  <2>3. CASE Used(p)
    <3>1. \A s \in Slots : ~Parting(flow'[s], p)
      BY <1>1, <1>2, <2>1, <2>3 DEF Used, Only
    <3>2. Used(p)'
      BY <1>1, <2>3, <3>1 DEF Used, Parting, Past, Works, Trails, Ended, Tasks
    <3> QED
      BY <2>2, <3>2
  <2>4. CASE Proxied \subseteq left /\ pool[p] # "NEW"
    BY <1>1, <2>2, <2>4
  <2> QED
    BY <2>2, <2>3, <2>4
<1>6. CASE ~g.last
  <2>1. PICK q \in OfProject(LbAt(u)) : pool[q] # "DELETING"
    BY <1>4, <1>6
  <2>2. q \in Proxied /\ HasRow(pool[q]) /\ q \in Pools /\ LbOf[q] \in LBs
    BY <2>1 DEF OfProject, ShapeAssumption
  <2>3. pool[q] \notin {"NEW", "DELETING", "GONE"} /\ Settled(LbOf[q])
    BY <1>1, <2>1, <2>2 DEF HasRow
  <2>4. \A s \in Slots : ~Parting(flow[s], q)
    BY <2>2, <2>3, PartingStatus
  <2>5. ~Parting(g, q)
    <3>1. Target(u) # q
      BY <2>3, LeavingStatus
    <3>2. g.pc = 1 => ~Past(g, 3, 4)
      BY DEF Past
    <3> QED
      BY <1>3, <1>6, <3>1, <3>2 DEF Parting
  <2>6. \A s \in Slots : ~Parting(flow'[s], q)
    BY <1>1, <1>2, <2>4, <2>5 DEF Only
  <2>7. Used(q)'
    BY <1>1, <2>2, <2>6 DEF Used, Parting, Past, Works, Trails, Ended, Tasks
  <2> QED
    BY <2>2, <2>7
<1> QED
  BY <1>5, <1>6

LEMMA DropProxy ==
  ASSUME ShapeAssumption, MonitorInv, NEW u \in Slots, FlowEffect(u, "no_proxy"), RowEffect(u, "no_proxy"),
         Stores(u, "no_proxy"), ProxyOK
  PROVE  ProxyOK'
<1> SUFFICES ASSUME proxy', \A l \in LBs : Settled(l)'
    PROVE  \E p \in Proxied : Used(p)' \/ (Proxied \subseteq left' /\ pool'[p] # "NEW")
  BY DEF ProxyOK
<1>1. Inv /\ Only(u) /\ pool' = pool /\ proxy /\ left \subseteq left' /\ \A l \in LBs : Settled(l)
  BY DEF MonitorInv, ServedInv, FlowEffect, RowEffect, Stores, Settled
<1>2. PICK f \in Flows, g \in Flows : f = flow[u] /\ g = flow'[u]
  BY <1>1, Stage DEF FlowEffect, Walks
<1>3. /\ Works(f) /\ f.step = "run" /\ g.op = f.op /\ Target(u) = f.cur /\ f.pc \in Nat /\ g.pc \in Nat
      /\ f.op \in Leaving /\ f.cur \in Pools
      /\ (g.cur = f.cur /\ g.pc = f.pc + 1) \/ g.pc = 1
      /\ f.pc = IF f.op = "delete_pool" THEN 5 ELSE 6
  BY <1>1, <1>2, ProxyPlace
<1>4. PICK p \in Proxied : Used(p) \/ (Proxied \subseteq left /\ pool[p] # "NEW")
  BY <1>1 DEF ProxyOK
<1>5. CASE Proxied \subseteq left'
  <2>1. pool[p] # "NEW"
    BY <1>4 DEF Used, HasRow
  <2> QED
    BY <1>1, <1>4, <1>5, <2>1
<1>6. CASE ~(Proxied \subseteq left')
  <2>1. Used(p) /\ ~(Target(u) \in Proxied /\ flow[u].last)
    BY <1>1, <1>4, <1>6 DEF Stores
  <2>2. p # f.cur
    <3> SUFFICES ASSUME p = f.cur PROVE FALSE
      OBVIOUS
    <3>1. ~f.last
      BY <1>2, <1>3, <2>1
    <3>2. Past(f, 3, 4)
      BY <1>3 DEF Past, Leaving
    <3>3. Parting(flow[u], p)
      BY <1>2, <1>3, <3>1, <3>2 DEF Parting
    <3> QED
      BY <2>1, <3>3 DEF Used
  <2>3. ~Parting(g, p)
    <3>1. g.pc = 1 => ~Past(g, 3, 4) /\ ~Past(g, 5, 6)
      BY DEF Past
    <3> QED
      BY <1>3, <2>2, <3>1 DEF Parting
  <2>4. \A s \in Slots : ~Parting(flow'[s], p)
    BY <1>1, <1>2, <2>1, <2>3 DEF Only, Used
  <2>5. Used(p)'
    BY <1>1, <2>1, <2>4 DEF Used, Parting, Past, Works, Trails, Ended, Tasks
  <2> QED
    BY <1>4, <2>5
<1> QED
  BY <1>5, <1>6

LEMMA RunProxy ==
  ASSUME ShapeAssumption, MonitorInv, NEW u \in Slots, NEW do, FlowEffect(u, do), RowEffect(u, do),
         Stores(u, do), ProxyOK
  PROVE  ProxyOK'
<1>1. Inv /\ Only(u) /\ overlapped \subseteq overlapped' /\ left \subseteq left' /\ Proxied \subseteq Pools
  BY DEF MonitorInv, ServedInv, FlowEffect, Stores, ShapeAssumption
<1>2. CASE do = "count"
  BY <1>2, CountProxy
<1>3. CASE do = "no_proxy"
  BY <1>3, DropProxy
<1>4. CASE do = "proxy" /\ Target(u) \in Proxied
  <2> SUFFICES ASSUME \A l \in LBs : Settled(l)'
      PROVE  \E p \in Proxied : Used(p)'
    BY DEF ProxyOK
  <2>1. \A l \in LBs : Settled(l)
    BY <1>1 DEF Settled
  <2>2. PICK p \in Pools : p = Target(u) /\ p \in Proxied
    BY <1>1, <1>4
  <2>3. Settled(LbOf[p])
    BY <2>1, <2>2 DEF ShapeAssumption
  <2>4. Used(p)'
    BY <1>4, <2>2, <2>3, PutProxyUsed
  <2> QED
    BY <2>2, <2>4
<1>5. CASE do \notin {"count", "no_proxy"} /\ ~(do = "proxy" /\ Target(u) \in Proxied)
  <2>1. proxy' => proxy
    BY <1>5 DEF Stores
  <2>2. \A p \in Proxied : pool[p] # "NEW" => pool'[p] # "NEW"
    BY <1>1, RunRows
  <2>3. ASSUME NEW p \in Proxied, Used(p) PROVE HasRow(pool'[p]) /\ ~Parting(flow'[u], p)
    <3>1. ~Parting(flow[u], p)
      BY <2>3 DEF Used
    <3>2. ~Parting(flow'[u], p)
      BY <1>1, <1>5, <2>3, <3>1, RunParting
    <3>3. ~(do = "no_row" /\ p = Target(u))
      <4> SUFFICES ASSUME do = "no_row", p = Target(u) PROVE FALSE
        OBVIOUS
      <4>1. PICK f \in Flows, g \in Flows : f = flow[u] /\ g = flow'[u]
        BY <1>1, Stage DEF FlowEffect, Walks
      <4>2. /\ Works(f) /\ f.step = "run" /\ f.cur = p /\ f.op \in Leaving /\ f.pc \in Nat
            /\ f.pc = IF f.op = "delete_pool" THEN 7 ELSE 8
        BY <1>1, <2>3, <4>1, ProxyPlace
      <4>3. Past(f, 5, 6) /\ Past(f, 3, 4)
        BY <4>2 DEF Past, Leaving
      <4> QED
        BY <3>1, <4>1, <4>2, <4>3 DEF Parting
    <3> QED
      BY <1>1, <2>3, <3>2, <3>3, RunRows DEF Used
  <2> QED
    BY <1>1, <2>1, <2>2, <2>3, ProxyFrame
<1> QED
  BY <1>2, <1>3, <1>4, <1>5

-----------------------------------------------------------------------------
(* A request, the start, the end and the failure of a flow, and its        *)
(* reverts, take no row away and no template.                              *)
LEMMA RequestProxy ==
  ASSUME ShapeAssumption, ServedInv, NEW u \in Slots, NEW f, Queued(f), Admit(u, f),
         f.op \in Leaving => f.pc = 1, ProxyOK,
         \A p \in Pools : (pool[p] # "NEW" => pool'[p] # "NEW") /\ (HasRow(pool[p]) => HasRow(pool'[p]))
  PROVE  ProxyOK'
<1>1. Only(u) /\ flow'[u] = f /\ overlapped \subseteq overlapped' /\ Proxied \subseteq Pools
  <2>1. PICK l : l = LbOfFlow(f)
    OBVIOUS
  <2> QED
    BY <2>1, Admitted DEF ServedInv, ShapeAssumption
<1>2. left' = left /\ proxy' = proxy
  BY DEF Admit, device
<1>3. ~Past(f, 5, 6) /\ ~Past(f, 3, 4)
  BY DEF Past, Leaving
<1>4. \A p \in Pools : ~Parting(flow'[u], p)
  BY <1>1, <1>3 DEF Parting
<1> QED
  BY <1>1, <1>2, <1>4, ProxyFrame DEF Used

LEMMA PoolRequestsProxy ==
  ASSUME ShapeAssumption, MonitorInv, NEW u \in Slots, NEW p \in Pools,
         \/ CreatePool(u, p) \/ UpdatePool(u, p) \/ DeletePool(u, p)
         \/ CreateMonitor(u, p) \/ UpdateMonitor(u, p) \/ DeleteMonitor(u, p),
         ProxyOK
  PROVE  ProxyOK'
<1>1. ServedInv /\ Inv
  BY DEF MonitorInv, ServedInv
<1>2. \E op, f : Asks(u, f, op, p) /\ pool'[p] \in {"PENDING", "DELETING"}
  <2>1. CASE CreatePool(u, p) \/ UpdatePool(u, p) \/ DeletePool(u, p)
    <3>1. /\ \E op \in PoolOps : \E f : /\ Asks(u, f, op, p)
                                        /\ op = "delete_pool" => f.monitored = Monitored({p})
          /\ pool'[p] \in {"PENDING", "DELETING"}
      BY <1>1, <2>1, AsksPool
    <3> QED
      BY <3>1
  <2>2. CASE CreateMonitor(u, p) \/ UpdateMonitor(u, p) \/ DeleteMonitor(u, p)
    <3>1. PICK op \in HmOps, status \in {"PENDING", "DELETING"} :
         \/ op = "create_hm" /\ status = "PENDING" /\ CreateMonitor(u, p)
         \/ op = "update_hm" /\ status = "PENDING" /\ UpdateMonitor(u, p)
         \/ op = "delete_hm" /\ status = "DELETING" /\ DeleteMonitor(u, p)
      BY <2>2 DEF HmOps
    <3>2. /\ \E f : Asks(u, f, op, p)
          /\ hm'[p] = status /\ \A r \in Pools \ {p} : hm'[r] = hm[r]
          /\ revived \subseteq revived' /\ (hm[p] = "ERROR" => <<"hm", p>> \in revived')
          /\ HasRow(pool[p]) /\ pool'[p] = "PENDING"
          /\ op = "update_hm" => HasRow(hm[p])
          /\ sp' = sp
      BY <1>1, <3>1, AsksMonitor
    <3> QED
      BY <3>2
  <2> QED
    BY <2>1, <2>2
<1>3. PICK op, f : Asks(u, f, op, p) /\ pool'[p] \in {"PENDING", "DELETING"}
  BY <1>2
<1>4. Queued(f) /\ Admit(u, f) /\ f.pc = 1 /\ \A q \in Pools \ {p} : pool'[q] = pool[q]
  BY <1>3 DEF Asks
<1> QED
  BY <1>1, <1>3, <1>4, RequestProxy DEF HasRow

LEMMA LbRequestsProxy ==
  ASSUME ShapeAssumption, MonitorInv, NEW u \in Slots, NEW l \in LBs,
         CreateLb(u, l) \/ DeleteLb(u, l), ProxyOK
  PROVE  ProxyOK'
<1>1. ASSUME NEW f, NEW op \in LbOps, NEW S, LbWaits(f, op, l, S), Admit(u, f),
             \A p \in Pools : pool'[p] \in {"PENDING", pool[p]}
      PROVE  ProxyOK'
  <2>1. Queued(f) /\ (f.op \in Leaving => f.pc = 1)
    BY <1>1 DEF LbWaits, Leaving, LbOps
  <2>2. \A p \in Pools : (pool[p] # "NEW" => pool'[p] # "NEW") /\ (HasRow(pool[p]) => HasRow(pool'[p]))
    BY <1>1 DEF HasRow
  <2> QED
    BY <1>1, <2>1, <2>2, RequestProxy DEF MonitorInv
<1>2. CASE CreateLb(u, l)
  <2>1. PICK mon \in SUBSET Under(l) :
          \E f \in NextPart(LbFlow("create_lb", l, Under(l), mon)) : Admit(u, f)
    BY <1>2 DEF CreateLb, Under
  <2>2. PICK f \in NextPart(LbFlow("create_lb", l, Under(l), mon)) : Admit(u, f)
    BY <2>1
  <2>3. mon \in SUBSET Pools /\ Under(l) \in SUBSET Under(l) /\ "create_lb" \in LbOps
    BY DEF Under, LbOps
  <2> DEFINE S == Under(l)
  <2>4. f \in NextPart(LbFlow("create_lb", l, S, mon)) /\ S \in SUBSET Under(l)
    OBVIOUS
  <2> HIDE DEF S
  <2>5. LbWaits(f, "create_lb", l, S)
    BY <2>3, <2>4, LbQueued
  <2>6. \A p \in Pools : pool'[p] \in {"PENDING", pool[p]}
    BY <1>2 DEF CreateLb
  <2> QED
    BY <1>1, <2>2, <2>3, <2>5, <2>6
<1>3. CASE DeleteLb(u, l)
  <2> DEFINE S == PoolsOf(l)
             M == Monitored(PoolsOf(l))
  <2>1. PICK f \in NextPart(LbFlow("delete_lb", l, S, M)) : Admit(u, f)
    BY <1>3 DEF DeleteLb
  <2>2. "delete_lb" \in LbOps /\ M \in SUBSET Pools /\ S \in SUBSET Under(l)
    BY DEF LbOps, Under, PoolsOf, Monitored
  <2> HIDE DEF S, M
  <2>3. LbWaits(f, "delete_lb", l, S)
    BY <2>1, <2>2, LbQueued
  <2>4. pool' = pool
    BY <1>3 DEF DeleteLb
  <2> QED
    BY <1>1, <2>1, <2>2, <2>3, <2>4
<1> QED
  BY <1>2, <1>3

LEMMA BeginProxy ==
  ASSUME ShapeAssumption, MonitorInv, NEW u \in Slots, Begin(u), ProxyOK
  PROVE  ProxyOK'
<1>1. /\ Inv /\ Only(u) /\ flow[u].step = "queued" /\ flow'[u].step = "run"
      /\ flow'[u].op = flow[u].op /\ flow'[u].last = flow[u].last
      /\ flow'[u].cur = flow[u].cur /\ flow'[u].pc = flow[u].pc
  BY BeginStep DEF MonitorInv, ServedInv
<1>2. UNCHANGED <<rows, device, hist>>
  BY DEF Begin
<1>3. pool' = pool /\ proxy' = proxy /\ overlapped' = overlapped /\ left' = left
  BY <1>2 DEF rows, device, hist
<1>4. ASSUME NEW p \in Proxied, Used(p) PROVE HasRow(pool'[p]) /\ ~Parting(flow'[u], p)
  <2>1. Works(flow[u]) /\ flow[u].step # "revert" /\ ~Parting(flow[u], p) /\ HasRow(pool[p])
    BY <1>1, <1>4 DEF Used, Works, Trails
  <2>2. PICK f, g : f = flow[u] /\ g = flow'[u]
    OBVIOUS
  <2>3. (Past(g, 5, 6) <=> Past(f, 5, 6)) /\ (Past(g, 3, 4) <=> Past(f, 3, 4))
    BY <1>1, <2>2 DEF Past
  <2> QED
    BY <1>1, <1>3, <2>1, <2>2, <2>3 DEF Parting
<1> QED
  BY <1>1, <1>3, <1>4, ProxyFrame

LEMMA FinishProxy ==
  ASSUME ShapeAssumption, MonitorInv, NEW u \in Slots, Finish(u), ProxyOK
  PROVE  ProxyOK'
<1>1. Only(u) /\ flow'[u] = Idle
  BY FinishStep DEF MonitorInv, ServedInv
<1>2. UNCHANGED <<rows, device, hist>>
  BY DEF Finish
<1>3. pool' = pool /\ proxy' = proxy /\ overlapped' = overlapped /\ left' = left
  BY <1>2 DEF rows, device, hist
<1>4. \A p \in Proxied : ~Parting(flow'[u], p)
  BY <1>1, IdleIs DEF Parting
<1> QED
  BY <1>1, <1>3, <1>4, ProxyFrame DEF Used

LEMMA SetRows ==
  ASSUME NEW st \in [Pools -> Statuses], NEW S, NEW to \in {"ACTIVE", "ERROR"}, NEW p \in Pools
  PROVE  /\ st[p] # "NEW" => Set(st, S, to)[p] # "NEW"
         /\ HasRow(st[p]) => HasRow(Set(st, S, to)[p])
  BY DEF Set, HasRow

LEMMA FailProxy ==
  ASSUME ShapeAssumption, MonitorInv, NEW u \in Slots, Fail(u), ProxyOK
  PROVE  ProxyOK'
<1>1. /\ Inv /\ Only(u) /\ flow'[u].step = "revert" /\ pool \in [Pools -> Statuses]
      /\ Proxied \subseteq Pools
  BY FailStep DEF MonitorInv, ServedInv, Inv, TypeOK, ShapeAssumption
<1>2. PICK g, l : g = flow'[u] /\ l = LbOfFlow(flow[u])
  OBVIOUS
<1>3. PICK S : pool' = Set(pool, S, "ERROR") /\ overlapped \subseteq overlapped'
  <2>1. /\ pool' = Set(pool, Did(g, "pool_active") \cup Did(g, "deleting"), "ERROR")
        /\ overlapped' = IF On(l) # {u} THEN overlapped \cup {l} ELSE overlapped
    BY <1>1, <1>2, FailEffects
  <2> QED
    BY <2>1
<1>4. left \subseteq left' /\ proxy' = proxy
  BY FailLeaves
<1>5. \A p \in Pools : /\ pool[p] # "NEW" => pool'[p] # "NEW"
                       /\ HasRow(pool[p]) => HasRow(pool'[p])
  BY <1>1, <1>3, SetRows
<1>6. \A p \in Proxied : ~Parting(flow'[u], p)
  BY <1>1 DEF Parting
<1> QED
  BY <1>1, <1>3, <1>4, <1>5, <1>6, ProxyFrame DEF Used

LEMMA RevertProxy ==
  ASSUME ShapeAssumption, MonitorInv, NEW u \in Slots, Revert(u), ProxyOK
  PROVE  ProxyOK'
<1>1. /\ Inv /\ FlowInv /\ Only(u) /\ flow'[u] = Idle /\ pool \in [Pools -> Statuses]
      /\ Proxied \subseteq Pools
  BY RevertTypes DEF MonitorInv, ServedInv, Inv, TypeOK, ShapeAssumption
<1>2. PICK f \in Flows : f = flow[u]
  BY <1>1 DEF FlowInv
<1>3. PICK l : l = LbOfFlow(f)
  OBVIOUS
<1>5. \A p \in Pools : /\ pool[p] # "NEW" => pool'[p] # "NEW"
                       /\ HasRow(pool[p]) => HasRow(pool'[p])
  BY <1>1, RevertRows, SetRows
<1>6. /\ left \subseteq left' /\ overlapped \subseteq overlapped' /\ proxy' = proxy
  <2>1. left \subseteq left' /\ proxy' = proxy
    BY <1>1, RevertDevice
  <2>2. overlapped' = IF On(l) # {u} THEN overlapped \cup {l} ELSE overlapped
    BY <1>1, <1>2, <1>3, RevertEffects
  <2> QED
    BY <2>1, <2>2
<1>7. \A p \in Proxied : ~Parting(flow'[u], p)
  BY <1>1, IdleIs DEF Parting
<1> QED
  BY <1>1, <1>5, <1>6, <1>7, ProxyFrame DEF Used

-----------------------------------------------------------------------------
LEMMA InitOrphan ==
  ASSUME ShapeAssumption, Init
  PROVE  OrphanInv
<1>1. MonitorInv /\ Proxied \subseteq Pools
  BY InitMonitor DEF ShapeAssumption
<1>2. /\ pool = [p \in Pools |-> IF p \in scene.exist THEN "ACTIVE" ELSE "NEW"]
      /\ pers = {} /\ monitors = {} /\ proxy = (scene.exist \cap Proxied # {})
      /\ flow = [s \in Slots |-> Idle]
  BY DEF Init
<1>3. \A s \in Slots : ~Works(flow[s])
  BY <1>2, IdleIs
<1>4. ASSUME NEW p \in Pools PROVE OrphanOK(p)
  <2>1. pool[p] # "GONE"
    BY <1>2
  <2> QED
    BY <1>2, <1>3, <2>1 DEF OrphanOK, Owned
<1>5. ASSUME proxy PROVE \E p \in Proxied : Used(p)
  <2>1. PICK p \in Proxied : p \in scene.exist
    BY <1>2, <1>5
  <2>2. HasRow(pool[p])
    BY <1>1, <1>2, <2>1 DEF HasRow
  <2> QED
    BY <1>3, <2>1, <2>2 DEF Used, Parting
<1> QED
  BY <1>1, <1>4, <1>5 DEF OrphanInv, ProxyOK

LEMMA StutterOrphan ==
  ASSUME UNCHANGED vars
  PROVE  /\ ProxyOK => ProxyOK'
         /\ \A p \in Pools : OrphanOK(p) => OrphanOK(p)'
<1>1. UNCHANGED <<rows, device, hist, flow>>
  BY DEF vars
<1>2. UNCHANGED <<pool, hm, sp, groups, pers, monitors, proxy, left, overlapped, flow>>
  BY <1>1 DEF rows, device, hist
<1>3. ProxyOK => ProxyOK'
  BY <1>2 DEF ProxyOK, Settled, Used, Parting, Past, Works, Trails, Ended, Tasks
<1>4. ASSUME NEW p \in Pools, OrphanOK(p) PROVE OrphanOK(p)'
  <2>1. \A f \in Flows : Cleared(f, p) => Cleared(f, p)'
    BY <1>2 DEF Cleared, Past
  <2>2. Owned(p) => Owned(p)'
    BY <1>2 DEF Owned
  <2> SUFFICES ASSUME Settled(LbOf[p]), p \notin left
      PROVE  /\ p \in pers => p \in sp \/ \E s \in Slots : Updating(flow[s], p)
             /\ Owned(p)'
             /\ \A s \in Slots, f \in Flows : f = flow[s] /\ Works(f) => Cleared(f, p)'
    BY <1>2 DEF OrphanOK, Settled, Updating
  <2> QED
    BY <1>4, <2>1, <2>2 DEF OrphanOK
<1> QED
  BY <1>3, <1>4

LEMMA RunOrphanInv ==
  ASSUME ShapeAssumption, OrphanInv, NEW u \in Slots, Run(u)
  PROVE  (\A p \in Pools : OrphanOK(p)') /\ ProxyOK'
<1>1. MonitorInv /\ ServedInv /\ Inv
  BY DEF OrphanInv, MonitorInv, ServedInv
<1>2. PICK do : FlowEffect(u, do) /\ Serves(u, do)
  BY <1>1, RunEffects DEF ServedInv
<1>3. Watches(u, do) /\ Stores(u, do) /\ RowEffect(u, do)
  BY <1>1, <1>2, RunWatches, RunStores DEF FlowEffect, Serves
<1> QED
  BY <1>1, <1>2, <1>3, RunOrphan, RunProxy DEF OrphanInv

LEMMA OrphanNext ==
  ASSUME ShapeAssumption, OrphanInv, [Next]_vars
  PROVE  OrphanInv'
<1>1. MonitorInv /\ MonitorInv' /\ ProxyOK
  BY MonitorNext DEF OrphanInv
<1>2. (\A q \in Pools : OrphanOK(q)') /\ ProxyOK'
  <2>1. CASE UNCHANGED vars
    BY <2>1, StutterOrphan DEF OrphanInv
  <2>2. ASSUME NEW s \in Slots, NEW p \in Pools,
               CreatePool(s, p) \/ UpdatePool(s, p) \/ DeletePool(s, p)
        PROVE  (\A q \in Pools : OrphanOK(q)') /\ ProxyOK'
    BY <1>1, <2>2, PoolRequestsOrphan, PoolRequestsProxy DEF OrphanInv
  <2>3. ASSUME NEW s \in Slots, NEW p \in Pools,
               CreateMonitor(s, p) \/ UpdateMonitor(s, p) \/ DeleteMonitor(s, p)
        PROVE  (\A q \in Pools : OrphanOK(q)') /\ ProxyOK'
    BY <1>1, <2>3, MonitorRequestsOrphan, PoolRequestsProxy DEF OrphanInv
  <2>4. ASSUME NEW s \in Slots, NEW l \in LBs, CreateLb(s, l) \/ DeleteLb(s, l)
        PROVE  (\A q \in Pools : OrphanOK(q)') /\ ProxyOK'
    BY <1>1, <2>4, CreateLbOrphan, DeleteLbOrphan, LbRequestsProxy DEF OrphanInv
  <2>5. ASSUME NEW s \in Slots, Run(s)
        PROVE  (\A q \in Pools : OrphanOK(q)') /\ ProxyOK'
    BY <2>5, RunOrphanInv
  <2>6. ASSUME NEW s \in Slots, Begin(s) \/ Finish(s) \/ Fail(s) \/ Revert(s)
        PROVE  (\A q \in Pools : OrphanOK(q)') /\ ProxyOK'
    <3>1. ASSUME NEW q \in Pools PROVE OrphanOK(q)'
      BY <1>1, <2>6, <3>1, BeginOrphan, FinishOrphan, FailOrphan, RevertOrphan DEF OrphanInv
    <3>2. ProxyOK'
      BY <1>1, <2>6, BeginProxy, FinishProxy, FailProxy, RevertProxy
    <3> QED
      BY <3>1, <3>2
  <2> QED
    BY <2>1, <2>2, <2>3, <2>4, <2>5, <2>6, Zenon DEF Next
<1> QED
  BY <1>1, <1>2 DEF OrphanInv

(* A pool that is GONE has taken its service group, its persistence        *)
(* template and its health monitor off the device with it, and the         *)
(* tcp-proxy template stays only while a pool uses it, whatever other      *)
(* requests are under way and fail, unless an object was left behind.      *)
THEOREM OrphansGone == Spec => []NoOrphanPool
<1>1. Init => OrphanInv
  BY InitOrphan, ShapeAssumption
<1>2. OrphanInv /\ [Next]_vars => OrphanInv'
  BY OrphanNext, ShapeAssumption
<1>3. OrphanInv => NoOrphanPool
  <2> SUFFICES ASSUME OrphanInv PROVE NoOrphanPool
    OBVIOUS
  <2>1. \A p \in Pools : pool[p] = "GONE" /\ Settled(LbOf[p]) /\ p \notin left =>
          p \notin groups \cup pers \cup monitors
    BY DEF OrphanInv, OrphanOK, Owned
  <2>2. ASSUME proxy, \A l \in LBs : Settled(l)
        PROVE  \E p \in Proxied : HasRow(pool[p]) \/ (pool[p] = "GONE" /\ p \in left)
    <3>1. PICK p \in Proxied : Used(p) \/ (Proxied \subseteq left /\ pool[p] # "NEW")
      BY <2>2 DEF OrphanInv, ProxyOK
    <3> QED
      BY <3>1 DEF Used, HasRow
  <2> QED
    BY <2>1, <2>2 DEF NoOrphanPool
<1> QED
  BY <1>1, <1>2, <1>3, PTL DEF Spec
=============================================================================
